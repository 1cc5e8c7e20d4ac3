--------------------------- MODULE PatchEngineProofs ---------------------------
(***************************************************************************)
(* What PatchEngine promises of a transaction, for every plan, every       *)
(* memory and every limit: all of a plan or nothing, and no plan that was  *)
(* validated fails because of what was validated.                          *)
(***************************************************************************)
EXTENDS PatchEngine, MemoryProofs, SequenceTheorems

USE PatchAssumption

-----------------------------------------------------------------------------
(* The operations of a plan.                                               *)

\* The size of an operation is a word, and its buffer has ByteCount bytes
\* (operation_size).
LEMMA OperationSizes ==
    ASSUME NEW operation, IsOperation(operation)
    PROVE  /\ ByteCount(operation) \in Word
           /\ operation.bytes \in Buffer(ByteCount(operation))
           /\ OperationSize(operation) \in Word
<1>1. PICK n \in Word : operation.bytes \in Buffer(n)
  BY DEF IsOperation
<1>2. n \in Nat /\ 0 \in Int /\ n - 1 \in Int
  BY WordAssumption DEF Word
<1>3. DOMAIN operation.bytes = 0..(n - 1)
  BY <1>1 DEF Buffer
<1>4. Cardinality(0..(n - 1)) = n
  <2>1. Cardinality(0..(n - 1)) = IF 0 > n - 1 THEN 0 ELSE (n - 1) - 0 + 1
    BY <1>2, FS_Interval
  <2> QED
    BY <1>2, <2>1
<1>5. ByteCount(operation) = n
  BY <1>3, <1>4 DEF ByteCount
<1>6. OperationSize(operation) \in Word
  BY <1>5 DEF OperationSize, IsOperation, OperationKinds
<1> QED
  BY <1>1, <1>5, <1>6

\* What an operation adds to the bytes that are counted.
Cost(operation) == IF Modifies(operation) THEN OperationSize(operation) ELSE 0

\* TotalWritten is the running total that validate and apply both keep.
LEMMA TotalsAddUp ==
    ASSUME NEW p, IsPlan(p)
    PROVE  LET n == Len(p.operations)
               total == TotalWritten(p.operations)
           IN  /\ total[0] = 0
               /\ \A i \in 1..n : total[i] = total[i - 1] + Cost(p.operations[i])
<1> DEFINE n == Len(p.operations)
           g == [k \in 1..n |-> Cost(p.operations[k])]
           Body(f) == [k \in 0..n |->
                         IF k = 0 THEN 0
                         ELSE f[k - 1] + IF Modifies(p.operations[k])
                                         THEN OperationSize(p.operations[k])
                                         ELSE 0]
           total == CHOOSE f : f = Body(f)
<1>1. n \in Nat
  BY DEF IsPlan
<1>2. \A k \in 1..n : g[k] \in Nat
  <2> TAKE k \in 1..n
  <2>1. OperationSize(p.operations[k]) \in Word
    BY OperationSizes DEF IsPlan
  <2> QED
    BY <2>1, WordAssumption DEF Cost, Word
<1>3. PICK f : f = [k \in 0..n |-> IF k = 0 THEN 0 ELSE f[k - 1] + g[k]]
  <2> HIDE DEF n, g
  <2> QED
    BY <1>1, <1>2, RunningTotals
<1>4. f = Body(f)
  <2>1. \A k \in 0..n : k # 0 =>
           g[k] = IF Modifies(p.operations[k])
                  THEN OperationSize(p.operations[k]) ELSE 0
    BY <1>1 DEF Cost
  <2> HIDE DEF g, n
  <2> QED
    BY <1>3, <2>1
<1>5. total = Body(total)
  <2> HIDE DEF Body
  <2> QED
    BY <1>4
<1>6. TotalWritten(p.operations) = total
  BY DEF TotalWritten
<1>7. total[0] = 0
  <2> HIDE DEF total, n
  <2> QED
    BY <1>1, <1>5
<1>8. \A i \in 1..n : total[i] = total[i - 1] + Cost(p.operations[i])
  <2> HIDE DEF total, n
  <2> QED
    BY <1>1, <1>5 DEF Cost
<1> HIDE DEF total, n
<1> QED
  BY <1>6, <1>7, <1>8 DEF n

\* The running totals are naturals.
LEMMA TotalsAreNat ==
    ASSUME NEW p, IsPlan(p), NEW i \in 0..Len(p.operations)
    PROVE  TotalWritten(p.operations)[i] \in Nat
<1> DEFINE n == Len(p.operations)
           total == TotalWritten(p.operations)
           S == {k \in Nat : k <= n => total[k] \in Nat}
<1>1. n \in Nat
  BY DEF IsPlan
<1>2. total[0] = 0
      /\ \A k \in 1..n : total[k] = total[k - 1] + Cost(p.operations[k])
  BY TotalsAddUp
<1>3. \A k \in 1..n : Cost(p.operations[k]) \in Nat
  <2> TAKE k \in 1..n
  <2>1. OperationSize(p.operations[k]) \in Word
    BY OperationSizes DEF IsPlan
  <2> QED
    BY <2>1, WordAssumption DEF Cost, Word
<1> HIDE DEF n, total
<1>4. 0 \in S
  BY <1>2
<1>5. ASSUME NEW k \in Nat, k \in S PROVE k + 1 \in S
  <2>1. CASE k + 1 <= n
    <3>1. k + 1 \in 1..n /\ (k + 1) - 1 = k /\ total[k] \in Nat
      BY <1>1, <1>5, <2>1
    <3>2. total[k + 1] = total[(k + 1) - 1] + Cost(p.operations[k + 1])
      BY <1>2, <3>1
    <3> QED
      BY <1>3, <3>1, <3>2
  <2>2. CASE ~(k + 1 <= n)
    BY <2>2
  <2> QED
    BY <2>1, <2>2
<1>6. Nat \subseteq S
  <2> HIDE DEF S
  <2> QED
    BY <1>4, <1>5, SetInduction
<1>7. i \in S /\ i <= n
  BY <1>1, <1>6 DEF n
<1> QED
  BY <1>7 DEF total

\* The verdict of validate on every operation of a plan, and on the number of
\* bytes the plan declares.
Validated(p, rs) ==
    LET total == TotalWritten(p.operations)
        n == Len(p.operations)
    IN  /\ \A i \in 1..n :
              OperationError(rs, p.operations[i], total[i - 1]) = "none"
        /\ p.bytes_written \in {0, total[n]}

\* validate reports no error only when it found none in any operation: the
\* loop returns at the first one.
LEMMA ValidateSeesAll ==
    ASSUME NEW p, NEW rs, IsPlan(p), ValidateError(p, rs) = "none"
    PROVE  Validated(p, rs)
<1> DEFINE n == Len(p.operations)
           total == TotalWritten(p.operations)
           error(i) == OperationError(rs, p.operations[i], total[i - 1])
           failing == {i \in 1..n : error(i) # "none"}
           first == CHOOSE i \in failing : \A j \in failing : i <= j
<1>1. n \in Nat /\ MaxOperations \in Nat
  BY DEF IsPlan
<1>2. ValidateError(p, rs) =
        CASE n > MaxOperations -> "resource_limit"
          [] n <= MaxOperations /\ failing # {} -> error(first)
          [] OTHER -> IF p.bytes_written \notin {0, total[n]}
                      THEN "invalid_relocation" ELSE "none"
  BY DEF ValidateError
<1>3. failing # {} => first \in failing
  <2> SUFFICES ASSUME failing # {} PROVE first \in failing
    OBVIOUS
  <2>1. failing \in SUBSET Nat
    BY <1>1
  <2> HIDE DEF failing
  <2>2. \E i \in failing : \A j \in failing : i <= j
    BY <2>1, LeastElement
  <2> QED
    BY <2>2
<1>4. failing # {} => error(first) # "none"
  <2> HIDE DEF first, total
  <2> QED
    BY <1>3
<1> DEFINE e1 == error(first)
<1> HIDE DEF n, total, failing, first, e1
<1>5. failing = {} /\ p.bytes_written \in {0, total[n]}
  <2>1. CASE n > MaxOperations
    <3>1. ~(n <= MaxOperations)
      BY <1>1, <2>1
    <3> QED
      BY <1>2, <2>1, <3>1
  <2>2. CASE n <= MaxOperations /\ failing # {}
    <3>1. ~(n > MaxOperations)
      BY <1>1, <2>2
    <3>2. ValidateError(p, rs) = e1
      BY <1>2, <2>2, <3>1 DEF e1
    <3> QED
      BY <1>4, <2>2, <3>2 DEF e1
  <2>3. CASE ~(n > MaxOperations) /\ failing = {}
    BY <1>2, <2>3
  <2> QED
    BY <1>1, <2>1, <2>2, <2>3
<1>6. \A i \in 1..n : error(i) = "none"
  BY <1>5 DEF failing
<1> QED
  BY <1>5, <1>6 DEF Validated, n, total

\* What validate has established about an operation it accepts.
LEMMA AcceptedOperation ==
    ASSUME NEW rs, NEW operation, NEW total,
           OperationError(rs, operation, total) = "none"
    PROVE  LET size == OperationSize(operation)
           IN  /\ SizeIsValid(operation)
               /\ size # 0
               /\ Target(rs, operation.address, size) # {}
               /\ operation.kind = "copy_bytes" =>
                     Target(rs, operation.source_address, size) # {}
BY DEF OperationError

\* What an accepted operation writes is a buffer of the size that was counted,
\* whichever of its fields the bytes come from.
LEMMA PayloadIsBuffer ==
    ASSUME NEW rs, IsRegions(rs), NEW operation, IsOperation(operation),
           Modifies(operation), SizeIsValid(operation),
           operation.kind = "copy_bytes" =>
              Target(rs, operation.source_address, OperationSize(operation)) # {}
    PROVE  Payload(rs, operation) \in Buffer(OperationSize(operation))
<1>1. /\ operation.kind \in {"write_bytes", "fill_bytes", "copy_bytes",
                             "write_integer"}
      /\ OperationSize(operation) \in Word
      /\ operation.source_address \in Word /\ operation.integer \in Word
      /\ operation.fill \in Byte
  BY OperationSizes DEF IsOperation, OperationKinds, Modifies
<1>2. CASE operation.kind = "write_bytes"
  <2>1. OperationSize(operation) = ByteCount(operation)
    BY <1>2 DEF OperationSize
  <2>2. Payload(rs, operation) = operation.bytes
    BY <1>2 DEF Payload
  <2> QED
    BY <2>1, <2>2, OperationSizes
<1>3. CASE operation.kind = "fill_bytes"
  <2> DEFINE size == OperationSize(operation)
  <2>1. Payload(rs, operation) = [i \in 0..(size - 1) |-> operation.fill]
    BY <1>3 DEF Payload
  <2> HIDE DEF size
  <2>2. Payload(rs, operation) \in Buffer(size)
    BY <1>1, <2>1 DEF Buffer
  <2> QED
    BY <2>2 DEF size
<1>4. CASE operation.kind = "write_integer"
  <2>1. OperationSize(operation) = operation.width /\ operation.width \in Width
    BY <1>4 DEF OperationSize, SizeIsValid
  <2>2. Payload(rs, operation)
          = Digits(operation.integer, operation.width, operation.byte_order)
    BY <1>4 DEF Payload
  <2> QED
    BY <1>1, <2>1, <2>2, DigitsAreBytes
<1>5. CASE operation.kind = "copy_bytes"
  <2> DEFINE size == OperationSize(operation)
  <2>1. Payload(rs, operation) = Slice(rs, operation.source_address, size)
    BY <1>5 DEF Payload
  <2>2. PICK b : b \in Target(rs, operation.source_address, size)
    BY <1>5
  <2> HIDE DEF size
  <2>3. size \in Word
    BY <1>1 DEF size
  <2>4. Slice(rs, operation.source_address, size) \in Buffer(size)
    BY <1>1, <2>2, <2>3, SliceOfTarget
  <2> QED
    BY <2>1, <2>4 DEF size
<1> QED
  BY <1>1, <1>2, <1>3, <1>4, <1>5

-----------------------------------------------------------------------------
(* The undo list.                                                          *)

IsEntry(entry) ==
    /\ entry.address \in Word
    /\ entry.size \in Word
    /\ entry.bytes \in Buffer(entry.size)

\* Covers, of any memory.
Hits(old, entry, b, i) ==
    /\ b \in Target(old, entry.address, entry.size)
    /\ entry.address - b <= i
    /\ i < (entry.address - b) + entry.size

\* Rolling the list back over now gives the bytes of old: the oldest entry
\* that hits a byte holds its value in old.
RollsBack(old, now, list) ==
    \A b \in DOMAIN old : \A i \in 0..(old[b].size - 1) :
        /\ (\A k \in 1..Len(list) : ~Hits(old, list[k], b, i))
              => now[b].bytes[i] = old[b].bytes[i]
        /\ \A k \in 1..Len(list) :
              /\ Hits(old, list[k], b, i)
              /\ \A j \in 1..(k - 1) : ~Hits(old, list[j], b, i)
              => list[k].bytes[i - (list[k].address - b)] = old[b].bytes[i]

\* The same regions, of the same sizes and with the same permissions.
SameLayout(old, now) ==
    /\ SameShape(old, now)
    /\ \A b \in DOMAIN old : now[b].perms = old[b].perms

IsUndo(old, list) ==
    /\ Len(list) \in Nat
    /\ \A k \in 1..Len(list) :
          /\ IsEntry(list[k])
          /\ Target(old, list[k].address, list[k].size) # {}

\* longer is list with entry at its end.
Lengthens(longer, list, entry) ==
    /\ Len(longer) = Len(list) + 1
    /\ \A k \in 1..Len(list) : longer[k] = list[k]
    /\ longer[Len(list) + 1] = entry

\* Saving the bytes of a range before it is overwritten, or not overwritten,
\* keeps the memory recoverable, however the range overlaps earlier ones.
LEMMA SaveThenWrite ==
    ASSUME NEW old, IsRegions(old), NEW now, IsRegions(now),
           SameLayout(old, now), NEW list, IsUndo(old, list),
           RollsBack(old, now, list),
           NEW entry, IsEntry(entry),
           Target(old, entry.address, entry.size) # {},
           entry.bytes = Slice(now, entry.address, entry.size),
           NEW longer, Lengthens(longer, list, entry),
           NEW data,
           NEW new, new \in {now, Written(now, entry.address, data, entry.size)}
    PROVE  RollsBack(old, new, longer) /\ IsUndo(old, longer)
<1> USE DEF Lengthens
<1> DEFINE n == Len(list)
           address == entry.address
           size == entry.size
<1>1. n \in Nat /\ address \in Word /\ size \in Word
  BY DEF IsUndo, IsEntry
<1>2. IsUndo(old, longer)
  <2>1. ASSUME NEW k \in 1..(n + 1)
        PROVE  IsEntry(longer[k])
               /\ Target(old, longer[k].address, longer[k].size) # {}
    <3>1. CASE k = n + 1
      BY <3>1
    <3>2. CASE k # n + 1
      <4>1. k \in 1..n
        BY <1>1, <3>2
      <4> QED
        BY <4>1 DEF IsUndo
    <3> QED
      BY <3>1, <3>2
  <2> QED
    BY <1>1, <2>1 DEF IsUndo
<1>3. PICK c : c \in Target(old, address, size)
  OBVIOUS
<1>4. Target(now, address, size) = Target(old, address, size)
  BY TargetOfShape DEF SameLayout
<1>5. \A j \in 0..(size - 1) :
         entry.bytes[j] = now[c].bytes[(address - c) + j]
  <2> HIDE DEF address, size
  <2>1. c \in Target(now, address, size)
    BY <1>3, <1>4
  <2>2. \A j \in 0..(size - 1) :
           Slice(now, address, size)[j] = now[c].bytes[(address - c) + j]
    BY <1>1, <2>1, SliceOfTarget
  <2> QED
    BY <2>2 DEF address, size
<1>6. /\ c \in DOMAIN old /\ address - c \in Nat
      /\ \A d \in Target(old, address, size) : d = c
  BY <1>1, <1>3, TargetIsOne
<1>7. ASSUME NEW b \in DOMAIN old, NEW i \in 0..(old[b].size - 1)
      PROVE  /\ (\A k \in 1..(n + 1) : ~Hits(old, longer[k], b, i))
                   => new[b].bytes[i] = old[b].bytes[i]
             /\ \A k \in 1..(n + 1) :
                   /\ Hits(old, longer[k], b, i)
                   /\ \A j \in 1..(k - 1) : ~Hits(old, longer[j], b, i)
                   => longer[k].bytes[i - (longer[k].address - b)]
                         = old[b].bytes[i]
  <2>1. \A k \in 1..n : Hits(old, longer[k], b, i) <=> Hits(old, list[k], b, i)
    OBVIOUS
  <2>2. /\ (\A k \in 1..n : ~Hits(old, list[k], b, i))
              => now[b].bytes[i] = old[b].bytes[i]
        /\ \A k \in 1..n :
              /\ Hits(old, list[k], b, i)
              /\ \A j \in 1..(k - 1) : ~Hits(old, list[j], b, i)
              => list[k].bytes[i - (list[k].address - b)] = old[b].bytes[i]
    BY DEF RollsBack
  <2>3. ASSUME \A k \in 1..(n + 1) : ~Hits(old, longer[k], b, i)
        PROVE  new[b].bytes[i] = old[b].bytes[i]
    <3>1. ~Hits(old, entry, b, i) /\ \A k \in 1..n : ~Hits(old, list[k], b, i)
      BY <1>1, <2>1, <2>3
    <3>2. now[b].bytes[i] = old[b].bytes[i]
      BY <2>2, <3>1
    <3>3. Written(now, address, data, size)[b].bytes[i] = now[b].bytes[i]
      <4>1. b \in DOMAIN now /\ i \in 0..(now[b].size - 1)
        BY DEF SameLayout, SameShape
      <4>2. ~(/\ b \in Target(now, address, size)
              /\ address - b <= i
              /\ i < (address - b) + size)
        BY <1>4, <3>1 DEF Hits
      <4> HIDE DEF address, size
      <4> QED
        BY <4>1, <4>2, WrittenByte
    <3> QED
      BY <3>2, <3>3
  <2>4. ASSUME NEW k \in 1..(n + 1), Hits(old, longer[k], b, i),
               \A j \in 1..(k - 1) : ~Hits(old, longer[j], b, i)
        PROVE  longer[k].bytes[i - (longer[k].address - b)] = old[b].bytes[i]
    <3>1. CASE k \in 1..n
      <4>1. \A j \in 1..(k - 1) : j \in 1..n
        BY <1>1, <3>1
      <4> QED
        BY <2>1, <2>2, <2>4, <3>1, <4>1
    <3>2. CASE k = n + 1
      <4>1. \A j \in 1..n : ~Hits(old, list[j], b, i)
        BY <1>1, <2>1, <2>4, <3>2
      <4>2. now[b].bytes[i] = old[b].bytes[i]
        BY <2>2, <4>1
      <4>3. Hits(old, entry, b, i)
        BY <2>4, <3>2
      <4>4. b = c /\ address - b <= i /\ i < (address - b) + size
        BY <1>6, <4>3 DEF Hits
      <4>5. old[b].size \in Nat /\ i \in Nat
        BY WordAssumption DEF IsRegions, IsRegion, Word
      <4>6. i - (address - b) \in 0..(size - 1)
        <5>1. size \in Nat /\ address - b \in Nat
          BY <1>1, <1>6, <4>4, WordAssumption DEF Word
        <5> HIDE DEF address, size
        <5> QED
          BY <4>4, <4>5, <5>1
      <4>7. (address - c) + (i - (address - b)) = i
        <5> HIDE DEF address
        <5> QED
          BY <1>6, <4>4, <4>5
      <4>8. entry.bytes[i - (address - b)] = now[b].bytes[i]
        BY <1>5, <4>4, <4>6, <4>7
      <4> QED
        BY <3>2, <4>2, <4>8
    <3> QED
      BY <1>1, <3>1, <3>2
  <2> QED
    BY <2>3, <2>4
<1> QED
  BY <1>2, <1>7 DEF RollsBack

\* Writing the latest entry back and dropping it keeps the memory recoverable.
LEMMA WriteBack ==
    ASSUME NEW old, IsRegions(old), NEW now, IsRegions(now),
           SameLayout(old, now), NEW list, IsUndo(old, list),
           RollsBack(old, now, list),
           Len(list) # 0,
           NEW shorter, Len(shorter) = Len(list) - 1,
           \A k \in 1..(Len(list) - 1) : shorter[k] = list[k]
    PROVE  LET entry == list[Len(list)]
               new == Written(now, entry.address, entry.bytes, entry.size)
           IN  RollsBack(old, new, shorter) /\ IsUndo(old, shorter)
<1> DEFINE n == Len(list)
           entry == list[n]
           new == Written(now, entry.address, entry.bytes, entry.size)
<1>1. n \in Nat /\ n - 1 \in Nat
  BY DEF IsUndo
<1>2. IsUndo(old, shorter)
  <2>1. ASSUME NEW k \in 1..Len(shorter)
        PROVE  IsEntry(shorter[k])
               /\ Target(old, shorter[k].address, shorter[k].size) # {}
    <3>1. k \in 1..n /\ shorter[k] = list[k]
      BY <1>1
    <3> QED
      BY <3>1 DEF IsUndo
  <2>2. Len(shorter) \in Nat
    BY <1>1
  <2> QED
    BY <2>1, <2>2 DEF IsUndo
<1>3. Target(now, entry.address, entry.size)
        = Target(old, entry.address, entry.size)
  BY TargetOfShape DEF SameLayout
<1>4. ASSUME NEW b \in DOMAIN old, NEW i \in 0..(old[b].size - 1)
      PROVE  /\ (\A k \in 1..(n - 1) : ~Hits(old, shorter[k], b, i))
                   => new[b].bytes[i] = old[b].bytes[i]
             /\ \A k \in 1..(n - 1) :
                   /\ Hits(old, shorter[k], b, i)
                   /\ \A j \in 1..(k - 1) : ~Hits(old, shorter[j], b, i)
                   => shorter[k].bytes[i - (shorter[k].address - b)]
                         = old[b].bytes[i]
  <2>1. \A k \in 1..(n - 1) : shorter[k] = list[k] /\ k \in 1..n
    BY <1>1
  <2>2. /\ (\A k \in 1..n : ~Hits(old, list[k], b, i))
              => now[b].bytes[i] = old[b].bytes[i]
        /\ \A k \in 1..n :
              /\ Hits(old, list[k], b, i)
              /\ \A j \in 1..(k - 1) : ~Hits(old, list[j], b, i)
              => list[k].bytes[i - (list[k].address - b)] = old[b].bytes[i]
    BY DEF RollsBack
  <2>3. new[b].bytes[i] = IF Hits(old, entry, b, i)
                          THEN entry.bytes[i - (entry.address - b)]
                          ELSE now[b].bytes[i]
    <3>1. b \in DOMAIN now /\ i \in 0..(now[b].size - 1)
      BY DEF SameLayout, SameShape
    <3> HIDE DEF entry
    <3> QED
      BY <1>3, <3>1, WrittenByte DEF Hits
  <2> HIDE DEF new
  <2>4. ASSUME \A k \in 1..(n - 1) : ~Hits(old, shorter[k], b, i)
        PROVE  new[b].bytes[i] = old[b].bytes[i]
    <3>1. \A k \in 1..(n - 1) : ~Hits(old, list[k], b, i)
      BY <2>1, <2>4
    <3>2. CASE Hits(old, entry, b, i)
      BY <1>1, <2>2, <2>3, <3>1, <3>2
    <3>3. CASE ~Hits(old, entry, b, i)
      <4>1. \A k \in 1..n : ~Hits(old, list[k], b, i)
        BY <1>1, <3>1, <3>3
      <4> QED
        BY <2>2, <2>3, <3>3, <4>1
    <3> QED
      BY <3>2, <3>3
  <2>5. ASSUME NEW k \in 1..(n - 1), Hits(old, shorter[k], b, i),
               \A j \in 1..(k - 1) : ~Hits(old, shorter[j], b, i)
        PROVE  shorter[k].bytes[i - (shorter[k].address - b)] = old[b].bytes[i]
    <3>1. \A j \in 1..(k - 1) : j \in 1..(n - 1)
      BY <1>1
    <3> QED
      BY <2>1, <2>2, <2>5, <3>1
  <2> QED
    BY <2>4, <2>5
<1>5. RollsBack(old, new, shorter)
  <2> HIDE DEF new
  <2> QED
    BY <1>4 DEF RollsBack
<1> QED
  BY <1>2, <1>5

-----------------------------------------------------------------------------
(* The inductive invariant.  Atomic alone is not inductive: that the       *)
(* memory is what it was holds at the end because at every step the undo   *)
(* list leads back to it, and the list can be written back because the     *)
(* layout, which decides where a write goes, never changes.                *)

Entries == [address : Word, size : Word, bytes : UNION {Buffer(n) : n \in Word}]

PatchTypeOK ==
    /\ IsRegions(regions)
    /\ IsRegions(before)
    /\ pc \in {"idle", "applying", "undoing"}
    /\ call \in DOMAIN Plans
    /\ undo \in Seq(Entries)
    /\ result = [error |-> result.error,
                 operations_applied |-> result.operations_applied,
                 bytes_written |-> result.bytes_written]

\* While a call runs, its undo list leads back to the memory it began with.
Recoverable ==
    pc # "idle" => /\ SameLayout(before, regions)
                   /\ IsUndo(before, undo)
                   /\ RollsBack(before, regions, undo)

\* Before the loop of apply reaches an operation it has counted those before
\* it, all of which, like the ones to come, passed validation on before.
Progress ==
    pc = "applying" =>
        /\ result.error = "none"
        /\ index \in 1..(Len(plan.operations) + 1)
        /\ Validated(plan, before)
        /\ result.operations_applied = index - 1
        /\ result.bytes_written = TotalWritten(plan.operations)[index - 1]

PatchInv ==
    /\ PatchTypeOK
    /\ Recoverable
    /\ Progress
    /\ ValidatedPlansFailLate
    /\ Atomic
    /\ Complete

\* The operation the loop is at fits the memory as it is now: validate saw it
\* fit the memory as it was, and the layout is the same.
LEMMA CurrentFits ==
    ASSUME PatchInv, Running
    PROVE  LET size == OperationSize(Current)
           IN  /\ index \in 1..Len(plan.operations)
               /\ IsPlan(plan)
               /\ IsOperation(Current)
               /\ size \in Word /\ size # 0
               /\ Current.address \in Word
               /\ SizeIsValid(Current)
               /\ Target(before, Current.address, size) # {}
               /\ Target(regions, Current.address, size) # {}
               /\ Current.kind = "copy_bytes" =>
                     Target(regions, Current.source_address, size) # {}
<1>1. /\ IsPlan(plan) /\ Len(plan.operations) \in Nat
      /\ SameShape(before, regions)
      /\ Validated(plan, before)
      /\ index \in 1..(Len(plan.operations) + 1)
      /\ index <= Len(plan.operations)
  BY DEF PatchInv, PatchTypeOK, Recoverable, Progress, Running, plan, IsPlan,
         SameLayout
<1>2. index \in 1..Len(plan.operations)
  BY <1>1
<1>3. IsOperation(Current)
  BY <1>1, <1>2 DEF IsPlan, Current
<1> DEFINE operation == Current
           size == OperationSize(operation)
<1>4. /\ SizeIsValid(operation)
      /\ size # 0
      /\ Target(before, operation.address, size) # {}
      /\ operation.kind = "copy_bytes" =>
            Target(before, operation.source_address, size) # {}
  <2>1. OperationError(before, operation,
                       TotalWritten(plan.operations)[index - 1]) = "none"
    BY <1>1, <1>2 DEF Validated, Current
  <2> HIDE DEF operation
  <2> QED
    BY <2>1, AcceptedOperation
<1>5. /\ Target(regions, operation.address, size)
            = Target(before, operation.address, size)
      /\ Target(regions, operation.source_address, size)
            = Target(before, operation.source_address, size)
  <2> HIDE DEF operation, size
  <2> QED
    BY <1>1, TargetOfShape
<1>6. size \in Word /\ operation.address \in Word
  <2> HIDE DEF operation
  <2>1. IsOperation(operation)
    BY <1>3 DEF operation
  <2> QED
    BY <2>1, OperationSizes DEF IsOperation
<1> QED
  BY <1>1, <1>2, <1>3, <1>4, <1>5, <1>6

\* The bytes apply saves are an undo entry.
LEMMA SavedIsEntry ==
    ASSUME PatchInv, Running
    PROVE  /\ Saved \in Entries
           /\ IsEntry(Saved)
           /\ Saved.address = Current.address
           /\ Saved.size = OperationSize(Current)
           /\ Saved.bytes = Slice(regions, Current.address,
                                  OperationSize(Current))
           /\ Target(before, Saved.address, Saved.size) # {}
<1> DEFINE size == OperationSize(Current)
           address == Current.address
<1>1. /\ size \in Word /\ address \in Word
      /\ Target(before, address, size) # {}
      /\ Target(regions, address, size) # {}
      /\ IsRegions(regions)
  BY CurrentFits DEF PatchInv, PatchTypeOK
<1>2. Saved = [address |-> address, size |-> size,
               bytes |-> Slice(regions, address, size)]
  BY DEF Saved
<1> HIDE DEF size, address
<1>3. Slice(regions, address, size) \in Buffer(size)
  BY <1>1, SliceOfTarget
<1>4. /\ Saved.address = address /\ Saved.size = size
      /\ Saved.bytes = Slice(regions, address, size)
  BY <1>2
<1>5. Saved \in Entries
  BY <1>1, <1>2, <1>3 DEF Entries
<1>6. IsEntry(Saved)
  BY <1>1, <1>3, <1>4 DEF IsEntry
<1> QED
  BY <1>1, <1>4, <1>5, <1>6 DEF size, address

-----------------------------------------------------------------------------
(* One lemma per action.                                                   *)

\* A memory before any call: nothing has been applied.
LEMMA InitHolds == Init => PatchInv
<1> SUFFICES ASSUME Init PROVE PatchInv
  OBVIOUS
<1>1. call \in DOMAIN Plans
  BY DEF Init
<1>2. /\ IsRegions(regions) /\ IsRegions(before)
      /\ undo \in Seq(Entries)
      /\ pc = "idle"
  BY DEF Init
<1>3. result.error = "not_called"
  BY DEF Init, Fresh
<1>4. PatchTypeOK
  BY <1>1, <1>2 DEF PatchTypeOK, Init, Fresh
<1> QED
  BY <1>2, <1>3, <1>4 DEF PatchInv, Recoverable, Progress,
        ValidatedPlansFailLate, Atomic, Complete, Init

\* An empty undo list leads back to the memory as it is.
LEMMA BeginKeeps ==
    ASSUME PatchInv, NEW c \in DOMAIN Plans, Begin(c)
    PROVE  PatchInv'
<1> DEFINE error == ApplyError(Plans[c], regions)
<1>1. /\ regions' = regions /\ before' = regions /\ call' = c /\ index' = 1
      /\ undo' = <<>> /\ result' = Fresh(error)
      /\ pc' = IF result'.error = "none" THEN "applying" ELSE "idle"
      /\ IsRegions(regions)
  BY DEF Begin, PatchInv, PatchTypeOK
<1>2. error = "none" => ValidateError(Plans[c], regions) = "none"
  BY DEF ApplyError
<1> HIDE DEF error
<1>3. /\ result'.error = error /\ result'.operations_applied = 0
      /\ result'.bytes_written = 0
      /\ result' = [error |-> error, operations_applied |-> 0,
                    bytes_written |-> 0]
  BY <1>1 DEF Fresh
<1>4. PatchTypeOK'
  BY <1>1, <1>3 DEF PatchTypeOK
<1>5. /\ SameLayout(regions, regions) /\ Len(<<>>) = 0
      /\ IsUndo(regions, <<>>) /\ RollsBack(regions, regions, <<>>)
  BY DEF SameLayout, SameShape, IsUndo, RollsBack
<1>6. Recoverable'
  BY <1>1, <1>5 DEF Recoverable
<1>7. Progress'
  <2> SUFFICES ASSUME pc' = "applying" PROVE Progress'
    BY DEF Progress
  <2>1. error = "none"
    BY <1>1, <1>3
  <2>2. IsPlan(Plans[c]) /\ Len(Plans[c].operations) \in Nat
    BY DEF IsPlan
  <2>3. Validated(Plans[c], regions)
    BY <1>2, <2>1, <2>2, ValidateSeesAll
  <2>4. TotalWritten(Plans[c].operations)[0] = 0
    BY <2>2, TotalsAddUp
  <2>5. plan' = Plans[c]
    BY <1>1 DEF plan
  <2>6. index' \in 1..(Len(Plans[c].operations) + 1) /\ index' - 1 = 0
    BY <1>1, <2>2
  <2> QED
    BY <1>1, <1>3, <2>1, <2>3, <2>4, <2>5, <2>6 DEF Progress
<1>8. ValidatedPlansFailLate' /\ Atomic' /\ Complete'
  BY <1>1, <1>3 DEF ValidatedPlansFailLate, Atomic, Complete
<1> QED
  BY <1>4, <1>6, <1>7, <1>8 DEF PatchInv

\* A mapped range that may not be read is the only reason a read can fail.
LEMMA ReadsFailOnPermission ==
    ASSUME NEW rs, NEW address, NEW size, Target(rs, address, size) # {},
           ReadError(rs, address, size) # "none"
    PROVE  ReadError(rs, address, size) = "permission_denied"
BY DEF ReadError

\* Starting the rollback for one of the two late reasons.
LEMMA StartUndoKeeps ==
    ASSUME PatchInv, pc = "applying",
           NEW error \in {"permission_denied", "invalid_header"},
           StartUndo(error), UNCHANGED <<call, before>>,
           undo' \in Seq(Entries),
           IsUndo(before, undo'), RollsBack(before, regions, undo')
    PROVE  PatchInv'
<1>1. /\ pc' = "undoing" /\ regions' = regions /\ index' = index
      /\ result' = [result EXCEPT !.error = error]
      /\ call' = call /\ before' = before
  BY DEF StartUndo
<1>2. result = [error |-> result.error,
                operations_applied |-> result.operations_applied,
                bytes_written |-> result.bytes_written]
  BY DEF PatchInv, PatchTypeOK
<1>3. /\ result'.error = error
      /\ result' = [error |-> result'.error,
                    operations_applied |-> result'.operations_applied,
                    bytes_written |-> result'.bytes_written]
  BY <1>1, <1>2
<1>4. PatchTypeOK'
  BY <1>1, <1>3 DEF PatchInv, PatchTypeOK
<1>5. Recoverable'
  BY <1>1 DEF PatchInv, Recoverable
<1>6. Progress' /\ ValidatedPlansFailLate' /\ Atomic' /\ Complete'
  BY <1>1, <1>3 DEF Progress, ValidatedPlansFailLate, Atomic, Complete
<1> QED
  BY <1>4, <1>5, <1>6 DEF PatchInv

\* The bytes about to change are mapped, so only their permissions can keep
\* them from being read.
LEMMA ReadBeforeFailsKeeps ==
    ASSUME PatchInv, ReadBeforeFails
    PROVE  PatchInv'
<1> DEFINE error == ReadError(regions, Current.address, OperationSize(Current))
<1>1. /\ Running /\ pc = "applying" /\ error # "none" /\ StartUndo(error)
      /\ undo' = undo /\ UNCHANGED <<call, before>>
  BY DEF ReadBeforeFails, Running
<1>2. Target(regions, Current.address, OperationSize(Current)) # {}
  BY <1>1, CurrentFits
<1>3. error = "permission_denied"
  BY <1>1, <1>2, ReadsFailOnPermission
<1>4. undo' \in Seq(Entries) /\ IsUndo(before, undo')
      /\ RollsBack(before, regions, undo')
  BY <1>1 DEF PatchInv, PatchTypeOK, Recoverable
<1> HIDE DEF error
<1> QED
  BY <1>1, <1>3, <1>4, StartUndoKeeps

\* What the totals become when the loop moves on.
LEMMA MovesOn ==
    ASSUME PatchInv, Running, index' = index + 1, pc' = pc,
           UNCHANGED <<call, before>>,
           result' = [error |-> result.error,
                      operations_applied |-> result.operations_applied + 1,
                      bytes_written |-> result.bytes_written + Cost(Current)],
           IsRegions(regions'), SameLayout(before, regions'),
           undo' \in Seq(Entries), IsUndo(before, undo'),
           RollsBack(before, regions', undo')
    PROVE  PatchInv'
<1>1. /\ pc = "applying" /\ index \in 1..Len(plan.operations) /\ IsPlan(plan)
      /\ Len(plan.operations) \in Nat
  BY CurrentFits DEF Running, IsPlan
<1>2. /\ result'.error = result.error
      /\ result'.operations_applied = result.operations_applied + 1
      /\ result'.bytes_written = result.bytes_written + Cost(Current)
  OBVIOUS
<1>3. PatchTypeOK'
  BY <1>2 DEF PatchInv, PatchTypeOK
<1>4. Recoverable'
  BY DEF Recoverable
<1>5. Progress'
  <2>1. plan' = plan
    BY DEF plan
  <2>2. TotalWritten(plan.operations)[index]
          = TotalWritten(plan.operations)[index - 1] + Cost(Current)
    BY <1>1, TotalsAddUp DEF Current
  <2>3. /\ result.error = "none" /\ Validated(plan, before)
        /\ result.operations_applied = index - 1
        /\ result.bytes_written = TotalWritten(plan.operations)[index - 1]
    BY <1>1 DEF PatchInv, Progress
  <2>4. /\ index' \in 1..(Len(plan.operations) + 1)
        /\ index' - 1 = index /\ (index - 1) + 1 = index
    BY <1>1
  <2> QED
    BY <1>2, <2>1, <2>2, <2>3, <2>4 DEF Progress
<1>6. ValidatedPlansFailLate' /\ Atomic' /\ Complete'
  BY <1>1 DEF ValidatedPlansFailLate, Atomic, Complete
<1> QED
  BY <1>3, <1>4, <1>5, <1>6 DEF PatchInv

\* assert_bytes changes nothing but the count, or starts the rollback.
LEMMA AssertBytesKeeps ==
    ASSUME PatchInv, AssertBytes
    PROVE  PatchInv'
<1>1. /\ Running /\ pc = "applying" /\ ~Modifies(Current)
      /\ undo' = undo /\ UNCHANGED <<call, before>>
  BY DEF AssertBytes, Running
<1>2. /\ IsRegions(regions) /\ SameLayout(before, regions)
      /\ undo \in Seq(Entries) /\ IsUndo(before, undo)
      /\ RollsBack(before, regions, undo)
      /\ result = [error |-> result.error,
                   operations_applied |-> result.operations_applied,
                   bytes_written |-> result.bytes_written]
  BY <1>1 DEF PatchInv, PatchTypeOK, Recoverable
<1>3. CASE StartUndo("invalid_header")
  BY <1>1, <1>2, <1>3, StartUndoKeeps
<1>4. CASE /\ result' = [result EXCEPT !.operations_applied = @ + 1]
           /\ index' = index + 1
           /\ UNCHANGED <<regions, pc>>
  <2>1. result.bytes_written \in Nat
    <3>1. /\ index - 1 \in 0..Len(plan.operations)
          /\ IsPlan(plan)
          /\ result.bytes_written = TotalWritten(plan.operations)[index - 1]
      BY <1>1, CurrentFits DEF PatchInv, Progress, IsPlan
    <3> QED
      BY <3>1, TotalsAreNat
  <2>2. Cost(Current) = 0
    BY <1>1 DEF Cost
  <2>3. result' = [error |-> result.error,
                   operations_applied |-> result.operations_applied + 1,
                   bytes_written |-> result.bytes_written + Cost(Current)]
    BY <1>2, <1>4, <2>1, <2>2
  <2> QED
    BY <1>1, <1>2, <1>4, <2>3, MovesOn
<1> QED
  BY <1>3, <1>4 DEF AssertBytes

\* An operation is carried out after its bytes were saved; the read of a copy
\* is all that can still fail.
LEMMA CarryOutKeeps ==
    ASSUME PatchInv, CarryOut
    PROVE  PatchInv'
<1> DEFINE error == CarryOutError(regions, Current)
           size == OperationSize(Current)
           address == Current.address
           data == Payload(regions, Current)
           new == Written(regions, address, data, size)
<1>1. /\ Running /\ pc = "applying" /\ Modifies(Current)
      /\ undo' = Append(undo, Saved) /\ UNCHANGED <<call, before>>
  BY DEF CarryOut, Running
<1>2. /\ IsRegions(regions) /\ IsRegions(before)
      /\ SameLayout(before, regions)
      /\ undo \in Seq(Entries) /\ IsUndo(before, undo)
      /\ RollsBack(before, regions, undo)
      /\ result = [error |-> result.error,
                   operations_applied |-> result.operations_applied,
                   bytes_written |-> result.bytes_written]
  BY <1>1 DEF PatchInv, PatchTypeOK, Recoverable
<1>3. /\ IsOperation(Current) /\ SizeIsValid(Current)
      /\ size \in Word /\ size # 0 /\ address \in Word
      /\ Target(regions, address, size) # {}
      /\ Current.kind = "copy_bytes" =>
            Target(regions, Current.source_address, size) # {}
  BY <1>1, CurrentFits
<1>4. /\ Saved \in Entries /\ IsEntry(Saved)
      /\ Saved.address = address /\ Saved.size = size
      /\ Saved.bytes = Slice(regions, address, size)
      /\ Target(before, Saved.address, Saved.size) # {}
  BY <1>1, SavedIsEntry
<1>5. /\ undo' \in Seq(Entries) /\ Len(undo') = Len(undo) + 1
      /\ undo'[Len(undo) + 1] = Saved
      /\ \A k \in 1..Len(undo) : undo'[k] = undo[k]
  <2> DEFINE saved == Saved
             list == undo
             longer == undo'
  <2>1. list \in Seq(Entries) /\ saved \in Entries
        /\ longer = Append(list, saved)
    BY <1>1, <1>2, <1>4
  <2> HIDE DEF saved, list, longer
  <2>2. /\ longer \in Seq(Entries) /\ Len(longer) = Len(list) + 1
        /\ longer[Len(list) + 1] = saved
        /\ \A k \in 1..Len(list) : longer[k] = list[k]
    BY <2>1, AppendProperties
  <2> QED
    BY <2>2 DEF saved, list, longer
<1>6. data \in Buffer(size)
  BY <1>1, <1>2, <1>3, PayloadIsBuffer
<1>7. ASSUME NEW now, now \in {regions, new}
      PROVE  RollsBack(before, now, undo') /\ IsUndo(before, undo')
  <2> DEFINE saved == Saved
             list == undo
             longer == undo'
             rs == regions
             old == before
  <2>1. /\ IsRegions(old) /\ IsRegions(rs) /\ SameLayout(old, rs)
        /\ IsUndo(old, list) /\ RollsBack(old, rs, list)
        /\ IsEntry(saved) /\ Target(old, saved.address, saved.size) # {}
        /\ saved.bytes = Slice(rs, saved.address, saved.size)
        /\ Lengthens(longer, list, saved)
        /\ now \in {rs, Written(rs, saved.address, data, saved.size)}
    BY <1>2, <1>4, <1>5, <1>7 DEF Lengthens
  <2> HIDE DEF saved, list, longer, rs, old, data
  <2>2. RollsBack(old, now, longer) /\ IsUndo(old, longer)
    BY <2>1, SaveThenWrite
  <2> QED
    BY <2>2 DEF list, longer, rs, old
<1>8. CASE error = "none" /\ regions' = new
           /\ result' = [result EXCEPT !.operations_applied = @ + 1,
                                       !.bytes_written = @ + size]
           /\ index' = index + 1
           /\ UNCHANGED pc
  <2> HIDE DEF error
  <2>1. /\ IsRegions(new)
        /\ SameShape(regions, new)
        /\ \A b \in DOMAIN regions : new[b].perms = regions[b].perms
    <3> HIDE DEF data, size, address
    <3> QED
      BY <1>2, <1>3, <1>6, WriteKeepsRegions
  <2> HIDE DEF new
  <2>2. SameLayout(before, new)
    BY <1>2, <2>1 DEF SameLayout, SameShape
  <2>3. Cost(Current) = size
    BY <1>1 DEF Cost
  <2> HIDE DEF size
  <2>4. result' = [error |-> result.error,
                   operations_applied |-> result.operations_applied + 1,
                   bytes_written |-> result.bytes_written + Cost(Current)]
    BY <1>2, <1>8, <2>3
  <2>5. RollsBack(before, regions', undo') /\ IsUndo(before, undo')
    BY <1>7, <1>8
  <2> QED
    BY <1>1, <1>5, <1>8, <2>1, <2>2, <2>4, <2>5, MovesOn
<1>9. CASE error # "none" /\ StartUndo(error)
  <2>1. error = "permission_denied"
    <3>1. CASE /\ Current.kind = "copy_bytes"
               /\ ReadError(regions, Current.source_address, size) # "none"
      <4>1. error = ReadError(regions, Current.source_address, size)
        BY <3>1 DEF CarryOutError
      <4> HIDE DEF error, size
      <4> QED
        BY <1>3, <3>1, <4>1, ReadsFailOnPermission
    <3>2. CASE ~(/\ Current.kind = "copy_bytes"
                 /\ ReadError(regions, Current.source_address, size) # "none")
      <4>1. error = WriteError(regions, address, size, TRUE)
        BY <3>2 DEF CarryOutError
      <4>2. WriteError(regions, address, size, TRUE) = "none"
        BY <1>3 DEF WriteError
      <4> QED
        BY <1>9, <4>1, <4>2
    <3> QED
      BY <3>1, <3>2
  <2> HIDE DEF error
  <2>2. RollsBack(before, regions, undo') /\ IsUndo(before, undo')
    BY <1>7
  <2> QED
    BY <1>1, <1>5, <1>9, <2>1, <2>2, StartUndoKeeps
<1> HIDE DEF error, new
<1>10. \/ /\ error = "none" /\ regions' = new
          /\ result' = [result EXCEPT !.operations_applied = @ + 1,
                                      !.bytes_written = @ + size]
          /\ index' = index + 1
          /\ UNCHANGED pc
       \/ error # "none" /\ StartUndo(error)
  BY DEF CarryOut, error, new
<1> QED
  BY <1>8, <1>9, <1>10

\* One write of the rollback: it cannot fail, and it leaves the rest of the
\* list leading back to the same memory.
LEMMA UndoOneKeeps ==
    ASSUME PatchInv, UndoOne
    PROVE  PatchInv'
<1> DEFINE n == Len(undo)
           entry == undo[n]
           new == Written(regions, entry.address, entry.bytes, entry.size)
<1>1. /\ pc = "undoing" /\ undo # <<>>
      /\ undo' = SubSeq(undo, 1, n - 1)
      /\ pc' = pc /\ call' = call /\ index' = index /\ result' = result
      /\ before' = before
      /\ regions' =
           IF WriteError(regions, entry.address, entry.size, TRUE) = "none"
           THEN new ELSE regions
  BY DEF UndoOne
<1>2. /\ IsRegions(regions) /\ IsRegions(before)
      /\ SameLayout(before, regions)
      /\ undo \in Seq(Entries) /\ IsUndo(before, undo)
      /\ RollsBack(before, regions, undo)
  BY <1>1 DEF PatchInv, PatchTypeOK, Recoverable
<1>3. n \in Nat /\ n # 0 /\ n \in 1..n
  BY <1>1, <1>2, EmptySeq
<1>4. IsEntry(entry) /\ Target(before, entry.address, entry.size) # {}
  BY <1>2, <1>3 DEF IsUndo
<1>5. Target(regions, entry.address, entry.size) # {}
  BY <1>2, <1>4, TargetOfShape DEF SameLayout
<1>6. regions' = new
  <2>1. WriteError(regions, entry.address, entry.size, TRUE) = "none"
    BY <1>5 DEF WriteError
  <2> HIDE DEF new
  <2> QED
    BY <1>1, <2>1
<1>7. /\ undo' \in Seq(Entries) /\ Len(undo') = n - 1
      /\ \A k \in 1..(n - 1) : undo'[k] = undo[k]
  <2> DEFINE list == undo
             shorter == undo'
             m == n - 1
  <2>1. /\ list \in Seq(Entries) /\ shorter = SubSeq(list, 1, m)
        /\ m \in Nat /\ m <= Len(list) /\ Len(list) \in Nat
    BY <1>1, <1>2, <1>3
  <2> HIDE DEF list, shorter, m
  <2>2. /\ shorter \in Seq(Entries) /\ Len(shorter) = m
        /\ \A k \in 1..m : shorter[k] = list[k]
    BY <2>1
  <2> QED
    BY <2>2 DEF list, shorter, m
<1>8. RollsBack(before, new, undo') /\ IsUndo(before, undo')
  <2> DEFINE list == undo
             shorter == undo'
             rs == regions
             old == before
  <2>1. /\ IsRegions(old) /\ IsRegions(rs) /\ SameLayout(old, rs)
        /\ IsUndo(old, list) /\ RollsBack(old, rs, list)
        /\ Len(list) # 0 /\ Len(shorter) = Len(list) - 1
        /\ \A k \in 1..(Len(list) - 1) : shorter[k] = list[k]
    BY <1>2, <1>3, <1>7
  <2>2. new = LET e == list[Len(list)]
              IN  Written(rs, e.address, e.bytes, e.size)
    OBVIOUS
  <2> HIDE DEF list, shorter, rs, old, new
  <2>3. RollsBack(old, new, shorter) /\ IsUndo(old, shorter)
    BY <2>1, <2>2, WriteBack
  <2> QED
    BY <2>3 DEF shorter, old
<1>9. /\ IsRegions(new)
      /\ SameShape(regions, new)
      /\ \A b \in DOMAIN regions : new[b].perms = regions[b].perms
  <2> HIDE DEF entry
  <2> QED
    BY <1>2, <1>4, WriteKeepsRegions DEF IsEntry
<1> HIDE DEF new
<1>10. SameLayout(before, new)
  BY <1>2, <1>9 DEF SameLayout, SameShape
<1>11. PatchTypeOK'
  BY <1>1, <1>6, <1>7, <1>9 DEF PatchInv, PatchTypeOK
<1>12. Recoverable'
  BY <1>1, <1>6, <1>8, <1>10 DEF Recoverable
<1>13. Progress' /\ ValidatedPlansFailLate' /\ Atomic' /\ Complete'
  BY <1>1 DEF PatchInv, Progress, ValidatedPlansFailLate, Atomic, Complete
<1> QED
  BY <1>11, <1>12, <1>13 DEF PatchInv

\* The rollback is over: a list without entries leads back only from the
\* memory itself.
LEMMA FailKeeps ==
    ASSUME PatchInv, Fail
    PROVE  PatchInv'
<1>1. /\ pc = "undoing" /\ undo = <<>> /\ pc' = "idle"
      /\ regions' = regions /\ call' = call /\ index' = index
      /\ undo' = undo /\ result' = result /\ before' = before
  BY DEF Fail
<1>2. /\ IsRegions(regions) /\ IsRegions(before)
      /\ SameLayout(before, regions)
      /\ RollsBack(before, regions, undo)
      /\ result.error # "none"
  BY <1>1 DEF PatchInv, PatchTypeOK, Recoverable, ValidatedPlansFailLate
<1>3. \A b \in DOMAIN before : \A i \in 0..(before[b].size - 1) :
         regions[b].bytes[i] = before[b].bytes[i]
  <2>1. \A k \in 1..Len(undo) : FALSE
    BY <1>1
  <2> QED
    BY <1>2, <2>1 DEF RollsBack
<1>4. regions = before
  BY <1>2, <1>3, SameMemory DEF SameLayout
<1>5. Atomic' /\ Complete'
  BY <1>1, <1>2, <1>4 DEF Atomic, Complete
<1>6. PatchTypeOK'
  BY <1>1 DEF PatchInv, PatchTypeOK
<1>7. Recoverable' /\ Progress' /\ ValidatedPlansFailLate'
  BY <1>1 DEF Recoverable, Progress, ValidatedPlansFailLate
<1> QED
  BY <1>5, <1>6, <1>7 DEF PatchInv

\* The loop is over: it has counted every operation.
LEMMA FinishKeeps ==
    ASSUME PatchInv, Finish
    PROVE  PatchInv'
<1>1. /\ pc = "applying" /\ index > Len(plan.operations) /\ pc' = "idle"
      /\ regions' = regions /\ call' = call /\ index' = index
      /\ undo' = undo /\ result' = result /\ before' = before
      /\ plan' = plan
  BY DEF Finish, plan
<1>2. /\ IsPlan(plan) /\ Len(plan.operations) \in Nat
      /\ SameLayout(before, regions)
      /\ result.error = "none"
      /\ index \in 1..(Len(plan.operations) + 1)
      /\ Validated(plan, before)
      /\ result.operations_applied = index - 1
      /\ result.bytes_written = TotalWritten(plan.operations)[index - 1]
  BY <1>1 DEF PatchInv, PatchTypeOK, Recoverable, Progress, plan, IsPlan
<1>3. index - 1 = Len(plan.operations)
  BY <1>1, <1>2
<1>4. plan.bytes_written \in {0, result.bytes_written}
  BY <1>2, <1>3 DEF Validated
<1>5. Atomic' /\ Complete'
  BY <1>1, <1>2, <1>3, <1>4 DEF Atomic, Complete, SameLayout, SameShape
<1>6. PatchTypeOK'
  BY <1>1 DEF PatchInv, PatchTypeOK
<1>7. Recoverable' /\ Progress' /\ ValidatedPlansFailLate'
  BY <1>1 DEF Recoverable, Progress, ValidatedPlansFailLate
<1> QED
  BY <1>5, <1>6, <1>7 DEF PatchInv

-----------------------------------------------------------------------------
(* The theorems.                                                           *)

\* Every step of apply keeps the invariant.
THEOREM PatchInvariant == Spec => []PatchInv
<1>1. Init => PatchInv
  BY InitHolds
<1>2. PatchInv /\ [Next]_vars => PatchInv'
  <2> SUFFICES ASSUME PatchInv, [Next]_vars PROVE PatchInv'
    OBVIOUS
  <2>1. ASSUME NEW c \in DOMAIN Plans, Begin(c) PROVE PatchInv'
    BY <2>1, BeginKeeps
  <2>2. CASE ReadBeforeFails
    BY <2>2, ReadBeforeFailsKeeps
  <2>3. CASE AssertBytes
    BY <2>3, AssertBytesKeeps
  <2>4. CASE CarryOut
    BY <2>4, CarryOutKeeps
  <2>5. CASE UndoOne
    BY <2>5, UndoOneKeeps
  <2>6. CASE Fail
    BY <2>6, FailKeeps
  <2>7. CASE Finish
    BY <2>7, FinishKeeps
  <2>8. CASE UNCHANGED vars
    BY <2>8 DEF vars, PatchInv, PatchTypeOK, Recoverable, Progress,
                ValidatedPlansFailLate, Atomic, Complete, plan
  <2> QED
    BY <2>1, <2>2, <2>3, <2>4, <2>5, <2>6, <2>7, <2>8 DEF Next, Step
<1> QED
  BY <1>1, <1>2, PTL DEF Spec

\* Whatever the plan and however its operations overlap, a call of apply that
\* returns an error has left the memory byte for byte as it was.
THEOREM ApplyIsAtomic == Spec => []Atomic
<1>1. PatchInv => Atomic
  BY DEF PatchInv
<1> QED
  BY <1>1, PatchInvariant, PTL

\* A call of apply that succeeds carried out the whole plan, counted its bytes
\* and kept the layout and the permissions of the memory.
THEOREM ApplyIsComplete == Spec => []Complete
<1>1. PatchInv => Complete
  BY DEF PatchInv
<1> QED
  BY <1>1, PatchInvariant, PTL

\* After validation a plan fails on a permission or an assertion only: what
\* validate found mapped is still mapped when the loop gets there.
THEOREM ValidationIsNotStale == Spec => []ValidatedPlansFailLate
<1>1. PatchInv => ValidatedPlansFailLate
  BY DEF PatchInv
<1> QED
  BY <1>1, PatchInvariant, PTL

\* At every step of a call the undo list leads back to the memory at its
\* beginning: the oldest entry of a byte holds its first value.
THEOREM UndoListIsSufficient == Spec => []UndoRestores
<1>1. PatchInv => UndoRestores
  <2>1. PatchInv /\ pc # "idle" => RollsBack(before, regions, undo)
    BY DEF PatchInv, Recoverable
  <2> QED
    BY <2>1 DEF UndoRestores, RollsBack, Covers, Hits
<1> QED
  BY <1>1, PatchInvariant, PTL
================================================================================
