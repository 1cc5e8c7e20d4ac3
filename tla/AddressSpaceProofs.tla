-------------------------- MODULE AddressSpaceProofs --------------------------
(***************************************************************************)
(* The safety invariants of AddressSpace, for every size of the word, of   *)
(* the byte and of the limit, and for every sequence of calls; and that it *)
(* implements FlatMemory: seen from its calls, the ordered map of regions  *)
(* with its neighbour checks, its predecessor search and its byte counter  *)
(* is an array with one cell per address.                                  *)
(***************************************************************************)
EXTENDS AddressSpace, MemoryProofs

\* The three invariants support each other: the neighbour checks of map only
\* prove a range free when the regions are disjoint and well formed, and the
\* account is only exact when what map adds was free.
IInv == TypeOK /\ NoOverlap /\ Accounting

USE AddressSpaceAssumption DEF Order

-----------------------------------------------------------------------------

\* Every call of map returns one of its codes.
LEMMA MapErrorCodes ==
    ASSUME NEW rs, NEW mapped, NEW base, NEW size
    PROVE  MapError(rs, mapped, Limit, base, size) \in
             {"none", "invalid_segment", "address_overflow", "resource_limit",
              "mapping_overlap"}
BY DEF MapError

\* The invariant says that the memory is sound, and that the last call
\* returned a code.
LEMMA InvariantIsSound == IInv <=> TypeOK /\ Sound(regions, mapped_bytes, Limit)
BY DEF IInv, TypeOK, NoOverlap, Accounting, Sound

\* A new address space satisfies the invariant.
LEMMA InitInvariant == Init => IInv
<1>1. Sound(NoRegions, 0, Limit)
  BY EmptyMemory
<1> QED
  BY <1>1 DEF Sound, Init, IInv, TypeOK, NoOverlap, Accounting, Status, Outcome

\* The codes a call may return.
Codes == {"none", "invalid_segment", "address_overflow", "resource_limit",
          "mapping_overlap", "mapping_missing", "permission_denied",
          "invalid_relocation"}

\* A call that leaves the layout alone keeps the invariant.
LEMMA SameShapeInvariant ==
    ASSUME IInv, IsRegions(regions'), SameShape(regions, regions'),
           mapped_bytes' = mapped_bytes, last'.error \in Codes
    PROVE  IInv'
<1>1. Disjoint(regions') /\ MappedAddresses(regions') = MappedAddresses(regions)
  BY ShapeDecides DEF IInv, NoOverlap
<1> QED
  BY <1>1 DEF IInv, TypeOK, NoOverlap, Accounting, Codes

\* A call of map, allowed or refused, keeps the invariant.
LEMMA MapInvariant ==
    ASSUME IInv, NEW base \in Word, NEW size \in Word, NEW perms \in Perms,
           Map(base, size, perms)
    PROVE  IInv'
<1> DEFINE error == MapError(regions, mapped_bytes, Limit, base, size)
<1>1. last'.error = error /\ error \in Codes
  BY MapErrorCodes DEF Map, Status, Outcome, Codes
<1>2. Sound(regions, mapped_bytes, Limit) /\ perms \in SUBSET Permission
      /\ IsRegions(regions)
  BY InvariantIsSound DEF Sound
<1>3. CASE error = "none"
  <2>1. /\ regions' = Mapped(regions, base, size, perms)
        /\ mapped_bytes' = mapped_bytes + size
    BY <1>3 DEF Map
  <2>2. Sound(regions', mapped_bytes', Limit)
    BY <1>2, <1>3, <2>1, MapKeepsSound
  <2> QED
    BY <1>1, <2>2 DEF Sound, IInv, TypeOK, NoOverlap, Accounting, Codes
<1>4. CASE error # "none"
  <2>1. UNCHANGED <<regions, mapped_bytes>>
    BY <1>4 DEF Map
  <2> QED
    BY <1>1, <1>2, <2>1, SameShapeInvariant DEF SameShape
<1> QED
  BY <1>3, <1>4

\* A call of unmap keeps the invariant: the bytes it takes out of the account
\* are the addresses that are no longer mapped.
LEMMA UnmapInvariant ==
    ASSUME IInv, NEW base \in Word, Unmap(base)
    PROVE  IInv'
<1>1. Sound(regions, mapped_bytes, Limit) /\ IsRegions(regions)
  BY InvariantIsSound DEF Sound
<1>2. CASE base \in DOMAIN regions
  <2>1. /\ regions' = Unmapped(regions, base)
        /\ mapped_bytes' = mapped_bytes - regions[base].size
        /\ last'.error = "none"
    BY <1>2 DEF Unmap, Status, Outcome
  <2>2. Sound(regions', mapped_bytes', Limit)
    BY <1>1, <1>2, <2>1, UnmapKeepsSound
  <2> QED
    BY <2>1, <2>2 DEF Sound, IInv, TypeOK, NoOverlap, Accounting
<1>3. CASE base \notin DOMAIN regions
  <2>1. UNCHANGED <<regions, mapped_bytes>> /\ last'.error \in Codes
    BY <1>3 DEF Unmap, Status, Outcome, Codes
  <2> QED
    BY <1>1, <2>1, SameShapeInvariant DEF SameShape
<1> QED
  BY <1>2, <1>3

\* A call of protect keeps the invariant.
LEMMA ProtectInvariant ==
    ASSUME IInv, NEW base \in Word, NEW size \in Word, NEW perms \in Perms,
           Protect(base, size, perms)
    PROVE  IInv'
<1>1. IsRegions(regions) /\ perms \in SUBSET Permission
  BY DEF IInv, TypeOK
<1>2. mapped_bytes' = mapped_bytes /\ last'.error \in Codes
  BY DEF Protect, Status, Outcome, ProtectError, Codes
<1>3. CASE ProtectError(regions, base, size) = "none"
  <2>1. base \in DOMAIN regions
    BY <1>3 DEF ProtectError, RegionAt
  <2>2. regions' = [regions EXCEPT ![base].perms = perms]
    BY <1>3 DEF Protect
  <2> QED
    BY <1>1, <1>2, <2>1, <2>2, ProtectKeepsRegions, SameShapeInvariant
<1>4. CASE ProtectError(regions, base, size) # "none"
  <2>1. regions' = regions
    BY <1>4 DEF Protect
  <2> QED
    BY <1>1, <1>2, <2>1, SameShapeInvariant DEF SameShape
<1> QED
  BY <1>3, <1>4

\* Writes of buffers and of integers.
LEMMA WriteInvariant ==
    ASSUME IInv, NEW address \in Word, NEW size \in Word,
           NEW data \in Buffer(size), NEW ignore \in BOOLEAN,
           NEW call, WriteBytes(call, address, data, size, ignore)
    PROVE  IInv'
<1>1. IsRegions(regions)
  BY DEF IInv, TypeOK
<1>2. mapped_bytes' = mapped_bytes /\ last'.error \in Codes
  BY DEF WriteBytes, Status, Outcome, WriteError, Codes
<1>3. CASE regions' = regions
  BY <1>1, <1>2, <1>3, SameShapeInvariant DEF SameShape
<1>4. CASE regions' = Written(regions, address, data, size)
  BY <1>1, <1>2, <1>4, WriteKeepsRegions, SameShapeInvariant
<1> QED
  BY <1>3, <1>4 DEF WriteBytes

\* Every call keeps the invariant.
LEMMA NextInvariant == IInv /\ [Next]_vars => IInv'
<1> SUFFICES ASSUME IInv, [Next]_vars PROVE IInv'
  OBVIOUS
<1> USE DEF Width
<1>1. ASSUME NEW base \in Word, NEW size \in Sizes, NEW perms \in Perms,
             Map(base, size, perms)
      PROVE  IInv'
  BY <1>1, MapInvariant
<1>2. ASSUME NEW base \in Word, Unmap(base) PROVE IInv'
  BY <1>2, UnmapInvariant
<1>3. ASSUME NEW base \in Word, NEW size \in Sizes, NEW perms \in Perms,
             Protect(base, size, perms)
      PROVE  IInv'
  BY <1>3, ProtectInvariant
<1>4. ASSUME NEW address \in Word, NEW size \in Sizes, Read(address, size)
      PROVE  IInv'
  <2>1. regions' = regions /\ mapped_bytes' = mapped_bytes
    BY <1>4 DEF Read
  <2>2. last'.error \in Codes
    BY <1>4 DEF Read, Status, Outcome, ReadError, Codes
  <2> QED
    BY <2>1, <2>2, SameShapeInvariant DEF SameShape, IInv, TypeOK
<1>5. ASSUME NEW address \in Word, NEW size \in Sizes, NEW ignore \in BOOLEAN,
             NEW data \in Buffer(size), Write(address, data, size, ignore)
      PROVE  IInv'
  BY <1>5, WriteInvariant DEF Write
<1>6. ASSUME NEW address \in Word, NEW width \in Sizes, NEW order \in Order,
             ReadInteger(address, width, order)
      PROVE  IInv'
  <2>1. regions' = regions /\ mapped_bytes' = mapped_bytes
    BY <1>6 DEF ReadInteger
  <2>2. last'.error \in Codes
    BY <1>6 DEF ReadInteger, Status, Outcome, ReadError, Codes
  <2> QED
    BY <2>1, <2>2, SameShapeInvariant DEF SameShape, IInv, TypeOK
<1>7. ASSUME NEW address \in Word, NEW width \in Sizes, NEW value \in Values,
             NEW order \in Order, NEW ignore \in BOOLEAN,
             WriteInteger(address, width, order, value, ignore)
      PROVE  IInv'
  <2>1. CASE width \notin Width
    <3>1. /\ regions' = regions /\ mapped_bytes' = mapped_bytes
          /\ last'.error \in Codes
      BY <1>7, <2>1 DEF WriteInteger, Status, Outcome, Codes
    <3> QED
      BY <3>1, SameShapeInvariant DEF SameShape, IInv, TypeOK
  <2>2. CASE width \in Width
    <3>1. \E call : WriteBytes(call, address, Digits(value, width, order),
                               width, ignore)
      BY <1>7, <2>2 DEF WriteInteger
    <3>2. Digits(value, width, order) \in Buffer(width)
      BY <2>2, DigitsAreBytes
    <3> QED
      BY <3>1, <3>2, WriteInvariant
  <2> QED
    BY <2>1, <2>2
<1>8. CASE Clear
  <2>1. regions' = NoRegions /\ mapped_bytes' = 0 /\ last' = Status(<<"clear">>, "none")
    BY <1>8 DEF Clear
  <2> QED
    BY <2>1, EmptyMemory
       DEF Sound, IInv, TypeOK, NoOverlap, Accounting, Status, Outcome
<1>9. CASE UNCHANGED vars
  BY <1>9 DEF vars, IInv, TypeOK, NoOverlap, Accounting
<1> QED
  BY <1>1, <1>2, <1>3, <1>4, <1>5, <1>6, <1>7, <1>8, <1>9 DEF Next

\* Whatever calls are made, in whatever order, with whatever arguments: the
\* invariant holds.
THEOREM Invariant == Spec => []IInv
<1>1. Init => IInv
  BY InitInvariant
<1>2. IInv /\ [Next]_vars => IInv'
  BY NextInvariant
<1> QED
  BY <1>1, <1>2, PTL DEF Spec

\* regions_ stays well formed: every region has size bytes.
THEOREM TypeCorrect == Spec => []TypeOK
<1>1. IInv => TypeOK
  BY DEF IInv
<1> QED
  BY <1>1, Invariant, PTL

\* Checking two neighbours keeps all regions disjoint.
THEOREM RegionsNeverOverlap == Spec => []NoOverlap
<1>1. IInv => NoOverlap
  BY DEF IInv
<1> QED
  BY <1>1, Invariant, PTL

\* mapped_bytes_ is always the number of mapped addresses and never exceeds
\* the limit.
THEOREM AccountIsExact == Spec => []Accounting
<1>1. IInv => Accounting
  BY DEF IInv
<1> QED
  BY <1>1, Invariant, PTL

HIDE AddressSpaceAssumption DEF Order

-----------------------------------------------------------------------------
(* The integer of a sequence of bytes.                                     *)

\* The sum of the digits by their weights, as FlatMemory defines it.
Positional(data, width, order) ==
    LET weight(i) == Radix^(IF order = "little" THEN i ELSE width - 1 - i)
        sum[n \in 0..width] ==
            IF n = 0 THEN 0 ELSE sum[n - 1] + data[n - 1] * weight(n - 1)
    IN  sum[width]

\* The loop of read_integer, which multiplies and adds from the most significant
\* byte on, computes that sum in either byte order.
LEMMA AccumulateIsPositional ==
    ASSUME NEW width \in Width, NEW data \in Buffer(width), NEW order
    PROVE  Accumulate(data, width, order) = Positional(data, width, order)
<1> DEFINE weight(i) == Radix^(IF order = "little" THEN i ELSE width - 1 - i)
           g == [n \in 1..width |-> data[n - 1] * weight(n - 1)]
           h == [k \in 1..width |-> IF order = "little" THEN data[width - k]
                                    ELSE data[k - 1]]
           SumBody(f) == [n \in 0..width |->
                  IF n = 0 THEN 0 ELSE f[n - 1] + data[n - 1] * weight(n - 1)]
           sum == CHOOSE f : f = SumBody(f)
           byte(k) == IF order = "little" THEN data[width - k] ELSE data[k - 1]
           ValueBody(f) == [k \in 0..width |->
                  IF k = 0 THEN 0 ELSE f[k - 1] * Radix + byte(k)]
           value == CHOOSE f : f = ValueBody(f)
<1>1. width \in Nat /\ width \in 1..8 /\ Radix \in Nat /\ Radix > 0
  BY WordAssumption DEF Width
<1>2. \A i \in 0..(width - 1) : data[i] \in Nat
  BY WordAssumption DEF Buffer, Byte
<1>3. \A i \in 0..8 : Radix^i \in Nat
  BY PowerAssumption
<1>4. \A i \in 0..(width - 1) : weight(i) \in Nat
  <2> TAKE i \in 0..(width - 1)
  <2>1. i \in 0..8 /\ width - 1 - i \in 0..8
    BY <1>1
  <2> QED
    BY <1>3, <2>1
<1>5. sum = SumBody(sum)
  <2>1. \A n \in 1..width : g[n] \in Nat
    <3> TAKE n \in 1..width
    <3>1. n - 1 \in 0..(width - 1)
      BY <1>1
    <3> HIDE DEF weight
    <3>2. data[n - 1] \in Nat /\ weight(n - 1) \in Nat
      BY <1>2, <1>4, <3>1
    <3> QED
      BY <3>2
  <2>2. PICK f : f = [n \in 0..width |-> IF n = 0 THEN 0 ELSE f[n - 1] + g[n]]
    <3> HIDE DEF g
    <3> QED
      BY <1>1, <2>1, RunningTotals
  <2>3. f = SumBody(f)
    <3>1. \A n \in 0..width : n # 0 => g[n] = data[n - 1] * weight(n - 1)
      BY <1>1
    <3> HIDE DEF g, weight
    <3> QED
      BY <2>2, <3>1
  <2> HIDE DEF SumBody
  <2> QED
    BY <2>3
<1>6. value = ValueBody(value)
  <2>1. PICK f : IsHorner(f, width, h)
    <3> HIDE DEF h
    <3> QED
      BY <1>1, HornerExists
  <2>2. f = ValueBody(f)
    <3>1. \A k \in 0..width : k # 0 => h[k] = byte(k)
      BY <1>1
    <3> HIDE DEF h, byte
    <3> QED
      BY <2>1, <3>1 DEF IsHorner
  <2> HIDE DEF ValueBody
  <2> QED
    BY <2>2
<1>7. /\ sum[0] = 0
      /\ \A n \in 1..width : sum[n] = sum[n - 1] + data[n - 1] * weight(n - 1)
  <2> HIDE DEF sum, weight
  <2> QED
    BY <1>1, <1>5
<1>8. /\ value[0] = 0
      /\ \A k \in 1..width : value[k] = value[k - 1] * Radix + byte(k)
  <2>1. 0 \in 0..width /\ \A k \in 1..width : k \in 0..width /\ k # 0
    BY <1>1
  <2> HIDE DEF value, byte
  <2>2. value[0] = 0
    BY <1>6, <2>1
  <2>3. \A k \in 1..width : value[k] = value[k - 1] * Radix + byte(k)
    BY <1>6, <2>1
  <2> QED
    BY <2>2, <2>3
<1> HIDE DEF sum, value
<1>9. \A n \in 0..width : sum[n] \in Nat
  <2> DEFINE S == {n \in Nat : n <= width => sum[n] \in Nat}
  <2> HIDE DEF weight
  <2>1. 0 \in S
    BY <1>7
  <2>2. ASSUME NEW n \in Nat, n \in S PROVE n + 1 \in S
    <3>1. SUFFICES ASSUME n + 1 <= width PROVE sum[n + 1] \in Nat
      OBVIOUS
    <3>2. n + 1 \in 1..width /\ (n + 1) - 1 = n /\ n \in 0..(width - 1)
          /\ sum[n] \in Nat
      BY <1>1, <2>2, <3>1
    <3>3. sum[n + 1] = sum[n] + data[n] * weight(n)
      BY <1>7, <3>2
    <3>4. data[n] \in Nat /\ weight(n) \in Nat
      BY <1>2, <1>4, <3>2
    <3> QED
      BY <3>2, <3>3, <3>4
  <2>3. Nat \subseteq S
    <3> HIDE DEF S
    <3> QED
      BY <2>1, <2>2, SetInduction
  <2> QED
    BY <1>1, <2>3
<1>10. \A k \in 1..width : byte(k) \in Nat
  <2> TAKE k \in 1..width
  <2>1. width - k \in 0..(width - 1) /\ k - 1 \in 0..(width - 1)
    BY <1>1
  <2> QED
    BY <1>2, <2>1
<1>11. \A k \in 0..width : value[k] \in Nat
  <2> DEFINE S == {k \in Nat : k <= width => value[k] \in Nat}
  <2> HIDE DEF byte
  <2>1. 0 \in S
    BY <1>8
  <2>2. ASSUME NEW k \in Nat, k \in S PROVE k + 1 \in S
    <3>1. SUFFICES ASSUME k + 1 <= width PROVE value[k + 1] \in Nat
      OBVIOUS
    <3>2. k + 1 \in 1..width /\ (k + 1) - 1 = k /\ value[k] \in Nat
      BY <1>1, <2>2, <3>1
    <3>3. value[k + 1] = value[k] * Radix + byte(k + 1)
      BY <1>8, <3>2
    <3> QED
      BY <1>1, <1>10, <3>2, <3>3
  <2>3. Nat \subseteq S
    <3> HIDE DEF S
    <3> QED
      BY <2>1, <2>2, SetInduction
  <2> QED
    BY <1>1, <2>3
<1>12. ASSUME NEW k \in 1..width
       PROVE  value[k] * Radix^(width - k)
                = value[k - 1] * Radix^(width - (k - 1)) + byte(k) * Radix^(width - k)
  <2> DEFINE p == Radix^(width - k)
             v == value[k - 1]
             b == byte(k)
  <2>1. /\ width - k \in 0..7 /\ width - (k - 1) = (width - k) + 1
        /\ width - k \in 0..8 /\ k - 1 \in 0..width
    BY <1>1
  <2>2. p \in Nat /\ Radix^(width - (k - 1)) = p * Radix
    BY <2>1, PowerAssumption
  <2>3. v \in Nat /\ b \in Nat /\ value[k] = v * Radix + b
    BY <1>8, <1>10, <1>11, <2>1
  <2> HIDE DEF p, v, b
  <2>4. (v * Radix + b) * p = v * (p * Radix) + b * p
    BY <1>1, <2>2, <2>3
  <2> QED
    BY <2>2, <2>3, <2>4 DEF p, v, b
<1>13. Radix^(width - width) = 1 /\ width \in 0..width
  BY <1>1, PowerAssumption
<1>14. CASE order = "little"
  <2> DEFINE p(k) == Radix^(width - k)
             S == {k \in Nat : k <= width =>
                      sum[width] = sum[width - k] + value[k] * p(k)}
  <2>1. 0 \in S
    <3>1. width - 0 = width /\ width \in 0..8 /\ width \in 0..width
      BY <1>1
    <3>2. Radix^width \in Nat /\ sum[width] \in Nat
      BY <1>3, <1>9, <3>1
    <3>3. sum[width] = sum[width] + 0 * Radix^width
      BY <3>2
    <3> QED
      BY <1>8, <3>1, <3>3
  <2>2. ASSUME NEW k \in Nat, k \in S PROVE k + 1 \in S
    <3>1. SUFFICES ASSUME k + 1 <= width
                   PROVE  sum[width] = sum[width - (k + 1)] + value[k + 1] * p(k + 1)
      OBVIOUS
    <3> DEFINE n == width - k
    <3>2. /\ k + 1 \in 1..width /\ (k + 1) - 1 = k /\ n \in 1..width
          /\ n - 1 = width - (k + 1) /\ n - 1 \in 0..(width - 1) /\ n - 1 \in 0..8
          /\ n - 1 \in 0..width /\ k \in 0..width /\ n \in 0..8
      BY <1>1, <3>1
    <3>3. sum[width] = sum[n] + value[k] * p(k)
      BY <2>2, <3>2
    <3>4. sum[n] = sum[n - 1] + data[n - 1] * Radix^(n - 1)
      BY <1>7, <1>14, <3>2
    <3>5. value[k + 1] * p(k + 1) = value[k] * p(k) + byte(k + 1) * p(k + 1)
      BY <1>12, <3>2
    <3>6. byte(k + 1) = data[n - 1] /\ p(k + 1) = Radix^(n - 1) /\ p(k) = Radix^n
      BY <1>14, <3>2
    <3> DEFINE x == value[k] * p(k)
               y == data[n - 1] * Radix^(n - 1)
    <3>7. x \in Int /\ y \in Int /\ sum[n - 1] \in Int
      <4>1. value[k] \in Int /\ p(k) \in Int
        BY <1>3, <1>11, <3>2, <3>6
      <4>2. data[n - 1] \in Int /\ Radix^(n - 1) \in Int
        BY <1>2, <1>3, <3>2
      <4> HIDE DEF p
      <4> QED
        BY <1>9, <3>2, <4>1, <4>2
    <3>8. value[k + 1] * p(k + 1) = x + y
      BY <3>5, <3>6
    <3>9. sum[width] = (sum[n - 1] + y) + x
      BY <3>3, <3>4
    <3> HIDE DEF x, y, p, n
    <3>10. sum[width] = sum[n - 1] + (x + y)
      BY <3>7, <3>9
    <3> QED
      BY <3>2, <3>8, <3>10
  <2>3. Nat \subseteq S
    <3> HIDE DEF S
    <3> QED
      BY <2>1, <2>2, SetInduction
  <2>4. sum[width] = sum[width - width] + value[width] * p(width)
    BY <1>1, <2>3
  <2>5. width - width = 0
    BY <1>1
  <2>6. sum[width] = 0 + value[width] * 1
    BY <1>7, <1>13, <2>4, <2>5
  <2>7. value[width] \in Nat
    BY <1>11, <1>13
  <2> QED
    BY <2>6, <2>7 DEF Accumulate, Positional, sum, value
<1>15. CASE order # "little"
  <2> DEFINE p(k) == Radix^(width - k)
             S == {k \in Nat : k <= width => sum[k] = value[k] * p(k)}
  <2>1. 0 \in S
    <3>1. width - 0 = width /\ Radix^width \in Nat
      BY <1>1, <1>3
    <3>2. 0 = 0 * Radix^width
      BY <3>1
    <3> QED
      BY <1>7, <1>8, <3>1, <3>2
  <2>2. ASSUME NEW k \in Nat, k \in S PROVE k + 1 \in S
    <3>1. SUFFICES ASSUME k + 1 <= width PROVE sum[k + 1] = value[k + 1] * p(k + 1)
      OBVIOUS
    <3>2. /\ k + 1 \in 1..width /\ (k + 1) - 1 = k
          /\ width - 1 - k = width - (k + 1)
      BY <1>1, <3>1
    <3>3. sum[k] = value[k] * p(k)
      <4>1. k <= width
        BY <1>1, <3>1
      <4> HIDE DEF p
      <4> QED
        BY <2>2, <4>1
    <3>4. sum[k + 1] = sum[k] + data[k] * p(k + 1)
      BY <1>7, <1>15, <3>2
    <3>5. value[k + 1] * p(k + 1) = value[k] * p(k) + byte(k + 1) * p(k + 1)
      BY <1>12, <3>2
    <3>6. byte(k + 1) = data[k]
      BY <1>15, <3>2
    <3> QED
      BY <3>3, <3>4, <3>5, <3>6
  <2>3. Nat \subseteq S
    <3> HIDE DEF S
    <3> QED
      BY <2>1, <2>2, SetInduction
  <2>4. sum[width] = value[width] * p(width)
    BY <1>1, <2>3
  <2>5. value[width] \in Nat
    BY <1>11, <1>13
  <2>6. sum[width] = value[width] * 1
    BY <1>13, <2>4
  <2> QED
    BY <2>5, <2>6 DEF Accumulate, Positional, sum, value
<1> QED
  BY <1>14, <1>15

-----------------------------------------------------------------------------
(* The array a memory stands for.                                          *)

\* The contents of address a when it belongs to the region at b.
CellOf(rs, b, a) == [owner |-> b, perms |-> rs[b].perms, byte |-> rs[b].bytes[a - b]]

\* FlatCells of a memory that is given.
FlatOf(rs) ==
    [a \in Word |->
        {CellOf(rs, b, a) : b \in {c \in DOMAIN rs : a \in Cells(rs, c)}}]

\* An address in the cells of a region holds what that region says of it, and
\* nothing else: the regions share no address.
LEMMA FlatCell ==
    ASSUME NEW rs, Tidy(rs), NEW b \in DOMAIN rs, NEW a \in Cells(rs, b)
    PROVE  a \in Word /\ FlatOf(rs)[a] = {CellOf(rs, b, a)}
<1>1. a \in Word
  <2>1. b \in Word /\ rs[b].size \in Word /\ AddFits(b, rs[b].size)
    BY DEF Tidy, IsRegions, IsRegion, Disjoint
  <2> QED
    BY <2>1, WordAssumption DEF Cells, Word, AddFits
<1>2. {c \in DOMAIN rs : a \in Cells(rs, c)} = {b}
  BY DEF Tidy, Disjoint
<1> QED
  BY <1>1, <1>2 DEF FlatOf

\* An address that no region occupies is a free cell.
LEMMA FlatFree ==
    ASSUME NEW rs, NEW a \in Word, a \notin MappedAddresses(rs)
    PROVE  FlatOf(rs)[a] = {}
<1>1. {c \in DOMAIN rs : a \in Cells(rs, c)} = {}
  BY DEF MappedAddresses
<1> QED
  BY <1>1 DEF FlatOf

\* An address is mapped when some region has it.
LEMMA MappedMeans ==
    ASSUME NEW rs, NEW a
    PROVE  a \in MappedAddresses(rs) <=> \E b \in DOMAIN rs : a \in Cells(rs, b)
BY DEF MappedAddresses

\* The refinement mapping of AddressSpace, in terms of FlatOf.
LEMMA FlatCellsIs == FlatCells = FlatOf(regions) /\ FlatCells' = FlatOf(regions')
BY DEF FlatCells, FlatOf, CellOf

\* The words of FlatMemory about the cells mean, of a memory that is tidy, what
\* AddressSpace says with its regions: in use is mapped, and what a base owns
\* are the addresses of its region.
LEMMA FlatWords ==
    ASSUME Tidy(regions)
    PROVE  /\ \A a \in Word : Flat!InUse(a) <=> a \in MappedAddresses(regions)
           /\ \A b \in DOMAIN regions : Flat!OwnedBy(b) = Cells(regions, b)
           /\ \A b : b \notin DOMAIN regions => Flat!OwnedBy(b) = {}
           /\ \A b \in DOMAIN regions : \A a \in Cells(regions, b) :
                 Flat!TheCell(a) = CellOf(regions, b, a)
<1> DEFINE cells == FlatOf(regions)
<1>1. \A a \in Word, b \in DOMAIN regions :
         a \in Cells(regions, b) => cells[a] = {CellOf(regions, b, a)}
  BY FlatCell
<1>2. \A b \in DOMAIN regions : Cells(regions, b) \subseteq Word
  BY FlatCell
<1>3. \A a \in Word : a \notin MappedAddresses(regions) => cells[a] = {}
  BY FlatFree
<1>4. \A a \in Word : a \in MappedAddresses(regions) =>
         \E b \in DOMAIN regions : a \in Cells(regions, b)
  BY MappedMeans
<1>5. \A b, a : CellOf(regions, b, a).owner = b
  BY DEF CellOf
<1>6. FlatCells = cells
  BY FlatCellsIs
<1> HIDE DEF cells
<1>7. \A a \in Word : Flat!InUse(a) <=> a \in MappedAddresses(regions)
  BY <1>1, <1>3, <1>4, <1>6 DEF Flat!InUse, Flat!Free
<1>8. \A a \in Word : \A b :
         (\E c \in cells[a] : c.owner = b)
            <=> (b \in DOMAIN regions /\ a \in Cells(regions, b))
  <2> TAKE a \in Word
  <2> TAKE b
  <2>1. CASE a \in MappedAddresses(regions)
    <3>1. PICK d \in DOMAIN regions : a \in Cells(regions, d)
      BY <1>4, <2>1
    <3>2. cells[a] = {CellOf(regions, d, a)}
      BY <1>1, <3>1
    <3>3. b \in DOMAIN regions /\ a \in Cells(regions, b) => b = d
      BY <3>1 DEF Tidy, Disjoint
    <3> QED
      BY <1>5, <3>1, <3>2, <3>3
  <2>2. CASE a \notin MappedAddresses(regions)
    BY <1>3, <2>2, MappedMeans
  <2> QED
    BY <2>1, <2>2
<1>9. \A b : Flat!OwnedBy(b) = {a \in Word : b \in DOMAIN regions /\ a \in Cells(regions, b)}
  BY <1>6, <1>8 DEF Flat!OwnedBy, Flat!Word, Word
<1>10. \A b \in DOMAIN regions : \A a \in Cells(regions, b) :
          Flat!TheCell(a) = CellOf(regions, b, a)
  BY <1>1, <1>2, <1>6 DEF Flat!TheCell
<1> QED
  BY <1>2, <1>7, <1>9, <1>10

-----------------------------------------------------------------------------
(* The region a read or a write goes to.                                   *)

\* The predecessor search finds a region exactly when one mapping owns the
\* whole span, and it finds that mapping.
LEMMA FlatTarget ==
    ASSUME Tidy(regions), NEW address \in Word, NEW size \in Word, size # 0
    PROVE  /\ Flat!OneMapping(address, size)
                <=> Target(regions, address, size) # {}
           /\ \A b \in Target(regions, address, size) :
                 /\ b \in DOMAIN regions
                 /\ Flat!Span(address, size) \subseteq Cells(regions, b)
<1>1. /\ address \in Nat /\ size \in Nat /\ size > 0
      /\ IsRegions(regions)
      /\ \A b \in DOMAIN regions : b \in Nat /\ regions[b].size \in Nat
  BY WordAssumption DEF Word, Tidy, IsRegions, IsRegion
<1>2. address \in Flat!Span(address, size)
  BY <1>1 DEF Flat!Span
<1>3. ASSUME NEW b \in Target(regions, address, size)
      PROVE  /\ b \in DOMAIN regions
             /\ Flat!Span(address, size) \subseteq Cells(regions, b)
  <2>1. /\ b \in DOMAIN regions /\ address - b \in Nat
        /\ (address - b) + size <= regions[b].size
    BY <1>1, TargetIsOne
  <2> QED
    BY <1>1, <2>1 DEF Flat!Span, Cells
<1>4. ASSUME NEW b \in Target(regions, address, size)
      PROVE  Flat!OneMapping(address, size)
  <2>1. b \in DOMAIN regions /\ Flat!Span(address, size) \subseteq Cells(regions, b)
    BY <1>3
  <2>2. address \in Cells(regions, b)
    BY <1>2, <2>1
  <2>3. address \in MappedAddresses(regions)
    BY <2>1, <2>2, MappedMeans
  <2>4. Flat!InUse(address) /\ Flat!TheCell(address) = CellOf(regions, b, address)
        /\ Flat!OwnedBy(b) = Cells(regions, b)
    BY <2>1, <2>2, <2>3, FlatWords
  <2>5. Flat!TheCell(address).owner = b
    BY <2>4 DEF CellOf
  <2> QED
    BY <2>1, <2>4, <2>5 DEF Flat!OneMapping
<1>5. ASSUME Flat!OneMapping(address, size)
      PROVE  Target(regions, address, size) # {}
  <2>1. address \in MappedAddresses(regions)
    BY <1>5, FlatWords DEF Flat!OneMapping
  <2>2. PICK b \in DOMAIN regions : address \in Cells(regions, b)
    BY <2>1, MappedMeans
  <2>3. Flat!TheCell(address) = CellOf(regions, b, address)
        /\ Flat!OwnedBy(b) = Cells(regions, b)
    BY <2>2, FlatWords
  <2>4. Flat!TheCell(address).owner = b
    BY <2>3 DEF CellOf
  <2>5. Flat!Span(address, size) \subseteq Cells(regions, b)
    BY <1>5, <2>3, <2>4 DEF Flat!OneMapping
  <2>6. address + size - 1 \in Cells(regions, b)
    BY <1>1, <2>5 DEF Flat!Span
  <2>7. Contains(regions, b, address, size)
    BY <1>1, <2>2, <2>6 DEF Cells, Contains, RangeInside
  <2> QED
    BY <2>7, TargetHere
<1> QED
  BY <1>3, <1>4, <1>5

\* Every cell of the span carries the permissions of the region.
LEMMA FlatAllowed ==
    ASSUME Tidy(regions), NEW address \in Word, NEW size \in Word, size # 0,
           NEW permission
    PROVE  Target(regions, address, size) # {} =>
             (Flat!Allowed(address, size, permission) <=>
                \A b \in Target(regions, address, size) :
                   permission \in regions[b].perms)
<1>1. SUFFICES ASSUME NEW b \in Target(regions, address, size)
               PROVE  Flat!Allowed(address, size, permission)
                        <=> permission \in regions[b].perms
  BY TargetIsOne DEF Tidy
<1>2. b \in DOMAIN regions /\ Flat!Span(address, size) \subseteq Cells(regions, b)
  BY <1>1, FlatTarget
<1>3. \A a \in Flat!Span(address, size) : Flat!TheCell(a).perms = regions[b].perms
  <2> TAKE a \in Flat!Span(address, size)
  <2>1. Flat!TheCell(a) = CellOf(regions, b, a)
    BY <1>2, FlatWords
  <2> QED
    BY <2>1 DEF CellOf
<1>4. address \in Flat!Span(address, size)
  BY WordAssumption DEF Word, Flat!Span
<1> QED
  BY <1>3, <1>4 DEF Flat!Allowed

\* The bytes a read copies out of the region are those of the cells.
LEMMA FlatBytes ==
    ASSUME Tidy(regions), NEW address \in Word, NEW size \in Word,
           size = 0 \/ Target(regions, address, size) # {}
    PROVE  Flat!Bytes(address, size) = Slice(regions, address, size)
<1>1. address \in Nat /\ size \in Nat
  BY WordAssumption DEF Word
<1>2. CASE size = 0
  <2>1. 0..(size - 1) = {}
    BY <1>2
  <2> QED
    BY <2>1 DEF Flat!Bytes, Slice
<1>3. CASE size # 0
  <2>1. PICK b \in Target(regions, address, size) : TRUE
    BY <1>3
  <2>2. b \in DOMAIN regions /\ Flat!Span(address, size) \subseteq Cells(regions, b)
        /\ IsRegions(regions) /\ b \in Nat
    BY <1>3, <2>1, FlatTarget, WordAssumption DEF Tidy, IsRegions, Word
  <2>3. /\ Slice(regions, address, size) \in Buffer(size)
        /\ \A j \in 0..(size - 1) : Slice(regions, address, size)[j]
                                      = regions[b].bytes[(address - b) + j]
    BY <2>1, <2>2, SliceOfTarget
  <2>4. ASSUME NEW j \in 0..(size - 1)
        PROVE  Flat!TheCell(address + j).byte = regions[b].bytes[(address - b) + j]
    <3>1. address + j \in Flat!Span(address, size)
      BY <1>1 DEF Flat!Span
    <3>2. Flat!TheCell(address + j) = CellOf(regions, b, address + j)
      BY <2>2, <3>1, FlatWords
    <3>3. (address + j) - b = (address - b) + j
      BY <1>1, <2>2
    <3> QED
      BY <3>2, <3>3 DEF CellOf
  <2> DEFINE slice == Slice(regions, address, size)
  <2>5. slice = [j \in 0..(size - 1) |-> slice[j]]
    BY <2>3 DEF Buffer
  <2>6. \A j \in 0..(size - 1) : slice[j] = Flat!TheCell(address + j).byte
    BY <2>3, <2>4
  <2> HIDE DEF slice
  <2>7. slice = [j \in 0..(size - 1) |-> Flat!TheCell(address + j).byte]
    BY <2>5, <2>6
  <2> QED
    BY <2>7 DEF Flat!Bytes, slice
<1> QED
  BY <1>2, <1>3

-----------------------------------------------------------------------------
(* The calls that change the layout.                                       *)

\* The outcomes of a call are written the same way on both levels.
LEMMA SameOutcome ==
    ASSUME NEW call, NEW error
    PROVE  /\ Flat!Returns(call, error) <=> last' = Status(call, error)
           /\ regions' = regions /\ last' = Status(call, error)
                => Flat!Fails(call, error)
           /\ last' = Status(call, error) => last'.call = call
<1>1. regions' = regions => FlatCells' = FlatCells
  BY FlatCellsIs
<1> QED
  BY <1>1 DEF Flat!Returns, Flat!Fails, Flat!Outcome, Status, Outcome, NoBytes

\* The neighbour checks refuse no range that is free: when one of them fails,
\* some address of the range is mapped.
LEMMA OverlapIsReal ==
    ASSUME NEW rs, Tidy(rs), NEW base \in Word, NEW size \in Word, size # 0,
           OverlapsNext(rs, base, base + size) \/ OverlapsPrevious(rs, base)
    PROVE  \E a \in base..(base + size - 1) : a \in MappedAddresses(rs)
<1>1. /\ base \in Nat /\ size \in Nat /\ size > 0
      /\ \A c \in DOMAIN rs : /\ c \in Nat /\ rs[c].size \in Nat /\ rs[c].size > 0
                              /\ AddFits(c, rs[c].size)
  BY WordAssumption DEF Word, Tidy, IsRegions, IsRegion, Disjoint
<1>2. CASE OverlapsNext(rs, base, base + size)
  <2>1. PICK n \in DOMAIN rs : n >= base /\ base + size > n
    BY <1>2 DEF OverlapsNext, IsNext
  <2>2. n \in base..(base + size - 1) /\ n \in Cells(rs, n)
    BY <1>1, <2>1 DEF Cells
  <2> QED
    BY <2>1, <2>2, MappedMeans
<1>3. CASE OverlapsPrevious(rs, base)
  <2>1. PICK p \in DOMAIN rs : p < base /\ p + rs[p].size > base
    BY <1>1, <1>3 DEF OverlapsPrevious, IsPrevious
  <2>2. base \in base..(base + size - 1) /\ base \in Cells(rs, p)
    BY <1>1, <2>1 DEF Cells
  <2> QED
    BY <2>1, <2>2, MappedMeans
<1> QED
  BY <1>2, <1>3

\* A mapping that is allowed fills the cells of its span and no other.
LEMMA FlatMapped ==
    ASSUME NEW rs, Tidy(rs), NEW base, NEW size, MapAllowed(rs, base, size),
           NEW perms \in SUBSET Permission
    PROVE  FlatOf(Mapped(rs, base, size, perms))
             = [a \in Word |->
                  IF a \in base..(base + size - 1)
                  THEN {[owner |-> base, perms |-> perms, byte |-> 0]}
                  ELSE FlatOf(rs)[a]]
<1> DEFINE new == Mapped(rs, base, size, perms)
           span == base..(base + size - 1)
           fresh == [owner |-> base, perms |-> perms, byte |-> 0]
<1>1. /\ IsRegions(new) /\ Disjoint(new)
      /\ MappedAddresses(new) = MappedAddresses(rs) \cup span
      /\ MappedAddresses(rs) \cap span = {}
  BY MapKeepsRegions DEF Tidy
<1>2. /\ base \in Nat /\ size \in Nat /\ size > 0 /\ base \notin DOMAIN rs
      /\ DOMAIN new = DOMAIN rs \cup {base}
      /\ new[base] = NewRegion(size, perms)
      /\ \A c \in DOMAIN rs : new[c] = rs[c]
  <2>1. base \notin DOMAIN rs
    BY NeighboursSuffice DEF Tidy
  <2> QED
    BY <2>1, WordAssumption DEF Mapped, MapAllowed, Word
<1>3. /\ new[base].size = size /\ new[base].perms = perms
      /\ new[base].bytes = [i \in 0..(size - 1) |-> 0]
  BY <1>2 DEF NewRegion
<1> HIDE DEF new
<1>4. Cells(new, base) = span /\ \A c \in DOMAIN rs : Cells(new, c) = Cells(rs, c)
  BY <1>2, <1>3 DEF Cells
<1>5. ASSUME NEW a \in Word
      PROVE  FlatOf(new)[a] = IF a \in span THEN {fresh} ELSE FlatOf(rs)[a]
  <2>1. CASE a \in span
    <3>1. FlatOf(new)[a] = {CellOf(new, base, a)}
      BY <1>1, <1>2, <1>4, <2>1, FlatCell DEF Tidy
    <3>2. a - base \in 0..(size - 1)
      BY <1>2, <2>1
    <3>3. CellOf(new, base, a) = fresh
      BY <1>3, <3>2 DEF CellOf
    <3> QED
      BY <2>1, <3>1, <3>3
  <2>2. CASE a \notin span
    <3>1. CASE a \in MappedAddresses(rs)
      <4>1. PICK c \in DOMAIN rs : a \in Cells(rs, c)
        BY <3>1, MappedMeans
      <4>2. FlatOf(rs)[a] = {CellOf(rs, c, a)}
        BY <4>1, FlatCell
      <4>3. FlatOf(new)[a] = {CellOf(new, c, a)}
        BY <1>1, <1>2, <1>4, <4>1, FlatCell DEF Tidy
      <4>4. CellOf(new, c, a) = CellOf(rs, c, a)
        BY <1>2, <4>1 DEF CellOf
      <4> QED
        BY <2>2, <4>2, <4>3, <4>4
    <3>2. CASE a \notin MappedAddresses(rs)
      <4>1. a \notin MappedAddresses(new)
        BY <1>1, <2>2, <3>2
      <4> QED
        BY <2>2, <3>2, <4>1, FlatFree
    <3> QED
      BY <3>1, <3>2
  <2> QED
    BY <2>1, <2>2
<1> DEFINE flat == FlatOf(new)
           old == FlatOf(rs)
<1>6. flat = [a \in Word |-> flat[a]]
  BY DEF FlatOf
<1> HIDE DEF flat, fresh, old
<1>7. flat = [a \in Word |-> IF a \in span THEN {fresh} ELSE old[a]]
  BY <1>5, <1>6 DEF flat, old
<1> QED
  BY <1>7 DEF flat, old, new, fresh

\* Cardinality is the same operator on both levels.
LEMMA SameCardinality == \A S : Flat!Cardinality(S) = Cardinality(S)
BY Zenon DEF Flat!Cardinality, Cardinality, Flat!IsFiniteSet, IsFiniteSet

\* A call of map is a call of FlatMemory's map.
LEMMA MapRefines ==
    ASSUME Sound(regions, mapped_bytes, Limit), NEW base \in Word,
           NEW size \in Word, NEW perms \in SUBSET Permission,
           Map(base, size, perms)
    PROVE  Flat!Map(base, size, perms) /\ Flat!Called("map")
<1> DEFINE call == <<"map", base, size, perms>>
           span == base..(base + size - 1)
           error == MapError(regions, mapped_bytes, Limit, base, size)
           inuse == {a \in Word : Flat!InUse(a)}
           used == Flat!Cardinality(inuse)
<1>1. /\ Tidy(regions) /\ mapped_bytes \in Nat /\ MaxWord \in Nat
      /\ mapped_bytes = Cardinality(MappedAddresses(regions))
      /\ base \in Nat /\ size \in Nat /\ Limit \in Nat /\ Limit <= MaxWord
  BY WordAssumption, AddressSpaceAssumption DEF Sound, Tidy, Word
<1>2. last' = Status(call, error)
  BY DEF Map
<1>3. inuse = MappedAddresses(regions)
  BY <1>1, FlatWords, MappedIsFinite DEF Tidy
<1>4. used = mapped_bytes
  BY <1>1, <1>3, SameCardinality
<1>5. AddFits(base, size) <=> base + size <= MaxWord
  BY <1>1 DEF AddFits
<1>6. (~AddFits(mapped_bytes, size) \/ mapped_bytes + size > Limit)
         <=> used + size > Limit
  BY <1>1, <1>4 DEF AddFits
<1>7. Flat!Called("map")
  BY <1>2, SameOutcome DEF Flat!Called
<1>8. Flat!Map(base, size, perms) <=>
        \/ Flat!Fails(call, "invalid_segment") /\ size = 0
        \/ Flat!Fails(call, "address_overflow") /\ size > 0 /\ ~(base + size <= MaxWord)
        \/ /\ Flat!Fails(call, "resource_limit")
           /\ size > 0 /\ base + size <= MaxWord /\ used + size > Limit
        \/ /\ Flat!Fails(call, "mapping_overlap")
           /\ size > 0 /\ base + size <= MaxWord /\ used + size <= Limit
           /\ \E a \in span : Flat!InUse(a)
        \/ /\ Flat!Returns(call, "none")
           /\ size > 0 /\ base + size <= MaxWord /\ used + size <= Limit
           /\ \A a \in span : ~Flat!InUse(a)
           /\ FlatCells' = [a \in Word |->
                 IF a \in span THEN {Flat!Cell(base, perms, 0)} ELSE FlatCells[a]]
  BY Zenon DEF Flat!Map, Flat!Span, Flat!Word, Word
<1> HIDE DEF used, inuse
<1>9. error # "none" => regions' = regions
  BY DEF Map
<1>10. used \in Nat
  BY <1>1, <1>4
<1>11. CASE size = 0
  <2>1. error = "invalid_segment"
    BY <1>11 DEF MapError
  <2>2. Flat!Fails(call, "invalid_segment")
    BY <1>2, <1>9, <2>1, SameOutcome
  <2> QED
    BY <1>7, <1>8, <1>11, <2>2
<1>12. CASE size # 0 /\ ~AddFits(base, size)
  <2>1. error = "address_overflow"
    BY <1>12 DEF MapError
  <2>2. Flat!Fails(call, "address_overflow")
    BY <1>2, <1>9, <2>1, SameOutcome
  <2> QED
    BY <1>1, <1>5, <1>7, <1>8, <1>12, <2>2
<1>13. CASE size # 0 /\ AddFits(base, size) /\ used + size > Limit
  <2>1. error = "resource_limit"
    BY <1>6, <1>13 DEF MapError
  <2>2. Flat!Fails(call, "resource_limit")
    BY <1>2, <1>9, <2>1, SameOutcome
  <2> QED
    BY <1>1, <1>5, <1>7, <1>8, <1>13, <2>2
<1>14. CASE size # 0 /\ AddFits(base, size) /\ used + size <= Limit
  <2>1. ~(used + size > Limit) /\ size > 0 /\ base + size <= MaxWord
    BY <1>1, <1>5, <1>10, <1>14
  <2>2. \A a \in span : a \in Word
    BY <1>1, <2>1 DEF Word
  <2> DEFINE clash == OverlapsNext(regions, base, base + size)
                      \/ OverlapsPrevious(regions, base)
  <2>3. CASE clash
    <3>1. error = "mapping_overlap"
      BY <1>6, <1>14, <2>1, <2>3 DEF MapError
    <3>2. Flat!Fails(call, "mapping_overlap")
      BY <1>2, <1>9, <3>1, SameOutcome
    <3>3. \E a \in span : Flat!InUse(a)
      BY <1>1, <1>14, <2>2, <2>3, OverlapIsReal, FlatWords
    <3> QED
      BY <1>7, <1>8, <1>14, <2>1, <3>2, <3>3
  <2>4. CASE ~clash
    <3>1. error = "none"
      BY <1>6, <1>14, <2>1, <2>4 DEF MapError
    <3>2. MapAllowed(regions, base, size)
      BY <1>14, <2>4 DEF MapAllowed
    <3>3. regions' = Mapped(regions, base, size, perms)
      BY <3>1 DEF Map
    <3>4. \A a \in span : ~Flat!InUse(a)
      BY <1>1, <2>2, <3>2, FlatWords, MapKeepsRegions DEF Tidy
    <3>5. Flat!Returns(call, "none")
      BY <1>2, <3>1, SameOutcome
    <3>6. FlatCells' = [a \in Word |->
             IF a \in span THEN {Flat!Cell(base, perms, 0)} ELSE FlatCells[a]]
      <4>1. FlatCells' = FlatOf(Mapped(regions, base, size, perms))
            /\ FlatCells = FlatOf(regions)
        BY <3>3, FlatCellsIs
      <4>2. Flat!Cell(base, perms, 0) = [owner |-> base, perms |-> perms, byte |-> 0]
        BY DEF Flat!Cell
      <4> QED
        BY <1>1, <3>2, <4>1, <4>2, FlatMapped
    <3> QED
      BY <1>7, <1>8, <1>14, <2>1, <3>4, <3>5, <3>6
  <2> QED
    BY <2>3, <2>4
<1> QED
  BY <1>1, <1>10, <1>11, <1>12, <1>13, <1>14

\* A memory with the same layout has its cells in use at the same addresses:
\* its array is given by what its regions hold.
LEMMA FlatShape ==
    ASSUME NEW rs, Tidy(rs), NEW new, IsRegions(new), SameShape(rs, new)
    PROVE  /\ Tidy(new)
           /\ \A b \in DOMAIN rs : \A a \in Cells(rs, b) :
                 FlatOf(new)[a] = {CellOf(new, b, a)}
           /\ \A a \in Word : a \notin MappedAddresses(rs)
                 => FlatOf(new)[a] = FlatOf(rs)[a]
<1>1. Disjoint(new) /\ MappedAddresses(new) = MappedAddresses(rs)
  BY ShapeDecides DEF Tidy
<1>2. Tidy(new) /\ DOMAIN new = DOMAIN rs
      /\ \A b \in DOMAIN rs : Cells(new, b) = Cells(rs, b)
  BY <1>1 DEF Tidy, SameShape, Cells
<1>3. \A b \in DOMAIN rs : \A a \in Cells(rs, b) :
         FlatOf(new)[a] = {CellOf(new, b, a)}
  BY <1>2, FlatCell
<1>4. ASSUME NEW a \in Word, a \notin MappedAddresses(rs)
      PROVE  FlatOf(new)[a] = FlatOf(rs)[a]
  BY <1>1, <1>4, FlatFree
<1> QED
  BY <1>2, <1>3, <1>4

\* Unmapping frees the cells of the region and no other.
LEMMA FlatUnmapped ==
    ASSUME NEW rs, Tidy(rs), NEW base \in DOMAIN rs
    PROVE  FlatOf(Unmapped(rs, base))
             = [a \in Word |-> IF a \in Cells(rs, base) THEN {} ELSE FlatOf(rs)[a]]
<1> DEFINE new == Unmapped(rs, base)
<1>1. /\ IsRegions(new) /\ Disjoint(new)
      /\ MappedAddresses(new) = MappedAddresses(rs) \ Cells(rs, base)
  BY UnmapKeepsRegions DEF Tidy
<1>2. DOMAIN new = DOMAIN rs \ {base} /\ \A c \in DOMAIN new : new[c] = rs[c]
  BY DEF Unmapped
<1> HIDE DEF new
<1>3. ASSUME NEW a \in Word
      PROVE  FlatOf(new)[a] = IF a \in Cells(rs, base) THEN {} ELSE FlatOf(rs)[a]
  <2>1. CASE a \in MappedAddresses(new)
    <3>1. PICK c \in DOMAIN new : a \in Cells(new, c)
      BY <2>1, MappedMeans
    <3>2. c \in DOMAIN rs /\ a \in Cells(rs, c) /\ a \notin Cells(rs, base)
      BY <1>1, <1>2, <2>1, <3>1 DEF Cells
    <3>3. FlatOf(new)[a] = {CellOf(new, c, a)} /\ FlatOf(rs)[a] = {CellOf(rs, c, a)}
      BY <1>1, <3>1, <3>2, FlatCell DEF Tidy
    <3>4. CellOf(new, c, a) = CellOf(rs, c, a)
      BY <1>2, <3>1 DEF CellOf
    <3> QED
      BY <3>2, <3>3, <3>4
  <2>2. CASE a \notin MappedAddresses(new)
    <3>1. FlatOf(new)[a] = {}
      BY <2>2, FlatFree
    <3>2. a \notin Cells(rs, base) => FlatOf(rs)[a] = {}
      BY <1>1, <2>2, FlatFree
    <3> QED
      BY <3>1, <3>2
  <2> QED
    BY <2>1, <2>2
<1> DEFINE flat == FlatOf(new)
           old == FlatOf(rs)
           gone == Cells(rs, base)
<1>4. flat = [a \in Word |-> flat[a]]
  BY DEF FlatOf
<1>5. \A a \in Word : flat[a] = IF a \in gone THEN {} ELSE old[a]
  BY <1>3
<1> HIDE DEF flat, old, gone
<1>6. flat = [a \in Word |-> IF a \in gone THEN {} ELSE old[a]]
  BY <1>4, <1>5
<1> QED
  BY <1>6 DEF flat, old, new, gone

\* A call of unmap is a call of FlatMemory's unmap.
LEMMA UnmapRefines ==
    ASSUME Tidy(regions), NEW base \in Word, Unmap(base)
    PROVE  Flat!Unmap(base) /\ Flat!Called("unmap")
<1> DEFINE call == <<"unmap", base>>
<1>1. CASE base \in DOMAIN regions
  <2>1. regions' = Unmapped(regions, base) /\ last' = Status(call, "none")
    BY <1>1 DEF Unmap
  <2>2. Flat!OwnedBy(base) = Cells(regions, base)
    BY <1>1, FlatWords
  <2>3. Cells(regions, base) # {}
    <3>1. base \in Nat /\ regions[base].size \in Nat /\ regions[base].size > 0
      BY <1>1, WordAssumption DEF Tidy, IsRegions, IsRegion, Word
    <3>2. base \in Cells(regions, base)
      BY <3>1 DEF Cells
    <3> QED
      BY <3>2
  <2>4. FlatCells' = FlatOf(Unmapped(regions, base)) /\ FlatCells = FlatOf(regions)
    BY <2>1, FlatCellsIs
  <2>5. FlatCells' = [a \in Word |->
            IF a \in Cells(regions, base) THEN {} ELSE FlatCells[a]]
    BY <1>1, <2>4, FlatUnmapped
  <2>6. Flat!Returns(call, "none") /\ Flat!Called("unmap")
    BY <2>1, SameOutcome DEF Flat!Called
  <2> QED
    BY <2>2, <2>3, <2>5, <2>6 DEF Flat!Unmap, Flat!Free, Flat!Word, Word
<1>2. CASE base \notin DOMAIN regions
  <2>1. regions' = regions /\ last' = Status(call, "mapping_missing")
    BY <1>2 DEF Unmap
  <2>2. Flat!OwnedBy(base) = {}
    BY <1>2, FlatWords
  <2>3. Flat!Fails(call, "mapping_missing") /\ Flat!Called("unmap")
    BY <2>1, SameOutcome DEF Flat!Called
  <2> QED
    BY <2>2, <2>3 DEF Flat!Unmap
<1> QED
  BY <1>1, <1>2

\* protect wants the base and the size of a region: that is the span the base
\* owns.
LEMMA ProtectTarget ==
    ASSUME Tidy(regions), NEW base \in Word, NEW size \in Word
    PROVE  ProtectError(regions, base, size) = "none"
             <=> (size > 0 /\ Flat!OwnedBy(base) = Flat!Span(base, size))
<1>1. base \in Nat /\ size \in Nat
      /\ \A c \in DOMAIN regions : c \in Nat /\ regions[c].size \in Nat
                                   /\ regions[c].size > 0
  BY WordAssumption DEF Word, Tidy, IsRegions, IsRegion
<1>2. CASE base \in DOMAIN regions
  <2>1. base \in RegionAt(regions, base)
    <3>1. IsAt(regions, base, base)
      BY <1>1, <1>2 DEF IsAt
    <3>2. Contains(regions, base, base, 1)
      BY <1>1, <1>2 DEF Contains, RangeInside
    <3> QED
      BY <1>2, <3>1, <3>2 DEF RegionAt
  <2>2. Flat!OwnedBy(base) = base..(base + regions[base].size - 1)
    BY <1>2, FlatWords DEF Cells
  <2> DEFINE n == regions[base].size
  <2>3. n \in Nat /\ n > 0
    BY <1>1, <1>2
  <2> HIDE DEF n
  <2>4. ASSUME size > 0, base..(base + n - 1) = base..(base + size - 1)
        PROVE  n = size
    <3>1. base + n - 1 \in base..(base + size - 1)
          /\ base + size - 1 \in base..(base + n - 1)
      <4>1. base + n - 1 \in base..(base + n - 1)
            /\ base + size - 1 \in base..(base + size - 1)
        BY <1>1, <2>3, <2>4
      <4> QED
        BY <2>4, <4>1
    <3> QED
      BY <1>1, <2>3, <3>1
  <2>5. ProtectError(regions, base, size) = "none" <=> n = size
    BY <2>1 DEF ProtectError, n
  <2> QED
    BY <2>2, <2>3, <2>4, <2>5 DEF Flat!Span, n
<1>3. CASE base \notin DOMAIN regions
  <2>1. Flat!OwnedBy(base) = {}
    BY <1>3, FlatWords
  <2>2. size > 0 => base \in Flat!Span(base, size)
    BY <1>1 DEF Flat!Span
  <2>3. ProtectError(regions, base, size) = "mapping_missing"
    BY <1>3 DEF ProtectError, RegionAt
  <2> QED
    BY <2>1, <2>2, <2>3
<1> QED
  BY <1>2, <1>3

\* Changing the permissions of a region changes those of its cells.
LEMMA FlatProtected ==
    ASSUME NEW rs, Tidy(rs), NEW base \in DOMAIN rs, NEW perms \in SUBSET Permission
    PROVE  FlatOf([rs EXCEPT ![base].perms = perms])
             = [a \in Word |->
                  IF a \in Cells(rs, base)
                  THEN {[owner |-> base, perms |-> perms,
                         byte |-> rs[base].bytes[a - base]]}
                  ELSE FlatOf(rs)[a]]
<1> DEFINE new == [rs EXCEPT ![base].perms = perms]
           fresh(a) == [owner |-> base, perms |-> perms,
                        byte |-> rs[base].bytes[a - base]]
<1>1. IsRegions(new) /\ SameShape(rs, new)
  BY ProtectKeepsRegions DEF Tidy
<1>2. /\ new[base].perms = perms /\ new[base].bytes = rs[base].bytes
      /\ \A c \in DOMAIN rs : c # base => new[c] = rs[c]
  BY DEF Tidy, IsRegions, IsRegion
<1> HIDE DEF new
<1>3. ASSUME NEW a \in Word
      PROVE  FlatOf(new)[a]
               = IF a \in Cells(rs, base) THEN {fresh(a)} ELSE FlatOf(rs)[a]
  <2>1. CASE a \in Cells(rs, base)
    <3>1. FlatOf(new)[a] = {CellOf(new, base, a)}
      BY <1>1, <2>1, FlatShape
    <3> QED
      BY <1>2, <2>1, <3>1 DEF CellOf
  <2>2. CASE a \notin Cells(rs, base) /\ a \in MappedAddresses(rs)
    <3>1. PICK c \in DOMAIN rs : a \in Cells(rs, c)
      BY <2>2, MappedMeans
    <3>2. c # base /\ FlatOf(rs)[a] = {CellOf(rs, c, a)}
          /\ FlatOf(new)[a] = {CellOf(new, c, a)}
      BY <1>1, <2>2, <3>1, FlatCell, FlatShape
    <3>3. CellOf(new, c, a) = CellOf(rs, c, a)
      BY <1>2, <3>1, <3>2 DEF CellOf
    <3> QED
      BY <2>2, <3>2, <3>3
  <2>3. CASE a \notin MappedAddresses(rs)
    <3>1. a \notin Cells(rs, base)
      BY <2>3, MappedMeans
    <3> QED
      BY <1>1, <2>3, <3>1, FlatShape
  <2> QED
    BY <2>1, <2>2, <2>3
<1> DEFINE flat == FlatOf(new)
           old == FlatOf(rs)
           here == Cells(rs, base)
<1>4. flat = [a \in Word |-> flat[a]]
  BY DEF FlatOf
<1>5. \A a \in Word : flat[a] = IF a \in here THEN {fresh(a)} ELSE old[a]
  BY <1>3
<1> HIDE DEF flat, old, here, fresh
<1>6. flat = [a \in Word |-> IF a \in here THEN {fresh(a)} ELSE old[a]]
  BY <1>4, <1>5
<1> QED
  BY <1>6 DEF flat, old, new, here, fresh

\* A call of protect is a call of FlatMemory's protect.
LEMMA ProtectRefines ==
    ASSUME Tidy(regions), NEW base \in Word, NEW size \in Word,
           NEW perms \in SUBSET Permission, Protect(base, size, perms)
    PROVE  Flat!Protect(base, size, perms) /\ Flat!Called("protect")
<1> DEFINE call == <<"protect", base, size, perms>>
           error == ProtectError(regions, base, size)
           whole == size > 0 /\ Flat!OwnedBy(base) = Flat!Span(base, size)
<1>1. error = "none" <=> whole
  BY ProtectTarget
<1>2. last' = Status(call, error) /\ error \in {"none", "mapping_missing"}
  BY DEF Protect, ProtectError
<1>3. Flat!Called("protect")
  BY <1>2, SameOutcome DEF Flat!Called
<1>4. CASE whole
  <2>1. error = "none"
    BY <1>1, <1>4
  <2>2. base \in DOMAIN regions
    BY <2>1 DEF ProtectError, RegionAt
  <2>3. regions' = [regions EXCEPT ![base].perms = perms]
    BY <2>1 DEF Protect
  <2>4. Flat!Span(base, size) = Cells(regions, base)
    BY <1>4, <2>2, FlatWords
  <2>5. FlatCells' = FlatOf([regions EXCEPT ![base].perms = perms])
        /\ FlatCells = FlatOf(regions)
    BY <2>3, FlatCellsIs
  <2>6. FlatCells' = [a \in Word |->
           IF a \in Cells(regions, base)
           THEN {[owner |-> base, perms |-> perms,
                  byte |-> regions[base].bytes[a - base]]}
           ELSE FlatCells[a]]
    BY <2>2, <2>5, FlatProtected, SMTT(30)
  <2>7. \A a \in Cells(regions, base) :
           Flat!Cell(base, perms, Flat!TheCell(a).byte)
             = [owner |-> base, perms |-> perms,
                byte |-> regions[base].bytes[a - base]]
    <3> TAKE a \in Cells(regions, base)
    <3>1. Flat!TheCell(a) = CellOf(regions, base, a)
      BY <2>2, FlatWords
    <3>2. Flat!TheCell(a).byte = regions[base].bytes[a - base]
      BY <3>1 DEF CellOf
    <3> QED
      BY <3>2 DEF Flat!Cell
  <2>8. FlatCells' = [a \in Word |->
           IF a \in Cells(regions, base)
           THEN {Flat!Cell(base, perms, Flat!TheCell(a).byte)}
           ELSE FlatCells[a]]
    BY <2>6, <2>7
  <2>9. Flat!Returns(call, "none")
    BY <1>2, <2>1, SameOutcome
  <2> QED
    BY <1>3, <1>4, <2>4, <2>8, <2>9 DEF Flat!Protect, Flat!Word, Word
<1>5. CASE ~whole
  <2>1. error = "mapping_missing" /\ regions' = regions
    BY <1>1, <1>2, <1>5 DEF Protect
  <2>2. Flat!Fails(call, "mapping_missing")
    BY <1>2, <2>1, SameOutcome
  <2> QED
    BY <1>3, <1>5, <2>2 DEF Flat!Protect
<1> QED
  BY <1>4, <1>5

-----------------------------------------------------------------------------
(* The calls that read.                                                    *)

\* A call that reads returns what FlatMemory's read does, for the outcome that
\* is given.
LEMMA ReadsRefine ==
    ASSUME Tidy(regions), NEW call, NEW address \in Word, NEW size \in Word,
           NEW outcome, regions' = regions,
           outcome.call = call, outcome.error = "none",
           ReadError(regions, address, size) = "none" => last' = outcome,
           ReadError(regions, address, size) # "none"
             => last' = Status(call, ReadError(regions, address, size))
    PROVE  Flat!Reads(call, address, size, outcome) /\ last'.call = call
<1> DEFINE error == ReadError(regions, address, size)
           target == Target(regions, address, size)
           one == Flat!OneMapping(address, size)
           allowed == Flat!Allowed(address, size, "r")
<1>1. size \in Nat /\ FlatCells' = FlatCells
  BY WordAssumption, FlatCellsIs DEF Word
<1>2. size # 0 => (one <=> target # {})
  BY FlatTarget
<1>3. size # 0 /\ target # {} =>
         (allowed <=> \A b \in target : "r" \in regions[b].perms)
  BY FlatAllowed
<1>4. CASE size = 0 \/ (one /\ allowed)
  <2>1. error = "none"
    BY <1>2, <1>3, <1>4 DEF ReadError
  <2>2. last' = outcome /\ last'.call = call /\ last'.error = "none"
    BY <2>1
  <2> QED
    BY <1>1, <1>4, <2>2 DEF Flat!Reads
<1>5. CASE size # 0 /\ ~one
  <2>1. error = "mapping_missing"
    BY <1>2, <1>5 DEF ReadError
  <2>2. Flat!Fails(call, "mapping_missing") /\ last'.call = call /\ size > 0
    BY <1>1, <1>5, <2>1, SameOutcome
  <2> QED
    BY <1>5, <2>2 DEF Flat!Reads
<1>6. CASE size # 0 /\ one /\ ~allowed
  <2>1. error = "permission_denied"
    BY <1>2, <1>3, <1>6 DEF ReadError
  <2>2. Flat!Fails(call, "permission_denied") /\ last'.call = call /\ size > 0
    BY <1>1, <1>6, <2>1, SameOutcome
  <2> QED
    BY <1>6, <2>2 DEF Flat!Reads
<1> QED
  BY <1>4, <1>5, <1>6

\* A read that succeeds is of no bytes or goes to a region.
LEMMA ReadErrorNone ==
    ASSUME NEW address, NEW size, ReadError(regions, address, size) = "none"
    PROVE  size = 0 \/ Target(regions, address, size) # {}
BY DEF ReadError

\* A call of read is a call of FlatMemory's read.
LEMMA ReadRefines ==
    ASSUME Tidy(regions), NEW address \in Word, NEW size \in Word,
           Read(address, size)
    PROVE  Flat!Read(address, size) /\ Flat!Called("read")
<1> DEFINE call == <<"read", address, size>>
           error == ReadError(regions, address, size)
           outcome == Flat!Outcome(call, "none", Flat!Bytes(address, size), 0)
<1>1. /\ regions' = regions
      /\ error = "none"
           => last' = Outcome(call, "none", Slice(regions, address, size), 0)
      /\ error # "none" => last' = Status(call, error)
  BY DEF Read
<1>2. error = "none" => last' = outcome
  <2>1. ASSUME error = "none"
        PROVE  Flat!Bytes(address, size) = Slice(regions, address, size)
    BY <2>1, ReadErrorNone, FlatBytes
  <2> QED
    BY <1>1, <2>1 DEF Flat!Outcome, Outcome
<1>3. outcome.call = call /\ outcome.error = "none"
  BY DEF Flat!Outcome
<1> HIDE DEF outcome, call
<1>4. Flat!Reads(call, address, size, outcome) /\ last'.call = call
  BY <1>1, <1>2, <1>3, ReadsRefine
<1> QED
  BY <1>4 DEF Flat!Read, Flat!Called, outcome, call

\* A call of read_integer is a call of FlatMemory's.
LEMMA ReadIntegerRefines ==
    ASSUME Tidy(regions), NEW address \in Word, NEW width \in Word, NEW order,
           ReadInteger(address, width, order)
    PROVE  Flat!ReadInteger(address, width, order) /\ Flat!Called("read_integer")
<1> DEFINE call == <<"read_integer", address, width, order>>
           error == ReadError(regions, address, width)
           slice == Slice(regions, address, width)
           none == [i \in {} |-> 0]
           integer == Flat!Integer(address, width, order)
           outcome == Flat!Outcome(call, "none", none, integer)
<1>1. CASE width \notin Width
  <2>1. last' = Status(call, "invalid_relocation") /\ regions' = regions
    BY <1>1 DEF ReadInteger
  <2>2. Flat!Fails(call, "invalid_relocation") /\ last'.call = call
    BY <2>1, SameOutcome
  <2> QED
    BY <1>1, <2>2 DEF Flat!ReadInteger, Flat!Called, Width
<1>2. CASE width \in Width
  <2>1. /\ regions' = regions
        /\ error = "none"
             => last' = Outcome(call, "none", NoBytes, Accumulate(slice, width, order))
        /\ error # "none" => last' = Status(call, error)
    BY <1>2 DEF ReadInteger
  <2>2. ASSUME error = "none"
        PROVE  integer = Accumulate(slice, width, order)
    <3>1. width # 0
      BY <1>2 DEF Width
    <3>2. PICK b \in Target(regions, address, width) : TRUE
      BY <2>2, <3>1, ReadErrorNone
    <3>3. slice \in Buffer(width)
      BY <3>2, SliceOfTarget DEF Tidy
    <3>4. Flat!Bytes(address, width) = slice
      BY <3>2, FlatBytes
    <3>5. integer = Positional(Flat!Bytes(address, width), width, order)
      BY DEF Flat!Integer, Positional
    <3> HIDE DEF slice
    <3>6. Accumulate(slice, width, order) = Positional(slice, width, order)
      BY <1>2, <3>3, AccumulateIsPositional
    <3> QED
      BY <3>4, <3>5, <3>6
  <2>3. error = "none" => last' = outcome
    BY <2>1, <2>2 DEF Flat!Outcome, Outcome, NoBytes
  <2>4. outcome.call = call /\ outcome.error = "none"
    BY DEF Flat!Outcome
  <2> HIDE DEF outcome, call
  <2>5. Flat!Reads(call, address, width, outcome) /\ last'.call = call
    BY <2>1, <2>3, <2>4, ReadsRefine
  <2> QED
    BY <1>2, <2>5 DEF Flat!ReadInteger, Flat!Called, outcome, call, Width
<1> QED
  BY <1>1, <1>2

-----------------------------------------------------------------------------
(* The calls that write.                                                   *)

\* The memcpy of a write changes the bytes of the cells of its span, and
\* neither their owner nor their permissions nor any other cell.
LEMMA FlatWritten ==
    ASSUME NEW rs, Tidy(rs), NEW address \in Word, NEW size \in Word, size # 0,
           NEW b \in Target(rs, address, size), NEW data \in Buffer(size)
    PROVE  FlatOf(Written(rs, address, data, size))
             = [a \in Word |->
                  IF a \in address..(address + size - 1)
                  THEN {[c EXCEPT !.byte = data[a - address]] : c \in FlatOf(rs)[a]}
                  ELSE FlatOf(rs)[a]]
<1> DEFINE new == Written(rs, address, data, size)
           span == address..(address + size - 1)
           stored(a) == {[c EXCEPT !.byte = data[a - address]] : c \in FlatOf(rs)[a]}
<1>1. /\ IsRegions(new) /\ SameShape(rs, new)
      /\ \A c \in DOMAIN rs : new[c].perms = rs[c].perms
  BY WriteKeepsRegions DEF Tidy
<1>2. /\ b \in DOMAIN rs /\ address - b \in Nat
      /\ (address - b) + size <= rs[b].size
      /\ \A c \in Target(rs, address, size) : c = b
  BY TargetIsOne DEF Tidy
<1>3. /\ address \in Nat /\ size \in Nat /\ size > 0
      /\ \A c \in DOMAIN rs : c \in Nat /\ rs[c].size \in Nat
  BY WordAssumption DEF Word, Tidy, IsRegions, IsRegion
<1>4. ASSUME NEW c \in DOMAIN rs, NEW a \in Cells(rs, c)
      PROVE  new[c].bytes[a - c] =
                IF c = b /\ a \in span THEN data[a - address] ELSE rs[c].bytes[a - c]
  <2>1. a - c \in 0..(rs[c].size - 1) /\ a \in Nat
    BY <1>3 DEF Cells
  <2>2. new[c].bytes[a - c] =
           IF /\ c \in Target(rs, address, size)
              /\ address - c <= a - c
              /\ a - c < (address - c) + size
           THEN data[(a - c) - (address - c)]
           ELSE rs[c].bytes[a - c]
    BY <2>1, WrittenByte DEF Tidy
  <2>3. (a - c) - (address - c) = a - address
    BY <1>3, <2>1
  <2>4. c \in Target(rs, address, size) <=> c = b
    BY <1>2
  <2>5. (address - c <= a - c /\ a - c < (address - c) + size) <=> a \in span
    BY <1>3, <2>1
  <2> HIDE DEF new, span
  <2> QED
    BY <2>2, <2>3, <2>4, <2>5
<1> HIDE DEF new
<1>5. ASSUME NEW a \in Word
      PROVE  FlatOf(new)[a] = IF a \in span THEN stored(a) ELSE FlatOf(rs)[a]
  <2>1. CASE a \in MappedAddresses(rs)
    <3>1. PICK c \in DOMAIN rs : a \in Cells(rs, c)
      BY <2>1, MappedMeans
    <3>2. FlatOf(rs)[a] = {CellOf(rs, c, a)} /\ FlatOf(new)[a] = {CellOf(new, c, a)}
      BY <1>1, <3>1, FlatCell, FlatShape
    <3>3. CASE a \in span
      <4>1. a \in Cells(rs, b)
        BY <1>2, <1>3, <3>3 DEF Cells
      <4>2. c = b
        BY <1>2, <3>1, <4>1 DEF Tidy, Disjoint
      <4>3. new[c].bytes[a - c] = data[a - address] /\ new[c].perms = rs[c].perms
        BY <1>1, <1>4, <3>1, <3>3, <4>2
      <4>4. CellOf(new, c, a) = [CellOf(rs, c, a) EXCEPT !.byte = data[a - address]]
        BY <4>3 DEF CellOf
      <4>5. stored(a) = {[CellOf(rs, c, a) EXCEPT !.byte = data[a - address]]}
        BY <3>2
      <4> QED
        BY <3>2, <3>3, <4>4, <4>5
    <3>4. CASE a \notin span
      <4>1. new[c].bytes[a - c] = rs[c].bytes[a - c] /\ new[c].perms = rs[c].perms
        BY <1>1, <1>4, <3>1, <3>4
      <4>2. CellOf(new, c, a) = CellOf(rs, c, a)
        BY <4>1 DEF CellOf
      <4> QED
        BY <3>2, <3>4, <4>2
    <3> QED
      BY <3>3, <3>4
  <2>2. CASE a \notin MappedAddresses(rs)
    <3>1. a \notin span
      <4>1. SUFFICES ASSUME a \in span PROVE a \in Cells(rs, b)
        BY <1>2, <2>2, MappedMeans
      <4> QED
        BY <1>2, <1>3, <4>1 DEF Cells
    <3> QED
      BY <1>1, <2>2, <3>1, FlatShape
  <2> QED
    BY <2>1, <2>2
<1> DEFINE flat == FlatOf(new)
           old == FlatOf(rs)
<1>6. flat = [a \in Word |-> flat[a]]
  BY DEF FlatOf
<1>7. \A a \in Word : flat[a] = IF a \in span THEN stored(a) ELSE old[a]
  BY <1>5
<1> HIDE DEF flat, old, span, stored
<1>8. flat = [a \in Word |-> IF a \in span THEN stored(a) ELSE old[a]]
  BY <1>6, <1>7
<1> QED
  BY <1>8 DEF flat, old, new, span, stored

\* A write of no bytes changes nothing.
LEMMA WriteNothing ==
    ASSUME NEW rs, Tidy(rs), NEW address \in Word, NEW data \in Buffer(0)
    PROVE  Written(rs, address, data, 0) = rs
<1> DEFINE new == Written(rs, address, data, 0)
<1>1. 0 \in Word
  BY WordAssumption DEF Word
<1>2. /\ IsRegions(new) /\ SameShape(rs, new)
      /\ \A c \in DOMAIN rs : new[c].perms = rs[c].perms
  BY <1>1, WriteKeepsRegions DEF Tidy
<1>3. ASSUME NEW c \in DOMAIN rs, NEW i \in 0..(rs[c].size - 1)
      PROVE  new[c].bytes[i] = rs[c].bytes[i]
  <2>1. c \in Nat /\ address \in Nat
    BY WordAssumption DEF Word, Tidy, IsRegions
  <2>2. ~(address - c <= i /\ i < (address - c) + 0)
    BY <2>1
  <2> QED
    BY <2>2, WrittenByte DEF Tidy
<1> HIDE DEF new
<1> QED
  BY <1>2, <1>3, SameMemory DEF Tidy, new

\* A call that writes bytes is a call of FlatMemory that writes them.
LEMMA WriteBytesRefines ==
    ASSUME Tidy(regions), NEW call, NEW address \in Word, NEW size \in Word,
           NEW data \in Buffer(size), NEW ignore \in BOOLEAN,
           WriteBytes(call, address, data, size, ignore)
    PROVE  /\ Flat!WriteBytes(call, address, data, size, ignore)
           /\ last'.call = call
<1> DEFINE error == WriteError(regions, address, size, ignore)
           target == Target(regions, address, size)
           one == Flat!OneMapping(address, size)
           allowed == Flat!Allowed(address, size, "w")
<1>1. size \in Nat /\ address \in Nat
  BY WordAssumption DEF Word
<1>2. size # 0 => (one <=> target # {})
  BY FlatTarget
<1>3. size # 0 /\ target # {} =>
         (allowed <=> \A b \in target : "w" \in regions[b].perms)
  BY FlatAllowed
<1>4. /\ last' = Status(call, error)
      /\ error = "none" => regions' = Written(regions, address, data, size)
      /\ error # "none" => regions' = regions
  BY DEF WriteBytes
<1>5. last'.call = call
  BY <1>4, SameOutcome
<1>6. CASE size = 0
  <2>1. error = "none"
    BY <1>6 DEF WriteError
  <2>2. regions' = regions
    BY <1>4, <1>6, <2>1, WriteNothing
  <2>3. Flat!Fails(call, "none")
    BY <1>4, <2>1, <2>2, SameOutcome
  <2> QED
    BY <1>5, <1>6, <2>3 DEF Flat!WriteBytes
<1>7. CASE size # 0 /\ ~one
  <2>1. error = "mapping_missing"
    BY <1>2, <1>7 DEF WriteError
  <2>2. Flat!Fails(call, "mapping_missing") /\ size > 0
    BY <1>1, <1>4, <1>7, <2>1, SameOutcome
  <2> QED
    BY <1>5, <1>7, <2>2 DEF Flat!WriteBytes
<1>8. CASE size # 0 /\ one /\ ~ignore /\ ~allowed
  <2>1. error = "permission_denied"
    BY <1>2, <1>3, <1>8 DEF WriteError
  <2>2. Flat!Fails(call, "permission_denied") /\ size > 0
    BY <1>1, <1>4, <1>8, <2>1, SameOutcome
  <2> QED
    BY <1>5, <1>8, <2>2 DEF Flat!WriteBytes
<1>9. CASE size # 0 /\ one /\ (ignore \/ allowed)
  <2>1. error = "none"
    BY <1>2, <1>3, <1>9 DEF WriteError
  <2>2. PICK b \in target : TRUE
    BY <1>2, <1>9
  <2>3. FlatCells' = FlatOf(Written(regions, address, data, size))
        /\ FlatCells = FlatOf(regions)
    BY <1>4, <2>1, FlatCellsIs
  <2>4. FlatCells' = [a \in Word |->
           IF a \in address..(address + size - 1)
           THEN {[c EXCEPT !.byte = data[a - address]] : c \in FlatCells[a]}
           ELSE FlatCells[a]]
    BY <1>9, <2>2, <2>3, FlatWritten
  <2>5. Flat!Returns(call, "none") /\ size > 0
    BY <1>1, <1>4, <1>9, <2>1, SameOutcome
  <2> QED
    BY <1>5, <1>9, <2>4, <2>5 DEF Flat!WriteBytes, Flat!Span, Flat!Word, Word
<1> QED
  BY <1>6, <1>7, <1>8, <1>9

\* A call of write is a call of FlatMemory's write.
LEMMA WriteRefines ==
    ASSUME Tidy(regions), NEW address \in Word, NEW size \in Word,
           NEW data \in Buffer(size), NEW ignore \in BOOLEAN,
           Write(address, data, size, ignore)
    PROVE  Flat!Write(address, data, size, ignore) /\ Flat!Called("write")
<1> DEFINE call == <<"write", address, data, size, ignore>>
<1>1. WriteBytes(call, address, data, size, ignore)
  BY DEF Write
<1>2. call[1] = "write"
  OBVIOUS
<1> HIDE DEF call
<1>3. /\ Flat!WriteBytes(call, address, data, size, ignore)
      /\ last'.call = call
  BY <1>1, WriteBytesRefines
<1>4. Flat!Called("write")
  BY <1>2, <1>3 DEF Flat!Called
<1> QED
  BY <1>3, <1>4 DEF Flat!Write, call

\* A call of write_integer is a call of FlatMemory's: the digits it stores are
\* those of the value by their weights.
LEMMA WriteIntegerRefines ==
    ASSUME Tidy(regions), NEW address \in Word, NEW width \in Word, NEW order,
           NEW value \in Word, NEW ignore \in BOOLEAN,
           WriteInteger(address, width, order, value, ignore)
    PROVE  /\ Flat!WriteInteger(address, width, order, value, ignore)
           /\ Flat!Called("write_integer")
<1> DEFINE call == <<"write_integer", address, width, order, value, ignore>>
           data == [i \in 0..(width - 1) |->
              (value \div Radix^(IF order = "little" THEN i ELSE width - 1 - i)) % Radix]
<1>1. call[1] = "write_integer"
  OBVIOUS
<1>2. CASE width \notin Width
  <2>1. last' = Status(call, "invalid_relocation") /\ regions' = regions
    BY <1>2 DEF WriteInteger
  <2>2. Flat!Fails(call, "invalid_relocation") /\ last'.call = call
    BY <2>1, SameOutcome
  <2> QED
    BY <1>2, <2>2 DEF Flat!WriteInteger, Flat!Called, Width
<1>3. CASE width \in Width
  <2>1. WriteBytes(call, address, Digits(value, width, order), width, ignore)
    BY <1>3 DEF WriteInteger
  <2>2. Digits(value, width, order) = data
    <3>1. width \in Nat
      BY <1>3 DEF Width
    <3>2. \A i \in 0..(width - 1) : width - i - 1 = width - 1 - i
      BY <3>1
    <3> QED
      BY <3>2 DEF Digits
  <2>3. data \in Buffer(width)
    BY <1>3, <2>2, DigitsAreBytes
  <2> HIDE DEF call, data
  <2>4. /\ Flat!WriteBytes(call, address, data, width, ignore)
        /\ last'.call = call
    BY <2>1, <2>2, <2>3, WriteBytesRefines
  <2>5. Flat!Called("write_integer")
    BY <1>1, <2>4 DEF Flat!Called
  <2>6. Flat!WriteInteger(address, width, order, value, ignore)
    BY <1>3, <2>4 DEF Flat!WriteInteger, call, data, Width
  <2> QED
    BY <2>5, <2>6
<1> QED
  BY <1>2, <1>3

-----------------------------------------------------------------------------
(* The refinement.                                                         *)

\* An empty memory is an array of free cells.
LEMMA FlatEmpty == FlatOf(NoRegions) = [a \in Word |-> {}]
<1>1. \A a \in Word : {c \in DOMAIN NoRegions : a \in Cells(NoRegions, c)} = {}
  BY DEF NoRegions
<1> QED
  BY <1>1 DEF FlatOf

\* A new address space is an initial state of FlatMemory.
LEMMA InitRefines == Init => Flat!Init
<1> SUFFICES ASSUME Init PROVE Flat!Init
  OBVIOUS
<1>1. FlatCells = [a \in Word |-> {}]
  BY FlatCellsIs, FlatEmpty DEF Init
<1> QED
  BY <1>1 DEF Init, Flat!Init, Flat!Free, Flat!Word, Word, Flat!Outcome, Status,
              Outcome, NoBytes

\* Every step of AddressSpace is a step of FlatMemory or leaves it unchanged.
LEMMA NextRefines ==
    ASSUME IInv, [Next]_vars
    PROVE  [Flat!Next]_Flat!vars
<1>1. Sound(regions, mapped_bytes, Limit) /\ Tidy(regions)
  BY InvariantIsSound DEF Sound, Tidy
<1>2. /\ Sizes \subseteq Word /\ Perms \subseteq SUBSET Permission
      /\ Values \subseteq Word /\ Word = Flat!Word /\ Byte = Flat!Byte
  BY AddressSpaceAssumption DEF Word, Flat!Word, Byte, Flat!Byte
<1>3. ASSUME NEW base \in Word, NEW size \in Sizes, NEW perms \in Perms,
             Map(base, size, perms)
      PROVE  Flat!Next
  BY <1>1, <1>2, <1>3, MapRefines DEF Flat!Next
<1>4. ASSUME NEW base \in Word, Unmap(base)
      PROVE  Flat!Next
  BY <1>1, <1>2, <1>4, UnmapRefines DEF Flat!Next
<1>5. ASSUME NEW base \in Word, NEW size \in Sizes, NEW perms \in Perms,
             Protect(base, size, perms)
      PROVE  Flat!Next
  BY <1>1, <1>2, <1>5, ProtectRefines DEF Flat!Next
<1>6. ASSUME NEW address \in Word, NEW size \in Sizes, Read(address, size)
      PROVE  Flat!Next
  BY <1>1, <1>2, <1>6, ReadRefines DEF Flat!Next
<1>7. ASSUME NEW address \in Word, NEW size \in Sizes, NEW ignore \in BOOLEAN,
             NEW data \in Buffer(size), Write(address, data, size, ignore)
      PROVE  Flat!Next
  BY <1>1, <1>2, <1>7, WriteRefines DEF Flat!Next, Buffer
<1>8. ASSUME NEW address \in Word, NEW width \in Sizes, NEW order \in Order,
             ReadInteger(address, width, order)
      PROVE  Flat!Next
  BY <1>1, <1>2, <1>8, ReadIntegerRefines DEF Flat!Next, Order
<1>9. ASSUME NEW address \in Word, NEW width \in Sizes, NEW value \in Values,
             NEW order \in Order, NEW ignore \in BOOLEAN,
             WriteInteger(address, width, order, value, ignore)
      PROVE  Flat!Next
  BY <1>1, <1>2, <1>9, WriteIntegerRefines DEF Flat!Next, Order
<1>10. ASSUME Clear PROVE Flat!Next
  <2>1. FlatCells' = [a \in Word |-> {}]
    BY <1>10, FlatCellsIs, FlatEmpty DEF Clear
  <2>2. Flat!Returns(<<"clear">>, "none") /\ Flat!Called("clear")
    BY <1>10, SameOutcome DEF Clear, Flat!Called
  <2> QED
    BY <1>2, <2>1, <2>2 DEF Flat!Next, Flat!Clear, Flat!Free
<1>11. ASSUME UNCHANGED vars PROVE UNCHANGED Flat!vars
  <2>1. FlatCells' = FlatCells /\ last' = last
    BY <1>11, FlatCellsIs DEF vars
  <2> QED
    BY <2>1 DEF Flat!vars
<1> QED
  BY <1>3, <1>4, <1>5, <1>6, <1>7, <1>8, <1>9, <1>10, <1>11 DEF Next

\* Seen from its calls, AddressSpace is FlatMemory (FlatSpec), for every size
\* of the word and of the byte, every limit and every sequence of calls: map
\* refuses exactly the ranges with a cell in use and the requests beyond the
\* limit, a read and a write go to the one mapping that owns the span, and an
\* integer is the sum of its digits in either byte order.
THEOREM ImplementsFlatMemory == Spec => FlatSpec
<1>1. IInv /\ [Next]_vars => [Flat!Next]_Flat!vars
  BY NextRefines
<1> QED
  BY <1>1, InitRefines, Invariant, PTL DEF Spec, FlatSpec, Flat!Spec
===============================================================================
