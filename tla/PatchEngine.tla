------------------------------ MODULE PatchEngine ------------------------------
(***************************************************************************)
(* PatchEngine (src/src/patch_engine.cc): apply a plan of operations to an *)
(* address space, all of them or none.  The plan is validated against the  *)
(* memory as it is before the first operation; then every operation saves  *)
(* the bytes it is about to overwrite, and a failure writes the saved      *)
(* bytes back, the latest first.                                           *)
(*                                                                         *)
(* One step is one operation, or one entry of the undo list.  Calls of     *)
(* apply follow each other on the same memory for ever.                    *)
(***************************************************************************)
EXTENDS Memory, Sequences

CONSTANTS
    Memories,           \* the memories a caller may start with
    Plans,              \* the plans callers apply: a function to plans
    MaxOperations,      \* limits_.max_relocations
    MaxWritten,         \* limits_.max_mapped_bytes
    MemoryChecksum(_)   \* memory_checksum: some function of the memory

\* The types of PatchOperation and PatchPlan; a buffer has its own length.
OperationKinds == {"write_bytes", "fill_bytes", "copy_bytes", "write_integer",
                   "assert_bytes"}
IsOperation(operation) ==
    /\ operation.kind \in OperationKinds
    /\ {operation.address, operation.source_address, operation.length,
        operation.integer, operation.width} \subseteq Word
    /\ operation.fill \in Byte
    /\ \E n \in Word : operation.bytes \in Buffer(n)
IsPlan(p) ==
    /\ Len(p.operations) \in Nat
    /\ \A i \in 1..Len(p.operations) : IsOperation(p.operations[i])

\* Some plan is applied, and callers have built the memories with the calls
\* of AddressSpace.
ASSUME PatchAssumption == /\ MaxOperations \in Nat
                          /\ MaxWritten \in Word
                          /\ \A rs \in Memories : IsRegions(rs)
                          /\ DOMAIN Plans # {}
                          /\ \A c \in DOMAIN Plans : IsPlan(Plans[c])

VARIABLES
    regions,    \* memory.regions_
    pc,         \* "idle", "applying" or "undoing"
    call,       \* the running or last call: it applies Plans[call]
    index,      \* the next operation of plan
    undo,       \* the saved bytes, the latest last
    result,     \* PatchResult and the error of the running or last call
    before      \* history: the memory when apply was called

vars == <<regions, pc, call, index, undo, result, before>>

plan == Plans[call]

-----------------------------------------------------------------------------
(* A plan is [operations, bytes_written, expected_checksum].  An operation *)
(* has every field of PatchOperation; bytes is a buffer.                   *)

ByteCount(operation) == Cardinality(DOMAIN operation.bytes)

\* operation_size: the size, and whether it is one.
OperationSize(operation) ==
    CASE operation.kind \in {"write_bytes", "assert_bytes"} ->
            ByteCount(operation)
      [] operation.kind \in {"fill_bytes", "copy_bytes"} -> operation.length
      [] operation.kind = "write_integer" -> operation.width

SizeIsValid(operation) ==
    CASE operation.kind \in {"write_bytes", "assert_bytes"} ->
            operation.length \in {0, ByteCount(operation)}
      [] operation.kind \in {"fill_bytes", "copy_bytes"} -> TRUE
      [] operation.kind = "write_integer" -> operation.width \in Width

Modifies(operation) == operation.kind # "assert_bytes"

\* total_written after the first n operations.
TotalWritten(operations) ==
    LET total[n \in 0..Len(operations)] ==
            IF n = 0 THEN 0
            ELSE total[n - 1] + IF Modifies(operations[n])
                                THEN OperationSize(operations[n]) ELSE 0
    IN  total

\* A bug in OperationError: nobody looks whether the source of a copy is mapped.
OperationErrorSkipsSource(rs, operation, total) ==
    LET size == OperationSize(operation) IN
    IF ~SizeIsValid(operation) \/ size = 0 THEN "invalid_relocation"
    ELSE IF ~AddFits(operation.address, size) THEN "address_overflow"
    ELSE IF Target(rs, operation.address, size) = {} THEN "mapping_missing"
    ELSE IF Modifies(operation) /\ total + size > MaxWritten
         THEN "resource_limit"
    ELSE "none"

\* The error the loop of validate finds in an operation that is reached with
\* total bytes already counted.
OperationError(rs, operation, total) ==
    LET size == OperationSize(operation)
        copies == operation.kind = "copy_bytes"
        counts == Modifies(operation)
    IN
    CASE ~SizeIsValid(operation) \/ size = 0 -> "invalid_relocation"
      [] OTHER ->
         IF ~AddFits(operation.address, size) THEN "address_overflow"
         ELSE IF Target(rs, operation.address, size) = {} THEN "mapping_missing"
         ELSE IF copies /\ ~AddFits(operation.source_address, size)
              THEN "address_overflow"
         ELSE IF copies /\ Target(rs, operation.source_address, size) = {}
              THEN "mapping_missing"
         ELSE IF counts /\ (~AddFits(total, size) \/ total + size > MaxWritten)
              THEN "resource_limit"
         ELSE "none"

\* A bug in ValidateError: the declared number of bytes is believed.
ValidateErrorTrusting(p, rs) ==
    LET total == TotalWritten(p.operations) IN
    IF \/ Len(p.operations) > MaxOperations
       \/ \E i \in 1..Len(p.operations) :
             OperationError(rs, p.operations[i], total[i - 1]) # "none"
    THEN "invalid_relocation" ELSE "none"

ValidateError(p, rs) ==
    LET n == Len(p.operations)
        total == TotalWritten(p.operations)
        error(i) == OperationError(rs, p.operations[i], total[i - 1])
        failing == {i \in 1..n : error(i) # "none"}
        first == CHOOSE i \in failing : \A j \in failing : i <= j
    IN
    CASE n > MaxOperations -> "resource_limit"
      [] n <= MaxOperations /\ failing # {} -> error(first)
      [] OTHER -> IF p.bytes_written \notin {0, total[n]}
                  THEN "invalid_relocation" ELSE "none"

ApplyError(p, rs) ==
    IF ValidateError(p, rs) # "none" THEN ValidateError(p, rs)
    ELSE IF p.expected_checksum \notin {0, MemoryChecksum(rs)}
         THEN "invalid_header" ELSE "none"

-----------------------------------------------------------------------------
(* apply, one operation at a time.                                         *)

Fresh(error) ==
    [error |-> error, operations_applied |-> 0, bytes_written |-> 0]

\* What an operation writes: size bytes.
Payload(rs, operation) ==
    LET size == OperationSize(operation) IN
    CASE operation.kind = "write_bytes" -> operation.bytes
      [] operation.kind = "fill_bytes" ->
            [i \in 0..(size - 1) |-> operation.fill]
      [] operation.kind = "write_integer" ->
            Digits(operation.integer, operation.width, operation.byte_order)
      [] operation.kind = "copy_bytes" ->
            Slice(rs, operation.source_address, size)

\* The error of the memory calls that carry the operation out; the writes
\* ignore permissions, the read of a copy does not.
CarryOutError(rs, operation) ==
    LET size == OperationSize(operation)
        source == ReadError(rs, operation.source_address, size)
    IN  IF operation.kind = "copy_bytes" /\ source # "none"
        THEN source
        ELSE WriteError(rs, operation.address, size, TRUE)

Init ==
    /\ regions \in Memories
    /\ pc = "idle"
    /\ call = CHOOSE c \in DOMAIN Plans : TRUE
    /\ index = 1
    /\ undo = <<>>
    /\ result = Fresh("not_called")
    /\ before = regions

\* The call: validation, then the precondition on the checksum.
Begin(c) ==
    /\ pc = "idle"
    /\ call' = c
    /\ before' = regions
    /\ index' = 1
    /\ undo' = <<>>
    /\ result' = Fresh(ApplyError(Plans[c], regions))
    /\ pc' = IF result'.error = "none" THEN "applying" ELSE "idle"
    /\ UNCHANGED regions

\* The operation the loop of apply is at.
Current == plan.operations[index]

Saved ==
    LET size == OperationSize(Current) IN
    [address |-> Current.address,
     size    |-> size,
     bytes   |-> Slice(regions, Current.address, size)]

Running == pc = "applying" /\ index <= Len(plan.operations)

StartUndo(error) ==
    /\ pc' = "undoing"
    /\ result' = [result EXCEPT !.error = error]
    /\ UNCHANGED <<regions, index>>

\* The bytes about to change cannot be read.
ReadBeforeFails ==
    LET error == ReadError(regions, Current.address, OperationSize(Current)) IN
    /\ Running
    /\ error # "none"
    /\ StartUndo(error)
    /\ UNCHANGED <<call, undo, before>>

CanReadBefore ==
    ReadError(regions, Current.address, OperationSize(Current)) = "none"

AssertBytes ==
    /\ Running
    /\ CanReadBefore
    /\ ~Modifies(Current)
    /\ \/ /\ Saved.bytes # Current.bytes
          /\ StartUndo("invalid_header")
       \/ /\ Saved.bytes = Current.bytes
          /\ result' = [result EXCEPT !.operations_applied = @ + 1]
          /\ index' = index + 1
          /\ UNCHANGED <<regions, pc>>
    /\ UNCHANGED <<call, undo, before>>

\* A bug in CarryOut: the undo entry is saved after the write.
CarryOutSavesLate ==
    /\ Running
    /\ CanReadBefore
    /\ Modifies(Current)
    /\ CarryOutError(regions, Current) = "none"
    /\ regions' = Written(regions, Current.address, Payload(regions, Current),
                          OperationSize(Current))
    /\ undo' = Append(undo,
                 [Saved EXCEPT !.bytes =
                    Slice(regions', Current.address, OperationSize(Current))])
    /\ result' = [result EXCEPT !.operations_applied = @ + 1,
                                !.bytes_written = @ + OperationSize(Current)]
    /\ index' = index + 1
    /\ UNCHANGED <<call, before, pc>>

CarryOut ==
    LET error == CarryOutError(regions, Current)
        size == OperationSize(Current)
    IN
    /\ Running
    /\ CanReadBefore
    /\ Modifies(Current)
    /\ undo' = Append(undo, Saved)
    /\ \/ /\ error = "none"
          /\ regions' = Written(regions, Current.address,
                                Payload(regions, Current), size)
          /\ result' = [result EXCEPT !.operations_applied = @ + 1,
                                      !.bytes_written = @ + size]
          /\ index' = index + 1
          /\ UNCHANGED pc
       \/ /\ error # "none"
          /\ StartUndo(error)
    /\ UNCHANGED <<call, before>>

\* A bug in UndoOne: the list is walked from its oldest entry.
UndoOneForward ==
    LET entry == Head(undo) IN
    /\ pc = "undoing"
    /\ undo # <<>>
    /\ regions' = Written(regions, entry.address, entry.bytes, entry.size)
    /\ undo' = Tail(undo)
    /\ UNCHANGED <<pc, call, index, result, before>>

\* A bug in UndoOne: the entry is written back and never dropped.
UndoOneAgain ==
    LET entry == undo[Len(undo)] IN
    /\ pc = "undoing"
    /\ undo # <<>>
    /\ regions' = Written(regions, entry.address, entry.bytes, entry.size)
    /\ UNCHANGED <<pc, call, index, undo, result, before>>

\* One write of the rollback; its error is ignored.
UndoOne ==
    LET entry == undo[Len(undo)] IN
    /\ pc = "undoing"
    /\ undo # <<>>
    /\ regions' =
         IF WriteError(regions, entry.address, entry.size, TRUE) = "none"
         THEN Written(regions, entry.address, entry.bytes, entry.size)
         ELSE regions
    /\ undo' = SubSeq(undo, 1, Len(undo) - 1)
    /\ UNCHANGED <<pc, call, index, result, before>>

\* return std::nullopt after the rollback.
Fail ==
    /\ pc = "undoing"
    /\ undo = <<>>
    /\ pc' = "idle"
    /\ UNCHANGED <<regions, call, index, undo, result, before>>

\* return result.
Finish ==
    /\ pc = "applying"
    /\ index > Len(plan.operations)
    /\ pc' = "idle"
    /\ UNCHANGED <<regions, call, index, undo, result, before>>

Step ==
    \/ ReadBeforeFails
    \/ AssertBytes
    \/ CarryOut
    \/ UndoOne
    \/ Fail
    \/ Finish

Next == (\E c \in DOMAIN Plans : Begin(c)) \/ Step

Spec == Init /\ [][Next]_vars

\* A call that has begun runs on: it is plain sequential code.
FairSpec == Spec /\ WF_vars(Step)

-----------------------------------------------------------------------------
(* What a transaction promises.                                            *)

\* All or nothing: when apply returns an error the memory is byte for byte
\* what it was, however the operations that were carried out overlapped.
Atomic == (pc = "idle" /\ result.error # "none") => regions = before

\* When apply succeeds it carried out every operation of the plan and wrote
\* the bytes validate had counted, which are the declared ones if any were.  It
\* has not added, removed, resized or reprotected a region.
Complete ==
    (pc = "idle" /\ result.error = "none") =>
        /\ DOMAIN regions = DOMAIN before
        /\ \A b \in DOMAIN regions : /\ regions[b].size = before[b].size
                                     /\ regions[b].perms = before[b].perms
        /\ result.operations_applied = Len(plan.operations)
        /\ result.bytes_written =
              TotalWritten(plan.operations)[Len(plan.operations)]
        /\ plan.bytes_written \in {0, result.bytes_written}

\* A plan that passed validation can fail afterwards for two reasons only: a
\* range it may not read and an assertion that does not hold.  Ranges that
\* were mapped when validate looked are still mapped when apply writes.
ValidatedPlansFailLate ==
    pc = "undoing" => result.error \in {"permission_denied", "invalid_header"}

\* What rolling back from here would give is the memory at the call: the
\* oldest undo entry that covers a byte holds its first value, and a byte no
\* entry covers has not changed.
Covers(entry, b, i) ==
    /\ b \in Target(before, entry.address, entry.size)
    /\ entry.address - b <= i
    /\ i < (entry.address - b) + entry.size

UndoRestores ==
    pc # "idle" =>
    \A b \in DOMAIN before : \A i \in 0..(before[b].size - 1) :
        /\ (\A k \in 1..Len(undo) : ~Covers(undo[k], b, i))
              => regions[b].bytes[i] = before[b].bytes[i]
        /\ \A k \in 1..Len(undo) :
              /\ Covers(undo[k], b, i)
              /\ \A j \in 1..(k - 1) : ~Covers(undo[j], b, i)
              => undo[k].bytes[i - (undo[k].address - b)] = before[b].bytes[i]

\* Every call of apply returns.
Terminates == pc # "idle" ~> pc = "idle"

\* docs/architecture.md says every write satisfies the permissions of its
\* region unless the loader performs initialization.
WritesNeedPermission ==
    [][\A b \in DOMAIN regions :
          regions'[b].bytes # regions[b].bytes => "w" \in regions[b].perms]_vars
===============================================================================
