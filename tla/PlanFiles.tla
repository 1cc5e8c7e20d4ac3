------------------------------- MODULE PlanFiles -------------------------------
(***************************************************************************)
(* PatchEngine::encode and ::decode (src/src/patch_engine.cc): a plan is   *)
(* written to a file, the file may change on the way, and a plan is read   *)
(* from it under the same limits.                                          *)
(*                                                                         *)
(* The addresses, lengths and integers of an operation take part as one    *)
(* value, content; its kind and byte order are enumerations in the plan    *)
(* and bytes of any value in the file.                                     *)
(***************************************************************************)
EXTENDS Container

CONSTANTS
    Plans,              \* the plans callers write: a function to plans
    Damages,            \* what may happen to a file: fields with other values
    MaxString,          \* limits_.max_string_bytes
    MaxOperations,      \* limits_.max_relocations
    MaxSectionBytes,    \* limits_.max_section_bytes
    MaxFileSize         \* limits_.max_file_size

VARIABLES
    plan_key,       \* the plan that was written
    plan_damage,    \* what happened to its file since
    plan_stage,     \* "start", "written" or "read"
    plan_error      \* the error of the last call

plan_vars == <<plan_key, plan_damage, plan_stage, plan_error>>

Kinds == {"write_bytes", "fill_bytes", "copy_bytes", "write_integer",
          "assert_bytes"}
Orders == {"little", "big"}

-----------------------------------------------------------------------------
(* encode.                                                                 *)

HeaderBytes(name) == 28 + name
OperationBytes(operation) == 40 + operation.bytes

\* output.size() after the first n operations.
WrittenBytes(name, operations, n) ==
    HeaderBytes(name)
    + Total([i \in 1..n |-> OperationBytes(operations[i])])

\* The size is compared after every operation, the checksum not included.
EncodeError(plan) ==
    IF \/ plan.name > MaxString
       \/ Len(plan.operations) > MaxOperations
       \/ \E n \in 1..Len(plan.operations) :
             WrittenBytes(plan.name, plan.operations, n) > MaxFileSize
    THEN "resource_limit" ELSE "none"

\* A bug in Encoded: the declared number of bytes is left out of the file.
EncodedForgetful(plan) ==
    [magic |-> TRUE, sealed |-> TRUE, version |-> 1, name |-> plan.name,
     expected_checksum |-> plan.expected_checksum, bytes_written |-> 0,
     count |-> Len(plan.operations), operations |-> plan.operations,
     size |-> SealBytes + WrittenBytes(plan.name, plan.operations,
                                       Len(plan.operations))]

Encoded(plan) ==
    [magic |-> TRUE, sealed |-> TRUE, version |-> 1, name |-> plan.name,
     expected_checksum |-> plan.expected_checksum,
     bytes_written |-> plan.bytes_written,
     count |-> Len(plan.operations), operations |-> plan.operations,
     size |-> SealBytes + WrittenBytes(plan.name, plan.operations,
                                       Len(plan.operations))]

-----------------------------------------------------------------------------
(* decode.                                                                 *)

\* The error of one turn of the loop: what is there, then what it says.
TurnError(file, n) ==
    IF n > Len(file.operations) THEN "truncated"
    ELSE IF \/ WrittenBytes(file.name, file.operations, n) > ReadableEnd(file)
            \/ file.operations[n].bytes > MaxSectionBytes
         THEN "truncated"
    ELSE IF \/ file.operations[n].kind \notin Kinds
            \/ file.operations[n].byte_order \notin Orders
         THEN "invalid_header"
    ELSE "none"

DecodeError(file) ==
    LET fails(n) == TurnError(file, n) # "none"
        first == FirstOf(file.count, fails)
    IN
    IF file.size < 28 \/ file.size > MaxFileSize \/ ~file.magic THEN "bad_magic"
    ELSE IF ~file.sealed THEN "invalid_header"
    ELSE IF \/ file.version # 1
            \/ file.name > MaxString
            \/ 12 + file.name > ReadableEnd(file)
         THEN "invalid_header"
    ELSE IF \/ HeaderBytes(file.name) > ReadableEnd(file)
            \/ file.count > MaxOperations
         THEN "resource_limit"
    ELSE IF first <= file.count THEN TurnError(file, first)
    ELSE IF WrittenBytes(file.name, file.operations, file.count)
               # ReadableEnd(file)
         THEN "invalid_header"
    ELSE "none"

Decoded(file) ==
    [name |-> file.name, expected_checksum |-> file.expected_checksum,
     bytes_written |-> file.bytes_written,
     operations |-> SubSeq(file.operations, 1, file.count)]

-----------------------------------------------------------------------------
PlanFile == Damaged(Encoded(Plans[plan_key]), plan_damage)

\* The plan that decode has returned, as a set of at most one.
PlanRead ==
    IF plan_stage = "read" /\ plan_error = "none"
    THEN {Decoded(PlanFile)} ELSE {}

PlanInit ==
    /\ plan_key = CHOOSE key \in DOMAIN Plans : TRUE
    /\ plan_damage = <<>>
    /\ plan_stage = "start"
    /\ plan_error = "none"

WritePlan(key) ==
    /\ plan_stage = "start"
    /\ plan_key' = key
    /\ plan_error' = EncodeError(Plans[key])
    /\ plan_stage' = IF plan_error' = "none" THEN "written" ELSE "start"
    /\ UNCHANGED plan_damage

DamagePlan(damage) ==
    /\ plan_stage = "written"
    /\ plan_damage = <<>>
    /\ plan_damage' = damage
    /\ UNCHANGED <<plan_key, plan_stage, plan_error>>

ReadPlan ==
    /\ plan_stage = "written"
    /\ plan_stage' = "read"
    /\ plan_error' = DecodeError(PlanFile)
    /\ UNCHANGED <<plan_key, plan_damage>>

PlanNext ==
    \/ \E key \in DOMAIN Plans : WritePlan(key)
    \/ \E damage \in Damages : DamagePlan(damage)
    \/ ReadPlan

-----------------------------------------------------------------------------
\* A plan that was written is read back as it was, or refused in exactly two
\* cases: the checksum took the file past the limit that encode compared
\* without it, or an operation carries more bytes than a section may have, which
\* only decode asks.  Past the limit is by no more than the checksum.  A file
\* that is read is the one that writing the plan gives: decode overlooks nothing.
PlansSurviveFiles ==
    /\ plan_stage = "read" /\ plan_damage = <<>> =>
        LET plan == Plans[plan_key]
            refused == \/ PlanFile.size > MaxFileSize
                       \/ \E n \in 1..Len(plan.operations) :
                             plan.operations[n].bytes > MaxSectionBytes
        IN  /\ PlanRead = IF refused THEN {} ELSE {plan}
            /\ plan.operations # <<>> => PlanFile.size <= MaxFileSize + SealBytes
    /\ \A plan \in PlanRead :
          /\ EncodeError(plan) = "none"
          /\ Encoded(plan) = [PlanFile EXCEPT !.operations = plan.operations]
================================================================================
