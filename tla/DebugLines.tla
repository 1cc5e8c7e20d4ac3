------------------------------- MODULE DebugLines -------------------------------
(***************************************************************************)
(* DebugInfoParser::parse_line_program (src/src/debug_info.cc): the line   *)
(* state machine, one step per opcode.  Programs are parsed one after the  *)
(* other into the same unit or into a new one.                             *)
(*                                                                         *)
(* The opcodes of a program are open: a step reads any opcode with any     *)
(* operand, or finds the operand truncated.  The standard opcodes that the *)
(* code knows are 1, 2, 3, 4 and 6; it passes over the others without      *)
(* their operands, which are then read as opcodes.                         *)
(***************************************************************************)
EXTENDS Word, Sequences

CONSTANTS
    Headers,        \* the headers of programs: a function to records
    MaxRows,        \* limits_.max_line_rows
    MaxFiles,       \* limits_.max_string_bytes, which bounds the file table
    MaxOpcode,      \* the largest opcode
    Advances,       \* operands of advance_pc, and addresses
    LineAdvances,   \* operands of advance_line
    RowLines,       \* number of lines a row can hold: 2^32
    MaxLine,        \* the largest int64_t
    MaxLength       \* bound of the model on the opcodes of a program

\* What the reader finds of a header: all of it, or the first defect.
HeaderInputs == {"complete", "bad_size", "unit_truncated", "bad_version",
                 "header_truncated", "fields_truncated", "opcodes_truncated"}

\* The types of the limits, the header fields and the operands.
LineConstants ==
    /\ MaxRows \in Nat /\ MaxFiles \in Nat /\ MaxLine \in Nat
    /\ RowLines \in Nat \ {0}
    /\ Advances \subseteq Word
    /\ LineAdvances \subseteq Int
    /\ DOMAIN Headers # {}
    /\ \A h \in DOMAIN Headers :
          /\ Headers[h].input \in HeaderInputs
          /\ Headers[h].minimum_instruction \in Nat
          /\ Headers[h].line_range \in Nat
          /\ Headers[h].line_base \in Int
          /\ Headers[h].opcode_base \in Nat
          /\ Headers[h].default_statement \in BOOLEAN
          /\ Headers[h].files \in Nat

ASSUME LinesAssumption == LineConstants

VARIABLES
    pc,             \* "idle" or "running"
    result,         \* what the last call returned: "none", "true" or "false"
    error,
    unit_header,    \* the header of the call: Headers[unit_header]
    length,         \* opcodes read
    address, line, file, statement,     \* the registers
    rows,           \* unit.lines
    files,          \* number of unit.files
    exact,          \* history: the address without machine arithmetic
    wrapped         \* history: an operand times minimum_instruction wrapped

registers == <<address, line, file, statement>>
vars == <<pc, result, error, unit_header, length, address, line, file,
          statement, rows, files, exact, wrapped>>

header == Headers[unit_header]

\* The header between two calls: any one.
AnyHeader == CHOOSE h \in DOMAIN Headers : TRUE

\* How a header is refused; the first defect counts.  count is the number of
\* files of the unit with those of the header.
HeaderError(h, count) ==
    IF h.input # "complete" THEN
        CASE h.input = "bad_size"              -> "invalid_debug_info"
          [] h.input = "unit_truncated"        -> "truncated"
          [] h.input = "bad_version"           -> "invalid_debug_info"
          [] h.input = "header_truncated"      -> "truncated"
          [] h.input = "fields_truncated"      -> "invalid_debug_info"
          [] h.input = "opcodes_truncated"     -> "truncated"
    ELSE IF h.minimum_instruction = 0 \/ h.line_range = 0
    THEN "invalid_debug_info"
    ELSE IF count > MaxFiles THEN "resource_limit"
    ELSE "none"

Init ==
    /\ pc = "idle"
    /\ result = "none"
    /\ error = "none"
    /\ unit_header = AnyHeader
    /\ length = 0
    /\ address = 0 /\ line = 1 /\ file = 1 /\ statement = FALSE
    /\ rows = <<>>
    /\ files = 0
    /\ exact = 0
    /\ wrapped = FALSE

\* The call returns; its local variables are gone.
Return(r, e) ==
    /\ pc' = "idle"
    /\ result' = r
    /\ error' = e
    /\ unit_header' = AnyHeader
    /\ length' = 0
    /\ address' = 0 /\ line' = 1 /\ file' = 1 /\ statement' = FALSE
    /\ exact' = 0
    /\ wrapped' = FALSE
    /\ UNCHANGED <<rows, files>>

Fail(e) == Return("false", e)

\* return false; the caller's error stays what it was.
FailSilently == Fail(error)

\* A call; the caller passes the unit and the error of the last call or new
\* ones.  The code does not clear the error.  The files of a header that is
\* otherwise in order are added one by one until there are too many; the model
\* does not use a unit with too many again.
Begin(h, new_unit) ==
    LET kept == IF new_unit THEN 0 ELSE files
        refusal == HeaderError(Headers[h], kept + Headers[h].files)
    IN
    /\ pc = "idle"
    /\ kept <= MaxFiles
    /\ unit_header' = IF refusal = "none" THEN h ELSE AnyHeader
    /\ statement' = (refusal = "none" /\ Headers[h].default_statement)
    /\ rows' = IF new_unit THEN <<>> ELSE rows
    /\ UNCHANGED <<length, address, line, file, exact, wrapped>>
    /\ files' = CASE refusal = "none"           -> kept + Headers[h].files
                  [] refusal = "resource_limit" -> MaxFiles + 1
                  [] OTHER                      -> kept
    /\ \/ /\ refusal = "none"
          /\ pc' = "running"
          /\ result' = "none"
          /\ error' = IF new_unit THEN "none" ELSE error
       \/ /\ refusal # "none"
          /\ pc' = "idle"
          /\ result' = "false"
          /\ error' = refusal

Row(end_sequence) ==
    [address |-> address, line |-> line % RowLines, file |-> file,
     statement |-> statement, end_sequence |-> end_sequence]

MoreRows == Len(rows) < MaxRows

\* An opcode is read: there are bytes left and there is room for a row.
Reading ==
    /\ pc = "running"
    /\ MoreRows
    /\ length < MaxLength
Read == /\ length' = length + 1
        /\ UNCHANGED <<pc, result, error, unit_header, files>>

-----------------------------------------------------------------------------
(* Opcode 0: the extended opcodes.                                         *)

EndSequence ==
    /\ Reading /\ Read
    /\ rows' = Append(rows, Row(TRUE))
    /\ address' = 0 /\ line' = 1 /\ file' = 1
    /\ statement' = header.default_statement
    /\ exact' = 0
    /\ wrapped' = FALSE

SetAddress ==
    /\ Reading
    /\ \/ Fail("invalid_debug_info")    \* the operand has another width
       \/ /\ Read
          /\ address' \in Advances
          /\ exact' = address'
          /\ wrapped' = FALSE
          /\ UNCHANGED <<line, file, statement, rows>>

ExtendedTruncated == Reading /\ Fail("truncated")

\* Other extended opcodes, and standard ones that are not known.
PassOver ==
    /\ Reading /\ Read
    /\ UNCHANGED <<registers, rows, exact, wrapped>>

-----------------------------------------------------------------------------
(* Standard opcodes, below opcode_base.                                    *)

Standard(op) == op > 0 /\ op < header.opcode_base

Copy ==
    /\ Reading /\ Standard(1) /\ Read
    /\ rows' = Append(rows, Row(FALSE))
    /\ UNCHANGED <<registers, exact, wrapped>>

AdvancePc ==
    /\ Reading /\ Standard(2)
    /\ \/ Fail("address_overflow")      \* the operand is truncated
       \/ \E advance \in Advances :
             LET product == advance * header.minimum_instruction
                 delta == Wrap(product)     \* the product is not checked
             IN
             \/ ~AddFits(address, delta) /\ Fail("address_overflow")
             \/ /\ AddFits(address, delta)
                /\ Read
                /\ address' = address + delta
                /\ exact' = exact + product
                /\ wrapped' = (wrapped \/ product > MaxWord)
                /\ UNCHANGED <<line, file, statement, rows>>

\* A line that a register can hold.  The sum of two larger ones overflows,
\* which is undefined; as built it wraps around to a negative line.
IsLine(n) == n >= 0 /\ n <= MaxLine

AdvanceLine ==
    /\ Reading /\ Standard(3)
    /\ \/ FailSilently                  \* the operand is truncated
       \/ \E advance \in LineAdvances :
             \/ ~IsLine(line + advance) /\ Fail("invalid_debug_info")
             \/ /\ IsLine(line + advance)
                /\ Read
                /\ line' = line + advance
                /\ UNCHANGED <<address, file, statement, rows, exact, wrapped>>

SetFile ==
    /\ Reading /\ Standard(4)
    /\ \/ FailSilently                  \* truncated, or more than 32 bits
       \/ /\ Read
          /\ file' \in {1, 2}
          /\ UNCHANGED <<address, line, statement, rows, exact, wrapped>>

NegateStatement ==
    /\ Reading /\ Standard(6) /\ Read
    /\ statement' = ~statement
    /\ UNCHANGED <<address, line, file, rows, exact, wrapped>>

-----------------------------------------------------------------------------
(* Special opcodes.                                                        *)

AddressDelta(op) ==
    ((op - header.opcode_base) \div header.line_range) * header.minimum_instruction
LineDelta(op) ==
    header.line_base + ((op - header.opcode_base) % header.line_range)

\* A bug in SpecialFits: the sum is not checked.
SpecialFitsAlways(op) == TRUE

SpecialFits(op) == AddFits(address, AddressDelta(op))

Special ==
    /\ Reading
    /\ \E op \in 1..MaxOpcode :
          LET next == line + LineDelta(op) IN
          /\ op >= header.opcode_base
          /\ \/ ~SpecialFits(op) /\ Fail("address_overflow")
             \/ SpecialFits(op) /\ ~IsLine(next) /\ FailSilently
             \/ /\ SpecialFits(op) /\ IsLine(next)
                /\ Read
                /\ address' = Wrap(address + AddressDelta(op))
                /\ exact' = exact + AddressDelta(op)
                /\ line' = next
                /\ rows' = Append(rows, [address |-> address', line |-> next % RowLines,
                                         file |-> file, statement |-> statement,
                                         end_sequence |-> FALSE])
                /\ UNCHANGED <<file, statement, wrapped>>

\* The bytes or the rows are used up.
Finish ==
    /\ pc = "running"
    /\ \/ ~MoreRows /\ Fail("resource_limit")
       \/ MoreRows /\ Return("true", error)

Next ==
    \/ \E h \in DOMAIN Headers, new_unit \in BOOLEAN : Begin(h, new_unit)
    \/ EndSequence \/ SetAddress \/ ExtendedTruncated \/ PassOver
    \/ Copy \/ AdvancePc \/ AdvanceLine \/ SetFile \/ NegateStatement
    \/ Special
    \/ Finish

Spec == Init /\ [][Next]_vars

-----------------------------------------------------------------------------
(* Properties.                                                             *)

\* A unit never holds more rows than the limit, also when several programs
\* are parsed into it, some of which fail in the middle; a program that is
\* accepted leaves room for a row and has its files.
RowsAreBudgeted ==
    /\ Len(rows) <= MaxRows
    /\ result = "true" => Len(rows) < MaxRows /\ files <= MaxFiles

\* The address register, and so the address of every row, is the sum that the
\* program asks for, as long as no product has wrapped; and the rows of a unit
\* keep to the budget (DebugInfoParser::parse_line_program).
AddressIsExact ==
    /\ wrapped \/ address = exact
    /\ RowsAreBudgeted

\* The same, whatever the operands.  README.md of the repository says that every
\* multiplication is bounded: then every address is the sum asked for
\* (DebugInfoParser::parse_line_program).
AddressIsChecked == address = exact
===============================================================================
