----------------------------- MODULE AnalysisProofs -----------------------------
(***************************************************************************)
(* The line state machine and the entry tree of DebugInfoParser, the basic *)
(* blocks of DisassemblyAnalyzer and the components of                     *)
(* SectionGraphAnalyzer, for every word size, every limit and inputs of    *)
(* any length.                                                             *)
(***************************************************************************)
EXTENDS DebugLines, DebugEntries, Disassembly, SectionGraph, InductionProofs,
        FiniteSetTheorems, SequenceTheorems

(* The line state machine.                                                 *)

\* The registers between two opcodes.  The address stays a word, which every
\* check of a sum relies on; it is the exact sum unless a product has wrapped.
\* A header that is accepted is the one the program is run with, and it has
\* none of the defects that are refused.
RegistersOK ==
    /\ address \in Word
    /\ exact \in Nat
    /\ wrapped \in BOOLEAN
    /\ wrapped \/ address = exact
    /\ unit_header \in DOMAIN Headers
    /\ pc = "running" => header.minimum_instruction # 0 /\ header.line_range # 0

\* Every row of a line table.
RowSet == [address : Word, line : Nat, file : {1, 2}, statement : BOOLEAN,
           end_sequence : BOOLEAN]

\* The unit: its rows are a list within the limit; while a program runs the
\* file table is within its limit too.
UnitOK ==
    /\ rows \in Seq(RowSet)
    /\ Len(rows) <= MaxRows
    /\ files \in Nat
    /\ pc \in {"idle", "running"}
    /\ pc = "running" => files <= MaxFiles /\ result = "none"
    /\ result = "true" => Len(rows) < MaxRows /\ files <= MaxFiles
    /\ line \in Nat /\ file \in {1, 2} /\ statement \in BOOLEAN

LinesInv == RegistersOK /\ UnitOK

-----------------------------------------------------------------------------
(* Arithmetic of the machine words.                                        *)

\* A number within the word is not changed by wrapping around.
LEMMA WrapIsIdentity ==
    ASSUME NEW n \in Nat, n <= MaxWord
    PROVE  Wrap(n) = n
BY WordAssumption DEF Wrap

\* Wrapping around gives a word.
LEMMA WrapIsWord ==
    ASSUME NEW n \in Nat
    PROVE  Wrap(n) \in Word
BY WordAssumption DEF Wrap, Word

\* A sum that is checked is exact and a word.
LEMMA CheckedSum ==
    ASSUME NEW a \in Word, NEW d \in Nat, AddFits(a, d)
    PROVE  a + d \in Word /\ Wrap(a + d) = a + d
<1>1. a + d \in Nat /\ a + d <= MaxWord
  BY WordAssumption DEF Word, AddFits
<1> QED
  BY <1>1, WrapIsIdentity DEF Word

\* The operation advance of a special opcode.
LEMMA DeltaIsNatural ==
    ASSUME NEW n \in Nat, NEW d \in Nat, d # 0, NEW m \in Nat
    PROVE  (n \div d) * m \in Nat
<1>1. n \div d \in Nat
  OBVIOUS
<1> QED
  BY <1>1

-----------------------------------------------------------------------------
(* The invariant.                                                          *)

\* There is a header.
LEMMA AnyHeaderIsHeader ==
    ASSUME LineConstants
    PROVE  AnyHeader \in DOMAIN Headers
BY DEF LineConstants, AnyHeader

\* The unit before any program.
LEMMA LinesInit ==
    ASSUME LineConstants, Init
    PROVE  LinesInv
<1>1. 0 \in Word
  BY WordAssumption DEF Word
<1>2. unit_header \in DOMAIN Headers
  BY AnyHeaderIsHeader DEF Init
<1>3. rows \in Seq(RowSet) /\ Len(rows) = 0
  BY DEF Init
<1>4. RegistersOK
  BY <1>1, <1>2 DEF Init, RegistersOK
<1>5. UnitOK
  <2>1. MaxRows \in Nat
    BY DEF LineConstants
  <2>2. Len(rows) <= MaxRows /\ files \in Nat /\ line \in Nat /\ file \in {1, 2}
    BY <1>3, <2>1 DEF Init
  <2>3. pc = "idle" /\ result = "none" /\ statement = FALSE
    BY DEF Init
  <2>4. pc # "running" /\ result # "true" /\ pc \in {"idle", "running"}
    BY <2>3
  <2>5. statement \in BOOLEAN
    BY <2>3
  <2> QED
    BY <1>3, <2>2, <2>4, <2>5 DEF UnitOK
<1> QED
  BY <1>4, <1>5 DEF LinesInv

\* A call that returns forgets its registers and keeps the rows.
LEMMA ReturnKeeps ==
    ASSUME LineConstants, LinesInv, NEW r, NEW e, Return(r, e),
           r = "false" \/ (r = "true" /\ pc = "running" /\ MoreRows)
    PROVE  LinesInv'
<1>1. 0 \in Word
  BY WordAssumption DEF Word
<1>2. RegistersOK'
  BY <1>1, AnyHeaderIsHeader DEF Return, LinesInv, RegistersOK
<1>3. UnitOK'
  BY DEF Return, LinesInv, UnitOK, MoreRows
<1> QED
  BY <1>2, <1>3 DEF LinesInv

\* A header is accepted only without a defect and with its files in the table.
LEMMA AcceptedHeader ==
    ASSUME NEW h, NEW count, h.input \in HeaderInputs, HeaderError(h, count) = "none"
    PROVE  /\ h.minimum_instruction # 0 /\ h.line_range # 0
           /\ ~(count > MaxFiles)
<1>1. h.input = "complete"
  <2>1. SUFFICES ASSUME h.input # "complete" PROVE HeaderError(h, count) # "none"
    OBVIOUS
  <2> QED
    BY <2>1 DEF HeaderError, HeaderInputs
<1> QED
  BY <1>1 DEF HeaderError

\* A new call leaves the rows alone or starts a new unit.
LEMMA BeginKeeps ==
    ASSUME LineConstants, LinesInv, NEW h \in DOMAIN Headers,
           NEW new_unit \in BOOLEAN, Begin(h, new_unit)
    PROVE  LinesInv'
<1> DEFINE kept == IF new_unit THEN 0 ELSE files
           count == kept + Headers[h].files
           refusal == HeaderError(Headers[h], count)
<1>1. kept \in Nat /\ kept <= MaxFiles /\ count \in Nat /\ MaxFiles \in Nat
  BY DEF Begin, LinesInv, UnitOK, LineConstants
<1>2. files' = CASE refusal = "none"           -> count
                 [] refusal = "resource_limit" -> MaxFiles + 1
                 [] OTHER                      -> kept
  BY DEF Begin
<1>3. /\ unit_header' = IF refusal = "none" THEN h ELSE AnyHeader
      /\ statement' = (refusal = "none" /\ Headers[h].default_statement)
      /\ rows' = IF new_unit THEN <<>> ELSE rows
      /\ UNCHANGED <<address, line, file, exact, wrapped>>
      /\ \/ refusal = "none" /\ pc' = "running" /\ result' = "none"
         \/ refusal # "none" /\ pc' = "idle" /\ result' = "false"
  BY DEF Begin
<1>4. refusal = "none" => /\ Headers[h].minimum_instruction # 0
                          /\ Headers[h].line_range # 0
                          /\ count <= MaxFiles
  <2> HIDE DEF count
  <2>1. ASSUME refusal = "none"
        PROVE  /\ Headers[h].minimum_instruction # 0
               /\ Headers[h].line_range # 0
               /\ ~(count > MaxFiles)
    BY <2>1, AcceptedHeader DEF LineConstants
  <2> QED
    BY <1>1, <2>1
<1> HIDE DEF refusal, count, kept
<1>5. files' \in Nat /\ (refusal = "none" => files' = count)
  BY <1>1, <1>2
<1>6. RegistersOK'
  <2>1. refusal = "none" => header' = Headers[h]
    BY <1>3 DEF header
  <2> QED
    BY <1>3, <1>4, <2>1, AnyHeaderIsHeader DEF LinesInv, RegistersOK
<1>7. UnitOK'
  <2>1. rows' \in Seq(RowSet) /\ Len(rows') <= MaxRows
    BY <1>3 DEF LinesInv, UnitOK, LineConstants
  <2>2. statement' \in BOOLEAN
    BY <1>3 DEF LineConstants
  <2> QED
    BY <1>3, <1>4, <1>5, <2>1, <2>2 DEF LinesInv, UnitOK
<1> QED
  BY <1>6, <1>7 DEF LinesInv

\* An opcode that adds no row.
LEMMA OpcodeKeeps ==
    ASSUME LineConstants, LinesInv, Reading, Read, UNCHANGED rows,
           address' \in Word, exact' \in Nat, wrapped' \in BOOLEAN,
           wrapped' \/ address' = exact',
           line' \in Nat, file' \in {1, 2}, statement' \in BOOLEAN
    PROVE  LinesInv'
<1>1. RegistersOK'
  BY DEF Read, LinesInv, RegistersOK, header
<1>2. UnitOK'
  BY DEF Read, LinesInv, UnitOK
<1> QED
  BY <1>1, <1>2 DEF LinesInv

\* An opcode that adds a row: there was room for it.
LEMMA RowKeeps ==
    ASSUME LineConstants, LinesInv, Reading, Read,
           NEW row \in RowSet, rows' = Append(rows, row),
           address' \in Word, exact' \in Nat, wrapped' \in BOOLEAN,
           wrapped' \/ address' = exact',
           line' \in Nat, file' \in {1, 2}, statement' \in BOOLEAN
    PROVE  LinesInv'
<1>1. RegistersOK'
  BY DEF Read, LinesInv, RegistersOK, header
<1>2. rows \in Seq(RowSet) /\ Len(rows) < MaxRows /\ MaxRows \in Nat
  BY DEF LinesInv, UnitOK, Reading, MoreRows, LineConstants
<1>3. rows' \in Seq(RowSet) /\ Len(rows') <= MaxRows
  BY <1>2
<1>4. UnitOK'
  BY <1>3 DEF Read, Reading, LinesInv, UnitOK
<1> QED
  BY <1>1, <1>4 DEF LinesInv

\* The row of the registers.
LEMMA RowIsRow ==
    ASSUME LineConstants, LinesInv, NEW end \in BOOLEAN
    PROVE  Row(end) \in RowSet
<1>1. line % RowLines \in Nat
  BY DEF LineConstants, LinesInv, UnitOK
<1> QED
  BY <1>1 DEF Row, RowSet, LinesInv, RegistersOK, UnitOK

\* Every opcode, every call and every return keeps the invariant.
LEMMA LinesNext ==
    ASSUME LineConstants, LinesInv, [Next]_vars
    PROVE  LinesInv'
<1>1. /\ address \in Word /\ exact \in Nat /\ wrapped \in BOOLEAN
      /\ wrapped \/ address = exact
      /\ line \in Nat /\ file \in {1, 2} /\ statement \in BOOLEAN
      /\ unit_header \in DOMAIN Headers
      /\ 0 \in Word /\ MaxWord \in Nat
  BY WordAssumption DEF LinesInv, RegistersOK, UnitOK, Word
<1>2. /\ header.minimum_instruction \in Nat /\ header.line_range \in Nat
      /\ header.line_base \in Int /\ header.opcode_base \in Nat
      /\ header.default_statement \in BOOLEAN
      /\ Advances \subseteq Word /\ Advances \subseteq Nat /\ LineAdvances \subseteq Int
      /\ RowLines \in Nat \ {0} /\ MaxLine \in Nat
  BY <1>1, WordAssumption DEF LineConstants, header, Word
<1>3. ASSUME NEW e, Fail(e) PROVE LinesInv'
  BY <1>3, ReturnKeeps DEF Fail
<1>4. ASSUME NEW h \in DOMAIN Headers, NEW new_unit \in BOOLEAN, Begin(h, new_unit)
      PROVE  LinesInv'
  BY <1>4, BeginKeeps
<1>5. CASE EndSequence
  <2>1. Row(TRUE) \in RowSet
    BY RowIsRow
  <2>2. /\ Reading /\ Read /\ rows' = Append(rows, Row(TRUE))
        /\ address' = 0 /\ exact' = 0 /\ wrapped' = FALSE
        /\ line' = 1 /\ file' = 1 /\ statement' = header.default_statement
    BY <1>5 DEF EndSequence
  <2> QED
    BY <1>1, <1>2, <2>1, <2>2, RowKeeps
<1>6. CASE SetAddress
  <2>1. CASE Fail("invalid_debug_info")
    BY <1>3, <2>1
  <2>2. CASE ~Fail("invalid_debug_info")
    <3>1. /\ Reading /\ Read /\ address' \in Advances /\ exact' = address'
          /\ wrapped' = FALSE /\ UNCHANGED <<line, file, statement, rows>>
      BY <1>6, <2>2 DEF SetAddress
    <3> QED
      BY <1>1, <1>2, <3>1, OpcodeKeeps
  <2> QED
    BY <2>1, <2>2
<1>7. CASE ExtendedTruncated
  BY <1>3, <1>7 DEF ExtendedTruncated
<1>8. CASE PassOver
  BY <1>1, <1>8, OpcodeKeeps DEF PassOver, registers
<1>9. CASE Copy
  <2>1. Row(FALSE) \in RowSet
    BY RowIsRow
  <2> QED
    BY <1>1, <1>9, <2>1, RowKeeps DEF Copy, registers
<1>10. CASE AdvancePc
  <2>1. CASE Fail("address_overflow")
    BY <1>3, <2>1
  <2>2. CASE ~Fail("address_overflow")
    <3>1. PICK advance \in Advances :
             LET product == advance * header.minimum_instruction
                 delta == Wrap(product)
             IN  /\ AddFits(address, delta)
                 /\ Reading /\ Read
                 /\ address' = address + delta
                 /\ exact' = exact + product
                 /\ wrapped' = (wrapped \/ product > MaxWord)
                 /\ UNCHANGED <<line, file, statement, rows>>
      BY <1>10, <2>2 DEF AdvancePc
    <3> DEFINE product == advance * header.minimum_instruction
               delta == Wrap(product)
    <3>2. product \in Nat
      BY <1>2
    <3>3. delta \in Nat /\ (product <= MaxWord => delta = product)
      <4> HIDE DEF product
      <4> QED
        BY <1>1, <3>2, WrapIsWord, WrapIsIdentity DEF Word
    <3>4. /\ AddFits(address, delta) /\ Reading /\ Read
          /\ address' = address + delta /\ exact' = exact + product
          /\ wrapped' = (wrapped \/ product > MaxWord)
          /\ UNCHANGED <<line, file, statement, rows>>
      BY <3>1
    <3> HIDE DEF product, delta
    <3>5. address' \in Word
      BY <1>1, <3>3, <3>4, CheckedSum
    <3>6. exact' \in Nat
      BY <1>1, <3>2, <3>4
    <3>7. wrapped' \in BOOLEAN
      BY <3>4
    <3>8. wrapped' \/ address' = exact'
      <4>1. CASE wrapped \/ product > MaxWord
        BY <3>4, <4>1
      <4>2. CASE ~wrapped /\ ~(product > MaxWord)
        <5>1. address = exact /\ delta = product
          BY <1>1, <3>2, <3>3, <4>2
        <5> QED
          BY <3>4, <5>1
      <4> QED
        BY <4>1, <4>2
    <3> QED
      BY <1>1, <3>4, <3>5, <3>6, <3>7, <3>8, OpcodeKeeps
  <2> QED
    BY <2>1, <2>2
<1>11. CASE AdvanceLine
  <2>1. CASE \E e : Fail(e)
    BY <1>3, <2>1
  <2>2. CASE ~\E e : Fail(e)
    <3>1. PICK advance \in LineAdvances :
             /\ IsLine(line + advance) /\ Reading /\ Read
             /\ line' = line + advance
             /\ UNCHANGED <<address, file, statement, rows, exact, wrapped>>
      BY <1>11, <2>2 DEF AdvanceLine, FailSilently
    <3>2. line' \in Nat
      BY <1>1, <1>2, <3>1 DEF IsLine
    <3> QED
      BY <1>1, <3>1, <3>2, OpcodeKeeps
  <2> QED
    BY <2>1, <2>2
<1>12. CASE SetFile
  <2>1. CASE FailSilently
    BY <1>3, <2>1 DEF FailSilently
  <2>2. CASE ~FailSilently
    BY <1>1, <1>12, <2>2, OpcodeKeeps DEF SetFile
  <2> QED
    BY <2>1, <2>2
<1>13. CASE NegateStatement
  <2>1. statement' \in BOOLEAN
    BY <1>13 DEF NegateStatement
  <2> QED
    BY <1>1, <1>13, <2>1, OpcodeKeeps DEF NegateStatement
<1>14. CASE Special
  <2>1. CASE \E e : Fail(e)
    BY <1>3, <2>1
  <2>2. CASE ~\E e : Fail(e)
    <3>1. PICK op \in 1..MaxOpcode :
             /\ op >= header.opcode_base /\ SpecialFits(op)
             /\ IsLine(line + LineDelta(op))
             /\ Reading /\ Read
             /\ address' = Wrap(address + AddressDelta(op))
             /\ exact' = exact + AddressDelta(op)
             /\ line' = line + LineDelta(op)
             /\ rows' = Append(rows,
                   [address |-> address', line |-> (line + LineDelta(op)) % RowLines,
                    file |-> file, statement |-> statement, end_sequence |-> FALSE])
             /\ UNCHANGED <<file, statement, wrapped>>
      BY <1>14, <2>2 DEF Special, FailSilently
    <3> DEFINE delta == AddressDelta(op)
               next == line + LineDelta(op)
    <3>2. header.line_range # 0
      BY <3>1 DEF LinesInv, RegistersOK, Reading
    <3>3. op - header.opcode_base \in Nat
      BY <1>2, <3>1
    <3>4. delta \in Nat
      BY <1>2, <3>2, <3>3, DeltaIsNatural DEF AddressDelta
    <3>5. LineDelta(op) \in Int
      BY <1>2, <3>2, <3>3 DEF LineDelta
    <3>6. next \in Nat
      BY <1>1, <3>1, <3>5 DEF IsLine
    <3>7. /\ AddFits(address, delta) /\ address' = Wrap(address + delta)
          /\ exact' = exact + delta /\ line' = next
      BY <3>1 DEF SpecialFits
    <3> DEFINE row == [address |-> address', line |-> next % RowLines,
                       file |-> file, statement |-> statement, end_sequence |-> FALSE]
    <3>8. rows' = Append(rows, row) /\ Reading /\ Read
          /\ UNCHANGED <<file, statement, wrapped>>
      BY <3>1
    <3> HIDE DEF delta, next
    <3>9. address' \in Word /\ address' = address + delta
      BY <1>1, <3>4, <3>7, CheckedSum
    <3>10. next % RowLines \in Nat
      BY <1>2, <3>6
    <3>11. row \in RowSet
      BY <1>1, <3>9, <3>10 DEF RowSet
    <3> HIDE DEF row
    <3>12. exact' \in Nat /\ (wrapped' \/ address' = exact')
      BY <1>1, <3>4, <3>7, <3>8, <3>9
    <3> QED
      BY <1>1, <3>6, <3>7, <3>8, <3>9, <3>11, <3>12, RowKeeps
  <2> QED
    BY <2>1, <2>2
<1>15. CASE Finish
  BY <1>3, <1>15, ReturnKeeps DEF Finish
<1>16. CASE UNCHANGED vars
  BY <1>16 DEF vars, LinesInv, RegistersOK, UnitOK, header
<1> QED
  BY <1>4, <1>5, <1>6, <1>7, <1>8, <1>9, <1>10, <1>11, <1>12, <1>13, <1>14,
     <1>15, <1>16 DEF Next

-----------------------------------------------------------------------------
(* The theorems.                                                           *)

\* The invariant of the line state machine.
THEOREM LinesInvariant == Spec => []LinesInv
<1>1. Init => LinesInv
  BY LinesInit, LinesAssumption
<1>2. LinesInv /\ [Next]_vars => LinesInv'
  BY LinesNext, LinesAssumption
<1> QED
  BY <1>1, <1>2, PTL DEF Spec

\* The address register is the exact sum that the program asks for unless a
\* product of advance_pc wrapped, the only product that is not checked, and the
\* rows of a unit keep to the budget through any sequence of programs, some of
\* which fail in the middle (AddressIsExact, parse_line_program).
THEOREM AddressesAreExact == Spec => []AddressIsExact
<1>1. LinesInv => AddressIsExact
  BY DEF LinesInv, RegistersOK, UnitOK, AddressIsExact, RowsAreBudgeted
<1> QED
  BY <1>1, LinesInvariant, PTL

-----------------------------------------------------------------------------
(* The entry tree: DebugInfoParser::parse_entries.                         *)

ItemSet == [kind : {"open", "leaf", "end"}, path : Seq(Nat)]
LevelSet == [path : Seq(Nat), around : Nat]

\* EntryPaths and ChildCount for a list of items.
Paths(list) == {item.path : item \in {i \in ToSet(list) : i.kind # "end"}}
Below(paths, path) ==
    Cardinality({p \in paths : Len(p) = Len(path) + 1 /\ Front(p) = path})

\* The entries of a vector are numbered without gaps.
PathsOK(list) ==
    /\ IsFiniteSet(Paths(list))
    /\ \A q \in Paths(list) :
          q \in Seq(Nat) /\ q # <<>> /\ Last(q) <= Below(Paths(list), Front(q))

\* Every pointer is to the children of an entry of the vector before it, and
\* that vector has not grown since.
LevelsOK(list, chain) ==
    /\ \A i \in 1..Len(chain) : Len(chain[i].path) = i - 1
    /\ \A i, m \in 1..Len(chain) : i <= m =>
          \A e \in 1..(i - 1) : chain[i].path[e] = chain[m].path[e]
    /\ \A i \in 2..Len(chain) :
          chain[i].around = Below(Paths(list), chain[i - 1].path)

\* The entries that are open at the end of the list.
Unclosed(list) == Enclosing(list, Len(list) + 1)

\* One entry is open for each pointer but the first, and the item counts say
\* how many were opened inside it.
OpenOK(list, chain) ==
    /\ Cardinality(Unclosed(list)) = Len(chain) - 1
    /\ \A j \in Unclosed(list) :
          /\ Len(list[j].path) \in 1..(Len(chain) - 1)
          /\ chain[Len(list[j].path) + 1].path = list[j].path
          /\ CountOf(list, "open", j + 1, Len(list))
                = CountOf(list, "end", j + 1, Len(list))
                  + ((Len(chain) - 1) - Len(list[j].path))
    /\ \A d \in 1..(Len(chain) - 1) :
          \E j \in Unclosed(list) : Len(list[j].path) = d
    /\ \A i, j \in Unclosed(list) : Len(list[i].path) = Len(list[j].path) => i = j

\* What the property says of the entries.
WrittenOK(list) ==
    \A n \in 1..Len(list) :
       list[n].kind # "end" =>
          /\ Len(list[n].path) = Cardinality(Enclosing(list, n)) + 1
          /\ Len(list[n].path) <= MaxDepth
          /\ \A j \in Enclosing(list, n) : IsPrefix(list[j].path, list[n].path)

ListsOK(list, chain) ==
    /\ list \in Seq(ItemSet)
    /\ chain \in Seq(LevelSet)
    /\ Len(chain) \in 1..(MaxDepth + 1)

Nested(list, chain) ==
    /\ ListsOK(list, chain)
    /\ PathsOK(list)
    /\ LevelsOK(list, chain)
    /\ OpenOK(list, chain)
    /\ WrittenOK(list)

TreeInv ==
    /\ Nested(tree, levels)
    /\ tree_stage = "start" => tree = <<>>
    /\ tree_stage # "done" => tree_error # "resource_limit"
    /\ tree_error = "resource_limit" => tree = <<>> \/ Len(levels) = MaxDepth + 1

-----------------------------------------------------------------------------
(* Lists that grow.                                                        *)

\* The items of a list that is one longer.
LEMMA Longer ==
    ASSUME NEW S, NEW t \in Seq(S), NEW x \in S
    PROVE  /\ Len(t) \in Nat /\ DOMAIN t = 1..Len(t)
           /\ Append(t, x) \in Seq(S)
           /\ Len(Append(t, x)) = Len(t) + 1
           /\ DOMAIN Append(t, x) = 1..(Len(t) + 1)
           /\ Append(t, x)[Len(t) + 1] = x
           /\ \A k \in 1..Len(t) : Append(t, x)[k] = t[k]
BY AppendProperties, LenProperties

\* The counts of the part that was there.
LEMMA CountOfPrefix ==
    ASSUME NEW S, NEW t \in Seq(S), NEW x \in S, NEW kind,
           NEW a \in Nat, NEW b \in Nat, 1 <= a, b <= Len(t)
    PROVE  CountOf(Append(t, x), kind, a, b) = CountOf(t, kind, a, b)
<1>1. \A k \in a..b : Append(t, x)[k] = t[k]
  BY Longer
<1> QED
  BY <1>1 DEF CountOf

\* The counts are numbers, and one item changes them by at most one.
LEMMA CountOfLonger ==
    ASSUME NEW S, NEW t \in Seq(S), NEW x \in S, NEW kind,
           NEW a \in 1..(Len(t) + 1)
    PROVE  /\ CountOf(t, kind, a, Len(t)) \in Nat
           /\ CountOf(Append(t, x), kind, a, Len(t) + 1)
                 = CountOf(t, kind, a, Len(t)) + (IF x.kind = kind THEN 1 ELSE 0)
<1> DEFINE L == Len(t)
           A == {k \in a..L : t[k].kind = kind}
           B == {k \in a..(L + 1) : Append(t, x)[k].kind = kind}
<1>1. L \in Nat /\ a \in Nat /\ 1 <= a /\ a <= L + 1
  BY Longer
<1>2. IsFiniteSet(A) /\ Cardinality(A) \in Nat /\ L + 1 \notin A
  <2>1. IsFiniteSet(a..L)
    BY <1>1, FS_Interval
  <2>2. IsFiniteSet(A)
    BY <2>1, FS_Subset
  <2> QED
    BY <1>1, <2>2, FS_CardinalityType
<1>3. /\ Append(t, x)[L + 1] = x
      /\ \A k \in a..L : Append(t, x)[k] = t[k]
  BY <1>1, Longer
<1>4. a..(L + 1) = (a..L) \cup {L + 1}
  BY <1>1
<1>5. Cardinality(B) = Cardinality(A) + (IF x.kind = kind THEN 1 ELSE 0)
  <2>1. CASE x.kind = kind
    <3>1. B = A \cup {L + 1}
      BY <1>1, <1>3, <1>4, <2>1
    <3> HIDE DEF A, B
    <3> QED
      BY <1>2, <2>1, <3>1, FS_AddElement
  <2>2. CASE x.kind # kind
    <3>1. B = A
      BY <1>1, <1>3, <1>4, <2>2
    <3> HIDE DEF A, B
    <3> QED
      BY <1>2, <2>2, <3>1
  <2> QED
    BY <2>1, <2>2
<1>6. CountOf(t, kind, a, Len(t)) = Cardinality(A)
      /\ CountOf(Append(t, x), kind, a, Len(t) + 1) = Cardinality(B)
  BY DEF CountOf
<1> HIDE DEF A, B
<1> QED
  BY <1>2, <1>5, <1>6

\* What encloses an item does not depend on what follows it.
LEMMA EnclosingPrefix ==
    ASSUME NEW S, NEW t \in Seq(S), NEW x \in S, NEW n \in 1..(Len(t) + 1)
    PROVE  Enclosing(Append(t, x), n) = Enclosing(t, n)
<1>1. Len(t) \in Nat /\ n \in Nat
  BY Longer
<1>2. ASSUME NEW j \in 1..(n - 1)
      PROVE  IsOpen(Append(t, x), j, n) <=> IsOpen(t, j, n)
  <2>1. Append(t, x)[j] = t[j]
    BY <1>1, Longer
  <2>2. ASSUME NEW m \in (j + 1)..(n - 1), NEW kind
        PROVE  CountOf(Append(t, x), kind, j + 1, m) = CountOf(t, kind, j + 1, m)
    <3>1. j + 1 \in Nat /\ m \in Nat /\ 1 <= j + 1 /\ m <= Len(t)
      BY <1>1
    <3> QED
      BY <3>1, CountOfPrefix
  <2> QED
    BY <2>1, <2>2 DEF IsOpen
<1> QED
  BY <1>2 DEF Enclosing

\* The entries that are open after one more item: those that were, unless the
\* item ends them, and the item itself if it is opened.
LEMMA UnclosedLonger ==
    ASSUME NEW S, NEW t \in Seq(S), NEW x \in S
    PROVE  Unclosed(Append(t, x)) =
              {j \in Unclosed(t) :
                  CountOf(Append(t, x), "end", j + 1, Len(t) + 1)
                     <= CountOf(Append(t, x), "open", j + 1, Len(t) + 1)}
              \cup {j \in {Len(t) + 1} : x.kind = "open"}
<1> DEFINE L == Len(t)
           u == Append(t, x)
           Kept == {j \in Unclosed(t) :
                      CountOf(u, "end", j + 1, L + 1) <= CountOf(u, "open", j + 1, L + 1)}
           New == {j \in {L + 1} : x.kind = "open"}
<1>1. L \in Nat /\ Len(u) = L + 1 /\ u[L + 1] = x /\ \A k \in 1..L : u[k] = t[k]
  BY Longer
<1>2. Enclosing(u, L + 1) = Unclosed(t)
  <2>1. L + 1 \in 1..(L + 1)
    BY <1>1
  <2> QED
    BY <2>1, EnclosingPrefix DEF Unclosed
<1>3. (L + 1) + 1 - 1 = L + 1 /\ (L + 1) - 1 = L
  BY <1>1
<1> HIDE DEF u
<1>4. ASSUME NEW j \in 1..L
      PROVE  IsOpen(u, j, (L + 1) + 1) <=>
               /\ IsOpen(u, j, L + 1)
               /\ CountOf(u, "end", j + 1, L + 1) <= CountOf(u, "open", j + 1, L + 1)
  <2>1. (j + 1)..(L + 1) = ((j + 1)..L) \cup {L + 1}
    BY <1>1
  <2> QED
    BY <1>3, <2>1 DEF IsOpen
<1>5. IsOpen(u, L + 1, (L + 1) + 1) <=> x.kind = "open"
  <2>1. ((L + 1) + 1)..(L + 1) = {}
    BY <1>1
  <2> QED
    BY <1>1, <1>3, <2>1 DEF IsOpen
<1>6. 1..(L + 1) = (1..L) \cup {L + 1} /\ L + 1 \notin 1..L
  BY <1>1
<1>7. Unclosed(u) = {j \in 1..(L + 1) : IsOpen(u, j, (L + 1) + 1)}
  BY <1>1, <1>3 DEF Unclosed, Enclosing
<1>8. Unclosed(t) = {j \in 1..L : IsOpen(u, j, L + 1)}
  BY <1>2, <1>3 DEF Enclosing
<1>9. Unclosed(u) = Kept \cup New
  BY <1>4, <1>5, <1>6, <1>7, <1>8
<1> QED
  BY <1>9 DEF u

-----------------------------------------------------------------------------
(* Paths.                                                                  *)

\* A path and the path of its vector.
LEMMA PathParts ==
    ASSUME NEW s \in Seq(Nat), NEW v \in Nat
    PROVE  /\ Append(s, v) \in Seq(Nat) /\ Append(s, v) # <<>>
           /\ Len(s) \in Nat /\ Len(Append(s, v)) = Len(s) + 1
           /\ Front(Append(s, v)) = s /\ Last(Append(s, v)) = v
           /\ \A e \in 1..Len(s) : Append(s, v)[e] = s[e]
<1> DEFINE q == Append(s, v)
<1>1. /\ q \in Seq(Nat) /\ Len(q) = Len(s) + 1 /\ Len(s) \in Nat
      /\ q[Len(s) + 1] = v /\ \A e \in 1..Len(s) : q[e] = s[e]
  BY Longer
<1>2. q # <<>>
  BY <1>1
<1> HIDE DEF q
<1>3. Front(q) = s
  <2>1. Front(q) = SubSeq(q, 1, Len(s))
    BY <1>1 DEF Front
  <2>2. /\ SubSeq(q, 1, Len(s)) \in Seq(Nat)
        /\ Len(SubSeq(q, 1, Len(s))) = Len(s)
        /\ \A e \in 1..Len(s) : SubSeq(q, 1, Len(s))[e] = q[e]
    BY <1>1, SubSeqProperties
  <2> QED
    BY <1>1, <2>1, <2>2, SeqEqual
<1>4. Last(q) = v
  BY <1>1 DEF Last
<1> QED
  BY <1>1, <1>2, <1>3, <1>4 DEF q

\* A sequence that agrees with a longer one is a prefix of it.
LEMMA PointwisePrefix ==
    ASSUME NEW s \in Seq(Nat), NEW q \in Seq(Nat), Len(s) <= Len(q),
           \A e \in 1..Len(s) : s[e] = q[e]
    PROVE  IsPrefix(s, q) /\ (Len(q) = Len(s) + 1 => Front(q) = s)
<1>1. Len(s) \in Nat /\ Len(q) \in Nat
  BY LenProperties
<1>2. /\ SubSeq(q, 1, Len(s)) \in Seq(Nat)
      /\ Len(SubSeq(q, 1, Len(s))) = Len(s)
      /\ \A e \in 1..Len(s) : SubSeq(q, 1, Len(s))[e] = q[e]
  BY <1>1, SubSeqProperties
<1>3. SubSeq(q, 1, Len(s)) = s
  BY <1>2, SeqEqual
<1>4. SubSeq(s, 1, Len(s)) = s
  BY SubSeqFull
<1>5. Len(q) = Len(s) + 1 => Front(q) = s
  BY <1>1, <1>3 DEF Front
<1> QED
  BY <1>3, <1>4, <1>5 DEF IsPrefix

\* An entry adds its path, an end mark adds nothing.
LEMMA PathsLonger ==
    ASSUME NEW S, NEW t \in Seq(S), NEW x \in S
    PROVE  /\ x.kind = "end" => Paths(Append(t, x)) = Paths(t)
           /\ x.kind # "end" => Paths(Append(t, x)) = Paths(t) \cup {x.path}
<1> DEFINE u == Append(t, x)
<1>1. ToSet(u) = ToSet(t) \cup {x}
  <2>1. DOMAIN u = (1..Len(t)) \cup {Len(t) + 1} /\ DOMAIN t = 1..Len(t)
    BY Longer
  <2>2. u[Len(t) + 1] = x /\ \A k \in 1..Len(t) : u[k] = t[k]
    BY Longer
  <2> HIDE DEF u
  <2> QED
    BY <2>1, <2>2 DEF ToSet
<1> HIDE DEF u
<1>2. x.kind = "end" => Paths(u) = Paths(t)
  BY <1>1 DEF Paths
<1>3. x.kind # "end" => Paths(u) = Paths(t) \cup {x.path}
  BY <1>1 DEF Paths
<1> QED
  BY <1>2, <1>3 DEF u

\* A new path counts for its own vector.
LEMMA BelowGrows ==
    ASSUME NEW P, IsFiniteSet(P), NEW q, q \notin P, NEW p
    PROVE  /\ Below(P, p) \in Nat
           /\ Len(q) = Len(p) + 1 /\ Front(q) = p => Below(P \cup {q}, p) = Below(P, p) + 1
           /\ ~(Len(q) = Len(p) + 1 /\ Front(q) = p) => Below(P \cup {q}, p) = Below(P, p)
<1> DEFINE A == {r \in P : Len(r) = Len(p) + 1 /\ Front(r) = p}
           B == {r \in P \cup {q} : Len(r) = Len(p) + 1 /\ Front(r) = p}
<1>1. IsFiniteSet(A) /\ Cardinality(A) \in Nat /\ q \notin A
  BY FS_Subset, FS_CardinalityType
<1>2. Below(P, p) = Cardinality(A) /\ Below(P \cup {q}, p) = Cardinality(B)
  BY DEF Below
<1>3. CASE Len(q) = Len(p) + 1 /\ Front(q) = p
  <2>1. B = A \cup {q}
    BY <1>3
  <2> HIDE DEF A, B
  <2>2. Cardinality(B) = Cardinality(A) + 1
    BY <1>1, <2>1, FS_AddElement
  <2> QED
    BY <1>1, <1>2, <1>3, <2>2
<1>4. CASE ~(Len(q) = Len(p) + 1 /\ Front(q) = p)
  <2>1. B = A
    BY <1>4
  <2> HIDE DEF A, B
  <2> QED
    BY <1>1, <1>2, <1>4, <2>1
<1> QED
  BY <1>3, <1>4

\* The path of the next entry of a vector.
NextPath(list, owner) == Append(owner, Below(Paths(list), owner) + 1)

\* The next entry of a vector is a new one, and the numbers stay without gaps.
LEMMA PathsGrow ==
    ASSUME NEW t \in Seq(ItemSet), PathsOK(t), NEW owner \in Seq(Nat),
           NEW x \in ItemSet, x.kind # "end", x.path = NextPath(t, owner)
    PROVE  /\ PathsOK(Append(t, x))
           /\ Below(Paths(t), owner) \in Nat
           /\ Below(Paths(Append(t, x)), owner) = Below(Paths(t), owner) + 1
           /\ \A p : Len(p) # Len(owner) =>
                 Below(Paths(Append(t, x)), p) = Below(Paths(t), p)
<1> DEFINE P == Paths(t)
           c == Below(P, owner)
           q == NextPath(t, owner)
<1>1. IsFiniteSet(P) /\ \A r \in P :
         r \in Seq(Nat) /\ r # <<>> /\ Last(r) <= Below(P, Front(r))
  BY DEF PathsOK
<1>2. c \in Nat
  <2>1. IsFiniteSet({p \in P : Len(p) = Len(owner) + 1 /\ Front(p) = owner})
    BY <1>1, FS_Subset
  <2> QED
    BY <2>1, FS_CardinalityType DEF Below
<1>3. /\ q \in Seq(Nat) /\ q # <<>> /\ Len(q) = Len(owner) + 1 /\ Len(owner) \in Nat
      /\ Front(q) = owner /\ Last(q) = c + 1
  BY <1>2, PathParts DEF NextPath
<1> HIDE DEF q
<1>4. q \notin P
  BY <1>1, <1>2, <1>3
<1>5. Paths(Append(t, x)) = P \cup {q}
  BY PathsLonger DEF q
<1> HIDE DEF P
<1>6. \A p : /\ Below(P, p) \in Nat
             /\ Len(q) = Len(p) + 1 /\ Front(q) = p => Below(P \cup {q}, p) = Below(P, p) + 1
             /\ ~(Len(q) = Len(p) + 1 /\ Front(q) = p) => Below(P \cup {q}, p) = Below(P, p)
  BY <1>1, <1>4, BelowGrows
<1>7. Below(P \cup {q}, owner) = c + 1
  BY <1>3, <1>6
<1>8. ASSUME NEW p, Len(p) # Len(owner)
      PROVE  Below(P \cup {q}, p) = Below(P, p)
  <2>1. Front(q) # p
    BY <1>3, <1>8
  <2> QED
    BY <1>6, <2>1
<1>9. IsFiniteSet(P \cup {q})
  BY <1>1, FS_AddElement
<1>10. ASSUME NEW r \in P \cup {q}
       PROVE  r \in Seq(Nat) /\ r # <<>> /\ Last(r) <= Below(P \cup {q}, Front(r))
  <2>1. CASE r = q
    BY <1>2, <1>3, <1>7, <2>1
  <2>2. CASE r \in P
    <3>1. r \in Seq(Nat) /\ r # <<>> /\ Last(r) <= Below(P, Front(r))
      BY <1>1, <2>2
    <3>2. Last(r) \in Nat
      BY <3>1, LenProperties, EmptySeq, ElementOfSeq DEF Last
    <3>3. Below(P, Front(r)) \in Nat /\ Below(P \cup {q}, Front(r)) \in Nat
          /\ Below(P, Front(r)) <= Below(P \cup {q}, Front(r))
      <4> DEFINE a == Below(P, Front(r))
                 b == Below(P \cup {q}, Front(r))
      <4>1. a \in Nat /\ (b = a \/ b = a + 1)
        BY <1>6
      <4> HIDE DEF a, b
      <4>2. a \in Nat /\ b \in Nat /\ a <= b
        BY <4>1
      <4> QED
        BY <4>2 DEF a, b
    <3> QED
      BY <3>1, <3>2, <3>3
  <2> QED
    BY <2>1, <2>2
<1>11. PathsOK(Append(t, x))
  BY <1>5, <1>9, <1>10 DEF PathsOK
<1> QED
  BY <1>2, <1>5, <1>7, <1>8, <1>11 DEF P

-----------------------------------------------------------------------------
(* The levels.                                                             *)

\* The types of the lists, in the form in which the steps use them.
LEMMA ListFields ==
    ASSUME NEW t, NEW s, ListsOK(t, s)
    PROVE  /\ t \in Seq(ItemSet) /\ Len(t) \in Nat /\ DOMAIN t = 1..Len(t)
           /\ s \in Seq(LevelSet) /\ Len(s) \in Nat /\ 1 <= Len(s)
           /\ Len(s) <= MaxDepth + 1 /\ MaxDepth \in Nat
           /\ \A i \in 1..Len(s) : s[i] \in LevelSet /\ s[i].path \in Seq(Nat)
           /\ \A k \in 1..Len(t) : t[k] \in ItemSet /\ t[k].path \in Seq(Nat)
           /\ Last(s) = s[Len(s)] /\ Last(s).path \in Seq(Nat)
<1>1. /\ t \in Seq(ItemSet) /\ Len(t) \in Nat /\ DOMAIN t = 1..Len(t)
      /\ s \in Seq(LevelSet) /\ Len(s) \in Nat /\ 1 <= Len(s)
      /\ Len(s) <= MaxDepth + 1 /\ MaxDepth \in Nat
  BY LenProperties, TreeAssumption DEF ListsOK
<1>2. \A i \in 1..Len(s) : s[i] \in LevelSet /\ s[i].path \in Seq(Nat)
  <2>1. \A y \in LevelSet : y.path \in Seq(Nat)
    BY DEF LevelSet
  <2>2. \A i \in 1..Len(s) : s[i] \in LevelSet
    BY <1>1, ElementOfSeq
  <2> QED
    BY <2>1, <2>2
<1>3. \A k \in 1..Len(t) : t[k] \in ItemSet /\ t[k].path \in Seq(Nat)
  <2>1. \A y \in ItemSet : y.path \in Seq(Nat)
    BY DEF ItemSet
  <2>2. \A k \in 1..Len(t) : t[k] \in ItemSet
    BY <1>1, ElementOfSeq
  <2> QED
    BY <2>1, <2>2
<1>4. Last(s) = s[Len(s)]
  BY DEF Last
<1>5. Last(s).path \in Seq(Nat)
  BY <1>1, <1>2, <1>4
<1> QED
  BY <1>1, <1>2, <1>3, <1>4, <1>5

\* An entry of the last level leaves the vectors around it as they are.
LEMMA LevelsStay ==
    ASSUME NEW t, NEW s, ListsOK(t, s), PathsOK(t), LevelsOK(t, s),
           NEW x \in ItemSet, x.kind # "end", x.path = NextPath(t, Last(s).path)
    PROVE  LevelsOK(Append(t, x), s)
<1> DEFINE k == Len(s)
<1>1. k \in Nat /\ 1 <= k /\ Len(s[k].path) = k - 1 /\ Last(s) = s[k]
      /\ t \in Seq(ItemSet) /\ Last(s).path \in Seq(Nat)
  BY ListFields DEF LevelsOK
<1>2. \A p : Len(p) # Len(Last(s).path) =>
         Below(Paths(Append(t, x)), p) = Below(Paths(t), p)
  BY <1>1, PathsGrow
<1>3. ASSUME NEW i \in 2..k
      PROVE  s[i].around = Below(Paths(Append(t, x)), s[i - 1].path)
  <2>1. i - 1 \in 1..k /\ (i - 1) - 1 # k - 1
    BY <1>1
  <2>2. Len(s[i - 1].path) = (i - 1) - 1
    BY <2>1 DEF LevelsOK
  <2>3. Below(Paths(Append(t, x)), s[i - 1].path) = Below(Paths(t), s[i - 1].path)
    BY <1>1, <1>2, <2>1, <2>2
  <2> QED
    BY <2>3 DEF LevelsOK
<1> QED
  BY <1>3 DEF LevelsOK

\* The pointer to the children of the entry.
LEMMA LevelsGrow ==
    ASSUME NEW t, NEW s, ListsOK(t, s), PathsOK(t), LevelsOK(t, s),
           NEW x \in ItemSet, x.kind # "end", x.path = NextPath(t, Last(s).path),
           NEW v \in LevelSet, v.path = x.path,
           v.around = Below(Paths(t), Last(s).path) + 1
    PROVE  LevelsOK(Append(t, x), Append(s, v))
<1> DEFINE k == Len(s)
           z == Append(s, v)
           P == Paths(Append(t, x))
<1>1. /\ k \in Nat /\ 1 <= k /\ Len(s[k].path) = k - 1 /\ Last(s) = s[k]
      /\ t \in Seq(ItemSet) /\ Last(s).path \in Seq(Nat) /\ s \in Seq(LevelSet)
  BY ListFields DEF LevelsOK
<1>2. /\ Len(z) = k + 1 /\ z[k + 1] = v /\ \A i \in 1..k : z[i] = s[i]
  BY <1>1, Longer
<1>3. LevelsOK(Append(t, x), s)
  BY LevelsStay
<1>4. /\ Below(P, s[k].path) = v.around
      /\ Below(Paths(t), s[k].path) + 1 \in Nat
  BY <1>1, PathsGrow
<1>5. /\ Len(v.path) = k
      /\ \A e \in 1..(k - 1) : v.path[e] = s[k].path[e]
  BY <1>1, <1>4, PathParts DEF NextPath
<1> HIDE DEF z, P
<1>6. ASSUME NEW i \in 1..(k + 1) PROVE Len(z[i].path) = i - 1
  <2>1. CASE i \in 1..k
    BY <1>2, <2>1 DEF LevelsOK
  <2>2. CASE i = k + 1
    BY <1>1, <1>2, <1>5, <2>2
  <2> QED
    BY <1>1, <2>1, <2>2
<1>7. ASSUME NEW i \in 1..(k + 1), NEW m \in 1..(k + 1), i <= m, NEW e \in 1..(i - 1)
      PROVE  z[i].path[e] = z[m].path[e]
  <2>1. CASE m \in 1..k
    <3>1. i \in 1..k
      BY <1>1, <1>7, <2>1
    <3> QED
      BY <1>2, <1>7, <2>1, <3>1 DEF LevelsOK
  <2>2. CASE m = k + 1 /\ i = k + 1
    BY <2>2
  <2>3. CASE m = k + 1 /\ i \in 1..k
    <3>1. e \in 1..(k - 1) /\ i <= k /\ k \in 1..k
      BY <1>1, <2>3
    <3>2. s[i].path[e] = s[k].path[e]
      BY <2>3, <3>1 DEF LevelsOK
    <3>3. v.path[e] = s[k].path[e]
      BY <1>5, <3>1
    <3> QED
      BY <1>2, <2>3, <3>2, <3>3
  <2> QED
    BY <1>1, <2>1, <2>2, <2>3
<1>8. ASSUME NEW i \in 2..(k + 1)
      PROVE  z[i].around = Below(P, z[i - 1].path)
  <2>1. i - 1 \in 1..k
    BY <1>1
  <2>2. z[i - 1] = s[i - 1]
    BY <1>2, <2>1
  <2>3. CASE i \in 2..k
    <3>1. z[i] = s[i]
      BY <1>2, <2>3
    <3>2. s[i].around = Below(P, s[i - 1].path)
      BY <1>3, <2>3 DEF LevelsOK, P
    <3> QED
      BY <2>2, <3>1, <3>2
  <2>4. CASE i = k + 1
    <3>1. i - 1 = k
      BY <1>1, <2>4
    <3> QED
      BY <1>2, <1>4, <2>2, <2>4, <3>1
  <2> QED
    BY <1>1, <2>3, <2>4
<1> QED
  BY <1>1, <1>2, <1>6, <1>7, <1>8, SMTT(60) DEF LevelsOK, z, P

\* A level that is left.
LEMMA LevelsShrink ==
    ASSUME NEW t, NEW s, ListsOK(t, s), LevelsOK(t, s), Len(s) # 1,
           NEW x \in ItemSet, x.kind = "end"
    PROVE  LevelsOK(Append(t, x), Front(s)) /\ ListsOK(Append(t, x), Front(s))
           /\ Len(Front(s)) = Len(s) - 1
           /\ \A i \in 1..(Len(s) - 1) : Front(s)[i] = s[i]
<1> DEFINE k == Len(s)
           z == Front(s)
<1>1. k \in Nat /\ 2 <= k /\ s \in Seq(LevelSet) /\ t \in Seq(ItemSet)
      /\ k <= MaxDepth + 1 /\ MaxDepth \in Nat
  <2>1. k \in Nat /\ 1 <= k /\ s \in Seq(LevelSet) /\ t \in Seq(ItemSet)
        /\ k <= MaxDepth + 1 /\ MaxDepth \in Nat
    BY ListFields
  <2>2. k # 1
    OBVIOUS
  <2> HIDE DEF k, z
  <2> QED
    BY <2>1, <2>2
<1>2. /\ z \in Seq(LevelSet) /\ Len(z) = k - 1 /\ \A i \in 1..(k - 1) : z[i] = s[i]
  <2>1. z = SubSeq(s, 1, k - 1)
    BY DEF Front
  <2> HIDE DEF z
  <2> QED
    BY <1>1, <2>1, SubSeqProperties
<1>3. Paths(Append(t, x)) = Paths(t) /\ Append(t, x) \in Seq(ItemSet)
  BY <1>1, PathsLonger, Longer
<1> HIDE DEF z
<1>4. \A i \in 1..(k - 1) : i \in 1..k /\ Len(s[i].path) = i - 1
  BY <1>1 DEF LevelsOK
<1>5. \A i \in 2..(k - 1) : i \in 2..k /\ i - 1 \in 1..(k - 1)
  BY <1>1
<1>6. \A i \in 1..(k - 1) : Len(z[i].path) = i - 1
  BY <1>2, <1>4
<1>7. \A i, m \in 1..(k - 1) : i <= m =>
         \A e \in 1..(i - 1) : z[i].path[e] = z[m].path[e]
  <2> SUFFICES ASSUME NEW i \in 1..(k - 1), NEW m \in 1..(k - 1), i <= m,
                      NEW e \in 1..(i - 1)
               PROVE  z[i].path[e] = z[m].path[e]
    OBVIOUS
  <2>1. i \in 1..k /\ m \in 1..k
    BY <1>4
  <2>2. s[i].path[e] = s[m].path[e]
    BY <2>1 DEF LevelsOK
  <2> QED
    BY <1>2, <2>2
<1>8. \A i \in 2..(k - 1) : z[i].around = Below(Paths(t), z[i - 1].path)
  <2> SUFFICES ASSUME NEW i \in 2..(k - 1)
               PROVE  z[i].around = Below(Paths(t), z[i - 1].path)
    OBVIOUS
  <2>1. z[i] = s[i] /\ z[i - 1] = s[i - 1]
    BY <1>1, <1>2
  <2> QED
    BY <1>5, <2>1 DEF LevelsOK
<1>9. LevelsOK(Append(t, x), z)
  BY <1>2, <1>3, <1>6, <1>7, <1>8 DEF LevelsOK
<1>10. ListsOK(Append(t, x), z)
  <2>1. k - 1 \in 1..(MaxDepth + 1)
    BY <1>1
  <2> QED
    BY <1>2, <1>3, <2>1 DEF ListsOK
<1> QED
  BY <1>2, <1>9, <1>10 DEF z

-----------------------------------------------------------------------------
(* The open entries.                                                       *)

\* How many more were opened than ended behind entry j.
Opened(list, j) == CountOf(list, "open", j + 1, Len(list))
Ended(list, j) == CountOf(list, "end", j + 1, Len(list))

\* An open entry, before and after one more item.
LEMMA OpenEntry ==
    ASSUME NEW t, NEW s, ListsOK(t, s), OpenOK(t, s), NEW x \in ItemSet,
           NEW j \in Unclosed(t)
    PROVE  /\ j \in Nat /\ 1 <= j /\ j <= Len(t) /\ Append(t, x)[j] = t[j]
           /\ Len(t[j].path) \in Nat
           /\ 1 <= Len(t[j].path) /\ Len(t[j].path) <= Len(s) - 1
           /\ Ended(t, j) \in Nat /\ Opened(t, j) \in Nat
           /\ Opened(t, j) = Ended(t, j) + ((Len(s) - 1) - Len(t[j].path))
           /\ Opened(Append(t, x), j) = Opened(t, j) + (IF x.kind = "open" THEN 1 ELSE 0)
           /\ Ended(Append(t, x), j) = Ended(t, j) + (IF x.kind = "end" THEN 1 ELSE 0)
<1>1. Len(t) \in Nat /\ Len(s) \in Nat /\ t \in Seq(ItemSet)
  BY ListFields
<1>2. j \in 1..Len(t)
  <2>1. j \in 1..((Len(t) + 1) - 1)
    BY DEF Unclosed, Enclosing
  <2> QED
    BY <1>1, <2>1
<1>3. Append(t, x)[j] = t[j] /\ Len(Append(t, x)) = Len(t) + 1
  BY <1>1, <1>2, Longer
<1>4. /\ Len(t[j].path) \in 1..(Len(s) - 1)
      /\ Opened(t, j) = Ended(t, j) + ((Len(s) - 1) - Len(t[j].path))
  BY DEF OpenOK, Opened, Ended
<1>5. j + 1 \in 1..(Len(t) + 1)
  BY <1>1, <1>2
<1>6. /\ Ended(t, j) \in Nat /\ Opened(t, j) \in Nat
      /\ Opened(Append(t, x), j) = Opened(t, j) + (IF x.kind = "open" THEN 1 ELSE 0)
      /\ Ended(Append(t, x), j) = Ended(t, j) + (IF x.kind = "end" THEN 1 ELSE 0)
  BY <1>1, <1>3, <1>5, CountOfLonger DEF Opened, Ended
<1>7. /\ j \in Nat /\ 1 <= j /\ j <= Len(t)
      /\ Len(t[j].path) \in Nat
      /\ 1 <= Len(t[j].path) /\ Len(t[j].path) <= Len(s) - 1
  BY <1>1, <1>2, <1>4
<1> QED
  BY <1>3, <1>4, <1>6, <1>7

\* Which of the open entries stay open: only an end mark closes one, the
\* deepest.
LEMMA StaysOpen ==
    ASSUME NEW t, NEW s, ListsOK(t, s), OpenOK(t, s), NEW x \in ItemSet
    PROVE  /\ x.kind = "leaf" => Unclosed(Append(t, x)) = Unclosed(t)
           /\ x.kind = "open" => Unclosed(Append(t, x)) = Unclosed(t) \cup {Len(t) + 1}
           /\ x.kind = "end" => Unclosed(Append(t, x)) =
                                  {j \in Unclosed(t) : Len(t[j].path) # Len(s) - 1}
<1> DEFINE u == Append(t, x)
           Kept == {j \in Unclosed(t) :
                      CountOf(u, "end", j + 1, Len(t) + 1)
                        <= CountOf(u, "open", j + 1, Len(t) + 1)}
           Stay == {j \in Unclosed(t) : x.kind = "end" => Len(t[j].path) # Len(s) - 1}
<1>1. t \in Seq(ItemSet) /\ Len(u) = Len(t) + 1 /\ Len(s) \in Nat
  BY ListFields, Longer
<1>2. Unclosed(u) = Kept \cup {j \in {Len(t) + 1} : x.kind = "open"}
  BY <1>1, UnclosedLonger
<1>3. ASSUME NEW j \in Unclosed(t)
      PROVE  CountOf(u, "end", j + 1, Len(t) + 1) <= CountOf(u, "open", j + 1, Len(t) + 1)
             <=> (x.kind = "end" => Len(t[j].path) # Len(s) - 1)
  <2> DEFINE o == Opened(t, j)  e == Ended(t, j)  d == Len(t[j].path)  k == Len(s)
             p == Opened(u, j)  f == Ended(u, j)
  <2>1. /\ d \in Nat /\ 1 <= d /\ d <= k - 1 /\ k \in Nat /\ e \in Nat
        /\ o = e + ((k - 1) - d)
        /\ p = o + (IF x.kind = "open" THEN 1 ELSE 0)
        /\ f = e + (IF x.kind = "end" THEN 1 ELSE 0)
    BY <1>1, OpenEntry
  <2>2. CountOf(u, "end", j + 1, Len(t) + 1) = f
        /\ CountOf(u, "open", j + 1, Len(t) + 1) = p
    BY <1>1 DEF Opened, Ended
  <2> HIDE DEF o, e, d, k, p, f
  <2>3. CASE x.kind = "end"
    <3>1. f = e + 1 /\ p = o
      BY <2>1, <2>3
    <3>2. f <= p <=> d # k - 1
      BY <2>1, <3>1
    <3> QED
      BY <2>2, <2>3, <3>2 DEF d, k
  <2>4. CASE x.kind # "end"
    <3>1. f = e /\ (p = o \/ p = o + 1)
      BY <2>1, <2>4
    <3>2. f <= p
      BY <2>1, <3>1
    <3> QED
      BY <2>2, <2>4, <3>2
  <2> QED
    BY <2>3, <2>4
<1>4. Kept = Stay
  BY <1>3
<1>5. Unclosed(u) = Stay \cup {j \in {Len(t) + 1} : x.kind = "open"}
  BY <1>2, <1>4
<1> HIDE DEF u, Kept
<1>6. x.kind = "leaf" => Unclosed(u) = Unclosed(t)
  BY <1>5
<1>7. x.kind = "open" => Unclosed(u) = Unclosed(t) \cup {Len(t) + 1}
  BY <1>5
<1>8. x.kind = "end" => Unclosed(u) = {j \in Unclosed(t) : Len(t[j].path) # Len(s) - 1}
  BY <1>5
<1> QED
  BY <1>6, <1>7, <1>8 DEF u

\* The numbers of open entries are finite.
LEMMA UnclosedFinite ==
    ASSUME NEW t, NEW s, ListsOK(t, s)
    PROVE  IsFiniteSet(Unclosed(t)) /\ Len(t) + 1 \notin Unclosed(t)
           /\ \A j \in Unclosed(t) : j \in 1..Len(t)
<1>1. Len(t) \in Nat
  BY ListFields
<1>2. \A j \in Unclosed(t) : j \in 1..Len(t)
  <2>1. (Len(t) + 1) - 1 = Len(t)
    BY <1>1
  <2> QED
    BY <2>1 DEF Unclosed, Enclosing
<1>3. Unclosed(t) \in SUBSET (1..Len(t)) /\ IsFiniteSet(1..Len(t))
  BY <1>1, <1>2, FS_Interval
<1>4. Len(t) + 1 \notin 1..Len(t)
  BY <1>1
<1> QED
  BY <1>2, <1>3, <1>4, FS_Subset

\* An entry without children opens nothing.
LEMMA OpenStays ==
    ASSUME NEW t, NEW s, ListsOK(t, s), OpenOK(t, s), NEW x \in ItemSet, x.kind = "leaf"
    PROVE  OpenOK(Append(t, x), s)
<1> DEFINE u == Append(t, x)
<1>1. Unclosed(u) = Unclosed(t)
  BY StaysOpen
<1>2. Len(u) = Len(t) + 1
  BY ListFields, Longer
<1>3. ASSUME NEW j \in Unclosed(t)
      PROVE  u[j] = t[j] /\ Opened(u, j) = Opened(t, j) /\ Ended(u, j) = Ended(t, j)
  <2>1. Ended(t, j) \in Nat /\ Opened(t, j) \in Nat
    BY OpenEntry
  <2>2. /\ u[j] = t[j]
        /\ Opened(u, j) = Opened(t, j) + (IF x.kind = "open" THEN 1 ELSE 0)
        /\ Ended(u, j) = Ended(t, j) + (IF x.kind = "end" THEN 1 ELSE 0)
    BY OpenEntry
  <2> HIDE DEF u
  <2> QED
    BY <2>1, <2>2
<1> HIDE DEF u
<1>4. ASSUME NEW j \in Unclosed(u)
      PROVE  /\ Len(u[j].path) \in 1..(Len(s) - 1)
             /\ s[Len(u[j].path) + 1].path = u[j].path
             /\ Opened(u, j) = Ended(u, j) + ((Len(s) - 1) - Len(u[j].path))
  <2>1. /\ Len(t[j].path) \in 1..(Len(s) - 1)
        /\ s[Len(t[j].path) + 1].path = t[j].path
        /\ Opened(t, j) = Ended(t, j) + ((Len(s) - 1) - Len(t[j].path))
    BY <1>1 DEF OpenOK, Opened, Ended
  <2>2. u[j] = t[j] /\ Opened(u, j) = Opened(t, j) /\ Ended(u, j) = Ended(t, j)
    BY <1>1, <1>3
  <2> QED
    BY <2>1, <2>2
<1>5. \A d \in 1..(Len(s) - 1) : \E j \in Unclosed(u) : Len(u[j].path) = d
  BY <1>1, <1>3 DEF OpenOK
<1>6. \A i, j \in Unclosed(u) : Len(u[i].path) = Len(u[j].path) => i = j
  BY <1>1, <1>3 DEF OpenOK
<1>7. Cardinality(Unclosed(u)) = Len(s) - 1
  BY <1>1 DEF OpenOK
<1>8. OpenOK(u, s)
  BY <1>4, <1>5, <1>6, <1>7 DEF OpenOK, Opened, Ended
<1> QED
  BY <1>8 DEF u

\* An entry with children is the deepest one.
LEMMA OpenGrows ==
    ASSUME NEW t, NEW s, ListsOK(t, s), OpenOK(t, s), NEW x \in ItemSet, x.kind = "open",
           Len(x.path) = Len(s), NEW v \in LevelSet, v.path = x.path
    PROVE  OpenOK(Append(t, x), Append(s, v))
<1> DEFINE u == Append(t, x)  z == Append(s, v)  k == Len(s)  L == Len(t)
<1>1. /\ k \in Nat /\ 1 <= k /\ L \in Nat /\ t \in Seq(ItemSet) /\ s \in Seq(LevelSet)
  BY ListFields
<1>2. Len(u) = L + 1 /\ u[L + 1] = x
  BY <1>1, Longer
<1>3. Len(z) = k + 1 /\ z[k + 1] = v /\ \A i \in 1..k : z[i] = s[i]
  BY <1>1, Longer
<1>4. Unclosed(u) = Unclosed(t) \cup {L + 1} /\ L + 1 \notin Unclosed(t)
      /\ IsFiniteSet(Unclosed(t))
  BY StaysOpen, UnclosedFinite
<1>5. Opened(u, L + 1) = 0 /\ Ended(u, L + 1) = 0
  <2>1. ((L + 1) + 1)..(L + 1) = {}
    BY <1>1
  <2> HIDE DEF u
  <2>2. /\ {y \in ((L + 1) + 1)..(L + 1) : u[y].kind = "open"} = {}
        /\ {y \in ((L + 1) + 1)..(L + 1) : u[y].kind = "end"} = {}
    BY <2>1
  <2> QED
    BY <1>2, <2>2, FS_EmptySet DEF Opened, Ended, CountOf
<1>6. ASSUME NEW j \in Unclosed(t)
      PROVE  /\ u[j] = t[j] /\ Len(u[j].path) \in 1..(k - 1)
             /\ s[Len(u[j].path) + 1].path = u[j].path
             /\ Opened(u, j) = Ended(u, j) + (((k + 1) - 1) - Len(u[j].path))
  <2> DEFINE o == Opened(t, j)  e == Ended(t, j)  d == Len(t[j].path)
             p == Opened(u, j)  f == Ended(u, j)
  <2>1. /\ d \in Nat /\ 1 <= d /\ d <= k - 1 /\ e \in Nat /\ o \in Nat
        /\ o = e + ((k - 1) - d)
        /\ p = o + (IF x.kind = "open" THEN 1 ELSE 0)
        /\ f = e + (IF x.kind = "end" THEN 1 ELSE 0)
        /\ u[j] = t[j]
    BY OpenEntry
  <2>2. s[d + 1].path = t[j].path
    BY DEF OpenOK
  <2> HIDE DEF o, e, d, k, p, f, u
  <2>3. p = f + (((k + 1) - 1) - d) /\ d \in 1..(k - 1)
    <3>1. p = o + 1 /\ f = e
      BY <2>1
    <3> QED
      BY <1>1, <2>1, <3>1
  <2> QED
    BY <2>1, <2>2, <2>3 DEF p, f, d
<1> HIDE DEF u, z, k, L
<1>7. ASSUME NEW j \in Unclosed(u)
      PROVE  /\ Len(u[j].path) \in 1..((k + 1) - 1)
             /\ z[Len(u[j].path) + 1].path = u[j].path
             /\ Opened(u, j) = Ended(u, j) + (((k + 1) - 1) - Len(u[j].path))
  <2>1. CASE j \in Unclosed(t)
    <3>1. /\ Len(u[j].path) \in 1..(k - 1)
          /\ s[Len(u[j].path) + 1].path = u[j].path
          /\ Opened(u, j) = Ended(u, j) + (((k + 1) - 1) - Len(u[j].path))
      BY <1>6, <2>1
    <3>2. Len(u[j].path) \in 1..((k + 1) - 1) /\ Len(u[j].path) + 1 \in 1..k
      BY <1>1, <3>1
    <3> QED
      BY <1>3, <3>1, <3>2
  <2>2. CASE j = L + 1
    <3>1. u[j] = x /\ Len(u[j].path) = k
      BY <1>2, <2>2 DEF k
    <3>2. k \in 1..((k + 1) - 1) /\ 0 = 0 + (((k + 1) - 1) - k)
      BY <1>1
    <3>3. Opened(u, j) = 0 /\ Ended(u, j) = 0
      BY <1>5, <2>2
    <3> QED
      BY <1>3, <3>1, <3>2, <3>3
  <2> QED
    BY <1>4, <2>1, <2>2
<1>8. ASSUME NEW d \in 1..((k + 1) - 1)
      PROVE  \E j \in Unclosed(u) : Len(u[j].path) = d
  <2>1. CASE d = k
    <3>1. L + 1 \in Unclosed(u) /\ Len(u[L + 1].path) = k
      BY <1>2, <1>4 DEF k
    <3> QED
      BY <2>1, <3>1
  <2>2. CASE d # k
    <3>1. d \in 1..(k - 1)
      BY <1>1, <2>2
    <3>2. PICK j \in Unclosed(t) : Len(t[j].path) = d
      BY <3>1 DEF OpenOK, k
    <3> QED
      BY <1>4, <1>6, <3>2
  <2> QED
    BY <2>1, <2>2
<1>9. ASSUME NEW i \in Unclosed(u), NEW j \in Unclosed(u), Len(u[i].path) = Len(u[j].path)
      PROVE  i = j
  <2>1. \A y \in Unclosed(t) : Len(u[y].path) # k
    BY <1>1, <1>6
  <2>2. Len(u[L + 1].path) = k
    BY <1>2 DEF k
  <2>3. CASE i \in Unclosed(t) /\ j \in Unclosed(t)
    BY <1>6, <1>9, <2>3 DEF OpenOK
  <2> QED
    BY <1>4, <1>9, <2>1, <2>2, <2>3
<1>10. Cardinality(Unclosed(u)) = (k + 1) - 1
  <2>1. Cardinality(Unclosed(t)) = k - 1
    BY DEF OpenOK, k
  <2>2. Cardinality(Unclosed(u)) = Cardinality(Unclosed(t)) + 1
    BY <1>4, FS_AddElement
  <2> QED
    BY <1>1, <2>1, <2>2
<1>11. OpenOK(u, z)
  BY <1>3, <1>7, <1>8, <1>9, <1>10 DEF OpenOK, Opened, Ended
<1> QED
  BY <1>11 DEF u, z

\* An end mark closes the deepest entry.
LEMMA OpenShrinks ==
    ASSUME NEW t, NEW s, ListsOK(t, s), OpenOK(t, s), NEW x \in ItemSet, x.kind = "end",
           Len(s) # 1, NEW z, Len(z) = Len(s) - 1,
           \A i \in 1..(Len(s) - 1) : z[i] = s[i]
    PROVE  OpenOK(Append(t, x), z)
<1> DEFINE u == Append(t, x)  k == Len(s)
<1>1. k \in Nat /\ 1 <= k
  BY ListFields
<1>2. 2 <= k
  <2>1. k # 1
    OBVIOUS
  <2> HIDE DEF k
  <2> QED
    BY <1>1, <2>1
<1>3. Unclosed(u) = {j \in Unclosed(t) : Len(t[j].path) # k - 1}
  BY StaysOpen
<1>4. ASSUME NEW j \in Unclosed(u)
      PROVE  /\ u[j] = t[j] /\ j \in Unclosed(t)
             /\ Len(u[j].path) \in 1..((k - 1) - 1)
             /\ s[Len(u[j].path) + 1].path = u[j].path
             /\ Opened(u, j) = Ended(u, j) + (((k - 1) - 1) - Len(u[j].path))
  <2> DEFINE o == Opened(t, j)  e == Ended(t, j)  d == Len(t[j].path)
             p == Opened(u, j)  f == Ended(u, j)
  <2>0. j \in Unclosed(t) /\ d # k - 1
    BY <1>3
  <2>1. /\ d \in Nat /\ 1 <= d /\ d <= k - 1 /\ e \in Nat /\ o \in Nat
        /\ o = e + ((k - 1) - d)
        /\ p = o + (IF x.kind = "open" THEN 1 ELSE 0)
        /\ f = e + (IF x.kind = "end" THEN 1 ELSE 0)
        /\ u[j] = t[j]
    BY <2>0, OpenEntry, ZenonT(40)
  <2>2. s[d + 1].path = t[j].path
    BY <2>0 DEF OpenOK
  <2> HIDE DEF o, e, d, k, p, f, u
  <2>3. p = f + (((k - 1) - 1) - d) /\ d \in 1..((k - 1) - 1)
    <3>1. p = o /\ f = e + 1
      BY <2>1
    <3> QED
      BY <1>1, <2>0, <2>1, <3>1
  <2> QED
    BY <2>0, <2>1, <2>2, <2>3 DEF p, f, d
<1> HIDE DEF u, k
<1>5. ASSUME NEW j \in Unclosed(u)
      PROVE  z[Len(u[j].path) + 1].path = u[j].path
  <2> DEFINE d == Len(u[j].path)
  <2>0. d \in 1..((k - 1) - 1)
    BY <1>4
  <2> HIDE DEF d
  <2>1. d + 1 \in 1..(k - 1)
    BY <1>1, <1>2, <2>0
  <2> USE DEF d
  <2> QED
    BY <1>4, <2>1 DEF k
<1>6. ASSUME NEW d \in 1..((k - 1) - 1)
      PROVE  \E j \in Unclosed(u) : Len(u[j].path) = d
  <2>1. d \in 1..(k - 1) /\ d # k - 1
    BY <1>1, <1>2
  <2>2. PICK j \in Unclosed(t) : Len(t[j].path) = d
    BY <2>1 DEF OpenOK, k
  <2> QED
    BY <1>3, <1>4, <2>1, <2>2
<1>7. ASSUME NEW i \in Unclosed(u), NEW j \in Unclosed(u), Len(u[i].path) = Len(u[j].path)
      PROVE  i = j
  BY <1>4, <1>7 DEF OpenOK
<1>8. Cardinality(Unclosed(u)) = (k - 1) - 1
  <2>1. k - 1 \in 1..(k - 1)
    BY <1>1, <1>2
  <2>2. PICK b \in Unclosed(t) : Len(t[b].path) = k - 1
    BY <2>1 DEF OpenOK, k
  <2>3. Unclosed(u) = Unclosed(t) \ {b}
    BY <1>3, <2>2 DEF OpenOK
  <2>4. Cardinality(Unclosed(t)) = k - 1 /\ IsFiniteSet(Unclosed(t))
    BY UnclosedFinite DEF OpenOK, k
  <2>5. Cardinality(Unclosed(u)) = Cardinality(Unclosed(t)) - 1
    BY <2>2, <2>3, <2>4, FS_RemoveElement
  <2> QED
    BY <1>1, <2>4, <2>5
<1>9. Len(z) = k - 1
  BY DEF k
<1>10. OpenOK(u, z)
  BY <1>4, <1>5, <1>6, <1>7, <1>8, <1>9 DEF OpenOK, Opened, Ended
<1> QED
  BY <1>10 DEF u

-----------------------------------------------------------------------------
(* The steps.                                                              *)

\* The entries before stay as they were written.
LEMMA WrittenStays ==
    ASSUME NEW t \in Seq(ItemSet), WrittenOK(t), NEW x \in ItemSet,
           x.kind # "end" =>
              /\ Len(x.path) = Cardinality(Unclosed(t)) + 1
              /\ Len(x.path) <= MaxDepth
              /\ \A j \in Unclosed(t) : IsPrefix(t[j].path, x.path)
    PROVE  WrittenOK(Append(t, x))
<1> DEFINE u == Append(t, x)  L == Len(t)
<1>1. /\ L \in Nat /\ Len(u) = L + 1 /\ u[L + 1] = x /\ \A n \in 1..L : u[n] = t[n]
  BY Longer
<1>2. \A n \in 1..(L + 1) : Enclosing(u, n) = Enclosing(t, n)
  BY EnclosingPrefix
<1> HIDE DEF u
<1>3. ASSUME NEW n \in 1..(L + 1), NEW j \in Enclosing(t, n)
      PROVE  u[j] = t[j]
  <2>1. j \in 1..L
    BY <1>1 DEF Enclosing
  <2> QED
    BY <1>1, <2>1
<1>4. ASSUME NEW n \in 1..(L + 1), u[n].kind # "end"
      PROVE  /\ Len(u[n].path) = Cardinality(Enclosing(u, n)) + 1
             /\ Len(u[n].path) <= MaxDepth
             /\ \A j \in Enclosing(u, n) : IsPrefix(u[j].path, u[n].path)
  <2>1. CASE n \in 1..L
    <3>1. u[n] = t[n]
      BY <1>1, <2>1
    <3>2. /\ Len(t[n].path) = Cardinality(Enclosing(t, n)) + 1
          /\ Len(t[n].path) <= MaxDepth
          /\ \A j \in Enclosing(t, n) : IsPrefix(t[j].path, t[n].path)
      BY <1>4, <2>1, <3>1 DEF WrittenOK
    <3> QED
      BY <1>2, <1>3, <3>1, <3>2
  <2>2. CASE n = L + 1
    <3>1. u[n] = x /\ x.kind # "end"
      BY <1>1, <1>4, <2>2
    <3>2. Enclosing(u, n) = Unclosed(t)
      BY <1>2, <2>2 DEF Unclosed
    <3>3. \A j \in Unclosed(t) : u[j] = t[j]
      BY <1>2, <1>3, <2>2, <3>2
    <3> QED
      BY <3>1, <3>2, <3>3
  <2> QED
    BY <1>1, <2>1, <2>2
<1>5. WrittenOK(u)
  BY <1>1, <1>4 DEF WrittenOK
<1> QED
  BY <1>5 DEF u

\* The path of the next entry extends those of the entries around it.
LEMMA NextPathNested ==
    ASSUME NEW t, NEW s, Nested(t, s)
    PROVE  LET q == NextPath(t, Last(s).path) IN
           /\ q \in Seq(Nat)
           /\ Below(Paths(t), Last(s).path) \in Nat
           /\ Len(q) = Len(s)
           /\ Len(q) = Cardinality(Unclosed(t)) + 1
           /\ \A j \in Unclosed(t) : IsPrefix(t[j].path, q)
<1> DEFINE k == Len(s)
           q == NextPath(t, Last(s).path)
           c == Below(Paths(t), Last(s).path)
<1> USE DEF Nested
<1>1. /\ k \in Nat /\ 1 <= k /\ Last(s) = s[k] /\ s[k].path \in Seq(Nat)
      /\ \A i \in 1..k : s[i].path \in Seq(Nat)
  BY ListFields
<1>2. c \in Nat
  <2>1. IsFiniteSet({p \in Paths(t) : Len(p) = Len(Last(s).path) + 1
                                        /\ Front(p) = Last(s).path})
    BY FS_Subset DEF PathsOK
  <2> QED
    BY <2>1, FS_CardinalityType DEF Below
<1>3. Len(s[k].path) = k - 1
  BY <1>1 DEF LevelsOK
<1>4. /\ q \in Seq(Nat) /\ Len(q) = (k - 1) + 1
      /\ \A e \in 1..(k - 1) : q[e] = s[k].path[e]
  BY <1>1, <1>2, <1>3, PathParts DEF NextPath
<1> HIDE DEF q, c
<1>5. Cardinality(Unclosed(t)) = k - 1
  BY DEF OpenOK
<1>6. ASSUME NEW j \in Unclosed(t) PROVE IsPrefix(t[j].path, q)
  <2> DEFINE d == Len(t[j].path)
  <2>1. d \in 1..(k - 1) /\ s[d + 1].path = t[j].path
    BY DEF OpenOK
  <2> HIDE DEF d, k
  <2>2. d + 1 \in 1..k /\ d + 1 <= k /\ d <= (k - 1) + 1 /\ (d + 1) - 1 = d /\ k \in 1..k
    BY <1>1, <2>1
  <2>3. \A e \in 1..((d + 1) - 1) : s[d + 1].path[e] = s[k].path[e]
    BY <2>2 DEF LevelsOK, k
  <2>4. \A e \in 1..d : e \in 1..(k - 1)
    BY <1>1, <2>1
  <2>5. \A e \in 1..d : t[j].path[e] = q[e]
    BY <1>4, <2>1, <2>2, <2>3, <2>4
  <2>6. t[j].path \in Seq(Nat)
    BY <1>1, <2>1, <2>2
  <2> QED
    BY <1>4, <2>2, <2>5, <2>6, PointwisePrefix DEF d
<1> QED
  BY <1>1, <1>2, <1>4, <1>5, <1>6 DEF q, c

\* An entry without children is read.
LEMMA NestedLeaf ==
    ASSUME NEW t, NEW s, Nested(t, s), Len(s) <= MaxDepth,
           NEW x \in ItemSet, x.kind = "leaf", x.path = NextPath(t, Last(s).path)
    PROVE  Nested(Append(t, x), s)
<1> USE DEF Nested
<1>1. t \in Seq(ItemSet) /\ Last(s).path \in Seq(Nat)
  BY ListFields
<1>2. ListsOK(Append(t, x), s)
  BY <1>1, Longer DEF ListsOK
<1>3. PathsOK(Append(t, x))
  BY <1>1, PathsGrow
<1>4. LevelsOK(Append(t, x), s)
  BY LevelsStay
<1>5. OpenOK(Append(t, x), s)
  BY OpenStays
<1>6. WrittenOK(Append(t, x))
  BY <1>1, NextPathNested, WrittenStays
<1> QED
  BY <1>2, <1>3, <1>4, <1>5, <1>6

\* An entry with children is read.
LEMMA NestedOpen ==
    ASSUME NEW t, NEW s, Nested(t, s), Len(s) <= MaxDepth,
           NEW x \in ItemSet, x.kind = "open", x.path = NextPath(t, Last(s).path),
           NEW v \in LevelSet, v.path = x.path,
           v.around = Below(Paths(t), Last(s).path) + 1
    PROVE  Nested(Append(t, x), Append(s, v))
<1> USE DEF Nested
<1>1. t \in Seq(ItemSet) /\ s \in Seq(LevelSet) /\ Last(s).path \in Seq(Nat)
      /\ Len(s) \in Nat /\ MaxDepth \in Nat
  BY ListFields
<1>2. ListsOK(Append(t, x), Append(s, v))
  <2>1. Len(s) + 1 \in 1..(MaxDepth + 1)
    BY <1>1
  <2>2. Append(s, v) \in Seq(LevelSet) /\ Len(Append(s, v)) = Len(s) + 1
        /\ Append(t, x) \in Seq(ItemSet)
    BY <1>1, Longer
  <2> QED
    BY <2>1, <2>2 DEF ListsOK
<1>3. PathsOK(Append(t, x))
  BY <1>1, PathsGrow
<1>4. LevelsOK(Append(t, x), Append(s, v))
  BY LevelsGrow
<1>5. OpenOK(Append(t, x), Append(s, v))
  BY NextPathNested, OpenGrows
<1>6. WrittenOK(Append(t, x))
  BY <1>1, NextPathNested, WrittenStays
<1> QED
  BY <1>2, <1>3, <1>4, <1>5, <1>6

\* A level is closed.
LEMMA NestedEnd ==
    ASSUME NEW t, NEW s, Nested(t, s), Len(s) # 1, NEW x \in ItemSet, x.kind = "end"
    PROVE  Nested(Append(t, x), Front(s))
<1> USE DEF Nested
<1>1. t \in Seq(ItemSet)
  BY ListFields
<1>2. /\ LevelsOK(Append(t, x), Front(s)) /\ ListsOK(Append(t, x), Front(s))
      /\ Len(Front(s)) = Len(s) - 1
      /\ \A i \in 1..(Len(s) - 1) : Front(s)[i] = s[i]
  BY LevelsShrink
<1>3. PathsOK(Append(t, x))
  BY <1>1, PathsLonger DEF PathsOK
<1>4. OpenOK(Append(t, x), Front(s))
  BY <1>2, OpenShrinks
<1>5. WrittenOK(Append(t, x))
  BY <1>1, WrittenStays
<1> QED
  BY <1>2, <1>3, <1>4, <1>5

\* Before anything is read.
LEMMA NestedEmpty == Nested(<<>>, <<[path |-> <<>>, around |-> 0]>>)
<1> DEFINE s == <<[path |-> <<>>, around |-> 0]>>
<1>1. s \in Seq(LevelSet) /\ Len(s) = 1 /\ s[1].path = <<>> /\ <<>> \in Seq(ItemSet)
  BY DEF LevelSet
<1>2. ListsOK(<<>>, s)
  BY <1>1, TreeAssumption DEF ListsOK
<1>3. Paths(<<>>) = {}
  BY DEF Paths, ToSet
<1>4. PathsOK(<<>>)
  BY <1>3, FS_EmptySet DEF PathsOK
<1>5. LevelsOK(<<>>, s)
  BY <1>1 DEF LevelsOK
<1>6. Unclosed(<<>>) = {}
  BY DEF Unclosed, Enclosing
<1>7. OpenOK(<<>>, s)
  <2>1. Cardinality(Unclosed(<<>>)) = 0
    BY <1>6, FS_EmptySet
  <2>2. Len(s) - 1 = 0 /\ 1..(Len(s) - 1) = {}
    BY <1>1
  <2> HIDE DEF s
  <2> QED
    BY <1>6, <2>1, <2>2 DEF OpenOK
<1>8. WrittenOK(<<>>)
  BY DEF WrittenOK
<1> QED
  BY <1>2, <1>4, <1>5, <1>7, <1>8 DEF Nested

\* The tree of a call that begins.
LEMMA TreeInvInit == TreeInit => TreeInv
BY NestedEmpty DEF TreeInit, TreeInv

\* Every step keeps the invariant.
LEMMA TreeInvNext == TreeInv /\ [TreeNext]_tree_vars => TreeInv'
<1> SUFFICES ASSUME TreeInv, [TreeNext]_tree_vars PROVE TreeInv'
  OBVIOUS
<1> USE DEF TreeInv
<1>0. Len(levels) \in Nat /\ Len(levels) <= MaxDepth + 1 /\ MaxDepth \in Nat
  BY ListFields DEF Nested
<1>1. CASE StartEntries
  BY <1>1 DEF StartEntries, Stop
<1>2. CASE NextTree
  BY <1>2, NestedEmpty DEF NextTree
<1>3. CASE EndOfInput
  BY <1>3 DEF EndOfInput, Stop
<1>4. CASE TagTruncated
  BY <1>4 DEF TagTruncated, Stop
<1>5. CASE CloseLevel
  <2>1. CASE Len(levels) = 1
    BY <1>5, <2>1 DEF CloseLevel, Stop
  <2>2. CASE Len(levels) # 1
    <3> DEFINE x == [kind |-> "end", path |-> <<>>]
    <3>1. x \in ItemSet /\ x.kind = "end"
      BY DEF ItemSet
    <3>2. /\ levels' = Front(levels) /\ tree' = Append(tree, x)
          /\ UNCHANGED <<tree_stage, tree_error>> /\ tree_stage = "reading"
      BY <1>5, <2>2 DEF CloseLevel
    <3> HIDE DEF x
    <3>3. Nested(tree', levels')
      BY <2>2, <3>1, <3>2, NestedEnd
    <3> QED
      BY <3>2, <3>3
  <2> QED
    BY <2>1, <2>2
<1>6. ASSUME NEW why \in {"truncated", "invalid_debug_info", "silent"}, EntryFails(why)
      PROVE  TreeInv'
  <2>1. UNCHANGED <<tree, levels>> /\ tree_stage' = "done"
    BY <1>6 DEF EntryFails, Stop
  <2>2. tree_error' = "resource_limit" => Len(levels) > MaxDepth
    BY <1>6 DEF EntryFails, Stop
  <2>3. tree_error' = "resource_limit" => Len(levels') = MaxDepth + 1
    BY <1>0, <2>1, <2>2
  <2> QED
    BY <2>1, <2>3
<1>7. ASSUME NEW children \in BOOLEAN, ReadEntry(children) PROVE TreeInv'
  <2> DEFINE owner == Last(levels).path
             path == Append(owner, ChildCount(owner) + 1)
             x == [kind |-> IF children THEN "open" ELSE "leaf", path |-> path]
             v == [path |-> path, around |-> ChildCount(owner) + 1]
  <2>1. /\ tree_stage = "reading" /\ Len(levels) <= MaxDepth
        /\ tree' = Append(tree, x)
        /\ levels' = IF children THEN Append(levels, v) ELSE levels
        /\ UNCHANGED <<tree_stage, tree_error>>
    BY <1>7 DEF ReadEntry
  <2>2. ChildCount(owner) = Below(Paths(tree), owner)
    BY DEF ChildCount, EntryPaths, Below, Paths
  <2>3. path = NextPath(tree, owner)
    BY <2>2 DEF NextPath
  <2>4. path \in Seq(Nat) /\ ChildCount(owner) \in Nat
    BY <2>2, <2>3, NextPathNested
  <2>5. x \in ItemSet /\ x.path = path
        /\ x.kind = IF children THEN "open" ELSE "leaf"
    BY <2>4 DEF ItemSet
  <2>6. v \in LevelSet /\ v.path = path /\ v.around = ChildCount(owner) + 1
    BY <2>4 DEF LevelSet
  <2> HIDE DEF x, v, path
  <2>7. CASE children
    <3>1. tree' = Append(tree, x) /\ levels' = Append(levels, v)
      BY <2>1, <2>7
    <3>2. Nested(tree', levels')
      BY <2>1, <2>2, <2>3, <2>5, <2>6, <2>7, <3>1, NestedOpen
    <3> QED
      BY <2>1, <3>2
  <2>8. CASE ~children
    <3>1. tree' = Append(tree, x) /\ levels' = levels
      BY <2>1, <2>8
    <3>2. Nested(tree', levels')
      BY <2>1, <2>3, <2>5, <2>8, <3>1, NestedLeaf
    <3> QED
      BY <2>1, <3>2
  <2> QED
    BY <2>7, <2>8
<1>8. CASE UNCHANGED tree_vars
  BY <1>8 DEF tree_vars
<1> QED
  BY <1>1, <1>2, <1>3, <1>4, <1>5, <1>6, <1>7, <1>8 DEF TreeNext

\* What the invariant says of the entries is what the property says.
LEMMA TreeInvImpliesNesting == TreeInv => EntriesNestAsWritten
<1> SUFFICES ASSUME TreeInv PROVE EntriesNestAsWritten
  OBVIOUS
<1> USE DEF TreeInv, Nested
<1>1. /\ Len(levels) \in Nat /\ 1 <= Len(levels) /\ MaxDepth \in Nat
      /\ \A i \in 1..Len(levels) : levels[i].path \in Seq(Nat)
  BY ListFields
<1>2. tree_error = "resource_limit" =>
         tree = <<>> \/ Cardinality(Enclosing(tree, Len(tree) + 1)) = MaxDepth
  <2>1. Cardinality(Enclosing(tree, Len(tree) + 1)) = Len(levels) - 1
    BY DEF OpenOK, Unclosed
  <2>2. Len(levels) = MaxDepth + 1 => Len(levels) - 1 = MaxDepth
    BY <1>1
  <2> QED
    BY <2>1, <2>2
<1>3. ASSUME NEW i \in 2..Len(levels)
      PROVE  /\ Front(levels[i].path) = levels[i - 1].path
             /\ levels[i].around = ChildCount(levels[i - 1].path)
  <2>1. i \in 1..Len(levels) /\ i - 1 \in 1..Len(levels) /\ i - 1 <= i
        /\ i - 1 = ((i - 1) - 1) + 1 /\ (i - 1) - 1 <= i - 1
    BY <1>1
  <2>2. Len(levels[i].path) = i - 1 /\ Len(levels[i - 1].path) = (i - 1) - 1
    BY <2>1 DEF LevelsOK
  <2>3. \A e \in 1..((i - 1) - 1) : levels[i - 1].path[e] = levels[i].path[e]
    BY <2>1 DEF LevelsOK
  <2>4. levels[i].path \in Seq(Nat) /\ levels[i - 1].path \in Seq(Nat)
    BY <1>1, <2>1
  <2>5. Front(levels[i].path) = levels[i - 1].path
    BY <2>1, <2>2, <2>3, <2>4, PointwisePrefix
  <2>6. levels[i].around = Below(Paths(tree), levels[i - 1].path)
    BY DEF LevelsOK
  <2> QED
    BY <2>5, <2>6 DEF ChildCount, EntryPaths, Below, Paths
<1>4. WrittenOK(tree)
  OBVIOUS
<1> QED
  BY <1>2, <1>3, <1>4 DEF EntriesNestAsWritten, WrittenOK

\* The entries of the tree are nested as the input nests them, however many
\* there are and however deep the limit allows (DebugInfoParser::parse_entries).
THEOREM EntriesAlwaysNest == TreeSpec => []EntriesNestAsWritten
<1>1. TreeInit => TreeInv
  BY TreeInvInit
<1>2. TreeInv /\ [TreeNext]_tree_vars => TreeInv'
  BY TreeInvNext
<1>3. TreeInv => EntriesNestAsWritten
  BY TreeInvImpliesNesting
<1> QED
  BY <1>1, <1>2, <1>3, PTL DEF TreeSpec

-----------------------------------------------------------------------------
(* Basic blocks: DisassemblyAnalyzer::analyze.                             *)

\* Where instruction n begins, and where it ends.
At(n) == instructions[n].address
Past(n) == Following(instructions[n])

InstructionSet ==
    [address : Nat, size : Nat \ {0}, target : SUBSET Word,
     branch : BOOLEAN, call : BOOLEAN, terminal : BOOLEAN]

\* The instructions lie side by side from the start to the end of what was
\* decoded.
CodeShape ==
    /\ start \in Word /\ offset \in Nat
    /\ instructions \in Seq(InstructionSet)
    /\ \A n \in DOMAIN instructions :
          /\ start <= At(n) /\ At(n) < Past(n) /\ Past(n) <= End
          /\ instructions[n].call => ~instructions[n].terminal
          /\ n + 1 \in DOMAIN instructions => At(n + 1) = Past(n)
    /\ \A m, n \in DOMAIN instructions : m < n => Past(m) <= At(n)
    /\ IF instructions = <<>> THEN offset = 0
       ELSE At(1) = start /\ Past(Len(instructions)) = End

\* The leader after l, if any.
IsNext(l, next) ==
    /\ next > l
    /\ next \in Leaders \/ next = End
    /\ \A m \in Leaders : m > l => m >= next

\* Instructions first to last are the block that begins with first.
IsBlock(first, last, next) ==
    /\ first \in DOMAIN instructions
    /\ last \in first..Len(instructions)
    /\ At(first) \in Leaders
    /\ IsNext(At(first), next)
    /\ \/ EndsBlock(instructions[last])
       \/ last = Len(instructions)
       \/ At(last + 1) >= next
    /\ \A m \in first..(last - 1) :
          ~EndsBlock(instructions[m]) /\ At(m + 1) < next

IsBlockOf(block, first, last, next) ==
    /\ IsBlock(first, last, next)
    /\ block.begin = At(first)
    /\ block.end = Past(last)
    /\ block.count = last - first + 1
    /\ block.complete = EndsBlock(instructions[last])
    /\ block.outgoing = Outgoing(first, last, next)

\* The blocks are those of the leaders below the bound, in their order.
BlocksShape ==
    /\ leader \in Nat
    /\ blocks \in Seq(Range(blocks))
    /\ \A b \in DOMAIN blocks :
          /\ blocks[b].begin < leader
          /\ \E first \in DOMAIN instructions : \E last \in DOMAIN instructions :
                \E next \in Nat : IsBlockOf(blocks[b], first, last, next)
    /\ \A b, c \in DOMAIN blocks : b < c => blocks[b].begin < blocks[c].begin
    /\ \A n \in DOMAIN instructions : At(n) \in Leaders /\ At(n) < leader =>
          \E b \in DOMAIN blocks : blocks[b].begin = At(n)

CodeInv ==
    /\ decoder \in Decoders
    /\ code_stage \in {"decoding", "grouping", "returned"}
    /\ CodeShape
    /\ BlocksShape
    /\ code_stage = "decoding" => leader = 0 /\ blocks = <<>>
    /\ ReportMade => Ahead = {}

-----------------------------------------------------------------------------
\* An instruction that is decoded is of the instruction set, at its address.
LEMMA DecodedInstruction ==
    ASSUME decoder \in Decoders, NEW shape \in decoder.shapes,
           NEW a \in Nat, NEW i \in Decodable(shape, a)
    PROVE  /\ i \in InstructionSet
           /\ i.address = a /\ i.size = shape.size
           /\ i.call => ~i.terminal
<1>1. /\ shape.size \in Nat \ {0} /\ shape.branch \in BOOLEAN
      /\ shape.call \in BOOLEAN /\ shape.terminal \in BOOLEAN
      /\ shape.call => ~shape.terminal
  BY CodeAssumption DEF IsDecoder
<1> DEFINE Targets == IF shape.jumps THEN {{t} : t \in Word} ELSE {{}}
<1>2. Targets \subseteq SUBSET Word
  OBVIOUS
<1> HIDE DEF Targets
<1>3. i \in {[address |-> a, size |-> shape.size, target |-> target,
              branch |-> shape.branch, call |-> shape.call,
              terminal |-> shape.terminal] : target \in Targets}
  BY DEF Decodable, Targets
<1>4. PICK target \in Targets :
         i = [address |-> a, size |-> shape.size, target |-> target,
              branch |-> shape.branch, call |-> shape.call, terminal |-> shape.terminal]
  BY <1>3
<1> QED
  BY <1>1, <1>2, <1>4 DEF InstructionSet

\* The instructions have the fields that the operators read.
LEMMA InstructionFields ==
    ASSUME CodeShape, NEW n \in DOMAIN instructions
    PROVE  /\ n \in Nat /\ n >= 1 /\ n <= Len(instructions)
           /\ At(n) \in Nat /\ Past(n) \in Nat
           /\ instructions[n].target \subseteq Word
           /\ instructions[n].branch \in BOOLEAN
           /\ instructions[n].terminal \in BOOLEAN
           /\ instructions[n].call \in BOOLEAN
<1>1. instructions[n] \in InstructionSet /\ n \in 1..Len(instructions)
      /\ Len(instructions) \in Nat
  BY ElementOfSeq, LenProperties DEF CodeShape
<1> QED
  BY <1>1 DEF InstructionSet, At, Past, Following

\* The start and the end are addresses.
LEMMA EndIsNatural ==
    ASSUME CodeShape
    PROVE  start \in Nat /\ End \in Nat /\ Len(instructions) \in Nat
           /\ DOMAIN instructions = 1..Len(instructions)
BY WordAssumption, LenProperties DEF CodeShape, End, Word

\* Every leader is between the start and the end.
LEMMA LeadersInRange ==
    ASSUME CodeShape, NEW l \in Leaders
    PROVE  l \in Nat /\ start <= l /\ l <= End
<1>1. CASE l = start
  BY <1>1, EndIsNatural DEF CodeShape, End
<1>2. CASE l \in start..(End - 1)
  BY <1>2, EndIsNatural
<1>3. CASE \E n \in DOMAIN instructions : l = Past(n)
  <2>1. PICK n \in DOMAIN instructions : l = Past(n)
    BY <1>3
  <2>2. start <= At(n) /\ At(n) < Past(n) /\ Past(n) <= End
    BY DEF CodeShape
  <2> QED
    BY <2>1, <2>2, InstructionFields, EndIsNatural
<1> QED
  BY <1>1, <1>2, <1>3 DEF Leaders, Past

\* The least element of a set of naturals.
LEMMA LeastIsLeast ==
    ASSUME NEW S \in SUBSET Nat, S # {}
    PROVE  Least(S) \in S /\ \A x \in S : Least(S) <= x
BY LeastElement DEF Least

\* NextLeader finds the leader after one that begins an instruction.
LEMMA NextLeaderIsNext ==
    ASSUME CodeShape, NEW n \in DOMAIN instructions, At(n) \in Leaders
    PROVE  NextLeader(At(n)) \in Nat /\ IsNext(At(n), NextLeader(At(n)))
<1> DEFINE later == {m \in Leaders : m > At(n)}
<1>1. later \subseteq Nat
  BY LeadersInRange
<1>2. At(n) \in Nat /\ At(n) < End /\ End \in Nat
  <2>1. At(n) < Past(n) /\ Past(n) <= End
    BY DEF CodeShape
  <2> QED
    BY <2>1, InstructionFields, EndIsNatural
<1>3. CASE later = {}
  <2>1. NextLeader(At(n)) = End
    BY <1>3 DEF NextLeader
  <2> QED
    BY <2>1, <1>2, <1>3 DEF IsNext
<1>4. CASE later # {}
  <2>1. NextLeader(At(n)) = Least(later)
    BY <1>4 DEF NextLeader
  <2>2. Least(later) \in later /\ \A x \in later : Least(later) <= x
    BY <1>1, <1>4, LeastIsLeast
  <2>3. Least(later) \in Nat /\ Least(later) > At(n) /\ Least(later) \in Leaders
    BY <1>1, <2>2
  <2>4. ASSUME NEW m \in Leaders, m > At(n) PROVE m >= Least(later)
    <3>1. m \in later /\ m \in Nat
      BY <2>4, LeadersInRange
    <3> QED
      BY <2>2, <2>3, <3>1
  <2> QED
    BY <2>1, <2>3, <2>4 DEF IsNext
<1> QED
  BY <1>3, <1>4

\* LastOf finds the last instruction of a block.
LEMMA LastOfIsLast ==
    ASSUME CodeShape, NEW first \in DOMAIN instructions, NEW next \in Nat,
           At(first) \in Leaders, IsNext(At(first), next)
    PROVE  IsBlock(first, LastOf(first, next), next)
<1> DEFINE Stops(n) == \/ EndsBlock(instructions[n])
                       \/ n = Len(instructions)
                       \/ At(n + 1) >= next
           S == {n \in first..Len(instructions) : Stops(n)}
<1>1. first \in Nat /\ first >= 1 /\ first <= Len(instructions)
      /\ Len(instructions) \in Nat /\ DOMAIN instructions = 1..Len(instructions)
  BY InstructionFields, EndIsNatural
<1>2. Len(instructions) \in S /\ S \subseteq Nat
  BY <1>1
<1> HIDE DEF Stops
<1>3. PICK last \in S : \A x \in S : last <= x
  BY <1>2, LeastElement
<1>4. last \in first..Len(instructions) /\ Stops(last) /\ last \in Nat
  BY <1>2, <1>3
<1>5. ASSUME NEW m \in first..(last - 1)
      PROVE  ~EndsBlock(instructions[m]) /\ At(m + 1) < next
  <2>1. m \in first..Len(instructions) /\ m < last /\ m \in Nat
        /\ m + 1 \in DOMAIN instructions
    BY <1>1, <1>4
  <2>2. m \notin S
    BY <1>3, <1>4, <2>1
  <2>3. ~Stops(m)
    BY <2>1, <2>2
  <2>4. At(m + 1) \in Nat
    BY <2>1, InstructionFields
  <2> QED
    BY <2>3, <2>4 DEF Stops
<1>6. \E n \in first..Len(instructions) :
         /\ \/ EndsBlock(instructions[n])
            \/ n = Len(instructions)
            \/ instructions[n + 1].address >= next
         /\ \A m \in first..(n - 1) :
                /\ ~EndsBlock(instructions[m])
                /\ instructions[m + 1].address < next
  BY <1>4, <1>5 DEF At, Stops
<1>7. LET n == LastOf(first, next) IN
      /\ n \in first..Len(instructions)
      /\ \/ EndsBlock(instructions[n])
         \/ n = Len(instructions)
         \/ instructions[n + 1].address >= next
      /\ \A m \in first..(n - 1) :
             /\ ~EndsBlock(instructions[m])
             /\ instructions[m + 1].address < next
  BY <1>6 DEF LastOf
<1> QED
  BY <1>7 DEF IsBlock, At

\* In the block of a leader: what the instructions before the last one do, and
\* that the leader after it is not before the last.
LEMMA InsideBlock ==
    ASSUME CodeShape, NEW first \in DOMAIN instructions,
           NEW last \in DOMAIN instructions, NEW next \in Nat,
           IsBlock(first, last, next)
    PROVE  /\ first <= last
           /\ At(last) < next
           /\ \A n \in DOMAIN instructions :
                 first <= n /\ n <= last /\ At(n) \in Leaders => n = first
           /\ \A n \in DOMAIN instructions :
                 first <= n /\ n < last => ~EndsBlock(instructions[n])
<1>1. /\ first \in Nat /\ last \in Nat /\ first <= last
      /\ DOMAIN instructions = 1..Len(instructions) /\ Len(instructions) \in Nat
      /\ 1 <= first /\ last <= Len(instructions)
  BY InstructionFields, EndIsNatural DEF IsBlock
<1>2. \A m \in first..(last - 1) :
         ~EndsBlock(instructions[m]) /\ At(m + 1) < next
  BY DEF IsBlock
<1>3. At(first) < next /\ \A m \in Leaders : m > At(first) => m >= next
  BY InstructionFields DEF IsBlock, IsNext
<1>4. ASSUME NEW n \in DOMAIN instructions, first < n, n <= last
      PROVE  At(n) < next
  <2>1. n - 1 \in first..(last - 1) /\ (n - 1) + 1 = n
    BY <1>1, <1>4
  <2> QED
    BY <1>2, <2>1
<1>5. At(last) < next
  BY <1>1, <1>3, <1>4
<1>6. ASSUME NEW n \in DOMAIN instructions, first <= n, n <= last,
             At(n) \in Leaders, n # first
      PROVE  FALSE
  <2>1. n \in Nat /\ first < n
    BY <1>1, <1>6
  <2>2. At(n) < next
    BY <1>4, <1>6, <2>1
  <2>3. Past(first) <= At(n) /\ At(first) < Past(first)
    BY <2>1 DEF CodeShape
  <2>4. At(n) > At(first)
    BY <2>3, InstructionFields
  <2> QED
    BY <1>3, <1>6, <2>2, <2>4, InstructionFields
<1>7. ASSUME NEW n \in DOMAIN instructions, first <= n, n < last
      PROVE  ~EndsBlock(instructions[n])
  <2>1. n \in first..(last - 1)
    BY <1>1, <1>7
  <2> QED
    BY <1>2, <2>1
<1> QED
  BY <1>1, <1>5, <1>6, <1>7

\* The addresses of a block are those of its instructions.
LEMMA AddressInBlock ==
    ASSUME CodeShape, NEW n \in DOMAIN instructions,
           NEW first \in DOMAIN instructions, NEW last \in DOMAIN instructions
    PROVE  At(n) \in At(first)..(Past(last) - 1) <=> first <= n /\ n <= last
<1>1. /\ n \in Nat /\ first \in Nat /\ last \in Nat
      /\ At(n) \in Nat /\ At(first) \in Nat /\ At(last) \in Nat
      /\ Past(n) \in Nat /\ Past(first) \in Nat /\ Past(last) \in Nat
  BY InstructionFields
<1>2. At(n) < Past(n) /\ At(first) < Past(first) /\ At(last) < Past(last)
  BY DEF CodeShape
<1>3. /\ n < first => Past(n) <= At(first)
      /\ first < n => Past(first) <= At(n)
      /\ last < n => Past(last) <= At(n)
      /\ n < last => Past(n) <= At(last)
  BY DEF CodeShape
<1> DEFINE an == At(n)  af == At(first)  al == At(last)
           pn == Past(n)  pf == Past(first)  pl == Past(last)
<1> HIDE DEF an, af, al, pn, pf, pl
<1>4. an \in af..(pl - 1) <=> af <= an /\ an < pl
  BY <1>1 DEF an, af, pl
<1>5. first <= n <=> af <= an
  <2>1. n = first => an = af
    BY DEF an, af
  <2> QED
    BY <1>1, <1>2, <1>3, <2>1 DEF an, af, al, pn, pf, pl
<1>6. n <= last <=> an < pl
  <2>1. n = last => an = al
    BY DEF an, al
  <2> QED
    BY <1>1, <1>2, <1>3, <2>1 DEF an, af, al, pn, pf, pl
<1> QED
  BY <1>4, <1>5, <1>6 DEF an, af, pl

\* Instruction n is in block b.
Holds(b, n) == At(n) \in blocks[b].begin..(blocks[b].end - 1)

\* An instruction that is the target of a jump is a leader.
LEMMA TargetsAreLeaders ==
    ASSUME CodeShape, NEW n \in DOMAIN instructions, NEW m \in DOMAIN instructions,
           At(n) \in instructions[m].target
    PROVE  At(n) \in Leaders
<1>1. start <= At(n) /\ At(n) < Past(n) /\ Past(n) <= End
  BY DEF CodeShape
<1>2. At(n) \in start..(End - 1)
  BY <1>1, InstructionFields, EndIsNatural
<1> QED
  BY <1>2 DEF Leaders

\* Later instructions lie behind earlier ones, so that addresses are in order.
LEMMA AddressesAreOrdered ==
    ASSUME CodeShape, NEW m \in DOMAIN instructions, NEW n \in DOMAIN instructions
    PROVE  /\ m < n => At(m) < At(n) /\ Past(m) <= At(n)
           /\ m <= n => At(m) <= At(n)
           /\ At(m) < At(n) => m < n
<1>1. /\ m < n => Past(m) <= At(n)
      /\ n < m => Past(n) <= At(m)
      /\ At(m) < Past(m) /\ At(n) < Past(n)
  BY DEF CodeShape
<1>2. m = n => At(m) = At(n)
  OBVIOUS
<1> QED
  BY <1>1, <1>2, InstructionFields

\* The blocks of a report are basic.
LEMMA InvImpliesBasic ==
    ASSUME CodeShape, BlocksShape
    PROVE  BlocksAreBasic
<1>1. ASSUME NEW b \in DOMAIN blocks
      PROVE  \E first, last \in DOMAIN instructions :
                /\ first <= last /\ IsRun(blocks[b], first, last)
                /\ \A n \in first..last :
                      /\ EndsBlock(instructions[n]) => n = last
                      /\ IsTarget(instructions[n].address) => n = first
  <2>1. PICK f \in DOMAIN instructions, l \in DOMAIN instructions, x \in Nat :
           IsBlockOf(blocks[b], f, l, x)
    BY DEF BlocksShape
  <2>2. IsBlock(f, l, x)
    BY <2>1 DEF IsBlockOf
  <2>3. f <= l /\ f \in Nat /\ l \in Nat
    BY <2>2, InsideBlock, InstructionFields
  <2>4. IsRun(blocks[b], f, l)
    BY <2>1 DEF IsBlockOf, IsRun, At, Past
  <2>5. ASSUME NEW n \in f..l
        PROVE  /\ EndsBlock(instructions[n]) => n = l
               /\ IsTarget(instructions[n].address) => n = f
    <3>1. n \in DOMAIN instructions /\ f <= n /\ n <= l /\ n \in Nat
      BY <2>3, InstructionFields, EndIsNatural
    <3>2. EndsBlock(instructions[n]) => ~(n < l)
      BY <2>2, <3>1, InsideBlock
    <3>3. IsTarget(instructions[n].address) => At(n) \in Leaders
      BY <3>1, TargetsAreLeaders DEF IsTarget, At
    <3>4. At(n) \in Leaders => n = f
      BY <2>2, <3>1, InsideBlock
    <3> QED
      BY <2>3, <3>1, <3>2, <3>3, <3>4
  <2> QED
    BY <2>3, <2>4, <2>5
<1>2. ASSUME NEW b \in DOMAIN blocks, NEW c \in DOMAIN blocks, b < c
      PROVE  blocks[b].end <= blocks[c].begin
  <2>1. PICK f \in DOMAIN instructions, l \in DOMAIN instructions, x \in Nat :
           IsBlockOf(blocks[b], f, l, x)
    BY DEF BlocksShape
  <2>2. PICK g \in DOMAIN instructions, k \in DOMAIN instructions, y \in Nat :
           IsBlockOf(blocks[c], g, k, y)
    BY DEF BlocksShape
  <2>3. At(f) < At(g)
    BY <1>2, <2>1, <2>2 DEF BlocksShape, IsBlockOf
  <2>4. f < g
    BY <2>3, AddressesAreOrdered
  <2>5. ~(g <= l)
    <3>1. IsBlock(f, l, x) /\ At(g) \in Leaders
      BY <2>1, <2>2 DEF IsBlockOf, IsBlock
    <3>2. f \in Nat /\ g \in Nat
      BY InstructionFields
    <3>3. f <= g /\ g # f
      BY <2>4, <3>2
    <3> QED
      BY <3>1, <3>3, InsideBlock
  <2>6. Past(l) <= At(g)
    BY <2>5, AddressesAreOrdered, InstructionFields
  <2> QED
    BY <2>1, <2>2, <2>6 DEF IsBlockOf
<1> QED
  BY <1>1, <1>2 DEF BlocksAreBasic

\* A leader that begins an instruction begins a block of the report.
LEMMA LeaderHasBlock ==
    ASSUME CodeShape, BlocksShape, Ahead = {},
           NEW n \in DOMAIN instructions, At(n) \in Leaders
    PROVE  \E c \in DOMAIN blocks : blocks[c].begin = At(n) /\ Holds(c, n)
<1>1. At(n) < leader
  <2>1. ~(At(n) >= leader)
    BY DEF Ahead
  <2> QED
    BY <2>1, InstructionFields DEF BlocksShape
<1>2. PICK c \in DOMAIN blocks : blocks[c].begin = At(n)
  BY <1>1 DEF BlocksShape
<1>3. PICK f \in DOMAIN instructions, l \in DOMAIN instructions, x \in Nat :
         IsBlockOf(blocks[c], f, l, x)
  BY DEF BlocksShape
<1>4. At(f) = At(n) /\ f <= l
  BY <1>2, <1>3, InsideBlock DEF IsBlockOf
<1>5. f = n
  <2>1. f \in Nat /\ n \in Nat /\ At(n) \in Nat
    BY InstructionFields
  <2>2. ~(f < n) /\ ~(n < f)
    <3>1. /\ f < n => At(f) < At(n)
          /\ n < f => At(n) < At(f)
      BY AddressesAreOrdered
    <3> QED
      BY <1>4, <2>1, <3>1
  <2> QED
    BY <2>1, <2>2
<1>6. n <= n /\ n <= l
  BY <1>4, <1>5, InstructionFields
<1>7. At(n) \in At(n)..(Past(l) - 1)
  BY <1>6, AddressInBlock
<1> QED
  BY <1>2, <1>3, <1>7 DEF IsBlockOf, Holds

\* Which instructions are leaders: the first one, the targets of jumps, and
\* those that follow a jump that control comes back from.
LEMMA LeadingInstructions ==
    ASSUME CodeShape, NEW n \in DOMAIN instructions
    PROVE  /\ At(n) \in Leaders =>
                 \/ n = 1 \/ IsTarget(At(n))
                 \/ /\ n - 1 \in DOMAIN instructions
                    /\ instructions[n - 1].branch /\ ~instructions[n - 1].terminal
           /\ n = 1 => At(n) \in Leaders
           /\ IsTarget(At(n)) => At(n) \in Leaders
           /\ /\ n # 1
              /\ instructions[n - 1].branch /\ ~instructions[n - 1].terminal
              => At(n) \in Leaders
<1>1. /\ n \in Nat /\ n >= 1 /\ n <= Len(instructions) /\ Len(instructions) \in Nat
      /\ DOMAIN instructions = 1..Len(instructions) /\ instructions # <<>>
      /\ 1 \in DOMAIN instructions
  BY InstructionFields, EndIsNatural, EmptySeq
<1>2. At(1) = start
  BY <1>1 DEF CodeShape
<1>3. ASSUME At(n) = start PROVE n = 1
  BY <1>1, <1>2, <1>3, AddressesAreOrdered, InstructionFields
<1>4. ASSUME NEW m \in DOMAIN instructions, At(n) = Past(m) PROVE m = n - 1
  <2>1. m \in Nat /\ m < n
    <3>1. At(m) < At(n)
      BY <1>4 DEF CodeShape
    <3> QED
      BY <3>1, AddressesAreOrdered, InstructionFields
  <2>2. m + 1 \in DOMAIN instructions
    BY <1>1, <2>1, InstructionFields
  <2>3. At(m + 1) = At(n)
    BY <1>4, <2>2 DEF CodeShape
  <2>4. ~(m + 1 < n)
    BY <2>2, <2>3, AddressesAreOrdered, InstructionFields
  <2> QED
    BY <1>1, <2>1, <2>4
<1>5. ASSUME At(n) \in Leaders, n # 1, ~IsTarget(At(n))
      PROVE  /\ n - 1 \in DOMAIN instructions
             /\ instructions[n - 1].branch /\ ~instructions[n - 1].terminal
  <2>1. PICK m \in DOMAIN instructions :
           /\ At(n) = Past(m)
           /\ instructions[m].branch /\ ~instructions[m].terminal
    BY <1>3, <1>5 DEF Leaders, IsTarget, Past
  <2> QED
    BY <1>4, <2>1
<1>6. n = 1 => At(n) \in Leaders
  BY <1>2 DEF Leaders
<1>7. IsTarget(At(n)) => At(n) \in Leaders
  BY TargetsAreLeaders DEF IsTarget
<1>8. ASSUME n # 1, instructions[n - 1].branch, ~instructions[n - 1].terminal
      PROVE  At(n) \in Leaders
  <2>1. n - 1 \in DOMAIN instructions /\ (n - 1) + 1 = n
    BY <1>1, <1>8
  <2>2. At(n) = Past(n - 1)
    BY <2>1 DEF CodeShape
  <2> QED
    BY <1>8, <2>1, <2>2 DEF Leaders, Past
<1> QED
  BY <1>5, <1>6, <1>7, <1>8

\* A leader inside an instruction is the target of a jump, and such targets are
\* leaders.
LEMMA SplitsAreLeaders ==
    ASSUME CodeShape, NEW n \in DOMAIN instructions
    PROVE  IsSplit(n) <=> \E l \in Leaders : At(n) < l /\ l < Past(n)
<1>1. /\ At(n) \in Nat /\ Past(n) \in Nat /\ start \in Nat /\ End \in Nat
      /\ start <= At(n) /\ At(n) < Past(n) /\ Past(n) <= End
  BY InstructionFields, EndIsNatural DEF CodeShape
<1>2. IsSplit(n) <=> \E t \in (At(n) + 1)..(Past(n) - 1) : IsTarget(t)
  BY DEF IsSplit, At, Past
<1>3. ASSUME NEW t \in (At(n) + 1)..(Past(n) - 1), IsTarget(t)
      PROVE  t \in Leaders /\ At(n) < t /\ t < Past(n)
  <2>1. t \in Nat /\ At(n) < t /\ t < Past(n) /\ t \in start..(End - 1)
    BY <1>1
  <2> QED
    BY <1>3, <2>1 DEF Leaders, IsTarget
<1>4. ASSUME NEW l \in Leaders, At(n) < l, l < Past(n)
      PROVE  l \in (At(n) + 1)..(Past(n) - 1) /\ IsTarget(l)
  <2>1. l \in Nat /\ l # start
    BY <1>1, <1>4, LeadersInRange
  <2>2. ASSUME NEW m \in DOMAIN instructions, l = Past(m) PROVE FALSE
    <3>1. m \in Nat /\ n \in Nat /\ At(m) < Past(m) /\ Past(m) \in Nat /\ At(m) \in Nat
      BY InstructionFields DEF CodeShape
    <3>2. CASE m < n
      BY <1>1, <1>4, <2>2, <3>1, <3>2, AddressesAreOrdered
    <3>3. CASE m = n
      BY <1>1, <1>4, <2>2, <3>3
    <3>4. CASE n < m
      <4>1. Past(n) <= At(m)
        BY <3>4, AddressesAreOrdered
      <4> QED
        BY <1>1, <1>4, <2>2, <3>1, <4>1
    <3> QED
      BY <3>1, <3>2, <3>3, <3>4
  <2>3. IsTarget(l)
    BY <2>1, <2>2 DEF Leaders, IsTarget, Past
  <2> QED
    BY <1>1, <1>4, <2>1, <2>3
<1> QED
  BY <1>2, <1>3, <1>4

\* The next leader is where the last instruction of a block ends, unless a jump
\* leads into that instruction.
LEMMA NextIsPastLast ==
    ASSUME CodeShape, NEW f \in DOMAIN instructions, NEW l \in DOMAIN instructions,
           NEW x \in Nat, IsBlock(f, l, x), ~EndsBlock(instructions[l])
    PROVE  Past(l) = x <=> ~IsSplit(l)
<1>1. /\ f \in Nat /\ l \in Nat /\ f <= l /\ At(f) \in Nat /\ At(l) \in Nat
      /\ Past(l) \in Nat /\ At(l) < x /\ At(f) <= At(l) /\ End \in Nat /\ Past(l) <= End
  BY InsideBlock, InstructionFields, AddressesAreOrdered, EndIsNatural DEF CodeShape
<1>2. /\ x > At(f) /\ (x \in Leaders \/ x = End)
      /\ \A m \in Leaders : m > At(f) => m >= x
  BY DEF IsBlock, IsNext
<1>3. x <= Past(l)
  <2>1. CASE l = Len(instructions)
    <3>1. Past(l) = End
      BY <2>1, EmptySeq, EndIsNatural DEF CodeShape
    <3> QED
      BY <1>1, <1>2, <3>1, LeadersInRange
  <2>2. CASE l # Len(instructions)
    <3>1. l + 1 \in DOMAIN instructions
      <4>1. l <= Len(instructions)
        BY InstructionFields
      <4> QED
        BY <1>1, <2>2, <4>1, EndIsNatural
    <3>2. At(l + 1) >= x /\ At(l + 1) = Past(l)
      BY <2>2, <3>1 DEF IsBlock, CodeShape
    <3> QED
      BY <1>1, <3>2
  <2> QED
    BY <2>1, <2>2
<1>4. ASSUME x # Past(l) PROVE IsSplit(l)
  <2>1. x < Past(l) /\ x # End
    BY <1>1, <1>3, <1>4
  <2> QED
    BY <1>1, <1>2, <2>1, SplitsAreLeaders
<1>5. ASSUME IsSplit(l), Past(l) = x PROVE FALSE
  <2>1. PICK t \in Leaders : At(l) < t /\ t < Past(l)
    BY <1>5, SplitsAreLeaders
  <2>2. t \in Nat /\ t > At(f)
    BY <1>1, <2>1, LeadersInRange
  <2> QED
    BY <1>1, <1>2, <1>5, <2>1, <2>2
<1> QED
  BY <1>4, <1>5

\* An instruction at the next leader is a leader.
LEMMA NextInstructionLeads ==
    ASSUME CodeShape, NEW f \in DOMAIN instructions, NEW l \in DOMAIN instructions,
           NEW x \in Nat, IsBlock(f, l, x), NEW k \in DOMAIN instructions, At(k) = x
    PROVE  At(k) \in Leaders
<1>1. At(k) < Past(k) /\ Past(k) <= End
  BY DEF CodeShape
<1>2. x # End
  BY <1>1, InstructionFields, EndIsNatural
<1>3. x \in Leaders
  BY <1>2 DEF IsBlock, IsNext
<1> QED
  BY <1>3

\* The instructions in blocks are those that control reaches.
LEMMA InvImpliesReached ==
    ASSUME CodeShape, BlocksShape, Ahead = {}, NEW n \in DOMAIN instructions
    PROVE  InBlock(n) <=>
              \/ n = 1 \/ IsTarget(instructions[n].address)
              \/ /\ FallsThrough(n - 1)
                 /\ instructions[n - 1].branch \/ (InBlock(n - 1) /\ ~IsSplit(n - 1))
<1>1. \A m \in DOMAIN instructions : InBlock(m) <=> \E b \in DOMAIN blocks : Holds(b, m)
  BY DEF InBlock, Holds, At
<1>2. At(n) \in Leaders => InBlock(n)
  BY <1>1, LeaderHasBlock
<1>3. /\ n \in Nat /\ n >= 1
      /\ n # 1 => n - 1 \in DOMAIN instructions /\ (n - 1) + 1 = n
  BY InstructionFields, EndIsNatural
<1>4. ASSUME InBlock(n), At(n) \notin Leaders
      PROVE  FallsThrough(n - 1) /\ InBlock(n - 1) /\ ~IsSplit(n - 1)
  <2>1. PICK b \in DOMAIN blocks : Holds(b, n)
    BY <1>1, <1>4
  <2>2. PICK f \in DOMAIN instructions, l \in DOMAIN instructions, x \in Nat :
           IsBlockOf(blocks[b], f, l, x)
    BY DEF BlocksShape
  <2>3. IsBlock(f, l, x) /\ f <= n /\ n <= l /\ f # n
    BY <1>4, <2>1, <2>2, AddressInBlock DEF IsBlockOf, IsBlock, Holds
  <2>4. f \in Nat /\ l \in Nat /\ f >= 1
    BY InstructionFields
  <2>5. n # 1 /\ f <= n - 1 /\ n - 1 < l /\ n - 1 <= l
    BY <1>3, <2>3, <2>4
  <2>6. n - 1 \in DOMAIN instructions /\ (n - 1) + 1 = n
    BY <1>3, <2>5
  <2>7. ~EndsBlock(instructions[n - 1])
    BY <2>3, <2>5, <2>6, InsideBlock
  <2>8. Holds(b, n - 1)
    BY <2>2, <2>5, <2>6, AddressInBlock DEF IsBlockOf, Holds
  <2>9. ASSUME IsSplit(n - 1) PROVE FALSE
    <3>1. PICK t \in Leaders : At(n - 1) < t /\ t < Past(n - 1)
      BY <2>6, <2>9, SplitsAreLeaders
    <3>2. Past(n - 1) = At(n)
      BY <2>6 DEF CodeShape
    <3>3. At(f) <= At(n - 1)
      BY <2>5, <2>6, AddressesAreOrdered
    <3>4. At(n) <= At(l)
      BY <2>3, AddressesAreOrdered
    <3>5. At(l) < x
      BY <2>3, InsideBlock
    <3>6. /\ t \in Nat /\ At(f) \in Nat /\ At(l) \in Nat /\ At(n) \in Nat
          /\ At(n - 1) \in Nat
      BY <2>6, InstructionFields, LeadersInRange
    <3>7. t > At(f) /\ ~(t >= x)
      BY <3>1, <3>2, <3>3, <3>4, <3>5, <3>6
    <3> QED
      BY <2>3, <3>7 DEF IsBlock, IsNext
  <2> QED
    BY <1>1, <2>6, <2>7, <2>8, <2>9 DEF FallsThrough, EndsBlock
<1>5. ASSUME n # 1, FallsThrough(n - 1), ~instructions[n - 1].branch,
             InBlock(n - 1), ~IsSplit(n - 1)
      PROVE  InBlock(n)
  <2>1. PICK b \in DOMAIN blocks : Holds(b, n - 1)
    BY <1>1, <1>3, <1>5
  <2>2. PICK f \in DOMAIN instructions, l \in DOMAIN instructions, x \in Nat :
           IsBlockOf(blocks[b], f, l, x)
    BY DEF BlocksShape
  <2>3. IsBlock(f, l, x) /\ f <= n - 1 /\ n - 1 <= l /\ f \in Nat /\ l \in Nat
    BY <1>3, <1>5, <2>1, <2>2, AddressInBlock, InstructionFields DEF IsBlockOf, Holds
  <2>4. CASE n - 1 < l
    <3>1. f <= n /\ n <= l
      BY <1>3, <2>3, <2>4
    <3>2. Holds(b, n)
      BY <2>2, <3>1, AddressInBlock DEF IsBlockOf, Holds
    <3> QED
      BY <1>1, <3>2
  <2>5. CASE n - 1 = l
    <3>1. Past(l) = x
      BY <1>5, <2>3, <2>5, NextIsPastLast DEF EndsBlock, FallsThrough
    <3>2. At(n) = Past(n - 1)
      BY <1>3, <1>5 DEF CodeShape
    <3>3. At(n) \in Leaders
      BY <2>3, <2>5, <3>1, <3>2, NextInstructionLeads
    <3> QED
      BY <1>2, <3>3
  <2> QED
    BY <1>3, <2>3, <2>4, <2>5
<1>6. /\ At(n) \in Leaders =>
            \/ n = 1 \/ IsTarget(At(n))
            \/ /\ n - 1 \in DOMAIN instructions
               /\ instructions[n - 1].branch /\ ~instructions[n - 1].terminal
      /\ n = 1 => At(n) \in Leaders
      /\ IsTarget(At(n)) => At(n) \in Leaders
      /\ n # 1 /\ instructions[n - 1].branch /\ ~instructions[n - 1].terminal
            => At(n) \in Leaders
  BY LeadingInstructions
<1> HIDE DEF At
<1>7. IsTarget(instructions[n].address) <=> IsTarget(At(n))
  BY DEF At
<1> QED
  BY <1>2, <1>4, <1>5, <1>6, <1>7 DEF FallsThrough

\* The edges of a block are where control leads from it.
LEMMA EdgesOfBlock ==
    ASSUME CodeShape, NEW f \in DOMAIN instructions, NEW l \in DOMAIN instructions,
           NEW x \in Nat, IsBlock(f, l, x)
    PROVE  Outgoing(f, l, x) =
              (UNION {instructions[n].target : n \in f..l})
              \cup {t \in {Past(l)} :
                      FallsThrough(l) /\ (instructions[l].branch \/ ~IsSplit(l))}
<1> DEFINE A == UNION {instructions[n].target : n \in f..l}
           i == instructions[l]
           B == {t \in {Following(i)} : EndsBlock(i) /\ (~i.terminal \/ i.call)}
           C == {t \in {Following(i)} : ~EndsBlock(i) /\ t = x}
           D == {t \in {Past(l)} : FallsThrough(l) /\ (i.branch \/ ~IsSplit(l))}
<1>1. Outgoing(f, l, x) = (A \cup B) \cup C
  BY DEF Outgoing
<1>2. i.call => ~i.terminal
  BY DEF CodeShape
<1>3. ~EndsBlock(i) => (Past(l) = x <=> ~IsSplit(l))
  BY NextIsPastLast
<1>4. B \cup C = D
  <2>1. ASSUME NEW t PROVE t \in B \cup C <=> t \in D
    <3>1. CASE t # Past(l)
      BY <3>1 DEF Past
    <3>2. CASE t = Past(l) /\ EndsBlock(i)
      BY <1>2, <3>2 DEF Past, EndsBlock, FallsThrough
    <3>3. CASE t = Past(l) /\ ~EndsBlock(i)
      BY <1>3, <3>3 DEF Past, EndsBlock, FallsThrough
    <3> QED
      BY <3>1, <3>2, <3>3
  <2> QED
    BY <2>1
<1> HIDE DEF A, B, C, D
<1>5. Outgoing(f, l, x) = A \cup D
  BY <1>1, <1>4
<1> QED
  BY <1>5 DEF A, D

\* The blocks and their edges are the control flow.
LEMMA InvImpliesCovered ==
    ASSUME CodeShape, BlocksShape, ReportMade => Ahead = {}
    PROVE  ControlFlowIsCovered
<1> SUFFICES ASSUME Ahead = {}
             PROVE  /\ \A n \in DOMAIN instructions :
                          InBlock(n) <=>
                             \/ n = 1 \/ IsTarget(instructions[n].address)
                             \/ /\ FallsThrough(n - 1)
                                /\ \/ instructions[n - 1].branch
                                   \/ InBlock(n - 1) /\ ~IsSplit(n - 1)
                    /\ \A b \in DOMAIN blocks :
                          /\ \E first, last \in DOMAIN instructions :
                                /\ IsRun(blocks[b], first, last)
                                /\ blocks[b].outgoing =
                                      (UNION {instructions[n].target : n \in first..last})
                                      \cup {t \in {blocks[b].end} :
                                              /\ FallsThrough(last)
                                              /\ instructions[last].branch \/ ~IsSplit(last)}
                          /\ \A t \in blocks[b].outgoing \cap Addresses :
                                \E c \in DOMAIN blocks : blocks[c].begin = t
  BY DEF ControlFlowIsCovered
<1>1. ASSUME NEW b \in DOMAIN blocks
      PROVE  /\ \E first, last \in DOMAIN instructions :
                   /\ IsRun(blocks[b], first, last)
                   /\ blocks[b].outgoing =
                         (UNION {instructions[n].target : n \in first..last})
                         \cup {t \in {blocks[b].end} :
                                 /\ FallsThrough(last)
                                 /\ instructions[last].branch \/ ~IsSplit(last)}
             /\ \A t \in blocks[b].outgoing \cap Addresses :
                   \E c \in DOMAIN blocks : blocks[c].begin = t
  <2>1. PICK f \in DOMAIN instructions, l \in DOMAIN instructions, x \in Nat :
           IsBlockOf(blocks[b], f, l, x)
    BY DEF BlocksShape
  <2>2. IsBlock(f, l, x) /\ blocks[b].end = Past(l) /\ blocks[b].outgoing = Outgoing(f, l, x)
    BY <2>1 DEF IsBlockOf
  <2>3. IsRun(blocks[b], f, l)
    BY <2>1 DEF IsBlockOf, IsRun, At, Past
  <2>4. blocks[b].outgoing =
           (UNION {instructions[n].target : n \in f..l})
           \cup {t \in {blocks[b].end} :
                   FallsThrough(l) /\ (instructions[l].branch \/ ~IsSplit(l))}
    BY <2>2, EdgesOfBlock
  <2>5. ASSUME NEW t \in blocks[b].outgoing, t \in Addresses
        PROVE  \E c \in DOMAIN blocks : blocks[c].begin = t
    <3>1. PICK k \in DOMAIN instructions : t = At(k)
      BY <2>5 DEF Addresses, At
    <3>2. CASE t \in UNION {instructions[n].target : n \in f..l}
      <4>1. PICK n \in f..l : t \in instructions[n].target
        BY <3>2
      <4>2. n \in DOMAIN instructions
        BY InstructionFields, EndIsNatural
      <4> QED
        BY <3>1, <4>1, <4>2, TargetsAreLeaders, LeaderHasBlock
    <3>3. CASE t = Past(l) /\ FallsThrough(l) /\ instructions[l].branch
      <4>1. t \in Leaders
        BY <3>3 DEF Leaders, FallsThrough, Past
      <4> QED
        BY <3>1, <4>1, LeaderHasBlock
    <3>4. CASE t = Past(l) /\ FallsThrough(l) /\ ~instructions[l].branch /\ ~IsSplit(l)
      <4>1. Past(l) = x
        BY <2>2, <3>4, NextIsPastLast DEF EndsBlock, FallsThrough
      <4> QED
        BY <2>2, <3>1, <3>4, <4>1, NextInstructionLeads, LeaderHasBlock
    <3> QED
      BY <2>2, <2>4, <3>2, <3>3, <3>4
  <2> QED
    BY <2>3, <2>4, <2>5
<1> QED
  BY <1>1, InvImpliesReached

-----------------------------------------------------------------------------
(* The steps.                                                              *)

\* There is nothing to say about no code and no blocks.
LEMMA EmptyReport ==
    /\ start \in Word /\ offset = 0 /\ instructions = <<>>
    /\ leader = 0 /\ blocks = <<>>
    => CodeShape /\ BlocksShape
<1> SUFFICES ASSUME start \in Word, offset = 0, instructions = <<>>,
                    leader = 0, blocks = <<>>
             PROVE  CodeShape /\ BlocksShape
  OBVIOUS
<1>1. DOMAIN instructions = {} /\ DOMAIN blocks = {}
  OBVIOUS
<1>2. CodeShape
  BY <1>1 DEF CodeShape
<1> QED
  BY <1>1, <1>2 DEF BlocksShape, Range

\* A call begins with nothing decoded.
LEMMA CodeInvInit == CodeInit => CodeInv
<1> SUFFICES ASSUME CodeInit PROVE CodeInv
  OBVIOUS
<1>1. start \in Word /\ decoder \in Decoders
  BY CodeAssumption DEF CodeInit
<1>2. CodeShape /\ BlocksShape
  BY <1>1, EmptyReport DEF CodeInit
<1> QED
  BY <1>1, <1>2 DEF CodeInit, CodeInv, ReportMade

\* As long as no block is made there is nothing to say about blocks.
LEMMA NoBlocksYet == CodeShape /\ leader = 0 /\ blocks = <<>> => BlocksShape
<1> SUFFICES ASSUME CodeShape, leader = 0, blocks = <<>> PROVE BlocksShape
  OBVIOUS
<1>1. DOMAIN blocks = {}
  OBVIOUS
<1>2. \A n \in DOMAIN instructions : ~(At(n) < leader)
  BY InstructionFields
<1> QED
  BY <1>1, <1>2 DEF BlocksShape, Range

\* A step that leaves the code and the report alone.
LEMMA SameReport ==
    ASSUME CodeShape, BlocksShape,
           UNCHANGED <<start, offset, instructions, leader, blocks>>
    PROVE  CodeShape' /\ BlocksShape' /\ Ahead' = Ahead
<1>1. Leaders' = Leaders /\ End' = End
  BY DEF Leaders, End, Following
<1>2. CodeShape'
  BY DEF CodeShape, At, Past, End, Following
<1>3. ASSUME NEW block, NEW f, NEW l, NEW x, IsBlockOf(block, f, l, x)
      PROVE  IsBlockOf(block, f, l, x)'
  <2>1. At(f)' = At(f) /\ Past(l)' = Past(l) /\ At(l + 1)' = At(l + 1)
    BY DEF At, Past, Following
  <2>2. Outgoing(f, l, x)' = Outgoing(f, l, x)
    BY DEF Outgoing, Following, EndsBlock
  <2>3. IsBlock(f, l, x)'
    BY <1>1, <1>3 DEF IsBlockOf, IsBlock, IsNext, EndsBlock, At
  <2> QED
    BY <1>3, <2>1, <2>2, <2>3 DEF IsBlockOf
<1>4. BlocksShape'
  BY <1>1, <1>3 DEF BlocksShape, At
<1>5. Ahead' = Ahead
  BY <1>1 DEF Ahead
<1> QED
  BY <1>2, <1>4, <1>5

\* One more instruction is decoded behind the others.
LEMMA CodeGrows ==
    ASSUME CodeShape, NEW i \in InstructionSet, i.address = start + offset,
           i.call => ~i.terminal,
           instructions' = Append(instructions, i), offset' = offset + i.size,
           start' = start
    PROVE  CodeShape'
<1> DEFINE len == Len(instructions)
           code == instructions'
           AtNew(n) == code[n].address
           PastNew(n) == code[n].address + code[n].size
           end == End'
<1>1. /\ len \in Nat /\ DOMAIN instructions = 1..len /\ start \in Nat /\ End \in Nat
      /\ offset \in Nat
  BY EndIsNatural DEF CodeShape
<1>2. i.size \in Nat /\ i.size > 0 /\ i.address = End /\ Following(i) = End + i.size
  BY <1>1 DEF InstructionSet, End, Following
<1>3. /\ code \in Seq(InstructionSet)
      /\ Len(code) = len + 1
      /\ DOMAIN code = 1..(len + 1)
      /\ code[len + 1] = i
      /\ \A n \in 1..len : code[n] = instructions[n]
  BY AppendProperties, LenProperties DEF CodeShape
<1>4. end = End + i.size /\ offset' \in Nat /\ start' \in Word
  BY <1>1, <1>2 DEF End, CodeShape
<1>5. /\ AtNew(len + 1) = End /\ PastNew(len + 1) = end
      /\ \A n \in 1..len : AtNew(n) = At(n) /\ PastNew(n) = Past(n)
  BY <1>2, <1>3, <1>4 DEF At, Past, Following
<1> HIDE DEF AtNew, PastNew, code, end
<1>6. \A n \in 1..len : At(n) \in Nat /\ Past(n) \in Nat
  BY <1>1, InstructionFields
<1>7. ASSUME NEW n \in DOMAIN code
      PROVE  /\ start <= AtNew(n) /\ AtNew(n) < PastNew(n) /\ PastNew(n) <= end
             /\ code[n].call => ~code[n].terminal
             /\ n + 1 \in DOMAIN code => AtNew(n + 1) = PastNew(n)
  <2>1. CASE n \in 1..len
    <3>1. /\ start <= At(n) /\ At(n) < Past(n) /\ Past(n) <= End
          /\ instructions[n].call => ~instructions[n].terminal
          /\ n + 1 \in DOMAIN instructions => At(n + 1) = Past(n)
      BY <1>1, <2>1 DEF CodeShape
    <3>2. start <= AtNew(n) /\ AtNew(n) < PastNew(n) /\ PastNew(n) <= end
      BY <1>1, <1>2, <1>4, <1>5, <1>6, <2>1, <3>1, SMTT(30)
    <3>3. code[n].call => ~code[n].terminal
      BY <1>3, <2>1, <3>1
    <3>4. CASE n + 1 \in 1..len
      BY <1>1, <1>5, <2>1, <3>1, <3>2, <3>3, <3>4
    <3>5. CASE n + 1 \notin 1..len
      <4>1. n = len /\ len # 0
        BY <1>1, <2>1, <3>5
      <4>2. instructions # <<>>
        BY <4>1
      <4>3. Past(n) = End
        BY <4>1, <4>2 DEF CodeShape
      <4> QED
        BY <1>5, <2>1, <3>2, <3>3, <4>1, <4>3
    <3> QED
      BY <3>4, <3>5
  <2>2. CASE n = len + 1
    <3>1. start <= End
      BY <1>1 DEF End
    <3>2. n + 1 \notin DOMAIN code
      BY <1>1, <1>3, <2>2
    <3>3. start <= AtNew(n) /\ AtNew(n) < PastNew(n) /\ PastNew(n) <= end
      BY <1>1, <1>2, <1>4, <1>5, <2>2, <3>1, SMTT(30)
    <3>4. code[n].call => ~code[n].terminal
      BY <1>3, <2>2
    <3> QED
      BY <3>2, <3>3, <3>4
  <2> QED
    BY <1>1, <1>3, <2>1, <2>2
<1>8. ASSUME NEW m \in DOMAIN code, NEW n \in DOMAIN code, m < n
      PROVE  PastNew(m) <= AtNew(n)
  <2>1. m \in 1..len
    BY <1>1, <1>3, <1>8
  <2>2. CASE n \in 1..len
    <3>1. Past(m) <= At(n)
      BY <1>1, <1>8, <2>1, <2>2 DEF CodeShape
    <3> QED
      BY <1>5, <2>1, <2>2, <3>1
  <2>3. CASE n = len + 1
    <3>1. Past(m) <= End
      BY <1>1, <2>1 DEF CodeShape
    <3> QED
      BY <1>5, <2>1, <2>3, <3>1
  <2> QED
    BY <1>1, <1>3, <2>2, <2>3
<1>9. code # <<>> /\ AtNew(1) = start' /\ PastNew(Len(code)) = end
  <2>1. code # <<>>
    BY <1>1, <1>3
  <2>2. PastNew(Len(code)) = end
    BY <1>3, <1>5 DEF Past
  <2>3. CASE len = 0
    <3>1. instructions = <<>>
      BY <2>3, EmptySeq, LenProperties DEF CodeShape
    <3>2. offset = 0
      BY <3>1 DEF CodeShape
    <3>3. End = start
      BY <1>1, <3>2 DEF End
    <3> QED
      BY <1>5, <2>1, <2>2, <2>3, <3>3
  <2>4. CASE len # 0
    <3>1. At(1) = start
      BY <2>4 DEF CodeShape
    <3>2. 1 \in 1..len
      BY <1>1, <2>4
    <3> QED
      BY <1>5, <2>1, <2>2, <3>1, <3>2
  <2> QED
    BY <2>3, <2>4
<1> QED
  <2>1. \A n : AtNew(n) = At(n)' /\ PastNew(n) = Past(n)'
    BY DEF AtNew, PastNew, code, At, Past, Following
  <2>2. /\ start' \in Word /\ offset' \in Nat /\ code \in Seq(InstructionSet)
        /\ \A n \in DOMAIN code :
              /\ start' <= At(n)' /\ At(n)' < Past(n)' /\ Past(n)' <= end
              /\ code[n].call => ~code[n].terminal
              /\ n + 1 \in DOMAIN code => AtNew(n + 1) = Past(n)'
        /\ \A m, n \in DOMAIN code : m < n => Past(m)' <= At(n)'
        /\ code # <<>> /\ At(1)' = start' /\ PastNew(Len(code)) = end
    BY <1>3, <1>4, <1>7, <1>8, <1>9, <2>1
  <2> QED
    BY <2>2 DEF CodeShape, At, Past, Following, AtNew, PastNew, code, end

\* One more leader is grouped.
LEMMA BlocksGrow ==
    ASSUME CodeShape, BlocksShape, GroupLeader
    PROVE  CodeShape' /\ BlocksShape'
<1> DEFINE l == Least(Ahead)
<1>1. /\ UNCHANGED <<start, offset, instructions>>
      /\ leader' = l + 1 /\ Ahead # {}
  BY DEF GroupLeader
<1>2. Leaders' = Leaders /\ End' = End
  BY <1>1 DEF Leaders, End, Following
<1>3. CodeShape'
  BY <1>1 DEF CodeShape, At, Past, End, Following
<1>4. Ahead \subseteq Nat
  BY LeadersInRange DEF Ahead
<1>5. l \in Leaders /\ l \in Nat /\ l >= leader /\ leader \in Nat
      /\ \A x \in Leaders : x >= leader => l <= x
  <2>1. l \in Ahead /\ \A x \in Ahead : l <= x
    BY <1>1, <1>4, LeastIsLeast
  <2> HIDE DEF l
  <2> QED
    BY <1>4, <2>1 DEF Ahead, BlocksShape
<1> HIDE DEF l
<1> DEFINE Made(block, f, g, x) ==
              /\ IsBlock(f, g, x)'
              /\ block.begin = At(f)
              /\ block.end = Past(g)
              /\ block.count = g - f + 1
              /\ block.complete = EndsBlock(instructions[g])
              /\ block.outgoing = Outgoing(f, g, x)
           MadeOf(block) ==
              \E f \in DOMAIN instructions : \E g \in DOMAIN instructions :
                 \E x \in Nat : Made(block, f, g, x)
<1>6. ASSUME NEW f, NEW g, NEW x
      PROVE  /\ At(f)' = At(f) /\ Past(g)' = Past(g)
             /\ EndsBlock(instructions[g])' = EndsBlock(instructions[g])
             /\ Outgoing(f, g, x)' = Outgoing(f, g, x)
             /\ IsBlock(f, g, x) => IsBlock(f, g, x)'
  <2>1. At(f)' = At(f) /\ Past(g)' = Past(g)
    BY <1>1 DEF At, Past, Following
  <2>2. Outgoing(f, g, x)' = Outgoing(f, g, x)
    BY <1>1 DEF Outgoing, Following, EndsBlock
  <2>3. IsBlock(f, g, x) => IsBlock(f, g, x)'
    BY <1>1, <1>2 DEF IsBlock, IsNext, EndsBlock, At
  <2>4. EndsBlock(instructions[g])' = EndsBlock(instructions[g])
    BY <1>1 DEF EndsBlock
  <2> QED
    BY <2>1, <2>2, <2>3, <2>4
<1>7. ASSUME NEW b \in DOMAIN blocks
      PROVE  /\ blocks[b].begin \in Nat
             /\ blocks[b].begin < leader /\ blocks[b].begin < leader'
             /\ MadeOf(blocks[b])
  <2>1. PICK f \in DOMAIN instructions, g \in DOMAIN instructions, x \in Nat :
           IsBlockOf(blocks[b], f, g, x)
    BY DEF BlocksShape
  <2>2. blocks[b].begin \in Nat /\ blocks[b].begin < leader
    BY <2>1, InstructionFields DEF BlocksShape, IsBlockOf
  <2>3. blocks[b].begin < leader'
    BY <1>1, <1>5, <2>2
  <2>4. Made(blocks[b], f, g, x)
    BY <1>6, <2>1 DEF IsBlockOf
  <2> QED
    BY <2>2, <2>3, <2>4
<1>8. ASSUME NEW n \in DOMAIN instructions, At(n) \in Leaders, At(n) < leader', At(n) # l
      PROVE  \E b \in DOMAIN blocks : blocks[b].begin = At(n)
  <2>1. At(n) < leader
    BY <1>1, <1>5, <1>8, InstructionFields
  <2> QED
    BY <1>8, <2>1 DEF BlocksShape
<1>9. CASE l \notin Addresses /\ UNCHANGED blocks
  <2>1. \A n \in DOMAIN instructions : At(n) # l
    BY <1>9 DEF Addresses, At
  <2>2. \A n \in DOMAIN instructions : At(n) \in Leaders /\ At(n) < leader' =>
           \E b \in DOMAIN blocks : blocks[b].begin = At(n)
    BY <1>8, <2>1
  <2>3. leader' \in Nat
    BY <1>1, <1>5
  <2>4. \A n \in DOMAIN instructions : At(n)' = At(n)
    BY <1>1 DEF At
  <2>5. \A b, c \in DOMAIN blocks : b < c => blocks[b].begin < blocks[c].begin
    BY DEF BlocksShape
  <2>6. blocks' = blocks /\ blocks \in Seq(Range(blocks))
    BY <1>9 DEF BlocksShape
  <2>7. \A b \in DOMAIN blocks :
           /\ blocks[b].begin < leader'
           /\ \E f \in DOMAIN instructions : \E g \in DOMAIN instructions :
                 \E z \in Nat : IsBlockOf(blocks[b], f, g, z)'
    <3>1. ASSUME NEW b \in DOMAIN blocks, NEW f, NEW g, NEW z,
                 Made(blocks[b], f, g, z)
          PROVE  IsBlockOf(blocks[b], f, g, z)'
      BY <1>6, <2>6, <3>1 DEF IsBlockOf
    <3> QED
      BY <1>7, <3>1
  <2>8. \A b \in DOMAIN (blocks') :
           /\ blocks'[b].begin < leader'
           /\ \E f \in DOMAIN (instructions') : \E g \in DOMAIN (instructions') :
                 \E z \in Nat : IsBlockOf(blocks[b], f, g, z)'
    BY <1>1, <2>6, <2>7
  <2>9. \A k \in DOMAIN (instructions') : At(k)' \in Leaders' /\ At(k)' < leader' =>
           \E b \in DOMAIN (blocks') : blocks'[b].begin = At(k)'
    BY <1>1, <1>2, <2>2, <2>4, <2>6
  <2>10. BlocksShape'
    BY <2>3, <2>5, <2>6, <2>8, <2>9 DEF BlocksShape
  <2> QED
    BY <1>3, <2>10
<1>10. ASSUME NEW n \in DOMAIN instructions, At(n) = l,
              blocks' = Append(blocks, BlockAt(n, NextLeader(l)))
       PROVE  BlocksShape'
  <2> DEFINE x == NextLeader(l)
             last == LastOf(n, x)
             made == BlockAt(n, x)
             len == Len(blocks)
  <2>1. x \in Nat /\ IsNext(At(n), x)
    BY <1>5, <1>10, NextLeaderIsNext
  <2>2. IsBlock(n, last, x)
    BY <1>5, <1>10, <2>1, LastOfIsLast
  <2>3. last \in DOMAIN instructions
    BY <2>2, InstructionFields, EndIsNatural DEF IsBlock
  <2>4. IsBlockOf(made, n, last, x)
    BY <2>2 DEF IsBlockOf, BlockAt, At, Past
  <2>5. made.begin = l
    BY <1>10, <2>4 DEF IsBlockOf
  <2> HIDE DEF x, last, made
  <2>6. /\ len \in Nat /\ DOMAIN blocks = 1..len
        /\ blocks' = Append(blocks, made)
    BY <1>10, LenProperties DEF BlocksShape, made, x
  <2>7. /\ Len(blocks') = len + 1 /\ DOMAIN (blocks') = 1..(len + 1)
        /\ blocks'[len + 1] = made /\ \A b \in 1..len : blocks'[b] = blocks[b]
    <3> DEFINE R == Range(blocks) \cup {made}
    <3>1. blocks \in Seq(R) /\ made \in R
      BY SeqMonotonic DEF BlocksShape
    <3> HIDE DEF R
    <3> QED
      BY <2>6, <3>1, AppendProperties, LenProperties
  <2>8. blocks' \in Seq(Range(blocks'))
    <3> DEFINE R == Range(blocks) \cup {made}
    <3>1. blocks \in Seq(R) /\ made \in R
      BY SeqMonotonic DEF BlocksShape
    <3> HIDE DEF R
    <3>2. blocks' \in Seq(R)
      BY <2>6, <3>1, AppendProperties
    <3> QED
      BY <3>2, SeqOfRange
  <2>9. ASSUME NEW b \in DOMAIN (blocks')
        PROVE  /\ blocks'[b].begin < leader'
               /\ MadeOf(blocks'[b])
    <3>1. CASE b \in 1..len
      BY <1>7, <2>6, <2>7, <3>1
    <3>2. CASE b = len + 1
      <4>1. blocks'[b] = made
        BY <2>7, <3>2
      <4>2. PICK k, z : k = last /\ z = x
        OBVIOUS
      <4>3. IsBlockOf(made, n, k, z) /\ k \in DOMAIN instructions /\ z \in Nat
        BY <2>1, <2>3, <2>4, <4>2
      <4>4. Made(made, n, k, z)
        BY <1>6, <4>3 DEF IsBlockOf
      <4>5. blocks'[b].begin < leader'
        BY <1>1, <1>5, <2>5, <4>1
      <4> QED
        BY <4>1, <4>3, <4>4, <4>5
    <3> QED
      BY <2>6, <2>7, <3>1, <3>2
  <2>10. ASSUME NEW b \in DOMAIN (blocks'), NEW c \in DOMAIN (blocks'), b < c
         PROVE  blocks'[b].begin < blocks'[c].begin
    <3>1. b \in 1..len /\ blocks'[b] = blocks[b]
      BY <2>6, <2>7, <2>10
    <3>2. CASE c \in 1..len
      BY <2>6, <2>7, <2>10, <3>1, <3>2 DEF BlocksShape
    <3>3. CASE c = len + 1
      <4>1. blocks[b].begin \in Nat /\ blocks[b].begin < leader
        BY <1>7, <2>6, <3>1
      <4>2. blocks'[c].begin = l
        BY <2>5, <2>7, <3>3
      <4> QED
        BY <1>5, <3>1, <4>1, <4>2
    <3> QED
      BY <2>6, <2>7, <3>2, <3>3
  <2>11. ASSUME NEW k \in DOMAIN instructions, At(k) \in Leaders, At(k) < leader'
         PROVE  \E b \in DOMAIN (blocks') : blocks'[b].begin = At(k)
    <3>1. CASE At(k) = l
      <4>1. len + 1 \in DOMAIN (blocks') /\ blocks'[len + 1].begin = l
        BY <2>5, <2>6, <2>7
      <4> QED
        BY <3>1, <4>1
    <3>2. CASE At(k) # l
      <4>1. PICK b \in DOMAIN blocks : blocks[b].begin = At(k)
        BY <1>8, <2>11, <3>2
      <4>2. b \in DOMAIN (blocks') /\ blocks'[b] = blocks[b]
        BY <2>6, <2>7, <4>1
      <4> QED
        BY <4>1, <4>2
    <3> QED
      BY <3>1, <3>2
  <2>12. leader' \in Nat
    BY <1>1, <1>5
  <2>13. \A k \in DOMAIN instructions : At(k)' = At(k)
    BY <1>1 DEF At
  <2>14. \A b \in DOMAIN (blocks') :
            /\ blocks'[b].begin < leader'
            /\ \E f \in DOMAIN instructions : \E g \in DOMAIN instructions :
                  \E z \in Nat : IsBlockOf(blocks[b], f, g, z)'
    <3>1. ASSUME NEW b \in DOMAIN (blocks'), NEW f, NEW g, NEW z,
                 Made(blocks'[b], f, g, z)
          PROVE  IsBlockOf(blocks[b], f, g, z)'
      BY <1>6, <3>1 DEF IsBlockOf
    <3> QED
      BY <2>9, <3>1
  <2>15. \A b \in DOMAIN (blocks') :
            /\ blocks'[b].begin < leader'
            /\ \E f \in DOMAIN (instructions') : \E g \in DOMAIN (instructions') :
                  \E z \in Nat : IsBlockOf(blocks[b], f, g, z)'
    BY <1>1, <2>14
  <2>16. \A k \in DOMAIN (instructions') : At(k)' \in Leaders' /\ At(k)' < leader' =>
            \E b \in DOMAIN (blocks') : blocks'[b].begin = At(k)'
    BY <1>1, <1>2, <2>11, <2>13
  <2> QED
    BY <2>8, <2>10, <2>12, <2>15, <2>16 DEF BlocksShape
<1>11. BlocksShape'
  BY <1>9, <1>10 DEF GroupLeader, l, At
<1> QED
  BY <1>3, <1>11

\* Every step keeps the invariant.
LEMMA CodeInvNext == CodeInv /\ [CodeNext]_code_vars => CodeInv'
<1> SUFFICES ASSUME CodeInv, [CodeNext]_code_vars PROVE CodeInv'
  OBVIOUS
<1> USE DEF CodeInv
<1>1. CASE DecodeOne
  <2>1. leader = 0 /\ blocks = <<>>
    BY <1>1 DEF DecodeOne
  <2>2. CASE Overflow
    <3>1. CodeShape' /\ BlocksShape'
      BY <2>2, SameReport DEF Overflow
    <3> QED
      BY <2>2, <3>1 DEF Overflow, ReportMade
  <2>3. CASE /\ \E shape \in decoder.shapes :
                   /\ offset' = offset + shape.size
                   /\ \E i \in Decodable(shape, start + offset) :
                         instructions' = Append(instructions, i)
             /\ UNCHANGED <<code_stage, decoder, code_error, start, leader, blocks>>
    <3>1. PICK shape \in decoder.shapes :
             /\ offset' = offset + shape.size
             /\ \E i \in Decodable(shape, start + offset) :
                   instructions' = Append(instructions, i)
      BY <2>3
    <3>2. PICK i \in Decodable(shape, start + offset) :
             instructions' = Append(instructions, i)
      BY <3>1
    <3>3. start + offset \in Nat
      BY EndIsNatural DEF End
    <3>4. /\ i \in InstructionSet /\ i.address = start + offset
          /\ i.size = shape.size /\ (i.call => ~i.terminal)
      BY <3>3, DecodedInstruction
    <3>5. CodeShape'
      BY <2>3, <3>1, <3>2, <3>4, CodeGrows
    <3>6. leader' = 0 /\ blocks' = <<>> /\ code_stage' = "decoding"
      BY <1>1, <2>1, <2>3 DEF DecodeOne
    <3>7. BlocksShape'
      <4>1. (CodeShape /\ leader = 0 /\ blocks = <<>> => BlocksShape)'
        BY NoBlocksYet, PTL
      <4> QED
        BY <3>5, <3>6, <4>1
    <3> QED
      BY <2>3, <3>5, <3>6, <3>7 DEF ReportMade
  <2>4. CASE /\ code_stage' = "grouping"
             /\ UNCHANGED <<offset, instructions, decoder, code_error, start, leader, blocks>>
    <3>1. CodeShape' /\ BlocksShape'
      BY <2>4, SameReport
    <3> QED
      BY <2>1, <2>4, <3>1 DEF ReportMade
  <2> QED
    BY <1>1, <2>2, <2>3, <2>4 DEF DecodeOne
<1>2. CASE StopDecoding
  <2>1. CodeShape' /\ BlocksShape'
    BY <1>2, SameReport DEF StopDecoding
  <2> QED
    BY <1>2, <2>1 DEF StopDecoding, ReportMade
<1>3. CASE BeginGrouping
  <2>1. CodeShape' /\ BlocksShape'
    BY <1>3, SameReport DEF BeginGrouping, Overflow
  <2> QED
    BY <1>3, <2>1 DEF BeginGrouping, Overflow, ReportMade
<1>4. CASE GroupLeader
  <2>1. CodeShape' /\ BlocksShape'
    BY <1>4, BlocksGrow
  <2>2. code_stage' = "grouping"
    BY <1>4 DEF GroupLeader
  <2>3. decoder' = decoder
    BY <1>4 DEF GroupLeader
  <2> QED
    BY <2>1, <2>2, <2>3 DEF ReportMade
<1>5. CASE ReturnReport
  <2>1. CodeShape' /\ BlocksShape' /\ Ahead' = Ahead
    BY <1>5, SameReport DEF ReturnReport
  <2> QED
    BY <1>5, <2>1 DEF ReturnReport
<1>6. CASE AnalyzeAgain
  <2>1. start' \in Word
    BY <1>6, CodeAssumption DEF AnalyzeAgain
  <2>2. CodeShape' /\ BlocksShape'
    <3>1. (/\ start \in Word /\ offset = 0 /\ instructions = <<>>
           /\ leader = 0 /\ blocks = <<>>
           => CodeShape /\ BlocksShape)'
      BY EmptyReport, PTL
    <3> QED
      BY <1>6, <2>1, <3>1 DEF AnalyzeAgain
  <2> QED
    BY <1>6, <2>2 DEF AnalyzeAgain, ReportMade
<1>7. CASE UNCHANGED code_vars
  <2>1. CodeShape' /\ BlocksShape' /\ Ahead' = Ahead
    BY <1>7, SameReport DEF code_vars
  <2> QED
    BY <1>7, <2>1 DEF code_vars, ReportMade
<1> QED
  BY <1>1, <1>2, <1>3, <1>4, <1>5, <1>6, <1>7 DEF CodeNext

\* The instructions lie side by side and the blocks are those of the leaders
\* (DisassemblyAnalyzer::analyze).
THEOREM CodeIsInvariant == CodeSpec => []CodeInv
BY CodeInvInit, CodeInvNext, PTL DEF CodeSpec

\* Basic blocks are disjoint runs of whole instructions, entered at the first
\* and left at the last, for every decoder and code of any size at any address
\* (DisassemblyAnalyzer::analyze).
THEOREM BlocksAreBasicAlways == CodeSpec => []BlocksAreBasic
<1>1. CodeInv => BlocksAreBasic
  BY InvImpliesBasic DEF CodeInv
<1> QED
  BY <1>1, CodeIsInvariant, PTL

\* The instructions that control reaches from the first one, from jumps and by
\* falling through are those in blocks, and the edges of the blocks are where
\* control leads, no more and no less (DisassemblyAnalyzer::analyze).
THEOREM ControlFlowIsAlwaysCovered == CodeSpec => []ControlFlowIsCovered
<1>1. CodeInv => ControlFlowIsCovered
  BY InvImpliesCovered DEF CodeInv
<1> QED
  BY <1>1, CodeIsInvariant, PTL

-----------------------------------------------------------------------------
(* The section graph: SectionGraphAnalyzer::analyze.  V is the set of      *)
(* sections, out[x] the targets of x, R the pairs that paths connect.      *)

\* What the search needs to know of paths.
PathsAre(V, out, R) ==
    /\ out \in [V -> Seq(V)]
    /\ \A x \in V : <<x, x>> \in R
    /\ \A x \in V : \A e \in 1..Len(out[x]) : <<x, out[x][e]>> \in R
    /\ \A x, y, z \in V : <<x, y>> \in R /\ <<y, z>> \in R => <<x, z>> \in R
    /\ \A S \in SUBSET V :
          (\A x \in S : \A e \in 1..Len(out[x]) : out[x][e] \in S) =>
             \A x, y \in V : <<x, y>> \in R /\ x \in S => y \in S

\* A section is open when it was visited and is in no component yet.
IsOpenNode(idx, closed, x) == idx[x] >= 0 /\ x \notin closed

\* The frame k is the last one that was entered not after x: x was first seen
\* in it, or in calls that it made and that have returned.
Owns(idx, frm, k, x) ==
    /\ idx[frm[k].node] <= idx[x]
    /\ \A l \in (k + 1)..Len(frm) : idx[x] < idx[frm[l].node]

\* The loop over the targets of x is behind target e.
Passed(frm, x, e) == \A k \in 1..Len(frm) : frm[k].node = x => e < frm[k].edge

\* The sections that were visited have numbers of their own, below the next one.
NumbersOK(V, idx, nxt, closed) ==
    /\ idx \in [V -> Int] /\ nxt \in Nat
    /\ closed \subseteq V /\ \A x \in closed : idx[x] >= 0
    /\ \A x \in V : idx[x] < nxt
    /\ \A x, y \in V : idx[x] >= 0 /\ idx[x] = idx[y] => x = y

\* The open sections are on the stack, in the order in which they were entered.
StackOK(V, idx, stk, closed) ==
    /\ stk \in Seq(V)
    /\ \A i \in 1..Len(stk) : IsOpenNode(idx, closed, stk[i])
    /\ \A x \in V : IsOpenNode(idx, closed, x) => \E i \in 1..Len(stk) : stk[i] = x
    /\ \A i, j \in 1..Len(stk) : i < j => idx[stk[i]] < idx[stk[j]]

\* The active calls are a path of the graph.
FramesOK(V, out, idx, frm, closed) ==
    /\ frm \in Seq([node : V, edge : Nat])
    /\ \A k \in 1..Len(frm) : IsOpenNode(idx, closed, frm[k].node) /\ frm[k].edge >= 1
    /\ \A k, l \in 1..Len(frm) : k < l => idx[frm[k].node] < idx[frm[l].node]
    /\ \A k \in 1..(Len(frm) - 1) :
          /\ frm[k].edge \in 1..Len(out[frm[k].node])
          /\ out[frm[k].node][frm[k].edge] = frm[k + 1].node

\* No edge leaves the components, and the targets behind a loop were visited.
EdgesOK(V, out, idx, frm, closed) ==
    /\ \A x \in closed : \A e \in 1..Len(out[x]) : out[x][e] \in closed
    /\ \A x \in V : IsOpenNode(idx, closed, x) =>
          \A e \in 1..Len(out[x]) : Passed(frm, x, e) => idx[out[x][e]] >= 0

\* An active call reaches all that was entered after it, and an open section
\* the call that owns it.
ReachOK(V, R, idx, frm, closed) ==
    /\ \A x \in V : IsOpenNode(idx, closed, x) =>
          \E k \in 1..Len(frm) : Owns(idx, frm, k, x) /\ <<x, frm[k].node>> \in R
    /\ \A k \in 1..Len(frm) : \A x \in V :
          IsOpenNode(idx, closed, x) /\ idx[frm[k].node] <= idx[x] =>
             <<frm[k].node, x>> \in R

\* The low link of an active call is the number of an open section that it
\* reaches, and not above any that the sections it owns refer to.
LowOK(V, out, R, idx, low, frm, closed) ==
    /\ low \in [V -> Int]
    /\ \A k \in 1..Len(frm) :
          /\ low[frm[k].node] <= idx[frm[k].node]
          /\ \E y \in V : /\ IsOpenNode(idx, closed, y)
                          /\ idx[y] = low[frm[k].node]
                          /\ <<frm[k].node, y>> \in R
    /\ \A k \in 1..Len(frm) : \A x \in V :
          IsOpenNode(idx, closed, x) /\ Owns(idx, frm, k, x) =>
             \A e \in 1..Len(out[x]) :
                Passed(frm, x, e) /\ IsOpenNode(idx, closed, out[x][e]) =>
                   low[frm[k].node] <= idx[out[x][e]]

\* What holds of the search between two steps.
SearchOK(V, out, R, idx, low, stk, nxt, frm, closed) ==
    /\ NumbersOK(V, idx, nxt, closed)
    /\ StackOK(V, idx, stk, closed)
    /\ FramesOK(V, out, idx, frm, closed)
    /\ EdgesOK(V, out, idx, frm, closed)
    /\ ReachOK(V, R, idx, frm, closed)
    /\ LowOK(V, out, R, idx, low, frm, closed)

-----------------------------------------------------------------------------
(* A call of strong_connect for a section that was not visited.            *)

\* The numbers after section n was entered.
Entered(V, idx, idx2, nxt, closed, n) ==
    /\ idx2[n] = nxt /\ nxt >= 0
    /\ \A x \in V : x # n => idx2[x] = idx[x]
    /\ \A x \in V : IsOpenNode(idx, closed, x) =>
          /\ IsOpenNode(idx2, closed, x) /\ x # n
          /\ idx2[x] = idx[x] /\ idx2[x] < nxt
    /\ \A x \in V : IsOpenNode(idx2, closed, x) =>
          x = n \/ IsOpenNode(idx, closed, x)
    /\ IsOpenNode(idx2, closed, n)

\* A call of strong_connect for a section that was not visited, from the loop
\* over all sections or for the target of an edge.
LEMMA EnterNumbers ==
    ASSUME NEW V, NEW idx, NEW nxt, NEW closed, NumbersOK(V, idx, nxt, closed),
           NEW n \in V, idx[n] < 0, NEW idx2, idx2 = [idx EXCEPT ![n] = nxt]
    PROVE  /\ NumbersOK(V, idx2, nxt + 1, closed)
           /\ Entered(V, idx, idx2, nxt, closed, n)
<1>1. /\ idx \in [V -> Int] /\ nxt \in Nat /\ closed \subseteq V
      /\ \A x \in closed : idx[x] >= 0
      /\ \A x \in V : idx[x] < nxt
      /\ \A x, y \in V : idx[x] >= 0 /\ idx[x] = idx[y] => x = y
  BY DEF NumbersOK
<1>2. /\ idx2 \in [V -> Int] /\ idx2[n] = nxt
      /\ \A x \in V : x # n => idx2[x] = idx[x]
  BY <1>1
<1>3. n \notin closed
  BY <1>1
<1>4. NumbersOK(V, idx2, nxt + 1, closed)
  BY <1>1, <1>2, <1>3 DEF NumbersOK
<1>5. ASSUME NEW x \in V, IsOpenNode(idx, closed, x)
      PROVE  /\ IsOpenNode(idx2, closed, x) /\ x # n
             /\ idx2[x] = idx[x] /\ idx2[x] < nxt
  BY <1>1, <1>2, <1>5 DEF IsOpenNode
<1>6. ASSUME NEW x \in V, IsOpenNode(idx2, closed, x)
      PROVE  x = n \/ IsOpenNode(idx, closed, x)
  BY <1>2, <1>6 DEF IsOpenNode
<1>7. IsOpenNode(idx2, closed, n) /\ nxt >= 0
  BY <1>1, <1>2, <1>3 DEF IsOpenNode
<1> QED
  BY <1>2, <1>4, <1>5, <1>6, <1>7, Zenon DEF Entered

\* The section of a new call is the last one of the stack.
LEMMA EnterStack ==
    ASSUME NEW V, NEW idx, NEW nxt, NEW closed, NumbersOK(V, idx, nxt, closed),
           NEW n \in V, idx[n] < 0, NEW idx2, idx2 = [idx EXCEPT ![n] = nxt],
           NEW stk, StackOK(V, idx, stk, closed)
    PROVE  StackOK(V, idx2, Append(stk, n), closed)
<1> DEFINE L == Len(stk)
           z == Append(stk, n)
<1>1. /\ stk \in Seq(V) /\ L \in Nat
      /\ \A i \in 1..L : stk[i] \in V /\ IsOpenNode(idx, closed, stk[i])
      /\ \A x \in V : IsOpenNode(idx, closed, x) => \E i \in 1..L : stk[i] = x
      /\ \A i, j \in 1..L : i < j => idx[stk[i]] < idx[stk[j]]
  BY DEF StackOK
<1>2. /\ z \in Seq(V) /\ Len(z) = L + 1 /\ z[L + 1] = n
      /\ \A i \in 1..L : z[i] = stk[i]
  BY <1>1
<1>3. /\ idx2[n] = nxt
      /\ \A x \in V : IsOpenNode(idx, closed, x) =>
            IsOpenNode(idx2, closed, x) /\ idx2[x] = idx[x] /\ idx2[x] < nxt
      /\ \A x \in V : IsOpenNode(idx2, closed, x) => x = n \/ IsOpenNode(idx, closed, x)
      /\ IsOpenNode(idx2, closed, n)
  <2>1. Entered(V, idx, idx2, nxt, closed, n)
    BY EnterNumbers
  <2> QED
    BY <2>1 DEF Entered
<1> HIDE DEF L, z
<1>4. \A i \in 1..(L + 1) : i \in 1..L \/ i = L + 1
  BY <1>1
<1>5. \A i \in 1..(L + 1) : IsOpenNode(idx2, closed, z[i])
  BY <1>1, <1>2, <1>3, <1>4
<1>6. ASSUME NEW x \in V, IsOpenNode(idx2, closed, x)
      PROVE  \E i \in 1..(L + 1) : z[i] = x
  <2>1. CASE x = n
    BY <1>1, <1>2, <2>1
  <2>2. CASE x # n
    <3>1. PICK i \in 1..L : stk[i] = x
      BY <1>1, <1>3, <1>6, <2>2
    <3>2. i \in 1..(L + 1)
      BY <1>1
    <3> QED
      BY <1>2, <3>1, <3>2
  <2> QED
    BY <2>1, <2>2
<1>7. ASSUME NEW i \in 1..(L + 1), NEW j \in 1..(L + 1), i < j
      PROVE  idx2[z[i]] < idx2[z[j]]
  <2>1. i \in 1..L
    BY <1>1, <1>7
  <2>2. CASE j \in 1..L
    BY <1>1, <1>2, <1>3, <1>7, <2>1, <2>2
  <2>3. CASE j = L + 1
    BY <1>1, <1>2, <1>3, <2>1, <2>3
  <2> QED
    BY <1>4, <2>2, <2>3
<1> QED
  BY <1>2, <1>5, <1>6, <1>7 DEF StackOK, z

\* The frames with the one of a call for section n.
FrameAdded(V, idx, frm, frm2, closed, n) ==
    /\ Len(frm) \in Nat /\ Len(frm2) = Len(frm) + 1
    /\ frm2[Len(frm) + 1].node = n /\ frm2[Len(frm) + 1].edge = 1
    /\ \A k \in 1..Len(frm) :
          /\ frm2[k] = frm[k] /\ frm[k].node \in V
          /\ IsOpenNode(idx, closed, frm[k].node)

\* The frame of a new call stands behind its first edge.
LEMMA FrameIsAdded ==
    ASSUME NEW V, NEW out, NEW idx, NEW closed, NEW frm,
           FramesOK(V, out, idx, frm, closed), NEW n \in V
    PROVE  LET frm2 == Append(frm, [node |-> n, edge |-> 1])
           IN  /\ frm2 \in Seq([node : V, edge : Nat])
               /\ FrameAdded(V, idx, frm, frm2, closed, n)
<1> DEFINE L == Len(frm)
           z == [node |-> n, edge |-> 1]
<1>1. /\ frm \in Seq([node : V, edge : Nat]) /\ z \in [node : V, edge : Nat]
      /\ \A k \in 1..L : IsOpenNode(idx, closed, frm[k].node)
  BY DEF FramesOK
<1>2. z.node = n /\ z.edge = 1
  OBVIOUS
<1> HIDE DEF z
<1>3. L \in Nat /\ \A k \in 1..L : frm[k] \in [node : V, edge : Nat]
  BY <1>1, LenProperties, ElementOfSeq
<1>4. /\ Append(frm, z) \in Seq([node : V, edge : Nat])
      /\ Len(Append(frm, z)) = L + 1 /\ Append(frm, z)[L + 1] = z
      /\ \A k \in 1..L : Append(frm, z)[k] = frm[k]
  BY <1>1, <1>3, AppendProperties
<1>5. FrameAdded(V, idx, frm, Append(frm, z), closed, n)
  BY <1>1, <1>2, <1>3, <1>4 DEF FrameAdded
<1> QED
  BY <1>4, <1>5 DEF z

\* The edge that the top call follows leads to n.
LeadsTo(out, frm, n) ==
    frm # <<>> => /\ frm[Len(frm)].edge \in 1..Len(out[frm[Len(frm)].node])
                  /\ out[frm[Len(frm)].node][frm[Len(frm)].edge] = n

\* The frame of the new call is on top of the others.
LEMMA EnterFrames ==
    ASSUME NEW V, NEW out, NEW idx, NEW idx2, NEW nxt, NEW closed, NEW n \in V,
           Entered(V, idx, idx2, nxt, closed, n),
           NEW frm, FramesOK(V, out, idx, frm, closed), LeadsTo(out, frm, n),
           NEW frm2, frm2 \in Seq([node : V, edge : Nat]),
           FrameAdded(V, idx, frm, frm2, closed, n)
    PROVE  FramesOK(V, out, idx2, frm2, closed)
<1> DEFINE L == Len(frm)
<1>1. L \in Nat /\ (frm # <<>> <=> L # 0)
  BY EmptySeq, LenProperties DEF FramesOK
<1>2. /\ Len(frm2) = L + 1 /\ frm2[L + 1].node = n /\ frm2[L + 1].edge = 1
      /\ \A k \in 1..L : /\ frm2[k] = frm[k] /\ frm[k].node \in V
                         /\ IsOpenNode(idx, closed, frm[k].node)
  BY DEF FrameAdded
<1>3. /\ \A k, l \in 1..L : k < l => idx[frm[k].node] < idx[frm[l].node]
      /\ \A k \in 1..L : frm[k].edge >= 1
      /\ \A k \in 1..(L - 1) :
          /\ frm[k].edge \in 1..Len(out[frm[k].node])
          /\ out[frm[k].node][frm[k].edge] = frm[k + 1].node
  BY DEF FramesOK
<1>4. /\ idx2[n] = nxt
      /\ \A x \in V : IsOpenNode(idx, closed, x) =>
            IsOpenNode(idx2, closed, x) /\ idx2[x] = idx[x] /\ idx2[x] < nxt
      /\ IsOpenNode(idx2, closed, n)
  BY DEF Entered
<1>5. L # 0 => /\ frm[L].edge \in 1..Len(out[frm[L].node])
               /\ out[frm[L].node][frm[L].edge] = n
  BY <1>1 DEF LeadsTo
<1> HIDE DEF L
<1>7. \A k \in 1..(L + 1) : k \in 1..L \/ k = L + 1
  BY <1>1
<1>8. ASSUME NEW k \in 1..(L + 1)
      PROVE  IsOpenNode(idx2, closed, frm2[k].node) /\ frm2[k].edge >= 1
  BY <1>2, <1>3, <1>4, <1>7
<1>9. ASSUME NEW k \in 1..(L + 1), NEW l \in 1..(L + 1), k < l
      PROVE  idx2[frm2[k].node] < idx2[frm2[l].node]
  <2>1. k \in 1..L
    BY <1>1, <1>9
  <2>2. CASE l \in 1..L
    BY <1>2, <1>3, <1>4, <1>9, <2>1, <2>2
  <2>3. CASE l = L + 1
    BY <1>2, <1>4, <2>1, <2>3
  <2> QED
    BY <1>7, <2>2, <2>3
<1>10. ASSUME NEW k \in 1..L
       PROVE  /\ frm2[k].edge \in 1..Len(out[frm2[k].node])
              /\ out[frm2[k].node][frm2[k].edge] = frm2[k + 1].node
  <2>1. CASE k \in 1..(L - 1)
    <3>1. k + 1 \in 1..L
      BY <1>1, <2>1
    <3> QED
      BY <1>2, <1>3, <2>1, <3>1
  <2>2. CASE k = L
    BY <1>1, <1>2, <1>5, <2>2
  <2> QED
    BY <1>1, <2>1, <2>2
<1>11. (L + 1) - 1 = L
  BY <1>1
<1> QED
  BY <1>2, <1>8, <1>9, <1>10, <1>11 DEF FramesOK

\* A new call changes nothing of what was found.
LEMMA EnterKeeps ==
    ASSUME NEW V, NEW out, NEW R, PathsAre(V, out, R),
           NEW idx, NEW low, NEW stk, NEW nxt, NEW frm, NEW closed,
           SearchOK(V, out, R, idx, low, stk, nxt, frm, closed),
           NEW n \in V, idx[n] < 0, LeadsTo(out, frm, n)
    PROVE  SearchOK(V, out, R, [idx EXCEPT ![n] = nxt], [low EXCEPT ![n] = nxt],
                    Append(stk, n), nxt + 1,
                    Append(frm, [node |-> n, edge |-> 1]), closed)
<1> DEFINE L == Len(frm)
           idx2 == [idx EXCEPT ![n] = nxt]
           low2 == [low EXCEPT ![n] = nxt]
           frm2 == Append(frm, [node |-> n, edge |-> 1])
           open(x) == IsOpenNode(idx, closed, x)
           open2(x) == IsOpenNode(idx2, closed, x)
<1>1. /\ NumbersOK(V, idx, nxt, closed) /\ StackOK(V, idx, stk, closed)
      /\ FramesOK(V, out, idx, frm, closed) /\ EdgesOK(V, out, idx, frm, closed)
      /\ ReachOK(V, R, idx, frm, closed) /\ LowOK(V, out, R, idx, low, frm, closed)
  BY DEF SearchOK
<1>2. /\ NumbersOK(V, idx2, nxt + 1, closed)
      /\ idx2[n] = nxt /\ nxt >= 0
      /\ \A x \in V : x # n => idx2[x] = idx[x]
      /\ \A x \in V : open(x) =>
            open2(x) /\ x # n /\ idx2[x] = idx[x] /\ idx2[x] < nxt
      /\ \A x \in V : open2(x) => x = n \/ open(x)
      /\ open2(n)
  <2>1. NumbersOK(V, idx2, nxt + 1, closed) /\ Entered(V, idx, idx2, nxt, closed, n)
    BY <1>1, EnterNumbers
  <2> QED
    BY <2>1, Zenon DEF Entered
<1>3. StackOK(V, idx2, Append(stk, n), closed)
  BY <1>1, EnterStack
<1>4. /\ FramesOK(V, out, idx2, frm2, closed)
      /\ L \in Nat /\ Len(frm2) = L + 1
      /\ frm2[L + 1].node = n /\ frm2[L + 1].edge = 1
      /\ \A k \in 1..L : frm2[k] = frm[k] /\ frm[k].node \in V /\ open(frm[k].node)
  <2>1. Entered(V, idx, idx2, nxt, closed, n)
    BY <1>1, EnterNumbers
  <2>2. /\ frm2 \in Seq([node : V, edge : Nat])
        /\ FrameAdded(V, idx, frm, frm2, closed, n)
    BY <1>1, FrameIsAdded
  <2>3. FramesOK(V, out, idx2, frm2, closed)
    BY <1>1, <2>1, <2>2, EnterFrames
  <2> QED
    BY <2>2, <2>3 DEF FrameAdded
<1>5. /\ out \in [V -> Seq(V)]
      /\ \A x \in V : Len(out[x]) \in Nat /\ \A e \in 1..Len(out[x]) : out[x][e] \in V
      /\ \A x \in V : <<x, x>> \in R
      /\ \A x \in V : \A e \in 1..Len(out[x]) : <<x, out[x][e]>> \in R
      /\ \A x, y, z \in V : <<x, y>> \in R /\ <<y, z>> \in R => <<x, z>> \in R
  BY DEF PathsAre
<1>6. /\ idx \in [V -> Int] /\ nxt \in Nat /\ low \in [V -> Int]
      /\ low2 \in [V -> Int] /\ low2[n] = nxt
      /\ \A x \in V : x # n => low2[x] = low[x]
  BY <1>1 DEF NumbersOK, LowOK
<1>7. frm # <<>> => /\ L \in 1..L /\ frm[L].edge \in 1..Len(out[frm[L].node])
                    /\ out[frm[L].node][frm[L].edge] = n
  <2>1. frm # <<>> => L # 0
    BY <1>1, EmptySeq DEF FramesOK
  <2> QED
    BY <1>4, <2>1 DEF LeadsTo
<1> HIDE DEF L, idx2, low2, frm2
<1>8. \A k \in 1..(L + 1) : k \in 1..L \/ k = L + 1
  BY <1>4
<1>9. ASSUME NEW x \in V, open(x), NEW k \in 1..L
      PROVE  Owns(idx2, frm2, k, x) <=> Owns(idx, frm, k, x)
  <2>1. frm2[k] = frm[k] /\ frm[k].node \in V /\ idx2[frm[k].node] = idx[frm[k].node]
    BY <1>2, <1>4
  <2>2. idx2[x] = idx[x] /\ idx2[x] < nxt
    BY <1>2, <1>9
  <2>3. ASSUME NEW l \in (k + 1)..L
        PROVE  idx2[frm2[l].node] = idx[frm[l].node] /\ l \in 1..L
    BY <1>2, <1>4
  <2>4. idx2[x] < idx2[frm2[L + 1].node]
    BY <1>2, <1>4, <2>2
  <2>5. \A l \in (k + 1)..(L + 1) : l \in (k + 1)..L \/ l = L + 1
    BY <1>4
  <2>6. (k + 1)..L \subseteq (k + 1)..(L + 1)
    BY <1>4
  <2> QED
    BY <1>4, <2>1, <2>2, <2>3, <2>4, <2>5, <2>6 DEF Owns, L
<1>10. ASSUME NEW x \in V, open(x), NEW e
       PROVE  Passed(frm2, x, e) <=> Passed(frm, x, e)
  <2>1. x # n
    BY <1>2, <1>10
  <2> QED
    BY <1>4, <1>8, <2>1 DEF Passed, L
<1>11. ASSUME NEW e \in Nat, e >= 1 PROVE ~Passed(frm2, n, e)
  BY <1>4, <1>11 DEF Passed
<1>12. EdgesOK(V, out, idx2, frm2, closed)
  <2>1. ASSUME NEW x \in V, open2(x), NEW e \in 1..Len(out[x]), Passed(frm2, x, e)
        PROVE  idx2[out[x][e]] >= 0
    <3>1. x # n
      BY <1>5, <1>11, <2>1
    <3>2. idx[out[x][e]] >= 0
      BY <1>1, <1>2, <1>10, <2>1, <3>1 DEF EdgesOK
    <3> QED
      BY <1>2, <1>5, <3>2
  <2> QED
    BY <1>1, <2>1 DEF EdgesOK
<1>13. ReachOK(V, R, idx2, frm2, closed)
  <2>1. ASSUME NEW x \in V, open2(x)
        PROVE  \E k \in 1..(L + 1) : Owns(idx2, frm2, k, x) /\ <<x, frm2[k].node>> \in R
    <3>1. CASE x = n
      <4>1. Owns(idx2, frm2, L + 1, x)
        <5>1. (L + 1 + 1)..(L + 1) = {} /\ idx2[x] \in Int /\ idx2[x] = nxt
          BY <1>2, <1>4, <1>6, <3>1
        <5> QED
          BY <1>4, <1>6, <3>1, <5>1 DEF Owns
      <4> QED
        BY <1>4, <1>5, <3>1, <4>1
    <3>2. CASE x # n
      <4>1. PICK k \in 1..L : Owns(idx, frm, k, x) /\ <<x, frm[k].node>> \in R
        BY <1>1, <1>2, <2>1, <3>2 DEF ReachOK, L
      <4>2. k \in 1..(L + 1)
        BY <1>4
      <4> QED
        BY <1>2, <1>4, <1>9, <2>1, <3>2, <4>1, <4>2
    <3> QED
      BY <3>1, <3>2
  <2>2. ASSUME NEW k \in 1..(L + 1), NEW x \in V, open2(x),
               idx2[frm2[k].node] <= idx2[x]
        PROVE  <<frm2[k].node, x>> \in R
    <3>1. CASE k = L + 1
      <4>1. x = n
        BY <1>2, <1>4, <1>6, <2>2, <3>1
      <4> QED
        BY <1>4, <1>5, <3>1, <4>1
    <3>2. CASE k \in 1..L /\ x # n
      BY <1>1, <1>2, <1>4, <2>2, <3>2 DEF ReachOK, L
    <3>3. CASE k \in 1..L /\ x = n
      <4>1. L \in 1..L /\ frm # <<>>
        BY <1>4, <3>3 DEF L
      <4>2. <<frm[L].node, n>> \in R
        <5>1. /\ frm[L].node \in V /\ frm[L].edge \in 1..Len(out[frm[L].node])
              /\ out[frm[L].node][frm[L].edge] = n
          BY <1>4, <1>7, <4>1
        <5>2. <<frm[L].node, out[frm[L].node][frm[L].edge]>> \in R
          BY <1>5, <5>1
        <5> QED
          BY <5>1, <5>2
      <4>3. idx[frm[k].node] <= idx[frm[L].node]
        <5>1. CASE k = L
          BY <1>4, <1>6, <4>1, <5>1
        <5>2. CASE k < L
          <6>1. idx[frm[k].node] < idx[frm[L].node]
            BY <1>1, <3>3, <4>1, <5>2 DEF FramesOK, L
          <6>2. idx[frm[k].node] \in Int /\ idx[frm[L].node] \in Int
            BY <1>4, <1>6, <3>3, <4>1
          <6> QED
            BY <6>1, <6>2
        <5> QED
          BY <1>4, <3>3, <5>1, <5>2
      <4>4. <<frm[k].node, frm[L].node>> \in R
        BY <1>1, <1>4, <3>3, <4>1, <4>3 DEF ReachOK, L
      <4> QED
        BY <1>4, <1>5, <3>3, <4>1, <4>2, <4>4
    <3> QED
      BY <1>8, <3>1, <3>2, <3>3
  <2> QED
    BY <1>4, <2>1, <2>2 DEF ReachOK
<1>14. LowOK(V, out, R, idx2, low2, frm2, closed)
  <2>1. ASSUME NEW k \in 1..(L + 1)
        PROVE  /\ low2[frm2[k].node] <= idx2[frm2[k].node]
               /\ \E y \in V : /\ open2(y) /\ idx2[y] = low2[frm2[k].node]
                               /\ <<frm2[k].node, y>> \in R
    <3>1. CASE k = L + 1
      BY <1>2, <1>4, <1>5, <1>6, <3>1
    <3>2. CASE k \in 1..L
      <4>1. /\ low[frm[k].node] <= idx[frm[k].node]
            /\ \E y \in V : /\ open(y) /\ idx[y] = low[frm[k].node]
                            /\ <<frm[k].node, y>> \in R
        BY <1>1, <3>2 DEF LowOK, L
      <4>2. /\ frm2[k].node = frm[k].node /\ frm[k].node # n /\ frm[k].node \in V
            /\ idx2[frm[k].node] = idx[frm[k].node]
            /\ low2[frm[k].node] = low[frm[k].node]
        BY <1>2, <1>4, <1>6, <3>2
      <4> QED
        BY <1>2, <4>1, <4>2
    <3> QED
      BY <1>8, <3>1, <3>2
  <2>2. ASSUME NEW k \in 1..(L + 1), NEW x \in V, open2(x), Owns(idx2, frm2, k, x),
               NEW e \in 1..Len(out[x]), Passed(frm2, x, e), open2(out[x][e])
        PROVE  low2[frm2[k].node] <= idx2[out[x][e]]
    <3>1. x # n
      BY <1>5, <1>11, <2>2
    <3>2. open(x) /\ idx2[x] < nxt
      BY <1>2, <2>2, <3>1
    <3>3. k \in 1..L
      <4>1. CASE k = L + 1
        <5>1. idx2[frm2[L + 1].node] <= idx2[x]
          BY <2>2, <4>1 DEF Owns
        <5>2. nxt <= idx2[x] /\ idx2[x] \in Int
          BY <1>2, <1>4, <1>6, <3>2, <5>1
        <5> QED
          BY <1>6, <3>2, <5>2
      <4> QED
        BY <1>8, <4>1
    <3>4. Owns(idx, frm, k, x) /\ Passed(frm, x, e)
      BY <1>9, <1>10, <2>2, <3>2, <3>3
    <3>5. out[x][e] \in V /\ idx[out[x][e]] >= 0
      BY <1>1, <1>5, <3>2, <3>4 DEF EdgesOK
    <3>6. out[x][e] # n
      BY <1>6, <3>5
    <3>7. open(out[x][e])
      BY <1>2, <2>2, <3>5, <3>6
    <3>8. low[frm[k].node] <= idx[out[x][e]]
      BY <1>1, <3>2, <3>3, <3>4, <3>7 DEF LowOK, L
    <3>9. /\ frm2[k].node = frm[k].node /\ low2[frm[k].node] = low[frm[k].node]
          /\ idx2[out[x][e]] = idx[out[x][e]]
      BY <1>2, <1>4, <1>6, <3>3, <3>5, <3>6
    <3> QED
      BY <3>8, <3>9
  <2> QED
    BY <1>4, <1>6, <2>1, <2>2 DEF LowOK
<1> QED
  BY <1>2, <1>3, <1>4, <1>12, <1>13, <1>14 DEF SearchOK, idx2, low2, frm2

-----------------------------------------------------------------------------
(* Frames that move: the top one, or the caller's after a return.          *)

\* The first m frames, the last of them behind the edge it was at.
FrameMoved(V, frm, frm2, m) ==
    /\ frm2 \in Seq([node : V, edge : Nat])
    /\ m \in 0..Len(frm) /\ Len(frm2) = m
    /\ \A k \in 1..m : frm2[k].node = frm[k].node
    /\ \A k \in 1..(m - 1) : frm2[k].edge = frm[k].edge
    /\ m # 0 => frm2[m].edge = frm[m].edge + 1

\* What is known of the frames.
LEMMA FrameFields ==
    ASSUME NEW V, NEW out, NEW idx, NEW closed, NEW frm,
           FramesOK(V, out, idx, frm, closed)
    PROVE  /\ Len(frm) \in Nat
           /\ \A k \in 1..Len(frm) :
                 /\ frm[k].node \in V /\ frm[k].edge \in Nat /\ frm[k].edge >= 1
                 /\ IsOpenNode(idx, closed, frm[k].node)
           /\ frm # <<>> <=> Len(frm) # 0
<1>1. /\ frm \in Seq([node : V, edge : Nat])
      /\ \A k \in 1..Len(frm) : IsOpenNode(idx, closed, frm[k].node) /\ frm[k].edge >= 1
  BY DEF FramesOK
<1>2. Len(frm) \in Nat /\ \A k \in 1..Len(frm) : frm[k] \in [node : V, edge : Nat]
  BY <1>1, LenProperties, ElementOfSeq
<1>3. frm # <<>> <=> Len(frm) # 0
  BY <1>1, EmptySeq
<1> QED
  BY <1>1, <1>2, <1>3

\* The frames that are left are still a path of open sections.
LEMMA MovedFrames ==
    ASSUME NEW V, NEW out, NEW idx, NEW closed, NEW frm,
           FramesOK(V, out, idx, frm, closed),
           NEW frm2, NEW m, FrameMoved(V, frm, frm2, m),
           NEW closed2, \A k \in 1..m : frm[k].node \notin closed2
    PROVE  FramesOK(V, out, idx, frm2, closed2)
<1> DEFINE L == Len(frm)
<1>1. /\ L \in Nat /\ m \in 0..L /\ Len(frm2) = m
      /\ frm2 \in Seq([node : V, edge : Nat])
      /\ \A k \in 1..L : /\ frm[k].edge \in Nat /\ frm[k].edge >= 1
                         /\ IsOpenNode(idx, closed, frm[k].node)
      /\ \A k \in 1..m : frm2[k].node = frm[k].node
      /\ \A k \in 1..(m - 1) : frm2[k].edge = frm[k].edge
      /\ m # 0 => frm2[m].edge = frm[m].edge + 1
  BY FrameFields DEF FrameMoved
<1>2. /\ \A k, l \in 1..L : k < l => idx[frm[k].node] < idx[frm[l].node]
      /\ \A k \in 1..(L - 1) :
          /\ frm[k].edge \in 1..Len(out[frm[k].node])
          /\ out[frm[k].node][frm[k].edge] = frm[k + 1].node
  BY DEF FramesOK
<1> HIDE DEF L
<1>3. ASSUME NEW k \in 1..m
      PROVE  IsOpenNode(idx, closed2, frm2[k].node) /\ frm2[k].edge >= 1
  <2>1. k \in 1..L /\ (k \in 1..(m - 1) \/ k = m)
    BY <1>1
  <2>2. IsOpenNode(idx, closed2, frm2[k].node)
    BY <1>1, <2>1 DEF IsOpenNode
  <2>3. frm2[k].edge >= 1
    BY <1>1, <2>1
  <2> QED
    BY <2>2, <2>3
<1>4. ASSUME NEW k \in 1..m, NEW l \in 1..m, k < l
      PROVE  idx[frm2[k].node] < idx[frm2[l].node]
  <2>1. k \in 1..L /\ l \in 1..L
    BY <1>1
  <2>2. frm2[k].node = frm[k].node /\ frm2[l].node = frm[l].node
    BY <1>1
  <2>3. idx[frm[k].node] < idx[frm[l].node]
    BY <1>2, <1>4, <2>1
  <2> QED
    BY <2>2, <2>3
<1>5. ASSUME NEW k \in 1..(m - 1)
      PROVE  /\ frm2[k].edge \in 1..Len(out[frm2[k].node])
             /\ out[frm2[k].node][frm2[k].edge] = frm2[k + 1].node
  <2>1. k \in 1..m /\ k + 1 \in 1..m /\ k \in 1..(L - 1)
    BY <1>1
  <2> QED
    BY <1>1, <1>2, <2>1
<1> QED
  BY <1>1, <1>3, <1>4, <1>5 DEF FramesOK

\* One turn of the top loop, or a return.
Behind(V, out, idx, frm, frm2, m, closed) ==
    /\ idx \in [V -> Int] /\ FramesOK(V, out, idx, frm, closed)
    /\ FrameMoved(V, frm, frm2, m)
    /\ \/ m = Len(frm)
       \/ m = Len(frm) - 1 /\ frm[Len(frm)].edge > Len(out[frm[Len(frm)].node])

\* A loop that a frame is in has passed one more edge, no other loop has, and
\* that of a call that returns has passed all.
LEMMA MovedPassed ==
    ASSUME NEW V, NEW out, NEW idx, NEW closed, NEW frm,
           NEW frm2, NEW m, Behind(V, out, idx, frm, frm2, m, closed),
           NEW x, Len(out[x]) \in Nat, NEW e \in 1..Len(out[x]), Passed(frm2, x, e)
    PROVE  Passed(frm, x, e) \/ (m # 0 /\ x = frm[m].node /\ e = frm[m].edge)
<1> DEFINE L == Len(frm)
<1>1. /\ L \in Nat /\ m \in 0..L /\ Len(frm2) = m
      /\ \A k \in 1..L : frm[k].edge \in Nat /\ frm[k].node \in V
      /\ \A k \in 1..m : frm2[k].node = frm[k].node
      /\ \A k \in 1..(m - 1) : frm2[k].edge = frm[k].edge
      /\ m # 0 => frm2[m].edge = frm[m].edge + 1
  BY FrameFields DEF FrameMoved, Behind
<1>2. \A k, l \in 1..L : k < l => idx[frm[k].node] < idx[frm[l].node]
  BY DEF FramesOK, Behind
<1>3. \A k \in 1..m : frm2[k].node = x => e < frm2[k].edge
  BY <1>1 DEF Passed
<1> HIDE DEF L
<1>4. SUFFICES ASSUME NEW k \in 1..L, frm[k].node = x, ~(e < frm[k].edge)
               PROVE  m # 0 /\ x = frm[m].node /\ e = frm[m].edge
  BY DEF Passed, L
<1>5. CASE k \in 1..m
  <2>1. e < frm2[k].edge
    BY <1>1, <1>3, <1>4, <1>5
  <2>2. k = m
    <3>1. SUFFICES ASSUME k # m PROVE FALSE
      OBVIOUS
    <3>2. k \in 1..(m - 1)
      BY <1>1, <1>5, <3>1
    <3>3. frm2[k].edge = frm[k].edge
      BY <1>1, <3>2
    <3> QED
      BY <1>4, <2>1, <3>3
  <2>3. m # 0 /\ frm2[m].edge = frm[m].edge + 1 /\ frm[m].edge \in Nat
    BY <1>1, <1>5, <2>2
  <2>4. e \in Nat /\ e = frm[m].edge
    BY <1>4, <2>1, <2>2, <2>3
  <2> QED
    BY <1>4, <2>2, <2>3, <2>4
<1>6. CASE k \notin 1..m
  <2>1. m = L - 1 /\ k = L
    BY <1>1, <1>4, <1>6 DEF L, Behind
  <2>2. frm[L].edge > Len(out[x])
    BY <1>1, <1>4, <2>1 DEF L, Behind
  <2> QED
    BY <1>1, <1>4, <2>1, <2>2
<1> QED
  BY <1>5, <1>6

\* The top call f is behind its edge to t, and its low link is the least of
\* what it was and the number of t if that is open.
Advanced(V, out, idx, low, low2, frm, frm2, closed, f, t) ==
    /\ FrameMoved(V, frm, frm2, Len(frm)) /\ Len(frm) # 0
    /\ f = frm[Len(frm)].node /\ frm[Len(frm)].edge \in 1..Len(out[f])
    /\ t = out[f][frm[Len(frm)].edge] /\ idx[t] >= 0
    /\ low2 \in [V -> Int] /\ \A x \in V : x # f => low2[x] = low[x]
    /\ low2[f] <= low[f] /\ (t \notin closed => low2[f] <= idx[t])
    /\ low2[f] = low[f] \/ (t \notin closed /\ low2[f] = idx[t])

\* A turn of the loop of strong_connect for a target that was visited: the low
\* link is lowered to the number of the target if that is open.
LEMMA AdvanceIsSafe ==
    ASSUME NEW V, NEW out, NEW R, PathsAre(V, out, R),
           NEW idx, NEW low, NEW stk, NEW nxt, NEW frm, NEW closed,
           SearchOK(V, out, R, idx, low, stk, nxt, frm, closed),
           NEW frm2, FrameMoved(V, frm, frm2, Len(frm)), Len(frm) # 0,
           NEW f, f = frm[Len(frm)].node, frm[Len(frm)].edge \in 1..Len(out[f]),
           NEW t, t = out[f][frm[Len(frm)].edge], idx[t] >= 0,
           NEW low2, low2 \in [V -> Int], \A x \in V : x # f => low2[x] = low[x],
           low2[f] <= low[f], t \notin closed => low2[f] <= idx[t],
           low2[f] = low[f] \/ (t \notin closed /\ low2[f] = idx[t])
    PROVE  SearchOK(V, out, R, idx, low2, stk, nxt, frm2, closed)
<1> DEFINE L == Len(frm)
           open(x) == IsOpenNode(idx, closed, x)
<1>1. /\ NumbersOK(V, idx, nxt, closed) /\ StackOK(V, idx, stk, closed)
      /\ FramesOK(V, out, idx, frm, closed) /\ EdgesOK(V, out, idx, frm, closed)
      /\ ReachOK(V, R, idx, frm, closed) /\ LowOK(V, out, R, idx, low, frm, closed)
  BY DEF SearchOK
<1>2. /\ L \in Nat /\ L # 0 /\ L \in 1..L /\ Len(frm2) = L
      /\ \A k \in 1..L : /\ frm[k].node \in V /\ frm[k].edge \in Nat
                         /\ open(frm[k].node)
      /\ \A k \in 1..L : frm2[k].node = frm[k].node
  BY <1>1, FrameFields, SMTT(30) DEF FrameMoved
<1>3. /\ \A x \in V : Len(out[x]) \in Nat /\ \A e \in 1..Len(out[x]) : out[x][e] \in V
      /\ \A x \in V : \A e \in 1..Len(out[x]) : <<x, out[x][e]>> \in R
  BY DEF PathsAre
<1>4. idx \in [V -> Int] /\ low \in [V -> Int]
  BY <1>1 DEF NumbersOK, LowOK
<1>5. FramesOK(V, out, idx, frm2, closed)
  <2>1. \A k \in 1..Len(frm) : frm[k].node \notin closed
    BY <1>2 DEF IsOpenNode
  <2> QED
    BY <1>1, <2>1, MovedFrames
<1>6. ASSUME NEW x \in V, NEW e \in 1..Len(out[x]), Passed(frm2, x, e)
      PROVE  Passed(frm, x, e) \/ (x = f /\ out[x][e] = t)
  <2>1. Len(out[x]) \in Nat
    BY <1>3
  <2>2. CASE Passed(frm, x, e)
    BY <2>2
  <2>3. CASE ~Passed(frm, x, e)
    <3>1. Behind(V, out, idx, frm, frm2, L, closed)
      BY <1>1, <1>4 DEF Behind
    <3>2. x = frm[L].node /\ e = frm[L].edge
      BY <1>6, <2>1, <2>3, <3>1, MovedPassed
    <3> QED
      BY <3>2
  <2> QED
    BY <2>2, <2>3
<1>7. f \in V /\ t \in V /\ <<f, t>> \in R /\ f = frm[L].node
  BY <1>2, <1>3
<1>71. \A k \in 1..(L - 1) : idx[frm[k].node] < idx[f]
  BY <1>1, <1>2, SMTT(30) DEF FramesOK
<1> HIDE DEF L
<1>8. ASSUME NEW k \in 1..L, NEW x \in V
      PROVE  Owns(idx, frm2, k, x) <=> Owns(idx, frm, k, x)
  BY <1>2, SMTT(30) DEF Owns, L
<1>9. EdgesOK(V, out, idx, frm2, closed)
  <2>1. ASSUME NEW x \in V, open(x), NEW e \in 1..Len(out[x]), Passed(frm2, x, e)
        PROVE  idx[out[x][e]] >= 0
    BY <1>1, <1>6, <2>1 DEF EdgesOK
  <2> QED
    BY <1>1, <2>1 DEF EdgesOK
<1>10. ReachOK(V, R, idx, frm2, closed)
  <2>1. ASSUME NEW x \in V, open(x)
        PROVE  \E k \in 1..L : Owns(idx, frm2, k, x) /\ <<x, frm2[k].node>> \in R
    <3>1. PICK k \in 1..L : Owns(idx, frm, k, x) /\ <<x, frm[k].node>> \in R
      BY <1>1, <2>1 DEF ReachOK, L
    <3> QED
      BY <1>2, <1>8, <3>1
  <2>2. ASSUME NEW k \in 1..L, NEW x \in V, open(x), idx[frm2[k].node] <= idx[x]
        PROVE  <<frm2[k].node, x>> \in R
    BY <1>1, <1>2, <2>2 DEF ReachOK, L
  <2> QED
    BY <1>2, <2>1, <2>2 DEF ReachOK
<1>11. ASSUME NEW k \in 1..L, k # L PROVE frm[k].node # f
  <2>1. k \in 1..(L - 1)
    BY <1>2, <1>11
  <2>2. idx[frm[k].node] < idx[f] /\ idx[f] \in Int
    BY <1>4, <1>7, <1>71, <2>1
  <2> QED
    BY <2>2
<1>12. ASSUME NEW k \in 1..L
       PROVE  /\ low2[frm[k].node] <= idx[frm[k].node]
              /\ \E y \in V : /\ open(y) /\ idx[y] = low2[frm[k].node]
                              /\ <<frm[k].node, y>> \in R
  <2>1. /\ low[frm[k].node] <= idx[frm[k].node]
        /\ \E y \in V : /\ open(y) /\ idx[y] = low[frm[k].node]
                        /\ <<frm[k].node, y>> \in R
    BY <1>1 DEF LowOK, L
  <2>2. CASE low2[frm[k].node] = low[frm[k].node]
    BY <2>1, <2>2
  <2>3. CASE low2[frm[k].node] # low[frm[k].node]
    <3>1. /\ frm[k].node = f /\ t \notin closed /\ low2[f] = idx[t] /\ low2[f] <= low[f]
      BY <1>2, <2>3
    <3>2. open(t)
      BY <3>1 DEF IsOpenNode
    <3>3. low2[f] <= idx[f]
      BY <1>4, <1>7, <2>1, <3>1, SMTT(30)
    <3> QED
      BY <1>7, <3>1, <3>2, <3>3
  <2> QED
    BY <2>2, <2>3
<1>13. ASSUME NEW k \in 1..L, NEW x \in V, open(x), Owns(idx, frm, k, x),
              NEW e \in 1..Len(out[x]), Passed(frm2, x, e), open(out[x][e])
       PROVE  low2[frm[k].node] <= idx[out[x][e]]
  <2>1. out[x][e] \in V /\ frm[k].node \in V
    BY <1>2, <1>3
  <2>2. low2[frm[k].node] <= low[frm[k].node]
    <3>1. CASE frm[k].node = f
      BY <3>1
    <3>2. CASE frm[k].node # f
      BY <1>4, <2>1, <3>2, SMTT(30)
    <3> QED
      BY <3>1, <3>2
  <2>3. CASE Passed(frm, x, e)
    <3>1. low[frm[k].node] <= idx[out[x][e]]
      BY <1>1, <1>13, <2>3 DEF LowOK, L
    <3> QED
      BY <1>4, <2>1, <2>2, <3>1, SMTT(30)
  <2>4. CASE x = f /\ out[x][e] = t
    <3>1. k = L
      <4>1. SUFFICES ASSUME k # L PROVE FALSE
        OBVIOUS
      <4>2. L \in (k + 1)..Len(frm)
        BY <1>2, <4>1 DEF L
      <4>3. idx[f] < idx[f]
        BY <1>7, <1>13, <2>4, <4>2 DEF Owns
      <4> QED
        BY <1>4, <1>7, <4>3
    <3>2. t \notin closed
      BY <1>13, <2>4 DEF IsOpenNode
    <3> QED
      BY <1>7, <2>4, <3>1, <3>2
  <2> QED
    BY <1>6, <1>13, <2>3, <2>4
<1>14. LowOK(V, out, R, idx, low2, frm2, closed)
  <2>1. \A k \in 1..L :
          /\ low2[frm2[k].node] <= idx[frm2[k].node]
          /\ \E y \in V : /\ IsOpenNode(idx, closed, y)
                          /\ idx[y] = low2[frm2[k].node]
                          /\ <<frm2[k].node, y>> \in R
    BY <1>2, <1>12
  <2>2. \A k \in 1..L : \A x \in V :
          IsOpenNode(idx, closed, x) /\ Owns(idx, frm2, k, x) =>
             \A e \in 1..Len(out[x]) :
                Passed(frm2, x, e) /\ IsOpenNode(idx, closed, out[x][e]) =>
                   low2[frm2[k].node] <= idx[out[x][e]]
    BY <1>2, <1>8, <1>13
  <2> QED
    BY <1>2, <2>1, <2>2 DEF LowOK
<1> QED
  BY <1>1, <1>5, <1>9, <1>10, <1>14 DEF SearchOK

\* The same, for what the search takes such a turn to be.
LEMMA AdvanceKeeps ==
    ASSUME NEW V, NEW out, NEW R, PathsAre(V, out, R),
           NEW idx, NEW low, NEW stk, NEW nxt, NEW frm, NEW closed,
           SearchOK(V, out, R, idx, low, stk, nxt, frm, closed),
           NEW frm2, NEW low2, NEW f, NEW t,
           Advanced(V, out, idx, low, low2, frm, frm2, closed, f, t)
    PROVE  SearchOK(V, out, R, idx, low2, stk, nxt, frm2, closed)
  BY AdvanceIsSafe, SMTT(30) DEF Advanced

-----------------------------------------------------------------------------
(* A return: the frames below the top one, the last of them behind its     *)
(* edge.                                                                   *)

\* What the top call owned belongs to its caller now.
LEMMA ReturnOwners ==
    ASSUME NEW V, NEW out, NEW idx, NEW closed, NEW frm, NEW frm2,
           Behind(V, out, idx, frm, frm2, Len(frm) - 1, closed),
           NEW k \in 1..(Len(frm) - 1), NEW x \in V
    PROVE  /\ Owns(idx, frm, k, x) => Owns(idx, frm2, k, x)
           /\ Owns(idx, frm2, k, x) =>
                 \/ Owns(idx, frm, k, x)
                 \/ k = Len(frm) - 1 /\ Owns(idx, frm, Len(frm), x)
<1> DEFINE L == Len(frm)
<1>1. /\ L \in Nat /\ Len(frm2) = L - 1
      /\ \A l \in 1..(L - 1) : frm2[l].node = frm[l].node
      /\ \A l \in 1..L : idx[frm[l].node] \in Int
      /\ idx[x] \in Int
      /\ \A i, j \in 1..L : i < j => idx[frm[i].node] < idx[frm[j].node]
  <2>1. /\ L \in Nat /\ Len(frm2) = L - 1
        /\ \A l \in 1..(L - 1) : frm2[l].node = frm[l].node
        /\ \A l \in 1..L : frm[l].node \in V
    BY FrameFields DEF FrameMoved, Behind
  <2>2. idx \in [V -> Int]
    BY DEF Behind
  <2>3. \A i, j \in 1..L : i < j => idx[frm[i].node] < idx[frm[j].node]
    BY DEF FramesOK, Behind
  <2> QED
    BY <2>1, <2>2, <2>3
<1>2. k \in 1..L /\ k \in 1..(L - 1) /\ L \in 1..L /\ L - 1 \in 1..L
  BY <1>1
<1> HIDE DEF L
<1>3. ASSUME Owns(idx, frm, k, x) PROVE Owns(idx, frm2, k, x)
  <2>1. idx[frm2[k].node] <= idx[x]
    BY <1>1, <1>3 DEF Owns, L
  <2>2. ASSUME NEW l \in (k + 1)..(L - 1) PROVE idx[x] < idx[frm2[l].node]
    <3>1. l \in (k + 1)..L /\ l \in 1..(L - 1)
      BY <1>1, <1>2
    <3> QED
      BY <1>1, <1>3, <3>1 DEF Owns, L
  <2> QED
    BY <1>1, <2>1, <2>2 DEF Owns
<1>4. ASSUME Owns(idx, frm2, k, x)
      PROVE  Owns(idx, frm, k, x) \/ (k = L - 1 /\ Owns(idx, frm, L, x))
  <2>1. idx[frm[k].node] <= idx[x]
    BY <1>1, <1>4 DEF Owns, L
  <2>2. \A l \in (k + 1)..(L - 1) : idx[x] < idx[frm[l].node]
    <3> SUFFICES ASSUME NEW l \in (k + 1)..(L - 1)
                 PROVE  idx[x] < idx[frm[l].node]
      OBVIOUS
    <3>1. l \in 1..(L - 1) /\ l \in (k + 1)..Len(frm2)
      BY <1>1, <1>2
    <3> QED
      BY <1>1, <1>4, <3>1 DEF Owns
  <2>3. CASE idx[x] < idx[frm[L].node]
    <3>1. \A l \in (k + 1)..L : l \in (k + 1)..(L - 1) \/ l = L
      BY <1>1, <1>2
    <3>2. \A l \in (k + 1)..L : idx[x] < idx[frm[l].node]
      BY <2>2, <2>3, <3>1
    <3> QED
      BY <2>1, <3>2 DEF Owns, L
  <2>4. CASE idx[frm[L].node] <= idx[x]
    <3>1. (L + 1)..L = {}
      BY <1>1
    <3>2. Owns(idx, frm, L, x)
      BY <2>4, <3>1 DEF Owns, L
    <3>3. k = L - 1
      <4>1. SUFFICES ASSUME k # L - 1 PROVE FALSE
        OBVIOUS
      <4>2. L - 1 \in (k + 1)..(L - 1) /\ L - 1 < L
        BY <1>1, <1>2, <4>1
      <4>3. idx[x] < idx[frm[L - 1].node]
        BY <2>2, <4>2
      <4>4. idx[frm[L - 1].node] < idx[frm[L].node]
        BY <1>1, <1>2, <4>2
      <4> QED
        BY <1>1, <1>2, <2>4, <4>3, <4>4
    <3> QED
      BY <3>2, <3>3
  <2> QED
    BY <1>1, <1>2, <2>3, <2>4
<1> QED
  BY <1>3, <1>4 DEF L

\* The caller's loop has passed the edge of the call.
LEMMA ReturnPassed ==
    ASSUME NEW V, NEW out, NEW idx, NEW closed, NEW frm, NEW frm2,
           Behind(V, out, idx, frm, frm2, Len(frm) - 1, closed),
           NEW x, Len(out[x]) \in Nat, NEW e \in 1..Len(out[x]), Passed(frm2, x, e)
    PROVE  \/ Passed(frm, x, e)
           \/ /\ Len(frm) - 1 \in 1..(Len(frm) - 1) /\ x = frm[Len(frm) - 1].node
              /\ out[x][e] = frm[Len(frm)].node
<1> DEFINE L == Len(frm)
<1>1. CASE Passed(frm, x, e)
  BY <1>1
<1>2. CASE ~Passed(frm, x, e)
  <2>1. PICK m : m = L - 1
    OBVIOUS
  <2>2. Behind(V, out, idx, frm, frm2, m, closed)
    BY <2>1
  <2>3. m # 0 /\ x = frm[m].node /\ e = frm[m].edge
    BY <1>2, <2>2, MovedPassed
  <2>4. L \in Nat /\ m \in 0..L
    BY <2>1, <2>2, FrameFields DEF FrameMoved, Behind
  <2>5. \A k \in 1..(L - 1) : out[frm[k].node][frm[k].edge] = frm[k + 1].node
    BY DEF FramesOK, Behind
  <2> HIDE DEF L
  <2>6. m \in 1..(L - 1) /\ m + 1 = L
    BY <2>1, <2>3, <2>4
  <2>7. out[frm[m].node][frm[m].edge] = frm[m + 1].node
    BY <2>5, <2>6
  <2> QED
    BY <2>1, <2>3, <2>6, <2>7 DEF L
<1> QED
  BY <1>1, <1>2

\* Inequalities of whole numbers are transitive.
LEMMA AtMostThrough ==
    ASSUME NEW a \in Int, NEW b \in Int, NEW c \in Int, a <= b, b <= c
    PROVE  a <= c
  OBVIOUS

\* A call returns from a section that is not the first of its component: it
\* stays open, and its caller takes its low link.
LEMMA ReturnStays ==
    ASSUME NEW V, NEW out, NEW R, PathsAre(V, out, R),
           NEW idx, NEW low, NEW stk, NEW nxt, NEW frm, NEW closed,
           SearchOK(V, out, R, idx, low, stk, nxt, frm, closed),
           NEW m, m = Len(frm) - 1, NEW frm2,
           Behind(V, out, idx, frm, frm2, m, closed), Len(frm) # 0,
           NEW f, f = frm[Len(frm)].node, low[f] # idx[f],
           NEW low2, low2 \in [V -> Int],
           m # 0 => /\ \A x \in V : x # frm[m].node => low2[x] = low[x]
                    /\ low2[frm[m].node] <= low[frm[m].node]
                    /\ low2[frm[m].node] <= low[f]
                    /\ \/ low2[frm[m].node] = low[frm[m].node]
                       \/ low2[frm[m].node] = low[f]
    PROVE  m # 0 /\ SearchOK(V, out, R, idx, low2, stk, nxt, frm2, closed)
<1> DEFINE L == Len(frm)
           c == frm[m].node
           open(x) == IsOpenNode(idx, closed, x)
<1>1. /\ NumbersOK(V, idx, nxt, closed) /\ StackOK(V, idx, stk, closed)
      /\ FramesOK(V, out, idx, frm, closed) /\ EdgesOK(V, out, idx, frm, closed)
      /\ ReachOK(V, R, idx, frm, closed) /\ LowOK(V, out, R, idx, low, frm, closed)
  BY DEF SearchOK
<1>2. /\ L \in Nat /\ L # 0 /\ m \in Nat /\ m = L - 1
      /\ \A k \in 1..L : frm[k].node \in V /\ open(frm[k].node)
  BY <1>1, FrameFields DEF FrameMoved
<1>3. Len(frm2) = m /\ \A k \in 1..m : frm2[k].node = frm[k].node
  BY DEF FrameMoved, Behind
<1>4. /\ \A x \in V : Len(out[x]) \in Nat /\ \A e \in 1..Len(out[x]) : out[x][e] \in V
      /\ \A x \in V : \A e \in 1..Len(out[x]) : <<x, out[x][e]>> \in R
      /\ \A x, y, z \in V : <<x, y>> \in R /\ <<y, z>> \in R => <<x, z>> \in R
  BY DEF PathsAre
<1>5. idx \in [V -> Int] /\ low \in [V -> Int]
  BY <1>1 DEF NumbersOK, LowOK
<1>6. /\ \A k, l \in 1..L : k < l => idx[frm[k].node] < idx[frm[l].node]
      /\ \A k \in 1..m : /\ frm[k].edge \in 1..Len(out[frm[k].node])
                         /\ out[frm[k].node][frm[k].edge] = frm[k + 1].node
  BY <1>1, <1>2 DEF FramesOK
<1>7. f \in V /\ open(f) /\ f = frm[L].node
  BY <1>2
<1> HIDE DEF L
<1>8. PICK y \in V : open(y) /\ idx[y] = low[f] /\ <<f, y>> \in R /\ idx[y] < idx[f]
  <2>1. L \in 1..Len(frm)
    BY <1>2 DEF L
  <2>2. low[f] <= idx[f]
    BY <1>1, <1>7, <2>1 DEF LowOK
  <2>3. PICK y \in V : open(y) /\ idx[y] = low[f] /\ <<f, y>> \in R
    BY <1>1, <1>7, <2>1 DEF LowOK
  <2>4. idx[y] < idx[f]
    BY <1>5, <1>7, <2>2, <2>3
  <2> QED
    BY <2>3, <2>4
<1>9. PICK q \in 1..m : Owns(idx, frm, q, y) /\ <<y, frm[q].node>> \in R
  <2>1. PICK q \in 1..L : Owns(idx, frm, q, y) /\ <<y, frm[q].node>> \in R
    BY <1>1, <1>8 DEF ReachOK, L
  <2>2. idx[frm[q].node] <= idx[y]
    BY <2>1 DEF Owns
  <2>3. q # L
    BY <1>5, <1>7, <1>8, <2>2
  <2>4. q \in 1..m
    BY <1>2, <2>3
  <2> QED
    BY <2>1, <2>4
<1>10. /\ m # 0 /\ m \in 1..m /\ m \in 1..L /\ m + 1 = L /\ q \in 1..L
       /\ \A k \in 1..m : k \in 1..L
  BY <1>2
<1>11. /\ c \in V /\ open(c) /\ <<c, f>> \in R
       /\ frm[m].edge \in 1..Len(out[c]) /\ out[c][frm[m].edge] = f
       /\ idx[c] < idx[f]
  <2>1. /\ c \in V /\ open(c) /\ m < L
        /\ frm[m].edge \in 1..Len(out[c]) /\ out[c][frm[m].edge] = f
    BY <1>2, <1>6, <1>7, <1>10
  <2>2. <<c, out[c][frm[m].edge]>> \in R
    BY <1>4, <2>1
  <2>3. L \in 1..L /\ m \in 1..L
    BY <1>2, <1>10
  <2>4. idx[frm[m].node] < idx[frm[L].node]
    BY <1>6, <2>1, <2>3
  <2> QED
    BY <1>7, <2>1, <2>2, <2>4
<1>12. <<frm[q].node, c>> \in R
  <2>1. idx[frm[q].node] <= idx[c]
    <3>1. CASE q = m
      BY <1>5, <1>11, <3>1
    <3>2. CASE q # m
      <4>1. q < m
        BY <1>10, <3>2
      <4>2. idx[frm[q].node] < idx[frm[m].node]
        BY <1>6, <1>10, <4>1
      <4>3. idx[frm[q].node] \in Int /\ idx[frm[m].node] \in Int
        BY <1>2, <1>5, <1>10
      <4> QED
        BY <4>2, <4>3
    <3> QED
      BY <3>1, <3>2
  <2> QED
    BY <1>1, <1>10, <1>11, <2>1 DEF ReachOK, L
<1>13. <<f, c>> \in R
  <2>1. frm[q].node \in V
    BY <1>2, <1>10
  <2>2. <<y, c>> \in R
    BY <1>4, <1>8, <1>9, <1>11, <1>12, <2>1
  <2> QED
    BY <1>4, <1>7, <1>8, <1>11, <2>2
<1>14. ASSUME NEW k \in 1..m, NEW x \in V
       PROVE  /\ Owns(idx, frm, k, x) => Owns(idx, frm2, k, x)
              /\ Owns(idx, frm2, k, x) =>
                    Owns(idx, frm, k, x) \/ (k = m /\ Owns(idx, frm, L, x))
  <2>1. Behind(V, out, idx, frm, frm2, Len(frm) - 1, closed) /\ k \in 1..(Len(frm) - 1)
    OBVIOUS
  <2> QED
    BY <2>1, ReturnOwners DEF L
<1>15. ASSUME NEW x \in V, NEW e \in 1..Len(out[x]), Passed(frm2, x, e)
       PROVE  Passed(frm, x, e) \/ (x = c /\ out[x][e] = f)
  <2>1. Behind(V, out, idx, frm, frm2, Len(frm) - 1, closed) /\ Len(out[x]) \in Nat
    BY <1>4
  <2> QED
    BY <1>15, <2>1, ReturnPassed, SMTT(30)
<1>16. FramesOK(V, out, idx, frm2, closed)
  <2>1. \A k \in 1..m : frm[k].node \notin closed
    BY <1>2, <1>10 DEF IsOpenNode
  <2>2. FrameMoved(V, frm, frm2, m)
    BY DEF Behind
  <2> QED
    BY <1>1, <2>1, <2>2, MovedFrames
<1>17. EdgesOK(V, out, idx, frm2, closed)
  <2>1. ASSUME NEW x \in V, open(x), NEW e \in 1..Len(out[x]), Passed(frm2, x, e)
        PROVE  idx[out[x][e]] >= 0
    <3>1. idx[f] >= 0
      BY <1>7 DEF IsOpenNode
    <3>2. CASE Passed(frm, x, e)
      BY <1>1, <2>1, <3>2 DEF EdgesOK
    <3> QED
      BY <1>15, <2>1, <3>1, <3>2
  <2> QED
    BY <1>1, <2>1 DEF EdgesOK
<1>18. ReachOK(V, R, idx, frm2, closed)
  <2>1. ASSUME NEW x \in V, open(x)
        PROVE  \E k \in 1..m : Owns(idx, frm2, k, x) /\ <<x, frm2[k].node>> \in R
    <3>1. PICK k \in 1..L : Owns(idx, frm, k, x) /\ <<x, frm[k].node>> \in R
      BY <1>1, <2>1 DEF ReachOK, L
    <3>2. CASE k # L
      <4>1. k \in 1..m
        BY <1>2, <3>2
      <4> QED
        BY <1>3, <1>14, <3>1, <4>1
    <3>3. CASE k = L
      <4>1. <<x, c>> \in R
        BY <1>4, <1>7, <1>11, <1>13, <3>1, <3>3
      <4>2. Owns(idx, frm2, m, x)
        <5>1. idx[f] <= idx[x] /\ idx[x] \in Int /\ idx[f] \in Int /\ idx[c] \in Int
          BY <1>5, <1>7, <1>11, <3>1, <3>3 DEF Owns
        <5>2. (m + 1)..m = {} /\ frm2[m].node = c
          BY <1>2, <1>3, <1>10
        <5>3. idx[frm2[m].node] <= idx[x]
          BY <1>11, <5>1, <5>2, SMTT(30)
        <5> QED
          BY <1>3, <5>2, <5>3 DEF Owns
      <4> QED
        BY <1>3, <1>10, <4>1, <4>2
    <3> QED
      BY <3>2, <3>3
  <2>2. ASSUME NEW k \in 1..m, NEW x \in V, open(x), idx[frm2[k].node] <= idx[x]
        PROVE  <<frm2[k].node, x>> \in R
    BY <1>1, <1>3, <1>10, <2>2 DEF ReachOK, L
  <2> QED
    BY <1>3, <2>1, <2>2 DEF ReachOK
<1>19. ASSUME NEW k \in 1..m, k # m PROVE frm[k].node # c
  <2>1. idx[frm[k].node] < idx[c] /\ idx[c] \in Int
    BY <1>2, <1>5, <1>6, <1>10, <1>11, <1>19
  <2> QED
    BY <2>1
<1>20. ASSUME NEW k \in 1..m
       PROVE  /\ low2[frm[k].node] <= idx[frm[k].node]
              /\ \E z \in V : /\ open(z) /\ idx[z] = low2[frm[k].node]
                              /\ <<frm[k].node, z>> \in R
  <2>1. /\ low[frm[k].node] <= idx[frm[k].node]
        /\ \E z \in V : /\ open(z) /\ idx[z] = low[frm[k].node]
                        /\ <<frm[k].node, z>> \in R
    BY <1>1, <1>10 DEF LowOK, L
  <2>2. CASE low2[frm[k].node] = low[frm[k].node]
    BY <2>1, <2>2
  <2>3. CASE low2[frm[k].node] # low[frm[k].node]
    <3>1. frm[k].node = c /\ low2[c] = low[f] /\ low2[c] <= low[c]
      BY <1>2, <1>10, <2>3
    <3>2. <<c, y>> \in R
      BY <1>4, <1>7, <1>8, <1>11
    <3>3. low2[c] <= idx[c]
      BY <1>5, <1>11, <2>1, <3>1, SMTT(30)
    <3> QED
      BY <1>8, <3>1, <3>2, <3>3
  <2> QED
    BY <2>2, <2>3
<1>21. ASSUME NEW k \in 1..m, NEW x \in V, open(x), Owns(idx, frm2, k, x),
              NEW e \in 1..Len(out[x]), Passed(frm2, x, e), open(out[x][e])
       PROVE  low2[frm[k].node] <= idx[out[x][e]]
  <2>1. /\ out[x][e] \in V /\ frm[k].node \in V
        /\ low2[frm[k].node] \in Int /\ low[frm[k].node] \in Int
        /\ low2[c] \in Int /\ low[f] \in Int /\ idx[f] \in Int
        /\ idx[out[x][e]] \in Int
    <3>1. out[x][e] \in V /\ frm[k].node \in V
      BY <1>2, <1>4, <1>10
    <3> QED
      BY <1>5, <1>7, <1>11, <3>1
  <2>2. low2[frm[k].node] <= low[frm[k].node]
    <3>1. CASE frm[k].node = c
      BY <1>10, <3>1
    <3>2. CASE frm[k].node # c
      <4>1. low2[frm[k].node] = low[frm[k].node]
        BY <1>10, <2>1, <3>2
      <4> QED
        BY <2>1, <4>1
    <3> QED
      BY <3>1, <3>2
  <2>3. CASE Owns(idx, frm, k, x) /\ Passed(frm, x, e)
    <3>1. low[frm[k].node] <= idx[out[x][e]]
      BY <1>1, <1>10, <1>21, <2>3 DEF LowOK, L
    <3> QED
      BY <2>1, <2>2, <3>1, AtMostThrough, Zenon
  <2>4. CASE k = m /\ Owns(idx, frm, L, x) /\ Passed(frm, x, e)
    <3>1. L \in 1..Len(frm)
      BY <1>2 DEF L
    <3>2. low[f] <= idx[out[x][e]]
      BY <1>1, <1>7, <1>21, <2>4, <3>1 DEF LowOK
    <3>3. low2[c] <= low[f]
      BY <1>10
    <3>4. low2[c] <= idx[out[x][e]]
      BY <2>1, <3>2, <3>3, AtMostThrough, Zenon
    <3> QED
      BY <2>4, <3>4
  <2>5. CASE x = c /\ out[x][e] = f
    <3>1. k = m
      <4>1. SUFFICES ASSUME k # m PROVE FALSE
        OBVIOUS
      <4>2. m \in (k + 1)..Len(frm2)
        BY <1>2, <1>3, <4>1
      <4>3. idx[c] < idx[c]
        BY <1>3, <1>10, <1>21, <2>5, <4>2 DEF Owns
      <4> QED
        BY <1>5, <1>11, <4>3
    <3>2. low2[c] <= low[f] /\ low[f] <= idx[f]
      BY <1>1, <1>7, <1>10, SMTT(30) DEF LowOK, L
    <3>3. low2[c] <= idx[f]
      BY <2>1, <3>2, AtMostThrough, Zenon
    <3> QED
      BY <2>5, <3>1, <3>3
  <2> QED
    BY <1>14, <1>15, <1>21, <2>3, <2>4, <2>5
<1>22. LowOK(V, out, R, idx, low2, frm2, closed)
  <2>1. \A k \in 1..m :
          /\ low2[frm2[k].node] <= idx[frm2[k].node]
          /\ \E z \in V : /\ IsOpenNode(idx, closed, z)
                          /\ idx[z] = low2[frm2[k].node]
                          /\ <<frm2[k].node, z>> \in R
    BY <1>3, <1>20
  <2>2. \A k \in 1..m : \A x \in V :
          IsOpenNode(idx, closed, x) /\ Owns(idx, frm2, k, x) =>
             \A e \in 1..Len(out[x]) :
                Passed(frm2, x, e) /\ IsOpenNode(idx, closed, out[x][e]) =>
                   low2[frm2[k].node] <= idx[out[x][e]]
    BY <1>3, <1>21
  <2> QED
    BY <1>3, <2>1, <2>2 DEF LowOK
<1> QED
  BY <1>1, <1>10, <1>16, <1>17, <1>18, <1>22 DEF SearchOK

-----------------------------------------------------------------------------
(* The return from the first section of a component.                       *)

\* The open sections that were entered not before f.
Since(V, idx, closed, f) ==
    {x \in V : IsOpenNode(idx, closed, x) /\ idx[f] <= idx[x]}

\* The sections that paths lead to from f and back.
ClassOf(V, R, f) == {x \in V : <<f, x>> \in R /\ <<x, f>> \in R}

\* The top call has passed all its targets, and its low link is its number.
AtRoot(out, idx, low, frm, f) ==
    /\ Len(frm) # 0 /\ f = frm[Len(frm)].node
    /\ frm[Len(frm)].edge > Len(out[f])
    /\ low[f] = idx[f]

\* No edge leaves what is popped and the components before it.
LEMMA PoppedIsClosed ==
    ASSUME NEW V, NEW out, NEW R, PathsAre(V, out, R),
           NEW idx, NEW low, NEW stk, NEW nxt, NEW frm, NEW closed,
           SearchOK(V, out, R, idx, low, stk, nxt, frm, closed),
           NEW f, AtRoot(out, idx, low, frm, f)
    PROVE  LET done == closed \cup Since(V, idx, closed, f)
           IN  \A x \in done : \A e \in 1..Len(out[x]) : out[x][e] \in done
<1> DEFINE L == Len(frm)
           done == closed \cup Since(V, idx, closed, f)
<1>1. /\ NumbersOK(V, idx, nxt, closed) /\ FramesOK(V, out, idx, frm, closed)
      /\ EdgesOK(V, out, idx, frm, closed) /\ LowOK(V, out, R, idx, low, frm, closed)
  BY DEF SearchOK
<1>2. /\ L \in Nat /\ L # 0 /\ L \in 1..L
      /\ \A k \in 1..L : frm[k].node \in V /\ frm[k].edge \in Nat
      /\ f = frm[L].node /\ frm[L].edge > Len(out[f]) /\ low[f] = idx[f]
  BY <1>1, FrameFields DEF AtRoot
<1>3. \A x \in V : Len(out[x]) \in Nat /\ \A e \in 1..Len(out[x]) : out[x][e] \in V
  BY DEF PathsAre
<1>4. idx \in [V -> Int] /\ f \in V
  BY <1>1, <1>2 DEF NumbersOK
<1>5. \A k, l \in 1..L : k < l => idx[frm[k].node] < idx[frm[l].node]
  BY <1>1 DEF FramesOK
<1> HIDE DEF L
<1>6. ASSUME NEW x \in Since(V, idx, closed, f), NEW e \in 1..Len(out[x])
      PROVE  out[x][e] \in done
  <2>1. x \in V /\ IsOpenNode(idx, closed, x) /\ idx[f] <= idx[x]
    BY DEF Since
  <2>2. Passed(frm, x, e)
    <3>1. SUFFICES ASSUME NEW k \in 1..L, frm[k].node = x PROVE e < frm[k].edge
      BY DEF Passed, L
    <3>2. k = L
      <4>1. SUFFICES ASSUME k # L PROVE FALSE
        OBVIOUS
      <4>2. k < L
        BY <1>2, <4>1
      <4>3. idx[x] < idx[f]
        BY <1>2, <1>5, <3>1, <4>2
      <4> QED
        BY <1>4, <2>1, <4>3
    <3>3. x = f /\ e \in 1..Len(out[f]) /\ Len(out[f]) \in Nat /\ frm[L].edge \in Nat
      BY <1>2, <1>3, <1>4, <3>1, <3>2
    <3> QED
      BY <1>2, <3>2, <3>3
  <2>3. out[x][e] \in V /\ idx[out[x][e]] >= 0
    BY <1>1, <1>3, <2>1, <2>2 DEF EdgesOK
  <2>4. CASE out[x][e] \in closed
    BY <2>4
  <2>5. CASE out[x][e] \notin closed
    <3>1. IsOpenNode(idx, closed, out[x][e])
      BY <2>3, <2>5 DEF IsOpenNode
    <3>2. Owns(idx, frm, L, x)
      <4>1. (L + 1)..Len(frm) = {}
        BY <1>2 DEF L
      <4> QED
        BY <1>2, <2>1, <4>1 DEF Owns
    <3>3. low[f] <= idx[out[x][e]]
      BY <1>1, <1>2, <2>1, <2>2, <3>1, <3>2 DEF LowOK, L
    <3>4. out[x][e] \in Since(V, idx, closed, f)
      BY <1>2, <2>3, <3>1, <3>3 DEF Since
    <3> QED
      BY <3>4
  <2> QED
    BY <2>4, <2>5
<1>7. ASSUME NEW x \in closed, NEW e \in 1..Len(out[x]) PROVE out[x][e] \in done
  BY <1>1 DEF EdgesOK
<1> QED
  BY <1>6, <1>7

\* What is popped is a class: paths lead from f to it and back, and since no
\* edge leaves it and the components before it, to nothing else and back.
LEMMA PoppedIsClass ==
    ASSUME NEW V, NEW out, NEW R, PathsAre(V, out, R),
           NEW idx, NEW low, NEW stk, NEW nxt, NEW frm, NEW closed,
           SearchOK(V, out, R, idx, low, stk, nxt, frm, closed),
           NEW f, AtRoot(out, idx, low, frm, f)
    PROVE  Since(V, idx, closed, f) = ClassOf(V, R, f) /\ f \in ClassOf(V, R, f)
<1> DEFINE L == Len(frm)
           since == Since(V, idx, closed, f)
           done == closed \cup since
<1>1. /\ NumbersOK(V, idx, nxt, closed) /\ FramesOK(V, out, idx, frm, closed)
      /\ EdgesOK(V, out, idx, frm, closed) /\ ReachOK(V, R, idx, frm, closed)
  BY DEF SearchOK
<1>2. /\ L \in Nat /\ L # 0 /\ L \in 1..L /\ f = frm[L].node /\ f \in V
      /\ IsOpenNode(idx, closed, f)
  BY <1>1, FrameFields DEF AtRoot
<1>3. closed \subseteq V /\ since \subseteq V /\ idx \in [V -> Int]
  BY <1>1 DEF NumbersOK, Since
<1>4. ASSUME NEW S \in SUBSET V,
             \A x \in S : \A e \in 1..Len(out[x]) : out[x][e] \in S,
             NEW x \in V, NEW y \in V, <<x, y>> \in R, x \in S
      PROVE  y \in S
  BY <1>4 DEF PathsAre
<1>5. ASSUME NEW x \in since PROVE <<f, x>> \in R /\ <<x, f>> \in R
  <2>1. x \in V /\ IsOpenNode(idx, closed, x) /\ idx[f] <= idx[x]
    BY DEF Since
  <2>2. <<f, x>> \in R
    BY <1>1, <1>2, <2>1 DEF ReachOK, L
  <2>3. PICK k \in 1..L : Owns(idx, frm, k, x) /\ <<x, frm[k].node>> \in R
    BY <1>1, <2>1 DEF ReachOK, L
  <2>4. k = L
    <3>1. SUFFICES ASSUME k # L PROVE FALSE
      OBVIOUS
    <3>2. L \in (k + 1)..Len(frm)
      BY <1>2, <3>1
    <3>3. idx[x] < idx[f]
      BY <1>2, <2>3, <3>2 DEF Owns
    <3>4. idx[x] \in Int /\ idx[f] \in Int
      BY <1>2, <1>3, <2>1
    <3> QED
      BY <2>1, <3>3, <3>4
  <2> QED
    BY <1>2, <2>2, <2>3, <2>4
<1>6. f \in since
  <2>1. idx[f] <= idx[f]
    BY <1>2, <1>3
  <2> QED
    BY <1>2, <2>1 DEF Since
<1>7. ASSUME NEW x \in V, <<f, x>> \in R, <<x, f>> \in R PROVE x \in since
  <2>1. \A z \in done : \A e \in 1..Len(out[z]) : out[z][e] \in done
    BY PoppedIsClosed
  <2>2. done \in SUBSET V /\ closed \in SUBSET V
    BY <1>3
  <2>3. x \in done
    BY <1>2, <1>4, <1>6, <1>7, <2>1, <2>2
  <2>4. \A z \in closed : \A e \in 1..Len(out[z]) : out[z][e] \in closed
    BY <1>1 DEF EdgesOK
  <2>5. x \notin closed
    <3>1. SUFFICES ASSUME x \in closed PROVE FALSE
      OBVIOUS
    <3>2. f \in closed
      BY <1>2, <1>4, <1>7, <2>2, <2>4, <3>1
    <3> QED
      BY <1>2, <3>2 DEF IsOpenNode
  <2> QED
    BY <2>3, <2>5
<1>8. since \subseteq ClassOf(V, R, f)
  BY <1>3, <1>5 DEF ClassOf
<1>9. ClassOf(V, R, f) \subseteq since
  BY <1>7 DEF ClassOf
<1> QED
  BY <1>6, <1>8, <1>9

\* From p on the stack holds what was entered since f, before it the other open
\* sections.
IsCut(V, idx, closed, stk, p, f) ==
    /\ Range(SubSeq(stk, p, Len(stk))) = Since(V, idx, closed, f)
    /\ StackOK(V, idx, SubSeq(stk, 1, p - 1), closed \cup Since(V, idx, closed, f))

\* The stack is cut where f is, and what was popped is what was entered since.
LEMMA PoppedStack ==
    ASSUME NEW V, NEW idx, NEW nxt, NEW closed, NEW stk,
           NumbersOK(V, idx, nxt, closed), StackOK(V, idx, stk, closed),
           NEW p \in 1..Len(stk), NEW f, f = stk[p]
    PROVE  IsCut(V, idx, closed, stk, p, f)
<1> DEFINE L == Len(stk)
           since == Since(V, idx, closed, f)
           top == SubSeq(stk, p, L)
           rest == SubSeq(stk, 1, p - 1)
<1>1. /\ stk \in Seq(V) /\ L \in Nat
      /\ \A i \in 1..L : stk[i] \in V /\ IsOpenNode(idx, closed, stk[i])
      /\ \A x \in V : IsOpenNode(idx, closed, x) => \E i \in 1..L : stk[i] = x
      /\ \A i, j \in 1..L : i < j => idx[stk[i]] < idx[stk[j]]
  BY DEF StackOK
<1>2. idx \in [V -> Int] /\ p \in 1..L /\ p \in Nat
  BY <1>1 DEF NumbersOK
<1>3. \A i \in 1..L : idx[stk[i]] \in Int
  BY <1>1, <1>2
<1>4. /\ top \in Seq(V) /\ Len(top) = L - p + 1
      /\ \A i \in 1..(L - p + 1) : top[i] = stk[p + i - 1]
  BY <1>1, <1>2
<1>5. /\ rest \in Seq(V) /\ Len(rest) = p - 1
      /\ \A i \in 1..(p - 1) : rest[i] = stk[i]
  BY <1>1, <1>2
<1> HIDE DEF L, top, rest
<1>6. ASSUME NEW i \in 1..L PROVE idx[f] <= idx[stk[i]] <=> p <= i
  <2>1. CASE i < p
    <3>1. idx[stk[i]] < idx[stk[p]]
      BY <1>1, <1>2, <2>1
    <3> QED
      BY <1>2, <1>3, <2>1, <3>1
  <2>2. CASE i = p
    BY <1>2, <1>3, <2>2
  <2>3. CASE p < i
    <3>1. idx[stk[p]] < idx[stk[i]]
      BY <1>1, <1>2, <2>3
    <3> QED
      BY <1>2, <1>3, <2>3, <3>1
  <2> QED
    BY <1>2, <2>1, <2>2, <2>3
<1>7. Range(top) = since
  <2>1. DOMAIN top = 1..(L - p + 1)
    BY <1>4
  <2>2. ASSUME NEW x \in Range(top) PROVE x \in since
    <3>1. PICK i \in 1..(L - p + 1) : x = top[i]
      BY <2>1 DEF Range
    <3>2. p + i - 1 \in 1..L /\ p <= p + i - 1
      BY <1>1, <1>2
    <3>3. x = stk[p + i - 1]
      BY <1>4, <3>1
    <3> QED
      BY <1>1, <1>6, <3>2, <3>3 DEF Since
  <2>3. ASSUME NEW x \in since PROVE x \in Range(top)
    <3>1. x \in V /\ IsOpenNode(idx, closed, x) /\ idx[f] <= idx[x]
      BY DEF Since
    <3>2. PICK i \in 1..L : stk[i] = x
      BY <1>1, <3>1
    <3>3. p <= i
      BY <1>6, <3>1, <3>2
    <3>4. i - p + 1 \in 1..(L - p + 1) /\ p + (i - p + 1) - 1 = i
      BY <1>1, <1>2, <3>3
    <3>5. x = top[i - p + 1]
      BY <1>4, <3>2, <3>4
    <3> QED
      BY <2>1, <3>4, <3>5 DEF Range
  <2> QED
    BY <2>2, <2>3
<1>8. ASSUME NEW i \in 1..(p - 1)
      PROVE  i \in 1..L /\ rest[i] = stk[i] /\ stk[i] \notin since
  <2>1. i \in 1..L /\ ~(p <= i)
    BY <1>1, <1>2
  <2>2. rest[i] = stk[i]
    BY <1>5
  <2>3. ~(idx[f] <= idx[stk[i]])
    BY <1>6, <2>1
  <2> QED
    BY <2>1, <2>2, <2>3 DEF Since
<1>9. \A i \in 1..(p - 1) : IsOpenNode(idx, closed \cup since, rest[i])
  BY <1>1, <1>8 DEF IsOpenNode
<1>10. ASSUME NEW x \in V, IsOpenNode(idx, closed \cup since, x)
       PROVE  \E i \in 1..(p - 1) : rest[i] = x
  <2>1. IsOpenNode(idx, closed, x) /\ x \notin since
    BY <1>10 DEF IsOpenNode
  <2>2. PICK i \in 1..L : stk[i] = x
    BY <1>1, <2>1
  <2>3. ~(p <= i)
    BY <1>6, <2>1, <2>2 DEF Since
  <2>4. i \in 1..(p - 1)
    BY <1>2, <2>3
  <2> QED
    BY <1>5, <2>2, <2>4
<1>11. ASSUME NEW i \in 1..(p - 1), NEW j \in 1..(p - 1), i < j
       PROVE  idx[rest[i]] < idx[rest[j]]
  <2>1. /\ i \in 1..L /\ j \in 1..L /\ rest[i] = stk[i] /\ rest[j] = stk[j]
    BY <1>8
  <2>2. idx[stk[i]] < idx[stk[j]]
    BY <1>1, <1>11, <2>1
  <2> QED
    BY <2>1, <2>2
<1>12. StackOK(V, idx, rest, closed \cup since)
  BY <1>5, <1>9, <1>10, <1>11 DEF StackOK
<1> QED
  BY <1>7, <1>12 DEF top, rest, L, IsCut

\* The low links of the first m calls are kept.
KeepsLow(V, low, low2, frm, m) ==
    low2 \in [V -> Int] /\ \A k \in 1..m : low2[frm[k].node] = low[frm[k].node]

\* A call returns from the first section of a component.
LEMMA ReturnPops ==
    ASSUME NEW V, NEW out, NEW R, PathsAre(V, out, R),
           NEW idx, NEW low, NEW stk, NEW nxt, NEW frm, NEW closed,
           SearchOK(V, out, R, idx, low, stk, nxt, frm, closed),
           NEW f, AtRoot(out, idx, low, frm, f),
           NEW m, m = Len(frm) - 1, NEW frm2,
           Behind(V, out, idx, frm, frm2, m, closed),
           NEW low2, KeepsLow(V, low, low2, frm, m),
           NEW done, done = closed \cup Since(V, idx, closed, f),
           NEW stk2, StackOK(V, idx, stk2, done)
    PROVE  SearchOK(V, out, R, idx, low2, stk2, nxt, frm2, done)
<1> DEFINE L == Len(frm)
           open(x) == IsOpenNode(idx, closed, x)
           open2(x) == IsOpenNode(idx, done, x)
<1>1. /\ NumbersOK(V, idx, nxt, closed)
      /\ FramesOK(V, out, idx, frm, closed) /\ EdgesOK(V, out, idx, frm, closed)
      /\ ReachOK(V, R, idx, frm, closed) /\ LowOK(V, out, R, idx, low, frm, closed)
  BY DEF SearchOK
<1>2. /\ L \in Nat /\ L # 0 /\ m \in Nat /\ m = L - 1 /\ L \in 1..L
      /\ \A k \in 1..L : frm[k].node \in V /\ open(frm[k].node)
      /\ f = frm[L].node
  BY <1>1, FrameFields DEF AtRoot
<1>3. Len(frm2) = m /\ \A k \in 1..m : frm2[k].node = frm[k].node
  BY DEF FrameMoved, Behind
<1>4. \A x \in V : Len(out[x]) \in Nat /\ \A e \in 1..Len(out[x]) : out[x][e] \in V
  BY DEF PathsAre
<1>5. idx \in [V -> Int] /\ low \in [V -> Int]
  BY <1>1 DEF NumbersOK, LowOK
<1>6. \A k, l \in 1..L : k < l => idx[frm[k].node] < idx[frm[l].node]
  BY <1>1 DEF FramesOK
<1> HIDE DEF L
<1>7. \A k \in 1..m : k \in 1..L /\ k < L
  BY <1>2
<1>8. ASSUME NEW x \in V
      PROVE  open2(x) <=> open(x) /\ idx[x] < idx[f]
  <2>1. idx[x] \in Int /\ idx[f] \in Int
    BY <1>2, <1>5
  <2>2. x \in done <=> x \in closed \/ (open(x) /\ idx[f] <= idx[x])
    BY DEF Since
  <2>3. idx[x] < idx[f] <=> ~(idx[f] <= idx[x])
    BY <2>1
  <2> QED
    BY <2>2, <2>3 DEF IsOpenNode
<1>9. ~open2(f)
  <2>1. f \in V /\ idx[f] \in Int
    BY <1>2, <1>5
  <2>2. ~(idx[f] < idx[f])
    BY <2>1
  <2> QED
    BY <1>8, <2>1, <2>2
<1>10. \A k \in 1..m : open2(frm[k].node)
  BY <1>2, <1>6, <1>7, <1>8
<1>11. ASSUME NEW x \in V, open2(x), NEW k \in 1..L, Owns(idx, frm, k, x)
       PROVE  k \in 1..m
  <2>1. idx[frm[k].node] <= idx[x] /\ idx[x] < idx[f]
    BY <1>8, <1>11 DEF Owns
  <2>2. k # L
    BY <1>2, <1>5, <2>1
  <2> QED
    BY <1>2, <2>2
<1>12. ASSUME NEW k \in 1..m, NEW x \in V, open2(x)
       PROVE  Owns(idx, frm2, k, x) <=> Owns(idx, frm, k, x)
  <2>1. Behind(V, out, idx, frm, frm2, Len(frm) - 1, closed) /\ k \in 1..(Len(frm) - 1)
    OBVIOUS
  <2>2. /\ Owns(idx, frm, k, x) => Owns(idx, frm2, k, x)
        /\ Owns(idx, frm2, k, x) => Owns(idx, frm, k, x) \/ Owns(idx, frm, L, x)
    BY <2>1, ReturnOwners DEF L
  <2>3. L \notin 1..m
    BY <1>2
  <2>4. ~Owns(idx, frm, L, x)
    BY <1>2, <1>11, <1>12, <2>3
  <2> QED
    BY <2>2, <2>4
<1>13. ASSUME NEW x \in V, NEW e \in 1..Len(out[x]), Passed(frm2, x, e)
       PROVE  Passed(frm, x, e) \/ out[x][e] = f
  <2>1. Behind(V, out, idx, frm, frm2, Len(frm) - 1, closed) /\ Len(out[x]) \in Nat
    BY <1>4
  <2>2. CASE Passed(frm, x, e)
    BY <2>2
  <2>3. CASE ~Passed(frm, x, e)
    <3>1. out[x][e] = frm[Len(frm)].node
      BY <1>13, <2>1, <2>3, ReturnPassed
    <3> QED
      BY <1>2, <3>1 DEF L
  <2> QED
    BY <2>2, <2>3
<1>14. NumbersOK(V, idx, nxt, done)
  BY <1>1 DEF NumbersOK, Since, IsOpenNode
<1>15. FramesOK(V, out, idx, frm2, done)
  <2>1. \A k \in 1..m : frm[k].node \notin done
    BY <1>10 DEF IsOpenNode
  <2>2. FrameMoved(V, frm, frm2, m)
    BY DEF Behind
  <2> QED
    BY <1>1, <2>1, <2>2, MovedFrames
<1>16. EdgesOK(V, out, idx, frm2, done)
  <2>1. \A x \in done : \A e \in 1..Len(out[x]) : out[x][e] \in done
    BY PoppedIsClosed
  <2>2. ASSUME NEW x \in V, open2(x), NEW e \in 1..Len(out[x]), Passed(frm2, x, e)
        PROVE  idx[out[x][e]] >= 0
    <3>1. open(x) /\ open(f)
      BY <1>2, <1>8, <2>2
    <3>2. CASE Passed(frm, x, e)
      BY <1>1, <2>2, <3>1, <3>2 DEF EdgesOK
    <3>3. CASE out[x][e] = f
      BY <3>1, <3>3 DEF IsOpenNode
    <3> QED
      BY <1>13, <2>2, <3>2, <3>3
  <2> QED
    BY <2>1, <2>2 DEF EdgesOK
<1>17. ReachOK(V, R, idx, frm2, done)
  <2>1. ASSUME NEW x \in V, open2(x)
        PROVE  \E k \in 1..m : Owns(idx, frm2, k, x) /\ <<x, frm2[k].node>> \in R
    <3>1. PICK k \in 1..L : Owns(idx, frm, k, x) /\ <<x, frm[k].node>> \in R
      BY <1>1, <1>8, <2>1 DEF ReachOK, L
    <3>2. k \in 1..m
      BY <1>11, <2>1, <3>1
    <3>3. Owns(idx, frm2, k, x)
      BY <1>12, <2>1, <3>1, <3>2
    <3> QED
      BY <1>3, <3>1, <3>2, <3>3
  <2>2. ASSUME NEW k \in 1..m, NEW x \in V, open2(x), idx[frm2[k].node] <= idx[x]
        PROVE  <<frm2[k].node, x>> \in R
    BY <1>1, <1>3, <1>7, <1>8, <2>2 DEF ReachOK, L
  <2> QED
    BY <1>3, <2>1, <2>2 DEF ReachOK
<1>18. ASSUME NEW k \in 1..m
       PROVE  /\ low[frm[k].node] <= idx[frm[k].node]
              /\ \E y \in V : /\ open2(y) /\ idx[y] = low[frm[k].node]
                              /\ <<frm[k].node, y>> \in R
  <2>1. low[frm[k].node] <= idx[frm[k].node]
    BY <1>1, <1>7 DEF LowOK, L
  <2>2. PICK y \in V : /\ open(y) /\ idx[y] = low[frm[k].node]
                       /\ <<frm[k].node, y>> \in R
    BY <1>1, <1>7 DEF LowOK, L
  <2>3. idx[frm[k].node] < idx[f]
    BY <1>2, <1>6, <1>7
  <2>4. /\ idx[y] \in Int /\ idx[f] \in Int /\ idx[frm[k].node] \in Int
    BY <1>2, <1>5, <1>7
  <2>5. idx[y] < idx[f]
    BY <2>1, <2>2, <2>3, <2>4
  <2> QED
    BY <1>8, <2>1, <2>2, <2>5
<1>19. ASSUME NEW k \in 1..m, NEW x \in V, open2(x), Owns(idx, frm2, k, x),
              NEW e \in 1..Len(out[x]), Passed(frm2, x, e), open2(out[x][e])
       PROVE  low[frm[k].node] <= idx[out[x][e]]
  <2>1. out[x][e] # f
    BY <1>9, <1>19
  <2>2. Passed(frm, x, e) /\ Owns(idx, frm, k, x)
    BY <1>12, <1>13, <1>19, <2>1
  <2>3. out[x][e] \in V /\ open(x) /\ open(out[x][e])
    BY <1>4, <1>8, <1>19
  <2> QED
    BY <1>1, <1>7, <2>2, <2>3 DEF LowOK, L
<1>20. LowOK(V, out, R, idx, low2, frm2, done)
  <2>1. \A k \in 1..m :
          /\ low2[frm2[k].node] <= idx[frm2[k].node]
          /\ \E z \in V : /\ IsOpenNode(idx, done, z)
                          /\ idx[z] = low2[frm2[k].node]
                          /\ <<frm2[k].node, z>> \in R
    BY <1>3, <1>18, ZenonT(40) DEF KeepsLow
  <2>2. \A k \in 1..m : \A x \in V :
          IsOpenNode(idx, done, x) /\ Owns(idx, frm2, k, x) =>
             \A e \in 1..Len(out[x]) :
                Passed(frm2, x, e) /\ IsOpenNode(idx, done, out[x][e]) =>
                   low2[frm2[k].node] <= idx[out[x][e]]
    BY <1>3, <1>19 DEF KeepsLow
  <2> QED
    BY <1>3, <2>1, <2>2 DEF LowOK, KeepsLow
<1> QED
  BY <1>14, <1>15, <1>16, <1>17, <1>20 DEF SearchOK

-----------------------------------------------------------------------------
(* The references of an image and the relations they make.                 *)

\* The relations found so far.
RelationOf(A) == [source : A, target : A, references : Nat]
SomeRelations(count) == Seq(RelationOf(0..(count - 1)))

\* A relation that is found once more.
OnceMore(r) == [r EXCEPT !.references = @ + 1]

\* Its sections stay the same.
LEMMA CountedOnceMore ==
    ASSUME NEW A, NEW r, r \in RelationOf(A)
    PROVE  /\ OnceMore(r) \in RelationOf(A)
           /\ OnceMore(r).source = r.source /\ OnceMore(r).target = r.target
           /\ OnceMore(r).references = r.references + 1
  BY DEF OnceMore, RelationOf

\* A reference is counted in a list of relations (add_relation).
LEMMA RelationIsAdded ==
    ASSUME NEW count \in Nat, NEW known \in SomeRelations(count),
           NEW r \in Nat \X Nat
    PROVE  AddRelation(count, known, r) \in SomeRelations(count)
<1> DEFINE at == {n \in DOMAIN known :
                    known[n].source = r[1] /\ known[n].target = r[2]}
           Rel == RelationOf(0..(count - 1))
<1>1. CASE r[1] >= count \/ r[2] >= count
  BY <1>1 DEF AddRelation
<1>2. CASE ~(r[1] >= count \/ r[2] >= count) /\ at = {}
  <2>1. [source |-> r[1], target |-> r[2], references |-> 1] \in Rel
    BY <1>2 DEF RelationOf
  <2>2. AddRelation(count, known, r)
          = Append(known, [source |-> r[1], target |-> r[2], references |-> 1])
    BY <1>2 DEF AddRelation
  <2> HIDE DEF Rel
  <2> QED
    BY <2>1, <2>2, AppendProperties DEF SomeRelations, Rel
<1>3. CASE ~(r[1] >= count \/ r[2] >= count) /\ at # {}
  <2> DEFINE new == [n \in DOMAIN known |->
                       IF n \in at THEN [known[n] EXCEPT !.references = @ + 1]
                       ELSE known[n]]
  <2>1. AddRelation(count, known, r) = new
    BY <1>3 DEF AddRelation
  <2>2. /\ Len(known) \in Nat /\ DOMAIN known = 1..Len(known)
        /\ \A n \in 1..Len(known) : known[n] \in Rel
    BY LenProperties, ElementOfSeq DEF SomeRelations
  <2>3. ASSUME NEW k \in 1..Len(known)
        PROVE  [known[k] EXCEPT !.references = @ + 1] \in Rel
    <3>1. known[k] \in Rel
      BY <2>2
    <3> QED
      <4>1. OnceMore(known[k]) \in Rel
        BY <3>1, CountedOnceMore
      <4> QED
        BY <4>1 DEF OnceMore
  <2>4. \A k \in 1..Len(known) :
           (IF k \in at THEN [known[k] EXCEPT !.references = @ + 1] ELSE known[k])
             \in Rel
    BY <2>2, <2>3
  <2>5. new \in Seq(Rel)
    <3> HIDE DEF Rel, at
    <3> QED
      BY <2>2, <2>4
  <2> QED
    BY <2>1, <2>5 DEF SomeRelations
<1> QED
  BY <1>1, <1>2, <1>3

\* Lists that are put one after the other.
LEMMA JoinedLists ==
    ASSUME NEW T, NEW seqs \in Seq(Seq(T))
    PROVE  FlattenSeq(seqs) \in Seq(T)
<1> DEFINE n == Len(seqs)
           Body(h) == [i \in 1..n |-> IF i = 1 THEN seqs[i] ELSE h[i - 1] \o seqs[i]]
           flatten == CHOOSE h : h = Body(h)
           step == [k \in 1..n |-> [s \in Seq(T) |->
                      IF k = 1 THEN seqs[k] ELSE s \o seqs[k]]]
<1>1. n \in Nat /\ \A k \in 1..n : seqs[k] \in Seq(T)
  BY LenProperties, ElementOfSeq
<1>2. CASE n = 0
  <2>1. seqs = <<>> /\ FlattenSeq(seqs) = seqs
    BY <1>2, EmptySeq DEF FlattenSeq
  <2>2. <<>> \in Seq(T)
    OBVIOUS
  <2> HIDE DEF n, flatten, step
  <2> QED
    BY <2>1, <2>2
<1>3. CASE n # 0
  <2>1. FlattenSeq(seqs) = flatten[n]
    BY <1>3 DEF FlattenSeq
  <2>2. \A k \in 1..n : \A s \in Seq(T) :
           /\ step[k][s] = IF k = 1 THEN seqs[k] ELSE s \o seqs[k]
           /\ step[k][s] \in Seq(T)
    BY <1>1
  <2>3. <<>> \in Seq(T)
    OBVIOUS
  <2> HIDE DEF n, step, flatten
  <2>4. PICK f : LoopValues(f, n, Seq(T), <<>>, step)
    BY <1>1, <2>2, <2>3, LoopsExist
  <2>5. /\ f \in [0..n -> Seq(T)]
        /\ \A k \in 1..n : f[k] = step[k][f[k - 1]]
    BY <2>4 DEF LoopValues
  <2>6. \A k \in 1..n : f[k] = IF k = 1 THEN seqs[k] ELSE f[k - 1] \o seqs[k]
    <3> TAKE k \in 1..n
    <3>1. f[k - 1] \in Seq(T)
      BY <1>1, <2>5
    <3> QED
      BY <2>2, <2>5, <3>1
  <2> DEFINE g == [i \in 1..n |-> f[i]]
  <2>7. \A i \in 1..n : g[i] = IF i = 1 THEN seqs[i] ELSE g[i - 1] \o seqs[i]
    <3> TAKE i \in 1..n
    <3>1. i = 1 \/ i - 1 \in 1..n
      BY <1>1
    <3> QED
      BY <2>6, <3>1
  <2>8. g = Body(g)
    <3>1. g = [i \in 1..n |-> g[i]]
      OBVIOUS
    <3> HIDE DEF g
    <3> QED
      BY <2>7, <3>1
  <2>9. flatten = Body(flatten)
    <3> HIDE DEF Body, g
    <3> QED
      BY <2>8 DEF flatten
  <2>10. \A i \in 1..n :
            flatten[i] = IF i = 1 THEN seqs[i] ELSE flatten[i - 1] \o seqs[i]
    BY <2>9
  <2> DEFINE S == {m \in Nat : m + 1 <= n => flatten[m + 1] \in Seq(T)}
  <2>11. 0 \in S
    BY <1>1, <2>10
  <2>12. ASSUME NEW m \in Nat, m \in S PROVE m + 1 \in S
    <3>1. SUFFICES ASSUME m + 2 <= n PROVE flatten[m + 2] \in Seq(T)
      OBVIOUS
    <3>2. m + 2 \in 1..n /\ m + 2 # 1 /\ (m + 2) - 1 = m + 1 /\ m + 1 <= n
      BY <1>1, <3>1
    <3>3. flatten[m + 1] \in Seq(T) /\ seqs[m + 2] \in Seq(T)
      BY <1>1, <2>12, <3>2
    <3>4. flatten[m + 2] = flatten[m + 1] \o seqs[m + 2]
      BY <2>10, <3>2
    <3> QED
      BY <3>3, <3>4, ConcatProperties
  <2> HIDE DEF S
  <2>13. Nat \subseteq S
    BY <2>11, <2>12, SetInduction
  <2>14. n - 1 \in S /\ (n - 1) + 1 = n
    BY <1>1, <1>3, <2>13
  <2>15. flatten[n] \in Seq(T)
    BY <1>1, <2>14 DEF S
  <2> QED
    BY <2>1, <2>15
<1> QED
  BY <1>2, <1>3

\* The references of an image are pairs of numbers (analyze).
LEMMA ReferencesArePairs ==
    ASSUME NEW i, IsGraphImage(i)
    PROVE  References(i) \in Seq(Nat \X Nat)
<1> DEFINE T == Nat \X Nat
           a == [n \in DOMAIN i.sections |-> SectionReferences(i.sections[n])]
           b == [n \in DOMAIN i.segments |-> SegmentReferences(i.segments[n])]
           c == [n \in DOMAIN i.relocations |->
                   SymbolReferences(i, i.relocations[n])]
<1>1. /\ i.sections \in Seq([index : Nat, kind : STRING, link : Nat, info : Nat])
      /\ i.segments \in Seq([sections : Seq(Nat)])
      /\ i.symbols \in Seq([section_index : Nat])
      /\ i.relocations \in Seq([target_section : Nat, symbol_index : Nat])
  BY DEF IsGraphImage
<1>11. /\ \A n \in 1..Len(i.sections) :
             i.sections[n] \in [index : Nat, kind : STRING, link : Nat, info : Nat]
       /\ \A n \in 1..Len(i.segments) : i.segments[n] \in [sections : Seq(Nat)]
       /\ \A n \in 1..Len(i.symbols) : i.symbols[n] \in [section_index : Nat]
       /\ \A n \in 1..Len(i.relocations) :
             i.relocations[n] \in [target_section : Nat, symbol_index : Nat]
  BY <1>1, ElementOfSeq, Zenon
<1>12. /\ Len(i.sections) \in Nat /\ Len(i.segments) \in Nat
       /\ Len(i.symbols) \in Nat /\ Len(i.relocations) \in Nat
  BY <1>1, LenProperties, Zenon
<1>2. a \in Seq(Seq(T))
  <2>1. ASSUME NEW n \in 1..Len(i.sections)
        PROVE  SectionReferences(i.sections[n]) \in Seq(T)
    <3> DEFINE s == i.sections[n]
    <3>1. s.index \in Nat /\ s.link \in Nat /\ s.info \in Nat
      BY <1>11
    <3>2. <<s.index, s.link>> \in T /\ <<s.index, s.info>> \in T
      BY <3>1
    <3>3. /\ <<<<s.index, s.link>>>> \in Seq(T) /\ <<<<s.index, s.info>>>> \in Seq(T)
          /\ <<>> \in Seq(T)
      BY <3>2
    <3> HIDE DEF s
    <3>4. SectionReferences(s) \in Seq(T)
      BY <3>3, ConcatProperties DEF SectionReferences
    <3> QED
      BY <3>4 DEF s
  <2>2. DOMAIN i.sections = 1..Len(i.sections) /\ Len(i.sections) \in Nat
    BY <1>1
  <2> QED
    BY <2>1, <2>2
<1>3. b \in Seq(Seq(T))
  <2>1. ASSUME NEW n \in 1..Len(i.segments)
        PROVE  SegmentReferences(i.segments[n]) \in Seq(T)
    <3> DEFINE s == i.segments[n].sections
    <3>1. s \in Seq(Nat)
      BY <1>11
    <3>2. CASE s = <<>>
      BY <3>2 DEF SegmentReferences
    <3>3. CASE s # <<>>
      <4>1. Len(s) - 1 \in Nat /\ \A k \in 1..Len(s) : s[k] \in Nat
        BY <3>1, <3>3, EmptySeq
      <4>2. \A k \in 1..(Len(s) - 1) : <<s[k], s[k + 1]>> \in T
        BY <4>1, SMTT(30)
      <4>3. [k \in 1..(Len(s) - 1) |-> <<s[k], s[k + 1]>>] \in Seq(T)
        BY <4>1, <4>2
      <4> QED
        BY <3>3, <4>3 DEF SegmentReferences
    <3> QED
      BY <3>2, <3>3
  <2>2. DOMAIN i.segments = 1..Len(i.segments) /\ Len(i.segments) \in Nat
    BY <1>1
  <2> QED
    BY <2>1, <2>2
<1>4. c \in Seq(Seq(T))
  <2>1. ASSUME NEW n \in 1..Len(i.relocations)
        PROVE  SymbolReferences(i, i.relocations[n]) \in Seq(T)
    <3> DEFINE r == i.relocations[n]
    <3>1. r.target_section \in Nat /\ r.symbol_index \in Nat
      BY <1>11
    <3>2. CASE r.symbol_index < Len(i.symbols)
      <4>1. r.symbol_index + 1 \in 1..Len(i.symbols)
        BY <1>12, <3>1, <3>2
      <4>2. i.symbols[r.symbol_index + 1].section_index \in Nat
        BY <1>11, <4>1
      <4>3. <<r.target_section, i.symbols[r.symbol_index + 1].section_index>> \in T
        BY <3>1, <4>2
      <4> QED
        BY <3>2, <4>3 DEF SymbolReferences
    <3>3. CASE ~(r.symbol_index < Len(i.symbols))
      BY <3>3 DEF SymbolReferences
    <3> QED
      BY <3>2, <3>3
  <2>2. DOMAIN i.relocations = 1..Len(i.relocations) /\ Len(i.relocations) \in Nat
    BY <1>1
  <2> QED
    BY <2>1, <2>2
<1>5. References(i) = FlattenSeq(a) \o FlattenSeq(b) \o FlattenSeq(c)
  BY DEF References
<1> HIDE DEF a, b, c, T
<1>6. FlattenSeq(a) \in Seq(T) /\ FlattenSeq(b) \in Seq(T) /\ FlattenSeq(c) \in Seq(T)
  BY <1>2, <1>3, <1>4, JoinedLists
<1> QED
  BY <1>5, <1>6, ConcatProperties DEF T

\* The relations are those of the references, counted one by one (analyze).
Counted(known, i) ==
    LET found == References(i)
        count == SectionCount(i)
    IN  /\ \A k \in 0..Len(found) : known[k] \in SomeRelations(count)
        /\ known[0] = <<>>
        /\ \A k \in 1..Len(found) :
              known[k] = AddRelation(count, known[k - 1], found[k])

\* The relations are what the loops over the references leave behind.
LEMMA RelationsAreCounted ==
    ASSUME NEW i, IsGraphImage(i)
    PROVE  \E known : Counted(known, i) /\ Relations(i) = known[Len(References(i))]
<1> DEFINE found == References(i)
           count == SectionCount(i)
           n == Len(found)
           T == SomeRelations(count)
           Body(h) == [k \in 0..n |-> IF k = 0 THEN <<>>
                                      ELSE AddRelation(count, h[k - 1], found[k])]
           known == CHOOSE h : h = Body(h)
           step == [k \in 1..n |-> [s \in T |-> AddRelation(count, s, found[k])]]
<1>1. n \in Nat /\ \A k \in 1..n : found[k] \in Nat \X Nat
  BY ReferencesArePairs, LenProperties, ElementOfSeq
<1>2. count \in Nat
  BY DEF IsGraphImage, SectionCount
<1>3. Relations(i) = known[n]
  BY DEF Relations
<1> HIDE DEF found, count, n
<1>4. \A k \in 1..n : \A s \in T : /\ step[k][s] = AddRelation(count, s, found[k])
                                   /\ step[k][s] \in T
  <2> TAKE k \in 1..n
  <2>1. ASSUME NEW s \in T PROVE AddRelation(count, s, found[k]) \in T
    BY <1>1, <1>2, RelationIsAdded
  <2> QED
    BY <2>1
<1>5. <<>> \in T
  BY DEF SomeRelations
<1> HIDE DEF step, known, T
<1>6. PICK f : LoopValues(f, n, T, <<>>, step)
  BY <1>1, <1>4, <1>5, LoopsExist
<1>7. /\ f \in [0..n -> T] /\ f[0] = <<>>
      /\ \A k \in 1..n : f[k] = step[k][f[k - 1]]
  BY <1>6 DEF LoopValues
<1>8. \A k \in 1..n : f[k] = AddRelation(count, f[k - 1], found[k])
  <2> TAKE k \in 1..n
  <2>1. f[k - 1] \in T
    BY <1>1, <1>7
  <2> QED
    BY <1>4, <1>7, <2>1
<1>9. f = Body(f)
  <2>1. f = [k \in 0..n |-> f[k]]
    BY <1>7
  <2>2. \A k \in 0..n : f[k] = IF k = 0 THEN <<>>
                               ELSE AddRelation(count, f[k - 1], found[k])
    BY <1>1, <1>7, <1>8
  <2> QED
    BY <2>1, <2>2
<1>10. known = Body(known)
  <2> HIDE DEF Body
  <2> QED
    BY <1>9 DEF known
<1>11. /\ known[0] = <<>>
       /\ \A k \in 1..n : known[k] = AddRelation(count, known[k - 1], found[k])
  BY <1>1, <1>10
<1> DEFINE S == {m \in Nat : m <= n => known[m] \in T}
<1>12. 0 \in S
  BY <1>5, <1>11
<1>13. ASSUME NEW m \in Nat, m \in S PROVE m + 1 \in S
  <2>1. SUFFICES ASSUME m + 1 <= n PROVE known[m + 1] \in T
    OBVIOUS
  <2>2. m + 1 \in 1..n /\ (m + 1) - 1 = m /\ known[m] \in T
    BY <1>1, <1>13, <2>1
  <2>3. known[m + 1] = AddRelation(count, known[m], found[m + 1])
    BY <1>11, <2>2
  <2> QED
    BY <1>1, <1>2, <2>2, <2>3, RelationIsAdded DEF T
<1> HIDE DEF S
<1>14. Nat \subseteq S
  BY <1>12, <1>13, SetInduction
<1>15. \A k \in 0..n : known[k] \in T
  BY <1>1, <1>14 DEF S
<1> QED
  BY <1>3, <1>11, <1>15 DEF Counted, T, n, found, count

-----------------------------------------------------------------------------
(* The targets of a section, and the paths between sections.               *)

\* What a list holds after an element was appended.
LEMMA RangeOfAppended ==
    ASSUME NEW T, NEW s \in Seq(T), NEW z \in T
    PROVE  Range(Append(s, z)) = Range(s) \cup {z}
<1> DEFINE n == Len(s)
           a == Append(s, z)
<1>1. /\ n \in Nat /\ DOMAIN s = 1..n /\ DOMAIN a = 1..(n + 1)
      /\ a[n + 1] = z /\ \A k \in 1..n : a[k] = s[k]
  BY AppendProperties, LenProperties
<1> HIDE DEF n, a
<1>2. \A k \in 1..(n + 1) : k \in 1..n \/ k = n + 1
  BY <1>1
<1>3. n + 1 \in 1..(n + 1) /\ \A k \in 1..n : k \in 1..(n + 1)
  BY <1>1
<1>4. Range(a) = Range(s) \cup {z}
  BY <1>1, <1>2, <1>3 DEF Range
<1> QED
  BY <1>4 DEF a

\* The targets of n among the first m relations.
Targets(n, m) == {relations[k].target : k \in {j \in 1..m : relations[j].source = n}}

\* A list of the targets of n after relation k.
Extended(n, k, s) ==
    IF relations[k].source = n THEN Append(s, relations[k].target) ELSE s

\* adjacency[n] holds the targets of n (analyze).
LEMMA AdjacencyHoldsTargets ==
    ASSUME NEW count \in Nat, relations \in SomeRelations(count), NEW n
    PROVE  /\ Adjacency(n) \in Seq(0..(count - 1))
           /\ Range(Adjacency(n)) = Targets(n, Len(relations))
<1> DEFINE V == 0..(count - 1)
           L == Len(relations)
           Body(h) == [k \in 0..L |-> IF k = 0 THEN <<>>
                                      ELSE Extended(n, k, h[k - 1])]
           list == CHOOSE h : h = Body(h)
           step == [k \in 1..L |-> [s \in Seq(V) |-> Extended(n, k, s)]]
<1>1. L \in Nat /\ \A k \in 1..L : relations[k] \in RelationOf(V)
  BY LenProperties, ElementOfSeq DEF SomeRelations
<1>2. \A k \in 1..L : relations[k].target \in V
  BY <1>1 DEF RelationOf
<1>3. Adjacency(n) = list[L]
  BY DEF Adjacency, Extended
<1> HIDE DEF L, V
<1>4. \A k \in 1..L : \A s \in Seq(V) : /\ step[k][s] = Extended(n, k, s)
                                        /\ step[k][s] \in Seq(V)
  <2> TAKE k \in 1..L
  <2>1. ASSUME NEW s \in Seq(V) PROVE Extended(n, k, s) \in Seq(V)
    BY <1>2, AppendProperties DEF Extended
  <2> QED
    BY <2>1
<1>5. <<>> \in Seq(V)
  OBVIOUS
<1> HIDE DEF step, list
<1>6. PICK f : LoopValues(f, L, Seq(V), <<>>, step)
  BY <1>1, <1>4, <1>5, LoopsExist
<1>7. /\ f \in [0..L -> Seq(V)] /\ f[0] = <<>>
      /\ \A k \in 1..L : f[k] = step[k][f[k - 1]]
  BY <1>6 DEF LoopValues
<1>8. \A k \in 1..L : f[k] = Extended(n, k, f[k - 1])
  <2> TAKE k \in 1..L
  <2>1. f[k - 1] \in Seq(V)
    BY <1>1, <1>7
  <2> QED
    BY <1>4, <1>7, <2>1
<1>9. f = Body(f)
  <2>1. f = [k \in 0..L |-> f[k]]
    BY <1>7
  <2>2. \A k \in 0..L : f[k] = IF k = 0 THEN <<>>
                               ELSE Extended(n, k, f[k - 1])
    BY <1>1, <1>7, <1>8
  <2> QED
    BY <2>1, <2>2
<1>10. list = Body(list)
  <2> HIDE DEF Body
  <2> QED
    BY <1>9 DEF list
<1>11. /\ list[0] = <<>>
       /\ \A k \in 1..L : list[k] = Extended(n, k, list[k - 1])
  BY <1>1, <1>10
<1> DEFINE S == {m \in Nat : m <= L => /\ list[m] \in Seq(V)
                                       /\ Range(list[m]) = Targets(n, m)}
<1>12. 0 \in S
  <2>1. Range(<<>>) = {} /\ 1..0 = {}
    BY DEF Range
  <2>2. Targets(n, 0) = {}
    BY <2>1 DEF Targets
  <2> QED
    BY <1>5, <1>11, <2>1, <2>2
<1>13. ASSUME NEW m \in Nat, m \in S PROVE m + 1 \in S
  <2>1. SUFFICES ASSUME m + 1 <= L
                 PROVE  /\ list[m + 1] \in Seq(V)
                        /\ Range(list[m + 1]) = Targets(n, m + 1)
    OBVIOUS
  <2>2. /\ m + 1 \in 1..L /\ (m + 1) - 1 = m
        /\ list[m] \in Seq(V) /\ Range(list[m]) = Targets(n, m)
    BY <1>1, <1>13, <2>1
  <2>3. \A j \in 1..(m + 1) : j \in 1..m \/ j = m + 1
    OBVIOUS
  <2>4. \A j \in 1..m : j \in 1..(m + 1)
    OBVIOUS
  <2>5. m + 1 \in 1..(m + 1)
    OBVIOUS
  <2>6. CASE relations[m + 1].source = n
    <3> DEFINE t == relations[m + 1].target
    <3>1. list[m + 1] = Append(list[m], t) /\ t \in V
      BY <1>2, <1>11, <2>2, <2>6 DEF Extended
    <3>2. list[m + 1] \in Seq(V) /\ Range(list[m + 1]) = Range(list[m]) \cup {t}
      <4> HIDE DEF t
      <4> QED
        BY <2>2, <3>1, AppendProperties, RangeOfAppended
    <3>3. Targets(n, m + 1) = Targets(n, m) \cup {t}
      BY <2>3, <2>4, <2>5, <2>6 DEF Targets
    <3> QED
      BY <2>2, <3>2, <3>3
  <2>7. CASE relations[m + 1].source # n
    <3>1. list[m + 1] = list[m]
      BY <1>11, <2>2, <2>7 DEF Extended
    <3>2. Targets(n, m + 1) = Targets(n, m)
      BY <2>3, <2>4, <2>7 DEF Targets
    <3> QED
      BY <2>2, <3>1, <3>2
  <2> QED
    BY <2>6, <2>7
<1> HIDE DEF S
<1>14. Nat \subseteq S
  BY <1>12, <1>13, SetInduction
<1>15. L \in S /\ L <= L
  BY <1>1, <1>14
<1>16. list[L] \in Seq(V) /\ Range(list[L]) = Targets(n, L)
  BY <1>15 DEF S
<1> QED
  BY <1>3, <1>16 DEF L, V

\* The targets of each section, and the pairs of sections that no closed set
\* of sections separates.
Out == [x \in Nodes |-> Adjacency(x)]
Linked == {p \in Nodes \X Nodes : \A set \in ClosedSets : p[1] \in set => p[2] \in set}

\* An edge leads to the targets.
LEMMA EdgesAreTargets ==
    ASSUME SectionCount(graph_image) \in Nat,
           relations \in SomeRelations(SectionCount(graph_image)),
           NEW x \in Nodes, NEW y
    PROVE  /\ <<x, y>> \in Edges <=> y \in Range(Adjacency(x))
           /\ <<x, y>> \in Edges <=> \E e \in 1..Len(Adjacency(x)) : Adjacency(x)[e] = y
           /\ Adjacency(x) \in Seq(Nodes)
<1> DEFINE L == Len(relations)
           a == Adjacency(x)
<1>1. a \in Seq(Nodes) /\ Range(a) = Targets(x, L)
  BY AdjacencyHoldsTargets DEF Nodes
<1>2. DOMAIN relations = 1..L
  BY LenProperties DEF SomeRelations
<1>3. <<x, y>> \in Edges <=> y \in Targets(x, L)
  <2> HIDE DEF L
  <2> QED
    BY <1>2 DEF Edges, Targets
<1> HIDE DEF a
<1>4. DOMAIN a = 1..Len(a)
  BY <1>1, LenProperties
<1>5. y \in Range(a) <=> \E e \in 1..Len(a) : a[e] = y
  BY <1>4 DEF Range
<1> QED
  BY <1>1, <1>3, <1>5 DEF a

\* An edge joins two sections of the image (add_relation refuses others).
LEMMA EdgesJoinNodes ==
    ASSUME SectionCount(graph_image) \in Nat,
           relations \in SomeRelations(SectionCount(graph_image)), NEW p \in Edges
    PROVE  p = <<p[1], p[2]>> /\ p[1] \in Nodes /\ p[2] \in Nodes
<1>1. PICK k \in DOMAIN relations : p = <<relations[k].source, relations[k].target>>
  BY DEF Edges
<1>2. relations[k] \in RelationOf(Nodes)
  <2>1. DOMAIN relations = 1..Len(relations)
    BY LenProperties DEF SomeRelations
  <2> QED
    BY <2>1, ElementOfSeq DEF SomeRelations, Nodes
<1>3. relations[k].source \in Nodes /\ relations[k].target \in Nodes
  BY <1>2 DEF RelationOf
<1> QED
  BY <1>1, <1>3

\* What the search needs to know of paths holds of the pairs that are linked.
LEMMA LinkedArePaths ==
    ASSUME SectionCount(graph_image) \in Nat,
           relations \in SomeRelations(SectionCount(graph_image))
    PROVE  PathsAre(Nodes, Out, Linked)
<1>1. Out \in [Nodes -> Seq(Nodes)] /\ \A x \in Nodes : Out[x] = Adjacency(x)
  BY EdgesAreTargets DEF Out
<1>2. \A x \in Nodes : <<x, x>> \in Linked
  BY DEF Linked
<1>3. ASSUME NEW x \in Nodes, NEW e \in 1..Len(Out[x])
      PROVE  <<x, Out[x][e]>> \in Linked
  <2>1. /\ <<x, Out[x][e]>> \in Edges /\ Out[x][e] \in Nodes
    <3>1. <<x, Adjacency(x)[e]>> \in Edges /\ Adjacency(x) \in Seq(Nodes)
      BY <1>1, EdgesAreTargets
    <3>2. Adjacency(x)[e] \in Nodes
      BY <1>1, <3>1, ElementOfSeq
    <3> QED
      BY <1>1, <3>1, <3>2
  <2> QED
    BY <2>1 DEF Linked, ClosedSets
<1>4. ASSUME NEW x \in Nodes, NEW y \in Nodes, NEW z \in Nodes,
             <<x, y>> \in Linked, <<y, z>> \in Linked
      PROVE  <<x, z>> \in Linked
  BY <1>4 DEF Linked
<1>5. ASSUME NEW S \in SUBSET Nodes,
             \A x \in S : \A e \in 1..Len(Out[x]) : Out[x][e] \in S,
             NEW x \in Nodes, NEW y \in Nodes, <<x, y>> \in Linked, x \in S
      PROVE  y \in S
  <2>1. ASSUME NEW p \in Edges, p[1] \in S PROVE p[2] \in S
    <3>1. p = <<p[1], p[2]>> /\ p[1] \in Nodes
      BY EdgesJoinNodes
    <3>2. PICK e \in 1..Len(Adjacency(p[1])) : Adjacency(p[1])[e] = p[2]
      BY <3>1, EdgesAreTargets
    <3> QED
      BY <1>1, <1>5, <2>1, <3>1, <3>2
  <2>2. S \in ClosedSets
    BY <2>1 DEF ClosedSets
  <2> QED
    BY <1>5, <2>2 DEF Linked
<1> QED
  BY <1>1, <1>2, <1>3, <1>4, <1>5 DEF PathsAre

\* The strong components are the classes.
LEMMA ComponentsAreClasses ==
    StrongComponents = {ClassOf(Nodes, Linked, n) : n \in Nodes}
<1> DEFINE class(n) ==
             {m \in Nodes : /\ \A set \in ClosedSets : n \in set => m \in set
                            /\ \A set \in ClosedSets : m \in set => n \in set}
<1>1. ASSUME NEW n \in Nodes PROVE class(n) = ClassOf(Nodes, Linked, n)
  BY DEF ClassOf, Linked
<1>2. StrongComponents = {class(n) : n \in Nodes}
  BY Zenon DEF StrongComponents
<1> HIDE DEF class
<1> QED
  BY <1>1, <1>2

-----------------------------------------------------------------------------
(* The inductive invariant of the analysis.                                *)

\* A component that makes the graph cyclic.
IsCycle(c) == Cardinality(c) > 1 \/ \E x \in c : x \in Range(Adjacency(x))

\* The report is empty, and so are the tables of the search.
Fresh ==
    /\ relations = <<>> /\ components = {} /\ cyclic = FALSE
    /\ index_of = [n \in Nodes |-> -1] /\ low_link = [n \in Nodes |-> -1]
    /\ stack = <<>> /\ on_stack = [n \in Nodes |-> FALSE]
    /\ next_index = 0 /\ node = 0 /\ frames = <<>>

\* The components so far are classes, and the search is where it should be.
Searched ==
    /\ relations = Relations(graph_image)
    /\ SearchOK(Nodes, Out, Linked, index_of, low_link, stack, next_index, frames,
                UNION components)
    /\ on_stack \in [Nodes -> BOOLEAN]
    /\ \A n \in Nodes : on_stack[n] <=> IsOpenNode(index_of, UNION components, n)
    /\ \A c \in components : \E n \in Nodes : n \in c /\ c = ClassOf(Nodes, Linked, n)
    /\ node \in 0..SectionCount(graph_image)
    /\ \A n \in Nodes : n < node => index_of[n] >= 0
    /\ cyclic \in BOOLEAN
    /\ cyclic <=> \E c \in components : IsCycle(c)

\* The report is empty, or the search is where it should be; when the analysis
\* returns, all sections were visited and no call is active.
GraphInv ==
    /\ call \in DOMAIN GraphImages
    /\ \/ graph_pc = "idle" /\ graph_error = "none" /\ Fresh
       \/ graph_pc = "returned" /\ graph_error = "resource_limit" /\ Fresh
       \/ graph_pc = "searching" /\ graph_error = "none" /\ Searched
       \/ /\ graph_pc = "returned" /\ graph_error = "none" /\ Searched
          /\ frames = <<>> /\ node = SectionCount(graph_image)

\* What is known of the image of the call.
LEMMA ImageFacts ==
    ASSUME call \in DOMAIN GraphImages
    PROVE  /\ IsGraphImage(graph_image)
           /\ SectionCount(graph_image) \in Nat
           /\ Relations(graph_image) \in SomeRelations(SectionCount(graph_image))
<1>1. IsGraphImage(graph_image)
  BY GraphAssumption DEF graph_image
<1>2. SectionCount(graph_image) \in Nat
  BY <1>1, LenProperties, Zenon DEF IsGraphImage, SectionCount
<1>3. PICK known : /\ Counted(known, graph_image)
                   /\ Relations(graph_image) = known[Len(References(graph_image))]
  BY <1>1, RelationsAreCounted
<1>4. Len(References(graph_image)) \in Nat
  BY <1>1, ReferencesArePairs, LenProperties
<1> QED
  BY <1>1, <1>2, <1>3, <1>4 DEF Counted

\* Nothing of the graph changes during the search.
LEMMA SameGraph ==
    ASSUME call' = call, relations' = relations
    PROVE  /\ graph_image' = graph_image /\ Nodes' = Nodes
           /\ Out' = Out /\ Linked' = Linked
           /\ \A x : Adjacency(x)' = Adjacency(x)
           /\ \A c : IsCycle(c)' <=> IsCycle(c)
<1>1. graph_image' = graph_image /\ Nodes' = Nodes
  BY DEF graph_image, Nodes
<1>2. ASSUME NEW CONSTANT x PROVE Adjacency(x)' = Adjacency(x)
  BY DEF Adjacency
<1>3. Out' = Out
  BY <1>1, <1>2 DEF Out
<1>4. Linked' = Linked
  <2>1. ClosedSets' = ClosedSets
    BY <1>1 DEF ClosedSets, Edges
  <2> QED
    BY <1>1, <2>1 DEF Linked
<1>5. ASSUME NEW CONSTANT c PROVE IsCycle(c)' <=> IsCycle(c)
  BY <1>2 DEF IsCycle
<1> QED
  BY <1>1, <1>2, <1>3, <1>4, <1>5

\* The search before the first call.
LEMMA NothingSearched ==
    ASSUME NEW V, NEW out, NEW R, NEW idx, idx = [n \in V |-> -1]
    PROVE  SearchOK(V, out, R, idx, idx, <<>>, 0, <<>>, {})
<1>1. /\ idx \in [V -> Int] /\ \A x \in V : idx[x] = -1
  OBVIOUS
<1>2. \A x \in V : ~IsOpenNode(idx, {}, x)
  BY <1>1 DEF IsOpenNode
<1>3. /\ Len(<<>>) = 0 /\ 1..0 = {} /\ 1..(0 - 1) = {}
      /\ <<>> \in Seq(V) /\ <<>> \in Seq([node : V, edge : Nat])
  OBVIOUS
<1>4. NumbersOK(V, idx, 0, {})
  BY <1>1 DEF NumbersOK
<1>5. StackOK(V, idx, <<>>, {})
  BY <1>2, <1>3 DEF StackOK
<1>6. FramesOK(V, out, idx, <<>>, {})
  BY <1>3 DEF FramesOK
<1>7. EdgesOK(V, out, idx, <<>>, {})
  BY <1>2 DEF EdgesOK
<1>8. ReachOK(V, R, idx, <<>>, {})
  BY <1>2, <1>3 DEF ReachOK
<1>9. LowOK(V, out, R, idx, idx, <<>>, {})
  BY <1>1, <1>3 DEF LowOK
<1> QED
  BY <1>4, <1>5, <1>6, <1>7, <1>8, <1>9 DEF SearchOK

\* With no active call nothing is open.
LEMMA NothingIsOpen ==
    ASSUME NEW V, NEW out, NEW R, NEW idx, NEW low, NEW stk, NEW nxt, NEW closed,
           SearchOK(V, out, R, idx, low, stk, nxt, <<>>, closed)
    PROVE  stk = <<>> /\ \A x \in V : ~IsOpenNode(idx, closed, x)
<1>1. \A x \in V : ~IsOpenNode(idx, closed, x)
  <2>1. 1..Len(<<>>) = {}
    OBVIOUS
  <2>2. ReachOK(V, R, idx, <<>>, closed)
    BY DEF SearchOK
  <2> QED
    BY <2>1, <2>2 DEF ReachOK
<1>2. StackOK(V, idx, stk, closed)
  BY DEF SearchOK
<1>3. stk \in Seq(V) /\ \A i \in 1..Len(stk) : stk[i] \in V /\ IsOpenNode(idx, closed, stk[i])
  BY <1>2, ElementOfSeq DEF StackOK
<1>4. Len(stk) = 0
  <2>1. SUFFICES ASSUME Len(stk) # 0 PROVE FALSE
    OBVIOUS
  <2>2. 1 \in 1..Len(stk)
    BY <1>3, <2>1, LenProperties
  <2> QED
    BY <1>1, <1>3, <2>2
<1> QED
  BY <1>1, <1>3, <1>4, EmptySeq

\* The analyzer starts with an empty report.
LEMMA GraphInvInit == GraphInit => GraphInv
  BY DEF GraphInit, GraphInv, Fresh

\* analyze computes the relations and starts the search, or refuses the image.
LEMMA GraphBegins == GraphInv /\ BeginGraph => GraphInv'
<1> SUFFICES ASSUME GraphInv, BeginGraph PROVE GraphInv'
  OBVIOUS
<1>1. /\ call \in DOMAIN GraphImages /\ graph_pc = "idle" /\ graph_error = "none"
      /\ Fresh
  BY DEF GraphInv, BeginGraph
<1>2. /\ call' = call /\ components' = components /\ cyclic' = cyclic
      /\ index_of' = index_of /\ low_link' = low_link /\ stack' = stack
      /\ on_stack' = on_stack /\ next_index' = next_index
      /\ node' = node /\ frames' = frames
  BY DEF BeginGraph, search
<1>3. graph_image' = graph_image /\ Nodes' = Nodes
  BY <1>2 DEF graph_image, Nodes
<1>4. CASE /\ graph_pc' = "returned" /\ graph_error' = "resource_limit"
           /\ relations' = relations
  BY <1>1, <1>2, <1>3, <1>4 DEF GraphInv, Fresh
<1>5. CASE /\ graph_pc' = "searching" /\ graph_error' = graph_error
           /\ relations' = Relations(graph_image)
  <2>1. relations' = Relations(graph_image)'
    BY <1>3, <1>5
  <2>2. SearchOK(Nodes, Out', Linked', index_of, low_link, <<>>, 0, <<>>, {})
    BY <1>1, NothingSearched DEF Fresh
  <2>3. UNION components = {}
    BY <1>1 DEF Fresh
  <2>4. SearchOK(Nodes', Out', Linked', index_of', low_link', stack', next_index',
                 frames', (UNION components)')
    BY <1>1, <1>2, <1>3, <2>2, <2>3 DEF Fresh
  <2>5. /\ \A n \in Nodes : ~on_stack[n] /\ index_of[n] = -1
        /\ on_stack \in [Nodes -> BOOLEAN] /\ components = {} /\ cyclic = FALSE
        /\ node = 0
    BY <1>1 DEF Fresh
  <2>6. \A n \in Nodes : ~IsOpenNode(index_of, {}, n)
    BY <2>5 DEF IsOpenNode
  <2>7. SectionCount(graph_image) \in Nat /\ \A n \in Nodes : ~(n < 0)
    BY <1>1, ImageFacts DEF Nodes
  <2>8. Searched'
    <3>1. (UNION components)' = {}
      BY <1>2, <2>3
    <3>2. /\ (on_stack \in [Nodes -> BOOLEAN])'
          /\ (\A n \in Nodes : on_stack[n]
                  <=> IsOpenNode(index_of, UNION components, n))'
      BY <1>2, <1>3, <2>5, <2>6, <3>1
    <3>3. /\ (\A c \in components : \E n \in Nodes :
                  n \in c /\ c = ClassOf(Nodes, Linked, n))'
          /\ (cyclic \in BOOLEAN)' /\ (cyclic <=> \E c \in components : IsCycle(c))'
      BY <1>2, <2>5
    <3>4. /\ (node \in 0..SectionCount(graph_image))'
          /\ (\A n \in Nodes : n < node => index_of[n] >= 0)'
      BY <1>2, <1>3, <2>5, <2>7
    <3> QED
      BY <2>1, <2>4, <3>2, <3>3, <3>4, Zenon DEF Searched
  <2> QED
    BY <1>1, <1>2, <1>5, <2>8 DEF GraphInv
<1> QED
  BY <1>4, <1>5 DEF BeginGraph

\* What is known of the graph during the search.
LEMMA SearchFacts ==
    ASSUME call \in DOMAIN GraphImages, Searched
    PROVE  /\ PathsAre(Nodes, Out, Linked)
           /\ SectionCount(graph_image) \in Nat
           /\ \A x \in Nodes : Out[x] = Adjacency(x)
<1>1. /\ SectionCount(graph_image) \in Nat
      /\ relations \in SomeRelations(SectionCount(graph_image))
  BY ImageFacts DEF Searched
<1> QED
  BY <1>1, LinkedArePaths DEF Out

\* What a step of the search that reports no component has to show.
LEMMA SearchGoesOn ==
    ASSUME call \in DOMAIN GraphImages, Searched,
           UNCHANGED <<call, relations, components, cyclic>>,
           SearchOK(Nodes, Out, Linked, index_of', low_link', stack', next_index',
                    frames', UNION components),
           on_stack' \in [Nodes -> BOOLEAN],
           \A n \in Nodes :
              on_stack'[n] <=> IsOpenNode(index_of', UNION components, n),
           node' \in 0..SectionCount(graph_image),
           \A n \in Nodes : n < node' => index_of'[n] >= 0
    PROVE  Searched'
<1>1. /\ graph_image' = graph_image /\ Nodes' = Nodes /\ Out' = Out
      /\ Linked' = Linked /\ \A c : IsCycle(c)' <=> IsCycle(c)
  BY SameGraph
<1>2. relations' = relations /\ components' = components /\ cyclic' = cyclic
  OBVIOUS
<1>3. (relations = Relations(graph_image))'
  BY <1>1, <1>2 DEF Searched
<1>4. SearchOK(Nodes, Out, Linked, index_of, low_link, stack, next_index, frames,
               UNION components)'
  BY <1>1, <1>2
<1>5. /\ (on_stack \in [Nodes -> BOOLEAN])'
      /\ (\A n \in Nodes : on_stack[n] <=> IsOpenNode(index_of, UNION components, n))'
  BY <1>1, <1>2
<1>6. (\A c \in components : \E n \in Nodes :
          n \in c /\ c = ClassOf(Nodes, Linked, n))'
  BY <1>1, <1>2 DEF Searched
<1>7. /\ (node \in 0..SectionCount(graph_image))'
      /\ (\A n \in Nodes : n < node => index_of[n] >= 0)'
  BY <1>1
<1>8. (cyclic \in BOOLEAN)' /\ (cyclic <=> \E c \in components : IsCycle(c))'
  <2>1. (\E c \in components' : IsCycle(c)') <=> (\E c \in components : IsCycle(c))
    BY <1>1, <1>2
  <2>2. cyclic \in BOOLEAN /\ (cyclic <=> \E c \in components : IsCycle(c))
    BY DEF Searched
  <2>3. cyclic' \in BOOLEAN
    BY <1>2, <2>2
  <2>4. cyclic' <=> \E c \in components' : IsCycle(c)'
    BY <1>2, <2>1, <2>2
  <2> QED
    BY <2>3, <2>4
<1> QED
  BY <1>3, <1>4, <1>5, <1>6, <1>7, <1>8, Zenon DEF Searched

\* A call of strong_connect.
LEMMA SearchEnters ==
    ASSUME call \in DOMAIN GraphImages, Searched,
           NEW n \in Nodes, index_of[n] < 0, LeadsTo(Out, frames, n), EnterNode(n),
           UNCHANGED <<call, relations, components, cyclic>>,
           node' \in 0..SectionCount(graph_image),
           \A x \in Nodes : x < node' => x < node \/ x = n
    PROVE  Searched'
<1> DEFINE done == UNION components
<1>1. PathsAre(Nodes, Out, Linked)
  BY SearchFacts
<1>2. SearchOK(Nodes, Out, Linked, index_of, low_link, stack, next_index, frames, done)
  BY DEF Searched
<1>3. /\ index_of' = [index_of EXCEPT ![n] = next_index]
      /\ low_link' = [low_link EXCEPT ![n] = next_index]
      /\ stack' = Append(stack, n) /\ next_index' = next_index + 1
      /\ frames' = Append(frames, [node |-> n, edge |-> 1])
      /\ on_stack' = [on_stack EXCEPT ![n] = TRUE]
  BY DEF EnterNode
<1>4. SearchOK(Nodes, Out, Linked, index_of', low_link', stack', next_index',
               frames', done)
  BY <1>1, <1>2, <1>3, EnterKeeps
<1>5. Entered(Nodes, index_of, index_of', next_index, done, n)
  <2>1. NumbersOK(Nodes, index_of, next_index, done)
    BY <1>2 DEF SearchOK
  <2> QED
    BY <1>3, <2>1, EnterNumbers
<1>6. ASSUME NEW x \in Nodes
      PROVE  /\ IsOpenNode(index_of', done, x) <=>
                   IsOpenNode(index_of, done, x) \/ x = n
             /\ index_of[x] >= 0 \/ x = n => index_of'[x] >= 0
  BY <1>5 DEF Entered
<1>7. /\ on_stack \in [Nodes -> BOOLEAN]
      /\ \A x \in Nodes : on_stack[x] <=> IsOpenNode(index_of, done, x)
      /\ \A x \in Nodes : x < node => index_of[x] >= 0
  BY DEF Searched
<1> HIDE DEF done
<1>8. on_stack' \in [Nodes -> BOOLEAN]
  BY <1>3, <1>7
<1>9. \A x \in Nodes : on_stack'[x] <=> IsOpenNode(index_of', done, x)
  <2> TAKE x \in Nodes
  <2>1. on_stack'[x] <=> on_stack[x] \/ x = n
    BY <1>3, <1>7
  <2> QED
    BY <1>6, <1>7, <2>1
<1>10. \A x \in Nodes : x < node' => index_of'[x] >= 0
  BY <1>6, <1>7
<1> QED
  BY <1>4, <1>8, <1>9, <1>10, SearchGoesOn DEF done

\* The loop over all sections.
LEMMA GraphNextNode == GraphInv /\ NextNode => GraphInv'
<1> SUFFICES ASSUME GraphInv, NextNode PROVE GraphInv'
  OBVIOUS
<1>1. /\ call \in DOMAIN GraphImages /\ graph_pc = "searching"
      /\ graph_error = "none" /\ Searched
  BY DEF GraphInv, NextNode
<1>2. /\ call' = call /\ graph_pc' = graph_pc /\ graph_error' = graph_error
      /\ relations' = relations /\ components' = components /\ cyclic' = cyclic
      /\ frames = <<>> /\ node < SectionCount(graph_image) /\ node' = node + 1
  BY DEF NextNode
<1>3. SectionCount(graph_image) \in Nat /\ node \in 0..SectionCount(graph_image)
  BY <1>1, SearchFacts DEF Searched
<1>4. node \in Nodes /\ node' \in 0..SectionCount(graph_image)
  BY <1>2, <1>3 DEF Nodes
<1>5. \A x \in Nodes : x < node' => x < node \/ x = node
  BY <1>2, <1>3 DEF Nodes
<1>6. Searched'
  <2>1. CASE index_of[node] < 0 /\ EnterNode(node)
    <3>1. LeadsTo(Out, frames, node)
      BY <1>2 DEF LeadsTo
    <3> QED
      BY <1>1, <1>2, <1>4, <1>5, <2>1, <3>1, SearchEnters
  <2>2. CASE index_of[node] >= 0 /\ UNCHANGED <<search, frames>>
    <3>1. /\ index_of' = index_of /\ low_link' = low_link /\ stack' = stack
          /\ on_stack' = on_stack /\ next_index' = next_index /\ frames' = frames
      BY <2>2 DEF search
    <3>2. \A x \in Nodes : x < node' => index_of'[x] >= 0
      BY <1>1, <1>5, <2>2, <3>1 DEF Searched
    <3>3. /\ SearchOK(Nodes, Out, Linked, index_of', low_link', stack', next_index',
                      frames', UNION components)
          /\ on_stack' \in [Nodes -> BOOLEAN]
          /\ \A n \in Nodes :
                on_stack'[n] <=> IsOpenNode(index_of', UNION components, n)
      BY <1>1, <3>1 DEF Searched
    <3> QED
      BY <1>1, <1>2, <1>4, <3>2, <3>3, SearchGoesOn
  <2> QED
    BY <2>1, <2>2 DEF NextNode
<1> QED
  BY <1>1, <1>2, <1>6 DEF GraphInv

\* A frame that passes an edge.
FrameOf(V) == [node : V, edge : Nat]
PassEdge(f) == [f EXCEPT !.edge = @ + 1]

\* It stays a frame, of the same section.
LEMMA EdgeOfFrame ==
    ASSUME NEW V, NEW f, f \in FrameOf(V)
    PROVE  /\ PassEdge(f) \in FrameOf(V) /\ PassEdge(f).node = f.node
           /\ PassEdge(f).edge = f.edge + 1
  BY DEF FrameOf, PassEdge

\* Frames of which the last one passes an edge.
TopMoved(s, m) == [s EXCEPT ![m].edge = @ + 1]

\* The others are as they were.
IsTopMoved(V, s, m, z) ==
    /\ z \in Seq(FrameOf(V)) /\ Len(z) = m
    /\ z[m] = PassEdge(s[m]) /\ \A k \in 1..(m - 1) : z[k] = s[k]

\* Moving the last frame leaves the others alone.
LEMMA TopFrameMoves ==
    ASSUME NEW V, NEW s \in Seq(FrameOf(V)), NEW m, Len(s) = m, m # 0
    PROVE  IsTopMoved(V, s, m, TopMoved(s, m))
<1> DEFINE z == TopMoved(s, m)
<1>1. m \in Nat /\ m \in 1..m /\ DOMAIN s = 1..m /\ \A k \in 1..m : s[k] \in FrameOf(V)
  BY LenProperties, ElementOfSeq
<1>2. z = [s EXCEPT ![m] = PassEdge(s[m])]
  BY DEF PassEdge, TopMoved
<1>3. PassEdge(s[m]) \in FrameOf(V)
  BY <1>1, EdgeOfFrame
<1> QED
  BY <1>1, <1>2, <1>3 DEF IsTopMoved

\* The frames of the caller's loop after a turn, or after a return to it.
LEMMA FrameIsMoved ==
    ASSUME NEW V, NEW frm \in Seq(FrameOf(V)), NEW m \in 1..Len(frm),
           NEW s, s = SubSeq(frm, 1, m), NEW z, z = TopMoved(s, m)
    PROVE  FrameMoved(V, frm, z, m)
<1>1. Len(frm) \in Nat /\ \A k \in 1..Len(frm) : frm[k] \in FrameOf(V)
  BY LenProperties, ElementOfSeq
<1>2. /\ s \in Seq(FrameOf(V)) /\ Len(s) = m /\ m # 0 /\ m \in 0..Len(frm)
      /\ \A k \in 1..m : s[k] = frm[k]
  BY <1>1
<1>3. /\ z \in Seq(FrameOf(V)) /\ Len(z) = m
      /\ z[m] = PassEdge(s[m]) /\ \A k \in 1..(m - 1) : z[k] = s[k]
  <2>1. IsTopMoved(V, s, m, TopMoved(s, m))
    BY <1>2, TopFrameMoves
  <2>2. IsTopMoved(V, s, m, z)
    BY <2>1
  <2> QED
    BY <2>2 DEF IsTopMoved
<1>4. m \in 1..Len(frm) /\ m \in 1..m /\ \A k \in 1..m : k \in 1..Len(frm)
  BY <1>1
<1>5. z[m].node = frm[m].node /\ z[m].edge = frm[m].edge + 1
  BY <1>1, <1>2, <1>3, <1>4, EdgeOfFrame
<1>6. \A k \in 1..(m - 1) : k \in 1..m /\ z[k] = frm[k]
  BY <1>1, <1>2, <1>3
<1>7. \A k \in 1..m : k \in 1..(m - 1) \/ k = m
  BY <1>1
<1>8. \A k \in 1..m : z[k].node = frm[k].node
  BY <1>5, <1>6, <1>7
<1> QED
  BY <1>2, <1>3, <1>5, <1>6, <1>8 DEF FrameMoved, FrameOf

\* A turn of the loop moves the top frame and removes none.
LEMMA AllFramesMove ==
    ASSUME NEW V, NEW frm \in Seq(FrameOf(V)), Len(frm) # 0,
           NEW z, z = TopMoved(frm, Len(frm))
    PROVE  FrameMoved(V, frm, z, Len(frm))
<1> DEFINE L == Len(frm)
<1>1. L \in Nat /\ L \in 1..L /\ frm = SubSeq(frm, 1, L)
  BY LenProperties
<1> HIDE DEF L
<1>2. PICK m : m = L
  OBVIOUS
<1>3. m \in 1..Len(frm) /\ frm = SubSeq(frm, 1, m) /\ z = TopMoved(frm, m)
  BY <1>1, <1>2 DEF L
<1>4. FrameMoved(V, frm, z, m)
  BY <1>3, FrameIsMoved
<1> QED
  BY <1>2, <1>4 DEF L

\* The return of the first call leaves no frame.
LEMMA NoFramesLeft ==
    ASSUME NEW V, NEW frm \in Seq(FrameOf(V)) PROVE FrameMoved(V, frm, <<>>, 0)
<1>1. Len(frm) \in Nat /\ 1..0 = {} /\ 1..(0 - 1) = {} /\ Len(<<>>) = 0
      /\ <<>> \in Seq(FrameOf(V)) /\ 0 \in 0..Len(frm)
  BY LenProperties
<1> QED
  BY <1>1 DEF FrameMoved, FrameOf

\* What is known of the top call.
LEMMA TopCall ==
    ASSUME call \in DOMAIN GraphImages, Searched, frames # <<>>
    PROVE  /\ Len(frames) \in Nat /\ Len(frames) # 0
           /\ frames \in Seq(FrameOf(Nodes))
           /\ TopFrame = frames[Len(frames)]
           /\ TopFrame.node \in Nodes /\ TopFrame.edge \in Nat /\ TopFrame.edge >= 1
           /\ Out[TopFrame.node] = Adjacency(TopFrame.node)
           /\ Adjacency(TopFrame.node) \in Seq(Nodes)
           /\ IsOpenNode(index_of, UNION components, TopFrame.node)
<1>1. FramesOK(Nodes, Out, index_of, frames, UNION components)
  BY DEF Searched, SearchOK
<1>2. /\ Len(frames) \in Nat /\ Len(frames) # 0
      /\ \A k \in 1..Len(frames) :
            /\ frames[k].node \in Nodes /\ frames[k].edge \in Nat /\ frames[k].edge >= 1
            /\ IsOpenNode(index_of, UNION components, frames[k].node)
  BY <1>1, FrameFields
<1>3. Len(frames) \in 1..Len(frames)
  BY <1>2
<1>4. PathsAre(Nodes, Out, Linked) /\ \A x \in Nodes : Out[x] = Adjacency(x)
  BY SearchFacts
<1>5. frames \in Seq(FrameOf(Nodes))
  BY <1>1 DEF FramesOK, FrameOf
<1>6. Out[TopFrame.node] \in Seq(Nodes)
  BY <1>2, <1>3, <1>4 DEF PathsAre, TopFrame
<1> QED
  BY <1>2, <1>3, <1>4, <1>5, <1>6 DEF TopFrame

\* A turn of the loop of strong_connect.
LEMMA GraphFollows == GraphInv /\ Follow => GraphInv'
<1> SUFFICES ASSUME GraphInv, Follow PROVE GraphInv'
  OBVIOUS
<1> DEFINE n == TopFrame.node
           e == TopFrame.edge
           t == Adjacency(n)[e]
           done == UNION components
<1>1. /\ call \in DOMAIN GraphImages /\ graph_pc = "searching"
      /\ graph_error = "none" /\ Searched
  BY DEF GraphInv, Follow
<1>2. /\ call' = call /\ graph_pc' = graph_pc /\ graph_error' = graph_error
      /\ relations' = relations /\ components' = components /\ cyclic' = cyclic
      /\ node' = node /\ frames # <<>> /\ e <= Len(Adjacency(n))
  BY DEF Follow
<1>3. /\ Len(frames) \in Nat /\ Len(frames) # 0 /\ frames \in Seq(FrameOf(Nodes))
      /\ TopFrame = frames[Len(frames)]
      /\ n \in Nodes /\ e \in 1..Len(Out[n]) /\ Out[n] = Adjacency(n)
  <2>1. Len(Adjacency(n)) \in Nat
    BY <1>1, <1>2, TopCall, LenProperties
  <2> QED
    BY <1>1, <1>2, <2>1, TopCall
<1>4. t \in Nodes /\ t = Out[n][e]
  BY <1>1, <1>2, <1>3, TopCall, ElementOfSeq
<1>5. /\ SearchOK(Nodes, Out, Linked, index_of, low_link, stack, next_index, frames, done)
      /\ on_stack \in [Nodes -> BOOLEAN]
      /\ \A x \in Nodes : on_stack[x] <=> IsOpenNode(index_of, done, x)
      /\ node \in 0..SectionCount(graph_image)
      /\ \A x \in Nodes : x < node => index_of[x] >= 0
  BY <1>1 DEF Searched
<1>6. /\ PathsAre(Nodes, Out, Linked)
      /\ index_of \in [Nodes -> Int] /\ low_link \in [Nodes -> Int]
  BY <1>1, <1>5, SearchFacts DEF SearchOK, NumbersOK, LowOK
<1>7. Searched'
  <2>1. CASE index_of[t] < 0 /\ EnterNode(t)
    <3>1. LeadsTo(Out, frames, t)
      BY <1>3, <1>4 DEF LeadsTo
    <3>2. \A x \in Nodes : x < node' => x < node \/ x = t
      BY <1>2
    <3> QED
      BY <1>1, <1>2, <1>4, <1>5, <2>1, <3>1, <3>2, SearchEnters
  <2>2. CASE /\ index_of[t] >= 0
             /\ frames' = [frames EXCEPT ![Len(frames)].edge = @ + 1]
             /\ UNCHANGED <<index_of, stack, on_stack, next_index>>
             /\ \/ /\ on_stack[t]
                   /\ low_link' = [low_link EXCEPT ![n] = Lesser(@, index_of[t])]
                \/ ~on_stack[t] /\ low_link' = low_link
    <3>1. FrameMoved(Nodes, frames, frames', Len(frames))
      <4>1. frames' = TopMoved(frames, Len(frames))
        BY <2>2 DEF TopMoved
      <4> QED
        BY <1>3, <4>1, AllFramesMove
    <3>2. on_stack[t] <=> t \notin done
      BY <1>4, <1>5, <2>2 DEF IsOpenNode
    <3>3. /\ index_of[t] \in Int /\ low_link[n] \in Int
      BY <1>3, <1>4, <1>6
    <3>4. /\ low_link' \in [Nodes -> Int]
          /\ \A x \in Nodes : x # n => low_link'[x] = low_link[x]
          /\ low_link'[n] <= low_link[n]
          /\ t \notin done => low_link'[n] <= index_of[t]
          /\ \/ low_link'[n] = low_link[n]
             \/ t \notin done /\ low_link'[n] = index_of[t]
      <4>1. CASE ~on_stack[t] /\ low_link' = low_link
        BY <1>6, <3>2, <3>3, <4>1
      <4>2. CASE /\ on_stack[t]
                 /\ low_link' = [low_link EXCEPT ![n] = Lesser(@, index_of[t])]
        <5>1. /\ Lesser(low_link[n], index_of[t]) \in Int
              /\ Lesser(low_link[n], index_of[t]) <= low_link[n]
              /\ Lesser(low_link[n], index_of[t]) <= index_of[t]
              /\ \/ Lesser(low_link[n], index_of[t]) = low_link[n]
                 \/ Lesser(low_link[n], index_of[t]) = index_of[t]
          BY <3>3 DEF Lesser
        <5>2. low_link'[n] = Lesser(low_link[n], index_of[t])
          BY <1>3, <1>6, <4>2
        <5>3. /\ low_link' \in [Nodes -> Int]
              /\ \A x \in Nodes : x # n => low_link'[x] = low_link[x]
          BY <1>3, <1>6, <4>2, <5>1
        <5> QED
          BY <3>2, <4>2, <5>1, <5>2, <5>3
      <4> QED
        BY <2>2, <4>1, <4>2
    <3>5. SearchOK(Nodes, Out, Linked, index_of, low_link', stack, next_index,
                   frames', done)
      <4>1. /\ n = frames[Len(frames)].node
            /\ frames[Len(frames)].edge \in 1..Len(Out[n])
            /\ t = Out[n][frames[Len(frames)].edge]
        BY <1>3, <1>4
      <4> HIDE DEF n, t, done
      <4>2. Advanced(Nodes, Out, index_of, low_link, low_link', frames, frames',
                     done, n, t)
        BY <1>3, <2>2, <3>1, <3>4, <4>1 DEF Advanced
      <4> QED
        BY <1>5, <1>6, <4>2, AdvanceKeeps
    <3> QED
      BY <1>1, <1>2, <1>5, <2>2, <3>5, SearchGoesOn
  <2> QED
    BY <2>1, <2>2 DEF Follow, search
<1> QED
  BY <1>1, <1>2, <1>7 DEF GraphInv

-----------------------------------------------------------------------------
(* Returns of strong_connect.                                              *)

\* The caller, if there is one, takes the low link of the call.
LowTaken(V, low, low2, frm, m, f) ==
    /\ low2 \in [V -> Int]
    /\ m # 0 => /\ \A x \in V : x # frm[m].node => low2[x] = low[x]
                /\ low2[frm[m].node] <= low[frm[m].node]
                /\ low2[frm[m].node] <= low[f]
                /\ \/ low2[frm[m].node] = low[frm[m].node]
                   \/ low2[frm[m].node] = low[f]

\* The same, for what the caller takes from a call.
LEMMA ReturnKeepsSearch ==
    ASSUME NEW V, NEW out, NEW R, PathsAre(V, out, R),
           NEW idx, NEW low, NEW stk, NEW nxt, NEW frm, NEW closed,
           SearchOK(V, out, R, idx, low, stk, nxt, frm, closed),
           NEW m, m = Len(frm) - 1, NEW frm2,
           Behind(V, out, idx, frm, frm2, m, closed), Len(frm) # 0,
           NEW f, f = frm[Len(frm)].node, low[f] # idx[f],
           NEW low2, LowTaken(V, low, low2, frm, m, f)
    PROVE  SearchOK(V, out, R, idx, low2, stk, nxt, frm2, closed)
  BY ReturnStays DEF LowTaken

\* The low links of the calls that stay active are not above those that they
\* had: a component that is complete lowers none.
LEMMA PopKeepsLow ==
    ASSUME NEW V, NEW out, NEW R,
           NEW idx, NEW low, NEW stk, NEW nxt, NEW frm, NEW closed,
           SearchOK(V, out, R, idx, low, stk, nxt, frm, closed),
           NEW f, AtRoot(out, idx, low, frm, f), NEW m, m = Len(frm) - 1,
           NEW low2, LowTaken(V, low, low2, frm, m, f)
    PROVE  KeepsLow(V, low, low2, frm, m)
<1> DEFINE L == Len(frm)
<1>1. /\ NumbersOK(V, idx, nxt, closed) /\ FramesOK(V, out, idx, frm, closed)
      /\ LowOK(V, out, R, idx, low, frm, closed)
  BY DEF SearchOK
<1>2. /\ L \in Nat /\ L # 0 /\ m = L - 1 /\ f = frm[L].node /\ low[f] = idx[f]
      /\ \A k \in 1..L : frm[k].node \in V
  BY <1>1, FrameFields DEF AtRoot
<1>3. idx \in [V -> Int] /\ low \in [V -> Int] /\ low2 \in [V -> Int]
  BY <1>1 DEF NumbersOK, LowOK, LowTaken
<1>4. \A k, l \in 1..L : k < l => idx[frm[k].node] < idx[frm[l].node]
  BY <1>1 DEF FramesOK
<1>5. \A k \in 1..L : low[frm[k].node] <= idx[frm[k].node]
  BY <1>1 DEF LowOK
<1> HIDE DEF L
<1>6. ASSUME NEW k \in 1..m PROVE low2[frm[k].node] = low[frm[k].node]
  <2>1. k \in 1..L /\ m \in 1..L /\ L \in 1..L /\ m < L /\ m # 0
    BY <1>2
  <2> DEFINE c == frm[m].node
  <2>2. c \in V /\ f \in V /\ frm[k].node \in V
    BY <1>2, <2>1
  <2>3. CASE frm[k].node = c
    <3>1. low[c] <= idx[c] /\ idx[c] < low[f]
      BY <1>2, <1>4, <1>5, <2>1
    <3>2. /\ low2[c] <= low[f]
          /\ low2[c] <= low[c] /\ (low2[c] = low[c] \/ low2[c] = low[f])
      BY <2>1 DEF LowTaken
    <3>3. low[c] \in Int /\ idx[c] \in Int /\ low[f] \in Int /\ low2[c] \in Int
      BY <1>3, <2>2
    <3> HIDE DEF c
    <3>4. low2[c] = low[c]
      <4>1. low[c] < low[f]
        BY <3>1, <3>3
      <4>2. low2[c] < low[f]
        BY <3>2, <3>3, <4>1
      <4> QED
        BY <3>2, <3>3, <4>2
    <3> QED
      BY <2>3, <3>4
  <2>4. CASE frm[k].node # c
    BY <2>1, <2>2, <2>4 DEF LowTaken
  <2> QED
    BY <2>3, <2>4
<1> QED
  BY <1>3, <1>6 DEF KeepsLow

\* Two sections make a component of more than one.
LEMMA MoreThanOne ==
    ASSUME NEW c, IsFiniteSet(c), NEW x \in c, NEW y \in c, x # y
    PROVE  Cardinality(c) > 1
<1>1. IsFiniteSet(c \ {x}) /\ Cardinality(c \ {x}) = Cardinality(c) - 1
  BY FS_RemoveElement
<1>2. c \ {x} # {}
  OBVIOUS
<1>3. Cardinality(c \ {x}) # 0 /\ Cardinality(c \ {x}) \in Nat /\ Cardinality(c) \in Nat
  BY <1>1, <1>2, FS_EmptySet, FS_CardinalityType
<1> QED
  BY <1>1, <1>3

\* What the return leaves behind.
LEMMA ReturnMoves ==
    ASSUME call \in DOMAIN GraphImages, Searched, ReturnNode
    PROVE  /\ Behind(Nodes, Out, index_of, frames, frames', Len(frames) - 1,
                     UNION components)
           /\ LowTaken(Nodes, low_link, low_link', frames, Len(frames) - 1,
                       TopFrame.node)
<1> DEFINE L == Len(frames)
           n == TopFrame.node
           m == L - 1
           c == frames[m].node
<1>1. /\ L \in Nat /\ L # 0 /\ frames \in Seq(FrameOf(Nodes))
      /\ TopFrame = frames[L] /\ n \in Nodes
      /\ frames[L].edge > Len(Out[frames[L].node])
  BY TopCall DEF ReturnNode
<1>2. /\ FramesOK(Nodes, Out, index_of, frames, UNION components)
      /\ index_of \in [Nodes -> Int] /\ low_link \in [Nodes -> Int]
  BY DEF Searched, SearchOK, NumbersOK, LowOK
<1>3. CASE m = 0 /\ frames' = <<>> /\ low_link' = low_link
  <2>1. FrameMoved(Nodes, frames, frames', m)
    BY <1>1, <1>3, NoFramesLeft
  <2>2. LowTaken(Nodes, low_link, low_link', frames, m, n)
    BY <1>2, <1>3 DEF LowTaken
  <2> QED
    BY <1>1, <1>2, <2>1, <2>2 DEF Behind
<1>4. CASE /\ m > 0
           /\ frames' = [SubSeq(frames, 1, m) EXCEPT ![m].edge = @ + 1]
           /\ low_link' = [low_link EXCEPT ![c] = Lesser(@, low_link[n])]
  <2>1. m \in 1..L
    BY <1>1, <1>4
  <2>2. FrameMoved(Nodes, frames, frames', m)
    <3>1. frames' = TopMoved(SubSeq(frames, 1, m), m)
      BY <1>4 DEF TopMoved
    <3> HIDE DEF m
    <3> QED
      BY <1>1, <2>1, <3>1, FrameIsMoved
  <2>3. c \in Nodes
    BY <1>2, <2>1, FrameFields
  <2> HIDE DEF c, n, m
  <2>4. low_link[c] \in Int /\ low_link[n] \in Int
    BY <1>1, <1>2, <2>3
  <2>5. /\ Lesser(low_link[c], low_link[n]) \in Int
        /\ Lesser(low_link[c], low_link[n]) <= low_link[c]
        /\ Lesser(low_link[c], low_link[n]) <= low_link[n]
        /\ \/ Lesser(low_link[c], low_link[n]) = low_link[c]
           \/ Lesser(low_link[c], low_link[n]) = low_link[n]
    BY <2>4 DEF Lesser
  <2>6. /\ low_link' \in [Nodes -> Int]
        /\ low_link'[c] = Lesser(low_link[c], low_link[n])
        /\ \A x \in Nodes : x # c => low_link'[x] = low_link[x]
    BY <1>2, <1>4, <2>3, <2>5
  <2>7. LowTaken(Nodes, low_link, low_link', frames, m, n)
    BY <2>5, <2>6 DEF LowTaken, c
  <2>8. Behind(Nodes, Out, index_of, frames, frames', m, UNION components)
    BY <1>1, <1>2, <2>2 DEF Behind, m
  <2> QED
    BY <2>7, <2>8 DEF m, n
<1> QED
  BY <1>1, <1>3, <1>4 DEF ReturnNode

\* The stack from n on is popped: it is the class of n.
LEMMA PopIsClass ==
    ASSUME call \in DOMAIN GraphImages, Searched,
           NEW n \in Nodes, AtRoot(Out, index_of, low_link, frames, n)
    PROVE  LET done == UNION components
               top == SubSeq(stack, 1, Len(stack) - Len(Popped(n)))
           IN  /\ Range(Popped(n)) = Since(Nodes, index_of, done, n)
               /\ Range(Popped(n)) = ClassOf(Nodes, Linked, n)
               /\ n \in Range(Popped(n)) /\ Range(Popped(n)) \subseteq Nodes
               /\ StackOK(Nodes, index_of, top, done \cup Range(Popped(n)))
<1> DEFINE done == UNION components
           p == CHOOSE k \in DOMAIN stack : stack[k] = n
           since == Since(Nodes, index_of, done, n)
<1>1. SearchOK(Nodes, Out, Linked, index_of, low_link, stack, next_index, frames, done)
  BY DEF Searched
<1>2. PathsAre(Nodes, Out, Linked)
  BY SearchFacts
<1>3. since = ClassOf(Nodes, Linked, n) /\ n \in since
  BY <1>1, <1>2, PoppedIsClass
<1>4. /\ NumbersOK(Nodes, index_of, next_index, done)
      /\ StackOK(Nodes, index_of, stack, done)
  BY <1>1 DEF SearchOK
<1>5. stack \in Seq(Nodes) /\ Len(stack) \in Nat /\ DOMAIN stack = 1..Len(stack)
  BY <1>4, LenProperties DEF StackOK
<1>6. \E k \in 1..Len(stack) : stack[k] = n
  BY <1>3, <1>4 DEF StackOK, Since
<1>7. p \in 1..Len(stack) /\ stack[p] = n
  BY <1>5, <1>6
<1>8. Popped(n) = SubSeq(stack, p, Len(stack))
  BY DEF Popped
<1> HIDE DEF p, done, since
<1>9. Len(Popped(n)) = Len(stack) - p + 1
  BY <1>5, <1>7, <1>8
<1>10. Len(stack) - Len(Popped(n)) = p - 1
  BY <1>5, <1>7, <1>9
<1>11. /\ Range(SubSeq(stack, p, Len(stack))) = since
       /\ StackOK(Nodes, index_of, SubSeq(stack, 1, p - 1), done \cup since)
  <2>1. n = stack[p]
    BY <1>7
  <2>2. IsCut(Nodes, index_of, done, stack, p, n)
    BY <1>4, <1>7, <2>1, PoppedStack
  <2> QED
    BY <2>2 DEF IsCut, since
<1>12. since \subseteq Nodes
  BY DEF since, Since
<1> QED
  BY <1>3, <1>8, <1>10, <1>11, <1>12 DEF done, since

\* A component is reported.
LEMMA GraphReports ==
    ASSUME call \in DOMAIN GraphImages, Searched, ReturnNode,
           low_link[TopFrame.node] = index_of[TopFrame.node]
    PROVE  Searched'
<1> DEFINE n == TopFrame.node
           done == UNION components
           class == Range(Popped(n))
<1>0. PICK m : m = Len(frames) - 1
  OBVIOUS
<1>1. /\ call' = call /\ relations' = relations /\ index_of' = index_of
      /\ next_index' = next_index /\ node' = node
      /\ stack' = SubSeq(stack, 1, Len(stack) - Len(Popped(n)))
      /\ on_stack' = OffStack(n) /\ components' = components \cup {class}
      /\ cyclic' = (cyclic \/ ClosesCycle(n, class))
  BY DEF ReturnNode
<1>2. n \in Nodes /\ AtRoot(Out, index_of, low_link, frames, n)
  BY TopCall DEF ReturnNode, AtRoot
<1>3. /\ class = Since(Nodes, index_of, done, n) /\ class = ClassOf(Nodes, Linked, n)
      /\ n \in class /\ class \subseteq Nodes
      /\ StackOK(Nodes, index_of, stack', done \cup class)
  BY <1>1, <1>2, PopIsClass
<1>4. /\ Behind(Nodes, Out, index_of, frames, frames', m, done)
      /\ LowTaken(Nodes, low_link, low_link', frames, m, n)
  BY <1>0, ReturnMoves
<1>5. /\ SearchOK(Nodes, Out, Linked, index_of, low_link, stack, next_index, frames, done)
      /\ relations = Relations(graph_image)
      /\ on_stack \in [Nodes -> BOOLEAN]
      /\ \A x \in Nodes : on_stack[x] <=> IsOpenNode(index_of, done, x)
      /\ \A c \in components : \E x \in Nodes : x \in c /\ c = ClassOf(Nodes, Linked, x)
      /\ node \in 0..SectionCount(graph_image)
      /\ \A x \in Nodes : x < node => index_of[x] >= 0
      /\ cyclic \in BOOLEAN /\ (cyclic <=> \E c \in components : IsCycle(c))
  BY DEF Searched
<1>6. /\ PathsAre(Nodes, Out, Linked) /\ SectionCount(graph_image) \in Nat
  BY SearchFacts
<1>7. /\ graph_image' = graph_image /\ Nodes' = Nodes /\ Out' = Out
      /\ Linked' = Linked /\ \A c : IsCycle(c)' <=> IsCycle(c)
  BY <1>1, SameGraph
<1>8. (UNION components)' = done \cup class
  BY <1>1
<1>9. on_stack' = [x \in Nodes |-> on_stack[x] /\ x \notin class]
  BY <1>1 DEF OffStack
<1>10. IsFiniteSet(class)
  <2>1. IsFiniteSet(Nodes)
    BY <1>6, FS_Interval DEF Nodes
  <2> QED
    BY <1>3, <2>1, FS_Subset
<1>11. ClosesCycle(n, class) <=> IsCycle(class)
  <2>1. ASSUME NEW x \in class, x \in Range(Adjacency(x))
        PROVE  Cardinality(class) > 1 \/ n \in Range(Adjacency(n))
    <3>1. CASE x = n
      BY <2>1, <3>1
    <3>2. CASE x # n
      BY <1>3, <1>10, <3>2, MoreThanOne
    <3> QED
      BY <3>1, <3>2
  <2> QED
    BY <1>3, <2>1 DEF ClosesCycle, IsCycle
<1> HIDE DEF n, done, class
<1>12. SearchOK(Nodes, Out, Linked, index_of, low_link', stack', next_index, frames',
                done \cup class)
  <2>1. KeepsLow(Nodes, low_link, low_link', frames, m)
    BY <1>0, <1>2, <1>4, <1>5, PopKeepsLow
  <2>2. PICK all : all = done \cup class
    OBVIOUS
  <2>3. /\ all = done \cup Since(Nodes, index_of, done, n)
        /\ StackOK(Nodes, index_of, stack', all)
    BY <1>3, <2>2
  <2>4. SearchOK(Nodes, Out, Linked, index_of, low_link', stack', next_index, frames',
                 all)
    BY <1>0, <1>2, <1>4, <1>5, <1>6, <2>1, <2>3, ReturnPops
  <2> QED
    BY <2>2, <2>4
<1>13. SearchOK(Nodes, Out, Linked, index_of, low_link, stack, next_index, frames,
                UNION components)'
  BY <1>1, <1>7, <1>8, <1>12
<1>14. (on_stack \in [Nodes -> BOOLEAN])'
  BY <1>5, <1>7, <1>9
<1>15. (\A x \in Nodes : on_stack[x] <=> IsOpenNode(index_of, UNION components, x))'
  <2>1. ASSUME NEW x \in Nodes
        PROVE  on_stack'[x] <=> IsOpenNode(index_of, done \cup class, x)
    <3>1. on_stack'[x] <=> on_stack[x] /\ x \notin class
      BY <1>9
    <3> QED
      BY <1>5, <3>1 DEF IsOpenNode
  <2> QED
    BY <1>1, <1>7, <1>8, <2>1
<1>16. (\A c \in components : \E x \in Nodes : x \in c /\ c = ClassOf(Nodes, Linked, x))'
  BY <1>1, <1>2, <1>3, <1>5, <1>7
<1>17. /\ (node \in 0..SectionCount(graph_image))'
       /\ (\A x \in Nodes : x < node => index_of[x] >= 0)'
  BY <1>1, <1>5, <1>7
<1>18. (cyclic \in BOOLEAN)' /\ (cyclic <=> \E c \in components : IsCycle(c))'
  <2>1. (\E c \in components' : IsCycle(c)')
          <=> (\E c \in components : IsCycle(c)) \/ IsCycle(class)
    BY <1>1, <1>7
  <2>2. cyclic' <=> cyclic \/ IsCycle(class)
    BY <1>1, <1>11
  <2>3. cyclic' \in BOOLEAN
    BY <1>1
  <2> QED
    BY <1>5, <2>1, <2>2, <2>3
<1>19. (relations = Relations(graph_image))'
  BY <1>1, <1>5, <1>7
<1> QED
  BY <1>13, <1>14, <1>15, <1>16, <1>17, <1>18, <1>19, Zenon DEF Searched

\* The loop of strong_connect is over.
LEMMA GraphReturns == GraphInv /\ ReturnNode => GraphInv'
<1> SUFFICES ASSUME GraphInv, ReturnNode PROVE GraphInv'
  OBVIOUS
<1> DEFINE n == TopFrame.node
           done == UNION components
           m == Len(frames) - 1
<1>1. /\ call \in DOMAIN GraphImages /\ graph_pc = "searching"
      /\ graph_error = "none" /\ Searched
  BY DEF GraphInv, ReturnNode
<1>2. /\ call' = call /\ graph_pc' = graph_pc /\ graph_error' = graph_error
  BY DEF ReturnNode
<1>3. CASE low_link[n] = index_of[n]
  <2>1. Searched'
    BY <1>1, <1>3, GraphReports
  <2> QED
    BY <1>1, <1>2, <2>1 DEF GraphInv
<1>4. CASE low_link[n] # index_of[n]
  <2>1. /\ relations' = relations /\ index_of' = index_of
        /\ next_index' = next_index /\ node' = node
        /\ stack' = stack /\ on_stack' = on_stack /\ components' = components
        /\ cyclic' = cyclic
    BY <1>4 DEF ReturnNode
  <2>2. /\ Behind(Nodes, Out, index_of, frames, frames', m, done)
        /\ LowTaken(Nodes, low_link, low_link', frames, m, n)
    BY <1>1, ReturnMoves
  <2>3. Len(frames) # 0 /\ n = frames[Len(frames)].node /\ m = Len(frames) - 1
    BY <1>1, TopCall DEF ReturnNode
  <2>4. /\ SearchOK(Nodes, Out, Linked, index_of, low_link, stack, next_index, frames,
                    done)
        /\ on_stack \in [Nodes -> BOOLEAN]
        /\ \A x \in Nodes : on_stack[x] <=> IsOpenNode(index_of, done, x)
        /\ node \in 0..SectionCount(graph_image)
        /\ \A x \in Nodes : x < node => index_of[x] >= 0
    BY <1>1 DEF Searched
  <2>5. PathsAre(Nodes, Out, Linked)
    BY <1>1, SearchFacts
  <2>6. SearchOK(Nodes, Out, Linked, index_of, low_link', stack, next_index, frames',
                 done)
    <3> HIDE DEF n, done, m
    <3> QED
      BY <1>4, <2>2, <2>3, <2>4, <2>5, ReturnKeepsSearch
  <2>7. Searched'
    BY <1>1, <1>2, <2>1, <2>4, <2>6, SearchGoesOn
  <2> QED
    BY <1>1, <1>2, <2>7 DEF GraphInv
<1> QED
  BY <1>3, <1>4

\* The search is over, or the caller analyzes the image again.
LEMMA GraphEnds == GraphInv /\ (FinishGraph \/ NextGraph) => GraphInv'
<1> SUFFICES ASSUME GraphInv PROVE FinishGraph \/ NextGraph => GraphInv'
  OBVIOUS
<1>1. ASSUME FinishGraph PROVE GraphInv'
  <2>1. /\ call \in DOMAIN GraphImages /\ graph_error = "none" /\ Searched
        /\ frames = <<>> /\ node = SectionCount(graph_image)
    BY <1>1 DEF GraphInv, FinishGraph
  <2>2. /\ call' = call /\ graph_pc' = "returned" /\ graph_error' = graph_error
        /\ relations' = relations /\ components' = components /\ cyclic' = cyclic
        /\ index_of' = index_of /\ low_link' = low_link /\ stack' = stack
        /\ on_stack' = on_stack /\ next_index' = next_index
        /\ node' = node /\ frames' = frames
    BY <1>1 DEF FinishGraph, search
  <2>3. /\ SearchOK(Nodes, Out, Linked, index_of', low_link', stack', next_index',
                    frames', UNION components)
        /\ on_stack' \in [Nodes -> BOOLEAN]
        /\ \A x \in Nodes : on_stack'[x] <=> IsOpenNode(index_of', UNION components, x)
        /\ node' \in 0..SectionCount(graph_image)
        /\ \A x \in Nodes : x < node' => index_of'[x] >= 0
    BY <2>1, <2>2 DEF Searched
  <2>4. Searched'
    BY <2>1, <2>2, <2>3, SearchGoesOn
  <2>5. graph_image' = graph_image
    BY <2>2 DEF graph_image
  <2> QED
    BY <2>1, <2>2, <2>4, <2>5 DEF GraphInv
<1>2. ASSUME NextGraph PROVE GraphInv'
  <2>1. /\ call' = call /\ graph_pc' = "idle" /\ graph_error' = "none"
        /\ relations' = <<>> /\ components' = {} /\ cyclic' = FALSE
        /\ index_of' = [n \in Nodes |-> -1] /\ low_link' = [n \in Nodes |-> -1]
        /\ next_index' = 0 /\ node' = 0
        /\ stack' = stack /\ on_stack' = on_stack /\ frames' = frames
        /\ graph_pc = "returned"
    BY <1>2 DEF NextGraph
  <2>2. Nodes' = Nodes
    BY <2>1 DEF Nodes, graph_image
  <2>3. stack = <<>> /\ on_stack = [n \in Nodes |-> FALSE] /\ frames = <<>>
    <3>1. CASE Fresh
      BY <3>1 DEF Fresh
    <3>2. CASE Searched /\ frames = <<>>
      <4>1. SearchOK(Nodes, Out, Linked, index_of, low_link, stack, next_index, <<>>,
                     UNION components)
        BY <3>2 DEF Searched
      <4>2. /\ stack = <<>>
            /\ \A x \in Nodes : ~IsOpenNode(index_of, UNION components, x)
        BY <4>1, NothingIsOpen
      <4>3. /\ on_stack \in [Nodes -> BOOLEAN]
            /\ \A x \in Nodes : on_stack[x] = FALSE
        BY <3>2, <4>2 DEF Searched
      <4> QED
        BY <3>2, <4>2, <4>3
    <3> QED
      BY <2>1, <3>1, <3>2 DEF GraphInv
  <2>4. call \in DOMAIN GraphImages
    BY DEF GraphInv
  <2> QED
    BY <2>1, <2>2, <2>3, <2>4 DEF GraphInv, Fresh
<1> QED
  BY <1>1, <1>2

\* Every step of the analysis keeps the invariant.
LEMMA GraphInvNext == GraphInv /\ [GraphNext]_graph_vars => GraphInv'
<1> SUFFICES ASSUME GraphInv, [GraphNext]_graph_vars PROVE GraphInv'
  OBVIOUS
<1>1. CASE BeginGraph
  BY <1>1, GraphBegins
<1>2. CASE NextNode
  BY <1>2, GraphNextNode
<1>3. CASE Follow
  BY <1>3, GraphFollows
<1>4. CASE ReturnNode
  BY <1>4, GraphReturns
<1>5. CASE FinishGraph \/ NextGraph
  BY <1>5, GraphEnds
<1>6. CASE UNCHANGED graph_vars
  <2>1. /\ call' = call /\ graph_pc' = graph_pc /\ graph_error' = graph_error
        /\ relations' = relations /\ components' = components /\ cyclic' = cyclic
        /\ index_of' = index_of /\ low_link' = low_link /\ stack' = stack
        /\ on_stack' = on_stack /\ next_index' = next_index
        /\ node' = node /\ frames' = frames
    BY <1>6 DEF graph_vars
  <2>2. graph_image' = graph_image /\ Nodes' = Nodes
    BY <2>1 DEF graph_image, Nodes
  <2>3. Fresh => Fresh'
    BY <2>1, <2>2 DEF Fresh
  <2>4. ASSUME Searched PROVE Searched'
    <3>1. /\ SearchOK(Nodes, Out, Linked, index_of', low_link', stack', next_index',
                      frames', UNION components)
          /\ on_stack' \in [Nodes -> BOOLEAN]
          /\ \A x \in Nodes :
                on_stack'[x] <=> IsOpenNode(index_of', UNION components, x)
          /\ node' \in 0..SectionCount(graph_image)
          /\ \A x \in Nodes : x < node' => index_of'[x] >= 0
      BY <2>1, <2>4 DEF Searched
    <3>2. call \in DOMAIN GraphImages
      BY DEF GraphInv
    <3> QED
      BY <2>1, <2>4, <3>1, <3>2, SearchGoesOn
  <2> QED
    BY <2>1, <2>2, <2>3, <2>4 DEF GraphInv
<1> QED
  BY <1>1, <1>2, <1>3, <1>4, <1>5, <1>6 DEF GraphNext

\* The search is always where it should be: its numbers, its stack, its active calls
\* and their low links fit, and what it has reported are classes (strong_connect).
THEOREM GraphIsInvariant == GraphSpec => []GraphInv
  BY GraphInvInit, GraphInvNext, PTL DEF GraphSpec

-----------------------------------------------------------------------------
(* What the analysis promises.                                             *)

\* A list that holds nothing twice.
LEMMA OnceEach ==
    ASSUME NEW T, NEW s \in Seq(T),
           \A i, j \in 1..Len(s) : i < j => s[i] # s[j]
    PROVE  Cardinality(Range(s)) = Len(s)
<1> DEFINE n == Len(s)
<1>1. n \in Nat /\ DOMAIN s = 1..n /\ s \in [1..n -> T]
  BY LenProperties
<1>2. IsFiniteSet(1..n) /\ Cardinality(1..n) = n
  BY <1>1, FS_Interval
<1> HIDE DEF n
<1>3. s \in [1..n -> Range(s)] /\ \A x \in Range(s) : \E i \in 1..n : s[i] = x
  BY <1>1 DEF Range
<1>4. \A i, j \in 1..n : s[i] = s[j] => i = j
  <2> SUFFICES ASSUME NEW i \in 1..n, NEW j \in 1..n, s[i] = s[j], i # j PROVE FALSE
    OBVIOUS
  <2>1. i < j \/ j < i
    BY <1>1
  <2> QED
    BY <2>1 DEF n
<1>5. s \in Surjection(1..n, Range(s)) /\ s \in Injection(1..n, Range(s))
  BY <1>3, <1>4 DEF Surjection, Injection, IsInjective
<1>6. Cardinality(Range(s)) = Cardinality(1..n)
  BY <1>2, <1>5, FS_Surjection
<1> QED
  BY <1>2, <1>6 DEF n

\* The classes that were reported are strong components, and each open section is
\* on the stack once.
LEMMA GraphInvImpliesFinal == GraphInv => ComponentsAreFinal
<1> SUFFICES ASSUME GraphInv PROVE ComponentsAreFinal
  OBVIOUS
<1>1. CASE Fresh
  <2>1. /\ components = {} /\ stack = <<>> /\ on_stack = [n \in Nodes |-> FALSE]
        /\ index_of = [n \in Nodes |-> -1]
    BY <1>1 DEF Fresh
  <2>2. Range(stack) = {} /\ Cardinality(Range(stack)) = Len(stack)
    BY <2>1, FS_EmptySet DEF Range
  <2>3. \A n \in Nodes : on_stack[n] = FALSE /\ ~(index_of[n] >= 0)
    BY <2>1
  <2> QED
    BY <2>1, <2>2, <2>3 DEF ComponentsAreFinal, StackHoldsTheOpen
<1>2. CASE Searched
  <2> DEFINE done == UNION components
  <2>1. /\ SearchOK(Nodes, Out, Linked, index_of, low_link, stack, next_index, frames,
                    done)
        /\ \A n \in Nodes : on_stack[n] <=> IsOpenNode(index_of, done, n)
        /\ \A c \in components : \E n \in Nodes : c = ClassOf(Nodes, Linked, n)
    BY <1>2 DEF Searched
  <2>2. components \subseteq StrongComponents
    BY <2>1, ComponentsAreClasses
  <2> HIDE DEF done
  <2>3. /\ StackOK(Nodes, index_of, stack, done)
        /\ index_of \in [Nodes -> Int]
    BY <2>1 DEF SearchOK, NumbersOK
  <2>4. /\ stack \in Seq(Nodes) /\ DOMAIN stack = 1..Len(stack)
        /\ \A i \in 1..Len(stack) : stack[i] \in Nodes
    BY <2>3, LenProperties, ElementOfSeq DEF StackOK
  <2>5. \A i, j \in 1..Len(stack) : i < j => stack[i] # stack[j]
    <3> SUFFICES ASSUME NEW i \in 1..Len(stack), NEW j \in 1..Len(stack), i < j,
                        stack[i] = stack[j]
                 PROVE  FALSE
      OBVIOUS
    <3>1. index_of[stack[i]] < index_of[stack[j]]
      BY <2>3 DEF StackOK
    <3>2. index_of[stack[i]] \in Int
      BY <2>3, <2>4
    <3> QED
      BY <3>1, <3>2
  <2>6. Cardinality(Range(stack)) = Len(stack)
    BY <2>4, <2>5, OnceEach
  <2>7. ASSUME NEW n \in Nodes PROVE IsOpenNode(index_of, done, n) <=> n \in Range(stack)
    BY <2>3, <2>4 DEF StackOK, Range
  <2> QED
    BY <2>1, <2>2, <2>6, <2>7
       DEF ComponentsAreFinal, StackHoldsTheOpen, IsOpenNode, done
<1> QED
  BY <1>1, <1>2 DEF GraphInv

\* A component is final when it is reported, and the stack holds what the
\* search takes it to hold (strong_connect of SectionGraphAnalyzer::analyze).
THEOREM ComponentsAreAlwaysFinal == GraphSpec => []ComponentsAreFinal
  BY GraphIsInvariant, GraphInvImpliesFinal, PTL

-----------------------------------------------------------------------------
(* The counts of the relations.                                            *)

\* A relation between the two sections of r.
Joins(x, r) == x.source = r[1] /\ x.target = r[2]

\* The list has one relation for r, which was found n times, or none.
IsCounted(known, r, n) ==
    \/ n = 0 /\ \A i \in 1..Len(known) : ~Joins(known[i], r)
    \/ /\ n # 0
       /\ \E i \in 1..Len(known) :
             /\ Joins(known[i], r) /\ known[i].references = n
             /\ \A j \in 1..Len(known) : Joins(known[j], r) => j = i

\* add_relation counts a reference with those to the same two sections.
LEMMA ReferenceIsCounted ==
    ASSUME NEW count \in Nat, NEW known \in SomeRelations(count),
           NEW r \in Nat \X Nat, NEW n \in Nat,
           NEW q \in (0..(count - 1)) \X (0..(count - 1)), IsCounted(known, q, n)
    PROVE  IsCounted(AddRelation(count, known, r), q, IF r = q THEN n + 1 ELSE n)
<1> DEFINE L == Len(known)
           V == 0..(count - 1)
           at == {k \in DOMAIN known : known[k].source = r[1] /\ known[k].target = r[2]}
           out == r[1] >= count \/ r[2] >= count
           new == AddRelation(count, known, r)
<1>1. /\ L \in Nat /\ DOMAIN known = 1..L
      /\ \A i \in 1..L : known[i] \in RelationOf(V)
  BY LenProperties, ElementOfSeq DEF SomeRelations
<1>2. at = {k \in 1..L : Joins(known[k], r)}
  BY <1>1 DEF Joins
<1>3. r = <<r[1], r[2]>> /\ q = <<q[1], q[2]>> /\ q[1] \in V /\ q[2] \in V
  OBVIOUS
<1>4. CASE out
  <2>1. new = known
    BY <1>4 DEF AddRelation
  <2>2. r # q
    BY <1>3, <1>4
  <2> QED
    BY <2>1, <2>2
<1>5. CASE ~out /\ at = {}
  <2> DEFINE z == [source |-> r[1], target |-> r[2], references |-> 1]
  <2>1. new = Append(known, z)
    BY <1>5 DEF AddRelation
  <2>2. z \in RelationOf(V)
    BY <1>5 DEF RelationOf
  <2>3. z.references = 1 /\ (Joins(z, q) <=> r = q)
    BY <1>3 DEF Joins
  <2> HIDE DEF z, V, L, at
  <2>4. known \in Seq(RelationOf(V))
    BY DEF SomeRelations, V
  <2>5. /\ Len(new) = L + 1 /\ new[L + 1] = z /\ \A i \in 1..L : new[i] = known[i]
    BY <2>1, <2>2, <2>4, AppendProperties DEF L
  <2> HIDE DEF new
  <2>6. \A i \in 1..(L + 1) : i \in 1..L \/ i = L + 1
    BY <1>1
  <2>7. CASE r = q
    <3>1. \A i \in 1..L : ~Joins(known[i], q)
      BY <1>2, <1>5, <2>7
    <3>2. n = 0
      BY <3>1 DEF IsCounted, L
    <3>3. L + 1 \in 1..(L + 1) /\ Joins(new[L + 1], q) /\ new[L + 1].references = n + 1
      BY <1>1, <2>3, <2>5, <2>7, <3>2
    <3>4. \A j \in 1..(L + 1) : Joins(new[j], q) => j = L + 1
      BY <2>5, <2>6, <3>1
    <3>5. IsCounted(new, q, n + 1)
      BY <2>5, <3>2, <3>3, <3>4 DEF IsCounted
    <3> QED
      BY <2>7, <3>5 DEF new
  <2>8. CASE r # q
    <3>1. ~Joins(new[L + 1], q)
      BY <2>3, <2>5, <2>8
    <3>2. CASE n = 0
      <4>1. \A i \in 1..L : ~Joins(known[i], q)
        BY <3>2 DEF IsCounted, L
      <4>2. \A i \in 1..(L + 1) : ~Joins(new[i], q)
        BY <2>5, <2>6, <3>1, <4>1
      <4>3. IsCounted(new, q, n)
        BY <2>5, <3>2, <4>2 DEF IsCounted
      <4> QED
        BY <2>8, <4>3 DEF new
    <3>3. CASE n # 0
      <4>1. PICK i \in 1..L : /\ Joins(known[i], q) /\ known[i].references = n
                              /\ \A j \in 1..L : Joins(known[j], q) => j = i
        BY <3>3 DEF IsCounted, L
      <4>2. i \in 1..(L + 1) /\ Joins(new[i], q) /\ new[i].references = n
        BY <1>1, <2>5, <4>1
      <4>3. \A j \in 1..(L + 1) : Joins(new[j], q) => j = i
        BY <2>5, <2>6, <3>1, <4>1
      <4>4. IsCounted(new, q, n)
        BY <2>5, <3>3, <4>2, <4>3 DEF IsCounted
      <4> QED
        BY <2>8, <4>4 DEF new
    <3> QED
      BY <3>2, <3>3
  <2> QED
    BY <2>7, <2>8 DEF new
<1>6. CASE ~out /\ at # {}
  <2>1. new = [k \in 1..L |-> IF k \in at THEN OnceMore(known[k]) ELSE known[k]]
    BY <1>1, <1>6 DEF AddRelation, OnceMore
  <2> HIDE DEF new, V, at
  <2>2. /\ Len(new) = L
        /\ \A k \in 1..L : new[k] = IF k \in at THEN OnceMore(known[k]) ELSE known[k]
    BY <1>1, <2>1
  <2>3. ASSUME NEW k \in 1..L
        PROVE  /\ Joins(new[k], q) <=> Joins(known[k], q)
               /\ new[k].references = known[k].references + (IF k \in at THEN 1 ELSE 0)
    <3>1. known[k].references \in Nat
      BY <1>1 DEF RelationOf
    <3>2. CASE k \in at
      <4>1. /\ OnceMore(known[k]).source = known[k].source
            /\ OnceMore(known[k]).target = known[k].target
            /\ OnceMore(known[k]).references = known[k].references + 1
        BY <1>1, CountedOnceMore
      <4> QED
        BY <2>2, <3>2, <4>1 DEF Joins
    <3>3. CASE k \notin at
      BY <2>2, <3>1, <3>3
    <3> QED
      BY <3>2, <3>3
  <2> HIDE DEF L
  <2>4. CASE n = 0
    <3>1. \A i \in 1..L : ~Joins(known[i], q)
      BY <2>4 DEF IsCounted, L
    <3>2. r # q
      BY <1>2, <1>6, <3>1
    <3>3. \A i \in 1..L : ~Joins(new[i], q)
      BY <2>3, <3>1
    <3> QED
      BY <2>2, <2>4, <3>2, <3>3 DEF IsCounted, new
  <2>5. CASE n # 0
    <3>1. PICK i \in 1..L : /\ Joins(known[i], q) /\ known[i].references = n
                            /\ \A j \in 1..L : Joins(known[j], q) => j = i
      BY <2>5 DEF IsCounted, L
    <3>2. \A j \in 1..L : Joins(new[j], q) => j = i
      BY <2>3, <3>1
    <3>3. i \in at <=> r = q
      BY <1>2, <1>3, <3>1 DEF Joins
    <3>4. /\ Joins(new[i], q)
          /\ new[i].references = IF r = q THEN n + 1 ELSE n
      BY <2>3, <3>1, <3>3
    <3>5. (IF r = q THEN n + 1 ELSE n) # 0
      BY <2>5
    <3>6. IsCounted(new, q, IF r = q THEN n + 1 ELSE n)
      BY <2>2, <3>1, <3>2, <3>4, <3>5 DEF IsCounted
    <3> QED
      BY <3>6 DEF new
  <2> QED
    BY <2>4, <2>5
<1> QED
  BY <1>4, <1>5, <1>6

\* The first m references that are q.
Matches(found, q, m) == {j \in 1..m : found[j] = q}

\* One more reference, which is q or is not.
LEMMA OneMoreMatch ==
    ASSUME NEW found, NEW q, NEW m \in Nat
    PROVE  /\ IsFiniteSet(Matches(found, q, m)) /\ Cardinality(Matches(found, q, m)) \in Nat
           /\ Cardinality(Matches(found, q, m + 1)) =
                IF found[m + 1] = q THEN Cardinality(Matches(found, q, m)) + 1
                ELSE Cardinality(Matches(found, q, m))
<1> DEFINE A == Matches(found, q, m)
           B == Matches(found, q, m + 1)
<1>1. IsFiniteSet(1..m) /\ A \subseteq 1..m
  BY FS_Interval DEF Matches
<1>2. IsFiniteSet(A) /\ Cardinality(A) \in Nat
  <2> HIDE DEF A
  <2>1. IsFiniteSet(A)
    BY <1>1, FS_Subset
  <2> QED
    BY <2>1, FS_CardinalityType
<1>3. \A j \in 1..(m + 1) : j \in 1..m \/ j = m + 1
  OBVIOUS
<1>4. m + 1 \in 1..(m + 1) /\ m + 1 \notin 1..m /\ \A j \in 1..m : j \in 1..(m + 1)
  OBVIOUS
<1>5. B = IF found[m + 1] = q THEN A \cup {m + 1} ELSE A
  BY <1>3, <1>4 DEF Matches
<1>6. m + 1 \notin A
  BY <1>4 DEF Matches
<1> HIDE DEF A, B
<1>7. Cardinality(A \cup {m + 1}) = Cardinality(A) + 1
  BY <1>2, <1>6, FS_AddElement
<1>8. Cardinality(B) = IF found[m + 1] = q THEN Cardinality(A) + 1 ELSE Cardinality(A)
  BY <1>5, <1>7
<1> QED
  BY <1>2, <1>8 DEF A, B

\* The relations of an image hold the number of its references to q.
LEMMA CountsAreExact ==
    ASSUME call \in DOMAIN GraphImages, NEW q \in Nodes \X Nodes
    PROVE  IsCounted(Relations(graph_image), q,
                     Cardinality(Matches(References(graph_image), q,
                                         Len(References(graph_image)))))
<1> DEFINE found == References(graph_image)
           count == SectionCount(graph_image)
           n == Len(found)
           C(m) == Cardinality(Matches(found, q, m))
<1>1. IsGraphImage(graph_image) /\ count \in Nat /\ Nodes = 0..(count - 1)
  BY ImageFacts DEF Nodes
<1>2. n \in Nat /\ \A k \in 1..n : found[k] \in Nat \X Nat
  BY <1>1, ReferencesArePairs, LenProperties, ElementOfSeq
<1>3. PICK known : Counted(known, graph_image) /\ Relations(graph_image) = known[n]
  BY <1>1, RelationsAreCounted
<1>4. /\ \A k \in 0..n : known[k] \in SomeRelations(count)
      /\ known[0] = <<>>
      /\ \A k \in 1..n : known[k] = AddRelation(count, known[k - 1], found[k])
  BY <1>3 DEF Counted
<1> HIDE DEF found, count, n
<1> DEFINE S == {m \in Nat : m <= n => IsCounted(known[m], q, C(m))}
<1>5. 0 \in S
  <2>1. Matches(found, q, 0) = {}
    BY DEF Matches
  <2>2. C(0) = 0
    BY <2>1, FS_EmptySet
  <2>3. \A i \in 1..Len(known[0]) : ~Joins(known[0][i], q)
    BY <1>4
  <2>4. IsCounted(known[0], q, C(0))
    BY <2>2, <2>3 DEF IsCounted
  <2> QED
    BY <2>4
<1>6. ASSUME NEW m \in Nat, m \in S PROVE m + 1 \in S
  <2>1. SUFFICES ASSUME m + 1 <= n PROVE IsCounted(known[m + 1], q, C(m + 1))
    OBVIOUS
  <2>2. /\ m + 1 \in 1..n /\ (m + 1) - 1 = m /\ m \in 0..n
        /\ IsCounted(known[m], q, C(m))
    BY <1>2, <1>6, <2>1
  <2> HIDE DEF S
  <2>3. known[m + 1] = AddRelation(count, known[m], found[m + 1])
    BY <1>4, <2>2
  <2>4. /\ known[m] \in SomeRelations(count) /\ found[m + 1] \in Nat \X Nat
        /\ q \in (0..(count - 1)) \X (0..(count - 1))
    BY <1>1, <1>2, <1>4, <2>2
  <2>5. /\ C(m) \in Nat
        /\ C(m + 1) = IF found[m + 1] = q THEN C(m) + 1 ELSE C(m)
    BY OneMoreMatch
  <2> HIDE DEF C
  <2>6. IsCounted(AddRelation(count, known[m], found[m + 1]), q,
                  IF found[m + 1] = q THEN C(m) + 1 ELSE C(m))
    BY <1>1, <2>2, <2>4, <2>5, ReferenceIsCounted
  <2> QED
    BY <2>3, <2>5, <2>6
<1> HIDE DEF S
<1>7. Nat \subseteq S
  BY <1>5, <1>6, SetInduction
<1>8. n \in S /\ n <= n
  BY <1>2, <1>7
<1>9. IsCounted(known[n], q, C(n))
  BY <1>8 DEF S
<1> QED
  BY <1>3, <1>9 DEF n, found

\* No reference is counted twice or lost (analyze).
LEMMA RelationsCountReferences ==
    ASSUME call \in DOMAIN GraphImages, relations = Relations(graph_image)
    PROVE  ReferencesAreCounted
<1> DEFINE all == References(graph_image)
<1>1. /\ all \in Seq(Nat \X Nat) /\ Len(all) \in Nat /\ DOMAIN all = 1..Len(all)
      /\ relations \in SomeRelations(SectionCount(graph_image))
  BY ImageFacts, ReferencesArePairs, LenProperties
<1>2. DOMAIN relations = 1..Len(relations)
  BY <1>1, LenProperties DEF SomeRelations
<1> SUFFICES ASSUME NEW r \in Nodes \X Nodes
             PROVE  LET known == {k \in DOMAIN relations :
                                    <<relations[k].source, relations[k].target>> = r}
                        found == {k \in DOMAIN all : all[k] = r}
                    IN  /\ Cardinality(known) <= 1
                        /\ found # {} => \E k \in known :
                              relations[k].references = Cardinality(found)
                        /\ found = {} => known = {}
  BY DEF ReferencesAreCounted
<1> DEFINE known == {k \in DOMAIN relations :
                        <<relations[k].source, relations[k].target>> = r}
           found == {k \in DOMAIN all : all[k] = r}
<1>3. r = <<r[1], r[2]>>
  OBVIOUS
<1>4. known = {k \in 1..Len(relations) : Joins(relations[k], r)}
  BY <1>2, <1>3 DEF Joins
<1>5. found = Matches(all, r, Len(all))
  BY <1>1 DEF Matches
<1>6. IsCounted(relations, r, Cardinality(found))
  <2>1. IsCounted(Relations(graph_image), r, Cardinality(Matches(all, r, Len(all))))
    BY CountsAreExact
  <2> QED
    BY <1>5, <2>1
<1> HIDE DEF all, known, found
<1>7. IsFiniteSet(found) /\ Cardinality(found) \in Nat
  <2>1. /\ IsFiniteSet(Matches(all, r, Len(all)))
        /\ Cardinality(Matches(all, r, Len(all))) \in Nat
    BY <1>1, OneMoreMatch
  <2> QED
    BY <1>5, <2>1
<1>8. Cardinality(found) = 0 <=> found = {}
  BY <1>7, FS_EmptySet
<1>9. CASE Cardinality(found) = 0
  <2>1. known = {}
    BY <1>4, <1>6, <1>9 DEF IsCounted
  <2>2. Cardinality(known) = 0
    BY <2>1, FS_EmptySet
  <2> QED
    BY <1>8, <1>9, <2>1, <2>2 DEF known, found
<1>10. CASE Cardinality(found) # 0
  <2>1. PICK i \in 1..Len(relations) :
               /\ Joins(relations[i], r) /\ relations[i].references = Cardinality(found)
               /\ \A j \in 1..Len(relations) : Joins(relations[j], r) => j = i
    BY <1>6, <1>10 DEF IsCounted
  <2>2. known = {i}
    BY <1>4, <2>1
  <2>3. Cardinality(known) = 1
    BY <2>2, FS_Singleton
  <2>4. \E k \in known : relations[k].references = Cardinality(found)
    BY <2>1, <2>2
  <2>5. Cardinality(known) <= 1 /\ found # {}
    BY <1>8, <1>10, <2>3
  <2> QED
    BY <2>4, <2>5 DEF known, found
<1> QED
  BY <1>9, <1>10

-----------------------------------------------------------------------------
(* The analysis is complete.                                               *)

\* Without an active call every section that was visited is in a component.
LEMMA AllAreReported ==
    ASSUME call \in DOMAIN GraphImages, Searched, frames = <<>>,
           node = SectionCount(graph_image)
    PROVE  components = StrongComponents
<1> DEFINE done == UNION components
<1>1. /\ SectionCount(graph_image) \in Nat /\ Nodes = 0..(SectionCount(graph_image) - 1)
      /\ relations \in SomeRelations(SectionCount(graph_image))
  BY ImageFacts DEF Searched, Nodes
<1>2. /\ SearchOK(Nodes, Out, Linked, index_of, low_link, stack, next_index, frames,
                  done)
      /\ \A c \in components : \E n \in Nodes : n \in c /\ c = ClassOf(Nodes, Linked, n)
      /\ \A n \in Nodes : n < node => index_of[n] >= 0
  BY DEF Searched
<1> HIDE DEF done
<1>3. \A n \in Nodes : n < node
  BY <1>1
<1>4. \A n \in Nodes : ~IsOpenNode(index_of, done, n)
  BY <1>2, NothingIsOpen
<1>5. \A n \in Nodes : n \in done
  BY <1>2, <1>3, <1>4 DEF IsOpenNode
<1>6. PathsAre(Nodes, Out, Linked)
  BY <1>1, LinkedArePaths
<1>7. \A x, y, z \in Nodes :
         <<x, y>> \in Linked /\ <<y, z>> \in Linked => <<x, z>> \in Linked
  BY <1>6 DEF PathsAre
<1>8. ASSUME NEW n \in Nodes PROVE ClassOf(Nodes, Linked, n) \in components
  <2>1. PICK c \in components : n \in c
    BY <1>5 DEF done
  <2>2. PICK m \in Nodes : c = ClassOf(Nodes, Linked, m)
    BY <1>2
  <2>3. <<m, n>> \in Linked /\ <<n, m>> \in Linked
    BY <2>1, <2>2 DEF ClassOf
  <2>4. \A x \in Nodes : /\ <<n, x>> \in Linked <=> <<m, x>> \in Linked
                         /\ <<x, n>> \in Linked <=> <<x, m>> \in Linked
    BY <1>7, <2>3
  <2>5. ClassOf(Nodes, Linked, n) = ClassOf(Nodes, Linked, m)
    BY <2>4 DEF ClassOf
  <2> QED
    BY <2>1, <2>2, <2>5
<1>9. components = {ClassOf(Nodes, Linked, n) : n \in Nodes}
  BY <1>2, <1>8
<1> QED
  BY <1>9, ComponentsAreClasses

\* A section is in its own component, and components hold sections.
LEMMA ComponentsHoldSections ==
    /\ \A n \in Nodes : \E c \in StrongComponents : n \in c
    /\ \A c \in StrongComponents : c \subseteq Nodes
<1>1. \A n \in Nodes : <<n, n>> \in Linked
  BY DEF Linked
<1>2. \A n \in Nodes : n \in ClassOf(Nodes, Linked, n)
  BY <1>1 DEF ClassOf
<1>3. \A n \in Nodes : ClassOf(Nodes, Linked, n) \subseteq Nodes
  BY DEF ClassOf
<1> QED
  BY <1>2, <1>3, ComponentsAreClasses

\* The sections that no relation touches.
LEMMA OrphansAreAlone ==
    ASSUME SectionCount(graph_image) \in Nat,
           relations \in SomeRelations(SectionCount(graph_image))
    PROVE  Orphans = {n \in Nodes : \A e \in Edges : n \notin {e[1], e[2]}}
<1> DEFINE L == Len(relations)
           to(n) == {k \in DOMAIN relations : relations[k].target = n}
<1>1. L \in Nat /\ DOMAIN relations = 1..L
  BY LenProperties DEF SomeRelations
<1>2. ASSUME NEW n \in Nodes PROVE Indegree(n) = 0 <=> to(n) = {}
  <2>1. IsFiniteSet(1..L) /\ to(n) \subseteq 1..L
    BY <1>1, FS_Interval
  <2>2. Indegree(n) = Cardinality(to(n))
    BY DEF Indegree
  <2> HIDE DEF to, L
  <2>3. IsFiniteSet(to(n))
    BY <2>1, FS_Subset
  <2> QED
    BY <2>2, <2>3, FS_EmptySet
<1>3. ASSUME NEW n \in Nodes PROVE to(n) = {} <=> \A e \in Edges : e[2] # n
  <2>1. ASSUME NEW e \in Edges, e[2] = n PROVE to(n) # {}
    <3>1. PICK k \in DOMAIN relations : e = <<relations[k].source, relations[k].target>>
      BY DEF Edges
    <3> QED
      BY <2>1, <3>1
  <2>2. ASSUME NEW k \in to(n) PROVE \E e \in Edges : e[2] = n
    <3>1. <<relations[k].source, relations[k].target>> \in Edges
      BY DEF Edges
    <3>2. <<relations[k].source, relations[k].target>>[2] = n
      OBVIOUS
    <3> QED
      BY <3>1, <3>2
  <2> QED
    BY <2>1, <2>2
<1>4. ASSUME NEW n \in Nodes PROVE Adjacency(n) = <<>> <=> \A e \in Edges : e[1] # n
  <2> DEFINE a == Adjacency(n)
  <2>1. a \in Seq(Nodes) /\ \A y : <<n, y>> \in Edges <=> \E e \in 1..Len(a) : a[e] = y
    BY EdgesAreTargets
  <2>2. \A e \in Edges : e = <<e[1], e[2]>>
    BY EdgesJoinNodes
  <2> HIDE DEF a
  <2>3. Len(a) \in Nat /\ (a = <<>> <=> Len(a) = 0)
    BY <2>1, EmptySeq, LenProperties
  <2>4. ASSUME a = <<>>, NEW e \in Edges, e[1] = n PROVE FALSE
    <3>1. <<n, e[2]>> \in Edges
      BY <2>2, <2>4
    <3>2. \E k \in 1..Len(a) : a[k] = e[2]
      BY <2>1, <3>1
    <3> QED
      BY <2>3, <2>4, <3>2
  <2>5. ASSUME \A e \in Edges : e[1] # n PROVE a = <<>>
    <3> SUFFICES ASSUME Len(a) # 0 PROVE FALSE
      BY <2>3
    <3>1. 1 \in 1..Len(a)
      BY <2>3
    <3>2. <<n, a[1]>> \in Edges
      BY <2>1, <3>1
    <3>3. <<n, a[1]>>[1] # n
      BY <2>5, <3>2
    <3> QED
      BY <3>3
  <2>6. a = <<>> <=> \A e \in Edges : e[1] # n
    BY <2>4, <2>5
  <2> QED
    BY <2>6 DEF a
<1> HIDE DEF to, L
<1>5. ASSUME NEW n \in Nodes
      PROVE  n \in Orphans <=> \A e \in Edges : n \notin {e[1], e[2]}
  BY <1>2, <1>3, <1>4 DEF Orphans, Roots
<1>6. Orphans \subseteq Nodes
  BY DEF Orphans, Roots
<1> QED
  BY <1>5, <1>6

\* A graph with a cycle has a component that makes it cyclic.
LEMMA CyclesAreComponents ==
    ASSUME SectionCount(graph_image) \in Nat,
           relations \in SomeRelations(SectionCount(graph_image))
    PROVE  (\E c \in StrongComponents : IsCycle(c)) <=>
              \/ \E n \in Nodes : <<n, n>> \in Edges
              \/ \E c \in StrongComponents : Cardinality(c) > 1
<1>1. \A n \in Nodes : <<n, n>> \in Edges <=> n \in Range(Adjacency(n))
  BY EdgesAreTargets
<1>2. /\ \A n \in Nodes : \E c \in StrongComponents : n \in c
      /\ \A c \in StrongComponents : \A x \in c : x \in Nodes
  BY ComponentsHoldSections
<1> QED
  BY <1>1, <1>2 DEF IsCycle

\* When no call is active and all sections were visited, nothing is missing.
LEMMA GraphInvImpliesComplete == GraphInv => AnalysisIsComplete
<1> SUFFICES ASSUME GraphInv, graph_pc = "returned", graph_error = "none"
             PROVE  /\ components = StrongComponents
                    /\ cyclic <=> \/ \E n \in Nodes : <<n, n>> \in Edges
                                  \/ \E c \in StrongComponents : Cardinality(c) > 1
                    /\ Orphans = {n \in Nodes : \A e \in Edges : n \notin {e[1], e[2]}}
                    /\ ReferencesAreCounted
  BY DEF AnalysisIsComplete
<1>1. /\ call \in DOMAIN GraphImages /\ Searched /\ frames = <<>>
      /\ node = SectionCount(graph_image)
  BY DEF GraphInv
<1>2. /\ relations = Relations(graph_image)
      /\ cyclic <=> \E c \in components : IsCycle(c)
  BY <1>1 DEF Searched
<1>3. /\ SectionCount(graph_image) \in Nat
      /\ relations \in SomeRelations(SectionCount(graph_image))
  BY <1>1, <1>2, ImageFacts
<1>4. components = StrongComponents
  BY <1>1, AllAreReported
<1>5. cyclic <=> \/ \E n \in Nodes : <<n, n>> \in Edges
                 \/ \E c \in StrongComponents : Cardinality(c) > 1
  BY <1>2, <1>3, <1>4, CyclesAreComponents
<1>6. Orphans = {n \in Nodes : \A e \in Edges : n \notin {e[1], e[2]}}
  BY <1>3, OrphansAreAlone
<1>7. ReferencesAreCounted
  BY <1>1, <1>2, RelationsCountReferences
<1> QED
  BY <1>4, <1>5, <1>6, <1>7

\* When the analysis returns, its components are those of the graph, it is
\* cyclic exactly if a path leads from a section to itself, its orphans are the
\* sections without relations, and its relations count every reference once
\* (SectionGraphAnalyzer::analyze).
THEOREM AnalysisIsAlwaysComplete == GraphSpec => []AnalysisIsComplete
  BY GraphIsInvariant, GraphInvImpliesComplete, PTL
===============================================================================
