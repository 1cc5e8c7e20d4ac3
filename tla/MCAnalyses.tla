------------------------------- MODULE MCAnalyses -------------------------------
(***************************************************************************)
(* The analyses of an image, for TLC.  They share no state: a behaviour is *)
(* a sequence of calls of one of them, and the variables of the others     *)
(* stay as they are.                                                       *)
(***************************************************************************)
EXTENDS Disassembly, DebugLines, DebugEntries, LayoutRequests, SectionGraph

CONSTANT
    Components      \* the analyses that run: a set of the names below

VARIABLE component

analysis_vars ==
    <<component, code_vars, vars, tree_vars, graph_vars, layout_vars>>

-----------------------------------------------------------------------------
(* The decoders: near jumps are scaled to three bytes, ARM64 instructions  *)
(* to two.                                                                 *)

DecoderSet == {X86Decoder(3), Arm64Decoder(2), RiscVDecoder(2, FALSE), RiscVDecoder(2, TRUE)}

-----------------------------------------------------------------------------
(* Headers of line programs.                                               *)

Header(minimum_instruction, line_base, line_range, opcode_base) ==
    [input |-> "complete", minimum_instruction |-> minimum_instruction,
     default_statement |-> minimum_instruction = 1, line_base |-> line_base,
     line_range |-> line_range, opcode_base |-> opcode_base, files |-> 1]

\* Instructions of one and of four bytes; all standard opcodes, some and none
\* of them; a header for each defect.
HeaderList ==
    <<Header(1, -1, 2, 7), Header(4, -2, 3, 4), Header(4, 0, 1, 0),
      Header(0, 0, 1, 7), Header(1, 0, 0, 7),
      [Header(1, 0, 1, 7) EXCEPT !.files = 3],
      [Header(1, 0, 1, 7) EXCEPT !.input = "bad_size"],
      [Header(1, 0, 1, 7) EXCEPT !.input = "unit_truncated"],
      [Header(1, 0, 1, 7) EXCEPT !.input = "bad_version"],
      [Header(1, 0, 1, 7) EXCEPT !.input = "header_truncated"],
      [Header(1, 0, 1, 7) EXCEPT !.input = "fields_truncated"],
      [Header(1, 0, 1, 7) EXCEPT !.input = "opcodes_truncated"]>>

LineSteps == {-1, 2}

-----------------------------------------------------------------------------
(* Images of up to four sections and their references.                     *)

SectionOf(index, kind, link, info) ==
    [index |-> index, kind |-> kind, link |-> link, info |-> info]
Plain(n) == [k \in 1..n |-> SectionOf(k - 1, "program_bits", 0, 0)]
Sequence(list) == [sections |-> list]
Rel(target_section, symbol_index) ==
    [target_section |-> target_section, symbol_index |-> symbol_index]

\* Symbol n lies in section n.
SymbolsIn(n) == [k \in 1..n |-> [section_index |-> k - 1]]

\* The edges of a set in a fixed order, as segments when they lead up and as
\* relocations when they lead down or back.
Pairs(n) == [k \in 1..(n * n) |-> <<(k - 1) \div n, (k - 1) % n>>]
ImageOf(n, edges) ==
    LET up(e) == e \in edges /\ e[1] < e[2]
        down(e) == e \in edges /\ e[1] >= e[2]
        above == SelectSeq(Pairs(n), up)
        below == SelectSeq(Pairs(n), down)
    IN  [sections    |-> Plain(n),
         segments    |-> [k \in DOMAIN above |-> Sequence(above[k])],
         symbols     |-> SymbolsIn(n),
         relocations |-> [k \in DOMAIN below |-> Rel(below[k][1], below[k][2])]]

\* Every graph on three sections; on four, every graph of up to four edges
\* that has no loops.
Edges3 == {<<3, e>> : e \in SUBSET ((0..2) \X (0..2))}
Proper4 == {e \in (0..3) \X (0..3) : e[1] # e[2]}
Edges4 == {<<4, e>> : e \in UNION {kSubset(k, Proper4) : k \in 1..4}}

\* References that name no section, sections that repeat and links: one
\* image of them; and one with too many sections.
OddImage ==
    [sections |-> <<SectionOf(0, "relocations", 2, 1),
                    SectionOf(1, "relocation_addends", 9, 9),
                    SectionOf(2, "program_bits", 0, 1)>>,
     segments |-> <<Sequence(<<0, 2, 0>>), Sequence(<<1, 7, 1>>), Sequence(<<>>)>>,
     symbols |-> <<[section_index |-> 1], [section_index |-> 8]>>,
     relocations |-> <<Rel(0, 0), Rel(1, 1), Rel(0, 5), Rel(6, 0)>>]

MCGraphImages ==
    [k \in Edges3 \cup Edges4 \cup {<<0, {}>>, <<5, {}>>} |->
        IF k[1] = 0 THEN OddImage ELSE ImageOf(k[1], k[2])]

-----------------------------------------------------------------------------
(* Images of up to four segments, with addresses up to 7.                  *)

SegmentOf(va, memory_size, file_offset, file_size, alignment, perms) ==
    [virtual_address |-> va, memory_size |-> memory_size,
     file_offset |-> file_offset, file_size |-> file_size,
     alignment |-> alignment, perms |-> perms]

\* Adjacent in memory and in the file, or in one of them; with the same and
\* with other permissions; nested, equal, empty, at the last address, with a
\* bad alignment and outside the file.
SegmentList ==
    <<SegmentOf(1, 1, 0, 1, 1, {"r"}),
      SegmentOf(2, 2, 1, 2, 0, {"r"}),
      SegmentOf(2, 1, 1, 1, 4, {"r", "w"}),
      SegmentOf(4, 2, 3, 1, 1, {"r"}),
      SegmentOf(4, 1, 0, 1, 1, {"r"}),
      SegmentOf(6, 1, 4, 1, 1, {"r"}),
      SegmentOf(2, 4, 0, 3, 1, {"r", "w"}),
      SegmentOf(6, 1, 4, 0, 1, {"r"}),
      SegmentOf(0, 0, 0, 0, 1, {"r"}),
      SegmentOf(5, 1, 0, 1, 3, {"r"}),
      SegmentOf(6, 2, 0, 1, 1, {"r"}),
      SegmentOf(5, 1, 5, 1, 1, {"r"})>>

-----------------------------------------------------------------------------
AnalysisInit ==
    /\ component \in Components
    /\ CodeInit /\ Init /\ TreeInit /\ GraphInit /\ LayoutInit
    /\ component # "disassembly" =>
          start = (CHOOSE s \in Starts : TRUE) /\ decoder = CHOOSE d \in Decoders : TRUE
    /\ component # "graph" => call = <<0, {}>>

AnalysisNext ==
    \/ /\ component = "disassembly" /\ CodeNext
       /\ UNCHANGED <<component, vars, tree_vars, graph_vars, layout_vars>>
    \/ /\ component = "lines" /\ Next
       /\ UNCHANGED <<component, code_vars, tree_vars, graph_vars, layout_vars>>
    \/ /\ component = "tree" /\ TreeNext
       /\ UNCHANGED <<component, code_vars, vars, graph_vars, layout_vars>>
    \/ /\ component = "graph" /\ GraphNext
       /\ UNCHANGED <<component, code_vars, vars, tree_vars, layout_vars>>
    \/ /\ component = "layout" /\ LayoutNext
       /\ UNCHANGED <<component, code_vars, vars, tree_vars, graph_vars>>

AnalysisSpec == AnalysisInit /\ [][AnalysisNext]_analysis_vars
===============================================================================
