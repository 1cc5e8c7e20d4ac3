-------------------------------- MODULE MCLoader --------------------------------
(* Loader on a byte of two values, pages of four bytes and a word of eight    *)
(* bytes, for TLC.                                                            *)
EXTENDS Loader, TLC

MCPageSize == 4

Segment(va, file_offset, file_size, memory_size, perms) ==
    [virtual_address |-> va, file_offset |-> file_offset,
     file_size |-> file_size, memory_size |-> memory_size, perms |-> perms]

Symbol(number, binding, name, value) ==
    [index |-> number, binding |-> binding, library |-> "lib", name |-> name,
     value |-> value]

Rel(kind, offset, symbol, addend, width) ==
    [kind |-> kind, offset |-> offset, symbol_index |-> symbol,
     addend |-> addend, width |-> width]

Import(name, ordinal, slot, weak) ==
    [library |-> "lib", name |-> name, ordinal |-> ordinal,
     slot_address |-> slot, weak |-> weak]

Text == Segment(16, 0, 3, 4, {"r", "x"})
Data == Segment(22, 1, 2, 9, {"r", "w"})

Program ==
    [image_base |-> 16, entry_point |-> 17, word_size |-> 4,
     byte_order |-> "little",
     file |-> [size |-> 4, bytes |-> (0 :> 1 @@ 1 :> 0 @@ 2 :> 1 @@ 3 :> 1)],
     sections |-> <<>>,
     segments |-> <<Text, Data, Segment(90, 0, 0, 0, {})>>,
     symbols |-> <<Symbol(0, "local", "", 0), Symbol(1, "global", "v", 6),
                   Symbol(2, "import_symbol", "f", 0)>>,
     relocations |-> <<>>,
     imports |-> <<>>]

Relocated(rels) == [Program EXCEPT !.relocations = rels]
Importing(imports) == [Program EXCEPT !.imports = imports]

\* Linked at address zero, as position-independent images are.
ZeroBased ==
    [Program EXCEPT !.image_base = 0, !.entry_point = 1,
                    !.segments = <<Segment(0, 0, 3, 4, {"r", "x"})>>]

\* An image of every kind: complete, linked at zero, big-endian with long
\* words, sharing a page, failing in a relocation or an import, invalid.
Images ==
    <<Relocated(<<Rel("absolute32", 22, 1, 1, 4), Rel("high16", 24, 1, 200, 2),
                 Rel("low16", 16, 1, 9, 0), Rel("none", 0, 0, 0, 0)>>),
     Relocated(<<Rel("relative32", 23, 0, 3, 0), Rel("absolute32", 23, 2, 0, 2)>>),
     Relocated(<<Rel("pc_relative32", 22, 1, 12, 4)>>),
     Relocated(<<Rel("absolute32", 22, 1, 10, 4)>>),
     Relocated(<<Rel("relative64", 22, 0, 1, 8), Rel("got_relative", 22, 0, 0, 0)>>),
     Relocated(<<Rel("absolute64", 22, 0, 1, 3)>>),
     Relocated(<<Rel("absolute32", 30, 1, 0, 4)>>),
     Relocated(<<Rel("absolute32", 250, 1, 0, 4)>>),
     Importing(<<Import("f", 7, 22, FALSE), Import("g", 8, 26, TRUE)>>),
     Importing(<<Import("g", 1, 16, FALSE), Import("f", 1, 250, FALSE)>>),
     Importing(<<Import("g", 9, 16, FALSE)>>),
     [Program EXCEPT !.image_base = 0, !.word_size = 8, !.byte_order = "big",
                     !.imports = <<Import("", 1, 23, FALSE)>>],
     [Program EXCEPT !.segments = <<Text, Segment(19, 0, 1, 1, {"r"})>>],
     [Program EXCEPT !.segments = <<Segment(18, 0, 1, 2, {"r"}), Text>>],
     [Program EXCEPT !.segments = <<Text, Segment(60, 0, 4, 5, {})>>,
                     !.entry_point = 250],
     [Program EXCEPT !.segments = <<Segment(16, 2, 3, 4, {"r"})>>],
     [Program EXCEPT !.symbols = <<Symbol(1, "local", "", 0)>>],
     [Program EXCEPT !.file = NoFile],
     ZeroBased>>

Opt(base, relocate, bind, wx) ==
    [preferred_base |-> base, apply_relocations |-> relocate,
     resolve_imports |-> bind, enforce_wx |-> wx]

\* In place, moved up, moved down, moved so far that addresses overflow, and
\* the steps left out.
LoadOptions ==
    <<Opt(0, TRUE, TRUE, TRUE), Opt(24, TRUE, TRUE, FALSE),
     Opt(8, TRUE, TRUE, TRUE), Opt(252, TRUE, TRUE, TRUE),
     Opt(32, FALSE, FALSE, TRUE)>>

Export(library, name, ordinal, address) ==
    [library |-> library, name |-> name, ordinal |-> ordinal,
     address |-> address]

\* Exports that exclude each other by name and by ordinal; the second one has
\* an address that needs more than a 32-bit word.
MCExports ==
    <<Export("lib", "f", 0, 2), Export("lib", "f", 2, 40),
      Export("lib", "g", 0, 5), Export("lib", NoName, 1, 9)>>

CallsOf(triples) ==
    [c \in triples |-> [image    |-> Images[c[1]],
                        options  |-> LoadOptions[c[2]],
                        with_resolver |-> c[3]]]

\* Every image in place and moved up with a resolver; images with imports
\* without one; one image under every option.
MCCalls ==
    CallsOf(((1..18) \X {1} \X {TRUE}) \cup ((1..15) \X {2} \X {TRUE})
            \cup ({9, 11} \X {1} \X {FALSE}) \cup ({1, 15} \X (3..5) \X {FALSE}))

\* An image that is linked at zero, loaded elsewhere.
ZeroBasedCalls == CallsOf({19} \X {1, 5} \X {TRUE})

\* A 32-bit image whose import lies above what 32 bits hold.
WideImportCalls == CallsOf({9} \X {1} \X {TRUE})
===============================================================================
