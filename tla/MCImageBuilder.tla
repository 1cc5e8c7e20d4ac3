----------------------------- MODULE MCImageBuilder -----------------------------
(* ImageBuilder with up to three sections and addresses up to 63, for TLC. *)
EXTENDS ImageBuilder

BuilderSection(name, data_size, zero_fill, alignment, permissions) ==
    [name |-> name, kind |-> "program_bits",
     data |-> [k \in 1..data_size |-> <<name, k>>], zero_fill |-> zero_fill,
     alignment |-> alignment, permissions |-> permissions]

\* Sections with and without data and zeros, of every alignment; a second
\* "text", and one for every reason to be refused.
MCSections ==
    <<BuilderSection("text", 3, 0, 1, {"r", "x"}),
      BuilderSection("init", 1, 0, 8, {"r", "x"}),
      BuilderSection("data", 2, 3, 2, {"r", "w"}),
      BuilderSection("bss", 0, 5, 4, {"r", "w"}),
      BuilderSection("more", 1, 60, 1, {"r", "w"}),
      BuilderSection("text", 1, 0, 1, {"r", "w"}),
      BuilderSection("long", 1, 0, 1, {"r"}),
      BuilderSection("odd", 1, 0, 3, {"r"}),
      BuilderSection("large", 9, 0, 1, {"r"})>>

MCSymbols == <<[name |-> "main", library |-> ""], [name |-> "f", library |-> "long"]>>
MCImports == <<[name |-> "g", library |-> "lib"], [name |-> "long", library |-> "lib"]>>
MCExports == <<[name |-> "main", forward_target |-> ""],
               [name |-> "h", forward_target |-> "long"]>>
MCRelocations == <<[symbol_index |-> 0], [symbol_index |-> 1]>>

BuilderOptions(base, file_alignment, memory_alignment, separate) ==
    [image_base |-> base, file_alignment |-> file_alignment,
     memory_alignment |-> memory_alignment, separate_permissions |-> separate]

\* The usual relation of the alignments, the opposite, a base that is aligned
\* less than a section, bases near the end, and alignments that are refused.
MCOptions ==
    <<BuilderOptions(16, 2, 8, TRUE), BuilderOptions(16, 2, 8, FALSE),
      BuilderOptions(4, 4, 4, FALSE), BuilderOptions(0, 8, 1, TRUE),
      BuilderOptions(52, 1, 4, TRUE), BuilderOptions(60, 1, 8, FALSE),
      BuilderOptions(16, 0, 8, TRUE), BuilderOptions(16, 2, 6, TRUE),
      BuilderOptions(16, 16, 8, TRUE)>>
===============================================================================
