-------------------------------- MODULE PeParser --------------------------------
(***************************************************************************)
(* PeParser::parse (src/src/pe_parser.cc).                                 *)
(*                                                                         *)
(* A file is what the parser finds in it, as in ElfParser.  A section      *)
(* header has 40 bytes: the name in the first 8, the characteristics in    *)
(* the last 4.  The parser reads nine words after the name, so that flags  *)
(* are the first bytes of the next header, or what follows the table:      *)
(* leading is the flags that the first letters of a name spell, trailing   *)
(* those that follow the last header.                                      *)
(***************************************************************************)
EXTENDS RelocationTables, Translator

LOCAL INSTANCE TLC
LOCAL INSTANCE SequencesExt
LOCAL INSTANCE Container

CONSTANT DebugNames     \* the names that begin with .debug

\* pe_arch, pe_permissions and pe_section_kind.
PeArchitectures ==
    332 :> "x86" @@ 34404 :> "x86_64" @@ 448 :> "arm" @@ 452 :> "arm"
    @@ 43620 :> "arm64" @@ 20530 :> "riscv32" @@ 20580 :> "riscv64"
PePermissions(flags) == flags \cap {"r", "w", "x"}
PeNamedKinds ==
    ".idata" :> "imports" @@ ".edata" :> "exports" @@ ".reloc" :> "relocations"
    @@ ".rsrc" :> "resources"
PeSectionKind(name, flags) ==
    IF name \in DebugNames THEN "debug"
    ELSE Lookup(PeNamedKinds, name,
                IF "uninitialized" \in flags THEN "no_bits" ELSE "program_bits")

OptionalOffset(file) == file.pe_offset + 24
SectionTable(file) == OptionalOffset(file) + file.optional_size
Wide(file) == file.magic = 523
IsReadable(file, end) == OptionalOffset(file) + end <= file.size

-----------------------------------------------------------------------------
\* The headers; "silent" is a failure that sets no error.
PeHeaderError(file) ==
    IF file.size < 64 THEN "bad_magic"
    ELSE IF ~RangeInside(file.pe_offset, 24, file.size) THEN "invalid_offset"
    ELSE IF ~file.signature THEN "invalid_header"
    ELSE IF Len(file.sections) > MaxSections THEN "resource_limit"
    ELSE IF ~RangeInside(OptionalOffset(file), file.optional_size, file.size)
         THEN "truncated"
    ELSE IF ~IsReadable(file, 2) \/ file.magic \notin {267, 523}
         THEN "unsupported_class"
    ELSE IF ~IsReadable(file, 24) THEN "truncated"
    ELSE IF ~IsReadable(file, 32) THEN "silent"
    ELSE IF ~IsReadable(file, 40) \/ file.section_alignment = 0
            \/ file.file_alignment = 0
         THEN "invalid_alignment"
    ELSE IF ~RangeInside(SectionTable(file), 40 * Len(file.sections), file.size)
         THEN "invalid_section"
    ELSE "none"

PeSectionError(file, n) ==
    LET raw == file.sections[n] IN
    IF SectionTable(file) + 40 * (n - 1) + 44 > file.size THEN "truncated"
    ELSE IF /\ raw.raw_size # 0
            /\ ~RangeInside(raw.raw_offset, raw.raw_size, file.size)
         THEN "file_range_overflow"
    ELSE "none"

SectionFlags(file, n) ==
    IF n < Len(file.sections) THEN file.sections[n + 1].leading
    ELSE file.trailing

\* A section, and the segment that is made of it.
PeSection(file, n) ==
    LET raw == file.sections[n] IN
    [index |-> n - 1, name |-> raw.name,
     file_offset |-> raw.raw_offset, file_size |-> raw.raw_size,
     virtual_address |-> raw.rva,
     memory_size |-> IF raw.virtual_size > raw.raw_size THEN raw.virtual_size
                     ELSE raw.raw_size,
     alignment |-> file.section_alignment,
     permissions |-> PePermissions(SectionFlags(file, n)),
     kind |-> PeSectionKind(raw.name, SectionFlags(file, n))]
PeSegment(file, n) == [sections |-> <<n - 1>>] @@ PeSection(file, n)

-----------------------------------------------------------------------------
\* COFF symbols: auxiliary records are passed over, and a table that is too
\* large or outside the file is left out.
SymbolsEnd(file) == file.symbol_offset + 18 * file.symbol_count

\* The strings follow the symbols; there are none if their size is not there.
StringSize(file) ==
    IF RangeInside(SymbolsEnd(file), 4, file.size) THEN file.string_size ELSE 0

PeSymbolName(file, raw) ==
    LET place == SymbolsEnd(file) + raw.name_offset
        limit == StringSize(file) - raw.name_offset
    IN
    IF raw.short \/ raw.name_offset >= StringSize(file) THEN raw.name
    ELSE IF RangeInside(place, limit, file.size) /\ place \in DOMAIN file.texts
         THEN IF file.texts[place].length < limit THEN file.texts[place].text
              ELSE ""
    ELSE ""

PeSymbols(file) ==
    LET add(state, n) ==
            LET raw == file.symbols[n] IN
            IF n # state.next THEN state
            ELSE [next |-> n + raw.aux + 1,
                  output |-> Append(state.output,
                     [index |-> Len(state.output),
                      name |-> PeSymbolName(file, raw), value |-> raw.value,
                      size |-> 0, section_index |-> raw.section,
                      kind |-> IF raw.function THEN "function" ELSE "unknown",
                      binding |-> IF raw.storage = 2 THEN "global"
                                  ELSE "local"])]
    IN  IF /\ file.symbol_count \in 1..MaxSymbols
           /\ RangeInside(file.symbol_offset, 18 * file.symbol_count, file.size)
        THEN FoldLeft(add, [next |-> 1, output |-> <<>>],
                      [n \in 1..file.symbol_count |-> n]).output
        ELSE <<>>

-----------------------------------------------------------------------------
PeImage(file) ==
    [file |-> [size |-> file.size],
     header |->
        [format |-> "pe_like", image_base |-> file.image_base,
         entry_point |-> Wrap(file.image_base + file.entry),
         kind |-> IF file.dll THEN "shared_library" ELSE "executable",
         architecture |-> Lookup(PeArchitectures, file.machine, "unknown")],
     sections |-> [n \in 1..Len(file.sections) |-> PeSection(file, n)],
     segments |-> [n \in 1..Len(file.sections) |-> PeSegment(file, n)],
     symbols |-> PeSymbols(file),
     relocations |-> <<>>]

\* The base relocation directory, the sixth of at most sixteen.
HasRelocations(file) ==
    LET count == IF file.directory_count < 16 THEN file.directory_count ELSE 16
        table == OptionalOffset(file) + IF Wide(file) THEN 112 ELSE 96
    IN  /\ table <= file.size
        /\ count > 5
        /\ RangeInside(table, 8 * count, SectionTable(file))
        /\ file.relocation_size # 0

PeRelocations(file, image) ==
    LET size == file.relocation_size
        places == {place \in RvaToFile(image, file.relocation_rva, size) :
                      RangeInside(place.file_offset, size, file.size)}
    IN
    IF ~HasRelocations(file) THEN DecodingFrom(<<>>)
    ELSE IF places = {} THEN Decoding("invalid_relocation", <<>>)
    ELSE DecodePeBase([size |-> size, blocks |-> file.relocations],
                      file.image_base, <<>>)

PeError(file) ==
    LET fails(n) == PeSectionError(file, n) # "none"
        first == FirstOf(Len(file.sections), fails)
    IN
    IF PeHeaderError(file) # "none" THEN PeHeaderError(file)
    ELSE IF first <= Len(file.sections) THEN PeSectionError(file, first)
    ELSE PeRelocations(file, PeImage(file)).error

PeParsed(file) ==
    LET image == PeImage(file)
    IN  [image EXCEPT !.relocations = PeRelocations(file, image).output]
=================================================================================
