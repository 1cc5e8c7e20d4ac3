------------------------------- MODULE ElfParser -------------------------------
(***************************************************************************)
(* ElfParser::parse (src/src/elf_parser.cc).                               *)
(*                                                                         *)
(* A file is what the parser finds in it: size, the bytes there are; the   *)
(* fields of the header; sections and programs, the headers of the two     *)
(* tables, with the entries of a symbol or relocation table beside its     *)
(* header; and texts, the terminated strings, by their offset in the file. *)
(* Every table the parser may read has at least the entries it may read.   *)
(***************************************************************************)
EXTENDS RelocationTables

LOCAL INSTANCE TLC
LOCAL INSTANCE SequencesExt

CONSTANTS
    MaxString,      \* limits_.max_string_bytes
    DebugNames      \* the names that begin with .debug

ElfArchitectures ==
    3 :> "x86" @@ 62 :> "x86_64" @@ 40 :> "arm" @@ 183 :> "arm64"
    @@ 243 :> "riscv64"
ElfFileKinds == <<"relocatable", "executable", "shared_library", "core">>
ElfSectionKinds ==
    2 :> "symbol_table" @@ 3 :> "string_table" @@ 4 :> "relocation_addends"
    @@ 7 :> "notes" @@ 8 :> "no_bits" @@ 9 :> "relocations"
    @@ 11 :> "dynamic_symbols"
ElfSectionKind(type, name) ==
    IF type \in DOMAIN ElfSectionKinds THEN ElfSectionKinds[type]
    ELSE IF name \in DebugNames THEN "debug"
    ELSE IF type = 1 THEN "program_bits" ELSE "unknown"
ElfSymbolKinds ==
    <<"object", "function", "section", "file", "common", "tls_object">>
ElfBinding(info, section) ==
    IF section = 0 THEN "import_symbol"
    ELSE Lookup(<<"global", "weak">>, info \div 16, "local")

\* The bytes of a structure in the file's class.
Bytes(file, wide, narrow) == IF file.class = 2 THEN wide ELSE narrow

\* table_string; the name stays empty when it cannot be read.
TableString(file, table, offset) ==
    LET place == Wrap(table.offset + offset) IN
    IF /\ offset < table.size
       /\ table.size <= MaxString
       /\ RangeInside(place, table.size - offset, file.size)
       /\ place \in DOMAIN file.texts
    THEN IF file.texts[place].length < table.size - offset
         THEN file.texts[place].text ELSE ""
    ELSE ""

\* A table of headers lies in the file and its entries are not too short.
TableIsInvalid(file, offset, entry_size, count, minimum) ==
    \/ ~RangeInside(offset, entry_size * count, file.size)
    \/ count # 0 /\ entry_size < minimum

-----------------------------------------------------------------------------
\* Everything before the tables of symbols and relocations.
ElfHeaderError(file) ==
    IF file.size < 52 \/ file.class \notin {1, 2} THEN "truncated"
    ELSE IF file.encoding \notin {1, 2} THEN "unsupported_endian"
    ELSE IF file.version # 1 THEN "invalid_header"
    ELSE IF file.size < Bytes(file, 64, 52) THEN "truncated"
    ELSE IF \/ Len(file.sections) > MaxSections
            \/ Len(file.programs) > MaxSegments
         THEN "resource_limit"
    ELSE IF TableIsInvalid(file, file.section_offset, file.section_entry_size,
                           Len(file.sections), Bytes(file, 64, 40))
         THEN "invalid_section"
    ELSE IF \E n \in 1..Len(file.sections) :
               LET s == file.sections[n]
               IN  s.type # 8 /\ ~RangeInside(s.offset, s.size, file.size)
         THEN "file_range_overflow"
    ELSE IF \/ TableIsInvalid(file, file.program_offset,
                              file.program_entry_size, Len(file.programs),
                              Bytes(file, 56, 32))
            \/ \E n \in 1..Len(file.programs) :
                  LET p == file.programs[n]
                  IN  /\ p.type = 1
                      /\ \/ p.file_size > p.memory_size
                         \/ ~RangeInside(p.file_offset, p.file_size, file.size)
         THEN "invalid_segment"
    ELSE "none"

ElfSection(file, n) ==
    LET raw == file.sections[n]
        name == IF file.names_index < Len(file.sections)
                THEN TableString(file, file.sections[file.names_index + 1],
                                 raw.name)
                ELSE ""
    IN  [index |-> n - 1, name |-> name,
         kind |-> ElfSectionKind(raw.type, name),
         file_offset |-> raw.offset, file_size |-> raw.size,
         virtual_address |-> raw.address, memory_size |-> raw.size,
         alignment |-> IF raw.alignment = 0 THEN 1 ELSE raw.alignment,
         permissions |-> {"r"} \cup (raw.flags \cap {"w", "x"})]

ElfSegment(file, n) ==
    LET p == file.programs[n] IN
    [index |-> n - 1, file_offset |-> p.file_offset,
     file_size |-> p.file_size, virtual_address |-> p.virtual_address,
     memory_size |-> p.memory_size, permissions |-> p.flags, sections |-> <<>>]

\* A bug in ElfSegments: every program header is taken for a segment.
ElfSegmentsOfAnyType(file) ==
    [n \in 1..Len(file.programs) |-> ElfSegment(file, n)]

\* Segments keep the index of their program header.
ElfSegments(file) ==
    LET loaded == SelectSeq([n \in 1..Len(file.programs) |-> n],
                            LAMBDA n : file.programs[n].type = 1)
    IN  [i \in 1..Len(loaded) |-> ElfSegment(file, loaded[i])]

-----------------------------------------------------------------------------
\* The symbol tables: symbols of all tables share one numbering.
IsSymbolTable(file, s) ==
    /\ s.type \in {2, 11}
    /\ s.entry_size # 0
    /\ s.link < Len(file.sections)

ElfSymbol(file, table, raw) ==
    [name |-> TableString(file, file.sections[table.link + 1], raw.name),
     value |-> raw.value, size |-> raw.size, section_index |-> raw.section,
     kind |-> Lookup(ElfSymbolKinds, raw.info % 16, "unknown"),
     binding |-> ElfBinding(raw.info, raw.section)]

\* A bug in SymbolTable: the first entry, which is empty, is left out.
SymbolTableNamed(file, result, s) ==
    LET add(output, raw) ==
            Append(output, [index |-> Len(output)] @@ ElfSymbol(file, s, raw))
    IN
    IF result.error # "none" \/ ~IsSymbolTable(file, s) THEN result
    ELSE DecodingFrom(FoldLeft(add, result.output,
                               SubSeq(s.entries, 2, s.size \div s.entry_size)))

SymbolTable(file, result, s) ==
    LET count == s.size \div s.entry_size
        end == s.offset + (count - 1) * s.entry_size + Bytes(file, 24, 16)
        add(output, raw) ==
            Append(output, [index |-> Len(output)] @@ ElfSymbol(file, s, raw))
    IN
    IF result.error # "none" \/ ~IsSymbolTable(file, s) THEN result
    ELSE IF count > MaxSymbols THEN Decoding("resource_limit", result.output)
    ELSE IF count # 0 /\ end > file.size
         THEN Decoding("truncated", result.output)
    ELSE DecodingFrom(FoldLeft(add, result.output, SubSeq(s.entries, 1, count)))

ElfSymbols(file) ==
    LET decode(result, s) == SymbolTable(file, result, s)
    IN  FoldLeft(decode, DecodingFrom(<<>>), file.sections)

-----------------------------------------------------------------------------
\* The relocation tables.
RelocationTable(file, result, s) ==
    LET kind == Lookup(ElfFileKinds, file.type, "unknown")
        options ==
            [architecture |-> Lookup(ElfArchitectures, file.machine, "unknown"),
             wide |-> file.class = 2, target_section |-> s.info,
             entry_size |-> s.entry_size, explicit_addends |-> s.type = 4,
             base_address |->
                IF kind = "relocatable" /\ s.info < Len(file.sections)
                THEN file.sections[s.info + 1].address ELSE 0]
    IN
    IF result.error # "none" \/ s.type \notin {4, 9} \/ s.size = 0 THEN result
    ELSE DecodeElf(s, options, result.output)

ElfRelocations(file) ==
    LET decode(result, s) == RelocationTable(file, result, s)
    IN  FoldLeft(decode, DecodingFrom(<<>>), file.sections)

-----------------------------------------------------------------------------
ElfError(file) ==
    IF ElfHeaderError(file) # "none" THEN ElfHeaderError(file)
    ELSE IF ElfSymbols(file).error # "none" THEN ElfSymbols(file).error
    ELSE ElfRelocations(file).error

ElfImage(file) ==
    [file |-> [size |-> file.size],
     header |->
        [format |-> "elf_like", image_base |-> 0, entry_point |-> file.entry,
         kind |-> Lookup(ElfFileKinds, file.type, "unknown"),
         architecture |-> Lookup(ElfArchitectures, file.machine, "unknown")],
     sections |-> [n \in 1..Len(file.sections) |-> ElfSection(file, n)],
     segments |-> ElfSegments(file),
     symbols |-> ElfSymbols(file).output,
     relocations |-> ElfRelocations(file).output]
================================================================================
