-------------------------------- MODULE MCFiles --------------------------------
(***************************************************************************)
(* Object files for TLC: for each format one file that uses every part of  *)
(* its parser, cut off at every fourth byte, and with one thing changed at *)
(* a time.  Files have at most 500 bytes and addresses are below 1024.     *)
(***************************************************************************)
EXTENDS Integers, Sequences, TLC

\* The files that differ from a file in one field, in one field of a part of a
\* table, and in their size.
Variants(file, field, values) ==
    [i \in 1..Len(values) |-> [file EXCEPT ![field] = values[i]]]
PartVariants(file, table, n, field, values) ==
    [i \in 1..Len(values) |->
        [file EXCEPT ![table] = [@ EXCEPT ![n] = [@ EXCEPT ![field] = values[i]]]]]
CutOff(file) == [n \in 1..126 |-> [file EXCEPT !.size = 4 * n]]

-----------------------------------------------------------------------------
(* ELF: a string table, a symbol table and a relocation table, in orders   *)
(* and numbers, of both classes.                                           *)

ElfEntry(value, section) ==
    [name |-> 0, info |-> 18, value |-> value, size |-> 1, section |-> section]
ElfEntries(first) ==
    <<ElfEntry(first, 0), ElfEntry(first + 1, 1), ElfEntry(first + 2, 1),
      ElfEntry(first + 3, 2), ElfEntry(first + 4, 2)>>
ElfFixup(symbol, offset) ==
    [offset |-> offset, symbol |-> symbol, type |-> 1, addend |-> 3]
ElfFixups == <<ElfFixup(1, 0), ElfFixup(0, 8), ElfFixup(2, 4), ElfFixup(1, 2)>>
Raw(type, offset, size, link, entry_size, list) ==
    [type |-> type, name |-> 0, flags |-> {"w"}, address |-> 40,
     offset |-> offset, size |-> size, link |-> link, info |-> 1,
     alignment |-> 4, entry_size |-> entry_size, entries |-> list]
Strings == Raw(3, 320, 12, 0, 0, <<>>)
SymbolRaw(type, size, first) == Raw(type, 340, size, 0, 16, ElfEntries(first))
FixupRaw(size, link, entry_size) == Raw(9, 420, size, link, entry_size, ElfFixups)
Program(type, offset, bytes, span) ==
    [type |-> type, file_offset |-> offset, file_size |-> bytes,
     virtual_address |-> 40, memory_size |-> span, flags |-> {"r"}]

ElfFile(class, sections) ==
    [format |-> "elf_like", size |-> 500, class |-> class, encoding |-> 1,
     version |-> 1, type |-> 1, machine |-> 62, entry |-> 40,
     section_offset |-> 64, section_entry_size |-> 64,
     program_offset |-> 64, program_entry_size |-> 56, names_index |-> 0,
     sections |-> sections,
     programs |-> <<Program(1, 100, 8, 16), Program(6, 600, 9, 8)>>,
     texts |-> 320 :> [text |-> ".debug_line", length |-> 11]]
WideElf ==
    ElfFile(2, <<Strings, Raw(2, 340, 72, 0, 24, ElfEntries(50)),
                 Raw(4, 420, 48, 1, 24, ElfFixups)>>)
InSection(n, field, values) == PartVariants(WideElf, "sections", n, field, values)

ElfFiles ==
    CutOff(WideElf)
    \o <<WideElf,
         [WideElf EXCEPT !.sections = @ \o @],
         [WideElf EXCEPT !.sections[3].entries[1].symbol = 7],
         [WideElf EXCEPT !.sections[3].entries[2].offset = 1000],
         ElfFile(1, <<Strings, SymbolRaw(2, 32, 50), FixupRaw(24, 1, 8)>>),
         ElfFile(1, <<Strings, FixupRaw(16, 2, 0), SymbolRaw(11, 32, 50),
                      SymbolRaw(2, 16, 60)>>),
         ElfFile(1, <<Strings, SymbolRaw(2, 32, 50), FixupRaw(24, 3, 8),
                      SymbolRaw(2, 16, 60)>>),
         ElfFile(1, <<Strings, SymbolRaw(2, 32, 50), FixupRaw(8, 1, 0),
                      FixupRaw(16, 1, 0)>>),
         ElfFile(1, <<Strings, SymbolRaw(2, 32, 50), FixupRaw(16, 1, 0),
                      FixupRaw(16, 1, 0)>>),
         ElfFile(1, <<Strings, SymbolRaw(2, 48, 50), SymbolRaw(2, 48, 60)>>),
         ElfFile(1, <<Strings, SymbolRaw(8, 900, 50), SymbolRaw(1, 48, 50),
                      Raw(2, 480, 10, 0, 2, ElfEntries(50))>>),
         ElfFile(1, <<Strings, SymbolRaw(8, 900, 50), SymbolRaw(1, 48, 50),
                      Raw(2, 480, 20, 0, 10, ElfEntries(50))>>)>>
    \o InSection(1, "type", <<8>>)
    \o InSection(1, "offset", <<1015, 488, 489>>)
    \o InSection(1, "size", <<11, 13, 600>>)
    \o InSection(2, "entry_size", <<0, 1, 20, 36>>)
    \o InSection(2, "link", <<2, 3>>)
    \o InSection(2, "size", <<0, 96, 120, 160>>)
    \o InSection(2, "alignment", <<0, 3>>)
    \o InSection(2, "address", <<1023, 1016>>)
    \o InSection(3, "entry_size", <<0, 8, 32, 48, 60>>)
    \o InSection(3, "size", <<0, 24, 72, 80>>)
    \o InSection(3, "info", <<0, 3, 9>>)
    \o Variants(WideElf, "class", <<0, 1>>)
    \o Variants(WideElf, "encoding", <<2, 3>>)
    \o Variants(WideElf, "version", <<0>>)
    \o Variants(WideElf, "section_entry_size", <<63, 65, 150>>)
    \o Variants(WideElf, "program_entry_size", <<55, 57, 220>>)
    \o Variants(WideElf, "type", <<2, 5>>)
    \o Variants(WideElf, "machine", <<183, 1>>)
    \o Variants(WideElf, "names_index", <<5>>)
    \o Variants(WideElf, "programs",
         <<<<>>, <<Program(1, 100, 9, 8)>>, <<Program(1, 495, 9, 18)>>,
           <<Program(1, 100, 9, 1000)>>,
           <<Program(1, 1, 1, 1), Program(1, 1, 1, 1), Program(1, 1, 1, 1)>>>>)

-----------------------------------------------------------------------------
(* PE: two sections, symbols with long and short names, and a table of     *)
(* base relocations in the second section.                                 *)

\* leading are the characteristics at the place where the parser looks.
PeHeader(name, leading, rva, virtual_size, raw_offset, raw_size) ==
    [name |-> name, leading |-> leading, characteristics |-> {"r", "w"},
     rva |-> rva, virtual_size |-> virtual_size, raw_offset |-> raw_offset,
     raw_size |-> raw_size]
PeEntry(short, offset, aux) ==
    [short |-> short, name |-> "", name_offset |-> offset, value |-> 5,
     section |-> 1, function |-> short, storage |-> 2, aux |-> aux]
PeRecordOf(type, offset) == [type |-> type, offset |-> offset]
Block(rva, size) ==
    [page_rva |-> rva, size |-> size,
     records |-> <<PeRecordOf(3, 1), PeRecordOf(0, 0), PeRecordOf(10, 4),
                   PeRecordOf(5, 4)>>]

PeFile ==
    [format |-> "pe_like", size |-> 500, pe_offset |-> 64, signature |-> TRUE,
     machine |-> 332, dll |-> FALSE, optional_size |-> 160, magic |-> 267,
     entry |-> 40, image_base |-> 16, section_alignment |-> 4,
     file_alignment |-> 4,
     sections |-> <<PeHeader(".text", {"r", "x"}, 40, 30, 400, 40),
                    PeHeader(".reloc", {"r", "x"}, 100, 30, 440, 40)>>,
     trailing |-> {"uninitialized"},
     symbol_offset |-> 330, symbol_count |-> 3,
     symbols |-> <<PeEntry(TRUE, 0, 0), PeEntry(FALSE, 4, 1),
                   PeEntry(FALSE, 9, 0), PeEntry(TRUE, 0, 2)>>,
     string_size |-> 8, texts |-> 388 :> [text |-> "main", length |-> 3],
     directory_count |-> 6, relocation_rva |-> 100, relocation_size |-> 22,
     relocations |-> <<Block(40, 12), Block(60, 10), Block(60, 10)>>]
BarePe == [PeFile EXCEPT !.optional_size = 0, !.sections = <<>>]

PeFiles ==
    <<PeFile,
      [PeFile EXCEPT !.sections[1].raw_size = 0, !.sections[1].raw_offset = 600],
      [PeFile EXCEPT !.sections[1].raw_offset = 461],
      [PeFile EXCEPT !.sections[1].name = ".debug_line"],
      [PeFile EXCEPT !.sections = @ \o @]>>
    \o CutOff(PeFile)
    \o Variants(BarePe, "size", <<88, 100, 112, 116, 120, 128, 140>>)
    \o Variants(PeFile, "pe_offset", <<480, 500>>)
    \o Variants(PeFile, "signature", <<FALSE>>)
    \o Variants(PeFile, "magic", <<523, 1>>)
    \o Variants(PeFile, "section_alignment", <<0, 3>>)
    \o Variants(PeFile, "optional_size", <<0, 24, 36, 136, 144, 400, 450>>)
    \o Variants(PeFile, "image_base", <<0, 100, 970, 1000>>)
    \o Variants(PeFile, "symbol_count", <<0, 1, 2, 4, 5>>)
    \o Variants(PeFile, "symbol_offset", <<440, 450>>)
    \o Variants(PeFile, "string_size", <<0, 7>>)
    \o Variants(PeFile, "directory_count", <<5, 9, 17>>)
    \o Variants(PeFile, "relocation_rva", <<84, 109, 119, 130, 200>>)
    \o Variants(PeFile, "relocation_size", <<0, 12, 15, 20, 30, 40>>)
    \o Variants(PeFile, "relocations",
         <<<<Block(40, 7)>>, <<Block(40, 13)>>, <<Block(40, 24)>>,
           <<Block(40, 14), Block(0, 8)>>, <<Block(40, 16), Block(40, 6)>>>>)

-----------------------------------------------------------------------------
(* Mach-O: commands that are no segments, segments of both widths, and     *)
(* sections with relocations.                                              *)

MachOFixup(address, symbol, pc_relative, length, external, type) ==
    [address |-> address, symbol |-> symbol, pc_relative |-> pc_relative,
     length |-> length, external |-> external, type |-> type]
MachORaw(name, zero_fill, size, nreloc) ==
    [name |-> name, zero_fill |-> zero_fill, address |-> 40, size |-> size,
     offset |-> 300, align |-> 2, reloff |-> 400, nreloc |-> nreloc,
     entries |-> <<MachOFixup(8, 2, FALSE, 3, FALSE, 1),
                   MachOFixup(0, 0, TRUE, 2, TRUE, 0),
                   MachOFixup(0, 1, FALSE, 2, TRUE, 4)>>]
Text(nreloc) == MachORaw("__text", FALSE, 8, nreloc)
Debug == MachORaw("__debug_line", TRUE, 201, 0)
Command(width, size, sections) ==
    [width |-> width, size |-> size, vmaddr |-> 40, vmsize |-> 20,
     fileoff |-> 300, filesize |-> 20, protection |-> {"r"},
     sections |-> sections]
Other == Command(0, 8, <<>>)

MachOFile ==
    [format |-> "macho_like", size |-> 500, wide |-> TRUE, cpu |-> 7,
     type |-> 2, command_bytes |-> 240,
     commands |-> <<Other, Command(64, 152, <<Text(1)>>),
                    Command(32, 124, <<MachORaw("__bss", TRUE, 900, 1)>>)>>]
\* A command that claims fewer bytes than its segment and section take.
ShortMachO ==
    [MachOFile EXCEPT
        !.command_bytes = 0,
        !.commands = <<[Command(64, 8, <<Text(0)>>) EXCEPT !.fileoff = 0,
                                                           !.filesize = 0]>>]
InCommand(n, field, values) == PartVariants(MachOFile, "commands", n, field, values)

MachOFiles ==
    <<MachOFile>>
    \o CutOff(MachOFile)
    \o CutOff([MachOFile EXCEPT !.command_bytes = 0])
    \o Variants(ShortMachO, "size", <<36, 40, 84, 88, 100, 104, 180, 184, 308>>)
    \o Variants(MachOFile, "wide", <<FALSE>>)
    \o Variants(MachOFile, "command_bytes", <<500>>)
    \o Variants(MachOFile, "commands",
         <<<<Command(64, 72, <<>>), Command(32, 56, <<>>), Command(64, 72, <<>>)>>,
           <<Other, Other, Other, Other>>>>)
    \o InCommand(1, "size", <<0, 7, 445, 468, 469, 500>>)
    \o InCommand(2, "vmsize", <<19, 1000>>)
    \o InCommand(2, "fileoff", <<490>>)
    \o InCommand(2, "sections",
         <<<<>>, <<Debug>>, <<[Debug EXCEPT !.offset = 501]>>,
           <<MachORaw("__text", FALSE, 201, 0)>>,
           <<Text(2)>>, <<Text(3)>>, <<Text(4)>>, <<Text(13)>>,
           <<[Text(1) EXCEPT !.entries[1].address = -1]>>,
           <<[Text(1) EXCEPT !.entries[1].external = TRUE]>>,
           <<[Text(1) EXCEPT !.address = 1020]>>,
           <<[Text(1) EXCEPT !.align = 63]>>,
           <<Text(0), Text(0)>>, <<Text(0), Text(0), Text(0), Text(0)>>>>)

-----------------------------------------------------------------------------
ObjectFiles ==
    ElfFiles \o PeFiles \o MachOFiles
    \o <<[format |-> "unknown", size |-> 4], [format |-> "unknown", size |-> 3]>>
================================================================================
