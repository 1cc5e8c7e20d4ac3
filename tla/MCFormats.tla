------------------------------- MODULE MCFormats -------------------------------
(***************************************************************************)
(* The components that read and write files, for TLC.  They share no       *)
(* state: a behaviour is a sequence of calls on one of them, and the       *)
(* variables of the others stay as they are.                               *)
(***************************************************************************)
EXTENDS MemorySnapshot, MCFiles

CONSTANT
    Components      \* the components that run: a set of the names below

VARIABLES
    component,
    plan_key, plan_damage, plan_stage, plan_error,
    manifest_key, manifest_options, manifest_damage, manifest_stage,
    manifest_error,
    parse_file, parse_error,
    index_image, index_error, names, qualified, addresses,
    resource_key, resource_stage, resource_error, frames, active, entries,
    resource_total,
    buffer, order, position, read

plan_vars == <<plan_key, plan_damage, plan_stage, plan_error>>
manifest_vars == <<manifest_key, manifest_options, manifest_damage,
                   manifest_stage, manifest_error>>
parse_vars == <<parse_file, parse_error>>
index_vars == <<index_image, index_error, names, qualified, addresses>>
resource_vars == <<resource_key, resource_stage, resource_error, frames, active,
                   entries, resource_total>>
reader_vars == <<buffer, order, position, read>>
formats_vars == <<component, vars, plan_vars, manifest_vars, parse_vars,
                  index_vars, resource_vars, reader_vars>>

-----------------------------------------------------------------------------
(* Snapshots, on five addresses.                                           *)

\* A weak checksum: the number of bytes that are set.
MCCrc(bytes) == Cardinality({i \in DOMAIN bytes : bytes[i] # 0})

Bytes2(a, b) == 0 :> a @@ 1 :> b

Region(base, size, checksum, bytes) ==
    [base |-> base, size |-> size, perms |-> {"r"}, checksum |-> checksum,
     bytes |-> bytes]

Given(version, mapped, list) ==
    [version |-> version, mapped_bytes |-> mapped, regions |-> list]

\* Up to three regions of one or two bytes; some mappings exclude each other.
MCMappings ==
    {<<0, 1, {"r"}>>, <<0, 2, {"r", "w"}>>, <<1, 1, {"w"}>>, <<2, 2, {"r"}>>,
     <<3, 1, {}>>}

\* One snapshot for every check of restore, and two that pass all of them:
\* regions out of order, and a region without bytes.
MCForeign ==
    <<Given(1, 3, <<Region(2, 2, 1, Bytes2(1, 0)), Region(0, 1, 7, NoBytes)>>),
      Given(1, 2, <<Region(1, 2, 0, Bytes2(0, 0))>>),
      Given(2, 0, <<>>),
      Given(1, 4, <<>>),
      Given(1, 1, <<>>),
      Given(1, 0, <<Region(0, 0, 0, NoBytes)>>),
      Given(1, 3, <<Region(0, 3, 0, Bytes2(0, 0))>>),
      Given(1, 3, <<Region(0, 2, 0, NoBytes), Region(2, 2, 0, NoBytes)>>),
      Given(1, 3, <<Region(0, 2, 0, NoBytes), Region(1, 1, 0, NoBytes)>>),
      Given(1, 2, <<Region(3, 2, 0, NoBytes)>>),
      Given(1, 2, <<Region(0, 2, 1, Bytes2(0, 0))>>),
      Given(1, 3, <<Region(0, 2, 2, Bytes2(1, 1))>>)>>

\* The file of a snapshot that can be restored, as it was written and with one
\* thing changed: no file at all, another magic, another checksum, other
\* header fields, the end cut off, one region too many, more bytes after it.
MCForeignFiles ==
    LET f == Encoded(MCForeign[2]) IN
    <<f, [f EXCEPT !.size = 20], [f EXCEPT !.magic = FALSE],
      [f EXCEPT !.sealed = FALSE], [f EXCEPT !.version = 2],
      [f EXCEPT !.count = 3], [f EXCEPT !.mapped_bytes = 4],
      [f EXCEPT !.size = @ - 1], [f EXCEPT !.count = 2],
      [f EXCEPT !.size = @ + 1], [f EXCEPT !.size = 100]>>

-----------------------------------------------------------------------------
(* Plans at and beyond each limit, in files cut off at every byte or with  *)
(* one field changed.                                                      *)

Operation(kind, bytes) ==
    [kind |-> kind, byte_order |-> "big", content |-> bytes, bytes |-> bytes]
PlanOf(name, written, list) ==
    [name |-> name, expected_checksum |-> 3, bytes_written |-> written,
     operations |-> list]
Fill == Operation("fill_bytes", 0)

PlanList ==
    <<PlanOf(0, 0, <<>>), PlanOf(3, 7, <<>>),
      PlanOf(2, 7, <<Operation("write_bytes", 1)>>),
      PlanOf(0, 5, <<Fill, Operation("assert_bytes", 2)>>),
      PlanOf(0, 5, <<Fill, Operation("assert_bytes", 3)>>),
      PlanOf(1, 5, <<Fill, Operation("assert_bytes", 2)>>),
      PlanOf(2, 5, <<Operation("copy_bytes", 2), Operation("assert_bytes", 2)>>),
      PlanOf(2, 5, <<Operation("copy_bytes", 2), Operation("assert_bytes", 4)>>),
      PlanOf(0, 5, <<Fill, Fill, Fill>>)>>

PlanDamages ==
    {[size |-> n] : n \in 27..115} \cup {[count |-> n] : n \in 0..3}
    \cup {[name |-> n] : n \in {1, 3, 30}}
    \cup {[magic |-> FALSE], [sealed |-> FALSE], [version |-> 2],
          [operations |-> <<Operation("none", 1)>>],
          [operations |-> <<[Fill EXCEPT !.byte_order = "middle"]>>]}

Plan == INSTANCE PlanFiles WITH
    Plans <- PlanList, Damages <- PlanDamages, MaxString <- 2,
    MaxOperations <- 2, MaxSectionBytes <- 2, MaxFileSize <- 114

-----------------------------------------------------------------------------
(* Images of a file of three bytes in manifests: every table, filled, past *)
(* its limit and referring to what is not there.                           *)

Header == [format |-> "elf_like", word_size |-> 4, byte_order |-> "big"]
FileOf(a, b, c) == [size |-> 3, bytes |-> 0 :> a @@ 1 :> b @@ 2 :> c]
SectionAt(n, offset, size, name) ==
    [index |-> n, kind |-> "code", file_offset |-> offset, file_size |-> size,
     virtual_address |-> 0, memory_size |-> size, alignment |-> 1,
     texts |-> <<name>>]
SegmentOf(sections) ==
    [file_offset |-> 0, file_size |-> 2, virtual_address |-> 0,
     memory_size |-> 2, sections |-> sections, texts |-> <<>>]
SymbolNumber(n, name) == [index |-> n, texts |-> <<name, 0>>]
Relocates(symbol) == [symbol_index |-> symbol, texts |-> <<>>]
Import(name) == [texts |-> <<name, 0>>]
Unit(rows) == [rows |-> rows, texts |-> <<>>]

Empty ==
    [header |-> Header, file |-> FileOf(1, 0, 1), sections |-> <<>>,
     segments |-> <<>>, symbols |-> <<>>, relocations |-> <<>>,
     imports |-> <<>>, exports |-> <<>>, debug_units |-> <<>>]
Code == [Empty EXCEPT !.sections = <<SectionAt(0, 0, 2, 1)>>,
                      !.segments = <<SegmentOf(<<0>>)>>]
ManifestImages ==
    <<Code,
      [Code EXCEPT !.segments = <<>>, !.relocations = <<Relocates(1)>>,
                   !.symbols = <<SymbolNumber(0, 0), SymbolNumber(1, 2)>>],
      [Empty EXCEPT !.sections = <<SectionAt(0, 0, 2, 0), SectionAt(1, 1, 1, 0)>>,
                    !.debug_units = <<Unit(2)>>],
      [Empty EXCEPT !.imports = <<Import(1), Import(2)>>,
                    !.exports = <<Import(2)>>, !.debug_units = <<Unit(2)>>],
      [Empty EXCEPT !.imports = <<Import(1), Import(1), Import(1)>>,
                    !.exports = <<Import(3)>>],
      [Empty EXCEPT !.sections = <<SectionAt(0, 0, 2, 3)>>],
      [Empty EXCEPT !.sections = <<SectionAt(0, 2, 2, 0)>>],
      [Code EXCEPT !.segments = <<SegmentOf(<<1>>)>>],
      [Code EXCEPT !.symbols = <<SymbolNumber(0, 0)>>, !.imports = <<Import(0)>>],
      [Code EXCEPT !.symbols = <<SymbolNumber(0, 0)>>, !.imports = <<Import(0)>>,
                   !.debug_units = <<Unit(1)>>],
      [Empty EXCEPT !.file = [size |-> -1]]>>

AllOptions == {"symbols", "relocations", "imports", "exports", "debug_units",
               "checksums"}
ManifestOptions == {AllOptions, {}} \cup {AllOptions \ {o} : o \in AllOptions}

ManifestDamages ==
    {[size |-> n] : n \in 15..110}
    \cup {[file |-> FileOf(0, 0, 1)], [file |-> FileOf(0, 1, 1)],
          [file |-> FileOf(1, 0, 0)]}
    \cup {[magic |-> FALSE], [sealed |-> FALSE], [version |-> 2],
          [header |-> [Header EXCEPT !.word_size = 5]]}
    \cup {[counts |-> <<1, 1, 0, 0, 0, 0, 0>>], [counts |-> <<1, 0, 1, 1, 0, 0, 0>>],
          [counts |-> <<3, 0, 1, 1, 0, 0, 0>>], [counts |-> <<0, 1, 1, 1, 0, 0, 0>>],
          [counts |-> <<0, 0, 0, 0, 0, 0, 1>>]}

Manifests == INSTANCE Manifest WITH
    Images <- ManifestImages, Damages <- ManifestDamages,
    OptionSets <- ManifestOptions, MaxWord <- 15, MaxString <- 2,
    MaxSections <- 2, MaxSegments <- 2, MaxSymbols <- 2, MaxRelocations <- 2,
    MaxImports <- 2, MaxExports <- 2, MaxUnits <- 2, MaxFileSize <- 145

-----------------------------------------------------------------------------
(* The object files of MCFiles.                                            *)

Parser == INSTANCE Parsers WITH
    Files <- ObjectFiles, DebugNames <- {".debug_line", "__debug_line"},
    MaxWord <- 1023, MaxFileSize <- 500, MaxSections <- 4, MaxSegments <- 2,
    MaxSymbols <- 4, MaxRelocations <- 3, MaxString <- 12

-----------------------------------------------------------------------------
(* Every table of three of eight symbols, with four layouts of sections    *)
(* and segments that overlap in memory and in the file.                    *)

Part(n, address, span, offset, bytes) ==
    [index |-> n, virtual_address |-> address, memory_size |-> span,
     file_offset |-> offset, file_size |-> bytes]
Layout(base, sections, segment) ==
    [header |-> [image_base |-> base], sections |-> sections,
     segments |-> <<segment>>, symbols |-> <<>>]
Layouts ==
    <<Layout(0, <<Part(0, 2, 4, 0, 3), Part(1, 6, 2, 3, 2)>>, Part(0, 1, 8, 5, 8)),
      Layout(4, <<Part(0, 0, 3, 2, 2), Part(1, 6, 3, 3, 2)>>, Part(0, 9, 8, 5, 2)),
      Layout(10, <<Part(0, 0, 3, 2, 3), Part(1, 2, 3, 4, 2), Part(2, 6, 2, 6, 0)>>,
             Part(0, 0, 8, 2, 6)),
      Layout(8, <<Part(0, 0, 3, 14, 3), Part(1, 2, 3, 4, 2)>>,
             Part(0, 14, 2, 2, 2))>>

SymbolOf(name, value, size) ==
    [name |-> name, library |-> "a", value |-> value, size |-> size,
     kind |-> "function", binding |-> "local"]
Candidates ==
    <<SymbolOf(<<1>>, 2, 0), SymbolOf(<<1>>, 2, 2),
      [SymbolOf(<<1>>, 4, 0) EXCEPT !.binding = "weak"],
      [SymbolOf(<<1, 2>>, 3, 4) EXCEPT !.library = "b"],
      [SymbolOf(<<1, 2>>, 5, 1) EXCEPT !.binding = "global"],
      SymbolOf(<<2>>, 0, 3), SymbolOf(<<>>, 5, 3),
      [SymbolOf(<<2, 1>>, 3, 3) EXCEPT !.kind = "section"]>>
Chosen(k) == [i \in 1..3 |-> Candidates[((k \div 8^(i - 1)) % 8) + 1]]
SymbolImages ==
    [k \in 1..512 |-> [Layouts[(k % 4) + 1] EXCEPT !.symbols = Chosen(k)]]
    \o <<[Layouts[1] EXCEPT !.symbols = SubSeq(Candidates, 1, 4)]>>

Index == INSTANCE SymbolIndex WITH
    Images <- SymbolImages, MaxWord <- 15, MaxSymbols <- 3, Letters <- {1, 2}

-----------------------------------------------------------------------------
(* Resource sections: three directories with two entries each that lead to *)
(* any of them or to data, some of the 4096; and one for each other case.  *)

Number(id) == [numeric |-> TRUE, id |-> id]
Name(offset, characters, surrogate) ==
    [numeric |-> FALSE, id |-> 1, offset |-> offset, characters |-> characters,
     surrogate |-> surrogate]
Dir(name, target) == [name |-> name, directory |-> TRUE, target |-> target]
Leaf(name, target) == [name |-> name, directory |-> FALSE, target |-> target]
Data == 160 :> [rva |-> 280, size |-> 20] @@ 176 :> [rva |-> 280, size |-> 21]
        @@ 144 :> [rva |-> 100, size |-> 200] @@ 128 :> [rva |-> 0, size |-> 0]
ResourceSection(directories) ==
    [rva |-> 100, size |-> 192, directories |-> directories, data |-> Data,
     image |-> [header |-> [format |-> "pe_like", image_base |-> 400],
                file |-> [size |-> 300], segments |-> <<>>,
                sections |-> <<Part(0, 100, 200, 100, 200)>>]]

Target4(k, i) == <<0, 32, 64, 160>>[((k \div 4^i) % 4) + 1]
EntryTo(k, i) ==
    IF Target4(k, i) = 160 THEN Leaf(Number(i), 160)
    ELSE Dir(Number(i), Target4(k, i))
Maze(k) == ResourceSection(0 :> <<EntryTo(k, 0), EntryTo(k, 1)>>
                           @@ 32 :> <<EntryTo(k, 2), EntryTo(k, 3)>>
                           @@ 64 :> <<EntryTo(k, 4), EntryTo(k, 5)>>)
Plain == ResourceSection(0 :> <<Leaf(Number(1), 160)>>)
With(entry) == ResourceSection(0 :> <<entry, Leaf(Number(7), 160)>>)
ResourceList ==
    [k \in 1..292 |-> Maze(14 * k)]
    \o <<Plain, [Plain EXCEPT !.image.header.format = "elf_like"],
         [Plain EXCEPT !.size = 0], [Plain EXCEPT !.size = 201],
         [Plain EXCEPT !.rva = 120], [Plain EXCEPT !.size = 15],
         [Plain EXCEPT !.size = 23], [Plain EXCEPT !.image.file.size = 290],
         [Plain EXCEPT !.image.file.size = 280],
         With(Leaf(Number(1), 176)), With(Leaf(Number(1), 180)),
         With(Leaf(Number(1), 144)), With(Leaf(Number(1), 128)),
         With(Dir(Number(1), 180)), With(Dir(Number(1), 100)),
         With(Leaf(Name(80, 2, FALSE), 160)), With(Leaf(Name(80, 3, FALSE), 160)),
         With(Leaf(Name(80, 1, TRUE), 160)), With(Leaf(Name(191, 2, FALSE), 160)),
         With(Leaf(Name(187, 2, FALSE), 160)),
         ResourceSection(0 :> [i \in 1..5 |-> Leaf(Number(i), 160)]),
         ResourceSection(0 :> [i \in 1..3 |-> Leaf(Number(i), 144)]),
         ResourceSection(0 :> <<Dir(Number(1), 24)>> @@ 24 :> <<Dir(Number(1), 48)>>
                         @@ 48 :> <<Dir(Number(1), 72)>> @@ 72 :> <<>>)>>

Resource == INSTANCE PeResources WITH
    Resources <- ResourceList, MaxWord <- 1023, MaxString <- 4,
    MaxSections <- 4, MaxDepth <- 2, MaxSectionBytes <- 200,
    total <- resource_total

-----------------------------------------------------------------------------
(* Every buffer of up to three bytes with groups of two bits.  They hold   *)
(* the three groups of a word of five bits, and one byte more than a word  *)
(* of three bits needs.                                                    *)

Reader == INSTANCE ByteReader WITH
    GroupBits <- 2, WordBits <- 5, MaxBytes <- 3, Widths <- {1, 2}
NarrowReader == INSTANCE ByteReader WITH
    GroupBits <- 2, WordBits <- 3, MaxBytes <- 3, Widths <- {1, 2}

-----------------------------------------------------------------------------
FormatsInit ==
    /\ component \in Components
    /\ Init
    /\ Plan!PlanInit
    /\ Manifests!ManifestInit
    /\ Parser!ParseInit
    /\ Index!IndexInit
    /\ Resource!ResourceInit
    /\ Reader!ReaderInit
    /\ component \notin {"reader", "narrow_reader"} => buffer = <<>> /\ order = "little"

Snapshots ==
    /\ component = "snapshots" /\ Next
    /\ UNCHANGED <<component, plan_vars, manifest_vars, parse_vars, index_vars,
                   resource_vars, reader_vars>>
PlanCalls ==
    /\ component = "plans" /\ Plan!PlanNext
    /\ UNCHANGED <<component, vars, manifest_vars, parse_vars, index_vars,
                   resource_vars, reader_vars>>
ManifestCalls ==
    /\ component = "manifests" /\ Manifests!ManifestNext
    /\ UNCHANGED <<component, vars, plan_vars, parse_vars, index_vars,
                   resource_vars, reader_vars>>
ParserCalls ==
    /\ component = "parsers" /\ Parser!ParseNext
    /\ UNCHANGED <<component, vars, plan_vars, manifest_vars, index_vars,
                   resource_vars, reader_vars>>
IndexCalls ==
    /\ component = "symbols" /\ Index!IndexNext
    /\ UNCHANGED <<component, vars, plan_vars, manifest_vars, parse_vars,
                   resource_vars, reader_vars>>
ResourceCalls ==
    /\ component = "resources" /\ Resource!ResourceNext
    /\ UNCHANGED <<component, vars, plan_vars, manifest_vars, parse_vars,
                   index_vars, reader_vars>>
ReaderCalls ==
    /\ \/ component = "reader" /\ Reader!ReaderNext
       \/ component = "narrow_reader" /\ NarrowReader!ReaderNext
    /\ UNCHANGED <<component, vars, plan_vars, manifest_vars, parse_vars,
                   index_vars, resource_vars>>

FormatsNext ==
    \/ Snapshots \/ PlanCalls \/ ManifestCalls \/ ParserCalls \/ IndexCalls
    \/ ResourceCalls \/ ReaderCalls

\* A walk that has begun runs on: it is plain sequential code.
FormatsSpec ==
    /\ FormatsInit
    /\ [][FormatsNext]_formats_vars
    /\ WF_formats_vars(ResourceCalls)

-----------------------------------------------------------------------------
\* A plan is read back as it was written, or is past a limit that encode does not
\* compare; no other file is taken for one (PatchEngine::encode, decode).
PlansSurviveFiles == Plan!PlansSurviveFiles

\* An image is read back with the parts that were asked for, unless a reason
\* that encode does not look at forbids it (ImageManifestCodec).
ManifestsSurvive == Manifests!ManifestsSurvive

\* A manifest whose bytes were changed is refused exactly if a checksum that is
\* stored and not zero tells (ImageManifestCodec::decode).
ChangedSectionsAreNoticed == Manifests!ChangedSectionsAreNoticed

\* Parsers leave the validator only the checks that are known for their format
\* (BinaryParser::parse, BinaryValidator::validate).
ParsersLeaveKnownChecks == Parser!ParsersLeaveKnownChecks

\* Relocations name the symbols of all tables as one list (ElfParser::parse).
RelocationsNameTheirSymbols == Parser!RelocationsNameTheirSymbols

\* The index finds what a search of the whole table finds (SymbolIndex).
IndexFindsTheSymbols == Index!IndexFindsTheSymbols

\* Addresses go to the file, and come back exactly if the part that owns the
\* bytes there has them at that address (AddressTranslator).
TranslationsAgree == Index!TranslationsAgree

\* A walk finds exactly the directories below themselves
\* (PeResourceParser::parse).
CyclesAreFound == Resource!CyclesAreFound

\* The bytes of every resource lie in the file (PeResourceParser::parse).
PayloadsAreInTheFile == Resource!PayloadsAreInTheFile

\* Every walk ends (PeResourceParser::parse).
WalksEnd == Resource!WalksEnd

\* What is read is what was written, and failures keep the cursor (ByteReader).
ReadsAreExact ==
    IF component = "narrow_reader" THEN NarrowReader!ReadsAreExact
    ELSE Reader!ReadsAreExact

\* fuzz/binary_parser_fuzzer.cc of the repository stops on an accepted image
\* that the validator refuses: accepted images are valid (BinaryParser::parse).
ParsedImagesAreValid == Parser!ParsedImagesAreValid

\* docs/architecture.md of the repository says that PE parsing validates the
\* permissions of sections (PeParser::parse).
PePermissionsAreRead == Parser!PePermissionsAreRead
================================================================================
