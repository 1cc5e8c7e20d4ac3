# binforge in TLA+

binforge is a C++17 library that inspects executable images (ELF, PE, Mach-O)
and loads them into a simulated address space.  This directory holds TLA+
models of its stateful core, of what it reads from files and writes to them,
the TLC configurations that check them, and proofs that TLAPS checks.  The
definitions are translated from the code under `src/`; `PROJECT.json` maps each
of them to its lines.

The library is single-threaded; there are no locks, timers or messages, and
files are buffers that a caller reads and writes.  What is hard about it is of
another kind: data structures that are kept consistent by hand over long
sequences of calls, operations of several steps that fail in the middle, checks
that are made at one time or by one component and relied on by another, files
that come back changed, and arithmetic at the edge of the 64-bit address space.

## The system

| component | state | operations |
|---|---|---|
| `AddressSpace` (`src/src/address_space.cc`) | `regions_`, a map from bases to regions with size, permissions and bytes; `mapped_bytes_`; the limits | `map`, `unmap`, `protect`, `read`, `write`, `read_integer`, `write_integer`, `region_at`, `clear` |
| `SymbolResolver` (same file) | two tables of exported addresses, by name and by ordinal | `add_export`, `resolve`, `clear` |
| `BinaryImage` (header) | the normalized model of a file: header, sections, segments, symbols, relocations, imports, exports, the file's bytes | read by everybody, changed by nobody |
| `BinaryParser`, `ElfParser`, `PeParser`, `MachOParser`, `ByteReader`, `RelocationTableDecoder` | a cursor, the tables filled so far | bytes to `BinaryImage` |
| `BinaryValidator` (`src/src/validator.cc`) | none | `validate`: rechecks a `BinaryImage` |
| `BinaryLoader`, `RelocationProcessor` (`src/src/loader.cc`) | none of their own; they change an `AddressSpace` | `load`, `apply`, `apply_one` |
| `PatchEngine` (`src/src/patch_engine.cc`) | the undo list of a call | `validate`, `apply`, `encode`, `decode` |
| `MemorySnapshotCodec` (`src/src/snapshot.cc`) | the staged memory of a call | `capture`, `restore`, `encode`, `decode` |
| `BinaryImageBuilder`, `LayoutPlanner` | the sections added so far | images from parts, planned addresses |
| `ImageManifestCodec` (`src/src/manifest.cc`) | none | `encode`, `decode`: images to bytes and back |
| `SymbolIndex`, `AddressTranslator` (`src/src/symbol_index.cc`) | three tables of symbols | `build`, lookups by name, prefix and address; addresses to file offsets and back |
| `SectionGraphAnalyzer`, `DisassemblyAnalyzer`, `DebugInfoParser`, `PeResourceParser` | worklists and stacks of a call | analyses of an image |
| reports, queries, diff, hardening, scanners, notes, unwind, ELF dynamic, PE imports, disassemblers | none | single passes over an immutable image |

The loader, the patch engine and the snapshot codec all work on an
`AddressSpace` that belongs to the caller, one call after the other.  The
loader validates the image first, asks the resolver for addresses, and writes
with permissions ignored.  The patch engine reads with permissions and writes
without.  The snapshot codec replaces the whole address space, its limits
included.  Plans, snapshots and manifests are written to containers of one
shape: magic, version, counted entries, a checksum at the end.  The parsers
make images that a caller may hand to the validator, and the loader, the
planner, the builder and the manifests do.

What makes each of them correct:

* `AddressSpace`: regions never overlap although `map` looks at two neighbours
  only; the byte account is exact; a read or write goes to the one region that
  holds all its bytes; seen from outside it is an array of cells.
* `SymbolResolver`: both tables always describe the same accepted exports.
* `PatchEngine`: all of a plan or nothing of it, whatever overlaps.
* `MemorySnapshotCodec`: a restore gives back exactly what was captured or
  leaves the memory alone; no snapshot can build an unsound memory.
* the containers: what was written under some limits can be read under them,
  and comes back as it was; what was changed on the way is refused.
* the parsers: an accepted file gives an image that the validator accepts, with
  the sections, permissions, symbols and relocations of the file.
* `ByteReader`: a read gives the value at the cursor, or fails and leaves the
  cursor where it was.
* `SymbolIndex`, `AddressTranslator`: a lookup finds what a search of the whole
  table finds; an address goes to the file and back to itself.
* `PeResourceParser`: the walk ends, finds every cycle and takes no directory
  that is shared for one; the bytes of every resource are in the file.
* `SectionGraphAnalyzer`: the components are the classes of sections that paths
  lead to and back from, whatever the order of the edges.
* `LayoutPlanner`: every overlap is found, and the plan, merged or not, has the
  addresses, permissions and totals of the segments.
* `BinaryImageBuilder`: sections keep their bytes, segments hold their sections,
  and what is built is accepted by the validator and the planner.
* `DisassemblyAnalyzer`: blocks are entered at the first and left at the last
  instruction; which instructions are in one, and which edges there are, follows
  from the control flow alone, also for code that jumps into instructions.
* `DebugInfoParser`: rows within the budget, at the addresses the line program
  asks for; entries nested as the input nests them, through pointers that stay
  valid.
* `BinaryLoader`: the bytes of every segment are where the bias puts them,
  relocated words and import slots hold their full values, nothing else of the
  memory changes, and the entry point moves with the image.

## The modules

`Word` has the machine integers: `Radix` values of a byte and addresses
`0..MaxWord` are constants, so that TLC can enumerate every address including
the last one, and the proofs hold for 256 and 2^64 - 1.  `checked_add`,
`checked_multiply`, `checked_align_up` and `range_inside` are the predicates
`AddFits`, `MultiplyFits`, `AlignFits` and `RangeInside`.

`Memory` says what each member function of `AddressSpace` computes from a value
of `regions_`: the error it returns (`MapError`, `ReadError`, ...; "none" for
success, in the order of the early returns) and the new regions (`Mapped`,
`Written`, ...).  `lower_bound`, `upper_bound` and `std::prev` are the
predicates `IsNext`, `IsPrevious` and `IsAt`.  All components share it.

`AddressSpace` is the state machine: `regions`, `mapped_bytes`, and `last`, the
last call with what it returned.  One action is one member function.  Region
names are left out; nothing reads them.

`FlatMemory` is the abstract specification: one cell per address, no ordered
map, no search, no counter; every operation looks at all the cells it concerns.
`AddressSpace!FlatSpec` states that `AddressSpace` implements it, call by call:
the same arguments give the same error, the same bytes and the same cells.

`PatchEngine` is `validate` and `apply`.  A call is `Begin` (validation and the
checksum precondition), then one step per operation (`AssertBytes`, `CarryOut`,
or `ReadBeforeFails`), then `Finish`, or one `UndoOne` per undo entry and
`Fail`.  `before` is a history variable: the memory at the call.  The checksum
of the memory is an arbitrary operator.

`MemorySnapshot` is `capture` and `restore` between uses of the memory.
`BeginRestore`, one `RestoreRegion` per region into `staged`, `FinishRestore`
with the comparison of the total and the move.  A snapshot is captured here,
`Foreign` (any record a caller could have made) or read from a file:
`WriteAndRead` is `encode` and `decode` of what the caller has, `OpenFile` is
`decode` of a file from elsewhere.
`taken` remembers what a capture saw.

`Container` is the shape of the files: a file is the record of what a reader
finds in it and the number of its bytes, of which the last four are the
checksum.  `PlanFiles` is `PatchEngine::encode` and `decode`, `Manifest` is
`ImageManifestCodec`.  Both write one of a set of plans or images, then a
damage may change any field or the size, then the file is read under the same
limits.  The errors of `decode` are found table by table in the order of the
code (`FirstOf`), where the readable bytes may end at every point.

`ElfParser`, `PeParser` and `MachOParser` have an operator for the error of
`parse` and one for the image, over a file that is given as the fields found at
each place; offsets and sizes are numbers of bytes, so that every range check
is real.  They share `RelocationTables` (`RelocationTableDecoder`, whose vector
keeps what was appended before an error).  `Parsers` is `BinaryParser`: the
signature, the dispatch, and the properties that relate the parsers to
`Image`.  `MCFiles` builds the files: a good one of each format, and for each
check one or more that differ from it in one field.

`Translator` is `AddressTranslator`, `SymbolIndex` the class of that name: one
`Build` fills the three maps symbol by symbol; the lookups are operators, and
the properties compare them with definitions that search the whole table.

`PeResources` is the recursive walk of `PeResourceParser` with a stack of
frames: `StartWalk`, one `WalkEntry` per entry, which pushes a frame for a
directory, and `LeaveDirectory`, which takes the directory out of `active`.

`ByteReader` has one action per member function, on every buffer of up to three
bytes.  A byte has a continuation bit and groups of two bits, a word five bits:
as with 7 and 64, the last group does not fit whole.  A second instance has
words of three bits, so that a buffer is a byte longer than a LEB128 number may
be.

`SymbolResolver` has the operators of the two tables; `Loader` uses them.

`Image` is the `BinaryImage` record and `BinaryValidator`: the set of errors in
the report.  Which of several errors is listed first is left open, and so is
the error of a load that is refused because of them.

`Loader` is `load` with `RelocationProcessor` inside: `Begin`, one `MapSegment`
per segment (page alignment, mapping, copy), one `ApplyRelocation` per
relocation, one `ResolveImport` per import, `Finish` with the entry point.
Loads follow each other on one memory; `ClearMemory`, `AddExport` and
`ClearExports` are the caller's, who fills the resolver between loads.  The
checks of the segment loop and of `apply` that repeat the validator's cannot
fail and have no branch.

`SectionGraph` is `SectionGraphAnalyzer::analyze`: the relations are operators
(`References`, `AddRelation`), the recursion of `strong_connect` is the stack
`frames`, and one step is one call (`NextNode` and `Follow`, by `EnterNode`), one
edge (`Follow`) or one return (`ReturnNode`).  Components are sets, so the sorting
at the end is left out.  That a path leads from one section to another is said
without paths: no set of sections that no reference leaves holds the first alone.

`LayoutPlanner` has the stages of `plan` as operators of an image and a request
(`PlacementsError`, `PlacedRegions`, `NeighboursOverlap`, `Merge`, `PlanOf`),
`LayoutRequests` a caller that describes images segment by segment and asks for
plans.

`ImageBuilder` is `BinaryImageBuilder`: one action per call that adds, `Clear`,
and `Build`, whose loop is the recursive function of `LaidOut`, one `Place` per section.  It is composed
with `Image` (the validation at the end) and with `LayoutPlanner`.

`Disassembly` is `DisassemblyAnalyzer::analyze`: `DecodeOne` per instruction,
then `GroupLeader` per leader.  A decoder is a set of shapes of instructions
(length, branch, call, terminal, with a target or none) and whether it refuses
bytes that are long enough; `X86Decoder`, `Arm64Decoder` and `RiscVDecoder` are
those of the program.  Branches to a register have no target.  The code is open:
a step decodes an instruction of any shape the decoder has, with any target,
inside other instructions and outside of the code too.

`DebugLines` is `DebugInfoParser::parse_line_program`: `Begin` reads the header,
then one action per opcode.  The program is open: a step reads any opcode with
any operand, or a truncated one.  `exact` is a history variable: the address
register without machine arithmetic.

`DebugEntries` is `parse_entries`: one step per entry or end mark.  A vector of
children is named by the path of its entry, and a pointer in `levels` remembers
how long the vector around its entry was, so that a `push_back` that could move
it is seen.

`MCAnalyses` and `MCFormats` put components that share no state into one
specification: `component` is chosen at the start from `Components`, a
behaviour is a sequence of calls of that one, and the variables of the others
stay as they are.  The other `MC*` modules only give the constants their
values.

Definitions whose comment says "a bug in X" are variants of X with a plausible mistake; each property is
violated when one of them takes the place of X, which shows that the property
depends on the code it is about.

## What is checked

| run | instance | shows |
|---|---|---|
| `address_space` | 5 addresses, bytes of 2 values, limit 3, two permission sets, sizes up to 4 | `NoOverlap`, `Accounting`, `TypeOK` over all sequences of calls; `FlatSpec`: every call has the outcome of the flat memory |
| `patch_engine` | three regions (adjacent, read-only, unreadable), 15 operations, plans of up to 4 | `Atomic`, `UndoRestores`, `Complete`, `ValidatedPlansFailLate`, `Terminates` |
| `patch_permissions` | the same | *violated*: `WritesNeedPermission` |
| `loader` | pages of 4 bytes, words of 8 bytes of 2 values, 18 images, 5 sets of options, 4 exports that exclude each other | `SegmentsInPlace`, `OthersKept`, `WordsReadBack`, `ResolveFindsAccepted` |
| `loader_zero_based` | an image linked at 0 | *violated*: `EntryInImage` |
| `loader_wide_import` | a 32-bit image, an import above 32 bits | *violated*: `AllImportsReadBack` |
| `image_builder` | 9 sections, up to three in an image, at most two segments, 9 sets of options | `SectionsKeepTheirBytes`, `SegmentsHoldSections`, `BuiltImagesCanBePlanned` |
| `analyses`: disassembly | the four decoders with lengths of 1, 2, 3 (x86), 2 (ARM64) and 1, 2 (RISC-V with and without compressed instructions), six bytes of code at address 3 of 0..7, up to five instructions, jumps to every address, inside instructions too | `BlocksAreBasic`, `ControlFlowIsCovered` |
| `analyses`: lines | 12 headers, 8 addresses, programs of up to three opcodes one after the other, two rows | `AddressIsExact` |
| `analyses`: tree | trees of up to eight entries and end marks, three deep | `EntriesNestAsWritten` |
| `analyses`: graph | all graphs on three sections, those of up to four edges on four, references to sections that do not exist | `ComponentsAreFinal`, `AnalysisIsComplete` |
| `analyses`: layout | 12 segments (adjacent, nested, equal, empty, at the last address), images of up to four, bases 0 and 3 | `OverlapIsFound`, `PlanPlacesTheSegments`, `TotalsAreExact` |
| `debug_address` | the same | *violated*: `AddressIsChecked` |
| `formats`: snapshots | 5 addresses, codec limit below the memory's, 12 snapshots and 11 files from elsewhere, one for each check | `RestoredMemoryIsSound`, `RestoreIsAtomic`, `RestoresTheCapture`, `CaptureCanBeRestored` |
| `formats`: plans, manifests | 9 plans and 11 images at and beyond each limit; every set of options with one part left out; files cut off at every byte or with one field changed | `PlansSurviveFiles`; `ManifestsSurvive`, `ChangedSectionsAreNoticed` |
| `formats`: parsers | the files of `MCFiles` | `ParsersLeaveKnownChecks`, `RelocationsNameTheirSymbols` |
| `formats`: symbols | every table of three of eight symbols, four layouts that overlap in memory and in the file | `IndexFindsTheSymbols`, `TranslationsAgree` |
| `formats`: resources | 292 graphs on three directories of two entries, and one section for each other check | `CyclesAreFound`, `PayloadsAreInTheFile`, `WalksEnd` |
| `formats`: reader | every buffer of up to three bytes in both orders, for words of three and of two groups | `ReadsAreExact` |
| `parsed_images` | the files of `MCFiles` | *violated*: `ParsedImagesAreValid` |
| `pe_permissions` | the same | *violated*: `PePermissionsAreRead` |

The six violations are disagreements of the code with `docs/architecture.md`,
`docs/fuzzing.md` with the fuzz target it describes, and `README.md` of the
repository; `PROJECT.json` quotes the lines.

Several properties have parts with names of their own: `Complete` says that a
plan changes no region's place, size or permissions; `OthersKept` includes
`MemoryIsSound`; `WordsReadBack` is about relocations and imports;
`SectionsKeepTheirBytes` includes `LoneSectionsLoadExactly`,
`BuiltImagesCanBePlanned` includes `RefusalsAreExplained` (what the validator
may refuse of a completed layout: too many segments, a symbol that was never
added, a segment that alignment made longer in the file than in memory),
`AnalysisIsComplete` includes `ReferencesAreCounted`, `AddressIsExact` includes
`RowsAreBudgeted`.

### Bounds

The bytes have two values: no operation but integer reads and writes looks at
the value of a byte, and those are tested by the order of their digits.  The
address spaces hold up to three regions with room for gaps, the last address,
and a limit that is reached before the addresses run out; a mapping can have a
neighbour on either side, adjacent or not.  Larger spaces are left to the
proofs.  The plans of the patch engine include
three overlapping writes followed by each kind of failure.  The word of the
loader is 8 bytes of one bit, so that the values of every relocation kind cross
the boundaries of 2- and 4-byte words.  A graph on four sections can have two
cycles with an edge between them, the smallest in which a finished component is
met again.  Three sections give the builder a new segment after a merged one;
their alignments are above, equal to and below those of the options.  A
container has one place where each check can fail first, and is cut off at
every byte.  The object files have up to four sections and three relocations in
two tables, so that a limit is reached by the second table and the symbols of a
second table are numbered after those of the first.  Three directories can form
every cycle up to three and a directory shared by two entries; the depth limit
of two is passed by a chain of four.  Debug trees of depth three have a sibling
after a finished subtree at every level.  The lengths of the
instructions are scaled (a near jump of x86 has 3 bytes for 5, a word of ARM64
and RISC-V 2 for 4) so that each decoder has room for three blocks: the code is
filled exactly, cut off by its end, passes the last address, and is entered in
the middle of an instruction.  In the address space run a state is identified by `regions`
and `mapped_bytes` (`VIEW`): no action reads `last`.

### Fairness

`PatchEngine!FairSpec` assumes weak fairness of the steps inside a call, and
`FormatsSpec` weak fairness of the steps of the resource walk, because a call
that has begun is plain sequential code.  Nothing is assumed of callers.
`MCFormats` may stop: a component that has read its file has nothing more to do
in some behaviours.

## What is proved

Eleven of the components have theorems that hold for every value of the
constants: every word size and byte, every limit, every image, plan, snapshot
or list of sections, and every sequence of calls.  Each theorem states a
property that a run checks on a small instance.

| module | theorems | property |
|---|---|---|
| `AddressSpaceProofs` | `TypeCorrect`, `RegionsNeverOverlap`, `AccountIsExact` | `TypeOK`, `NoOverlap`, `Accounting` |
| | `ImplementsFlatMemory` | `FlatSpec` |
| `PatchEngineProofs` | `ApplyIsAtomic`, `ApplyIsComplete` | `Atomic`, `Complete` |
| | `ValidationIsNotStale`, `UndoListIsSufficient` | `ValidatedPlansFailLate`, `UndoRestores` |
| `MemorySnapshotProofs` | `RestoreIsSound`, `RestoreIsAllOrNothing` | `RestoredMemoryIsSound`, `RestoreIsAtomic` |
| | `CaptureComesBack`, `CapturesAreAccepted` | `RestoresTheCapture`, `CaptureCanBeRestored` |
| `LoaderProofs` | `LoadPlacesSegments`, `LoadKeepsOthers` | `SegmentsInPlace`, `OthersKept` |
| | `LoadedWordsReadBack`, `LookupsFindAccepted` | `WordsReadBack`, `ResolveFindsAccepted` |
| `AnalysisProofs` | `AddressesAreExact`, `EntriesAlwaysNest` | `AddressIsExact`, `EntriesNestAsWritten` |
| | `BlocksAreBasicAlways`, `ControlFlowIsAlwaysCovered` | `BlocksAreBasic`, `ControlFlowIsCovered` |
| | `ComponentsAreAlwaysFinal`, `AnalysisIsAlwaysComplete` | `ComponentsAreFinal`, `AnalysisIsComplete` |
| `ImageBuilderProofs` | `BytesAreKept`, `SectionsAreHeld` | `SectionsKeepTheirBytes`, `SegmentsHoldSections` |
| | `BuiltImagesArePlanned` | `BuiltImagesCanBePlanned` |
| | `EveryOverlapIsFound`, `PlansPlaceTheSegments` | `OverlapIsFound`, `PlanPlacesTheSegments` |
| | `PlanTotalsAreExact` | `TotalsAreExact` |

`InductionProofs` has induction over the naturals in the form the others use,
for a set, and what follows from it for loops (`LoopsExist`), and `MemoryProofs` the facts about the operators of `Memory` that the
four components with a memory share: how `map` and a write change regions
(`Sound`, `Tidy`), cardinalities of intervals and disjoint unions, and
integers that read back what was written (`IntegersReadBack`).

### The inductive invariants

* `AddressSpace`, `IInv`: the three properties together.  The neighbour checks
  prove a range free only when the regions are disjoint already, and the account
  is exact only if what `map` adds was free.  The heart of it is
  `NeighboursSuffice`: if the ordered neighbours of a range do not overlap it, no
  region does, because there is none between them and the range and those beyond
  are cut off by disjointness.
* The refinement: under `IInv` every call of `AddressSpace` is the same call of
  `FlatMemory` on the cells of the regions (one `...Refines` lemma per action).
  The search for a predecessor finds the owner of a cell because the regions are
  disjoint; the limit check of `map` agrees because the account is the number of
  cells; and the loop that builds an integer computes the positional sum
  (`AccumulateIsPositional`).
* `PatchEngine`, `PatchInv`: `Atomic` alone is not inductive.  What a call in the
  middle needs is `Recoverable`: the layout is the one at the call, and the undo
  list rolls it back, where for each byte the *oldest* entry counts.  `Progress`
  says how much of the validated plan is done; that the layout has not changed is
  what makes validation still hold later.
* `MemorySnapshot`, `SnapshotInv`: the staged memory is sound after every region,
  the caller's is untouched while a restore runs, and a snapshot that was
  captured lists the regions of what `taken` remembers in the order of their
  bases, so that the staged part is a part of it.
* `Loader`, `LoaderInv`: the segments mapped so far are in place and the words
  written so far hold their values unless a later one covers them
  (`SegmentsOK`, `WordsOK`); the validator's checks hold while a load runs, and
  so the checks of the loops that repeat them cannot fail; old regions are kept
  up to the words (`Kept`); and both export tables hold the accepted exports.
* `DebugLines`, `LinesInv`: the address is a word, which the checks of the sums
  rely on, and equal to the history of exact sums until a product wraps; the
  rows stay one below the limit while a program can add more.
* `DebugEntries`, `TreeInv`: for each pointer in `levels` but the first there is
  one open entry, whose path is the vector it points to (`LevelsOK`, `OpenOK`).
  `OpenOK` counts the entries and end marks after it, which is how an end mark
  closes the innermost one; `PathsOK`, that the children of a vector are numbered
  without gaps, makes a new path new.
* `Disassembly`, `CodeInv`: the instructions follow each other without gaps and
  fill the decoded bytes (`CodeShape`); the blocks made so far are those of the
  leaders passed at which an instruction starts, in their order, each up to a jump
  or the next leader (`BlocksShape`).  A leader in the middle of an instruction
  ends a block and starts none, which is why the two properties speak of
  instructions that a jump splits.
* `SectionGraph`, `GraphInv`: `ComponentsAreFinal` alone is not inductive; it has to
  say why a low link that was not lowered means that the component is complete.
  `SearchOK` says of the search, for any graph: the open sections are on the stack
  in the order of their numbers; the active calls are a path; every open section
  reaches the call that entered it, and a call reaches all that was entered after
  it (`ReachOK`); no edge leaves the reported components (`EdgesOK`); and the low
  link of a call is the number of an open section that it reaches and not above
  any that the sections entered inside the call refer to (`LowOK`).  At a return
  with the two numbers equal what was entered since has no edge to the open
  sections below it (`PoppedIsClosed`), so it is closed together with the
  components and is one class (`PoppedIsClass`).  When the search is over nothing
  is open (`NothingIsOpen`), so every class was reported.  The relations are an
  induction over the references (`ReferenceIsCounted`).
* `ImageBuilder`, `BuilderInv`: an image is returned only for a layout whose loop
  was completed.  What such a layout looks like is an induction over the turns of
  the loop (`TurnOK`, `TurnsKeep`): the cursors are at or behind the ends of
  everything, so a section is behind what was placed; the segment that grows
  keeps its sections; a section is listed by the one segment that holds it;
  segments do not meet and are aligned (`SegmentsApart`, `SegmentsAligned`).
  Why alignment alone makes a segment longer in the file than in memory is a
  second induction over the same turns (`GrowthOK`, `PlacedGrows`): a segment
  starts at multiples of what its first section is aligned to, and the smaller of
  two powers of two divides the larger (`PowersDivide`), so the place of a section
  in the file, the least multiple behind the cursor, is no farther from the start
  of the segment than its address (`GapInFile`).
  With the lists of the other entries (`ListsOK`) this answers every check of the
  validator, and those that remain are the three of `RefusalsAreExplained`; the
  planner then sees disjoint regions inside the address space (`BuiltIsPlaced`).
* `LayoutPlanner`: sorting is stated by ranks, the rank of a region being how many
  precede it, and a pigeonhole argument makes the ranks a permutation
  (`SortedIsOrdered`).  In an ordered list the first two regions that overlap
  include two neighbours (`NeighboursDecide`), as in `map`.  The loop that merges
  has the invariant `MergedSoFar`: the regions made so far cover the cells of the
  regions read so far, in order, with their permissions and sums (`MergedShape`,
  `MergedCells`, `MergedTotals`), and every region read lies in one that was made,
  as far behind its start in the file as in memory exactly if none of the regions
  joined before it ends in zeros (`MergedParts`).  That is when its bytes are where
  the plan looks for them (`BytesInPlace`, `ZerosOfSegments`).

### What is assumed

`WordAssumption` (`Radix > 1`, naturals), `PowerAssumption` (the powers of the
radix up to the eighth byte: facts of arithmetic, stated because the provers do
not interpret exponentiation), and the types of the inputs:
`AddressSpaceAssumption`, `PatchAssumption`, `SnapshotAssumption`,
`LoaderAssumption` (which also says that an address has at most eight bytes),
`BuilderAssumption`, `LimitsAssumption` (which also says that the page size of
the planner is a power of two, as the default is), `LayoutAssumption`,
`LinesAssumption`, `TreeAssumption`, `CodeAssumption` and `GraphAssumption`.  These say of a field what its C++ type
says (`uint64_t` is a word, a vector is a sequence) and that limits are numbers;
of the contents of plans, images, snapshots and files they say nothing.  TLC
evaluates all of them on the instances of the runs.

### Only model-checked

* Termination (`Terminates`, `WalksEnd`): fairness is outside of the prover's
  reach.
* `PeResources`: what a path in a graph is, and that a search finds all of them.
* The containers of plans and manifests and the parsers: their properties
  compare two passes over the same list of tables and checks, and hold for the
  files that `MCFiles` and `MCFormats` describe.
* `SymbolIndex`, `Translator` and `ByteReader`: folds over bytes and symbols,
  see below.

Loops over tables are within reach where they are written as recursive
functions, as in `Container`, `PatchEngine`, `Memory` and `ImageBuilder`: that
the function exists and what its last value is are proved by `SetInduction`.
Folds of the community modules are not: their induction theorems take an
operator as a parameter.

Some properties state an exception, because no document promises more.  Each says
exactly when the exception is met, so that a change of the code on either side of
the line is noticed:

* `PlanPlacesTheSegments`: a plan takes every byte from its place in the file
  unless a region was merged of a segment with zeros at its end and one with bytes
  behind it (`src/src/layout.cc:110`);
* `PlansSurviveFiles`: a plan that was encoded is refused when the checksum takes
  the file past the limit, by no more than the checksum, or an operation carries
  more bytes than a section may have (`src/src/patch_engine.cc:228`);
* `ChangedSectionsAreNoticed`: a section that was changed is accepted when no
  checksum was stored, or the stored one is zero (`src/src/manifest.cc:314`);
* `RelocationsNameTheirSymbols`: symbols are numbered through all tables, so that
  relocations linked to a second table name symbols of the first
  (`src/src/elf_parser.cc:331`);
* `NearestIsTheCover`, a part of `IndexFindsTheSymbols`: of several symbols at one
  address the first with a size answers, and a longer one there or a symbol around
  it is not asked (`src/src/symbol_index.cc:103`);
* `TranslationsAgree`: an address comes back from the file exactly if the section
  or segment that owns the bytes there has them at that address
  (`src/src/symbol_index.cc:73`).

Two exceptions are not drawn that sharply.  `RefusalsAreExplained` says which
alignments can make a segment longer in the file than in memory, not that they do
(`src/src/builder.cc:175`).  `CaptureCanBeRestored` leaves out snapshots whose
region headers take the file past a limit (`src/src/snapshot.cc:136`), and
`ManifestsSurvive` lists the reasons for which a manifest is not read
(`Unreadable`).  The addresses at which the later sections of a segment with
several sections are loaded (`src/src/builder.cc:152`) are in no property: the
gaps between sections differ in the file and in memory.

`WalksEnd` does not show that cycles are found, the limits of depth and number
would end a walk that misses them: that is `CyclesAreFound`.  The part of
`SegmentsInPlace` about the entry point leaves out images that are linked at
address zero, where the loader does not move it: `loader_zero_based` shows that.

## Not modelled

* PE imports and exports, ELF dynamic metadata, unwind tables and notes: format
  decoding whose only state is a cursor; their range checks are those of
  `ByteReader` and `Translator`.
* The encodings of instructions: tables.  `Disassembly` keeps what they give to
  the analyzer, scaled: lengths, the four marks, and whether there is a target.
* `BinaryReportWriter`, `ImageQueryEngine`, `ImageAnalyzer`,
  `DependencyAnalyzer`, `ImageDiffer`, `HardeningAnalyzer`, `StringScanner`,
  `SignatureScanner`: single passes over an immutable image, and text.
* The command line tool, tests and fuzz targets: callers.
* CRC-32 itself: some function of the bytes.

`PROJECT.json` lists every component with its reason.

## Plan

What is left is proofs, in this order:

1. the part of `CyclesAreFound` about the stack of the resource walk;
2. `TranslationsAgree`.
