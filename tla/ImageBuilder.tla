------------------------------ MODULE ImageBuilder ------------------------------
(***************************************************************************)
(* BinaryImageBuilder (src/src/builder.cc): collects sections, symbols,    *)
(* imports, exports and relocations and lays them out as an image.  One    *)
(* action is one member function; build does not change the builder, and   *)
(* what it returns is the function Built of the builder's state.           *)
(*                                                                         *)
(* The inputs are behind keys: Sections[k] is the BuilderSection that the  *)
(* caller calls k.  Of a name the model keeps its identity and whether it  *)
(* is longer than limits_.max_string_bytes; the header fields that build   *)
(* only copies are left out.                                               *)
(***************************************************************************)
EXTENDS LayoutPlanner

CONSTANTS
    Sections, Symbols, Imports, Exports, Relocations,   \* functions of inputs
    Options,            \* BuilderOptions: a function
    LongNames,          \* the names longer than limits_.max_string_bytes
    MaxSectionBytes, MaxImports, MaxExports             \* limits_

\* What the types of the inputs say of the fields that build computes with.
IsSection(s) ==
    /\ Len(s.data) \in Nat /\ s.data = [n \in 1..Len(s.data) |-> s.data[n]]
    /\ s.zero_fill \in Nat /\ s.alignment \in Nat
IsOptions(o) ==
    /\ o.image_base \in Word
    /\ o.file_alignment \in Nat /\ o.memory_alignment \in Nat
    /\ o.separate_permissions \in BOOLEAN

ASSUME BuilderAssumption ==
    /\ MaxFileSize \in Nat
    /\ MaxSections \in Nat
    /\ \A k \in DOMAIN Sections : IsSection(Sections[k])
    /\ \A k \in DOMAIN Options : IsOptions(Options[k])

\* Limits are counts, an index is unsigned, and the page size of the planner is
\* a power of two, as by default.
ASSUME LimitsAssumption ==
    /\ MaxSegments \in Nat /\ MaxSymbols \in Nat /\ MaxRelocations \in Nat
    /\ \A k \in DOMAIN Relocations : /\ "symbol_index" \in DOMAIN Relocations[k]
                                    /\ Relocations[k].symbol_index \in Nat
    /\ PageSize \in Nat /\ IsPowerOfTwo(PageSize)

VARIABLES
    sections, symbols, imports, exports, relocations,   \* sequences of keys
    last                \* the last call and its error

lists == <<sections, symbols, imports, exports, relocations>>
vars == <<sections, symbols, imports, exports, relocations, last>>

-----------------------------------------------------------------------------
(* The calls that add.                                                     *)

SectionRefusal(s) ==
    IF \/ Len(sections) >= MaxSections
       \/ s.name \in LongNames
       \/ Len(s.data) > MaxSectionBytes
       \/ ~IsPowerOfTwo(s.alignment)
    THEN "resource_limit"
    ELSE IF \E n \in DOMAIN sections : Sections[sections[n]].name = s.name
    THEN "invalid_section" ELSE "none"

\* The entry is full or one of its names is too long.
Refusal(list, limit, names) ==
    IF Len(list) >= limit \/ names \cap LongNames # {}
    THEN "resource_limit" ELSE "none"

Init ==
    /\ sections = <<>>
    /\ symbols = <<>>
    /\ imports = <<>>
    /\ exports = <<>>
    /\ relocations = <<>>
    /\ last = [op |-> "none", options |-> 0, error |-> "none"]

Returns(op, e) == last' = [op |-> op, options |-> 0, error |-> e]
Extended(list, key, e) == IF e = "none" THEN Append(list, key) ELSE list

AddSection(k) ==
    LET e == SectionRefusal(Sections[k]) IN
    /\ sections' = Extended(sections, k, e)
    /\ Returns("add_section", e)
    /\ UNCHANGED <<symbols, imports, exports, relocations>>

AddSymbol(k) ==
    LET e == Refusal(symbols, MaxSymbols, {Symbols[k].name, Symbols[k].library}) IN
    /\ symbols' = Extended(symbols, k, e)
    /\ Returns("add_symbol", e)
    /\ UNCHANGED <<sections, imports, exports, relocations>>

AddImport(k) ==
    LET e == Refusal(imports, MaxImports, {Imports[k].name, Imports[k].library}) IN
    /\ imports' = Extended(imports, k, e)
    /\ Returns("add_import", e)
    /\ UNCHANGED <<sections, symbols, exports, relocations>>

AddExport(k) ==
    LET e == Refusal(exports, MaxExports, {Exports[k].name, Exports[k].forward_target})
    IN
    /\ exports' = Extended(exports, k, e)
    /\ Returns("add_export", e)
    /\ UNCHANGED <<sections, symbols, imports, relocations>>

AddRelocation(k) ==
    LET e == Refusal(relocations, MaxRelocations, {}) IN
    /\ relocations' = Extended(relocations, k, e)
    /\ Returns("add_relocation", e)
    /\ UNCHANGED <<sections, symbols, imports, exports>>

Clear ==
    /\ sections' = <<>>
    /\ symbols' = <<>>
    /\ imports' = <<>>
    /\ exports' = <<>>
    /\ relocations' = <<>>
    /\ Returns("clear", "none")

-----------------------------------------------------------------------------
(* build: one turn of the loop per section.                                *)

OptionsError(o) ==
    IF \/ ~IsPowerOfTwo(o.file_alignment)
       \/ ~IsPowerOfTwo(o.memory_alignment)
       \/ o.file_alignment > MaxSectionBytes
       \/ o.memory_alignment > MaxMappedBytes
    THEN "invalid_alignment" ELSE "none"

\* The bytes that storage is filled up with.
Padding == <<"zero", 0>>

FileOffset(b, source, o) ==
    AlignUp(b.file_cursor, Greater(o.file_alignment, source.alignment))
VirtualAddress(b, source, o) ==
    AlignUp(b.memory_cursor, Greater(o.memory_alignment, source.alignment))

PlaceError(b, source, o) ==
    LET size == Len(source.data) IN
    IF \/ ~AlignFits(b.file_cursor, Greater(o.file_alignment, source.alignment))
       \/ ~AlignFits(b.memory_cursor, Greater(o.memory_alignment, source.alignment))
    THEN "address_overflow"
    ELSE IF FileOffset(b, source, o) > MaxFileSize
            \/ size > MaxFileSize - FileOffset(b, source, o)
    THEN "resource_limit"
    ELSE IF \/ ~AddFits(size, source.zero_fill)
            \/ ~AddFits(FileOffset(b, source, o), size)
            \/ ~AddFits(VirtualAddress(b, source, o), size + source.zero_fill)
    THEN "address_overflow"
    ELSE "none"

\* A bug in Stored: the file is filled up after the data is appended.
StoredThenPadded(storage, offset, data) ==
    storage \o data \o [n \in 1..(offset - Len(storage)) |-> Padding]

Stored(storage, offset, data) ==
    storage \o [n \in 1..(offset - Len(storage)) |-> Padding] \o data

StartsSegment(segments, source, o) ==
    \/ segments = <<>>
    \/ o.separate_permissions /\ segments[Len(segments)].perms # source.permissions

\* A bug in Grown: the gap before the section is not counted.
GrownBySize(segment, section) ==
    [segment EXCEPT !.file_size = @ + section.file_size,
                    !.memory_size = @ + section.memory_size,
                    !.sections = Append(@, section.index)]

\* The last segment, extended to the end of a section.
Grown(segment, section) ==
    [segment EXCEPT
        !.file_size = section.file_offset + section.file_size - segment.file_offset,
        !.memory_size =
            section.virtual_address + section.memory_size - segment.virtual_address,
        !.sections = Append(@, section.index)]

NewSegment(b, section, alignment) ==
    [file_offset     |-> section.file_offset,
     file_size       |-> section.file_size,
     virtual_address |-> section.virtual_address,
     memory_size     |-> section.memory_size,
     alignment       |-> alignment,
     perms           |-> section.permissions,
     sections        |-> <<section.index>>]

\* A bug in MemoryEnd: zero_fill is forgotten.
MemoryEndOfData(section) == section.virtual_address + section.file_size

MemoryEnd(section) == section.virtual_address + section.memory_size

Placed(b, source, o) ==
    LET section == [index           |-> Len(b.sections),
                    kind            |-> source.kind,
                    file_offset     |-> FileOffset(b, source, o),
                    file_size       |-> Len(source.data),
                    virtual_address |-> VirtualAddress(b, source, o),
                    memory_size     |-> Len(source.data) + source.zero_fill,
                    alignment       |-> source.alignment,
                    permissions     |-> source.permissions]
        alignment == Greater(o.memory_alignment, source.alignment)
    IN  [error         |-> "none",
         storage       |-> Stored(b.storage, section.file_offset, source.data),
         sections      |-> Append(b.sections, section),
         segments      |->
            IF StartsSegment(b.segments, source, o)
            THEN Append(b.segments, NewSegment(b, section, alignment))
            ELSE [b.segments EXCEPT ![Len(b.segments)] = Grown(@, section)],
         file_cursor   |-> section.file_offset + section.file_size,
         memory_cursor |-> MemoryEnd(section)]

Place(b, source, o) ==
    IF b.error # "none" THEN b
    ELSE IF PlaceError(b, source, o) = "none" THEN Placed(b, source, o)
    ELSE [b EXCEPT !.error = PlaceError(b, source, o)]

\* Before the loop, and after its turns for the sections that were added.
Blank(o) ==
    [error |-> "none", storage |-> <<>>, sections |-> <<>>, segments |-> <<>>,
     file_cursor |-> 0, memory_cursor |-> o.image_base]
LaidOut(o) ==
    LET laid[n \in 0..Len(sections)] ==
            IF n = 0 THEN Blank(o)
            ELSE Place(laid[n - 1], Sections[sections[n]], o)
    IN  laid[Len(sections)]

\* The first executable section.
EntryPoint(placed) ==
    LET code == {n \in DOMAIN placed : "x" \in placed[n].permissions}
    IN  IF code = {} THEN 0
        ELSE placed[CHOOSE n \in code : \A m \in code : n <= m].virtual_address

\* The entries of a list, each with its number as index.
Numbered(list, Of) ==
    LET entry(n) == Of[list[n]]
    IN  [n \in DOMAIN list |->
            [field \in DOMAIN entry(n) \cup {"index"} |->
                IF field = "index" THEN n - 1 ELSE entry(n)[field]]]

ImageFrom(b, o) ==
    [image_base  |-> o.image_base,
     entry_point |-> EntryPoint(b.sections),
     sections    |-> b.sections,
     segments    |-> b.segments,
     symbols     |-> Numbered(symbols, Symbols),
     imports     |-> [n \in DOMAIN imports |-> Imports[imports[n]]],
     exports     |-> [n \in DOMAIN exports |-> Exports[exports[n]]],
     relocations |-> Numbered(relocations, Relocations),
     file        |-> [size  |-> Len(b.storage),
                      bytes |-> [n \in 0..(Len(b.storage) - 1) |-> b.storage[n + 1]]]]

\* What build returns with these options, when it returns an image.
Built(o) == ImageFrom(LaidOut(o), o)

\* The errors of which build returns one; {} when it returns an image.
BuildErrors(o) ==
    IF OptionsError(o) # "none" THEN {OptionsError(o)}
    ELSE IF LaidOut(o).error # "none" THEN {LaidOut(o).error}
    ELSE ValidationErrors(Built(o))

Build(k) ==
    /\ \/ /\ BuildErrors(Options[k]) = {}
          /\ last' = [op |-> "build", options |-> k, error |-> "none"]
       \/ \E e \in BuildErrors(Options[k]) :
             last' = [op |-> "build", options |-> k, error |-> e]
    /\ UNCHANGED lists

Next ==
    \/ \E k \in DOMAIN Sections : AddSection(k)
    \/ \E k \in DOMAIN Symbols : AddSymbol(k)
    \/ \E k \in DOMAIN Imports : AddImport(k)
    \/ \E k \in DOMAIN Exports : AddExport(k)
    \/ \E k \in DOMAIN Relocations : AddRelocation(k)
    \/ \E k \in DOMAIN Options : Build(k)
    \/ Clear

Spec == Init /\ [][Next]_vars

-----------------------------------------------------------------------------
(* What an image that was built promises.                                  *)

HasBuilt == last.op = "build" /\ last.error = "none"
options == Options[last.options]
Holds(P(_)) == HasBuilt => P(Built(options))

\* A segment of one section is loaded as the builder was told: its data, then
\* zeros up to the end.
LoneSectionsLoadExactly ==
    Holds(LAMBDA i : \A g \in DOMAIN i.segments :
        LET t == i.segments[g]
            source == Sections[sections[t.sections[1] + 1]]
        IN  Len(t.sections) = 1 =>
                /\ [k \in 1..t.file_size |-> i.file.bytes[t.file_offset + k - 1]]
                     = source.data
                /\ t.memory_size = Len(source.data) + source.zero_fill)

\* The bytes of every section are in the file at its offset, whatever the
\* alignments of the sections before it, and a section that is alone in its
\* segment is loaded as the builder was told (BinaryImageBuilder::build).
SectionsKeepTheirBytes ==
    /\ LoneSectionsLoadExactly
    /\ Holds(LAMBDA i : \A n \in DOMAIN i.sections :
          \A k \in DOMAIN Sections[sections[n]].data :
              i.file.bytes[i.sections[n].file_offset + k - 1]
                  = Sections[sections[n]].data[k])

\* Every section belongs to one segment, lies in it in memory and in the file,
\* and has its permissions if permissions are kept separate.
SegmentsHoldSections ==
    Holds(LAMBDA i : \A n \in DOMAIN i.sections :
        LET s == i.sections[n]
            holders == {g \in DOMAIN i.segments : s.index \in Range(i.segments[g].sections)}
        IN  /\ Cardinality(holders) = 1
            /\ \A g \in holders :
                 LET t == i.segments[g] IN
                 /\ s.file_offset >= t.file_offset
                 /\ RangeInside(s.file_offset - t.file_offset, s.file_size, t.file_size)
                 /\ s.virtual_address >= t.virtual_address
                 /\ RangeInside(s.virtual_address - t.virtual_address,
                                s.memory_size, t.memory_size)
                 /\ options.separate_permissions => s.permissions = t.perms)

\* The gaps between the sections of a segment may be larger in the file than
\* in memory: the file is aligned more, or a section more than the start.
GapsMayDiffer(t, placed, o) ==
    LET alignment(i) == placed[i + 1].alignment
        start == Greater(o.file_alignment, alignment(t.sections[1]))
    IN  \/ o.file_alignment > o.memory_alignment
        \/ \E j \in DOMAIN t.sections : alignment(t.sections[j]) > start

\* Builder and validator agree: a layout that was completed is refused only
\* for more segments than the limit, for a relocation whose symbol was never
\* added, or for a segment that alignment has made longer in the file than in
\* memory.
RefusalsAreExplained ==
    /\ last.op = "build" /\ last.error # "none"
    /\ OptionsError(options) = "none" /\ LaidOut(options).error = "none"
    => LET laid == LaidOut(options) IN
       \/ Len(laid.segments) > MaxSegments
       \/ \E n \in DOMAIN relocations :
             LET symbol == Relocations[relocations[n]].symbol_index
             IN  symbol # 0 /\ symbol >= Len(symbols)
       \/ \E n \in DOMAIN laid.segments :
             /\ laid.segments[n].file_size > laid.segments[n].memory_size
             /\ GapsMayDiffer(laid.segments[n], laid.sections, options)

\* LayoutPlanner accepts every image that was built, at its own base, unless
\* it is larger than the limit: the builder leaves no overlap.  What is refused
\* is refused for a reason (BinaryImageBuilder::build).
BuiltImagesCanBePlanned ==
    /\ RefusalsAreExplained
    /\ Holds(LAMBDA i :
          Plan(i, 0, FALSE).error \in {"none", "resource_limit"})
===============================================================================
