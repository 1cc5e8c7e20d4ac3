--------------------------------- MODULE Loader ---------------------------------
(***************************************************************************)
(* BinaryLoader::load and RelocationProcessor (src/src/loader.cc): map the *)
(* segments of an image into an address space at a load bias, apply its    *)
(* relocations and fill its import slots.  One step is one segment, one    *)
(* relocation or one import.  There is no rollback: a load that fails      *)
(* leaves the segments it has mapped behind, and the caller may load       *)
(* again, or clear the memory.  Between loads the caller also fills and    *)
(* clears the SymbolResolver that the loads are given.                     *)
(***************************************************************************)
EXTENDS Memory, Image, SymbolResolver

CONSTANTS
    PageSize,       \* limits_.page_size
    MappedLimit,    \* max_mapped_bytes of the memory
    Calls,          \* the calls of load: a function to the arguments, which
                    \* are an image, LoadOptions and whether there is a resolver
    Exports         \* the calls of add_export: a function to records of a
                    \* library and the name, ordinal and address of a symbol

VARIABLES
    regions, mapped_bytes,      \* the AddressSpace
    pc,         \* "idle", "mapping", "relocating" or "importing"
    call,       \* the running or last call
    index,      \* the next segment, relocation or import
    result,     \* LoadResult, and whether load returned one
    error,      \* the error of the running or last load
    before,     \* history: regions and mapped_bytes when load was called
    tables,     \* named_ and ordinal_ of the resolver
    accepted    \* history: the calls of add_export that returned true

memory == <<regions, mapped_bytes>>
loading == <<regions, mapped_bytes, pc, call, index, result, error, before>>
exports == <<tables, accepted>>
vars == <<loading, exports>>

\* A std::vector is a sequence.
IsVector(v) == Len(v) \in Nat /\ v = [n \in 1..Len(v) |-> v[n]]

\* What the types of struct BinaryImage say of the fields that load reads.
IsSegment(s) ==
    /\ {s.virtual_address, s.file_offset, s.file_size, s.memory_size} \subseteq Word
    /\ s.perms \subseteq Permission

IsImage(i) ==
    /\ {i.image_base, i.entry_point} \subseteq Word
    /\ i.file # NoFile => /\ i.file.size \in Nat
                         /\ i.file.bytes \in Buffer(i.file.size)
    /\ IsVector(i.segments) /\ IsVector(i.symbols)
    /\ IsVector(i.relocations) /\ IsVector(i.imports)
    /\ \A n \in 1..Len(i.segments) : IsSegment(i.segments[n])
    /\ \A n \in 1..Len(i.symbols) : i.symbols[n].value \in Word
    /\ \A n \in 1..Len(i.relocations) :
          /\ i.relocations[n].offset \in Word
          /\ i.relocations[n].symbol_index \in Nat
          /\ i.relocations[n].addend \in Int
    /\ \A n \in 1..Len(i.imports) : i.imports[n].slot_address \in Word

\* uint64_t has eight bytes.
ASSUME LoaderAssumption ==
    /\ MaxWord < Radix^8
    /\ PageSize \in Nat \ {0}
    /\ MappedLimit \in Word
    /\ DOMAIN Calls # {}
    /\ \A c \in DOMAIN Calls : /\ IsImage(Calls[c].image)
                               /\ Calls[c].options.preferred_base \in Word
    /\ \A e \in DOMAIN Exports : Exports[e].address \in Word

\* The arguments of the call.
image == Calls[call].image
options == Calls[call].options

\* The resolver, as a set: empty for a null pointer.
resolver == {t \in {tables} : Calls[call].with_resolver}

-----------------------------------------------------------------------------
(* The addresses of a load.                                                *)

OriginalBase(i) ==
    IF i.image_base # 0 \/ i.segments = <<>> THEN i.image_base
    ELSE CHOOSE a \in {i.segments[n].virtual_address : n \in 1..Len(i.segments)} :
            \A n \in 1..Len(i.segments) : a <= i.segments[n].virtual_address

LoadBase(i, o) ==
    IF o.preferred_base # 0 THEN o.preferred_base ELSE OriginalBase(i)

\* The subtraction wraps when the preferred base is the lower one.
Bias(i, o) == Wrap(LoadBase(i, o) - OriginalBase(i))

\* Whole pages around the bytes of the segment.
PageBase(address) == AlignDown(address, PageSize)
PageSpan(address, size) == AlignUp((address - PageBase(address)) + size, PageSize)

\* The permissions a segment is mapped with; they are not changed later.
InitialPerms(perms, enforce_wx) ==
    IF enforce_wx /\ "x" \in perms
    THEN (perms \cup {"w"}) \ {"x"} ELSE perms \cup {"w"}

-----------------------------------------------------------------------------
(* RelocationProcessor::apply_one.                                         *)

RelocationWidth(rel) ==
    IF rel.kind \in {"high16", "low16"} THEN 2
    ELSE IF rel.width # 0 THEN rel.width
    ELSE IF rel.kind \in {"absolute64", "relative64"} THEN 8 ELSE 4

IsImported(i, rel) ==
    /\ SymbolAt(i, rel.symbol_index).binding = "import_symbol"
    /\ resolver # {}

\* The value of the symbol, as a set: empty when it cannot be had.
SymbolValue(i, rel, bias) ==
    IF rel.symbol_index = 0 THEN {0}
    ELSE LET symbol == SymbolAt(i, rel.symbol_index) IN
         IF IsImported(i, rel)
         THEN UNION {Resolve(t, symbol.library, symbol.name, 0) : t \in resolver}
         ELSE {v \in {symbol.value + bias} : AddFits(symbol.value, bias)}

SymbolError(i, rel, bias) ==
    IF rel.symbol_index # 0 /\ ~HasSymbol(i, rel.symbol_index)
    THEN "invalid_symbol"
    ELSE IF SymbolValue(i, rel, bias) # {} THEN "none"
    ELSE IF IsImported(i, rel) THEN "unresolved_import" ELSE "address_overflow"

Supported == {"absolute32", "absolute64", "relative32", "relative64",
              "pc_relative32", "high16", "low16"}

RelocationValue(rel, symbol_value, target, bias) ==
    LET sum == Wrap(symbol_value + rel.addend) IN
    CASE rel.kind \in {"relative32", "relative64"} -> Wrap(bias + rel.addend)
      [] rel.kind = "pc_relative32" -> Wrap(symbol_value + rel.addend - target)
      [] rel.kind \in {"absolute32", "absolute64"} -> sum
      [] rel.kind = "high16" -> sum \div Radix^2
      [] rel.kind = "low16" -> sum % Radix^2

\* A bug in DoesNotFit: a value of exactly Radix^width is let through.
DoesNotFitOffByOne(value, width) == width < 8 /\ value > Radix^width

DoesNotFit(value, width) == width < 8 /\ value >= Radix^width

IntegerError(rs, address, width) ==
    IF width \notin Width THEN "invalid_relocation"
    ELSE WriteError(rs, address, width, TRUE)

\* What apply_one writes where; only meant when its error is "none".
Patch(i, rel, bias) ==
    LET target == rel.offset + bias
        symbol_value == CHOOSE v \in SymbolValue(i, rel, bias) : TRUE
    IN  [address |-> target,
         width   |-> RelocationWidth(rel),
         value   |-> RelocationValue(rel, symbol_value, target, bias)]

RelocationError(rs, i, rel, bias) ==
    IF ~AddFits(rel.offset, bias) THEN "address_overflow"
    ELSE IF SymbolError(i, rel, bias) # "none" THEN SymbolError(i, rel, bias)
    ELSE IF rel.kind = "none" THEN "none"
    ELSE IF rel.kind \notin Supported THEN "invalid_relocation"
    ELSE LET p == Patch(i, rel, bias) IN
         IF DoesNotFit(p.value, p.width) THEN "address_overflow"
         ELSE IntegerError(rs, p.address, p.width)

WithInteger(rs, address, width, order, value) ==
    Written(rs, address, Digits(value, width, order), width)

-----------------------------------------------------------------------------
(* load.                                                                   *)

NoResult == [loaded |-> FALSE, load_base |-> 0, entry_point |-> 0,
             mapped_bytes |-> 0, relocations_applied |-> 0,
             imports_resolved |-> 0]

TheBias == Bias(image, options)

\* Before the first call it does not matter which one it is.
NoCall == CHOOSE c \in DOMAIN Calls : TRUE

Init ==
    /\ regions = NoRegions
    /\ mapped_bytes = 0
    /\ pc = "idle"
    /\ call = NoCall
    /\ index = 1
    /\ result = NoResult
    /\ error = "none"
    /\ before = memory
    /\ tables = NoTables
    /\ accepted = {}

\* return std::nullopt with the error of the call that failed.
Return(e) ==
    /\ pc' = "idle"
    /\ error' = e
    /\ UNCHANGED <<regions, mapped_bytes, call, index,
                   result, before>>

\* A bug in Begin: the memory is emptied first.
BeginClears(c) ==
    /\ pc = "idle"
    /\ Valid(Calls[c].image)
    /\ call' = c
    /\ before' = memory
    /\ index' = 1
    /\ pc' = "mapping"
    /\ error' = "none"
    /\ result' = [NoResult EXCEPT !.load_base =
                    LoadBase(Calls[c].image, Calls[c].options)]
    /\ regions' = NoRegions
    /\ mapped_bytes' = 0

\* The call.  An invalid image is refused with the first error of the report;
\* which of its errors is the first is left open.
Begin(c) ==
    /\ pc = "idle"
    /\ call' = c
    /\ before' = memory
    /\ index' = 1
    /\ \/ /\ Valid(Calls[c].image)
          /\ pc' = "mapping"
          /\ error' = "none"
          /\ result' = [NoResult EXCEPT !.load_base =
                          LoadBase(Calls[c].image, Calls[c].options)]
       \/ /\ ~Valid(Calls[c].image)
          /\ pc' = "idle"
          /\ error' \in ValidationErrors(Calls[c].image)
          /\ result' = NoResult
    /\ UNCHANGED memory

\* The memory calls of one turn of the segment loop.
SegmentError(segment) ==
    LET address == segment.virtual_address + TheBias
        prefix == address - PageBase(address)
    IN
    IF ~AddFits(segment.virtual_address, TheBias) THEN "address_overflow"
    ELSE IF \/ ~AddFits(prefix, segment.memory_size)
            \/ ~AlignFits(prefix + segment.memory_size, PageSize)
         THEN "address_overflow"
    ELSE MapError(regions, mapped_bytes, MappedLimit, PageBase(address),
                  PageSpan(address, segment.memory_size))

FileBytes(i, segment) ==
    [k \in 0..(segment.file_size - 1) |-> i.file.bytes[segment.file_offset + k]]

\* A bug in SegmentMemory: the file bytes go to the start of the page.
SegmentMemoryAtPage(segment) ==
    LET address == segment.virtual_address + TheBias
        base == PageBase(address)
        fresh == Mapped(regions, base, PageSpan(address, segment.memory_size),
                        InitialPerms(segment.perms, options.enforce_wx))
    IN  Written(fresh, base, FileBytes(image, segment), segment.file_size)

\* The memory after a segment is mapped and its file bytes are copied in.
SegmentMemory(segment) ==
    LET address == segment.virtual_address + TheBias
        fresh == Mapped(regions, PageBase(address),
                        PageSpan(address, segment.memory_size),
                        InitialPerms(segment.perms, options.enforce_wx))
    IN  Written(fresh, address, FileBytes(image, segment), segment.file_size)

MapSegment ==
    LET segment == image.segments[index]
        span == PageSpan(segment.virtual_address + TheBias, segment.memory_size)
    IN
    /\ pc = "mapping"
    /\ index <= Len(image.segments)
    /\ \/ /\ segment.memory_size = 0
          /\ index' = index + 1
          /\ UNCHANGED <<regions, mapped_bytes, pc, call, result, error,
                         before>>
       \/ /\ segment.memory_size # 0
          /\ SegmentError(segment) = "none"
          /\ regions' = SegmentMemory(segment)
          /\ mapped_bytes' = mapped_bytes + span
          /\ result' = [result EXCEPT !.mapped_bytes = @ + span]
          /\ index' = index + 1
          /\ UNCHANGED <<pc, call, error, before>>
       \/ /\ segment.memory_size # 0
          /\ SegmentError(segment) # "none"
          /\ Return(SegmentError(segment))

\* Segments done.  That apply counts the relocations once more, and that the
\* segment loop looks at the file range once more, can not fail after Valid.
BeginRelocations ==
    /\ pc = "mapping"
    /\ index > Len(image.segments)
    /\ pc' = "relocating"
    /\ index' = IF options.apply_relocations THEN 1
                ELSE Len(image.relocations) + 1
    /\ UNCHANGED <<regions, mapped_bytes, call, result,
                   error, before>>

ApplyRelocation ==
    LET rel == image.relocations[index]
        failure == RelocationError(regions, image, rel, TheBias)
        p == Patch(image, rel, TheBias)
    IN
    /\ pc = "relocating"
    /\ index <= Len(image.relocations)
    /\ \/ /\ failure = "none"
          /\ regions' = IF rel.kind = "none" THEN regions
                        ELSE WithInteger(regions, p.address, p.width,
                                         image.byte_order, p.value)
          /\ result' = [result EXCEPT !.relocations_applied = @ + 1]
          /\ index' = index + 1
          /\ UNCHANGED <<mapped_bytes, pc, call, error,
                         before>>
       \/ /\ failure # "none"
          /\ Return(failure)

BeginImports ==
    /\ pc = "relocating"
    /\ index > Len(image.relocations)
    /\ pc' = "importing"
    /\ index' = IF options.resolve_imports THEN 1 ELSE Len(image.imports) + 1
    /\ UNCHANGED <<regions, mapped_bytes, call, result,
                   error, before>>

\* The address an import is bound to, as a set of at most one.
ImportTarget(import) ==
    UNION {Resolve(t, import.library, import.name, import.ordinal)
           : t \in resolver}

\* A slot beyond the last address fails without setting the error.
ImportError(import) ==
    LET slot == import.slot_address + TheBias IN
    IF ~AddFits(import.slot_address, TheBias) THEN error
    ELSE IntegerError(regions, slot, image.word_size)

ResolveImport ==
    LET import == image.imports[index]
        slot == import.slot_address + TheBias
        binds == AddFits(import.slot_address, TheBias)
                 /\ ImportError(import) = "none"
    IN
    /\ pc = "importing"
    /\ index <= Len(image.imports)
    /\ \/ /\ ImportTarget(import) = {} /\ import.weak
          /\ index' = index + 1
          /\ UNCHANGED <<regions, mapped_bytes, pc, call,
                         result, error, before>>
       \/ /\ ImportTarget(import) = {} /\ ~import.weak
          /\ Return("unresolved_import")
       \/ \E target \in ImportTarget(import) :
          /\ binds
          /\ regions' = WithInteger(regions, slot, image.word_size,
                                    image.byte_order, target)
          /\ result' = [result EXCEPT !.imports_resolved = @ + 1]
          /\ index' = index + 1
          /\ UNCHANGED <<mapped_bytes, pc, call, error,
                         before>>
       \/ /\ ImportTarget(import) # {} /\ ~binds
          /\ Return(ImportError(import))

\* The entry point moves with the image when it lies above a nonzero base.
EntryIsBiased ==
    /\ image.entry_point # 0
    /\ OriginalBase(image) # 0
    /\ image.entry_point >= OriginalBase(image)

Finish ==
    /\ pc = "importing"
    /\ index > Len(image.imports)
    /\ \/ /\ EntryIsBiased /\ ~AddFits(image.entry_point, TheBias)
          /\ Return("address_overflow")
       \/ /\ ~EntryIsBiased \/ AddFits(image.entry_point, TheBias)
          /\ result' = [result EXCEPT
                          !.loaded = TRUE,
                          !.entry_point = IF EntryIsBiased
                                          THEN image.entry_point + TheBias
                                          ELSE image.entry_point]
          /\ pc' = "idle"
          /\ UNCHANGED <<regions, mapped_bytes, call, index,
                         error, before>>

\* Between loads the caller forgets the last result.
Forget ==
    /\ pc = "idle"
    /\ before' = memory'
    /\ result' = NoResult
    /\ error' = "none"
    /\ index' = 1
    /\ call' = NoCall
    /\ UNCHANGED pc

\* The caller empties the memory.
ClearMemory ==
    /\ regions # NoRegions
    /\ regions' = NoRegions
    /\ mapped_bytes' = 0
    /\ Forget

\* A bug in AddExport: an ordinal that is taken is not noticed when the
\* export has a name.
AddExportByName(e) ==
    /\ UNCHANGED memory
    /\ Forget
    /\ Exports[e].name = NoName \/ <<Exports[e].library, Exports[e].name>> \notin DOMAIN tables.named
    /\ tables' = WithExport(tables, Exports[e].library, Exports[e])
    /\ accepted' = accepted \cup {e}

AddExport(e) ==
    /\ UNCHANGED memory
    /\ Forget
    /\ \/ /\ IsDuplicate(tables, Exports[e].library, Exports[e])
          /\ UNCHANGED exports
       \/ /\ ~IsDuplicate(tables, Exports[e].library, Exports[e])
          /\ tables' = WithExport(tables, Exports[e].library, Exports[e])
          /\ accepted' = accepted \cup {e}

ClearExports ==
    /\ UNCHANGED memory
    /\ Forget
    /\ tables' = NoTables
    /\ accepted' = {}

Step ==
    \/ MapSegment
    \/ BeginRelocations
    \/ ApplyRelocation
    \/ BeginImports
    \/ ResolveImport
    \/ Finish

Next ==
    \/ /\ \/ \E c \in DOMAIN Calls : Begin(c)
          \/ Step
          \/ ClearMemory
       /\ UNCHANGED exports
    \/ \E e \in DOMAIN Exports : AddExport(e)
    \/ ClearExports

Spec == Init /\ [][Next]_vars

-----------------------------------------------------------------------------
(* What a load promises.                                                   *)

\* The regions have all their bytes and are disjoint, and the account of mapped
\* bytes is exact and within the limit.
MemoryIsSound ==
    /\ IsRegions(regions)
    /\ Disjoint(regions)
    /\ mapped_bytes = Cardinality(MappedAddresses(regions))
    /\ mapped_bytes <= MappedLimit

\* The byte at a mapped address.
ByteAt(rs, a) ==
    LET b == CHOOSE b \in DOMAIN rs : a \in Cells(rs, b) IN rs[b].bytes[a - b]

\* The words a load writes after the segments, in order: the relocations that
\* were applied and the import slots that were bound.
RelocationWords ==
    IF ~options.apply_relocations THEN <<>>
    ELSE [n \in 1..Len(image.relocations) |->
            [at |-> image.relocations[n].offset + TheBias,
             width |-> IF image.relocations[n].kind = "none" THEN 0
                       ELSE RelocationWidth(image.relocations[n])]]

ImportWords ==
    IF ~options.resolve_imports THEN <<>>
    ELSE [n \in 1..Len(image.imports) |->
            [at |-> image.imports[n].slot_address + TheBias,
             width |-> IF ImportTarget(image.imports[n]) = {} THEN 0
                       ELSE image.word_size]]

Words == RelocationWords \o ImportWords
Span(word) == word.at..(word.at + word.width - 1)
Touched == UNION {Span(Words[n]) : n \in 1..Len(Words)}

\* The entry point of a loaded image is the byte of the segment it names.
EntryMoves ==
    \A n \in 1..Len(image.segments) :
        LET s == image.segments[n]
            inside == RangeInside(image.entry_point - s.virtual_address, 1,
                                  s.memory_size)
        IN  image.entry_point >= s.virtual_address /\ inside =>
                result.entry_point = image.entry_point + TheBias

\* Every byte of the segment is where the bias puts it: the file's bytes, then
\* zeros up to the memory size; only what a word covers may differ.
SegmentInPlace(s) ==
    \A k \in 0..(s.memory_size - 1) :
        LET a == s.virtual_address + TheBias + k IN
        /\ a \in MappedAddresses(regions)
        /\ a \notin Touched => ByteAt(regions, a) =
              IF k < s.file_size THEN image.file.bytes[s.file_offset + k] ELSE 0

\* When load succeeds, every byte of every segment is where the bias puts it:
\* the file's bytes, then zeros up to the memory size, and only relocation
\* targets and import slots differ.  The entry point of an image that is linked
\* at an address other than zero has moved with them (BinaryLoader::load).
SegmentsInPlace ==
    result.loaded =>
        /\ OriginalBase(image) \in 1..image.entry_point => EntryMoves
        /\ \A n \in 1..Len(image.segments) : SegmentInPlace(image.segments[n])

\* A load, complete or failed, leaves a sound memory after every step; it never
\* unmaps, resizes or reprotects what was mapped before it, and changes a byte
\* of it only as a target of one of its relocations or imports.
OthersKept ==
    /\ MemoryIsSound
    /\ \A b \in DOMAIN before[1] :
           /\ b \in DOMAIN regions
           /\ regions[b].size = before[1][b].size
           /\ regions[b].perms = before[1][b].perms
           /\ \A a \in Cells(regions, b) \ Touched :
                 ByteAt(regions, a) = ByteAt(before[1], a)

Last(n) == \A m \in (n + 1)..Len(Words) : Span(Words[m]) \cap Span(Words[n]) = {}

ReadsAs(word, value) ==
    Accumulate([i \in 0..(word.width - 1) |-> ByteAt(regions, word.at + i)],
               word.width, image.byte_order) = value

\* No relocation is truncated to its width.
RelocationsReadBack ==
    result.loaded =>
        \A n \in 1..Len(RelocationWords) :
            Last(n) /\ Words[n].width # 0 =>
                ReadsAs(Words[n], Patch(image, image.relocations[n], TheBias).value)

ImportNumber(n) == image.imports[n - Len(RelocationWords)]

\* The slots of the imports whose targets fit.
ImportsReadBack(Fits(_)) ==
    result.loaded =>
        \A n \in (Len(RelocationWords) + 1)..Len(Words) :
            Last(n) => \A t \in ImportTarget(ImportNumber(n)) :
                            Fits(t) => ReadsAs(Words[n], t)

FitsTheWord(target) == ~DoesNotFit(target, image.word_size)

\* A relocated word that nothing later overwrites reads back as the full value
\* of its formula, and an import slot as the address the resolver gave, if that
\* fits the word of the image (RelocationProcessor::apply_one and the imports of
\* BinaryLoader::load).
WordsReadBack == RelocationsReadBack /\ ImportsReadBack(FitsTheWord)

\* docs/architecture.md says the loader resolves import slots: every slot of a
\* loaded image holds the address of its import.
AnyTarget(target) == TRUE
AllImportsReadBack == ImportsReadBack(AnyTarget)

\* docs/architecture.md says the loader computes a load bias and returns a
\* numerical entry point: the entry point lies in the loaded image.
EntryInImage == result.loaded /\ image.entry_point # 0 => EntryMoves

\* Whatever was added and refused before, a lookup finds exactly the accepted
\* exports: by name the one of that name; otherwise the one of that ordinal.
\* The two tables of a SymbolResolver never disagree, because one duplicate
\* refuses both entries.
ResolveFindsAccepted ==
    LET Of(field) == {Exports[e][field] : e \in DOMAIN Exports} IN
    \A library \in Of("library"), name \in Of("name") \cup {NoName}, o \in Of("ordinal") :
        LET here    == {e \in accepted : Exports[e].library = library}
            byName  == {e \in here : Exports[e].name = name /\ name # NoName}
            matches == IF byName # {} THEN byName
                       ELSE {e \in here : Exports[e].ordinal = o}
        IN  Resolve(tables, library, name, o) = {Exports[e].address : e \in matches}
===============================================================================
