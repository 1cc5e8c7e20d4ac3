------------------------------ MODULE SymbolIndex ------------------------------
(***************************************************************************)
(* SymbolIndex (src/src/symbol_index.cc) over the symbols of an image, and *)
(* the addresses of the image in its file (Translator).                    *)
(*                                                                         *)
(* The three maps of the index are functions to positions in the table of  *)
(* symbols, which stand for the pointers.  A name is a sequence of         *)
(* letters; the empty name is <<>>.                                        *)
(***************************************************************************)
EXTENDS Translator, FiniteSets

LOCAL INSTANCE TLC
LOCAL INSTANCE SequencesExt

CONSTANTS
    Images,         \* the images an index is built from: a function
    MaxSymbols,     \* limits_.max_symbols
    Letters         \* the letters of names, numbers

VARIABLES
    index_image,    \* the image of the last build, a key of Images
    index_error,    \* "start", or the error of the last build
    names, qualified, addresses     \* names_, qualified_, addresses_

index_vars == <<index_image, index_error, names, qualified, addresses>>

\* The maps while the symbols are added one after the other.
Emplace(map, key, n) == IF key \in DOMAIN map THEN map ELSE key :> n @@ map

\* A bug in AddName: the last symbol of a name that is not local is kept.
AddNameLast(symbols, map, n) ==
    LET s == symbols[n] IN
    IF s.name = <<>> THEN map
    ELSE IF s.name \in DOMAIN map /\ s.binding = "local" THEN map
    ELSE s.name :> n @@ map

AddName(symbols, map, n) ==
    LET s == symbols[n] IN
    IF s.name = <<>> THEN map
    ELSE IF s.name \in DOMAIN map
         THEN IF symbols[map[s.name]].binding = "local" /\ s.binding # "local"
              THEN [map EXCEPT ![s.name] = n] ELSE map
    ELSE Emplace(map, s.name, n)

AddQualified(symbols, map, n) ==
    IF symbols[n].name = <<>> THEN map
    ELSE Emplace(map, <<symbols[n].library, symbols[n].name>>, n)

AddAddress(symbols, map, n) ==
    LET s == symbols[n] IN
    IF s.value = 0 \/ s.kind \in {"file", "section"} THEN map
    ELSE IF s.value \in DOMAIN map
         THEN IF symbols[map[s.value]].size = 0 /\ s.size # 0
              THEN [map EXCEPT ![s.value] = n] ELSE map
    ELSE Emplace(map, s.value, n)

\* build: the old index is cleared even when the new one is refused.
Build(key) ==
    LET symbols == Images[key].symbols
        positions == [n \in 1..Len(symbols) |-> n]
        filled(Add(_, _, _)) ==
            FoldLeft(LAMBDA map, n : Add(symbols, map, n), <<>>, positions)
    IN
    /\ index_image' = key
    /\ IF Len(symbols) > MaxSymbols
       THEN /\ index_error' = "resource_limit"
            /\ names' = <<>> /\ qualified' = <<>> /\ addresses' = <<>>
       ELSE /\ index_error' = "none"
            /\ names' = filled(AddName)
            /\ qualified' = filled(AddQualified)
            /\ addresses' = filled(AddAddress)

IndexInit ==
    /\ index_image = CHOOSE key \in DOMAIN Images : TRUE
    /\ index_error = "start"
    /\ names = <<>> /\ qualified = <<>> /\ addresses = <<>>

IndexNext == \E key \in DOMAIN Images : Build(key)

-----------------------------------------------------------------------------
(* Lookups; a pointer is a set of at most one position.                    *)

ByName(name) == {names[key] : key \in DOMAIN names \cap {name}}
ByQualifiedName(library, name) ==
    {qualified[key] : key \in DOMAIN qualified \cap {<<library, name>>}}

Symbols == Images[index_image].symbols

\* nearest: the last address not above, unless its symbol ends before.
Nearest(address) ==
    LET below == {value \in DOMAIN addresses : value <= address}
        last == CHOOSE value \in below : \A other \in below : other <= value
        n == addresses[last]
    IN  IF below = {} THEN {}
        ELSE IF Symbols[n].size # 0 /\ address - last >= Symbols[n].size THEN {}
        ELSE {n}

\* prefix: from the first name not before the prefix, as long as names begin
\* with it and there is room.
Before(left, right) ==
    \E i \in 1..Len(right) :
        /\ \A j \in 1..(i - 1) : j <= Len(left) /\ left[j] = right[j]
        /\ Len(left) < i \/ left[i] < right[i]
Begins(name, prefix) ==
    Len(prefix) <= Len(name) /\ SubSeq(name, 1, Len(prefix)) = prefix

Prefix(prefix, maximum) ==
    LET sorted == SetToSortSeq(DOMAIN names, Before)
        first == 1 + Cardinality({name \in DOMAIN names : Before(name, prefix)})
        end == CHOOSE e \in first..(Len(sorted) + 1) :
                 /\ e = Len(sorted) + 1 \/ ~Begins(sorted[e], prefix)
                 /\ \A i \in first..(e - 1) : Begins(sorted[i], prefix)
        taken == IF end - first < maximum THEN end - first ELSE maximum
    IN  [i \in 1..taken |-> names[sorted[first + i - 1]]]

-----------------------------------------------------------------------------
Positions == 1..Len(Symbols)
Named(name) == {n \in Positions : Symbols[n].name = name}
FirstIn(set) == {n \in set : \A other \in set : n <= other}
Preferred(set, Better(_)) ==
    LET better == {n \in set : Better(n)}
    IN  FirstIn(IF better # {} THEN better ELSE set)

HasAddress(n) ==
    Symbols[n].value # 0 /\ Symbols[n].kind \notin {"file", "section"}

\* An address belongs to the symbols that begin last at or before it.  Of these
\* the first in the table that has a size answers, else the first, unless the
\* address is past its end: then nothing is found, although a longer symbol that
\* begins there too, or one that begins before, may cover the address
\* (SymbolIndex::nearest).
NearestIsTheCover ==
    index_error = "none" =>
        \A address \in 0..MaxWord :
            LET begun == {n \in Positions :
                            HasAddress(n) /\ Symbols[n].value <= address}
                last == {n \in begun :
                           \A m \in begun : Symbols[m].value <= Symbols[n].value}
                sized(n) == Symbols[n].size # 0
                covers(n) == address - Symbols[n].value < Symbols[n].size
            IN  Nearest(address) = {n \in Preferred(last, sized) : sized(n) => covers(n)}

\* The index finds what a search of the whole table finds: by name the first
\* symbol that is not local, else the first; by library and name the first; by
\* prefix all of these, in order and as many as asked for; by address the
\* symbol that covers it.  A build that is refused leaves nothing of the image
\* before (SymbolIndex::build, by_name, by_qualified_name, nearest, prefix).
IndexFindsTheSymbols ==
    LET texts == {s.name : s \in {Symbols[n] : n \in Positions}} \ {<<>>}
        global(n) == Symbols[n].binding # "local"
    IN
    IF index_error # "none"
    THEN names = <<>> /\ qualified = <<>> /\ addresses = <<>>
    ELSE /\ \A name \in texts : ByName(name) = Preferred(Named(name), global)
         /\ \A n \in Positions :
               Symbols[n].name # <<>> =>
                  ByQualifiedName(Symbols[n].library, Symbols[n].name) =
                     FirstIn({m \in Named(Symbols[n].name) :
                                Symbols[m].library = Symbols[n].library})
         /\ NearestIsTheCover
         /\ \A letter \in Letters :
               LET expected == {name \in texts : name[1] = letter}
                   found == Prefix(<<letter>>, Len(Symbols))
               IN  /\ Len(found) = Cardinality(expected)
                   /\ {Symbols[found[i]].name : i \in 1..Len(found)} = expected
                   /\ \A maximum \in 0..Len(found) :
                         Prefix(<<letter>>, maximum)
                            = [i \in 1..maximum |-> found[i]]

\* The first part whose bytes in the file are those at an offset.
Owner(parts, offset, length) ==
    {parts[n] : n \in FirstIn({m \in 1..Len(parts) :
        /\ offset >= parts[m].file_offset
        /\ RangeInside(offset - parts[m].file_offset, length, parts[m].file_size)})}

\* An address that has bytes goes to the file.  It comes back exactly if the
\* first section that has those bytes, else the first segment, has them at that
\* address: parts may share bytes of the file and give them other addresses.
\* When the image lies below its base, a relative address means the first
\* section that has bytes for it, never one that happens to be at the absolute
\* address (AddressTranslator).
TranslationsAgree ==
    index_error = "none" =>
        LET image == Images[index_image]
            base == image.header.image_base
            parts == {image.sections[n] : n \in 1..Len(image.sections)}
                     \cup {image.segments[n] : n \in 1..Len(image.segments)}
            below == \A part \in parts : part.virtual_address + part.memory_size <= base
        IN
        \A address \in 0..MaxWord, length \in 1..2 :
            /\ \A place \in VirtualToFile(image, address, length) :
                  LET offset == place.file_offset
                      section == Owner(image.sections, offset, length)
                      owner == IF section # {} THEN section
                               ELSE Owner(image.segments, offset, length)
                  IN  /\ length <= place.available /\ owner # {}
                      /\ FileToVirtual(image, offset, length) = {address}
                            <=> \A part \in owner :
                                   part.virtual_address + (offset - part.file_offset) = address
            /\ below /\ AddFits(base, address) =>
                  {place.section : place \in RvaToFile(image, address, length)}
                     = {image.sections[n].index : n \in FirstIn(
                          {m \in 1..Len(image.sections) :
                             LET s == image.sections[m] IN
                             /\ address >= s.virtual_address
                             /\ RangeInside(address - s.virtual_address, length,
                                            s.file_size)})}
================================================================================
