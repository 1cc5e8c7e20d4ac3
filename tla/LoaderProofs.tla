------------------------------ MODULE LoaderProofs ------------------------------
(***************************************************************************)
(* What BinaryLoader::load and SymbolResolver promise, for every image,    *)
(* every option, every page size and every limit: the segments are where   *)
(* the bias puts them, what was mapped before is kept, and a lookup finds  *)
(* the exports that were accepted.                                         *)
(***************************************************************************)
EXTENDS Loader, MemoryProofs, SequenceTheorems

USE LoaderAssumption

-----------------------------------------------------------------------------
(* Memory that grows and is written in places.                             *)

\* What is mapped in old is still mapped in new, with the same size and the
\* same permissions, and its bytes outside S are the same.
Kept(old, new, S) ==
    \A b \in DOMAIN old :
        /\ b \in DOMAIN new
        /\ new[b].size = old[b].size
        /\ new[b].perms = old[b].perms
        /\ \A i \in 0..(old[b].size - 1) :
              b + i \notin S => new[b].bytes[i] = old[b].bytes[i]

\* Nothing changes a memory that is left alone.
LEMMA KeptSame ==
    ASSUME NEW rs, NEW S
    PROVE  Kept(rs, rs, S)
BY DEF Kept

\* Two changes keep what both keep.
LEMMA KeptTwice ==
    ASSUME NEW old, NEW mid, NEW new, NEW S, Kept(old, mid, S), Kept(mid, new, S)
    PROVE  Kept(old, new, S)
<1> SUFFICES ASSUME NEW b \in DOMAIN old
             PROVE  /\ b \in DOMAIN new
                    /\ new[b].size = old[b].size
                    /\ new[b].perms = old[b].perms
                    /\ \A i \in 0..(old[b].size - 1) :
                          b + i \notin S => new[b].bytes[i] = old[b].bytes[i]
  BY DEF Kept
<1>1. /\ b \in DOMAIN mid /\ b \in DOMAIN new
      /\ mid[b].size = old[b].size /\ new[b].size = mid[b].size
      /\ mid[b].perms = old[b].perms /\ new[b].perms = mid[b].perms
  BY DEF Kept
<1>2. ASSUME NEW i \in 0..(old[b].size - 1), b + i \notin S
      PROVE  new[b].bytes[i] = old[b].bytes[i]
  <2>1. mid[b].bytes[i] = old[b].bytes[i]
    BY <1>2 DEF Kept
  <2>2. new[b].bytes[i] = mid[b].bytes[i]
    BY <1>1, <1>2 DEF Kept
  <2> QED
    BY <2>1, <2>2
<1> QED
  BY <1>1, <1>2

\* A change inside S is a change inside a larger set.
LEMMA KeptMore ==
    ASSUME NEW old, NEW new, NEW S, NEW T, S \subseteq T, Kept(old, new, S)
    PROVE  Kept(old, new, T)
BY DEF Kept

\* A change outside of what was mapped changes nothing of it.
LEMMA KeptApart ==
    ASSUME NEW old, NEW new, NEW S, IsRegions(old), Kept(old, new, S),
           S \cap MappedAddresses(old) = {}
    PROVE  Kept(old, new, {})
<1> SUFFICES ASSUME NEW b \in DOMAIN old, NEW i \in 0..(old[b].size - 1)
             PROVE  b + i \notin S
  BY DEF Kept
<1>1. b \in Int /\ old[b].size \in Int
  BY WordAssumption DEF IsRegions, IsRegion, Word
<1>2. b + i \in Cells(old, b)
  BY <1>1 DEF Cells
<1>3. b + i \in MappedAddresses(old)
  BY <1>2 DEF MappedAddresses
<1> QED
  BY <1>3

\* The byte at an address is the byte of the one region that holds it.
LEMMA ByteOfRegion ==
    ASSUME NEW rs, Tidy(rs), NEW b \in DOMAIN rs, NEW a \in Cells(rs, b)
    PROVE  ByteAt(rs, a) = rs[b].bytes[a - b]
<1> DEFINE c == CHOOSE d \in DOMAIN rs : a \in Cells(rs, d)
<1>1. c \in DOMAIN rs /\ a \in Cells(rs, c)
  OBVIOUS
<1> HIDE DEF c
<1>2. c = b
  BY <1>1 DEF Tidy, Disjoint
<1> QED
  BY <1>2 DEF ByteAt, c

\* What is kept is found at the same addresses.
LEMMA KeptByte ==
    ASSUME NEW old, Tidy(old), NEW new, Tidy(new), NEW S, Kept(old, new, S),
           NEW a \in MappedAddresses(old)
    PROVE  /\ a \in MappedAddresses(new)
           /\ a \notin S => ByteAt(new, a) = ByteAt(old, a)
<1>1. PICK b \in DOMAIN old : a \in Cells(old, b)
  BY DEF MappedAddresses
<1>2. b \in DOMAIN new /\ new[b].size = old[b].size
  BY DEF Kept
<1>3. a \in Cells(new, b)
  BY <1>1, <1>2 DEF Cells
<1>4. a \in MappedAddresses(new)
  BY <1>2, <1>3 DEF MappedAddresses
<1>5. b \in Int /\ old[b].size \in Int
  BY WordAssumption DEF Tidy, IsRegions, IsRegion, Word
<1>6. a - b \in 0..(old[b].size - 1) /\ b + (a - b) = a
  BY <1>1, <1>5 DEF Cells
<1>7. a \notin S => new[b].bytes[a - b] = old[b].bytes[a - b]
  BY <1>6 DEF Kept
<1>8. ByteAt(old, a) = old[b].bytes[a - b] /\ ByteAt(new, a) = new[b].bytes[a - b]
  BY <1>1, <1>2, <1>3, ByteOfRegion
<1> QED
  BY <1>4, <1>7, <1>8

\* A write changes bytes inside its range only.
LEMMA WriteKeeps ==
    ASSUME NEW rs, Tidy(rs), NEW address \in Word, NEW size \in Word,
           NEW data \in Buffer(size)
    PROVE  /\ Tidy(Written(rs, address, data, size))
           /\ SameShape(rs, Written(rs, address, data, size))
           /\ Kept(rs, Written(rs, address, data, size),
                   address..(address + size - 1))
<1> DEFINE new == Written(rs, address, data, size)
<1>1. /\ IsRegions(new) /\ SameShape(rs, new)
      /\ \A b \in DOMAIN rs : new[b].perms = rs[b].perms
  BY WriteKeepsRegions DEF Tidy
<1>2. Tidy(new)
  <2> HIDE DEF new
  <2> QED
    BY <1>1, ShapeDecides DEF Tidy
<1>3. ASSUME NEW b \in DOMAIN rs, NEW i \in 0..(rs[b].size - 1),
             b + i \notin address..(address + size - 1)
      PROVE  new[b].bytes[i] = rs[b].bytes[i]
  <2>1. b \in Int /\ rs[b].size \in Int /\ address \in Int /\ size \in Int
    BY WordAssumption DEF Tidy, IsRegions, IsRegion, Word
  <2>2. ~(address - b <= i /\ i < (address - b) + size)
    BY <1>3, <2>1
  <2> QED
    BY <2>2, WrittenByte DEF Tidy
<1>4. \A b \in DOMAIN rs : b \in DOMAIN new /\ new[b].size = rs[b].size
  BY <1>1 DEF SameShape
<1> HIDE DEF new
<1>5. Kept(rs, new, address..(address + size - 1))
  BY <1>1, <1>3, <1>4 DEF Kept
<1> QED
  BY <1>1, <1>2, <1>5 DEF new

-----------------------------------------------------------------------------
(* The addresses of a load.                                                *)

\* The remainder of a division is less than the divisor.
LEMMA Remainder ==
    ASSUME NEW a \in Nat, NEW p \in Nat \ {0}
    PROVE  a % p \in 0..(p - 1) /\ a % p <= a
OBVIOUS

\* A page starts at or below the address it is the page of.
LEMMA PageBaseIsWord ==
    ASSUME NEW address \in Word
    PROVE  PageBase(address) \in Word /\ PageBase(address) <= address
<1>1. address \in Nat /\ MaxWord \in Nat /\ address <= MaxWord
  BY WordAssumption DEF Word
<1>2. address % PageSize \in 0..(PageSize - 1) /\ address % PageSize <= address
  BY <1>1, Remainder
<1> QED
  BY <1>1, <1>2 DEF PageBase, AlignDown, Word

\* The pages of a segment cover it, and rounding up does not overflow when the
\* checks before it pass.
LEMMA PageSpanIsWord ==
    ASSUME NEW address \in Word, NEW size \in Word,
           AddFits(address - PageBase(address), size),
           AlignFits((address - PageBase(address)) + size, PageSize)
    PROVE  /\ PageSpan(address, size) \in Word
           /\ (address - PageBase(address)) + size <= PageSpan(address, size)
<1> DEFINE x == (address - PageBase(address)) + size
           y == x + (PageSize - 1)
<1>1. /\ address \in Nat /\ size \in Nat /\ MaxWord \in Nat
      /\ PageBase(address) \in Nat /\ PageBase(address) <= address
  BY PageBaseIsWord, WordAssumption DEF Word
<1>2. x \in Nat /\ y \in Nat /\ y <= MaxWord
  BY <1>1 DEF AlignFits, AddFits
<1>3. PageSpan(address, size) = y - (y % PageSize)
  BY DEF PageSpan, AlignUp, AlignDown
<1>4. y % PageSize \in 0..(PageSize - 1) /\ y % PageSize <= y
  <2> HIDE DEF y
  <2> QED
    BY <1>2, Remainder
<1>5. y = x + (PageSize - 1)
  OBVIOUS
<1> HIDE DEF x, y
<1>6. \A r \in 0..(PageSize - 1) :
         r <= y => y - r \in Word /\ x <= y - r
  BY <1>1, <1>2, <1>5 DEF Word
<1> QED
  BY <1>3, <1>4, <1>6 DEF x

\* An integer wraps into a word.
LEMMA WrapIsWord ==
    ASSUME NEW n \in Int
    PROVE  Wrap(n) \in Word
BY WordAssumption DEF Wrap, Word

\* The base the image is linked at is an address.
LEMMA OriginalBaseIsWord ==
    ASSUME NEW i, IsImage(i)
    PROVE  OriginalBase(i) \in Word
<1> DEFINE n == Len(i.segments)
           S == {i.segments[k].virtual_address : k \in 1..n}
<1>1. n \in Nat /\ i.image_base \in Word
  BY DEF IsImage, IsVector
<1>2. \A k \in 1..n : i.segments[k].virtual_address \in Word
  BY DEF IsImage, IsSegment
<1>3. CASE i.image_base # 0 \/ i.segments = <<>> \/ n = 0
  <2>1. n = 0 => i.segments = <<>>
    BY DEF IsImage, IsVector
  <2> QED
    BY <1>1, <1>3, <2>1 DEF OriginalBase
<1>4. CASE ~(i.image_base # 0 \/ i.segments = <<>> \/ n = 0)
  <2>1. S \in SUBSET Nat
    BY <1>2, WordAssumption DEF Word
  <2>7. 1 \in 1..n
    BY <1>1, <1>4
  <2>8. i.segments[1].virtual_address \in S
    BY <2>7
  <2>2. PICK a \in S : \A x \in S : a <= x
    <3> HIDE DEF S
    <3> QED
      BY <2>1, <2>8, LeastElement
  <2>3. \A k \in 1..n : a <= i.segments[k].virtual_address
    BY <2>2
  <2>4. OriginalBase(i) = CHOOSE x \in S : \A k \in 1..n : x <= i.segments[k].virtual_address
    BY <1>4 DEF OriginalBase
  <2>5. OriginalBase(i) \in S
    <3> HIDE DEF S
    <3> QED
      BY <2>2, <2>3, <2>4
  <2> QED
    BY <1>2, <2>5
<1> QED
  BY <1>3, <1>4

\* The load bias is a word: the subtraction wraps.
LEMMA BiasIsWord ==
    ASSUME NEW c \in DOMAIN Calls
    PROVE  /\ LoadBase(Calls[c].image, Calls[c].options) \in Word
           /\ Bias(Calls[c].image, Calls[c].options) \in Word
<1>1. OriginalBase(Calls[c].image) \in Word
  BY OriginalBaseIsWord
<1>2. LoadBase(Calls[c].image, Calls[c].options) \in Word
  BY <1>1 DEF LoadBase
<1>3. LoadBase(Calls[c].image, Calls[c].options) - OriginalBase(Calls[c].image) \in Int
  BY <1>1, <1>2, WordAssumption DEF Word
<1> QED
  BY <1>2, <1>3, WrapIsWord DEF Bias

\* What load takes from the validation of the image: a segment's bytes are in
\* the file, and it has as many in memory at least.
LEMMA ValidSegments ==
    ASSUME NEW i, IsImage(i), Valid(i), NEW n \in 1..Len(i.segments)
    PROVE  /\ i.file # NoFile
           /\ i.segments[n].file_size <= i.segments[n].memory_size
           /\ RangeInside(i.segments[n].file_offset, i.segments[n].file_size,
                          i.file.size)
<1> DEFINE s == i.segments[n]
<1>1. i.file # NoFile
  BY DEF Valid, ValidationErrors
<1>2. SegmentErrors(i) = {}
  BY <1>1 DEF Valid, ValidationErrors
<1>3. ~ \E k \in 1..Len(i.segments) :
           \/ i.segments[k].file_size > i.segments[k].memory_size
           \/ ~RangeInside(i.segments[k].file_offset, i.segments[k].file_size,
                           i.file.size)
  BY <1>2 DEF SegmentErrors, Reported
<1>4. s.file_size \in Int /\ s.memory_size \in Int
  BY WordAssumption DEF IsImage, IsSegment, Word
<1> QED
  BY <1>1, <1>3, <1>4

\* The bytes of a segment in the file of a valid image.
LEMMA FileBytesOfSegment ==
    ASSUME NEW i, IsImage(i), Valid(i), NEW n \in 1..Len(i.segments)
    PROVE  FileBytes(i, i.segments[n]) \in Buffer(i.segments[n].file_size)
<1> DEFINE s == i.segments[n]
<1>1. /\ s.file_offset \in Nat /\ s.file_size \in Nat
  BY WordAssumption DEF IsImage, IsSegment, Word
<1>2. /\ i.file.size \in Nat /\ i.file.bytes \in [0..(i.file.size - 1) -> Byte]
      /\ RangeInside(s.file_offset, s.file_size, i.file.size)
  BY ValidSegments DEF IsImage, Buffer
<1>3. \A k \in 0..(s.file_size - 1) :
         s.file_offset + k \in 0..(i.file.size - 1)
  <2> DEFINE offset == s.file_offset
             size == s.file_size
             all == i.file.size
  <2>1. offset \in Nat /\ size \in Nat /\ all \in Nat
        /\ offset <= all /\ size <= all - offset
    BY <1>1, <1>2 DEF RangeInside
  <2> HIDE DEF offset, size, all
  <2>2. \A k \in 0..(size - 1) : offset + k \in 0..(all - 1)
    BY <2>1
  <2> QED
    BY <2>2 DEF offset, size, all
<1>4. \A k \in 0..(s.file_size - 1) : i.file.bytes[s.file_offset + k] \in Byte
  BY <1>2, <1>3
<1> HIDE DEF s
<1>5. FileBytes(i, s) \in [0..(s.file_size - 1) -> Byte]
  BY <1>4 DEF FileBytes
<1> QED
  BY <1>5 DEF Buffer, s

-----------------------------------------------------------------------------
(* The tables of the resolver.                                             *)

NameOf(e) == <<Exports[e].library, Exports[e].name>>
OrdinalOf(e) == <<Exports[e].library, Exports[e].ordinal>>
Named(S) == {e \in S : Exports[e].name # NoName}

\* The tables hold the accepted exports and nothing else.  That two of them
\* with the same key have the same address follows.
Hold(t, S) ==
    /\ S \subseteq DOMAIN Exports
    /\ DOMAIN t.named = {NameOf(e) : e \in Named(S)}
    /\ DOMAIN t.ordinal = {OrdinalOf(e) : e \in S}
    /\ \A e \in Named(S) : t.named[NameOf(e)] = Exports[e].address
    /\ \A e \in S : t.ordinal[OrdinalOf(e)] = Exports[e].address

\* A resolver without exports.
LEMMA NoTablesHoldNothing == Hold(NoTables, {})
BY DEF Hold, NoTables, Named

\* An export that is not a duplicate takes its entries and disturbs none.
LEMMA ExportsAreHeld ==
    ASSUME NEW t, NEW S, Hold(t, S), NEW e \in DOMAIN Exports,
           ~IsDuplicate(t, Exports[e].library, Exports[e])
    PROVE  Hold(WithExport(t, Exports[e].library, Exports[e]), S \cup {e})
<1> DEFINE new == WithExport(t, Exports[e].library, Exports[e])
           T == S \cup {e}
<1>1. OrdinalOf(e) \notin DOMAIN t.ordinal
  BY DEF IsDuplicate, OrdinalOf
<1>2. new.ordinal = Emplace(t.ordinal, OrdinalOf(e), Exports[e].address)
  BY DEF WithExport, OrdinalOf
<1>3. /\ DOMAIN new.ordinal = DOMAIN t.ordinal \cup {OrdinalOf(e)}
      /\ \A k \in DOMAIN t.ordinal : new.ordinal[k] = t.ordinal[k]
      /\ new.ordinal[OrdinalOf(e)] = Exports[e].address
  <2> HIDE DEF new
  <2> QED
    BY <1>1, <1>2 DEF Emplace
<1>4. /\ DOMAIN t.ordinal = {OrdinalOf(x) : x \in S}
      /\ \A x \in S : t.ordinal[OrdinalOf(x)] = Exports[x].address
  BY DEF Hold
<1>5. /\ DOMAIN t.named = {NameOf(x) : x \in Named(S)}
      /\ \A x \in Named(S) : t.named[NameOf(x)] = Exports[x].address
  BY DEF Hold
<1>6. CASE Exports[e].name = NoName
  <2>1. new.named = t.named /\ Named(T) = Named(S)
    BY <1>6 DEF WithExport, Named
  <2>2. Hold(new, T)
    <3> HIDE DEF new
    <3> QED
      BY <1>3, <1>4, <1>5, <2>1, ZenonT(40) DEF Hold
  <2> QED
    BY <2>2
<1>7. CASE Exports[e].name # NoName
  <2>1. NameOf(e) \notin DOMAIN t.named
    BY <1>7 DEF IsDuplicate, NameOf
  <2>2. new.named = Emplace(t.named, NameOf(e), Exports[e].address)
    BY <1>7 DEF WithExport, NameOf
  <2>3. /\ DOMAIN new.named = DOMAIN t.named \cup {NameOf(e)}
        /\ \A k \in DOMAIN t.named : new.named[k] = t.named[k]
        /\ new.named[NameOf(e)] = Exports[e].address
    <3> HIDE DEF new
    <3> QED
      BY <2>1, <2>2 DEF Emplace
  <2>4. Named(T) = Named(S) \cup {e}
    BY <1>7 DEF Named
  <2>5. Hold(new, T)
    <3> HIDE DEF new
    <3> QED
      <4>1. T \subseteq DOMAIN Exports
        BY DEF Hold
      <4>2. DOMAIN new.named = {NameOf(x) : x \in Named(T)}
        BY <1>5, <2>3, <2>4
      <4>3. DOMAIN new.ordinal = {OrdinalOf(x) : x \in T}
        BY <1>3, <1>4
      <4>4. \A x \in Named(T) : new.named[NameOf(x)] = Exports[x].address
        BY <1>5, <2>3, <2>4
      <4>5. \A x \in T : new.ordinal[OrdinalOf(x)] = Exports[x].address
        BY <1>3, <1>4
      <4> QED
        BY <4>1, <4>2, <4>3, <4>4, <4>5 DEF Hold
  <2> QED
    BY <2>5
<1> QED
  BY <1>6, <1>7

\* A lookup answers with the address of an accepted export.
LEMMA ResolvedIsWord ==
    ASSUME NEW t, NEW S, Hold(t, S), NEW library, NEW name, NEW ordinal,
           NEW v \in Resolve(t, library, name, ordinal)
    PROVE  v \in Word
<1>1. \A e \in S : Exports[e].address \in Word
  BY DEF Hold
<1>2. CASE name # NoName /\ <<library, name>> \in DOMAIN t.named
  <2>1. v = t.named[<<library, name>>]
    BY <1>2 DEF Resolve
  <2>2. PICK e \in Named(S) : <<library, name>> = NameOf(e)
    BY <1>2 DEF Hold
  <2> QED
    BY <1>1, <2>1, <2>2 DEF Hold, Named
<1>3. CASE ~(name # NoName /\ <<library, name>> \in DOMAIN t.named)
  <2>1. v = t.ordinal[<<library, ordinal>>] /\ <<library, ordinal>> \in DOMAIN t.ordinal
    BY <1>3 DEF Resolve
  <2>2. PICK e \in S : <<library, ordinal>> = OrdinalOf(e)
    BY <2>1 DEF Hold
  <2> QED
    BY <1>1, <2>1, <2>2 DEF Hold
<1> QED
  BY <1>2, <1>3

\* A lookup finds exactly the accepted exports of the name, or else of the
\* ordinal.
LEMMA LookupFindsHeld ==
    ASSUME NEW t, NEW S, Hold(t, S), NEW library, NEW name, NEW ordinal
    PROVE  LET here    == {e \in S : Exports[e].library = library}
               byName  == {e \in here : Exports[e].name = name /\ name # NoName}
               matches == IF byName # {} THEN byName
                          ELSE {e \in here : Exports[e].ordinal = ordinal}
           IN  Resolve(t, library, name, ordinal) = {Exports[e].address : e \in matches}
<1> DEFINE here    == {e \in S : Exports[e].library = library}
           byName  == {e \in here : Exports[e].name = name /\ name # NoName}
           byOrdinal == {e \in here : Exports[e].ordinal = ordinal}
<1>1. \A e \in byName : e \in Named(S) /\ NameOf(e) = <<library, name>>
  BY DEF Named, NameOf
<1>2. \A e \in Named(S) : NameOf(e) = <<library, name>> => e \in byName
  BY DEF Named, NameOf
<1>3. \A e \in byOrdinal : e \in S /\ OrdinalOf(e) = <<library, ordinal>>
  BY DEF OrdinalOf
<1>4. \A e \in S : OrdinalOf(e) = <<library, ordinal>> => e \in byOrdinal
  BY DEF OrdinalOf
<1>5. CASE byName # {}
  <2> HIDE DEF byName
  <2>1. name # NoName /\ <<library, name>> \in DOMAIN t.named
    <3>1. PICK e \in byName : TRUE
      BY <1>5
    <3> QED
      BY <1>1, <3>1 DEF Hold, byName
  <2>2. Resolve(t, library, name, ordinal) = {t.named[<<library, name>>]}
    BY <2>1 DEF Resolve
  <2>3. \A e \in byName : Exports[e].address = t.named[<<library, name>>]
    BY <1>1 DEF Hold
  <2>4. Resolve(t, library, name, ordinal) = {Exports[e].address : e \in byName}
    BY <1>5, <2>2, <2>3
  <2> QED
    BY <1>5, <2>4 DEF byName
<1>6. CASE byName = {}
  <2>1. ~(name # NoName /\ <<library, name>> \in DOMAIN t.named)
    <3>1. ASSUME name # NoName, <<library, name>> \in DOMAIN t.named PROVE FALSE
      <4>1. PICK e \in Named(S) : <<library, name>> = NameOf(e)
        BY <3>1 DEF Hold
      <4> QED
        BY <1>2, <1>6, <4>1
    <3> QED
      BY <3>1
  <2> HIDE DEF byName, byOrdinal
  <2>2. Resolve(t, library, name, ordinal) =
          IF <<library, ordinal>> \in DOMAIN t.ordinal
          THEN {t.ordinal[<<library, ordinal>>]} ELSE {}
    BY <2>1 DEF Resolve
  <2>3. \A e \in byOrdinal : /\ Exports[e].address = t.ordinal[<<library, ordinal>>]
                             /\ <<library, ordinal>> \in DOMAIN t.ordinal
    BY <1>3 DEF Hold
  <2>4. <<library, ordinal>> \in DOMAIN t.ordinal => byOrdinal # {}
    BY <1>4 DEF Hold
  <2>5. Resolve(t, library, name, ordinal) = {Exports[e].address : e \in byOrdinal}
    BY <2>2, <2>3, <2>4
  <2> QED
    BY <1>6, <2>5 DEF byName, byOrdinal
<1> QED
  BY <1>5, <1>6

-----------------------------------------------------------------------------
(* A segment is mapped.                                                    *)

\* A successful turn of the segment loop maps pages that were free, copies the
\* file bytes to the address of the segment, leaves zeros around them and
\* touches nothing else.
LEMMA SegmentIsPlaced ==
    ASSUME NEW rs, NEW mapped, Sound(rs, mapped, MappedLimit),
           NEW base \in Word, NEW span \in Word, NEW perms \in SUBSET Permission,
           MapError(rs, mapped, MappedLimit, base, span) = "none",
           NEW address \in Word, NEW size \in Word, base <= address,
           (address - base) + size <= span,
           NEW count \in Word, count <= size, NEW data \in Buffer(count)
    PROVE  LET new == Written(Mapped(rs, base, span, perms), address, data, count)
           IN  /\ Sound(new, mapped + span, MappedLimit)
               /\ Kept(rs, new, {})
               /\ \A k \in 0..(size - 1) :
                     /\ address + k \in MappedAddresses(new)
                     /\ ByteAt(new, address + k) = IF k < count THEN data[k] ELSE 0
<1> DEFINE fresh == Mapped(rs, base, span, perms)
           new == Written(fresh, address, data, count)
           cells == address..(address + count - 1)
<1>1. /\ base \in Nat /\ span \in Nat /\ address \in Nat /\ size \in Nat
      /\ count \in Nat /\ MaxWord \in Nat
  BY WordAssumption DEF Word
<1>2. Tidy(rs) /\ mapped \in Word
  <2>1. Tidy(rs)
    BY DEF Sound, Tidy
  <2>2. mapped \in Nat
    BY <2>1, MappedIsFinite DEF Sound, Tidy
  <2> QED
    BY <2>1, <2>2, WordAssumption DEF Sound, Word
<1>3. Sound(fresh, mapped + span, MappedLimit)
  BY MapKeepsSound
<1>4. MapAllowed(rs, base, span)
  BY <1>2, MapErrorNone
<1>5. Tidy(fresh)
  BY <1>3 DEF Sound, Tidy
<1>6. /\ base \in DOMAIN fresh
      /\ fresh[base].size = span
      /\ \A i \in 0..(span - 1) : fresh[base].bytes[i] = 0
      /\ \A b \in DOMAIN rs : b # base => b \in DOMAIN fresh /\ fresh[b] = rs[b]
  BY DEF Mapped, NewRegion
<1>7. MappedAddresses(rs) \cap (base..(base + span - 1)) = {}
  BY <1>2, <1>4, MapKeepsRegions DEF Tidy
<1>8. \A b \in DOMAIN rs : b # base
  BY <1>2, <1>4, NeighboursSuffice DEF Tidy
<1>9. Kept(rs, fresh, cells)
  <2> HIDE DEF fresh, cells
  <2> QED
    BY <1>6, <1>8 DEF Kept
<1>10. /\ Tidy(new) /\ SameShape(fresh, new) /\ Kept(fresh, new, cells)
  <2> HIDE DEF fresh
  <2> QED
    BY <1>5, WriteKeeps
<1>11. Sound(new, mapped + span, MappedLimit)
  <2> HIDE DEF fresh, new
  <2> QED
    BY <1>3, <1>10, ShapeKeepsSound DEF Tidy
<1>12. Kept(rs, new, {})
  <2>1. cells \cap MappedAddresses(rs) = {}
    <3>1. cells \subseteq base..(base + span - 1)
      BY <1>1
    <3> QED
      BY <1>7, <3>1
  <2> HIDE DEF fresh, new, cells
  <2>2. Kept(rs, new, cells)
    BY <1>9, <1>10, KeptTwice
  <2> QED
    BY <1>2, <2>1, <2>2, KeptApart DEF Tidy
<1>13. ASSUME NEW k \in 0..(size - 1)
       PROVE  /\ address + k \in MappedAddresses(new)
              /\ ByteAt(new, address + k) = IF k < count THEN data[k] ELSE 0
  <2> DEFINE i == (address + k) - base
             start == address - base
  <2>1. /\ i \in 0..(span - 1) /\ i \in Nat
        /\ address + k \in base..(base + span - 1)
        /\ start <= i /\ (i < start + count <=> k < count) /\ i - start = k
    BY <1>1
  <2>2. base \in DOMAIN new /\ new[base].size = span
    BY <1>6, <1>10 DEF SameShape
  <2>3. address + k \in Cells(new, base)
    BY <2>1, <2>2 DEF Cells
  <2>4. address + k \in MappedAddresses(new)
    BY <2>2, <2>3 DEF MappedAddresses
  <2>5. ByteAt(new, address + k) = new[base].bytes[i]
    <3> HIDE DEF new
    <3> QED
      BY <1>10, <2>2, <2>3, ByteOfRegion
  <2>6. new[base].bytes[i] =
          IF /\ base \in Target(fresh, address, count)
             /\ start <= i /\ i < start + count
          THEN data[i - start] ELSE fresh[base].bytes[i]
    <3>1. i \in 0..(fresh[base].size - 1)
      BY <1>6, <2>1
    <3> HIDE DEF fresh, i
    <3> QED
      BY <1>5, <1>6, <3>1, WrittenByte DEF Tidy
  <2>7. k < count => base \in Target(fresh, address, count)
    <3> HIDE DEF fresh
    <3>1. ASSUME k < count PROVE Contains(fresh, base, address, count) /\ count # 0
      BY <1>1, <1>6, <3>1 DEF Contains, RangeInside
    <3> QED
      BY <1>5, <1>6, <3>1, TargetHere
  <2>8. fresh[base].bytes[i] = 0
    BY <1>6, <2>1
  <2> HIDE DEF fresh, new, i, start
  <2> QED
    BY <2>1, <2>4, <2>5, <2>6, <2>7, <2>8
<1> HIDE DEF fresh, new
<1> QED
  BY <1>11, <1>12, <1>13 DEF fresh, new

-----------------------------------------------------------------------------
(* The invariant.                                                          *)

Results == [loaded : BOOLEAN, load_base : Word, entry_point : Word,
            mapped_bytes : Nat, relocations_applied : Nat,
            imports_resolved : Nat]

\* A load that runs has a valid image and no result yet; a loop that is left
\* out starts behind its last element.
ControlOK ==
    /\ pc \in {"idle", "mapping", "relocating", "importing"}
    /\ call \in DOMAIN Calls
    /\ index \in Nat \ {0}
    /\ result \in Results
    /\ pc # "idle" => Valid(image) /\ ~result.loaded
    /\ pc = "relocating" =>
          /\ index <= Len(image.relocations) + 1
          /\ ~options.apply_relocations => index = Len(image.relocations) + 1
    /\ pc = "importing" =>
          /\ index <= Len(image.imports) + 1
          /\ ~options.resolve_imports => index = Len(image.imports) + 1

MemoryOK ==
    /\ Sound(regions, mapped_bytes, MappedLimit)
    /\ Sound(before[1], before[2], MappedLimit)
    /\ Kept(before[1], regions, Touched)

\* The segments that are mapped.
Placed(n) == \/ pc = "mapping" /\ n < index
             \/ pc \in {"relocating", "importing"}
             \/ result.loaded

SegmentsOK ==
    \A n \in 1..Len(image.segments) :
        Placed(n) => SegmentInPlace(image.segments[n])

EntryOK == result.loaded /\ EntryIsBiased =>
              result.entry_point = image.entry_point + TheBias

\* The number of words that are written.
Done ==
    IF pc = "relocating" THEN IF options.apply_relocations THEN index - 1 ELSE 0
    ELSE IF pc = "importing"
         THEN IF options.resolve_imports
              THEN Len(RelocationWords) + (index - 1) ELSE Len(RelocationWords)
    ELSE IF result.loaded THEN Len(Words) ELSE 0

\* The value of a word that is written, as a set of at most one.
Value(n) ==
    IF n <= Len(RelocationWords)
    THEN {v \in {Patch(image, image.relocations[n], TheBias).value} :
            Words[n].width # 0}
    ELSE ImportTarget(ImportNumber(n))

\* The memory holds the digits of the value where the word is.
Stored(rs, word, order, value) ==
    /\ value \in Word
    /\ word.width \in Width
    /\ \A i \in 0..(word.width - 1) :
          /\ word.at + i \in MappedAddresses(rs)
          /\ ByteAt(rs, word.at + i) = Digits(value, word.width, order)[i]

\* A relocation is not truncated.
Fits(n, value) == n <= Len(RelocationWords) => ~DoesNotFit(value, Words[n].width)

WordHolds(n) ==
    \A v \in Value(n) : Stored(regions, Words[n], image.byte_order, v) /\ Fits(n, v)

\* A word reads back until a later one covers it.
WordsOK ==
    \A n \in 1..Done :
        (\A m \in (n + 1)..Done : Span(Words[m]) \cap Span(Words[n]) = {})
            => WordHolds(n)

ExportsOK == Hold(tables, accepted)

LoaderInv ==
    ControlOK /\ MemoryOK /\ SegmentsOK /\ EntryOK /\ WordsOK /\ ExportsOK

-----------------------------------------------------------------------------
(* What the arguments of a load say.                                       *)

\* The image, the options and the bias of a call.
LEMMA CallIsTyped ==
    ASSUME call \in DOMAIN Calls
    PROVE  IsImage(image) /\ TheBias \in Word
BY BiasIsWord DEF image, options, TheBias

\* During a load nothing changes what the load writes where.
LEMMA SameArguments ==
    ASSUME call' = call, tables' = tables
    PROVE  /\ image' = image /\ options' = options /\ TheBias' = TheBias
           /\ resolver' = resolver
           /\ Words' = Words /\ Touched' = Touched
           /\ RelocationWords' = RelocationWords
           /\ \A n : Value(n)' = Value(n)
           /\ \A n, v : Fits(n, v)' <=> Fits(n, v)
           /\ EntryIsBiased' <=> EntryIsBiased
<1>1. image' = image /\ options' = options
  BY DEF image, options
<1>2. TheBias' = TheBias
  BY <1>1 DEF TheBias
<1>3. resolver' = resolver
  BY DEF resolver
<1>4. \A import : ImportTarget(import)' = ImportTarget(import)
  BY <1>3 DEF ImportTarget
<1>5. RelocationWords' = RelocationWords
  BY <1>1, <1>2 DEF RelocationWords
<1>6. ImportWords' = ImportWords
  BY <1>1, <1>2, <1>4 DEF ImportWords
<1>7. Words' = Words
  BY <1>5, <1>6 DEF Words
<1>8. Touched' = Touched
  BY <1>7 DEF Touched
<1>9. \A i, rel, bias : Patch(i, rel, bias)' = Patch(i, rel, bias)
  BY <1>3 DEF Patch, SymbolValue, IsImported
<1>10. \A n : Value(n)' = Value(n)
  BY <1>1, <1>2, <1>4, <1>5, <1>7, <1>9 DEF Value, ImportNumber
<1>11. \A n, v : Fits(n, v)' <=> Fits(n, v)
  BY <1>5, <1>7 DEF Fits
<1>12. EntryIsBiased' <=> EntryIsBiased
  BY <1>1 DEF EntryIsBiased
<1> QED
  BY <1>1, <1>2, <1>3, <1>5, <1>7, <1>8, <1>10, <1>11, <1>12

\* The words of a load, by number: the relocations come first.
LEMMA WordsOfCall ==
    ASSUME call \in DOMAIN Calls
    PROVE  LET R == Len(RelocationWords)
               M == Len(ImportWords)
           IN  /\ R = IF options.apply_relocations THEN Len(image.relocations) ELSE 0
               /\ M = IF options.resolve_imports THEN Len(image.imports) ELSE 0
               /\ R \in Nat /\ M \in Nat /\ Len(Words) = R + M
               /\ \A n \in 1..R :
                     Words[n] = [at |-> image.relocations[n].offset + TheBias,
                                 width |-> IF image.relocations[n].kind = "none" THEN 0
                                           ELSE RelocationWidth(image.relocations[n])]
               /\ \A n \in 1..M :
                     Words[R + n] =
                       [at |-> image.imports[n].slot_address + TheBias,
                        width |-> IF ImportTarget(image.imports[n]) = {} THEN 0
                                  ELSE image.word_size]
               /\ \A n \in 1..(R + M) : Words[n].at \in Int
<1> DEFINE rw(n) == [at |-> image.relocations[n].offset + TheBias,
                     width |-> IF image.relocations[n].kind = "none" THEN 0
                               ELSE RelocationWidth(image.relocations[n])]
           iw(n) == [at |-> image.imports[n].slot_address + TheBias,
                     width |-> IF ImportTarget(image.imports[n]) = {} THEN 0
                               ELSE image.word_size]
           r == IF options.apply_relocations THEN Len(image.relocations) ELSE 0
           m == IF options.resolve_imports THEN Len(image.imports) ELSE 0
           rs == [n \in 1..r |-> rw(n)]
           is == [n \in 1..m |-> iw(n)]
           S == {rw(n) : n \in 1..r} \cup {iw(n) : n \in 1..m}
<1>1. IsImage(image) /\ TheBias \in Word
  BY CallIsTyped
<1>2. r \in Nat /\ m \in Nat
  BY <1>1 DEF IsImage, IsVector
<1>3. rs \in Seq(S) /\ Len(rs) = r /\ is \in Seq(S) /\ Len(is) = m
  <2> HIDE DEF r, m, rw, iw
  <2> QED
    BY <1>2
<1>4. RelocationWords = rs
  <2>1. CASE options.apply_relocations
    BY <2>1 DEF RelocationWords
  <2>2. CASE ~options.apply_relocations
    BY <2>2 DEF RelocationWords
  <2> QED
    BY <2>1, <2>2
<1>5. ImportWords = is
  <2>1. CASE options.resolve_imports
    BY <2>1 DEF ImportWords
  <2>2. CASE ~options.resolve_imports
    BY <2>2 DEF ImportWords
  <2> QED
    BY <2>1, <2>2
<1>6. /\ \A n \in 1..r : image.relocations[n].offset + TheBias \in Int
      /\ \A n \in 1..m : image.imports[n].slot_address + TheBias \in Int
  BY <1>1, WordAssumption DEF IsImage, Word
<1>7. /\ \A n \in 1..r : rw(n).at \in Int
      /\ \A n \in 1..m : iw(n).at \in Int
  BY <1>6
<1>8. /\ \A n \in 1..r : rs[n] = rw(n)
      /\ \A n \in 1..m : is[n] = iw(n)
  OBVIOUS
<1> HIDE DEF rw, iw, rs, is, r, m, S
<1>9. Words = rs \o is
  BY <1>4, <1>5 DEF Words
<1>10. /\ Len(Words) = r + m
       /\ \A n \in 1..(r + m) : Words[n] = IF n <= r THEN rs[n] ELSE is[n - r]
  BY <1>3, <1>9, ConcatProperties
<1>11. \A n \in 1..r : Words[n] = rw(n)
  BY <1>2, <1>8, <1>10
<1>12. \A n \in 1..m : Words[r + n] = iw(n)
  <2> TAKE n \in 1..m
  <2>1. r + n \in 1..(r + m) /\ ~(r + n <= r) /\ (r + n) - r = n
    BY <1>2
  <2> QED
    BY <1>8, <1>10, <2>1
<1>13. \A n \in 1..(r + m) : Words[n].at \in Int
  <2> TAKE n \in 1..(r + m)
  <2>1. CASE n <= r
    BY <1>2, <1>7, <1>11, <2>1
  <2>2. CASE ~(n <= r)
    <3>1. n - r \in 1..m /\ r + (n - r) = n
      BY <1>2, <2>2
    <3> QED
      BY <1>7, <1>12, <3>1
  <2> QED
    BY <2>1, <2>2
<1>14. Len(RelocationWords) = r /\ Len(ImportWords) = m
  BY <1>3, <1>4, <1>5
<1> QED
  BY <1>2, <1>10, <1>11, <1>12, <1>13, <1>14 DEF r, m, rw, iw

\* A segment stays in place when only words are written.
LEMMA SegmentStays ==
    ASSUME call' = call, tables' = tables, Tidy(regions), Tidy(regions'),
           Kept(regions, regions', Touched), NEW s, SegmentInPlace(s)
    PROVE  SegmentInPlace(s)'
<1>1. image' = image /\ TheBias' = TheBias /\ Touched' = Touched
  BY SameArguments
<1> DEFINE old == regions
           new == regions'
           S == Touched
<1>2. \A a \in MappedAddresses(old) :
         /\ a \in MappedAddresses(new)
         /\ a \notin S => ByteAt(new, a) = ByteAt(old, a)
  <2> HIDE DEF old, new, S
  <2> QED
    BY KeptByte DEF old, new, S
<1> QED
  BY <1>1, <1>2 DEF SegmentInPlace

\* A stored value stays where it is when nothing of the word is written.
LEMMA StoredStays ==
    ASSUME NEW old, NEW new, Tidy(old), Tidy(new), NEW S, Kept(old, new, S),
           NEW word, word.at \in Int, S \cap Span(word) = {},
           NEW order, NEW v, Stored(old, word, order, v)
    PROVE  Stored(new, word, order, v)
<1> SUFFICES ASSUME NEW i \in 0..(word.width - 1)
             PROVE  /\ word.at + i \in MappedAddresses(new)
                    /\ ByteAt(new, word.at + i) = Digits(v, word.width, order)[i]
  BY DEF Stored
<1>1. word.width \in Int
  BY DEF Stored, Width
<1>2. word.at + i \in Span(word)
  BY <1>1 DEF Span
<1>3. /\ word.at + i \in MappedAddresses(old)
      /\ ByteAt(old, word.at + i) = Digits(v, word.width, order)[i]
  BY DEF Stored
<1> QED
  BY <1>2, <1>3, KeptByte

\* write_integer stores its value and writes nothing else.
LEMMA IntegerIsStored ==
    ASSUME NEW rs, Tidy(rs), NEW word, word.at \in Word, NEW order,
           NEW value \in Word, IntegerError(rs, word.at, word.width) = "none"
    PROVE  LET new == WithInteger(rs, word.at, word.width, order, value)
           IN  /\ Tidy(new)
               /\ SameShape(rs, new)
               /\ Kept(rs, new, Span(word))
               /\ Stored(new, word, order, value)
<1> DEFINE at == word.at
           width == word.width
           data == Digits(value, width, order)
           new == Written(rs, at, data, width)
<1>1. width \in Width
  BY DEF IntegerError
<1>2. width \in Nat /\ width > 0 /\ at \in Nat /\ MaxWord \in Nat
  BY <1>1, WordAssumption DEF Width, Word
<1>3. Target(rs, at, width) # {}
  BY <1>1, <1>2 DEF IntegerError, WriteError
<1>4. PICK b \in Target(rs, at, width) : TRUE
  BY <1>3
<1>5. b \in DOMAIN rs /\ Contains(rs, b, at, width)
  BY <1>4 DEF Target, RegionAt
<1>6. b \in Nat /\ rs[b].size \in Nat /\ rs[b].size <= MaxWord
  BY <1>5, WordAssumption DEF Tidy, IsRegions, IsRegion, Word
<1>7. b <= at /\ (at - b) + width <= rs[b].size
  BY <1>2, <1>5, <1>6 DEF Contains, RangeInside
<1>8. width \in Word
  BY <1>2, <1>6, <1>7 DEF Word
<1>9. data \in Buffer(width)
  BY <1>1, DigitsAreBytes
<1>10. /\ Tidy(new) /\ SameShape(rs, new)
       /\ Kept(rs, new, at..(at + width - 1))
  <2> HIDE DEF data, width, at
  <2> QED
    BY <1>8, <1>9, WriteKeeps DEF at
<1>11. Kept(rs, new, Span(word))
  BY <1>10 DEF Span
<1>12. b \in DOMAIN new /\ new[b].size = rs[b].size
  BY <1>5, <1>10 DEF SameShape
<1>13. ASSUME NEW i \in 0..(width - 1)
       PROVE  /\ at + i \in MappedAddresses(new)
              /\ ByteAt(new, at + i) = data[i]
  <2> DEFINE j == (at + i) - b
             start == at - b
  <2>1. /\ j \in 0..(rs[b].size - 1) /\ start <= j /\ j < start + width
        /\ j - start = i /\ at + i \in b..(b + rs[b].size - 1)
    BY <1>2, <1>6, <1>7
  <2>2. at + i \in Cells(new, b)
    BY <1>12, <2>1 DEF Cells
  <2>3. at + i \in MappedAddresses(new)
    BY <1>12, <2>2 DEF MappedAddresses
  <2>4. ByteAt(new, at + i) = new[b].bytes[j]
    <3> HIDE DEF new, at
    <3> QED
      BY <1>10, <1>12, <2>2, ByteOfRegion
  <2>5. new[b].bytes[j] =
          IF b \in Target(rs, at, width) /\ start <= j /\ j < start + width
          THEN data[j - start] ELSE rs[b].bytes[j]
    <3> HIDE DEF data, width, at, j
    <3> QED
      BY <1>5, <2>1, WrittenByte DEF Tidy
  <2> HIDE DEF new, data, width, at, j, start
  <2> QED
    BY <1>4, <2>1, <2>3, <2>4, <2>5
<1>14. Stored(new, word, order, value)
  <2> HIDE DEF new
  <2> QED
    BY <1>1, <1>13 DEF Stored
<1>15. WithInteger(rs, word.at, word.width, order, value) = new
  BY DEF WithInteger
<1> HIDE DEF new
<1> QED
  BY <1>10, <1>11, <1>14, <1>15

\* The value of a relocation is a word: additions wrap, and a shift or a mask
\* makes a number no larger.
LEMMA RelocationValueIsWord ==
    ASSUME NEW rel, rel.kind \in Supported, rel.addend \in Int,
           NEW symbol_value \in Word, NEW target \in Word, NEW bias \in Word
    PROVE  RelocationValue(rel, symbol_value, target, bias) \in Word
<1> DEFINE sum == Wrap(symbol_value + rel.addend)
           value == RelocationValue(rel, symbol_value, target, bias)
           k == rel.kind
<1>1. /\ symbol_value + rel.addend \in Int
      /\ symbol_value + rel.addend - target \in Int
      /\ bias + rel.addend \in Int
  BY WordAssumption DEF Word
<1>2. /\ sum \in Word
      /\ Wrap(symbol_value + rel.addend - target) \in Word
      /\ Wrap(bias + rel.addend) \in Word
  BY <1>1, WrapIsWord
<1>3. sum \div Radix^2 \in Word /\ sum % Radix^2 \in Word
  <2> DEFINE d == Radix^2
  <2>1. d \in Nat /\ d > 0
    BY PowerAssumption
  <2>2. sum \in Nat /\ sum <= MaxWord /\ MaxWord \in Nat
    BY <1>2, WordAssumption DEF Word
  <2> HIDE DEF d, sum
  <2>3. /\ sum \div d \in Nat /\ sum % d \in Nat
        /\ sum = d * (sum \div d) + (sum % d)
    BY <2>1, <2>2, DivisionIsExact
  <2>4. sum \div d <= sum /\ sum % d <= sum
    <3> DEFINE q == sum \div d
               r == sum % d
    <3>1. q \in Nat /\ r \in Nat /\ sum = d * q + r
      BY <2>3
    <3> HIDE DEF q, r
    <3>2. d * q >= q /\ d * q \in Nat
      BY <2>1, <3>1
    <3>3. q <= sum /\ r <= sum
      BY <2>2, <3>1, <3>2
    <3> QED
      BY <3>3 DEF q, r
  <2> QED
    BY <2>2, <2>3, <2>4 DEF Word, d
<1>4. value = CASE k \in {"relative32", "relative64"} -> Wrap(bias + rel.addend)
                [] k = "pc_relative32" -> Wrap(symbol_value + rel.addend - target)
                [] k \in {"absolute32", "absolute64"} -> sum
                [] k = "high16" -> sum \div Radix^2
                [] k = "low16" -> sum % Radix^2
  BY DEF RelocationValue
<1>5. /\ k \in {"relative32", "relative64"} =>
            /\ k # "pc_relative32" /\ k \notin {"absolute32", "absolute64"}
            /\ k # "high16" /\ k # "low16"
      /\ k = "pc_relative32" =>
            /\ k \notin {"relative32", "relative64"}
            /\ k \notin {"absolute32", "absolute64"}
            /\ k # "high16" /\ k # "low16"
      /\ k \in {"absolute32", "absolute64"} =>
            /\ k \notin {"relative32", "relative64"} /\ k # "pc_relative32"
            /\ k # "high16" /\ k # "low16"
      /\ k = "high16" =>
            /\ k \notin {"relative32", "relative64"} /\ k # "pc_relative32"
            /\ k \notin {"absolute32", "absolute64"} /\ k # "low16"
      /\ k = "low16" =>
            /\ k \notin {"relative32", "relative64"} /\ k # "pc_relative32"
            /\ k \notin {"absolute32", "absolute64"} /\ k # "high16"
  OBVIOUS
<1>6. \/ k \in {"relative32", "relative64"} \/ k = "pc_relative32"
      \/ k \in {"absolute32", "absolute64"} \/ k = "high16" \/ k = "low16"
  BY DEF Supported
<1> HIDE DEF value, sum, k
<1>7. CASE k \in {"relative32", "relative64"}
  BY <1>2, <1>4, <1>5, <1>7, Zenon DEF value
<1>8. CASE k = "pc_relative32"
  BY <1>2, <1>4, <1>5, <1>8, Zenon DEF value
<1>9. CASE k \in {"absolute32", "absolute64"}
  BY <1>2, <1>4, <1>5, <1>9, Zenon DEF value
<1>10. CASE k = "high16"
  BY <1>3, <1>4, <1>5, <1>10, Zenon DEF value
<1>11. CASE k = "low16"
  BY <1>3, <1>4, <1>5, <1>11, Zenon DEF value
<1> QED
  BY <1>6, <1>7, <1>8, <1>9, <1>10, <1>11 DEF value

\* The value of a symbol is a word: an address the resolver was given, or a sum
\* that was checked.
LEMMA SymbolValueIsWord ==
    ASSUME call \in DOMAIN Calls, ExportsOK, NEW n \in 1..Len(image.relocations),
           SymbolError(image, image.relocations[n], TheBias) = "none"
    PROVE  LET S == SymbolValue(image, image.relocations[n], TheBias)
           IN  S # {} /\ S \subseteq Word
<1> DEFINE rel == image.relocations[n]
           number == rel.symbol_index
           symbol == SymbolAt(image, number)
           S == SymbolValue(image, rel, TheBias)
<1>1. IsImage(image) /\ TheBias \in Word /\ number \in Nat
  BY CallIsTyped DEF IsImage
<1>2. S # {}
  BY DEF SymbolError
<1>3. CASE number = 0
  <2>1. S = {0}
    BY <1>3 DEF SymbolValue
  <2> QED
    BY <1>2, <2>1, WordAssumption DEF Word
<1>4. CASE number # 0 /\ IsImported(image, rel)
  <2>1. S = UNION {Resolve(t, symbol.library, symbol.name, 0) : t \in resolver}
    BY <1>4 DEF SymbolValue
  <2>2. \A t \in resolver : t = tables
    BY DEF resolver
  <2> HIDE DEF S
  <2>3. \A v \in S : v \in Resolve(tables, symbol.library, symbol.name, 0)
    BY <2>1, <2>2
  <2> HIDE DEF symbol
  <2>4. \A v \in S : v \in Word
    BY <2>3, ResolvedIsWord DEF ExportsOK
  <2> QED
    BY <1>2, <2>4 DEF S
<1>5. CASE number # 0 /\ ~IsImported(image, rel)
  <2>1. S = {v \in {symbol.value + TheBias} : AddFits(symbol.value, TheBias)}
    BY <1>5 DEF SymbolValue
  <2>2. HasSymbol(image, number)
    BY <1>5 DEF SymbolError
  <2>3. Len(image.symbols) \in Nat
    BY <1>1 DEF IsImage, IsVector
  <2>4. number + 1 \in 1..Len(image.symbols)
    BY <1>1, <2>2, <2>3 DEF HasSymbol
  <2>5. symbol.value \in Word
    BY <1>1, <2>4 DEF IsImage, SymbolAt
  <2> HIDE DEF S, symbol
  <2>6. \A v \in S : v \in Word
    BY <1>1, <2>1, <2>5, WordAssumption DEF AddFits, Word
  <2> QED
    BY <1>2, <2>6 DEF S
<1> QED
  BY <1>3, <1>4, <1>5

\* What apply_one writes when it does not fail.
LEMMA RelocationIsChecked ==
    ASSUME call \in DOMAIN Calls, ExportsOK, NEW n \in 1..Len(image.relocations),
           RelocationError(regions, image, image.relocations[n], TheBias) = "none",
           image.relocations[n].kind # "none"
    PROVE  LET rel == image.relocations[n]
               p == Patch(image, rel, TheBias)
           IN  /\ p.address = rel.offset + TheBias /\ p.address \in Word
               /\ p.width = RelocationWidth(rel)
               /\ p.value \in Word
               /\ ~DoesNotFit(p.value, p.width)
               /\ IntegerError(regions, p.address, p.width) = "none"
<1> DEFINE rel == image.relocations[n]
           p == Patch(image, rel, TheBias)
           S == SymbolValue(image, rel, TheBias)
           symbol_value == CHOOSE v \in S : TRUE
<1>1. /\ IsImage(image) /\ TheBias \in Word
      /\ rel.offset \in Word /\ rel.addend \in Int
  BY CallIsTyped DEF IsImage
<1>2. /\ AddFits(rel.offset, TheBias)
      /\ SymbolError(image, rel, TheBias) = "none"
      /\ rel.kind \in Supported
      /\ ~DoesNotFit(p.value, p.width)
      /\ IntegerError(regions, p.address, p.width) = "none"
  BY DEF RelocationError
<1>3. /\ p.address = rel.offset + TheBias
      /\ p.width = RelocationWidth(rel)
      /\ p.value = RelocationValue(rel, symbol_value, p.address, TheBias)
  BY DEF Patch
<1>4. p.address \in Word
  BY <1>1, <1>2, <1>3, WordAssumption DEF AddFits, Word
<1>5. S # {} /\ S \subseteq Word
  BY <1>2, SymbolValueIsWord
<1>6. symbol_value \in Word
  <2> HIDE DEF S
  <2> QED
    BY <1>5
<1>7. p.value \in Word
  <2> HIDE DEF p, symbol_value, rel
  <2> QED
    BY <1>1, <1>2, <1>3, <1>4, <1>6, RelocationValueIsWord
<1> QED
  BY <1>2, <1>3, <1>4, <1>7

\* A step that writes the next word, or leaves an empty one out, keeps the
\* invariant of the memory, of the segments and of the words.
LEMMA WordIsWritten ==
    ASSUME LoaderInv, pc \in {"relocating", "importing"},
           call' = call, tables' = tables, before' = before,
           mapped_bytes' = mapped_bytes,
           NEW d \in Nat, Done = d, d + 1 <= Len(Words), Done' = d + 1,
           Tidy(regions'), SameShape(regions, regions'),
           Kept(regions, regions', Span(Words[d + 1])),
           WordHolds(d + 1)'
    PROVE  MemoryOK' /\ SegmentsOK' /\ WordsOK'
<1> DEFINE old == regions
           new == regions'
           span == Span(Words[d + 1])
<1>1. call \in DOMAIN Calls /\ Tidy(old)
  BY DEF LoaderInv, ControlOK, MemoryOK, Sound, Tidy
<1>2. /\ image' = image /\ Words' = Words /\ Touched' = Touched
      /\ \A n : Value(n)' = Value(n)
      /\ \A n, v : Fits(n, v)' <=> Fits(n, v)
  BY SameArguments
<1>3. /\ Len(Words) \in Nat
      /\ \A n \in 1..Len(Words) : Words[n].at \in Int
  BY <1>1, WordsOfCall
<1>4. d + 1 \in 1..Len(Words)
  BY <1>3
<1>5. span \subseteq Touched
  BY <1>4 DEF Touched
<1>6. Kept(old, new, Touched)
  <2> HIDE DEF old, new, span
  <2> QED
    BY <1>5, KeptMore DEF old, new, span
<1>7. MemoryOK'
  <2>1. Sound(new, mapped_bytes, MappedLimit)
    <3>1. Sound(old, mapped_bytes, MappedLimit) /\ SameShape(old, new) /\ IsRegions(new)
      BY DEF LoaderInv, MemoryOK, Tidy
    <3> HIDE DEF old, new
    <3> QED
      BY <3>1, ShapeKeepsSound
  <2>2. Kept(before[1], new, Touched)
    <3>1. Kept(before[1], old, Touched)
      BY DEF LoaderInv, MemoryOK
    <3> HIDE DEF old, new
    <3> QED
      BY <1>6, <3>1, KeptTwice
  <2> QED
    BY <1>2, <2>1, <2>2 DEF LoaderInv, MemoryOK
<1>8. SegmentsOK'
  <2> SUFFICES ASSUME NEW n \in 1..Len(image.segments)
               PROVE  SegmentInPlace(image.segments[n])'
    BY <1>2 DEF SegmentsOK
  <2> DEFINE s == image.segments[n]
  <2>1. SegmentInPlace(s)
    BY DEF LoaderInv, SegmentsOK, Placed
  <2>2. \A x : SegmentInPlace(x) => SegmentInPlace(x)'
    BY <1>1, <1>6, SegmentStays
  <2> QED
    BY <1>2, <2>1, <2>2
<1>9. WordsOK'
  <2> SUFFICES ASSUME NEW n \in 1..(d + 1),
                      \A m \in (n + 1)..(d + 1) : Span(Words[m]) \cap Span(Words[n]) = {}
               PROVE  WordHolds(n)'
    BY <1>2 DEF WordsOK
  <2>1. CASE n = d + 1
    BY <2>1
  <2>2. CASE n # d + 1
    <3>1. n \in 1..d /\ d + 1 \in (n + 1)..(d + 1) /\ n \in 1..Len(Words)
      BY <1>3, <2>2
    <3>2. \A m \in (n + 1)..d : m \in (n + 1)..(d + 1)
      BY <3>1
    <3>3. WordHolds(n)
      BY <3>1, <3>2 DEF LoaderInv, WordsOK
    <3>4. span \cap Span(Words[n]) = {}
      BY <3>1
    <3> DEFINE word == Words[n]
               order == image.byte_order
    <3>5. \A v : Stored(old, word, order, v) => Stored(new, word, order, v)
      <4>1. word.at \in Int /\ span \cap Span(word) = {} /\ Kept(old, new, span)
            /\ Tidy(old) /\ Tidy(new)
        BY <1>1, <1>3, <3>1, <3>4
      <4> HIDE DEF word, order, old, new, span
      <4> QED
        BY <4>1, StoredStays
    <3> QED
      BY <1>2, <3>3, <3>5 DEF WordHolds
  <2> QED
    BY <2>1, <2>2
<1> QED
  BY <1>7, <1>8, <1>9

-----------------------------------------------------------------------------
(* One lemma per action.                                                   *)

\* Before anything is mapped, and between two loads, the invariant only asks
\* for a sound memory and tables that hold the accepted exports.
LEMMA InitLoader == Init => LoaderInv
<1> SUFFICES ASSUME Init PROVE LoaderInv
  OBVIOUS
<1>1. Sound(NoRegions, 0, MappedLimit)
  BY EmptyMemory
<1>2. call \in DOMAIN Calls
  BY DEF Init, NoCall
<1>3. result \in Results /\ ~result.loaded /\ pc = "idle" /\ index = 1
  BY WordAssumption DEF Init, NoResult, Results, Word
<1>4. ControlOK
  BY <1>2, <1>3 DEF ControlOK
<1>5. MemoryOK
  <2>1. before[1] = regions /\ before[2] = mapped_bytes
    BY DEF Init, memory
  <2> QED
    BY <1>1, <2>1, KeptSame DEF Init, MemoryOK
<1>6. Done = 0
  BY <1>3 DEF Done
<1>7. SegmentsOK /\ EntryOK /\ WordsOK
  BY <1>3, <1>6 DEF SegmentsOK, Placed, EntryOK, WordsOK
<1>8. ExportsOK
  BY NoTablesHoldNothing DEF Init, ExportsOK
<1> QED
  BY <1>4, <1>5, <1>7, <1>8 DEF LoaderInv

\* A call that starts, and a caller between two loads, find the memory as they
\* leave it and no result.
LEMMA Afresh ==
    ASSUME Sound(regions', mapped_bytes', MappedLimit),
           before' = memory', result' \in Results, result'.loaded = FALSE,
           pc' \in {"idle", "mapping"}, index' = 1, call' \in DOMAIN Calls,
           pc' = "mapping" => Valid(image'), ExportsOK'
    PROVE  LoaderInv'
<1>1. ControlOK'
  BY DEF ControlOK
<1>2. MemoryOK'
  <2>1. before'[1] = regions' /\ before'[2] = mapped_bytes'
    BY DEF memory
  <2> QED
    BY <2>1, KeptSame DEF MemoryOK
<1>3. Done' = 0
  BY DEF Done
<1>4. SegmentsOK' /\ EntryOK' /\ WordsOK'
  <2>1. \A n \in 1..Len(image'.segments) : ~(n < 1)
    OBVIOUS
  <2> QED
    BY <1>3, <2>1 DEF SegmentsOK, Placed, EntryOK, WordsOK
<1> QED
  BY <1>1, <1>2, <1>4 DEF LoaderInv

\* The start of a load.
LEMMA BeginKeeps ==
    ASSUME LoaderInv, NEW c \in DOMAIN Calls, Begin(c), UNCHANGED exports
    PROVE  LoaderInv'
<1>1. LoadBase(Calls[c].image, Calls[c].options) \in Word
  BY BiasIsWord
<1>2. result' \in Results /\ result'.loaded = FALSE
  <2> DEFINE base == LoadBase(Calls[c].image, Calls[c].options)
  <2>1. result' \in {NoResult, [NoResult EXCEPT !.load_base = base]}
    BY DEF Begin
  <2> HIDE DEF base
  <2>2. base \in Word /\ 0 \in Word
    BY <1>1, WordAssumption DEF base, Word
  <2>3. NoResult \in Results /\ ~NoResult.loaded
    BY <2>2 DEF NoResult, Results
  <2> DEFINE r == NoResult
  <2> HIDE DEF r
  <2>4. /\ [r EXCEPT !.load_base = base] \in Results
        /\ ~[r EXCEPT !.load_base = base].loaded
    <3>1. r \in Results /\ ~r.loaded
      BY <2>3 DEF r
    <3> QED
      BY <2>2, <3>1 DEF Results
  <2> QED
    BY <2>1, <2>3, <2>4 DEF r, Results
<1>3. Sound(regions', mapped_bytes', MappedLimit) /\ before' = memory'
  BY DEF Begin, LoaderInv, MemoryOK, memory
<1>4. /\ pc' \in {"idle", "mapping"} /\ index' = 1 /\ call' \in DOMAIN Calls
      /\ pc' = "mapping" => Valid(image')
  BY DEF Begin, image
<1>5. ExportsOK'
  BY DEF LoaderInv, ExportsOK, exports
<1> QED
  BY <1>2, <1>3, <1>4, <1>5, Afresh

\* Between two loads the caller changes the memory or the resolver.
LEMMA ForgetKeeps ==
    ASSUME LoaderInv, Forget, Sound(regions', mapped_bytes', MappedLimit), ExportsOK'
    PROVE  LoaderInv'
<1>1. result' \in Results /\ result'.loaded = FALSE
  BY WordAssumption DEF Forget, NoResult, Results, Word
<1>2. pc' = "idle" /\ index' = 1 /\ call' \in DOMAIN Calls /\ before' = memory'
  BY DEF Forget, NoCall
<1> QED
  BY <1>1, <1>2, Afresh

\* The caller empties the memory.
LEMMA ClearMemoryKeeps ==
    ASSUME LoaderInv, ClearMemory, UNCHANGED exports
    PROVE  LoaderInv'
<1>1. Sound(regions', mapped_bytes', MappedLimit)
  BY EmptyMemory DEF ClearMemory
<1>2. ExportsOK' /\ Forget
  BY DEF LoaderInv, ExportsOK, exports, ClearMemory
<1> QED
  BY <1>1, <1>2, ForgetKeeps

\* The caller adds an export, or is refused.
LEMMA AddExportKeeps ==
    ASSUME LoaderInv, NEW e \in DOMAIN Exports, AddExport(e)
    PROVE  LoaderInv'
<1>1. Sound(regions', mapped_bytes', MappedLimit) /\ Forget
  BY DEF LoaderInv, MemoryOK, AddExport, memory
<1>2. ExportsOK'
  <2>1. CASE IsDuplicate(tables, Exports[e].library, Exports[e])
    BY <2>1 DEF LoaderInv, ExportsOK, AddExport, exports
  <2>2. CASE ~IsDuplicate(tables, Exports[e].library, Exports[e])
    <3> DEFINE old == tables
               S == accepted
    <3>1. tables' = WithExport(old, Exports[e].library, Exports[e])
          /\ accepted' = S \cup {e} /\ Hold(old, S)
      BY <2>2 DEF AddExport, LoaderInv, ExportsOK
    <3> HIDE DEF old, S
    <3>2. Hold(WithExport(old, Exports[e].library, Exports[e]), S \cup {e})
      BY <2>2, <3>1, ExportsAreHeld DEF old
    <3> QED
      BY <3>1, <3>2 DEF ExportsOK
  <2> QED
    BY <2>1, <2>2
<1> QED
  BY <1>1, <1>2, ForgetKeeps

\* The caller empties the resolver.
LEMMA ClearExportsKeeps ==
    ASSUME LoaderInv, ClearExports
    PROVE  LoaderInv'
<1>1. Sound(regions', mapped_bytes', MappedLimit) /\ Forget
  BY DEF LoaderInv, MemoryOK, ClearExports, memory
<1>2. ExportsOK'
  BY NoTablesHoldNothing DEF ClearExports, ExportsOK
<1> QED
  BY <1>1, <1>2, ForgetKeeps

\* A load that fails leaves the memory as it is.
LEMMA ReturnKeeps ==
    ASSUME LoaderInv, pc # "idle", NEW e, Return(e), UNCHANGED exports
    PROVE  LoaderInv'
<1>1. /\ regions' = regions /\ mapped_bytes' = mapped_bytes /\ call' = call
      /\ index' = index /\ result' = result /\ before' = before /\ pc' = "idle"
      /\ tables' = tables /\ accepted' = accepted
  BY DEF Return, exports
<1>2. image' = image /\ Touched' = Touched
  BY <1>1, SameArguments
<1>3. ~result.loaded
  BY DEF LoaderInv, ControlOK
<1>4. ControlOK'
  BY <1>1 DEF LoaderInv, ControlOK
<1>5. MemoryOK'
  BY <1>1, <1>2 DEF LoaderInv, MemoryOK
<1>6. Done' = 0
  BY <1>1, <1>3 DEF Done
<1>7. SegmentsOK' /\ EntryOK' /\ WordsOK'
  BY <1>1, <1>3, <1>6 DEF SegmentsOK, Placed, EntryOK, WordsOK
<1>8. ExportsOK'
  BY <1>1 DEF LoaderInv, ExportsOK
<1> QED
  BY <1>4, <1>5, <1>7, <1>8 DEF LoaderInv

\* A segment that is mapped is in place, and those before it stay in place.
LEMMA MapSegmentKeeps ==
    ASSUME LoaderInv, MapSegment, UNCHANGED exports
    PROVE  LoaderInv'
<1> DEFINE s == image.segments[index]
           address == s.virtual_address + TheBias
           base == PageBase(address)
           span == PageSpan(address, s.memory_size)
           perms == InitialPerms(s.perms, options.enforce_wx)
           data == FileBytes(image, s)
<1>1. /\ pc = "mapping" /\ index \in 1..Len(image.segments) /\ index \in Nat
      /\ tables' = tables /\ accepted' = accepted
      /\ call \in DOMAIN Calls /\ Valid(image) /\ ~result.loaded /\ result \in Results
      /\ Len(image.segments) \in Nat
  BY CallIsTyped DEF MapSegment, LoaderInv, ControlOK, exports, IsImage, IsVector
<1>2. ExportsOK'
  BY <1>1 DEF LoaderInv, ExportsOK
<1>3. /\ IsImage(image) /\ TheBias \in Word /\ IsSegment(s)
  BY <1>1, CallIsTyped DEF IsImage
<1>4. CASE s.memory_size = 0 /\ index' = index + 1
           /\ UNCHANGED <<regions, mapped_bytes, pc, call, result, error, before>>
  <2>1. image' = image /\ options' = options /\ Touched' = Touched
    BY <1>1, <1>4, SameArguments
  <2>2. ControlOK'
    BY <1>1, <1>4, <2>1 DEF LoaderInv, ControlOK
  <2>3. MemoryOK'
    BY <1>4, <2>1 DEF LoaderInv, MemoryOK
  <2>4. Done' = 0
    BY <1>1, <1>4 DEF Done
  <2>5. EntryOK' /\ WordsOK'
    BY <1>1, <1>4, <2>4 DEF EntryOK, WordsOK
  <2>6. SegmentsOK'
    <3> SUFFICES ASSUME NEW n \in 1..Len(image.segments), n < index + 1
                 PROVE  SegmentInPlace(image.segments[n])'
      BY <1>1, <1>4, <2>1 DEF SegmentsOK, Placed
    <3>1. CASE n < index
      <4>1. SegmentInPlace(image.segments[n])
        BY <1>1, <3>1 DEF LoaderInv, SegmentsOK, Placed
      <4>2. TheBias' = TheBias
        BY <1>1, <1>4, SameArguments
      <4> QED
        BY <1>4, <2>1, <4>1, <4>2 DEF SegmentInPlace
    <3>2. CASE ~(n < index)
      <4>1. n = index
        BY <1>1, <3>2
      <4> QED
        BY <1>4, <2>1, <4>1 DEF SegmentInPlace
    <3> QED
      BY <3>1, <3>2
  <2> QED
    BY <1>2, <2>2, <2>3, <2>5, <2>6 DEF LoaderInv
<1>5. CASE /\ s.memory_size # 0 /\ SegmentError(s) = "none"
           /\ regions' = SegmentMemory(s) /\ mapped_bytes' = mapped_bytes + span
           /\ result' = [result EXCEPT !.mapped_bytes = @ + span]
           /\ index' = index + 1 /\ UNCHANGED <<pc, call, error, before>>
  <2>1. /\ AddFits(s.virtual_address, TheBias)
        /\ AddFits(address - base, s.memory_size)
        /\ AlignFits((address - base) + s.memory_size, PageSize)
        /\ MapError(regions, mapped_bytes, MappedLimit, base, span) = "none"
    BY <1>5 DEF SegmentError
  <2>2. /\ s.virtual_address \in Word /\ s.memory_size \in Word
        /\ s.file_size \in Word /\ s.perms \in SUBSET Permission
    BY <1>3 DEF IsSegment
  <2>3. address \in Word
    BY <1>3, <2>1, <2>2, WordAssumption DEF AddFits, Word
  <2>4. base \in Word /\ base <= address
    <3> HIDE DEF address
    <3> QED
      BY <2>3, PageBaseIsWord
  <2>5. span \in Word /\ (address - base) + s.memory_size <= span
    <3> HIDE DEF address
    <3> QED
      BY <2>1, <2>2, <2>3, PageSpanIsWord
  <2>6. perms \in SUBSET Permission
    BY <2>2 DEF InitialPerms, Permission
  <2>7. data \in Buffer(s.file_size) /\ s.file_size <= s.memory_size
    BY <1>1, <1>3, FileBytesOfSegment, ValidSegments
  <2>8. Sound(regions, mapped_bytes, MappedLimit)
    BY DEF LoaderInv, MemoryOK
  <2> DEFINE old == regions
             mapped == mapped_bytes
             size == s.memory_size
             count == s.file_size
             new == Written(Mapped(old, base, span, perms), address, data, count)
  <2>9. regions' = new
    BY <1>5 DEF SegmentMemory
  <2>10. /\ Sound(new, mapped + span, MappedLimit)
         /\ Kept(old, new, {})
         /\ \A k \in 0..(size - 1) :
               /\ address + k \in MappedAddresses(new)
               /\ ByteAt(new, address + k) = IF k < count THEN data[k] ELSE 0
    <3>1. /\ Sound(old, mapped, MappedLimit) /\ size \in Word /\ count \in Word
          /\ MapError(old, mapped, MappedLimit, base, span) = "none"
          /\ (address - base) + size <= span /\ count <= size /\ data \in Buffer(count)
      BY <2>1, <2>2, <2>5, <2>7, <2>8
    <3> HIDE DEF old, mapped, size, count, data, perms, span, base, address
    <3> QED
      BY <2>3, <2>4, <2>5, <2>6, <3>1, SegmentIsPlaced
  <2>11. /\ image' = image /\ Touched' = Touched /\ TheBias' = TheBias
         /\ options' = options
    BY <1>1, <1>5, SameArguments
  <2>12. result' \in Results /\ ~result'.loaded
    <3>1. span \in Nat
      BY <2>5, WordAssumption DEF Word
    <3> DEFINE m == result.mapped_bytes + span
    <3>2. m \in Nat /\ result' = [result EXCEPT !.mapped_bytes = m]
      BY <1>1, <1>5, <3>1 DEF Results
    <3> HIDE DEF m
    <3> QED
      BY <1>1, <3>2 DEF Results
  <2>13. ControlOK'
    <3>1. pc' = "mapping" /\ call' = call /\ index' \in Nat \ {0}
      BY <1>1, <1>5
    <3> QED
      BY <1>1, <2>11, <2>12, <3>1 DEF ControlOK
  <2>14. Kept(old, new, Touched) /\ Tidy(old) /\ Tidy(new)
    <3>1. {} \subseteq Touched
      OBVIOUS
    <3> HIDE DEF old, new
    <3> QED
      BY <2>8, <2>10, <3>1, KeptMore DEF Sound, Tidy, old
  <2>15. MemoryOK'
    <3>1. Sound(regions', mapped_bytes', MappedLimit)
      BY <1>5, <2>9, <2>10
    <3>2. Kept(before[1], old, Touched) /\ Sound(before[1], before[2], MappedLimit)
      BY DEF LoaderInv, MemoryOK
    <3> HIDE DEF old, new
    <3>3. Kept(before[1], new, Touched)
      BY <2>14, <3>2, KeptTwice
    <3> QED
      BY <1>5, <2>9, <2>11, <3>1, <3>2, <3>3 DEF MemoryOK
  <2>16. Done' = 0
    BY <1>1, <1>5, <2>12 DEF Done
  <2>17. EntryOK' /\ WordsOK'
    BY <2>12, <2>16 DEF EntryOK, WordsOK
  <2>18. SegmentsOK'
    <3> SUFFICES ASSUME NEW n \in 1..Len(image.segments), n < index + 1
                 PROVE  SegmentInPlace(image.segments[n])'
      BY <1>1, <1>5, <2>11, <2>12 DEF SegmentsOK, Placed
    <3>1. CASE n < index
      <4>1. SegmentInPlace(image.segments[n])
        BY <1>1, <3>1 DEF LoaderInv, SegmentsOK, Placed
      <4>2. \A x : SegmentInPlace(x) => SegmentInPlace(x)'
        <5>1. call' = call /\ tables' = tables /\ Tidy(regions) /\ Tidy(regions')
              /\ Kept(regions, regions', Touched)
          BY <1>1, <1>5, <2>9, <2>14
        <5> QED
          BY <5>1, SegmentStays
      <4> QED
        BY <2>11, <4>1, <4>2
    <3>2. CASE ~(n < index)
      <4>1. n = index
        BY <1>1, <3>2
      <4>2. \A k \in 0..(size - 1) : k < count => data[k] = image.file.bytes[s.file_offset + k]
        <5>1. count \in Nat /\ size \in Nat
          BY <2>2, WordAssumption DEF Word
        <5>2. \A k \in 0..(count - 1) : data[k] = image.file.bytes[s.file_offset + k]
          BY DEF FileBytes
        <5> HIDE DEF count, size, data
        <5> TAKE k \in 0..(size - 1)
        <5> HAVE k < count
        <5>3. k \in 0..(count - 1)
          BY <5>1
        <5> QED
          BY <5>2, <5>3, Zenon
      <4>3. image'.segments[n] = s
        BY <2>11, <4>1
      <4> HIDE DEF new, data, s
      <4> QED
        BY <2>9, <2>10, <2>11, <4>2, <4>3 DEF SegmentInPlace
    <3> QED
      BY <3>1, <3>2
  <2> QED
    BY <1>2, <2>13, <2>15, <2>17, <2>18 DEF LoaderInv
<1>6. CASE Return(SegmentError(s))
  BY <1>1, <1>6, ReturnKeeps
<1> QED
  BY <1>4, <1>5, <1>6 DEF MapSegment

\* A step from one loop to the next writes nothing.
LEMMA NoWordKeeps ==
    ASSUME LoaderInv, UNCHANGED <<regions, mapped_bytes, call, before, exports>>,
           Done' = Done, \A n \in 1..Len(image.segments) : Placed(n)
    PROVE  MemoryOK' /\ SegmentsOK' /\ WordsOK' /\ ExportsOK'
<1>1. call' = call /\ tables' = tables /\ accepted' = accepted
  BY DEF exports
<1>2. /\ image' = image /\ Words' = Words /\ Touched' = Touched
      /\ TheBias' = TheBias
      /\ \A n : Value(n)' = Value(n)
      /\ \A n, v : Fits(n, v)' <=> Fits(n, v)
  BY <1>1, SameArguments
<1>3. MemoryOK' /\ ExportsOK'
  BY <1>1, <1>2 DEF LoaderInv, MemoryOK, ExportsOK
<1>4. SegmentsOK'
  <2>1. \A n \in 1..Len(image.segments) : SegmentInPlace(image.segments[n])
    BY DEF LoaderInv, SegmentsOK
  <2>2. \A n \in 1..Len(image.segments) : SegmentInPlace(image.segments[n])'
    BY <1>2, <2>1 DEF SegmentInPlace
  <2> QED
    BY <1>2, <2>2 DEF SegmentsOK
<1>5. WordsOK'
  <2>1. \A n : WordHolds(n) => WordHolds(n)'
    BY <1>2 DEF WordHolds
  <2> QED
    BY <1>2, <2>1 DEF LoaderInv, WordsOK
<1> QED
  BY <1>3, <1>4, <1>5

\* The segments are done.
LEMMA BeginRelocationsKeeps ==
    ASSUME LoaderInv, BeginRelocations, UNCHANGED exports
    PROVE  LoaderInv'
<1>1. /\ pc = "mapping" /\ index > Len(image.segments) /\ index \in Nat
      /\ UNCHANGED <<regions, mapped_bytes, call, before, exports>>
      /\ pc' = "relocating" /\ result' = result /\ ~result.loaded
      /\ call \in DOMAIN Calls /\ call' = call /\ tables' = tables
  BY DEF BeginRelocations, LoaderInv, ControlOK, exports
<1>2. image' = image /\ options' = options
  BY <1>1, SameArguments
<1>3. Len(image.relocations) \in Nat /\ Len(image.segments) \in Nat
  BY <1>1, CallIsTyped DEF IsImage, IsVector
<1>4. ControlOK'
  BY <1>1, <1>2, <1>3 DEF BeginRelocations, LoaderInv, ControlOK
<1>5. Done = 0 /\ Done' = 0
  BY <1>1, <1>2 DEF Done, BeginRelocations
<1>6. \A n \in 1..Len(image.segments) : Placed(n)
  BY <1>1, <1>3 DEF Placed
<1>7. MemoryOK' /\ SegmentsOK' /\ WordsOK' /\ ExportsOK'
  BY <1>1, <1>5, <1>6, NoWordKeeps
<1>8. EntryOK'
  BY <1>1 DEF EntryOK
<1> QED
  BY <1>4, <1>7, <1>8 DEF LoaderInv

\* The relocations are done.
LEMMA BeginImportsKeeps ==
    ASSUME LoaderInv, BeginImports, UNCHANGED exports
    PROVE  LoaderInv'
<1>1. /\ pc = "relocating" /\ index > Len(image.relocations) /\ index \in Nat
      /\ index <= Len(image.relocations) + 1
      /\ UNCHANGED <<regions, mapped_bytes, call, before, exports>>
      /\ pc' = "importing" /\ result' = result /\ ~result.loaded
      /\ call \in DOMAIN Calls /\ call' = call /\ tables' = tables
  BY DEF BeginImports, LoaderInv, ControlOK, exports
<1>2. image' = image /\ options' = options /\ RelocationWords' = RelocationWords
  BY <1>1, SameArguments
<1>3. Len(image.relocations) \in Nat /\ Len(image.imports) \in Nat
  BY <1>1, CallIsTyped DEF IsImage, IsVector
<1>4. ControlOK'
  BY <1>1, <1>2, <1>3 DEF BeginImports, LoaderInv, ControlOK
<1>5. Done' = Done
  <2>1. /\ Len(RelocationWords) = IF options.apply_relocations
                                  THEN Len(image.relocations) ELSE 0
        /\ Len(RelocationWords) \in Nat
    BY <1>1, WordsOfCall
  <2>2. index - 1 = Len(image.relocations)
    BY <1>1, <1>3
  <2>3. Done = Len(RelocationWords)
    BY <1>1, <2>1, <2>2 DEF Done
  <2>4. Done' = Len(RelocationWords)
    <3> DEFINE R == Len(RelocationWords)
    <3>1. R \in Nat /\ R + (1 - 1) = R
      BY <2>1
    <3>2. CASE options.resolve_imports
      <4>1. index' = 1
        BY <3>2 DEF BeginImports
      <4>2. Done' = R + (1 - 1)
        BY <1>1, <1>2, <3>2, <4>1 DEF Done
      <4> QED
        BY <3>1, <4>2
    <3>3. CASE ~options.resolve_imports
      BY <1>1, <1>2, <3>3 DEF Done
    <3> QED
      BY <3>2, <3>3
  <2> QED
    BY <2>3, <2>4
<1>6. \A n \in 1..Len(image.segments) : Placed(n)
  BY <1>1 DEF Placed
<1>7. MemoryOK' /\ SegmentsOK' /\ WordsOK' /\ ExportsOK'
  BY <1>1, <1>5, <1>6, NoWordKeeps
<1>8. EntryOK'
  BY <1>1 DEF EntryOK
<1> QED
  BY <1>4, <1>7, <1>8 DEF LoaderInv

\* A counter of the result that goes up.
LEMMA ResultCounts ==
    ASSUME NEW r \in Results
    PROVE  /\ [r EXCEPT !.relocations_applied = @ + 1] \in Results
           /\ [r EXCEPT !.relocations_applied = @ + 1].loaded = r.loaded
           /\ [r EXCEPT !.imports_resolved = @ + 1] \in Results
           /\ [r EXCEPT !.imports_resolved = @ + 1].loaded = r.loaded
<1> DEFINE m == r.relocations_applied + 1
           n == r.imports_resolved + 1
<1>1. m \in Nat /\ n \in Nat
  BY DEF Results
<1> HIDE DEF m, n
<1>2. /\ [r EXCEPT !.relocations_applied = m] \in Results
      /\ [r EXCEPT !.relocations_applied = m].loaded = r.loaded
      /\ [r EXCEPT !.imports_resolved = n] \in Results
      /\ [r EXCEPT !.imports_resolved = n].loaded = r.loaded
  BY <1>1 DEF Results
<1> QED
  BY <1>2 DEF m, n

\* A relocation is applied.
LEMMA ApplyRelocationKeeps ==
    ASSUME LoaderInv, ApplyRelocation, UNCHANGED exports
    PROVE  LoaderInv'
<1> DEFINE rel == image.relocations[index]
           failure == RelocationError(regions, image, rel, TheBias)
           p == Patch(image, rel, TheBias)
<1>1. /\ pc = "relocating" /\ index \in Nat \ {0} /\ index <= Len(image.relocations)
      /\ tables' = tables /\ accepted' = accepted
      /\ call \in DOMAIN Calls /\ ~result.loaded /\ result \in Results
      /\ Valid(image)
  BY DEF ApplyRelocation, LoaderInv, ControlOK, exports
<1>2. Len(image.relocations) \in Nat /\ index \in 1..Len(image.relocations)
  BY <1>1, CallIsTyped DEF IsImage, IsVector
<1>3. options.apply_relocations
  BY <1>1, <1>2 DEF LoaderInv, ControlOK
<1>4. CASE /\ failure = "none"
           /\ regions' = IF rel.kind = "none" THEN regions
                         ELSE WithInteger(regions, p.address, p.width,
                                          image.byte_order, p.value)
           /\ result' = [result EXCEPT !.relocations_applied = @ + 1]
           /\ index' = index + 1
           /\ UNCHANGED <<mapped_bytes, pc, call, error, before>>
  <2>0. PICK d \in Nat : d = index - 1
    BY <1>1
  <2> DEFINE word == Words[index]
  <2>1. /\ image' = image /\ options' = options
        /\ \A n : Value(n)' = Value(n)
        /\ Words' = Words /\ RelocationWords' = RelocationWords
        /\ \A n, v : Fits(n, v)' <=> Fits(n, v)
    BY <1>1, <1>4, SameArguments
  <2>2. /\ Len(RelocationWords) = Len(image.relocations)
        /\ Len(ImportWords) \in Nat
        /\ Len(Words) = Len(RelocationWords) + Len(ImportWords)
        /\ word = [at |-> rel.offset + TheBias,
                   width |-> IF rel.kind = "none" THEN 0 ELSE RelocationWidth(rel)]
    BY <1>1, <1>2, <1>3, WordsOfCall
  <2>3. Done = d /\ d + 1 = index /\ d + 1 <= Len(Words)
    BY <1>1, <1>2, <1>3, <2>0, <2>2 DEF Done
  <2>4. Done' = d + 1
    BY <1>1, <1>3, <1>4, <2>1, <2>3 DEF Done
  <2>5. Tidy(regions) /\ ExportsOK
    BY DEF LoaderInv, MemoryOK, Sound, Tidy
  <2>6. Value(index) = {v \in {p.value} : word.width # 0}
    BY <1>2, <2>2 DEF Value
  <2>7. /\ Tidy(regions') /\ SameShape(regions, regions')
        /\ Kept(regions, regions', Span(word))
        /\ \A v \in Value(index) :
              Stored(regions', word, image.byte_order, v) /\ Fits(index, v)
    <3>1. CASE rel.kind = "none"
      <4>1. regions' = regions /\ word.width = 0
        BY <1>4, <2>2, <3>1
      <4>2. Value(index) = {}
        BY <2>6, <4>1
      <4>3. Kept(regions, regions, Span(word))
        BY KeptSame
      <4> QED
        BY <2>5, <4>1, <4>2, <4>3 DEF SameShape
    <3>2. CASE rel.kind # "none"
      <4>1. /\ p.address = rel.offset + TheBias /\ p.address \in Word
            /\ p.width = RelocationWidth(rel) /\ p.value \in Word
            /\ ~DoesNotFit(p.value, p.width)
            /\ IntegerError(regions, p.address, p.width) = "none"
        BY <1>1, <1>2, <1>4, <2>5, <3>2, RelocationIsChecked
      <4>2. word.at = p.address /\ word.width = p.width
        BY <2>2, <3>2, <4>1
      <4> DEFINE old == regions
                 order == image.byte_order
                 value == p.value
                 new == WithInteger(old, word.at, word.width, order, value)
      <4>3. regions' = new
        BY <1>4, <3>2, <4>2
      <4>4. /\ Tidy(new) /\ SameShape(old, new) /\ Kept(old, new, Span(word))
            /\ Stored(new, word, order, value)
        <5>1. /\ Tidy(old) /\ word.at \in Word /\ value \in Word
              /\ IntegerError(old, word.at, word.width) = "none"
          BY <2>5, <4>1, <4>2
        <5> HIDE DEF old, order, value, word
        <5> QED
          BY <5>1, IntegerIsStored
      <4>5. Fits(index, value)
        BY <4>1, <4>2 DEF Fits
      <4>6. \A v \in Value(index) : v = value
        BY <2>6
      <4> HIDE DEF new, value, word, order
      <4> QED
        BY <4>3, <4>4, <4>5, <4>6 DEF order
    <3> QED
      BY <3>1, <3>2
  <2> HIDE DEF p, rel, failure
  <2>8. WordHolds(d + 1)'
    BY <2>1, <2>3, <2>7 DEF WordHolds
  <2>9. /\ pc \in {"relocating", "importing"} /\ call' = call /\ before' = before
        /\ mapped_bytes' = mapped_bytes
        /\ Kept(regions, regions', Span(Words[d + 1]))
    BY <1>1, <1>4, <2>3, <2>7
  <2>10. MemoryOK' /\ SegmentsOK' /\ WordsOK'
    BY <1>1, <2>3, <2>4, <2>7, <2>8, <2>9, WordIsWritten
  <2>11. result' \in Results /\ ~result'.loaded
    BY <1>1, <1>4, ResultCounts
  <2>12. ControlOK'
    BY <1>1, <1>2, <1>3, <1>4, <2>1, <2>11 DEF ControlOK
  <2>13. EntryOK' /\ ExportsOK'
    BY <1>1, <2>5, <2>11 DEF EntryOK, ExportsOK
  <2> QED
    BY <2>10, <2>12, <2>13 DEF LoaderInv
<1>5. CASE Return(failure)
  BY <1>1, <1>5, ReturnKeeps
<1> QED
  BY <1>4, <1>5 DEF ApplyRelocation

\* An import slot is filled, or a weak import is left alone.
LEMMA ResolveImportKeeps ==
    ASSUME LoaderInv, ResolveImport, UNCHANGED exports
    PROVE  LoaderInv'
<1> DEFINE import == image.imports[index]
           slot == import.slot_address + TheBias
           binds == AddFits(import.slot_address, TheBias) /\ ImportError(import) = "none"
<1>1. /\ pc = "importing" /\ index \in Nat \ {0} /\ index <= Len(image.imports)
      /\ tables' = tables /\ accepted' = accepted
      /\ call \in DOMAIN Calls /\ ~result.loaded /\ result \in Results
      /\ Valid(image)
  BY DEF ResolveImport, LoaderInv, ControlOK, exports
<1>2. /\ Len(image.imports) \in Nat /\ index \in 1..Len(image.imports)
      /\ import.slot_address \in Word /\ TheBias \in Word
  BY <1>1, CallIsTyped DEF IsImage, IsVector
<1>3. options.resolve_imports
  BY <1>1, <1>2 DEF LoaderInv, ControlOK
<1>4. ASSUME NEW T \in SUBSET ImportTarget(import), T = ImportTarget(import),
             \/ T = {} /\ regions' = regions
             \/ \E t \in T : binds /\ regions' = WithInteger(regions, slot,
                                          image.word_size, image.byte_order, t),
             result' \in Results, ~result'.loaded, index' = index + 1,
             UNCHANGED <<mapped_bytes, pc, call, error, before>>
      PROVE  LoaderInv'
  <2>1. /\ image' = image /\ options' = options
        /\ \A n : Value(n)' = Value(n)
        /\ Words' = Words /\ RelocationWords' = RelocationWords
        /\ \A n, v : Fits(n, v)' <=> Fits(n, v)
    BY <1>1, <1>4, SameArguments
  <2> DEFINE R == Len(RelocationWords)
  <2>2. /\ R \in Nat
        /\ Len(ImportWords) = Len(image.imports)
        /\ Len(Words) = R + Len(ImportWords)
        /\ Words[R + index] = [at |-> slot, width |-> IF T = {} THEN 0
                                                      ELSE image.word_size]
    BY <1>1, <1>2, <1>3, <1>4, WordsOfCall
  <2>3. PICK d \in Nat : d = R + (index - 1)
    BY <1>1, <2>2
  <2> DEFINE word == Words[d + 1]
  <2>4. /\ d + 1 = R + index /\ d + 1 <= Len(Words) /\ ~(d + 1 <= R)
        /\ (d + 1) - R = index
    BY <1>1, <1>2, <2>2, <2>3
  <2>5. Done = d /\ Done' = d + 1
    <3>1. R + ((index + 1) - 1) = d + 1
      BY <1>1, <2>2, <2>3
    <3> QED
      BY <1>1, <1>3, <1>4, <2>1, <2>3, <3>1 DEF Done
  <2>6. Tidy(regions) /\ ExportsOK
    BY DEF LoaderInv, MemoryOK, Sound, Tidy
  <2>7. Value(d + 1) = T
    BY <1>4, <2>4 DEF Value, ImportNumber
  <2>8. \A t \in T : t \in Word
    <3>1. \A t \in T : t \in Resolve(tables, import.library, import.name, import.ordinal)
      BY <1>4 DEF ImportTarget, resolver
    <3> DEFINE library == import.library
               name == import.name
               ordinal == import.ordinal
    <3>2. \A t \in T : t \in Resolve(tables, library, name, ordinal)
      BY <3>1
    <3> HIDE DEF library, name, ordinal
    <3> QED
      BY <2>6, <3>2, ResolvedIsWord DEF ExportsOK
  <2>9. /\ Tidy(regions') /\ SameShape(regions, regions')
        /\ Kept(regions, regions', Span(word))
        /\ \A v \in Value(d + 1) :
              Stored(regions', word, image.byte_order, v) /\ Fits(d + 1, v)
    <3>1. CASE T = {} /\ regions' = regions
      <4>1. Kept(regions, regions, Span(word))
        BY KeptSame
      <4> QED
        BY <2>6, <2>7, <3>1, <4>1 DEF SameShape
    <3>2. ASSUME NEW t \in T, binds,
                 regions' = WithInteger(regions, slot, image.word_size,
                                        image.byte_order, t)
          PROVE  /\ Tidy(regions') /\ SameShape(regions, regions')
                 /\ Kept(regions, regions', Span(word))
                 /\ \A v \in Value(d + 1) :
                       Stored(regions', word, image.byte_order, v) /\ Fits(d + 1, v)
      <4>1. IntegerError(regions, slot, image.word_size) = "none"
        BY <3>2 DEF ImportError
      <4>2. slot \in Word
        BY <1>2, <3>2, WordAssumption, SMTT(30) DEF AddFits, Word
      <4>3. word.at = slot /\ word.width = image.word_size
        BY <2>2, <2>4, <3>2
      <4> DEFINE old == regions
                 order == image.byte_order
                 new == WithInteger(old, word.at, word.width, order, t)
      <4>4. regions' = new
        BY <3>2, <4>3
      <4>5. /\ Tidy(new) /\ SameShape(old, new) /\ Kept(old, new, Span(word))
            /\ Stored(new, word, order, t)
        <5>1. /\ Tidy(old) /\ word.at \in Word /\ t \in Word
              /\ IntegerError(old, word.at, word.width) = "none"
          BY <2>6, <2>8, <4>1, <4>2, <4>3
        <5> HIDE DEF old, order, word
        <5> QED
          BY <5>1, IntegerIsStored
      <4>6. \A v \in Value(d + 1) : Fits(d + 1, v)
        BY <2>4 DEF Fits
      <4>7. \A v \in T : v = t
        <5>1. \A x, y \in Resolve(tables, import.library, import.name, import.ordinal) : x = y
          BY DEF Resolve
        <5>2. T \subseteq Resolve(tables, import.library, import.name, import.ordinal)
          BY <1>4 DEF ImportTarget, resolver
        <5> QED
          BY <5>1, <5>2
      <4> HIDE DEF new, word, order
      <4> QED
        BY <2>7, <4>4, <4>5, <4>6, <4>7 DEF order
    <3> QED
      BY <1>4, <3>1, <3>2
  <2> HIDE DEF slot, import, binds
  <2>10. WordHolds(d + 1)'
    BY <2>1, <2>9 DEF WordHolds
  <2>11. /\ pc \in {"relocating", "importing"} /\ call' = call /\ before' = before
         /\ mapped_bytes' = mapped_bytes
    BY <1>1, <1>4
  <2>12. MemoryOK' /\ SegmentsOK' /\ WordsOK'
    BY <1>1, <2>4, <2>5, <2>9, <2>10, <2>11, WordIsWritten
  <2>13. ControlOK'
    BY <1>1, <1>2, <1>3, <1>4, <2>1 DEF ControlOK
  <2>14. EntryOK' /\ ExportsOK'
    BY <1>1, <1>4, <2>6 DEF EntryOK, ExportsOK
  <2> QED
    BY <2>12, <2>13, <2>14 DEF LoaderInv
<1>5. CASE /\ ImportTarget(import) = {} /\ index' = index + 1
           /\ UNCHANGED <<regions, mapped_bytes, pc, call, result, error, before>>
  BY <1>1, <1>4, <1>5
<1>6. CASE Return("unresolved_import") \/ Return(ImportError(import))
  BY <1>1, <1>6, ReturnKeeps
<1>7. ASSUME NEW target \in ImportTarget(import), binds,
             regions' = WithInteger(regions, slot, image.word_size,
                                    image.byte_order, target),
             result' = [result EXCEPT !.imports_resolved = @ + 1],
             index' = index + 1,
             UNCHANGED <<mapped_bytes, pc, call, error, before>>
      PROVE  LoaderInv'
  <2>1. result' \in Results /\ ~result'.loaded
    BY <1>1, <1>7, ResultCounts
  <2> QED
    BY <1>4, <1>7, <2>1
<1> QED
  BY <1>5, <1>6, <1>7 DEF ResolveImport

\* A result is returned when every segment is placed and every word written.
LEMMA FinishKeeps ==
    ASSUME LoaderInv, Finish, UNCHANGED exports
    PROVE  LoaderInv'
<1>1. /\ pc = "importing" /\ index > Len(image.imports) /\ index \in Nat
      /\ index <= Len(image.imports) + 1
      /\ call \in DOMAIN Calls /\ result \in Results
      /\ ~options.resolve_imports => index = Len(image.imports) + 1
  BY DEF Finish, LoaderInv, ControlOK
<1>2. CASE Return("address_overflow")
  BY <1>1, <1>2, ReturnKeeps
<1>3. CASE /\ ~EntryIsBiased \/ AddFits(image.entry_point, TheBias)
           /\ result' = [result EXCEPT
                           !.loaded = TRUE,
                           !.entry_point = IF EntryIsBiased
                                           THEN image.entry_point + TheBias
                                           ELSE image.entry_point]
           /\ pc' = "idle"
           /\ UNCHANGED <<regions, mapped_bytes, call, index, error, before>>
  <2> DEFINE entry == IF EntryIsBiased THEN image.entry_point + TheBias
                      ELSE image.entry_point
  <2>1. /\ call' = call /\ tables' = tables /\ pc' = "idle" /\ index' = index
        /\ UNCHANGED <<regions, mapped_bytes, call, before, exports>>
    BY <1>3 DEF exports
  <2>2. /\ image' = image /\ Words' = Words /\ TheBias' = TheBias
        /\ EntryIsBiased' <=> EntryIsBiased
    BY <2>1, SameArguments
  <2>3. image.entry_point \in Word /\ TheBias \in Word
        /\ Len(image.imports) \in Nat
    BY <1>1, CallIsTyped DEF IsImage, IsVector
  <2>4. entry \in Word
    BY <1>3, <2>3, WordAssumption DEF AddFits, Word
  <2>5. result' = [result EXCEPT !.loaded = TRUE, !.entry_point = entry]
    BY <1>3
  <2> HIDE DEF entry
  <2>6. result' \in Results /\ result'.loaded /\ result'.entry_point = entry
    BY <1>1, <2>4, <2>5 DEF Results
  <2>7. ControlOK'
    BY <1>1, <2>1, <2>6 DEF ControlOK
  <2>8. EntryOK'
    BY <2>2, <2>6 DEF EntryOK, entry
  <2>9. Done' = Len(Words)
    BY <2>1, <2>2, <2>6 DEF Done
  <2>10. Done = Len(Words)
    <3>1. /\ Len(RelocationWords) \in Nat
          /\ Len(ImportWords) = IF options.resolve_imports THEN Len(image.imports) ELSE 0
          /\ Len(Words) = Len(RelocationWords) + Len(ImportWords)
      BY <1>1, WordsOfCall
    <3>2. index - 1 = Len(image.imports)
      BY <1>1, <2>3
    <3>3. CASE options.resolve_imports
      BY <1>1, <3>1, <3>2, <3>3 DEF Done
    <3>4. CASE ~options.resolve_imports
      BY <1>1, <3>1, <3>4 DEF Done
    <3> QED
      BY <3>3, <3>4
  <2>11. \A n \in 1..Len(image.segments) : Placed(n)
    BY <1>1 DEF Placed
  <2>12. MemoryOK' /\ SegmentsOK' /\ WordsOK' /\ ExportsOK'
    BY <2>1, <2>9, <2>10, <2>11, NoWordKeeps
  <2> QED
    BY <2>7, <2>8, <2>12 DEF LoaderInv
<1> QED
  BY <1>2, <1>3 DEF Finish

-----------------------------------------------------------------------------
(* The theorems.                                                           *)

\* A step that changes nothing.
LEMMA StutterKeeps ==
    ASSUME LoaderInv, UNCHANGED vars
    PROVE  LoaderInv'
<1>1. /\ regions' = regions /\ mapped_bytes' = mapped_bytes /\ pc' = pc
      /\ call' = call /\ index' = index /\ result' = result /\ error' = error
      /\ before' = before /\ tables' = tables /\ accepted' = accepted
  BY DEF vars, loading, exports
<1>2. /\ image' = image /\ options' = options /\ TheBias' = TheBias
      /\ Words' = Words /\ Touched' = Touched
      /\ RelocationWords' = RelocationWords
      /\ \A n : Value(n)' = Value(n)
      /\ \A n, v : Fits(n, v)' <=> Fits(n, v)
      /\ EntryIsBiased' <=> EntryIsBiased
  BY <1>1, SameArguments
<1>3. ControlOK'
  BY <1>1, <1>2 DEF LoaderInv, ControlOK
<1>4. MemoryOK' /\ ExportsOK' /\ EntryOK'
  BY <1>1, <1>2 DEF LoaderInv, MemoryOK, ExportsOK, EntryOK
<1>5. SegmentsOK'
  BY <1>1, <1>2 DEF LoaderInv, SegmentsOK, SegmentInPlace, Placed
<1>6. WordsOK'
  <2>1. Done' = Done
    BY <1>1, <1>2 DEF Done
  <2>2. \A n : WordHolds(n) => WordHolds(n)'
    BY <1>1, <1>2 DEF WordHolds
  <2> QED
    BY <1>2, <2>1, <2>2 DEF LoaderInv, WordsOK
<1> QED
  BY <1>3, <1>4, <1>5, <1>6 DEF LoaderInv

\* The invariant of the loader holds after every step of every sequence of
\* loads, complete or failed, and of calls on the memory and the resolver
\* between them.
THEOREM LoaderInvariant == Spec => []LoaderInv
<1>1. LoaderInv /\ [Next]_vars => LoaderInv'
  <2> SUFFICES ASSUME LoaderInv, [Next]_vars PROVE LoaderInv'
    OBVIOUS
  <2>1. ASSUME NEW c \in DOMAIN Calls, Begin(c), UNCHANGED exports PROVE LoaderInv'
    BY <2>1, BeginKeeps
  <2>2. CASE Step /\ UNCHANGED exports
    BY <2>2, MapSegmentKeeps, BeginRelocationsKeeps, ApplyRelocationKeeps,
       BeginImportsKeeps, ResolveImportKeeps, FinishKeeps DEF Step
  <2>3. CASE ClearMemory /\ UNCHANGED exports
    BY <2>3, ClearMemoryKeeps
  <2>4. ASSUME NEW e \in DOMAIN Exports, AddExport(e) PROVE LoaderInv'
    BY <2>4, AddExportKeeps
  <2>5. CASE ClearExports
    BY <2>5, ClearExportsKeeps
  <2>6. CASE UNCHANGED vars
    BY <2>6, StutterKeeps
  <2> QED
    BY <2>1, <2>2, <2>3, <2>4, <2>5, <2>6 DEF Next
<1> QED
  BY InitLoader, <1>1, PTL DEF Spec

\* When load returns a result, every byte of every segment is where the bias
\* puts it, and the entry point has moved with an image that is not linked at
\* address zero.
THEOREM LoadPlacesSegments == Spec => []SegmentsInPlace
<1>1. LoaderInv => SegmentsInPlace
  <2> SUFFICES ASSUME LoaderInv, result.loaded
               PROVE  /\ OriginalBase(image) \in 1..image.entry_point => EntryMoves
                      /\ \A n \in 1..Len(image.segments) :
                            SegmentInPlace(image.segments[n])
    BY DEF SegmentsInPlace
  <2>1. \A n \in 1..Len(image.segments) : SegmentInPlace(image.segments[n])
    BY DEF LoaderInv, SegmentsOK, Placed
  <2>2. ASSUME OriginalBase(image) \in 1..image.entry_point PROVE EntryMoves
    <3>1. image.entry_point \in Nat
      BY CallIsTyped, WordAssumption DEF LoaderInv, ControlOK, IsImage, Word
    <3> DEFINE b == OriginalBase(image)
               e == image.entry_point
    <3>2. e # 0 /\ b # 0 /\ e >= b
      <4>1. b \in 1..e /\ e \in Nat
        BY <2>2, <3>1
      <4> HIDE DEF b, e
      <4> QED
        BY <4>1
    <3>3. EntryIsBiased
      BY <3>2 DEF EntryIsBiased
    <3>4. result.entry_point = image.entry_point + TheBias
      BY <3>3 DEF LoaderInv, EntryOK
    <3> QED
      BY <3>4 DEF EntryMoves
  <2> QED
    BY <2>1, <2>2
<1> QED
  BY LoaderInvariant, <1>1, PTL

\* A load never unmaps, resizes or reprotects what was mapped before it, changes
\* bytes of it only as targets of its relocations and imports, and leaves the
\* regions disjoint and the account exact after every step.
THEOREM LoadKeepsOthers == Spec => []OthersKept
<1>1. LoaderInv => OthersKept
  <2> SUFFICES ASSUME LoaderInv PROVE OthersKept
    OBVIOUS
  <2> DEFINE old == before[1]
             new == regions
             S == Touched
  <2>1. /\ Sound(new, mapped_bytes, MappedLimit) /\ Sound(old, before[2], MappedLimit)
        /\ Kept(old, new, S)
    BY DEF LoaderInv, MemoryOK
  <2>2. MemoryIsSound
    BY <2>1 DEF Sound, MemoryIsSound
  <2>3. Tidy(old) /\ Tidy(new)
    BY <2>1 DEF Sound, Tidy
  <2>4. ASSUME NEW b \in DOMAIN old
        PROVE  /\ b \in DOMAIN new
               /\ new[b].size = old[b].size
               /\ new[b].perms = old[b].perms
               /\ \A a \in Cells(new, b) \ S : ByteAt(new, a) = ByteAt(old, a)
    <3> HIDE DEF old, new, S
    <3>1. /\ b \in DOMAIN new /\ new[b].size = old[b].size
          /\ new[b].perms = old[b].perms
      BY <2>1, <2>4 DEF Kept
    <3>2. Cells(new, b) = Cells(old, b)
      BY <3>1 DEF Cells
    <3>3. \A a \in Cells(new, b) : a \in MappedAddresses(old)
      BY <2>4, <3>2 DEF MappedAddresses
    <3>4. \A a \in Cells(new, b) \ S : ByteAt(new, a) = ByteAt(old, a)
      BY <2>1, <2>3, <3>3, KeptByte
    <3> QED
      BY <3>1, <3>4
  <2> QED
    BY <2>2, <2>4 DEF OthersKept
<1> QED
  BY LoaderInvariant, <1>1, PTL

\* A word that is stored and no longer than its width reads back.
LEMMA StoredReadsBack ==
    ASSUME NEW word, NEW v, Stored(regions, word, image.byte_order, v),
           ~DoesNotFit(v, word.width)
    PROVE  ReadsAs(word, v)
<1> DEFINE width == word.width
           order == image.byte_order
           read == [i \in 0..(width - 1) |-> ByteAt(regions, word.at + i)]
<1>1. /\ v \in Word /\ width \in Width
      /\ \A i \in 0..(width - 1) :
            ByteAt(regions, word.at + i) = Digits(v, width, order)[i]
  BY DEF Stored
<1>2. v < Radix^width
  <2>1. v \in Nat /\ v <= MaxWord /\ MaxWord \in Nat
    BY <1>1, WordAssumption DEF Word
  <2>2. Radix^8 \in Nat
    BY PowerAssumption
  <2>3. CASE width = 8
    BY <2>1, <2>2, <2>3
  <2>4. CASE width # 8
    <3>1. width \in 0..8 /\ width < 8
      BY <1>1, <2>4 DEF Width
    <3>2. Radix^width \in Nat
      BY <3>1, PowerAssumption
    <3> QED
      BY <2>1, <3>1, <3>2 DEF DoesNotFit
  <2> QED
    BY <2>3, <2>4
<1>3. read = Digits(v, width, order)
  <2>1. Digits(v, width, order) = [i \in 0..(width - 1) |-> Digits(v, width, order)[i]]
    BY DEF Digits
  <2> DEFINE d == Digits(v, width, order)
  <2>2. d = [i \in 0..(width - 1) |-> d[i]]
        /\ \A i \in 0..(width - 1) : ByteAt(regions, word.at + i) = d[i]
    BY <1>1, <2>1
  <2> HIDE DEF d, width
  <2>3. read = d
    BY <2>2
  <2> QED
    BY <2>3 DEF d
<1>4. Accumulate(Digits(v, width, order), width, order) = v
  <2> HIDE DEF width, order
  <2> QED
    BY <1>1, <1>2, IntegersReadBack
<1> QED
  BY <1>3, <1>4 DEF ReadsAs

\* A relocated word that nothing later overwrites reads back as the full value
\* of its formula, and an import slot as the address the resolver gave, if that
\* fits the word of the image.
THEOREM LoadedWordsReadBack == Spec => []WordsReadBack
<1>1. LoaderInv => WordsReadBack
  <2> SUFFICES ASSUME LoaderInv, result.loaded PROVE WordsReadBack
    BY DEF WordsReadBack, RelocationsReadBack, ImportsReadBack
  <2> DEFINE R == Len(RelocationWords)
  <2>1. call \in DOMAIN Calls /\ pc = "idle"
    BY DEF LoaderInv, ControlOK
  <2>2. Done = Len(Words)
    BY <2>1 DEF Done
  <2>3. R \in Nat /\ Len(ImportWords) \in Nat /\ Len(Words) = R + Len(ImportWords)
    BY <2>1, WordsOfCall
  <2>4. ASSUME NEW n \in 1..Len(Words), Last(n) PROVE WordHolds(n)
    BY <2>2, <2>4 DEF LoaderInv, WordsOK, Last
  <2>5. RelocationsReadBack
    <3> SUFFICES ASSUME NEW n \in 1..R, Last(n), Words[n].width # 0
                 PROVE  ReadsAs(Words[n],
                                Patch(image, image.relocations[n], TheBias).value)
      BY DEF RelocationsReadBack
    <3> DEFINE v == Patch(image, image.relocations[n], TheBias).value
    <3>1. WordHolds(n)
      BY <2>3, <2>4
    <3>2. v \in Value(n) /\ n <= R
      BY <2>3 DEF Value
    <3>3. Stored(regions, Words[n], image.byte_order, v) /\ ~DoesNotFit(v, Words[n].width)
      BY <3>1, <3>2 DEF WordHolds, Fits
    <3> HIDE DEF v
    <3>4. ReadsAs(Words[n], v)
      BY <3>3, StoredReadsBack
    <3> QED
      BY <3>4 DEF v
  <2>6. ImportsReadBack(FitsTheWord)
    <3> SUFFICES ASSUME NEW n \in (R + 1)..Len(Words), Last(n),
                        NEW t \in ImportTarget(ImportNumber(n)), FitsTheWord(t)
                 PROVE  ReadsAs(Words[n], t)
      BY DEF ImportsReadBack
    <3>1. /\ n \in 1..Len(Words) /\ ~(n <= R)
          /\ n - R \in 1..Len(ImportWords) /\ R + (n - R) = n
      BY <2>3
    <3>2. WordHolds(n)
      BY <2>4, <3>1
    <3>3. t \in Value(n)
      BY <3>1 DEF Value
    <3>4. Stored(regions, Words[n], image.byte_order, t)
      BY <3>2, <3>3 DEF WordHolds
    <3>5. Words[n].width = image.word_size
      <4> DEFINE k == n - R
      <4>1. k \in 1..Len(ImportWords) /\ R + k = n
        BY <3>1
      <4> HIDE DEF k
      <4>2. Words[R + k].width = IF ImportTarget(image.imports[k]) = {} THEN 0
                                 ELSE image.word_size
        <5>1. Words[R + k] = [at |-> image.imports[k].slot_address + TheBias,
                              width |-> IF ImportTarget(image.imports[k]) = {} THEN 0
                                        ELSE image.word_size]
          BY <2>1, <4>1, WordsOfCall
        <5> QED
          BY <5>1
      <4>3. t \in ImportTarget(image.imports[k])
        BY DEF ImportNumber, k
      <4> QED
        BY <4>1, <4>2, <4>3
    <3>6. ~DoesNotFit(t, Words[n].width)
      BY <3>5 DEF FitsTheWord
    <3> QED
      BY <3>4, <3>6, StoredReadsBack
  <2> QED
    BY <2>5, <2>6 DEF WordsReadBack
<1> QED
  BY LoaderInvariant, <1>1, PTL

\* Whatever was added and refused before, a lookup finds exactly the accepted
\* exports, by name or else by ordinal.
THEOREM LookupsFindAccepted == Spec => []ResolveFindsAccepted
<1>1. LoaderInv => ResolveFindsAccepted
  <2> SUFFICES ASSUME LoaderInv PROVE ResolveFindsAccepted
    OBVIOUS
  <2> DEFINE Found(library, name, o) ==
               LET here    == {e \in accepted : Exports[e].library = library}
                   byName  == {e \in here : Exports[e].name = name /\ name # NoName}
                   matches == IF byName # {} THEN byName
                              ELSE {e \in here : Exports[e].ordinal = o}
               IN  {Exports[e].address : e \in matches}
  <2>1. \A library, name, o : Resolve(tables, library, name, o) = Found(library, name, o)
    BY LookupFindsHeld DEF LoaderInv, ExportsOK
  <2> QED
    BY <2>1 DEF ResolveFindsAccepted
<1> QED
  BY LoaderInvariant, <1>1, PTL
===============================================================================
