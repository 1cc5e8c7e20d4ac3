--------------------------- MODULE ImageBuilderProofs ---------------------------
(***************************************************************************)
(* The layout that BinaryImageBuilder::build computes, for every list of   *)
(* sections, every choice of alignments and every word size, by induction  *)
(* over the turns of its loop; and the layout that LayoutPlanner::plan     *)
(* computes, for every list of segments and every base, by induction over  *)
(* the turns of merge_adjacent.                                            *)
(***************************************************************************)
EXTENDS ImageBuilder, LayoutRequests, InductionProofs, FiniteSetTheorems, SequenceTheorems

-----------------------------------------------------------------------------
(* Vectors.                                                                *)

\* A std::vector: a sequence of whatever elements.
IsVector(v) == Len(v) \in Nat /\ v = [n \in 1..Len(v) |-> v[n]]

\* A vector is a sequence over the set of its elements.
LEMMA VectorIsSeq ==
    ASSUME NEW v, IsVector(v), NEW S, \A n \in 1..Len(v) : v[n] \in S
    PROVE  v \in Seq(S)
<1>1. v \in [1..Len(v) -> S]
  BY DEF IsVector
<1> QED
  BY <1>1 DEF IsVector

\* And a sequence is a vector.
LEMMA SeqIsVector ==
    ASSUME NEW S, NEW v \in Seq(S)
    PROVE  IsVector(v)
BY DEF IsVector

\* What push_back does.
LEMMA AppendVector ==
    ASSUME NEW v, IsVector(v), NEW x
    PROVE  /\ IsVector(Append(v, x))
           /\ Len(Append(v, x)) = Len(v) + 1
           /\ \A n \in 1..Len(v) : Append(v, x)[n] = v[n]
           /\ Append(v, x)[Len(v) + 1] = x
<1> DEFINE S == {v[n] : n \in 1..Len(v)} \cup {x}
<1>1. v \in Seq(S)
  BY VectorIsSeq
<1>2. x \in S
  OBVIOUS
<1> HIDE DEF S
<1>3. /\ Append(v, x) \in Seq(S)
      /\ Len(Append(v, x)) = Len(v) + 1
      /\ \A n \in 1..Len(v) : Append(v, x)[n] = v[n]
      /\ Append(v, x)[Len(v) + 1] = x
  BY <1>1, <1>2, AppendProperties
<1>4. IsVector(Append(v, x))
  BY <1>3, SeqIsVector
<1> QED
  BY <1>3, <1>4

\* What insert at the end does.
LEMMA ConcatVectors ==
    ASSUME NEW v, IsVector(v), NEW w, IsVector(w)
    PROVE  /\ IsVector(v \o w)
           /\ Len(v \o w) = Len(v) + Len(w)
           /\ \A n \in 1..Len(v) : (v \o w)[n] = v[n]
           /\ \A n \in 1..Len(w) : (v \o w)[Len(v) + n] = w[n]
<1> DEFINE S == {v[n] : n \in 1..Len(v)} \cup {w[n] : n \in 1..Len(w)}
<1>1. v \in Seq(S) /\ w \in Seq(S)
  BY VectorIsSeq
<1> HIDE DEF S
<1>2. v \o w \in Seq(S) /\ Len(v \o w) = Len(v) + Len(w)
      /\ \A n \in 1..(Len(v) + Len(w)) :
            (v \o w)[n] = IF n <= Len(v) THEN v[n] ELSE w[n - Len(v)]
  BY <1>1, ConcatProperties
<1>3. Len(v) \in Nat /\ Len(w) \in Nat
  BY DEF IsVector
<1>4. ASSUME NEW n \in 1..Len(w) PROVE (v \o w)[Len(v) + n] = w[n]
  <2>1. Len(v) + n \in 1..(Len(v) + Len(w)) /\ ~(Len(v) + n <= Len(v))
        /\ (Len(v) + n) - Len(v) = n
    BY <1>3
  <2> QED
    BY <1>2, <2>1
<1>5. ASSUME NEW n \in 1..Len(v) PROVE (v \o w)[n] = v[n]
  BY <1>2, <1>3
<1>6. IsVector(v \o w)
  BY <1>2, SeqIsVector
<1> QED
  BY <1>2, <1>4, <1>5, <1>6

\* The bytes that resize adds are a vector.
LEMMA PaddingVector ==
    ASSUME NEW n \in Nat, NEW x
    PROVE  IsVector([k \in 1..n |-> x]) /\ Len([k \in 1..n |-> x]) = n
<1>1. [k \in 1..n |-> x] \in Seq({x})
  OBVIOUS
<1> QED
  BY <1>1 DEF IsVector

-----------------------------------------------------------------------------
(* Alignment.                                                              *)

\* Aligning up never goes back.
LEMMA AlignUpIsAbove ==
    ASSUME NEW value \in Nat, NEW alignment \in Nat, AlignFits(value, alignment)
    PROVE  AlignUp(value, alignment) \in Nat /\ AlignUp(value, alignment) >= value
<1> DEFINE sum == value + (alignment - 1)
<1>1. alignment > 0 /\ sum \in Nat
  BY DEF AlignFits, IsPowerOfTwo
<1> HIDE DEF sum
<1>2. sum % alignment \in 0..(alignment - 1)
  BY <1>1
<1>3. sum - (sum % alignment) \in Nat /\ sum - (sum % alignment) >= value
  BY <1>1, <1>2 DEF sum
<1> QED
  BY <1>3 DEF AlignUp, AlignDown, sum

\* n is a multiple of d.
Divides(d, n) == \E q \in Nat : n = d * q

\* Multiples of d lie d apart.
LEMMA MultiplesAreApart ==
    ASSUME NEW d \in Nat, NEW x \in Nat, NEW y \in Nat, x < y
    PROVE  d * x + d <= d * y
<1> DEFINE z == y - x
<1>2. z \in Nat /\ z >= 1 /\ d * y = d * x + d * z
  <2>1. y = x + (y - x) /\ y - x \in Nat /\ y - x >= 1
    OBVIOUS
  <2> QED
    BY <2>1
<1> HIDE DEF z
<1>3. d * z >= d
  BY <1>2
<1>4. d * x \in Int /\ d * y \in Int /\ d * z \in Int
  BY <1>2
<1> QED
  BY <1>2, <1>3, <1>4

\* No remainder is left exactly of the multiples.
LEMMA ModIsDivides ==
    ASSUME NEW n \in Nat, NEW d \in Nat, d > 0
    PROVE  n % d = 0 <=> Divides(d, n)
<1> DEFINE p == n \div d
           r == n % d
<1>1. n = d * p + r /\ p \in Nat /\ r \in 0..(d - 1)
  OBVIOUS
<1> HIDE DEF p, r
<1>2. ASSUME NEW q \in Nat, n = d * q PROVE r = 0
  <2>1. d * q \in Nat /\ d * p \in Nat
    BY <1>1
  <2>2. ~(p < q)
    BY <1>1, <1>2, <2>1, MultiplesAreApart
  <2>3. ~(q < p)
    BY <1>1, <1>2, <2>1, MultiplesAreApart
  <2>4. p = q
    BY <1>1, <2>2, <2>3
  <2> QED
    BY <1>1, <1>2, <2>1, <2>4
<1>3. r = 0 => n = d * p
  BY <1>1
<1> QED
  BY <1>1, <1>2, <1>3 DEF Divides, r

\* What divides the half divides the whole.
LEMMA DividesTimes ==
    ASSUME NEW d \in Nat, NEW n \in Nat, NEW m \in Nat, n = 2 * m, Divides(d, m)
    PROVE  Divides(d, n)
<1>1. PICK q \in Nat : m = d * q
  BY DEF Divides
<1>2. n = d * (2 * q) /\ 2 * q \in Nat
  BY <1>1
<1> QED
  BY <1>2 DEF Divides

\* A divisor of a divisor is one.
LEMMA DividesTrans ==
    ASSUME NEW d \in Nat, NEW n \in Nat, NEW m \in Nat, Divides(d, m), Divides(m, n)
    PROVE  Divides(d, n)
<1>1. PICK q \in Nat : m = d * q
  BY DEF Divides
<1>2. PICK p \in Nat : n = m * p
  BY DEF Divides
<1>3. n = d * (q * p) /\ q * p \in Nat
  BY <1>1, <1>2
<1> QED
  BY <1>3 DEF Divides

\* Half of a power of two is one, as n & (n - 1) finds it.
LEMMA HalfOfPower ==
    ASSUME NEW n \in Nat, n > 1, IsPowerOfTwo(n)
    PROVE  \E m \in Nat : n = 2 * m /\ IsPowerOfTwo(m) /\ m < n
<1>1. n = n * 1 /\ n \in 2..n
  OBVIOUS
<1>2. n % n = 0
  BY <1>1, ModIsDivides DEF Divides
<1>3. n % 2 = 0
  BY <1>1, <1>2 DEF IsPowerOfTwo
<1>4. PICK m \in Nat : n = 2 * m
  BY <1>3
<1>5. m > 0 /\ m < n
  BY <1>4
<1>6. ASSUME NEW d \in 2..m, m % d = 0 PROVE d % 2 = 0
  <2>1. Divides(d, m)
    BY <1>6, ModIsDivides
  <2>2. Divides(d, n)
    BY <1>4, <2>1, DividesTimes
  <2>3. n % d = 0 /\ d \in 2..n
    BY <1>5, <2>2, ModIsDivides
  <2> QED
    BY <2>3 DEF IsPowerOfTwo
<1> QED
  BY <1>4, <1>5, <1>6 DEF IsPowerOfTwo

\* Of two powers of two the smaller divides the larger.
LEMMA PowersDivide ==
    ASSUME NEW a \in Nat, NEW b \in Nat, IsPowerOfTwo(a), IsPowerOfTwo(b), a <= b
    PROVE  Divides(a, b)
<1> DEFINE P(n) == \A x \in 0..n : IsPowerOfTwo(x) /\ IsPowerOfTwo(n) => Divides(x, n)
           S == {n \in Nat : \A m \in 0..n : P(m)}
<1>1. 0 \in S
  <2>1. ~IsPowerOfTwo(0)
    BY DEF IsPowerOfTwo
  <2> QED
    BY <2>1
<1>2. ASSUME NEW n \in Nat, n \in S PROVE n + 1 \in S
  <2> DEFINE k == n + 1
  <2>1. ASSUME NEW x \in 0..k, IsPowerOfTwo(x), IsPowerOfTwo(k) PROVE Divides(x, k)
    <3>1. x > 0 /\ k \in Nat
      BY <2>1 DEF IsPowerOfTwo
    <3>2. CASE x = 1
      <4>1. k = x * k
        BY <3>2
      <4> QED
        BY <3>1, <4>1 DEF Divides
    <3>3. CASE x > 1
      <4>1. k > 1
        BY <3>3
      <4>2. PICK m \in Nat : k = 2 * m /\ IsPowerOfTwo(m) /\ m < k
        BY <2>1, <3>1, <4>1, HalfOfPower
      <4>3. PICK y \in Nat : x = 2 * y /\ IsPowerOfTwo(y) /\ y < x
        BY <2>1, <3>3, HalfOfPower
      <4>4. y \in 0..m /\ m \in 0..n
        BY <4>2, <4>3
      <4>5. Divides(y, m)
        BY <1>2, <4>2, <4>3, <4>4
      <4>6. PICK q \in Nat : m = y * q
        BY <4>5 DEF Divides
      <4>7. k = x * q
        BY <4>2, <4>3, <4>6
      <4> QED
        BY <4>7 DEF Divides
    <3> QED
      BY <3>1, <3>2, <3>3
  <2>2. P(k)
    BY <2>1
  <2>3. \A m \in 0..k : m \in 0..n \/ m = k
    OBVIOUS
  <2> HIDE DEF k, P
  <2>4. \A m \in 0..k : P(m)
    BY <1>2, <2>2, <2>3
  <2> QED
    BY <2>4 DEF k
<1> HIDE DEF S
<1>3. b \in S
  BY <1>1, <1>2, SetInduction
<1>4. P(b)
  BY <1>3 DEF S
<1> QED
  BY <1>4

\* checked_align_up returns the least multiple that is not before the value.
LEMMA AlignUpIsLeast ==
    ASSUME NEW value \in Nat, NEW alignment \in Nat, AlignFits(value, alignment)
    PROVE  /\ Divides(alignment, AlignUp(value, alignment))
           /\ \A x \in Nat : x >= value /\ Divides(alignment, x)
                                => AlignUp(value, alignment) <= x
<1> DEFINE sum == value + (alignment - 1)
           q == sum \div alignment
           r == sum % alignment
<1>1. alignment > 0 /\ sum \in Nat
  BY DEF AlignFits, IsPowerOfTwo
<1>2. sum = alignment * q + r /\ q \in Nat /\ r \in 0..(alignment - 1)
  <2> HIDE DEF sum
  <2> QED
    BY <1>1
<1>3. AlignUp(value, alignment) = sum - r
  BY DEF AlignUp, AlignDown
<1> DEFINE up == AlignUp(value, alignment)
<1> HIDE DEF q, r, up
<1>4. up = alignment * q /\ alignment * q \in Nat
  BY <1>1, <1>2, <1>3 DEF up
<1>5. ASSUME NEW p \in Nat, alignment * p >= value PROVE alignment * q <= alignment * p
  <2>1. CASE p < q
    <3>1. alignment * p + alignment <= alignment * q
      BY <2>1, <1>2, MultiplesAreApart
    <3>2. alignment * p \in Nat /\ alignment * q <= sum
      BY <1>2, <1>4
    <3> QED
      BY <1>4, <1>5, <3>1, <3>2
  <2>2. CASE p = q
    BY <2>2, <1>4
  <2>3. CASE q < p
    <3>1. alignment * q + alignment <= alignment * p
      BY <2>3, <1>2, MultiplesAreApart
    <3> QED
      BY <1>4, <3>1
  <2> QED
    BY <2>1, <2>2, <2>3, <1>2
<1> QED
  BY <1>2, <1>4, <1>5 DEF Divides, up

\* A multiple that is moved by the distance of two others is one.
LEMMA DividesShift ==
    ASSUME NEW d \in Nat, NEW x \in Nat, NEW y \in Nat, NEW z \in Nat,
           Divides(d, x), Divides(d, y), Divides(d, z), d > 0, y <= z
    PROVE  Divides(d, x + (z - y))
<1>1. PICK p \in Nat : x = d * p
  BY DEF Divides
<1>2. PICK q \in Nat : y = d * q
  BY DEF Divides
<1>3. PICK r \in Nat : z = d * r
  BY DEF Divides
<1>4. q <= r
  <2>1. SUFFICES ASSUME r < q PROVE FALSE
    OBVIOUS
  <2>2. d * r + d <= d * q
    BY <2>1, MultiplesAreApart
  <2>3. d * r \in Nat /\ d * q \in Nat
    OBVIOUS
  <2> QED
    BY <1>2, <1>3, <2>2, <2>3
<1>5. x + (z - y) = d * (p + (r - q)) /\ p + (r - q) \in Nat
  BY <1>1, <1>2, <1>3, <1>4
<1> QED
  BY <1>5 DEF Divides

-----------------------------------------------------------------------------
(* The layout between two turns of the loop.                               *)

\* Section m of the image is the section that was added as number m, and its
\* bytes are in the file.
SectionOK(s, m, source, storage, cursor) ==
    /\ s.index = m - 1
    /\ s.file_offset \in Nat
    /\ s.file_size = Len(source.data)
    /\ s.virtual_address \in Nat
    /\ s.memory_size = Len(source.data) + source.zero_fill
    /\ s.alignment = source.alignment
    /\ s.permissions = source.permissions
    /\ s.file_offset + s.file_size <= cursor
    /\ \A k \in 1..Len(source.data) : storage[s.file_offset + k] = source.data[k]

\* A segment ends before the cursors, holds some sections, and if it holds one
\* only it has its extent.
SegmentOK(t, placed, file_cursor, memory_cursor) ==
    /\ t = [file_offset |-> t.file_offset, file_size |-> t.file_size,
            virtual_address |-> t.virtual_address, memory_size |-> t.memory_size,
            alignment |-> t.alignment, perms |-> t.perms, sections |-> t.sections]
    /\ t.file_offset \in Nat /\ t.file_size \in Nat
    /\ t.virtual_address \in Nat /\ t.memory_size \in Nat
    /\ t.file_offset + t.file_size <= file_cursor
    /\ t.virtual_address + t.memory_size <= memory_cursor
    /\ IsVector(t.sections) /\ Len(t.sections) > 0
    /\ \A j \in 1..Len(t.sections) : t.sections[j] \in 0..(Len(placed) - 1)
    /\ Len(t.sections) = 1 =>
          /\ t.file_offset = placed[t.sections[1] + 1].file_offset
          /\ t.file_size = placed[t.sections[1] + 1].file_size
          /\ t.memory_size = placed[t.sections[1] + 1].memory_size

\* A section lies in a segment, in the file and in memory.
Lies(s, t, o) ==
    /\ t.file_offset <= s.file_offset
    /\ s.file_offset + s.file_size <= t.file_offset + t.file_size
    /\ t.virtual_address <= s.virtual_address
    /\ s.virtual_address + s.memory_size <= t.virtual_address + t.memory_size
    /\ o.separate_permissions => s.permissions = t.perms

Lists(t, i) == \E j \in 1..Len(t.sections) : t.sections[j] = i

\* Section m lies in one segment, the only one that lists it.
HolderOK(placed, segments, m, o) ==
    \E g \in 1..Len(segments) :
        /\ Lies(placed[m], segments[g], o)
        /\ \A h \in 1..Len(segments) : Lists(segments[h], m - 1) <=> h = g

\* Each segment lies in memory behind the end of those before, and has the
\* alignment of the options or of a section.
SegmentsApart(segments) ==
    \A g, h \in 1..Len(segments) :
        g < h => segments[g].virtual_address + segments[g].memory_size
                   <= segments[h].virtual_address
SegmentsAligned(segments, keys, n, o) ==
    \A g \in 1..Len(segments) :
        \/ segments[g].alignment = o.memory_alignment
        \/ \E m \in 1..n : segments[g].alignment = Sections[keys[m]].alignment

\* The layout after the first n sections, unless the loop has failed.
TurnOK(b, keys, n, o) ==
    /\ IsVector(b.storage) /\ Len(b.storage) = b.file_cursor
    /\ b.file_cursor <= MaxFileSize
    /\ b.memory_cursor \in Word
    /\ IsVector(b.sections) /\ Len(b.sections) = n
    /\ IsVector(b.segments) /\ Len(b.segments) <= n
    /\ \A m \in 1..n : SectionOK(b.sections[m], m, Sections[keys[m]], b.storage,
                                 b.file_cursor)
    /\ \A g \in 1..Len(b.segments) :
          SegmentOK(b.segments[g], b.sections, b.file_cursor, b.memory_cursor)
    /\ \A m \in 1..n : HolderOK(b.sections, b.segments, m, o)
    /\ SegmentsApart(b.segments)
    /\ SegmentsAligned(b.segments, keys, n, o)

-----------------------------------------------------------------------------
(* One turn of the loop.                                                   *)

\* Where a section goes when no check fails: not before the cursors, within the
\* limit of the file and within the address space.
LEMMA PlaceIsAbove ==
    ASSUME NEW b, NEW source, IsSection(source), NEW o, IsOptions(o),
           b.file_cursor \in Nat, b.memory_cursor \in Nat,
           PlaceError(b, source, o) = "none"
    PROVE  /\ FileOffset(b, source, o) \in Nat
           /\ FileOffset(b, source, o) >= b.file_cursor
           /\ VirtualAddress(b, source, o) \in Nat
           /\ VirtualAddress(b, source, o) >= b.memory_cursor
           /\ FileOffset(b, source, o) + Len(source.data) <= MaxFileSize
           /\ VirtualAddress(b, source, o) + (Len(source.data) + source.zero_fill)
                <= MaxWord
<1> DEFINE fa == Greater(o.file_alignment, source.alignment)
           ma == Greater(o.memory_alignment, source.alignment)
           offset == FileOffset(b, source, o)
           va == VirtualAddress(b, source, o)
           size == Len(source.data)
<1>1. /\ AlignFits(b.file_cursor, fa) /\ AlignFits(b.memory_cursor, ma)
      /\ ~(offset > MaxFileSize) /\ ~(size > MaxFileSize - offset)
      /\ AddFits(va, size + source.zero_fill)
  BY DEF PlaceError
<1>2. fa \in Nat /\ ma \in Nat /\ size \in Nat /\ source.zero_fill \in Nat
  BY DEF Greater, IsOptions, IsSection
<1>3. /\ AlignUp(b.file_cursor, fa) \in Nat /\ AlignUp(b.file_cursor, fa) >= b.file_cursor
      /\ AlignUp(b.memory_cursor, ma) \in Nat
      /\ AlignUp(b.memory_cursor, ma) >= b.memory_cursor
  <2> HIDE DEF fa, ma
  <2> QED
    BY <1>1, <1>2, AlignUpIsAbove
<1>4. offset \in Nat /\ offset >= b.file_cursor /\ va \in Nat /\ va >= b.memory_cursor
  BY <1>3 DEF FileOffset, VirtualAddress
<1> HIDE DEF offset, va, size, fa, ma
<1>5. offset + size <= MaxFileSize /\ va + (size + source.zero_fill) <= MaxWord
  BY <1>1, <1>2, <1>4, BuilderAssumption, WordAssumption DEF AddFits
<1> QED
  BY <1>4, <1>5 DEF offset, va, size

\* resize and insert: the bytes that were there stay, and the data of the section
\* are at its offset.
LEMMA StoredBytes ==
    ASSUME NEW storage, IsVector(storage), NEW offset \in Nat,
           offset >= Len(storage), NEW data, IsVector(data)
    PROVE  /\ IsVector(Stored(storage, offset, data))
           /\ Len(Stored(storage, offset, data)) = offset + Len(data)
           /\ \A n \in 1..Len(storage) :
                 Stored(storage, offset, data)[n] = storage[n]
           /\ \A k \in 1..Len(data) :
                 Stored(storage, offset, data)[offset + k] = data[k]
<1> DEFINE pad == [n \in 1..(offset - Len(storage)) |-> Padding]
           filled == storage \o pad
<1>1. offset - Len(storage) \in Nat /\ Len(storage) \in Nat /\ Len(data) \in Nat
  BY DEF IsVector
<1>2. IsVector(pad) /\ Len(pad) = offset - Len(storage)
  BY <1>1, PaddingVector
<1> HIDE DEF pad
<1>3. /\ IsVector(filled) /\ Len(filled) = Len(storage) + Len(pad)
      /\ \A n \in 1..Len(storage) : filled[n] = storage[n]
  BY <1>2, ConcatVectors
<1>4. Len(filled) = offset
  BY <1>1, <1>2, <1>3
<1>5. /\ IsVector(filled \o data) /\ Len(filled \o data) = Len(filled) + Len(data)
      /\ \A n \in 1..Len(filled) : (filled \o data)[n] = filled[n]
      /\ \A k \in 1..Len(data) : (filled \o data)[Len(filled) + k] = data[k]
  <2>1. IsVector(filled) /\ IsVector(data)
    BY <1>3
  <2> QED
    BY <2>1, ConcatVectors
<1>6. ASSUME NEW n \in 1..Len(storage) PROVE (filled \o data)[n] = storage[n]
  <2>1. n \in 1..Len(filled)
    BY <1>1, <1>4
  <2> QED
    BY <1>3, <1>5, <2>1
<1>7. Stored(storage, offset, data) = filled \o data
  BY DEF Stored, filled, pad
<1> QED
  BY <1>4, <1>5, <1>6, <1>7

\* A section that was placed stays as it is when the file grows.
LEMMA SectionStays ==
    ASSUME NEW s, NEW m \in Nat, NEW source, IsSection(source), NEW storage,
           IsVector(storage), SectionOK(s, m, source, storage, Len(storage)),
           NEW grown, NEW cursor \in Nat, cursor >= Len(storage),
           \A n \in 1..Len(storage) : grown[n] = storage[n]
    PROVE  SectionOK(s, m, source, grown, cursor)
<1>1. /\ s.file_offset \in Nat /\ s.file_size = Len(source.data)
      /\ Len(source.data) \in Nat /\ Len(storage) \in Nat
      /\ s.file_offset + s.file_size <= Len(storage)
  BY DEF SectionOK, IsSection, IsVector
<1>2. \A k \in 1..Len(source.data) : s.file_offset + k \in 1..Len(storage)
  BY <1>1
<1>3. \A k \in 1..Len(source.data) : grown[s.file_offset + k] = source.data[k]
  BY <1>2 DEF SectionOK
<1>4. s.file_offset + s.file_size <= cursor
  BY <1>1
<1> QED
  BY <1>3, <1>4 DEF SectionOK

\* So does a segment that does not grow, when sections are added.
LEMMA SegmentStays ==
    ASSUME NEW t, NEW placed, IsVector(placed), NEW file \in Nat, NEW memory \in Nat,
           SegmentOK(t, placed, file, memory),
           NEW s, NEW file2 \in Nat, NEW memory2 \in Nat, file2 >= file, memory2 >= memory
    PROVE  SegmentOK(t, Append(placed, s), file2, memory2)
<1> DEFINE new == Append(placed, s)
<1>1. /\ Len(new) = Len(placed) + 1 /\ Len(placed) \in Nat
      /\ \A n \in 1..Len(placed) : new[n] = placed[n]
  BY AppendVector DEF IsVector
<1> HIDE DEF new
<1>2. \A j \in 1..Len(t.sections) : t.sections[j] \in 0..(Len(new) - 1)
  BY <1>1, SMTT(30) DEF SegmentOK
<1>3. Len(t.sections) = 1 => new[t.sections[1] + 1] = placed[t.sections[1] + 1]
  <2>1. SUFFICES ASSUME Len(t.sections) = 1 PROVE t.sections[1] + 1 \in 1..Len(placed)
    BY <1>1
  <2>2. 1 \in 1..Len(t.sections)
    BY <2>1
  <2>3. t.sections[1] \in 0..(Len(placed) - 1)
    BY <2>2 DEF SegmentOK
  <2> QED
    BY <1>1, <2>3
<1>4. /\ t.file_offset \in Nat /\ t.file_size \in Nat /\ t.virtual_address \in Nat
      /\ t.memory_size \in Nat /\ t.file_offset + t.file_size <= file
      /\ t.virtual_address + t.memory_size <= memory
  BY DEF SegmentOK
<1>5. t.file_offset + t.file_size <= file2 /\ t.virtual_address + t.memory_size <= memory2
  BY <1>4
<1>6. SegmentOK(t, new, file2, memory2)
  BY <1>2, <1>3, <1>5 DEF SegmentOK
<1> QED
  BY <1>6 DEF new

\* The section that a turn adds to the image.
NewSection(b, source, o) ==
    [index           |-> Len(b.sections),
     kind            |-> source.kind,
     file_offset     |-> FileOffset(b, source, o),
     file_size       |-> Len(source.data),
     virtual_address |-> VirtualAddress(b, source, o),
     memory_size     |-> Len(source.data) + source.zero_fill,
     alignment       |-> source.alignment,
     permissions     |-> source.permissions]

\* The segments after a turn.
NewSegments(b, s, source, o) ==
    IF StartsSegment(b.segments, source, o)
    THEN Append(b.segments, NewSegment(b, s, Greater(o.memory_alignment, source.alignment)))
    ELSE [b.segments EXCEPT ![Len(b.segments)] = Grown(@, s)]

\* Of a segment list: the holder of a section that is not the last stays the
\* holder when segments keep or grow and none of them comes to list it.
LEMMA HolderStays ==
    ASSUME NEW placed, NEW placed2, NEW segments, NEW segments2, NEW o, NEW m,
           Len(segments) \in Nat, Len(segments2) \in Nat,
           Len(segments2) >= Len(segments),
           HolderOK(placed, segments, m, o),
           placed2[m] = placed[m],
           \A g \in 1..Len(segments) :
              /\ Lists(segments2[g], m - 1) <=> Lists(segments[g], m - 1)
              /\ Lies(placed[m], segments[g], o) => Lies(placed[m], segments2[g], o),
           \A g \in 1..Len(segments2) :
              g \notin 1..Len(segments) => ~Lists(segments2[g], m - 1)
    PROVE  HolderOK(placed2, segments2, m, o)
<1>1. PICK g \in 1..Len(segments) :
         /\ Lies(placed[m], segments[g], o)
         /\ \A h \in 1..Len(segments) : Lists(segments[h], m - 1) <=> h = g
  BY DEF HolderOK
<1>2. g \in 1..Len(segments2)
  OBVIOUS
<1>3. Lies(placed2[m], segments2[g], o)
  BY <1>1
<1>4. \A h \in 1..Len(segments2) : Lists(segments2[h], m - 1) <=> h = g
  BY <1>1
<1> QED
  BY <1>2, <1>3, <1>4 DEF HolderOK

\* The first part of a turn: the section starts a segment.
LEMMA TurnStartsSegment ==
    ASSUME NEW b, NEW keys, NEW n \in Nat, NEW o, TurnOK(b, keys, n, o),
           NEW s, s.index = n, s.file_offset \in Nat, s.file_size \in Nat,
           s.virtual_address \in Nat, s.memory_size \in Nat,
           s.file_offset >= b.file_cursor, s.virtual_address >= b.memory_cursor,
           NEW alignment
    PROVE  LET segments == Append(b.segments, NewSegment(b, s, alignment))
               placed == Append(b.sections, s)
               file == s.file_offset + s.file_size
               memory == s.virtual_address + s.memory_size
           IN  /\ IsVector(segments) /\ Len(segments) <= n + 1
               /\ \A g \in 1..Len(segments) : SegmentOK(segments[g], placed, file, memory)
               /\ \A m \in 1..(n + 1) : HolderOK(placed, segments, m, o)
<1> DEFINE t == NewSegment(b, s, alignment)
           old == b.segments
           segments == Append(old, t)
           placed == Append(b.sections, s)
           file == s.file_offset + s.file_size
           memory == s.virtual_address + s.memory_size
<1>1. /\ IsVector(old) /\ Len(old) <= n /\ Len(old) \in Nat
      /\ IsVector(b.sections) /\ Len(b.sections) = n
      /\ b.file_cursor \in Nat /\ b.memory_cursor \in Nat
      /\ \A g \in 1..Len(old) :
            SegmentOK(old[g], b.sections, b.file_cursor, b.memory_cursor)
      /\ \A m \in 1..n : HolderOK(b.sections, old, m, o)
  BY WordAssumption DEF TurnOK, IsVector, Word
<1>2. /\ IsVector(segments) /\ Len(segments) = Len(old) + 1
      /\ \A g \in 1..Len(old) : segments[g] = old[g]
      /\ segments[Len(old) + 1] = t
  <2> HIDE DEF t, old
  <2> QED
    BY <1>1, AppendVector, ZenonT(40)
<1>3. /\ Len(placed) = n + 1 /\ placed[n + 1] = s
      /\ \A m \in 1..n : placed[m] = b.sections[m]
  BY <1>1, AppendVector
<1>4. /\ t.file_offset = s.file_offset /\ t.file_size = s.file_size
      /\ t.virtual_address = s.virtual_address /\ t.memory_size = s.memory_size
      /\ t.perms = s.permissions /\ t.sections = <<n>>
      /\ t = [file_offset |-> t.file_offset, file_size |-> t.file_size,
              virtual_address |-> t.virtual_address, memory_size |-> t.memory_size,
              alignment |-> t.alignment, perms |-> t.perms, sections |-> t.sections]
  BY DEF NewSegment
<1>5. IsVector(t.sections) /\ Len(t.sections) = 1 /\ t.sections[1] = n
      /\ \A i : Lists(t, i) <=> i = n
  <2>1. t.sections \in Seq({n}) /\ Len(t.sections) = 1 /\ t.sections[1] = n
    BY <1>4
  <2> HIDE DEF t
  <2> QED
    BY <2>1, SeqIsVector DEF Lists
<1>6. file \in Nat /\ memory \in Nat /\ file >= b.file_cursor /\ memory >= b.memory_cursor
  BY <1>1, SMTT(30)
<1> HIDE DEF t, old
<1>7. \A g \in 1..Len(old) : \A j \in 1..Len(old[g].sections) : old[g].sections[j] # n
  <2> TAKE g \in 1..Len(old)
  <2>1. SegmentOK(old[g], b.sections, b.file_cursor, b.memory_cursor)
    BY <1>1
  <2>2. \A j \in 1..Len(old[g].sections) : old[g].sections[j] \in 0..(n - 1)
    BY <1>1, <2>1 DEF SegmentOK
  <2> QED
    BY <2>2
<1>8. \A g \in 1..Len(old) : ~Lists(old[g], n)
  BY <1>7 DEF Lists
<1>9. SegmentOK(t, placed, file, memory)
  <2> HIDE DEF placed
  <2>1. /\ t.file_offset \in Nat /\ t.file_size \in Nat
        /\ t.virtual_address \in Nat /\ t.memory_size \in Nat
        /\ t.file_offset + t.file_size <= file
        /\ t.virtual_address + t.memory_size <= memory
    BY <1>4, <1>6
  <2>2. \A j \in 1..Len(t.sections) : t.sections[j] \in 0..(Len(placed) - 1)
    BY <1>3, <1>5
  <2>3. placed[t.sections[1] + 1] = s
    BY <1>3, <1>5
  <2> QED
    BY <1>4, <1>5, <2>1, <2>2, <2>3 DEF SegmentOK
<1>10. ASSUME NEW g \in 1..Len(segments) PROVE SegmentOK(segments[g], placed, file, memory)
  <2>1. CASE g \in 1..Len(old)
    <3>1. SegmentOK(old[g], b.sections, b.file_cursor, b.memory_cursor)
      BY <1>1, <2>1
    <3> HIDE DEF file, memory
    <3>2. SegmentOK(old[g], placed, file, memory)
      BY <1>1, <1>6, <3>1, SegmentStays
    <3> QED
      BY <1>2, <2>1, <3>2
  <2>2. CASE g \notin 1..Len(old)
    <3>1. g = Len(old) + 1
      BY <1>1, <1>2, <2>2
    <3> QED
      BY <1>2, <1>9, <3>1
  <2> QED
    BY <2>1, <2>2
<1>11. ASSUME NEW m \in 1..(n + 1) PROVE HolderOK(placed, segments, m, o)
  <2> HIDE DEF placed, segments
  <2>1. CASE m \in 1..n
    <3>1. HolderOK(b.sections, old, m, o) /\ placed[m] = b.sections[m]
      BY <1>1, <1>3, <2>1
    <3>2. \A g \in 1..Len(old) : segments[g] = old[g]
      BY <1>2
    <3>3. ASSUME NEW g \in 1..Len(segments), g \notin 1..Len(old)
          PROVE  ~Lists(segments[g], m - 1)
      <4>1. g = Len(old) + 1
        BY <1>1, <1>2, <3>3
      <4>2. m - 1 # n
        BY <2>1
      <4> QED
        BY <1>2, <1>5, <4>1, <4>2
    <3>4. Len(segments) \in Nat /\ Len(segments) >= Len(old)
      BY <1>1, <1>2
    <3> QED
      BY <1>1, <3>1, <3>2, <3>3, <3>4, HolderStays
  <2>2. CASE m = n + 1
    <3>1. Len(old) + 1 \in 1..Len(segments) /\ m - 1 = n
      BY <1>1, <1>2, <2>2
    <3>2. Lies(placed[m], segments[Len(old) + 1], o)
      <4>1. placed[m] = s /\ segments[Len(old) + 1] = t
        BY <1>2, <1>3, <2>2
      <4>2. Lies(s, t, o)
        BY <1>4 DEF Lies
      <4> QED
        BY <4>1, <4>2
    <3>3. ASSUME NEW h \in 1..Len(segments)
          PROVE  Lists(segments[h], m - 1) <=> h = Len(old) + 1
      <4>1. CASE h \in 1..Len(old)
        BY <1>1, <1>2, <1>8, <3>1, <4>1
      <4>2. CASE h \notin 1..Len(old)
        <5>1. h = Len(old) + 1
          BY <1>1, <1>2, <4>2
        <5> QED
          BY <1>2, <1>5, <3>1, <5>1
      <4> QED
        BY <4>1, <4>2
    <3> QED
      BY <3>1, <3>2, <3>3 DEF HolderOK
  <2> QED
    BY <2>1, <2>2
<1>12. Len(segments) <= n + 1
  BY <1>1, <1>2
<1> QED
  BY <1>2, <1>10, <1>11, <1>12 DEF t, old

\* An extent that is grown to the end of something behind it.
LEMMA GrownExtent ==
    ASSUME NEW start \in Nat, NEW size \in Nat, NEW cursor \in Nat,
           start + size <= cursor,
           NEW offset \in Nat, NEW length \in Nat, offset >= cursor
    PROVE  /\ offset + length \in Nat /\ offset + length >= cursor
           /\ start <= offset
           /\ offset + length - start \in Nat
           /\ offset + length - start >= size
           /\ start + (offset + length - start) = offset + length
OBVIOUS

\* The section s of a turn: it is number n, behind the cursors.
Follows(s, n, file, memory) ==
    /\ s.index = n
    /\ s.file_offset \in Nat /\ s.file_size \in Nat
    /\ s.virtual_address \in Nat /\ s.memory_size \in Nat
    /\ s.file_offset >= file /\ s.virtual_address >= memory

SamePermissions(s, t, o) == o.separate_permissions => s.permissions = t.perms

\* The last segment, extended over a section that lies behind it: it holds what
\* it held, and the section.
LEMMA GrownSegment ==
    ASSUME NEW t, NEW placed, IsVector(placed), NEW file \in Nat, NEW memory \in Nat,
           SegmentOK(t, placed, file, memory),
           NEW s, Follows(s, Len(placed), file, memory)
    PROVE  /\ SegmentOK(Grown(t, s), Append(placed, s), s.file_offset + s.file_size,
                        s.virtual_address + s.memory_size)
           /\ \A i : Lists(Grown(t, s), i) <=> Lists(t, i) \/ i = Len(placed)
           /\ \A x, o : (/\ x.file_offset \in Nat /\ x.file_size \in Nat
                         /\ x.virtual_address \in Nat /\ x.memory_size \in Nat
                         /\ Lies(x, t, o)) => Lies(x, Grown(t, s), o)
           /\ \A o : SamePermissions(s, t, o) => Lies(s, Grown(t, s), o)
<1> DEFINE u == Grown(t, s)
           new == Append(placed, s)
           list == Append(t.sections, s.index)
<1>0. t = [file_offset |-> t.file_offset, file_size |-> t.file_size,
           virtual_address |-> t.virtual_address, memory_size |-> t.memory_size,
           alignment |-> t.alignment, perms |-> t.perms, sections |-> t.sections]
  BY DEF SegmentOK
<1>1. /\ t.file_offset \in Nat /\ t.file_size \in Nat
      /\ t.virtual_address \in Nat /\ t.memory_size \in Nat
      /\ t.file_offset + t.file_size <= file
      /\ t.virtual_address + t.memory_size <= memory
  BY DEF SegmentOK
<1>13. /\ IsVector(t.sections) /\ Len(t.sections) > 0
       /\ \A j \in 1..Len(t.sections) : t.sections[j] \in 0..(Len(placed) - 1)
  BY DEF SegmentOK
<1>2. u = [file_offset |-> t.file_offset,
           file_size |-> s.file_offset + s.file_size - t.file_offset,
           virtual_address |-> t.virtual_address,
           memory_size |-> s.virtual_address + s.memory_size - t.virtual_address,
           alignment |-> t.alignment, perms |-> t.perms, sections |-> list]
  <2> DEFINE fs == s.file_offset + s.file_size - t.file_offset
             ms == s.virtual_address + s.memory_size - t.virtual_address
  <2>1. u = [t EXCEPT !.file_size = fs, !.memory_size = ms, !.sections = list]
    BY DEF Grown
  <2> HIDE DEF fs, ms, u, list
  <2>2. u = [file_offset |-> t.file_offset, file_size |-> fs,
             virtual_address |-> t.virtual_address, memory_size |-> ms,
             alignment |-> t.alignment, perms |-> t.perms, sections |-> list]
    BY <1>0, <2>1
  <2> QED
    BY <2>2 DEF fs, ms
<1>3. /\ Len(new) = Len(placed) + 1 /\ Len(placed) \in Nat
  BY AppendVector DEF IsVector
<1>4. /\ IsVector(list) /\ Len(list) = Len(t.sections) + 1 /\ Len(t.sections) \in Nat
      /\ \A j \in 1..Len(t.sections) : list[j] = t.sections[j]
      /\ list[Len(t.sections) + 1] = Len(placed)
  <2>1. s.index = Len(placed)
    BY DEF Follows
  <2> QED
    BY <1>13, <2>1, AppendVector DEF IsVector
<1> HIDE DEF u, new, list
<1>5. /\ u.file_offset = t.file_offset /\ u.virtual_address = t.virtual_address
      /\ u.perms = t.perms /\ u.sections = list /\ u.alignment = t.alignment
      /\ u.file_size = s.file_offset + s.file_size - t.file_offset
      /\ u.memory_size = s.virtual_address + s.memory_size - t.virtual_address
  BY <1>2
<1>6. /\ u.file_size \in Nat /\ u.memory_size \in Nat
      /\ u.file_size >= t.file_size /\ u.memory_size >= t.memory_size
      /\ u.file_offset + u.file_size = s.file_offset + s.file_size
      /\ u.virtual_address + u.memory_size = s.virtual_address + s.memory_size
      /\ u.file_offset <= s.file_offset /\ u.virtual_address <= s.virtual_address
      /\ s.file_offset + s.file_size \in Nat
      /\ s.virtual_address + s.memory_size \in Nat
  <2>1. /\ s.file_offset \in Nat /\ s.file_size \in Nat /\ s.file_offset >= file
        /\ s.virtual_address \in Nat /\ s.memory_size \in Nat
        /\ s.virtual_address >= memory
    BY DEF Follows
  <2>2. /\ s.file_offset + s.file_size - t.file_offset \in Nat
        /\ s.file_offset + s.file_size - t.file_offset >= t.file_size
        /\ t.file_offset + (s.file_offset + s.file_size - t.file_offset)
             = s.file_offset + s.file_size
        /\ t.file_offset <= s.file_offset /\ s.file_offset + s.file_size \in Nat
    <3> DEFINE a == s.file_offset
               l == s.file_size
               c == t.file_offset
               z == t.file_size
    <3>1. /\ a \in Nat /\ l \in Nat /\ c \in Nat /\ z \in Nat
          /\ c + z <= file /\ a >= file
      BY <1>1, <2>1
    <3> HIDE DEF a, l, c, z
    <3>2. /\ a + l - c \in Nat /\ a + l - c >= z /\ c + (a + l - c) = a + l /\ c <= a
          /\ a + l \in Nat
      BY <3>1, GrownExtent
    <3> QED
      BY <3>2 DEF a, l, c, z
  <2>3. /\ s.virtual_address + s.memory_size - t.virtual_address \in Nat
        /\ s.virtual_address + s.memory_size - t.virtual_address >= t.memory_size
        /\ t.virtual_address + (s.virtual_address + s.memory_size - t.virtual_address)
             = s.virtual_address + s.memory_size
        /\ t.virtual_address <= s.virtual_address
        /\ s.virtual_address + s.memory_size \in Nat
    <3> DEFINE a == s.virtual_address
               l == s.memory_size
               c == t.virtual_address
               z == t.memory_size
    <3>1. /\ a \in Nat /\ l \in Nat /\ c \in Nat /\ z \in Nat
          /\ c + z <= memory /\ a >= memory
      BY <1>1, <2>1
    <3> HIDE DEF a, l, c, z
    <3>2. /\ a + l - c \in Nat /\ a + l - c >= z /\ c + (a + l - c) = a + l /\ c <= a
          /\ a + l \in Nat
      BY <3>1, GrownExtent
    <3> QED
      BY <3>2 DEF a, l, c, z
  <2> QED
    BY <1>5, <2>2, <2>3, Zenon
<1>7. \A j \in 1..Len(list) : j \in 1..Len(t.sections) \/ j = Len(t.sections) + 1
  BY <1>4
<1>8. \A j \in 1..Len(list) : list[j] \in 0..(Len(new) - 1)
  <2> TAKE j \in 1..Len(list)
  <2>1. CASE j \in 1..Len(t.sections)
    <3>1. list[j] = t.sections[j] /\ t.sections[j] \in 0..(Len(placed) - 1)
      BY <1>4, <1>13, <2>1
    <3> QED
      BY <1>3, <3>1
  <2>2. CASE j = Len(t.sections) + 1
    <3>1. list[j] = Len(placed)
      BY <1>4, <2>2
    <3> QED
      BY <1>3, <3>1
  <2> QED
    BY <1>7, <2>1, <2>2
<1>9. SegmentOK(u, new, s.file_offset + s.file_size, s.virtual_address + s.memory_size)
  <2>1. u = [file_offset |-> u.file_offset, file_size |-> u.file_size,
             virtual_address |-> u.virtual_address, memory_size |-> u.memory_size,
             alignment |-> u.alignment, perms |-> u.perms, sections |-> u.sections]
    BY <1>2, <1>5
  <2>2. Len(u.sections) > 0 /\ Len(u.sections) # 1 /\ IsVector(u.sections)
    BY <1>13, <1>4, <1>5
  <2>3. \A j \in 1..Len(u.sections) : u.sections[j] \in 0..(Len(new) - 1)
    BY <1>5, <1>8
  <2> QED
    BY <1>1, <1>5, <1>6, <2>1, <2>2, <2>3, SMTT(60) DEF SegmentOK
<1>10. ASSUME NEW i PROVE Lists(u, i) <=> Lists(t, i) \/ i = Len(placed)
  <2>1. ASSUME Lists(u, i) PROVE Lists(t, i) \/ i = Len(placed)
    BY <1>4, <1>5, <1>7, <2>1 DEF Lists
  <2>2. ASSUME Lists(t, i) PROVE Lists(u, i)
    <3>1. PICK j \in 1..Len(t.sections) : t.sections[j] = i
      BY <2>2 DEF Lists
    <3>2. j \in 1..Len(list) /\ list[j] = i
      BY <1>4, <3>1
    <3> QED
      BY <1>5, <3>2 DEF Lists
  <2>3. ASSUME i = Len(placed) PROVE Lists(u, i)
    <3>1. Len(t.sections) + 1 \in 1..Len(list)
      BY <1>4
    <3> QED
      BY <1>4, <1>5, <2>3, <3>1 DEF Lists
  <2> QED
    BY <2>1, <2>2, <2>3
<1>11. ASSUME NEW x, NEW o,
              x.file_offset \in Nat, x.file_size \in Nat,
              x.virtual_address \in Nat, x.memory_size \in Nat, Lies(x, t, o)
       PROVE  Lies(x, u, o)
  <2>1. /\ t.file_offset <= x.file_offset
        /\ x.file_offset + x.file_size <= t.file_offset + t.file_size
        /\ t.virtual_address <= x.virtual_address
        /\ x.virtual_address + x.memory_size <= t.virtual_address + t.memory_size
        /\ o.separate_permissions => x.permissions = t.perms
    BY <1>11 DEF Lies
  <2>2. x.file_offset + x.file_size <= u.file_offset + u.file_size
    <3>1. u.file_offset = t.file_offset /\ u.file_size >= t.file_size /\ u.file_size \in Nat
      BY <1>5, <1>6
    <3> DEFINE e == x.file_offset + x.file_size
               c == t.file_offset
               z == t.file_size
               w == u.file_size
    <3>2. e \in Nat /\ c \in Nat /\ z \in Nat /\ w \in Nat /\ e <= c + z /\ w >= z
      BY <1>1, <1>11, <2>1, <3>1, SMTT(30)
    <3> HIDE DEF e, c, z, w
    <3>3. e <= c + w
      BY <3>2
    <3> QED
      BY <3>1, <3>3 DEF e, c, w
  <2>3. x.virtual_address + x.memory_size <= u.virtual_address + u.memory_size
    <3>1. u.virtual_address = t.virtual_address /\ u.memory_size >= t.memory_size
          /\ u.memory_size \in Nat
      BY <1>5, <1>6
    <3> DEFINE e == x.virtual_address + x.memory_size
               c == t.virtual_address
               z == t.memory_size
               w == u.memory_size
    <3>2. e \in Nat /\ c \in Nat /\ z \in Nat /\ w \in Nat /\ e <= c + z /\ w >= z
      BY <1>1, <1>11, <2>1, <3>1, SMTT(30)
    <3> HIDE DEF e, c, z, w
    <3>3. e <= c + w
      BY <3>2
    <3> QED
      BY <3>1, <3>3 DEF e, c, w
  <2> QED
    BY <1>5, <2>1, <2>2, <2>3 DEF Lies
<1>12. ASSUME NEW o, SamePermissions(s, t, o)
       PROVE  Lies(s, u, o)
  <2>1. /\ s.file_offset + s.file_size <= u.file_offset + u.file_size
        /\ s.virtual_address + s.memory_size <= u.virtual_address + u.memory_size
    BY <1>6
  <2>2. o.separate_permissions => s.permissions = u.perms
    BY <1>5, <1>12 DEF SamePermissions
  <2> QED
    BY <1>6, <2>1, <2>2 DEF Lies
<1> QED
  BY <1>9, <1>10, <1>11, <1>12 DEF u, new

\* The other part: the section goes to the end of the last segment.
LEMMA TurnGrowsSegment ==
    ASSUME NEW b, NEW keys, NEW n \in Nat, NEW o, TurnOK(b, keys, n, o),
           NEW s, Follows(s, n, b.file_cursor, b.memory_cursor),
           \A m \in 1..n : IsSection(Sections[keys[m]]),
           Len(b.segments) > 0,
           SamePermissions(s, b.segments[Len(b.segments)], o)
    PROVE  LET segments == [b.segments EXCEPT ![Len(b.segments)] = Grown(@, s)]
               placed == Append(b.sections, s)
               file == s.file_offset + s.file_size
               memory == s.virtual_address + s.memory_size
           IN  /\ IsVector(segments) /\ Len(segments) <= n + 1
               /\ \A g \in 1..Len(segments) : SegmentOK(segments[g], placed, file, memory)
               /\ \A m \in 1..(n + 1) : HolderOK(placed, segments, m, o)
<1> DEFINE old == b.segments
           z == Len(old)
           u == Grown(old[z], s)
           segments == [old EXCEPT ![z] = Grown(@, s)]
           placed == Append(b.sections, s)
           file == s.file_offset + s.file_size
           memory == s.virtual_address + s.memory_size
<1>1. /\ IsVector(old) /\ z <= n /\ z \in Nat /\ z \in 1..z
      /\ IsVector(b.sections) /\ Len(b.sections) = n
      /\ b.file_cursor \in Nat /\ b.memory_cursor \in Nat
      /\ \A g \in 1..z :
            SegmentOK(old[g], b.sections, b.file_cursor, b.memory_cursor)
      /\ \A m \in 1..n : HolderOK(b.sections, old, m, o)
      /\ \A m \in 1..n : SectionOK(b.sections[m], m, Sections[keys[m]], b.storage,
                                   b.file_cursor)
  <2>1. /\ IsVector(old) /\ z <= n /\ IsVector(b.sections) /\ Len(b.sections) = n
        /\ IsVector(b.storage) /\ Len(b.storage) = b.file_cursor
        /\ b.memory_cursor \in Word
        /\ \A g \in 1..z :
              SegmentOK(old[g], b.sections, b.file_cursor, b.memory_cursor)
        /\ \A m \in 1..n : HolderOK(b.sections, old, m, o)
        /\ \A m \in 1..n : SectionOK(b.sections[m], m, Sections[keys[m]], b.storage,
                                     b.file_cursor)
    BY DEF TurnOK
  <2>2. z \in Nat /\ z \in 1..z /\ b.file_cursor \in Nat /\ b.memory_cursor \in Nat
    BY <2>1, WordAssumption DEF IsVector, Word
  <2> QED
    BY <2>1, <2>2
<1>2. /\ IsVector(segments) /\ Len(segments) = z
      /\ \A g \in 1..z : segments[g] = IF g = z THEN u ELSE old[g]
  <2>1. segments = [g \in 1..z |-> IF g = z THEN u ELSE old[g]]
    <3>1. old = [g \in 1..z |-> old[g]]
      BY <1>1 DEF IsVector
    <3> HIDE DEF old, z
    <3> QED
      BY <3>1
  <2> DEFINE S == {IF g = z THEN u ELSE old[g] : g \in 1..z}
  <2>2. segments \in [1..z -> S]
    BY <2>1
  <2> HIDE DEF segments, S, z, u, old
  <2>3. segments \in Seq(S) /\ Len(segments) = z
    BY <1>1, <2>2
  <2> QED
    BY <2>1, <2>3, SeqIsVector
<1>3. /\ Len(placed) = n + 1 /\ placed[n + 1] = s
      /\ \A m \in 1..n : placed[m] = b.sections[m]
  BY <1>1, AppendVector
<1>10. b.file_cursor \in Nat /\ b.memory_cursor \in Nat
  BY <1>1
<1>4. file \in Nat /\ memory \in Nat /\ file >= b.file_cursor /\ memory >= b.memory_cursor
  <2> DEFINE a == s.file_offset
             l == s.file_size
             v == s.virtual_address
             w == s.memory_size
             c == b.file_cursor
             d == b.memory_cursor
  <2>1. /\ a \in Nat /\ l \in Nat /\ v \in Nat /\ w \in Nat
        /\ a >= c /\ v >= d /\ c \in Nat /\ d \in Nat
    BY <1>10 DEF Follows
  <2> HIDE DEF a, l, v, w, c, d
  <2>2. a + l \in Nat /\ v + w \in Nat /\ a + l >= c /\ v + w >= d
    BY <2>1
  <2> QED
    BY <2>2 DEF a, l, v, w, c, d
<1>5. /\ SegmentOK(u, placed, file, memory)
      /\ \A i : Lists(u, i) <=> Lists(old[z], i) \/ i = n
      /\ \A x, p : (/\ x.file_offset \in Nat /\ x.file_size \in Nat
                    /\ x.virtual_address \in Nat /\ x.memory_size \in Nat
                    /\ Lies(x, old[z], p)) => Lies(x, u, p)
      /\ Lies(s, u, o)
  <2>1. SegmentOK(old[z], b.sections, b.file_cursor, b.memory_cursor)
    BY <1>1
  <2> DEFINE t == old[z]
             ps == b.sections
             fc == b.file_cursor
             mc == b.memory_cursor
  <2>2. SegmentOK(t, ps, fc, mc) /\ IsVector(ps) /\ fc \in Nat /\ mc \in Nat
    BY <1>1, <2>1
  <2>3. SamePermissions(s, t, o) /\ Follows(s, Len(ps), fc, mc) /\ Len(ps) = n
    BY <1>1
  <2> HIDE DEF t, ps, fc, mc
  <2>4. /\ SegmentOK(Grown(t, s), Append(ps, s), s.file_offset + s.file_size,
                     s.virtual_address + s.memory_size)
        /\ \A i : Lists(Grown(t, s), i) <=> Lists(t, i) \/ i = Len(ps)
        /\ \A x, p : (/\ x.file_offset \in Nat /\ x.file_size \in Nat
                      /\ x.virtual_address \in Nat /\ x.memory_size \in Nat
                      /\ Lies(x, t, p)) => Lies(x, Grown(t, s), p)
        /\ \A p : SamePermissions(s, t, p) => Lies(s, Grown(t, s), p)
    BY <2>2, <2>3, GrownSegment
  <2>5. Lies(s, Grown(t, s), o)
    BY <2>3, <2>4
  <2>6. \A i : Lists(Grown(t, s), i) <=> Lists(t, i) \/ i = n
    BY <2>3, <2>4
  <2>7. u = Grown(t, s) /\ placed = Append(ps, s)
    BY DEF t, ps
  <2>8. file = s.file_offset + s.file_size /\ memory = s.virtual_address + s.memory_size
    OBVIOUS
  <2>9. old[z] = t
    BY DEF t
  <2> HIDE DEF u, placed, file, memory, old, z
  <2> QED
    BY <2>4, <2>5, <2>6, <2>7, <2>8, <2>9, Zenon
<1> HIDE DEF u, old, z
<1>6. \A g \in 1..z : ~Lists(old[g], n)
  <2> TAKE g \in 1..z
  <2>1. SegmentOK(old[g], b.sections, b.file_cursor, b.memory_cursor)
    BY <1>1
  <2>2. \A j \in 1..Len(old[g].sections) : old[g].sections[j] \in 0..(n - 1)
    BY <1>1, <2>1 DEF SegmentOK
  <2>3. \A j \in 1..Len(old[g].sections) : old[g].sections[j] # n
    BY <2>2
  <2> QED
    BY <2>3 DEF Lists
<1> HIDE DEF segments
<1>7. ASSUME NEW g \in 1..Len(segments) PROVE SegmentOK(segments[g], placed, file, memory)
  <2>1. CASE g = z
    BY <1>2, <1>5, <2>1
  <2>2. CASE g # z
    <3>1. SegmentOK(old[g], b.sections, b.file_cursor, b.memory_cursor)
      BY <1>1, <1>2
    <3> HIDE DEF file, memory
    <3>2. SegmentOK(old[g], placed, file, memory)
      BY <1>1, <1>4, <3>1, SegmentStays
    <3> QED
      BY <1>2, <2>2, <3>2
  <2> QED
    BY <2>1, <2>2
<1> HIDE DEF placed, file, memory
<1>8. ASSUME NEW m \in 1..(n + 1) PROVE HolderOK(placed, segments, m, o)
  <2>1. CASE m \in 1..n
    <3> DEFINE x == b.sections[m]
    <3>1. HolderOK(b.sections, old, m, o) /\ placed[m] = x
      BY <1>1, <1>3, <2>1
    <3>2. /\ x.file_offset \in Nat /\ x.file_size \in Nat
          /\ x.virtual_address \in Nat /\ x.memory_size \in Nat
      <4>1. /\ SectionOK(x, m, Sections[keys[m]], b.storage, b.file_cursor)
            /\ IsSection(Sections[keys[m]])
        BY <1>1, <2>1
      <4> HIDE DEF x
      <4> QED
        BY <4>1, SMTT(30) DEF SectionOK, IsSection
    <3> HIDE DEF x
    <3>3. ASSUME NEW g \in 1..z
          PROVE  /\ Lists(segments[g], m - 1) <=> Lists(old[g], m - 1)
                 /\ Lies(x, old[g], o) => Lies(x, segments[g], o)
      <4>1. m - 1 # n
        BY <2>1
      <4>2. CASE g = z
        BY <1>2, <1>5, <3>2, <4>1, <4>2
      <4>3. CASE g # z
        BY <1>2, <4>3
      <4> QED
        BY <4>2, <4>3
    <3> QED
      BY <1>1, <1>2, <3>1, <3>3, HolderStays DEF x, z
  <2>2. CASE m = n + 1
    <3>1. m - 1 = n /\ placed[m] = s /\ segments[z] = u
      BY <1>1, <1>2, <1>3, <2>2
    <3>2. ASSUME NEW h \in 1..Len(segments) PROVE Lists(segments[h], m - 1) <=> h = z
      BY <1>1, <1>2, <1>5, <1>6, <3>1
    <3> QED
      BY <1>1, <1>2, <1>5, <3>1, <3>2 DEF HolderOK
  <2> QED
    BY <2>1, <2>2
<1>9. Len(segments) <= n + 1
  BY <1>1, <1>2
<1> QED
  BY <1>2, <1>7, <1>8, <1>9 DEF segments, placed, file, memory, old, z

\* A turn adds a segment behind the others, or moves the end of the last one.
LEMMA SegmentsGrowApart ==
    ASSUME NEW b, NEW keys, NEW n \in Nat, NEW o, TurnOK(b, keys, n, o),
           NEW source, source = Sections[keys[n + 1]],
           NEW s, s.virtual_address \in Nat, s.virtual_address >= b.memory_cursor,
           Len(b.segments) = 0 => StartsSegment(b.segments, source, o)
    PROVE  /\ SegmentsApart(NewSegments(b, s, source, o))
           /\ SegmentsAligned(NewSegments(b, s, source, o), keys, n + 1, o)
<1> DEFINE old == b.segments
           L == Len(b.segments)
           new == NewSegments(b, s, source, o)
           End(t) == t.virtual_address + t.memory_size
<1>1. /\ IsVector(old) /\ L \in Nat /\ b.memory_cursor \in Nat
      /\ \A g, h \in 1..L : g < h => End(old[g]) <= old[h].virtual_address
      /\ \A g \in 1..L : \/ old[g].alignment = o.memory_alignment
                         \/ \E m \in 1..n : old[g].alignment = Sections[keys[m]].alignment
  <2>1. IsVector(old) /\ b.memory_cursor \in Nat
    BY WordAssumption DEF TurnOK, Word
  <2>2. SegmentsApart(old) /\ SegmentsAligned(old, keys, n, o)
    BY DEF TurnOK
  <2> QED
    BY <2>1, <2>2 DEF IsVector, SegmentsApart, SegmentsAligned
<1>2. ASSUME NEW g \in 1..L
      PROVE  /\ End(old[g]) \in Nat /\ End(old[g]) <= s.virtual_address
             /\ old[g] = [file_offset |-> old[g].file_offset,
                          file_size |-> old[g].file_size,
                          virtual_address |-> old[g].virtual_address,
                          memory_size |-> old[g].memory_size,
                          alignment |-> old[g].alignment, perms |-> old[g].perms,
                          sections |-> old[g].sections]
  <2>1. SegmentOK(old[g], b.sections, b.file_cursor, b.memory_cursor)
    BY DEF TurnOK
  <2> DEFINE v == old[g].virtual_address
             w == old[g].memory_size
             a == s.virtual_address
             c == b.memory_cursor
  <2>2. v \in Nat /\ w \in Nat /\ v + w <= c /\ a \in Nat /\ a >= c
    BY <2>1 DEF SegmentOK
  <2>3. v + w \in Nat /\ v + w <= a
    <3> HIDE DEF v, w, a, c
    <3> QED
      BY <1>1, <2>2 DEF c
  <2> QED
    BY <2>1, <2>3 DEF SegmentOK
<1>3. CASE StartsSegment(old, source, o)
  <2> DEFINE alignment == Greater(o.memory_alignment, source.alignment)
             t == NewSegment(b, s, alignment)
  <2>1. new = Append(old, t)
    BY <1>3 DEF NewSegments
  <2>2. t.virtual_address = s.virtual_address /\ t.alignment = alignment
    BY DEF NewSegment
  <2>3. alignment = o.memory_alignment \/ alignment = source.alignment
    BY DEF Greater
  <2> HIDE DEF t, alignment, new
  <2>4. /\ Len(new) = L + 1 /\ new[L + 1] = t
        /\ \A g \in 1..L : new[g] = old[g]
    BY <1>1, <2>1, AppendVector
  <2>5. ASSUME NEW g \in 1..Len(new), NEW h \in 1..Len(new), g < h
        PROVE  End(new[g]) <= new[h].virtual_address
    <3>1. g \in 1..L /\ new[g] = old[g]
      BY <1>1, <2>4, <2>5
    <3>2. CASE h = L + 1
      BY <1>2, <2>2, <2>4, <3>1, <3>2
    <3>3. CASE h # L + 1
      <4>1. h \in 1..L /\ new[h] = old[h]
        BY <1>1, <2>4, <3>3
      <4> QED
        BY <1>1, <2>5, <3>1, <4>1
    <3> QED
      BY <3>2, <3>3
  <2>6. ASSUME NEW g \in 1..Len(new)
        PROVE  \/ new[g].alignment = o.memory_alignment
               \/ \E m \in 1..(n + 1) : new[g].alignment = Sections[keys[m]].alignment
    <3>1. CASE g = L + 1
      <4>1. n + 1 \in 1..(n + 1)
        OBVIOUS
      <4> QED
        BY <2>2, <2>3, <2>4, <3>1, <4>1
    <3>2. CASE g # L + 1
      <4>1. g \in 1..L /\ new[g] = old[g]
        BY <1>1, <2>4, <3>2
      <4>2. \A m \in 1..n : m \in 1..(n + 1)
        OBVIOUS
      <4> QED
        BY <1>1, <4>1, <4>2
    <3> QED
      BY <3>1, <3>2
  <2> QED
    BY <2>5, <2>6 DEF SegmentsApart, SegmentsAligned, new
<1>4. CASE ~StartsSegment(old, source, o)
  <2> DEFINE x == old[L]
             y == Grown(x, s)
  <2>1. L > 0 /\ L \in 1..L
    BY <1>1, <1>4
  <2>2. y.virtual_address = x.virtual_address /\ y.alignment = x.alignment
    <3> DEFINE u == s.file_offset + s.file_size - x.file_offset
               v == s.virtual_address + s.memory_size - x.virtual_address
               w == Append(x.sections, s.index)
    <3>1. y = [x EXCEPT !.file_size = u, !.memory_size = v, !.sections = w]
      BY DEF Grown
    <3>2. x = [file_offset |-> x.file_offset, file_size |-> x.file_size,
               virtual_address |-> x.virtual_address, memory_size |-> x.memory_size,
               alignment |-> x.alignment, perms |-> x.perms, sections |-> x.sections]
      BY <1>2, <2>1
    <3> HIDE DEF x, y, u, v, w
    <3> QED
      BY <3>1, <3>2
  <2>3. new = [g \in 1..L |-> IF g = L THEN y ELSE old[g]]
    <3>1. new = [old EXCEPT ![L] = y]
      BY <1>4 DEF NewSegments
    <3>2. old = [g \in 1..L |-> old[g]]
      BY <1>1 DEF IsVector
    <3> HIDE DEF y, L, new
    <3> QED
      BY <2>1, <3>1, <3>2
  <2> HIDE DEF y, new
  <2>4. Len(new) = L /\ \A g \in 1..L : new[g] = IF g = L THEN y ELSE old[g]
    <3> HIDE DEF L
    <3> QED
      BY <1>1, <2>3
  <2>5. ASSUME NEW g \in 1..L
        PROVE  /\ new[g].virtual_address = old[g].virtual_address
               /\ new[g].alignment = old[g].alignment
               /\ g # L => new[g] = old[g]
    BY <2>2, <2>4
  <2>6. \A g, h \in 1..L : g < h => g # L
    BY <1>1
  <2>7. SegmentsApart(new)
    BY <1>1, <2>4, <2>5, <2>6 DEF SegmentsApart
  <2>8. \A m \in 1..n : m \in 1..(n + 1)
    OBVIOUS
  <2>9. SegmentsAligned(new, keys, n + 1, o)
    BY <1>1, <2>4, <2>5, <2>8 DEF SegmentsAligned
  <2> QED
    BY <2>7, <2>9 DEF new
<1> QED
  BY <1>3, <1>4

-----------------------------------------------------------------------------
(* How far segments grow.                                                  *)

\* Between the start of a segment and a section that is added to it, alignment
\* takes no more of the file than of memory, unless gaps may differ.
LEMMA GapInFile ==
    ASSUME NEW fa \in Nat, NEW ma \in Nat, NEW a \in Nat, NEW c \in Nat,
           IsPowerOfTwo(fa), IsPowerOfTwo(ma), IsPowerOfTwo(a), IsPowerOfTwo(c),
           fa <= ma, c <= Greater(fa, a),
           NEW f \in Nat, NEW fs \in Nat, NEW v \in Nat, NEW ms \in Nat, fs <= ms,
           Divides(Greater(fa, a), f), Divides(Greater(ma, a), v),
           AlignFits(f + fs, Greater(fa, c)), AlignFits(v + ms, Greater(ma, c))
    PROVE  AlignUp(f + fs, Greater(fa, c)) - f <= AlignUp(v + ms, Greater(ma, c)) - v
<1> DEFINE F == Greater(fa, a)
           M == Greater(ma, a)
           Fc == Greater(fa, c)
           Mc == Greater(ma, c)
<1>1. /\ F \in Nat /\ M \in Nat /\ Fc \in Nat /\ Mc \in Nat
      /\ Fc <= F /\ F <= M /\ Fc <= Mc
      /\ IsPowerOfTwo(F) /\ IsPowerOfTwo(M) /\ IsPowerOfTwo(Fc) /\ IsPowerOfTwo(Mc)
  BY DEF Greater
<1>2. Fc > 0
  BY <1>1 DEF IsPowerOfTwo
<1> DEFINE p == AlignUp(f + fs, Fc)
           q == AlignUp(v + ms, Mc)
<1> HIDE DEF F, M, Fc, Mc
<1>3. AlignFits(f + fs, Fc) /\ AlignFits(v + ms, Mc) /\ Divides(F, f) /\ Divides(M, v)
  BY DEF F, M, Fc, Mc
<1>4. f + fs \in Nat /\ v + ms \in Nat
  OBVIOUS
<1>5. q \in Nat /\ q >= v + ms /\ Divides(Mc, q)
  BY <1>1, <1>3, <1>4, AlignUpIsAbove, AlignUpIsLeast
<1>6. \A x \in Nat : x >= f + fs /\ Divides(Fc, x) => p <= x
  BY <1>1, <1>3, <1>4, AlignUpIsLeast
<1>7. p \in Nat
  BY <1>1, <1>3, <1>4, AlignUpIsAbove
<1> HIDE DEF p, q
<1>8. Divides(Fc, f) /\ Divides(Fc, v) /\ Divides(Fc, q)
  <2>1. Divides(Fc, F) /\ Divides(F, M) /\ Divides(Fc, Mc)
    BY <1>1, PowersDivide
  <2>2. Divides(Fc, f)
    BY <1>1, <1>3, <2>1, DividesTrans
  <2>3. Divides(Fc, v)
    <3>1. Divides(Fc, M)
      BY <1>1, <2>1, DividesTrans
    <3> QED
      BY <1>1, <1>3, <3>1, DividesTrans
  <2>4. Divides(Fc, q)
    BY <1>1, <1>5, <2>1, DividesTrans
  <2> QED
    BY <2>2, <2>3, <2>4
<1>9. Divides(Fc, f + (q - v)) /\ f + (q - v) \in Nat /\ f + (q - v) >= f + fs
  <2>1. v <= q
    BY <1>5
  <2>2. Divides(Fc, f + (q - v))
    BY <1>1, <1>2, <1>5, <1>8, <2>1, DividesShift
  <2> QED
    BY <1>5, <2>1, <2>2
<1>10. p <= f + (q - v)
  BY <1>6, <1>9
<1>11. p - f <= q - v
  BY <1>5, <1>7, <1>10
<1> QED
  BY <1>11 DEF p, q, Fc, Mc

\* A segment starts where its first section is aligned to.
StartsAligned(t, placed, o) ==
    LET a == placed[t.sections[1] + 1].alignment
    IN  /\ Divides(Greater(o.file_alignment, a), t.file_offset)
        /\ Divides(Greater(o.memory_alignment, a), t.virtual_address)

\* It is no longer in the file than in memory, unless gaps may differ.
GrownAlike(t, placed, o) ==
    \/ GapsMayDiffer(t, placed, o)
    \/ t.file_size <= t.memory_size

\* This holds of every segment, and the last ends at the cursors.
GrowthOK(b, o) ==
    /\ \A g \in 1..Len(b.segments) : /\ StartsAligned(b.segments[g], b.sections, o)
                                     /\ GrownAlike(b.segments[g], b.sections, o)
    /\ Len(b.segments) > 0 =>
          LET t == b.segments[Len(b.segments)]
          IN  /\ t.file_offset + t.file_size = b.file_cursor
              /\ t.virtual_address + t.memory_size = b.memory_cursor

\* The alignments are valid: of the options and of the first n sections.
AlignmentsOK(keys, n, o) ==
    /\ OptionsError(o) = "none"
    /\ \A m \in 1..n : IsPowerOfTwo(Sections[keys[m]].alignment)

\* A section that is added elsewhere changes nothing of a segment.
LEMMA GrowthStays ==
    ASSUME NEW t, NEW placed, NEW new, NEW o, Len(placed) \in Nat,
           Len(t.sections) \in Nat, Len(t.sections) > 0,
           DOMAIN t.sections = 1..Len(t.sections),
           \A j \in 1..Len(t.sections) : t.sections[j] \in 0..(Len(placed) - 1),
           \A m \in 1..Len(placed) : new[m] = placed[m]
    PROVE  /\ StartsAligned(t, placed, o) <=> StartsAligned(t, new, o)
           /\ GapsMayDiffer(t, placed, o) <=> GapsMayDiffer(t, new, o)
<1>1. \A j \in 1..Len(t.sections) : new[t.sections[j] + 1] = placed[t.sections[j] + 1]
  <2> TAKE j \in 1..Len(t.sections)
  <2> DEFINE i == t.sections[j]
  <2>1. i \in 0..(Len(placed) - 1)
    OBVIOUS
  <2> HIDE DEF i
  <2>2. i + 1 \in 1..Len(placed)
    BY <2>1
  <2> QED
    BY <2>2 DEF i
<1>2. 1 \in 1..Len(t.sections)
  OBVIOUS
<1> QED
  BY <1>1, <1>2 DEF StartsAligned, GapsMayDiffer

\* The section s of a turn lies where the loop aligns it to.
Aligned(s, file, memory, o) ==
    /\ s.alignment \in Nat /\ IsPowerOfTwo(s.alignment)
    /\ s.file_size \in Nat /\ s.memory_size \in Nat /\ s.file_size <= s.memory_size
    /\ AlignFits(file, Greater(o.file_alignment, s.alignment))
    /\ AlignFits(memory, Greater(o.memory_alignment, s.alignment))
    /\ s.file_offset = AlignUp(file, Greater(o.file_alignment, s.alignment))
    /\ s.virtual_address = AlignUp(memory, Greater(o.memory_alignment, s.alignment))

\* A segment that a section starts.
LEMMA StartedAlike ==
    ASSUME NEW b, NEW o, IsOptions(o), NEW s, NEW alignment,
           b.file_cursor \in Nat, b.memory_cursor \in Nat,
           Aligned(s, b.file_cursor, b.memory_cursor, o),
           NEW new, new[s.index + 1] = s
    PROVE  LET t == NewSegment(b, s, alignment)
           IN  /\ StartsAligned(t, new, o) /\ GrownAlike(t, new, o)
               /\ t.file_offset + t.file_size = s.file_offset + s.file_size
               /\ t.virtual_address + t.memory_size = s.virtual_address + s.memory_size
<1> DEFINE t == NewSegment(b, s, alignment)
           F == Greater(o.file_alignment, s.alignment)
           M == Greater(o.memory_alignment, s.alignment)
<1>1. /\ t.file_offset = s.file_offset /\ t.file_size = s.file_size
      /\ t.virtual_address = s.virtual_address /\ t.memory_size = s.memory_size
      /\ t.sections[1] = s.index
  BY DEF NewSegment
<1> HIDE DEF t
<1>2. F \in Nat /\ M \in Nat
  BY DEF Aligned, IsOptions, Greater
<1>3. Divides(F, s.file_offset) /\ Divides(M, s.virtual_address)
  <2>1. /\ AlignFits(b.file_cursor, F) /\ AlignFits(b.memory_cursor, M)
        /\ s.file_offset = AlignUp(b.file_cursor, F)
        /\ s.virtual_address = AlignUp(b.memory_cursor, M)
    BY DEF Aligned
  <2> HIDE DEF F, M
  <2> QED
    BY <1>2, <2>1, AlignUpIsLeast
<1>4. s.file_size <= s.memory_size
  BY DEF Aligned
<1>5. StartsAligned(t, new, o) /\ GrownAlike(t, new, o)
  BY <1>1, <1>3, <1>4 DEF StartsAligned, GrownAlike
<1> QED
  BY <1>1, <1>5 DEF t

\* What GapsMayDiffer says of a segment that was grown.
LEMMA GapsOfGrown ==
    ASSUME NEW t, NEW u, NEW new, NEW o, IsOptions(o), NEW i, NEW L \in Nat, L > 0,
           DOMAIN t.sections = 1..L, DOMAIN u.sections = 1..(L + 1),
           \A j \in 1..L : u.sections[j] = t.sections[j],
           u.sections[L + 1] = i,
           ~GapsMayDiffer(u, new, o)
    PROVE  /\ ~GapsMayDiffer(t, new, o)
           /\ ~(o.file_alignment > o.memory_alignment)
           /\ ~(new[i + 1].alignment
                  > Greater(o.file_alignment, new[t.sections[1] + 1].alignment))
<1>1. 1 \in 1..L /\ L + 1 \in 1..(L + 1) /\ \A j \in 1..L : j \in 1..(L + 1)
  OBVIOUS
<1> QED
  BY <1>1 DEF GapsMayDiffer

\* The last segment, extended over a section.
LEMMA GrownStaysAlike ==
    ASSUME NEW t, NEW placed, IsVector(placed), NEW file \in Nat, NEW memory \in Nat,
           NEW o, IsOptions(o), OptionsError(o) = "none",
           SegmentOK(t, placed, file, memory),
           \A m \in 1..Len(placed) : /\ placed[m].alignment \in Nat
                                     /\ IsPowerOfTwo(placed[m].alignment),
           StartsAligned(t, placed, o), GrownAlike(t, placed, o),
           t.file_offset + t.file_size = file,
           t.virtual_address + t.memory_size = memory,
           NEW s, s.index = Len(placed), Aligned(s, file, memory, o)
    PROVE  LET u == Grown(t, s)
               new == Append(placed, s)
           IN  /\ StartsAligned(u, new, o) /\ GrownAlike(u, new, o)
               /\ u.file_offset + u.file_size = s.file_offset + s.file_size
               /\ u.virtual_address + u.memory_size = s.virtual_address + s.memory_size
<1> DEFINE u == Grown(t, s)
           new == Append(placed, s)
           fs == s.file_offset + s.file_size - t.file_offset
           ms == s.virtual_address + s.memory_size - t.virtual_address
           list == Append(t.sections, s.index)
           L == Len(t.sections)
           a == placed[t.sections[1] + 1].alignment
           c == s.alignment
           fa == o.file_alignment
           ma == o.memory_alignment
<1>1. /\ t = [file_offset |-> t.file_offset, file_size |-> t.file_size,
              virtual_address |-> t.virtual_address, memory_size |-> t.memory_size,
              alignment |-> t.alignment, perms |-> t.perms, sections |-> t.sections]
      /\ t.file_offset \in Nat /\ t.file_size \in Nat
      /\ t.virtual_address \in Nat /\ t.memory_size \in Nat
      /\ IsVector(t.sections) /\ L \in Nat /\ L > 0
      /\ \A j \in 1..L : t.sections[j] \in 0..(Len(placed) - 1)
  BY DEF SegmentOK, IsVector
<1>2. /\ u.file_offset = t.file_offset /\ u.virtual_address = t.virtual_address
      /\ u.file_size = fs /\ u.memory_size = ms /\ u.sections = list
  <2>1. u = [t EXCEPT !.file_size = fs, !.memory_size = ms, !.sections = list]
    BY DEF Grown
  <2> HIDE DEF fs, ms, list, u
  <2> QED
    BY <1>1, <2>1
<1>3. /\ DOMAIN t.sections = 1..L /\ DOMAIN list = 1..(L + 1)
      /\ \A j \in 1..L : list[j] = t.sections[j]
      /\ list[L + 1] = Len(placed)
  <2> DEFINE old == t.sections
  <2>1. IsVector(old)
    BY <1>1
  <2> HIDE DEF old
  <2>2. /\ Len(old) \in Nat /\ DOMAIN old = 1..Len(old)
        /\ DOMAIN Append(old, s.index) = 1..(Len(old) + 1)
        /\ \A j \in 1..Len(old) : Append(old, s.index)[j] = old[j]
        /\ Append(old, s.index)[Len(old) + 1] = s.index
    BY <2>1, AppendVector DEF IsVector
  <2> QED
    BY <2>2 DEF old
<1>4. /\ Len(placed) \in Nat /\ new[Len(placed) + 1] = s
      /\ \A m \in 1..Len(placed) : new[m] = placed[m]
  BY AppendVector DEF IsVector
<1>5. /\ StartsAligned(t, new, o)
      /\ GapsMayDiffer(t, placed, o) <=> GapsMayDiffer(t, new, o)
  <2> HIDE DEF new
  <2> QED
    BY <1>1, <1>3, <1>4, GrowthStays
<1>6. new[t.sections[1] + 1].alignment = a /\ a \in Nat /\ IsPowerOfTwo(a)
  <2> DEFINE i == t.sections[1]
  <2>1. i \in 0..(Len(placed) - 1)
    <3> HIDE DEF L
    <3>1. 1 \in 1..L
      BY <1>1
    <3> QED
      BY <1>1, <3>1
  <2> HIDE DEF i, new
  <2>2. i + 1 \in 1..Len(placed)
    BY <1>4, <2>1
  <2> QED
    BY <1>4, <2>2 DEF i
<1> HIDE DEF u, new, list, L, fs, ms
<1>7. StartsAligned(u, new, o)
  <2>1. 1 \in 1..L
    BY <1>1
  <2> QED
    BY <1>2, <1>3, <1>5, <2>1 DEF StartsAligned
<1>8. ASSUME ~GapsMayDiffer(u, new, o) PROVE fs <= ms
  <2>1. /\ ~GapsMayDiffer(t, new, o) /\ ~(fa > ma) /\ ~(c > Greater(fa, a))
    BY <1>1, <1>2, <1>3, <1>4, <1>6, <1>8, GapsOfGrown
  <2>2. fa \in Nat /\ ma \in Nat /\ IsPowerOfTwo(fa) /\ IsPowerOfTwo(ma)
    BY DEF IsOptions, OptionsError
  <2>3. t.file_size <= t.memory_size
    BY <1>5, <2>1 DEF GrownAlike
  <2>4. /\ c \in Nat /\ IsPowerOfTwo(c) /\ s.file_size \in Nat /\ s.memory_size \in Nat
        /\ s.file_size <= s.memory_size
        /\ AlignFits(file, Greater(fa, c)) /\ AlignFits(memory, Greater(ma, c))
        /\ s.file_offset = AlignUp(file, Greater(fa, c))
        /\ s.virtual_address = AlignUp(memory, Greater(ma, c))
    BY DEF Aligned
  <2>5. Greater(fa, a) \in Nat /\ Greater(fa, c) \in Nat /\ Greater(ma, c) \in Nat
    BY <1>6, <2>2, <2>4 DEF Greater
  <2>6. fa <= ma /\ c <= Greater(fa, a)
    <3> HIDE DEF fa, ma, c, a
    <3> QED
      BY <2>1, <2>2, <2>4, <2>5
  <2>7. Divides(Greater(fa, a), t.file_offset) /\ Divides(Greater(ma, a), t.virtual_address)
    BY DEF StartsAligned
  <2> DEFINE f == t.file_offset
             fz == t.file_size
             v == t.virtual_address
             mz == t.memory_size
             p == s.file_offset
             q == s.virtual_address
             l == s.file_size
             w == s.memory_size
  <2>8. p - f <= q - v
    <3> HIDE DEF fa, ma, c, a
    <3>1. p = AlignUp(f + fz, Greater(fa, c)) /\ q = AlignUp(v + mz, Greater(ma, c))
      BY <2>4
    <3>2. AlignFits(f + fz, Greater(fa, c)) /\ AlignFits(v + mz, Greater(ma, c))
      BY <2>4
    <3>3. f \in Nat /\ fz \in Nat /\ v \in Nat /\ mz \in Nat /\ fz <= mz
      BY <1>1, <2>3
    <3>4. Divides(Greater(fa, a), f) /\ Divides(Greater(ma, a), v)
      BY <2>7
    <3>5. /\ c \in Nat /\ IsPowerOfTwo(c) /\ a \in Nat /\ IsPowerOfTwo(a)
          /\ fa \in Nat /\ ma \in Nat /\ IsPowerOfTwo(fa) /\ IsPowerOfTwo(ma)
      BY <1>6, <2>2, <2>4
    <3> HIDE DEF f, fz, v, mz, p, q
    <3>6. AlignUp(f + fz, Greater(fa, c)) - f <= AlignUp(v + mz, Greater(ma, c)) - v
      BY <2>6, <3>2, <3>3, <3>4, <3>5, GapInFile
    <3> QED
      BY <3>1, <3>6
  <2>9. p \in Nat /\ q \in Nat
    BY <2>4, <2>5, AlignUpIsAbove
  <2>10. fs = p + l - f /\ ms = q + w - v
    BY DEF fs, ms
  <2>11. l \in Nat /\ w \in Nat /\ l <= w /\ f \in Nat /\ v \in Nat
    BY <1>1, <2>4
  <2> HIDE DEF f, v, p, q, l, w
  <2> QED
    BY <2>8, <2>9, <2>10, <2>11
<1>9. GrownAlike(u, new, o)
  BY <1>2, <1>8 DEF GrownAlike
<1>10. u.file_offset + u.file_size = s.file_offset + s.file_size
       /\ u.virtual_address + u.memory_size = s.virtual_address + s.memory_size
  <2>1. /\ s.file_offset \in Nat /\ s.virtual_address \in Nat
        /\ s.file_size \in Nat /\ s.memory_size \in Nat
    <3>1. Greater(fa, c) \in Nat /\ Greater(ma, c) \in Nat
      BY DEF IsOptions, Aligned, Greater
    <3> QED
      BY <3>1, AlignUpIsAbove DEF Aligned
  <2> DEFINE f == t.file_offset
             v == t.virtual_address
             p == s.file_offset
             l == s.file_size
             q == s.virtual_address
             w == s.memory_size
  <2>2. /\ f \in Nat /\ v \in Nat /\ p \in Nat /\ l \in Nat /\ q \in Nat /\ w \in Nat
        /\ fs = p + l - f /\ ms = q + w - v
    BY <1>1, <2>1 DEF fs, ms
  <2> HIDE DEF f, v, p, l, q, w
  <2>3. f + fs = p + l /\ v + ms = q + w
    BY <2>2
  <2> QED
    BY <1>2, <2>3 DEF f, v, p, l, q, w
<1> QED
  BY <1>7, <1>9, <1>10 DEF u, new

\* A turn that passes its checks leaves a layout of one more section.
LEMMA PlacedKeeps ==
    ASSUME NEW b, NEW keys, NEW n \in Nat, NEW o, IsOptions(o), TurnOK(b, keys, n, o),
           \A m \in 1..(n + 1) : IsSection(Sections[keys[m]]),
           NEW source, source = Sections[keys[n + 1]],
           PlaceError(b, source, o) = "none"
    PROVE  TurnOK(Placed(b, source, o), keys, n + 1, o)
<1> DEFINE s == NewSection(b, source, o)
           p == Placed(b, source, o)
           file == s.file_offset + s.file_size
           memory == s.virtual_address + s.memory_size
<1>1. /\ IsVector(b.storage) /\ Len(b.storage) = b.file_cursor
      /\ b.file_cursor \in Nat /\ b.memory_cursor \in Nat
      /\ IsVector(b.sections) /\ Len(b.sections) = n
      /\ IsVector(b.segments) /\ Len(b.segments) \in Nat
  BY WordAssumption DEF TurnOK, IsVector, Word
<1>2. IsSection(source) /\ Len(source.data) \in Nat /\ source.zero_fill \in Nat
      /\ IsVector(source.data)
  BY DEF IsSection, IsVector
<1>3. /\ s.index = n
      /\ s.file_offset = FileOffset(b, source, o) /\ s.file_size = Len(source.data)
      /\ s.virtual_address = VirtualAddress(b, source, o)
      /\ s.memory_size = Len(source.data) + source.zero_fill
      /\ s.permissions = source.permissions /\ s.alignment = source.alignment
  BY <1>1 DEF NewSection
<1>4. /\ p.storage = Stored(b.storage, s.file_offset, source.data)
      /\ p.sections = Append(b.sections, s)
      /\ p.segments = NewSegments(b, s, source, o)
      /\ p.file_cursor = file /\ p.memory_cursor = memory
  BY DEF Placed, NewSection, NewSegments, MemoryEnd
<1> HIDE DEF s, p
<1>5. /\ FileOffset(b, source, o) \in Nat
      /\ FileOffset(b, source, o) >= b.file_cursor
      /\ VirtualAddress(b, source, o) \in Nat
      /\ VirtualAddress(b, source, o) >= b.memory_cursor
      /\ FileOffset(b, source, o) + Len(source.data) <= MaxFileSize
      /\ VirtualAddress(b, source, o) + (Len(source.data) + source.zero_fill)
           <= MaxWord
  BY <1>1, <1>2, PlaceIsAbove
<1>6. Len(source.data) + source.zero_fill \in Nat
  BY <1>2
<1>7. Follows(s, n, b.file_cursor, b.memory_cursor)
  BY <1>2, <1>3, <1>5, <1>6 DEF Follows
<1>8. file <= MaxFileSize /\ memory <= MaxWord
  BY <1>3, <1>5
<1>9. file \in Nat /\ memory \in Nat /\ file >= b.file_cursor
  <2> DEFINE a == s.file_offset
             l == s.file_size
             v == s.virtual_address
             w == s.memory_size
             c == b.file_cursor
  <2>1. /\ a \in Nat /\ l \in Nat /\ v \in Nat /\ w \in Nat /\ a >= c /\ c \in Nat
    BY <1>1, <1>7 DEF Follows
  <2> HIDE DEF a, l, v, w, c
  <2>2. a + l \in Nat /\ v + w \in Nat /\ a + l >= c
    BY <2>1
  <2> QED
    BY <2>2 DEF a, l, v, w, c
<1>10. memory \in Word
  <2> HIDE DEF memory
  <2> QED
    BY <1>8, <1>9, WordAssumption DEF Word
<1>11. /\ IsVector(p.segments) /\ Len(p.segments) <= n + 1
       /\ \A g \in 1..Len(p.segments) :
             SegmentOK(p.segments[g], p.sections, file, memory)
       /\ \A m \in 1..(n + 1) : HolderOK(p.sections, p.segments, m, o)
  <2>1. CASE StartsSegment(b.segments, source, o)
    <3> DEFINE alignment == Greater(o.memory_alignment, source.alignment)
               segments == Append(b.segments, NewSegment(b, s, alignment))
    <3>1. p.segments = segments
      BY <1>4, <2>1 DEF NewSegments
    <3>2. /\ s.index = n /\ s.file_offset \in Nat /\ s.file_size \in Nat
          /\ s.virtual_address \in Nat /\ s.memory_size \in Nat
          /\ s.file_offset >= b.file_cursor /\ s.virtual_address >= b.memory_cursor
      BY <1>7 DEF Follows
    <3> HIDE DEF alignment
    <3>3. /\ IsVector(segments) /\ Len(segments) <= n + 1
          /\ \A g \in 1..Len(segments) :
                SegmentOK(segments[g], Append(b.sections, s), file, memory)
          /\ \A m \in 1..(n + 1) : HolderOK(Append(b.sections, s), segments, m, o)
      BY <3>2, TurnStartsSegment
    <3> HIDE DEF segments, file, memory
    <3> QED
      BY <1>4, <3>1, <3>3
  <2>2. CASE ~StartsSegment(b.segments, source, o)
    <3> DEFINE segments == [b.segments EXCEPT ![Len(b.segments)] = Grown(@, s)]
    <3>1. p.segments = segments
      BY <1>4, <2>2 DEF NewSegments
    <3>2. /\ b.segments # <<>>
          /\ o.separate_permissions =>
                b.segments[Len(b.segments)].perms = source.permissions
      BY <2>2 DEF StartsSegment
    <3>3. Len(b.segments) > 0
      <4>1. CASE Len(b.segments) = 0
        <5>1. b.segments \in Seq({})
          BY <1>1, <4>1, VectorIsSeq
        <5> QED
          BY <3>2, <4>1, <5>1
      <4> QED
        BY <1>1, <4>1
    <3>4. SamePermissions(s, b.segments[Len(b.segments)], o)
      BY <1>3, <3>2 DEF SamePermissions
    <3>6. \A m \in 1..n : IsSection(Sections[keys[m]])
      OBVIOUS
    <3>5. /\ IsVector(segments) /\ Len(segments) <= n + 1
          /\ \A g \in 1..Len(segments) :
                SegmentOK(segments[g], Append(b.sections, s), file, memory)
          /\ \A m \in 1..(n + 1) : HolderOK(Append(b.sections, s), segments, m, o)
      BY <1>7, <3>3, <3>4, <3>6, TurnGrowsSegment
    <3> HIDE DEF segments, file, memory
    <3> QED
      BY <1>4, <3>1, <3>5
  <2> QED
    BY <2>1, <2>2
<1>12. /\ IsVector(p.storage) /\ Len(p.storage) = file
       /\ \A k \in 1..Len(b.storage) : p.storage[k] = b.storage[k]
       /\ \A k \in 1..Len(source.data) :
             p.storage[s.file_offset + k] = source.data[k]
  <2>1. s.file_offset \in Nat /\ s.file_offset >= Len(b.storage)
    BY <1>1, <1>7 DEF Follows
  <2> DEFINE st == b.storage
             offset == s.file_offset
             data == source.data
  <2>2. IsVector(st) /\ offset \in Nat /\ offset >= Len(st) /\ IsVector(data)
    BY <1>1, <1>2, <2>1
  <2>3. p.storage = Stored(st, offset, data) /\ file = offset + Len(data)
    BY <1>3, <1>4
  <2> HIDE DEF st, offset, data, file
  <2>4. /\ IsVector(p.storage) /\ Len(p.storage) = file
        /\ \A k \in 1..Len(st) : p.storage[k] = st[k]
        /\ \A k \in 1..Len(data) : p.storage[offset + k] = data[k]
    BY <2>2, <2>3, StoredBytes
  <2> QED
    BY <2>4 DEF st, offset, data
<1>13. /\ IsVector(p.sections) /\ Len(p.sections) = n + 1
       /\ \A m \in 1..n : p.sections[m] = b.sections[m]
       /\ p.sections[n + 1] = s
  BY <1>1, <1>4, AppendVector
<1> HIDE DEF file, memory
<1>14. ASSUME NEW m \in 1..(n + 1)
       PROVE  SectionOK(p.sections[m], m, Sections[keys[m]], p.storage, file)
  <2>1. CASE m \in 1..n
    <3> DEFINE x == b.sections[m]
               src == Sections[keys[m]]
    <3>1. SectionOK(x, m, src, b.storage, Len(b.storage)) /\ IsSection(src)
      BY <1>1, <2>1 DEF TurnOK
    <3>2. m \in Nat /\ file >= Len(b.storage)
      BY <1>1, <1>9
    <3> HIDE DEF x, src
    <3>3. SectionOK(x, m, src, p.storage, file)
      BY <1>1, <1>9, <1>12, <3>1, <3>2, SectionStays
    <3> QED
      BY <1>13, <2>1, <3>3 DEF x, src
  <2>2. CASE m = n + 1
    <3>1. SectionOK(s, n + 1, source, p.storage, file)
      <4>1. s.index = (n + 1) - 1
        BY <1>3
      <4>2. s.file_offset \in Nat /\ s.virtual_address \in Nat
        BY <1>7 DEF Follows
      <4>3. s.file_offset + s.file_size <= file
        BY <1>9 DEF file
      <4> QED
        BY <1>3, <1>12, <4>1, <4>2, <4>3 DEF SectionOK
    <3> QED
      BY <1>13, <2>2, <3>1
  <2> QED
    BY <2>1, <2>2
<1>15. SegmentsApart(p.segments) /\ SegmentsAligned(p.segments, keys, n + 1, o)
  <2>1. s.virtual_address \in Nat /\ s.virtual_address >= b.memory_cursor
    BY <1>7 DEF Follows
  <2>2. Len(b.segments) = 0 => StartsSegment(b.segments, source, o)
    <3>1. SUFFICES ASSUME Len(b.segments) = 0 PROVE b.segments = <<>>
      BY DEF StartsSegment
    <3>2. b.segments \in Seq({})
      BY <1>1, <3>1, VectorIsSeq
    <3> QED
      BY <3>1, <3>2
  <2> QED
    BY <1>4, <2>1, <2>2, SegmentsGrowApart
<1>16. TurnOK(p, keys, n + 1, o)
  BY <1>4, <1>8, <1>10, <1>11, <1>12, <1>13, <1>14, <1>15 DEF TurnOK
<1> QED
  BY <1>16 DEF p

\* A turn that passes its checks leaves every segment grown alike.
LEMMA PlacedGrows ==
    ASSUME NEW b, NEW keys, NEW n \in Nat, NEW o, IsOptions(o), TurnOK(b, keys, n, o),
           GrowthOK(b, o), AlignmentsOK(keys, n + 1, o),
           \A m \in 1..(n + 1) : IsSection(Sections[keys[m]]),
           NEW source, source = Sections[keys[n + 1]],
           PlaceError(b, source, o) = "none"
    PROVE  GrowthOK(Placed(b, source, o), o)
<1> DEFINE s == NewSection(b, source, o)
           p == Placed(b, source, o)
           old == b.segments
           L == Len(b.segments)
           new == Append(b.sections, s)
<1>1. /\ b.file_cursor \in Nat /\ b.memory_cursor \in Nat
      /\ IsVector(b.sections) /\ Len(b.sections) = n
      /\ IsVector(old) /\ L \in Nat
      /\ \A g \in 1..L : SegmentOK(old[g], b.sections, b.file_cursor, b.memory_cursor)
  <2>1. /\ IsVector(b.storage) /\ Len(b.storage) = b.file_cursor
        /\ b.memory_cursor \in Word
        /\ IsVector(b.sections) /\ Len(b.sections) = n /\ IsVector(old)
        /\ \A g \in 1..L :
              SegmentOK(old[g], b.sections, b.file_cursor, b.memory_cursor)
    BY DEF TurnOK
  <2> QED
    BY <2>1, WordAssumption DEF IsVector, Word
<1>2. /\ p.sections = new /\ p.segments = NewSegments(b, s, source, o)
      /\ p.file_cursor = s.file_offset + s.file_size
      /\ p.memory_cursor = s.virtual_address + s.memory_size
  BY DEF Placed, NewSection, NewSegments, MemoryEnd
<1>3. s.index = n /\ Aligned(s, b.file_cursor, b.memory_cursor, o)
  <2>1. /\ s.index = n /\ s.alignment = source.alignment
        /\ s.file_size = Len(source.data)
        /\ s.memory_size = Len(source.data) + source.zero_fill
        /\ s.file_offset = FileOffset(b, source, o)
        /\ s.virtual_address = VirtualAddress(b, source, o)
    BY <1>1 DEF NewSection
  <2>2. n + 1 \in 1..(n + 1)
    OBVIOUS
  <2>3. IsSection(source) /\ IsPowerOfTwo(source.alignment)
    BY <2>2 DEF AlignmentsOK
  <2>4. /\ source.alignment \in Nat /\ Len(source.data) \in Nat
        /\ source.zero_fill \in Nat
    BY <2>3 DEF IsSection
  <2>5. /\ AlignFits(b.file_cursor, Greater(o.file_alignment, source.alignment))
        /\ AlignFits(b.memory_cursor, Greater(o.memory_alignment, source.alignment))
    BY DEF PlaceError
  <2> DEFINE l == Len(source.data)
             z == source.zero_fill
  <2>6. l \in Nat /\ l + z \in Nat /\ l <= l + z
    <3>1. l \in Nat /\ z \in Nat
      BY <2>4
    <3> HIDE DEF l, z
    <3> QED
      BY <3>1
  <2> HIDE DEF s
  <2> QED
    BY <2>1, <2>3, <2>4, <2>5, <2>6 DEF Aligned, FileOffset, VirtualAddress
<1> HIDE DEF p, s
<1>4. /\ Len(new) = n + 1 /\ new[n + 1] = s
      /\ \A m \in 1..n : new[m] = b.sections[m]
  BY <1>1, AppendVector
<1>5. ASSUME NEW g \in 1..L
      PROVE  StartsAligned(old[g], new, o) /\ GrownAlike(old[g], new, o)
  <2> DEFINE t == old[g]
  <2>1. SegmentOK(t, b.sections, b.file_cursor, b.memory_cursor)
    BY <1>1
  <2>2. StartsAligned(t, b.sections, o) /\ GrownAlike(t, b.sections, o)
    BY DEF GrowthOK
  <2> HIDE DEF t, new
  <2>3. /\ Len(t.sections) \in Nat /\ Len(t.sections) > 0
        /\ DOMAIN t.sections = 1..Len(t.sections)
        /\ \A j \in 1..Len(t.sections) : t.sections[j] \in 0..(Len(b.sections) - 1)
    BY <2>1 DEF SegmentOK, IsVector
  <2>4. /\ StartsAligned(t, b.sections, o) <=> StartsAligned(t, new, o)
        /\ GapsMayDiffer(t, b.sections, o) <=> GapsMayDiffer(t, new, o)
    BY <1>1, <1>4, <2>3, GrowthStays
  <2> QED
    BY <2>2, <2>4 DEF GrownAlike, t
<1>6. CASE StartsSegment(old, source, o)
  <2> DEFINE alignment == Greater(o.memory_alignment, source.alignment)
             t == NewSegment(b, s, alignment)
  <2>1. p.segments = Append(old, t)
    BY <1>2, <1>6 DEF NewSegments
  <2> HIDE DEF alignment, new
  <2>2. /\ StartsAligned(t, new, o) /\ GrownAlike(t, new, o)
        /\ t.file_offset + t.file_size = s.file_offset + s.file_size
        /\ t.virtual_address + t.memory_size = s.virtual_address + s.memory_size
    BY <1>1, <1>3, <1>4, StartedAlike
  <2> HIDE DEF t
  <2>3. /\ Len(p.segments) = L + 1 /\ p.segments[L + 1] = t
        /\ \A g \in 1..L : p.segments[g] = old[g]
    BY <1>1, <2>1, AppendVector
  <2>4. \A g \in 1..(L + 1) : g \in 1..L \/ g = L + 1
    BY <1>1
  <2>5. \A g \in 1..(L + 1) : /\ StartsAligned(p.segments[g], new, o)
                            /\ GrownAlike(p.segments[g], new, o)
    BY <1>5, <2>2, <2>3, <2>4
  <2> QED
    BY <1>2, <2>2, <2>3, <2>5 DEF GrowthOK, p
<1>7. CASE ~StartsSegment(old, source, o)
  <2> DEFINE t == old[L]
             u == Grown(t, s)
  <2>1. L > 0 /\ L \in 1..L
    <3>1. old # <<>>
      BY <1>7 DEF StartsSegment
    <3>2. CASE L = 0
      <4>1. old \in Seq({})
        BY <1>1, <3>2, VectorIsSeq
      <4> QED
        BY <3>1, <3>2, <4>1
    <3> QED
      BY <1>1, <3>2
  <2>2. /\ SegmentOK(t, b.sections, b.file_cursor, b.memory_cursor)
        /\ StartsAligned(t, b.sections, o) /\ GrownAlike(t, b.sections, o)
        /\ t.file_offset + t.file_size = b.file_cursor
        /\ t.virtual_address + t.memory_size = b.memory_cursor
    BY <1>1, <2>1 DEF GrowthOK
  <2>3. \A m \in 1..Len(b.sections) : /\ b.sections[m].alignment \in Nat
                                     /\ IsPowerOfTwo(b.sections[m].alignment)
    <3> TAKE m \in 1..Len(b.sections)
    <3>1. m \in 1..n /\ m \in 1..(n + 1)
      BY <1>1
    <3>2. b.sections[m].alignment = Sections[keys[m]].alignment
      BY <3>1 DEF TurnOK, SectionOK
    <3> QED
      BY <3>1, <3>2 DEF AlignmentsOK, IsSection
  <2>4. OptionsError(o) = "none"
    BY DEF AlignmentsOK
  <2>5. /\ StartsAligned(u, new, o) /\ GrownAlike(u, new, o)
        /\ u.file_offset + u.file_size = s.file_offset + s.file_size
        /\ u.virtual_address + u.memory_size = s.virtual_address + s.memory_size
    <3> DEFINE ps == b.sections
               fc == b.file_cursor
               mc == b.memory_cursor
    <3>1. /\ SegmentOK(t, ps, fc, mc) /\ IsVector(ps) /\ fc \in Nat /\ mc \in Nat
          /\ StartsAligned(t, ps, o) /\ GrownAlike(t, ps, o)
          /\ t.file_offset + t.file_size = fc
          /\ t.virtual_address + t.memory_size = mc
          /\ s.index = Len(ps) /\ Aligned(s, fc, mc, o)
      BY <1>1, <1>3, <2>2
    <3>2. \A m \in 1..Len(ps) : ps[m].alignment \in Nat /\ IsPowerOfTwo(ps[m].alignment)
      BY <2>3
    <3>3. u = Grown(t, s) /\ new = Append(ps, s)
      OBVIOUS
    <3> HIDE DEF t, ps, fc, mc, u, new
    <3> QED
      BY <2>4, <3>1, <3>2, <3>3, GrownStaysAlike
  <2>6. p.segments = [old EXCEPT ![L] = u]
    BY <1>2, <1>7 DEF NewSegments
  <2> HIDE DEF u, new, t
  <2>7. Len(p.segments) = L /\ \A g \in 1..L : p.segments[g] = IF g = L THEN u ELSE old[g]
    <3>1. old = [g \in 1..L |-> old[g]]
      BY <1>1 DEF IsVector
    <3> HIDE DEF old, L
    <3>2. p.segments = [g \in 1..L |-> IF g = L THEN u ELSE old[g]]
      BY <2>6, <3>1
    <3>3. L \in Nat
      BY <1>1
    <3> QED
      BY <3>2, <3>3
  <2>8. \A g \in 1..L : /\ StartsAligned(p.segments[g], new, o)
                        /\ GrownAlike(p.segments[g], new, o)
    BY <1>5, <2>5, <2>7
  <2> QED
    BY <1>2, <2>1, <2>5, <2>7, <2>8 DEF GrowthOK, p
<1> QED
  BY <1>6, <1>7

\* The layout after n turns, whether the loop has failed or not.
LayoutOK(b, keys, n, o) ==
    /\ b = [error |-> b.error, storage |-> b.storage, sections |-> b.sections,
            segments |-> b.segments, file_cursor |-> b.file_cursor,
            memory_cursor |-> b.memory_cursor]
    /\ b.error = "none" => TurnOK(b, keys, n, o)
    /\ b.error = "none" /\ AlignmentsOK(keys, n, o) => GrowthOK(b, o)

\* One turn of the loop, whether it fails or not.
LEMMA PlaceKeeps ==
    ASSUME NEW b, NEW keys, NEW n \in Nat, NEW o, IsOptions(o), LayoutOK(b, keys, n, o),
           \A m \in 1..(n + 1) : IsSection(Sections[keys[m]])
    PROVE  LayoutOK(Place(b, Sections[keys[n + 1]], o), keys, n + 1, o)
<1> DEFINE source == Sections[keys[n + 1]]
           p == Placed(b, source, o)
<1>1. CASE b.error # "none"
  <2>1. Place(b, source, o) = b
    BY <1>1 DEF Place
  <2> QED
    BY <1>1, <2>1 DEF LayoutOK
<1>2. CASE b.error = "none" /\ PlaceError(b, source, o) = "none"
  <2>1. Place(b, source, o) = p
    BY <1>2 DEF Place
  <2>2. TurnOK(b, keys, n, o)
    BY <1>2 DEF LayoutOK
  <2>3. TurnOK(p, keys, n + 1, o)
    BY <1>2, <2>2, PlacedKeeps
  <2>5. AlignmentsOK(keys, n + 1, o) => GrowthOK(p, o)
    <3>1. SUFFICES ASSUME AlignmentsOK(keys, n + 1, o) PROVE GrowthOK(p, o)
      OBVIOUS
    <3>2. \A m \in 1..n : m \in 1..(n + 1)
      OBVIOUS
    <3>3. AlignmentsOK(keys, n, o)
      BY <3>1, <3>2 DEF AlignmentsOK
    <3>4. GrowthOK(b, o)
      BY <1>2, <3>3 DEF LayoutOK
    <3> QED
      BY <1>2, <2>2, <3>1, <3>4, PlacedGrows
  <2>4. p = [error |-> p.error, storage |-> p.storage, sections |-> p.sections,
             segments |-> p.segments, file_cursor |-> p.file_cursor,
             memory_cursor |-> p.memory_cursor]
    BY DEF Placed
  <2> HIDE DEF p
  <2> QED
    BY <2>1, <2>3, <2>4, <2>5 DEF LayoutOK
<1>3. CASE b.error = "none" /\ PlaceError(b, source, o) # "none"
  <2> DEFINE e == PlaceError(b, source, o)
             q == [b EXCEPT !.error = e]
  <2>1. Place(b, source, o) = q
    BY <1>3 DEF Place
  <2>2. b = [error |-> b.error, storage |-> b.storage, sections |-> b.sections,
             segments |-> b.segments, file_cursor |-> b.file_cursor,
             memory_cursor |-> b.memory_cursor]
    BY DEF LayoutOK
  <2>3. e # "none"
    BY <1>3
  <2> HIDE DEF e
  <2>4. /\ q = [error |-> e, storage |-> b.storage, sections |-> b.sections,
                segments |-> b.segments, file_cursor |-> b.file_cursor,
                memory_cursor |-> b.memory_cursor]
    BY <2>2
  <2> HIDE DEF q
  <2>5. /\ q = [error |-> q.error, storage |-> q.storage, sections |-> q.sections,
                segments |-> q.segments, file_cursor |-> q.file_cursor,
                memory_cursor |-> q.memory_cursor]
        /\ q.error = e
    BY <2>4
  <2> QED
    BY <2>1, <2>3, <2>5 DEF LayoutOK
<1> QED
  BY <1>1, <1>2, <1>3

-----------------------------------------------------------------------------
(* The whole loop.                                                         *)

\* The layouts after each turn, from an empty image on.
Turns(f, keys, n, o) ==
    [k \in 0..n |-> IF k = 0 THEN Blank(o) ELSE Place(f[k - 1], Sections[keys[k]], o)]

\* The loop comes to an end: there is a layout after each turn.
LEMMA LayoutsExist ==
    ASSUME NEW keys, NEW n \in Nat, NEW o
    PROVE  \E f : f = Turns(f, keys, n, o)
<1> DEFINE S == {m \in Nat : \E f : f = Turns(f, keys, m, o)}
<1>1. 0 \in S
  <2> DEFINE f0 == [k \in 0..0 |-> Blank(o)]
  <2>1. f0 = Turns(f0, keys, 0, o)
    BY DEF Turns
  <2> QED
    BY <2>1
<1>2. ASSUME NEW m \in Nat, m \in S PROVE m + 1 \in S
  <2>1. PICK f : f = Turns(f, keys, m, o)
    BY <1>2
  <2> DEFINE next == [k \in 0..(m + 1) |->
                        IF k = m + 1 THEN Place(f[m], Sections[keys[m + 1]], o) ELSE f[k]]
  <2>2. \A k \in 0..m :
           f[k] = IF k = 0 THEN Blank(o) ELSE Place(f[k - 1], Sections[keys[k]], o)
    BY <2>1 DEF Turns
  <2>3. /\ next[m + 1] = Place(f[m], Sections[keys[m + 1]], o)
        /\ \A k \in 0..m : next[k] = f[k]
    OBVIOUS
  <2>4. DOMAIN next = 0..(m + 1) /\ next = [k \in 0..(m + 1) |-> next[k]]
    OBVIOUS
  <2> HIDE DEF next
  <2>5. ASSUME NEW k \in 0..(m + 1)
        PROVE  next[k] = IF k = 0 THEN Blank(o)
                         ELSE Place(next[k - 1], Sections[keys[k]], o)
    <3>1. CASE k = m + 1
      <4>1. k - 1 = m /\ m \in 0..m /\ k # 0
        BY <3>1
      <4>2. next[k - 1] = f[m] /\ next[k] = Place(f[m], Sections[keys[k]], o)
        BY <2>3, <3>1, <4>1
      <4> QED
        BY <4>1, <4>2
    <3>2. CASE k = 0
      BY <2>2, <2>3, <3>2
    <3>3. CASE k # 0 /\ k # m + 1
      <4>1. k \in 0..m /\ k - 1 \in 0..m
        BY <3>3
      <4>2. next[k] = f[k] /\ next[k - 1] = f[k - 1]
        BY <2>3, <4>1
      <4> QED
        BY <2>2, <3>3, <4>1, <4>2
    <3> QED
      BY <3>1, <3>2, <3>3
  <2>6. next = Turns(next, keys, m + 1, o)
    BY <2>4, <2>5 DEF Turns
  <2> QED
    BY <2>6
<1> HIDE DEF S
<1>3. n \in S
  BY <1>1, <1>2, SetInduction
<1> QED
  BY <1>3 DEF S

\* The layout is sound after each turn.
LEMMA TurnsKeep ==
    ASSUME NEW keys, NEW n \in Nat, NEW o, IsOptions(o),
           \A m \in 1..n : IsSection(Sections[keys[m]]),
           NEW f, f = Turns(f, keys, n, o)
    PROVE  LayoutOK(f[n], keys, n, o)
<1> DEFINE S == {m \in Nat : m <= n => LayoutOK(f[m], keys, m, o)}
<1>1. \A k \in 0..n :
         f[k] = IF k = 0 THEN Blank(o) ELSE Place(f[k - 1], Sections[keys[k]], o)
  BY DEF Turns
<1>2. 0 \in S
  <2> DEFINE b == Blank(o)
  <2>1. f[0] = b
    BY <1>1
  <2>2. /\ b.error = "none" /\ b.storage = <<>> /\ b.sections = <<>>
        /\ b.segments = <<>> /\ b.file_cursor = 0 /\ b.memory_cursor = o.image_base
        /\ b = [error |-> b.error, storage |-> b.storage, sections |-> b.sections,
                segments |-> b.segments, file_cursor |-> b.file_cursor,
                memory_cursor |-> b.memory_cursor]
    BY DEF Blank
  <2> HIDE DEF b
  <2>3. IsVector(<<>>) /\ Len(<<>>) = 0
    <3>1. <<>> \in Seq({})
      OBVIOUS
    <3> QED
      BY <3>1, SeqIsVector
  <2>4. 0 <= MaxFileSize /\ o.image_base \in Word
    BY BuilderAssumption DEF IsOptions
  <2>6. \A m \in 1..0 : FALSE
    OBVIOUS
  <2>5. TurnOK(b, keys, 0, o)
    BY <2>2, <2>3, <2>4, <2>6 DEF TurnOK, SegmentsApart, SegmentsAligned
  <2>7. GrowthOK(b, o)
    BY <2>2, <2>3, <2>6 DEF GrowthOK
  <2> QED
    BY <2>1, <2>2, <2>5, <2>7 DEF LayoutOK
<1>3. ASSUME NEW m \in Nat, m \in S PROVE m + 1 \in S
  <2>1. CASE m + 1 <= n
    <3>1. LayoutOK(f[m], keys, m, o)
      BY <1>3, <2>1
    <3>2. m + 1 \in 0..n /\ m + 1 # 0 /\ (m + 1) - 1 = m
      BY <2>1
    <3>3. f[m + 1] = Place(f[m], Sections[keys[m + 1]], o)
      BY <1>1, <3>2
    <3>4. \A j \in 1..(m + 1) : IsSection(Sections[keys[j]])
      BY <2>1
    <3>5. LayoutOK(Place(f[m], Sections[keys[m + 1]], o), keys, m + 1, o)
      BY <3>1, <3>4, PlaceKeeps
    <3> QED
      BY <3>3, <3>5
  <2>2. CASE ~(m + 1 <= n)
    BY <2>2
  <2> QED
    BY <2>1, <2>2
<1> HIDE DEF S
<1>4. n \in S
  BY <1>2, <1>3, SetInduction
<1> QED
  BY <1>4 DEF S

\* What build computes for the sections that were added.
LEMMA LaidOutIsSound ==
    ASSUME sections \in Seq(DOMAIN Sections), NEW o, IsOptions(o)
    PROVE  LayoutOK(LaidOut(o), sections, Len(sections), o)
<1> DEFINE keys == sections
           n == Len(sections)
           Body(f) == [k \in 0..n |-> IF k = 0 THEN Blank(o)
                                      ELSE Place(f[k - 1], Sections[keys[k]], o)]
           laid == CHOOSE f : f = Body(f)
<1>1. n \in Nat /\ \A m \in 1..n : IsSection(Sections[keys[m]])
  BY BuilderAssumption
<1>2. LaidOut(o) = laid[n]
  BY DEF LaidOut
<1>3. \A f : Body(f) = Turns(f, keys, n, o)
  BY DEF Turns
<1> HIDE DEF keys, n, Body
<1>4. \E f : f = Body(f)
  BY <1>1, <1>3, LayoutsExist
<1>5. laid = Body(laid)
  BY <1>4
<1> HIDE DEF laid
<1>6. LayoutOK(laid[n], keys, n, o)
  BY <1>1, <1>3, <1>5, TurnsKeep
<1> QED
  BY <1>2, <1>6 DEF keys, n

-----------------------------------------------------------------------------
(* What an image that was built promises, of every state of the builder.   *)

\* The sections were added by the caller, and an image was returned only for
\* options that are valid and a loop that did not fail.
BuilderInv ==
    /\ sections \in Seq(DOMAIN Sections)
    /\ last.op = "build" => last.options \in DOMAIN Options
    /\ HasBuilt => LaidOut(options).error = "none"

\* The layout as a function of the sections.
LaidFrom(keys, o) ==
    LET laid[n \in 0..Len(keys)] ==
            IF n = 0 THEN Blank(o) ELSE Place(laid[n - 1], Sections[keys[n]], o)
    IN  laid[Len(keys)]

\* A step that is not a build forgets the image that was built.
LEMMA OtherCalls ==
    ASSUME BuilderInv, sections' \in Seq(DOMAIN Sections),
           NEW op, op # "build", NEW e, Returns(op, e)
    PROVE  BuilderInv'
BY DEF BuilderInv, Returns, HasBuilt

\* BinaryImageBuilder: no sequence of calls brings it to a state in which build
\* returns an image of a layout that was not completed.
THEOREM BuilderInvariant == Spec => []BuilderInv
<1>1. Init => BuilderInv
  BY DEF Init, BuilderInv, HasBuilt
<1>2. BuilderInv /\ [Next]_vars => BuilderInv'
  <2> SUFFICES ASSUME BuilderInv, [Next]_vars PROVE BuilderInv'
    OBVIOUS
  <2>1. sections \in Seq(DOMAIN Sections)
    BY DEF BuilderInv
  <2>2. ASSUME NEW k \in DOMAIN Sections, AddSection(k) PROVE BuilderInv'
    <3>1. sections' = Extended(sections, k, SectionRefusal(Sections[k]))
          /\ Returns("add_section", SectionRefusal(Sections[k]))
      BY <2>2 DEF AddSection
    <3>2. sections' \in Seq(DOMAIN Sections)
      <4>1. Append(sections, k) \in Seq(DOMAIN Sections)
        BY <2>1, AppendProperties
      <4>2. sections' = Append(sections, k) \/ sections' = sections
        BY <3>1, Zenon DEF Extended
      <4> QED
        BY <2>1, <4>1, <4>2
    <3> QED
      BY <3>1, <3>2, OtherCalls
  <2>3. ASSUME NEW k \in DOMAIN Symbols, AddSymbol(k) PROVE BuilderInv'
    BY <2>1, <2>3, OtherCalls DEF AddSymbol
  <2>4. ASSUME NEW k \in DOMAIN Imports, AddImport(k) PROVE BuilderInv'
    BY <2>1, <2>4, OtherCalls DEF AddImport
  <2>5. ASSUME NEW k \in DOMAIN Exports, AddExport(k) PROVE BuilderInv'
    BY <2>1, <2>5, OtherCalls DEF AddExport
  <2>6. ASSUME NEW k \in DOMAIN Relocations, AddRelocation(k) PROVE BuilderInv'
    BY <2>1, <2>6, OtherCalls DEF AddRelocation
  <2>7. ASSUME Clear PROVE BuilderInv'
    <3>1. sections' \in Seq(DOMAIN Sections) /\ Returns("clear", "none")
      BY <2>7 DEF Clear
    <3> QED
      BY <3>1, OtherCalls
  <2>8. ASSUME NEW k \in DOMAIN Options, Build(k) PROVE BuilderInv'
    <3> DEFINE o == Options[k]
    <3>1. sections' = sections
      BY <2>8 DEF Build, lists
    <3>2. PICK e : /\ last' = [op |-> "build", options |-> k, error |-> e]
                   /\ BuildErrors(o) = {} \/ e \in BuildErrors(o)
      BY <2>8 DEF Build
    <3>3. e = "none" => LaidOut(o).error = "none"
      BY <3>2 DEF BuildErrors
    <3>4. LaidOut(o) = LaidFrom(sections, o)
      BY DEF LaidOut, LaidFrom
    <3>5. (LaidOut(options))' = LaidFrom(sections', options')
      BY DEF LaidOut, LaidFrom
    <3>6. options' = o
      BY <3>2 DEF options
    <3>7. HasBuilt' => e = "none"
      BY <3>2 DEF HasBuilt
    <3> HIDE DEF o
    <3>8. HasBuilt' => (LaidOut(options))'.error = "none"
      BY <3>1, <3>3, <3>4, <3>5, <3>6, <3>7
    <3>9. last.op' = "build" => last.options' \in DOMAIN Options
      BY <3>2
    <3> QED
      BY <2>1, <3>1, <3>8, <3>9 DEF BuilderInv
  <2>9. ASSUME UNCHANGED vars PROVE BuilderInv'
    <3>1. sections' = sections /\ last' = last
      BY <2>9 DEF vars
    <3>2. options' = options /\ (HasBuilt' <=> HasBuilt)
      BY <3>1 DEF options, HasBuilt
    <3>3. (LaidOut(options))' = LaidFrom(sections', options')
      BY DEF LaidOut, LaidFrom
    <3>4. LaidOut(options) = LaidFrom(sections, options)
      BY DEF LaidOut, LaidFrom
    <3>5. HasBuilt' => (LaidOut(options))'.error = "none"
      BY <3>1, <3>2, <3>3, <3>4 DEF BuilderInv
    <3> QED
      BY <2>1, <3>1, <3>5 DEF BuilderInv
  <2> QED
    BY <2>2, <2>3, <2>4, <2>5, <2>6, <2>7, <2>8, <2>9 DEF Next
<1> QED
  BY <1>1, <1>2, PTL DEF Spec

\* The image that was built, as build laid it out.
LEMMA BuiltIsSound ==
    ASSUME BuilderInv, HasBuilt
    PROVE  /\ IsOptions(options)
           /\ TurnOK(LaidOut(options), sections, Len(sections), options)
           /\ Built(options).sections = LaidOut(options).sections
           /\ Built(options).segments = LaidOut(options).segments
           /\ Built(options).file.bytes =
                 [n \in 0..(Len(LaidOut(options).storage) - 1) |->
                     LaidOut(options).storage[n + 1]]
<1>1. /\ sections \in Seq(DOMAIN Sections) /\ IsOptions(options)
      /\ LaidOut(options).error = "none"
  BY BuilderAssumption DEF BuilderInv, HasBuilt, options
<1>2. TurnOK(LaidOut(options), sections, Len(sections), options)
  BY <1>1, LaidOutIsSound DEF LayoutOK
<1>3. /\ Built(options).sections = LaidOut(options).sections
      /\ Built(options).segments = LaidOut(options).segments
      /\ Built(options).file.bytes =
            [n \in 0..(Len(LaidOut(options).storage) - 1) |->
                LaidOut(options).storage[n + 1]]
  BY DEF Built, ImageFrom
<1> QED
  BY <1>1, <1>2, <1>3

\* The file of the image.
FileOf(storage) == [j \in 0..(Len(storage) - 1) |-> storage[j + 1]]

\* A byte of a section that was placed, in the file.
LEMMA SectionByte ==
    ASSUME NEW b, NEW keys, NEW n \in Nat, NEW o, TurnOK(b, keys, n, o),
           NEW m \in 1..n, IsSection(Sections[keys[m]]),
           NEW k \in 1..Len(Sections[keys[m]].data)
    PROVE  FileOf(b.storage)[b.sections[m].file_offset + k - 1]
             = Sections[keys[m]].data[k]
<1> DEFINE source == Sections[keys[m]]
           offset == b.sections[m].file_offset
           length == Len(b.storage)
<1>1. SectionOK(b.sections[m], m, source, b.storage, length) /\ length \in Nat
  BY DEF TurnOK, IsVector
<1>2. /\ offset \in Nat /\ offset + Len(source.data) <= length
      /\ b.storage[offset + k] = source.data[k] /\ Len(source.data) \in Nat
  <2> HIDE DEF length
  <2> QED
    BY <1>1 DEF SectionOK, IsSection
<1> HIDE DEF offset, length, source
<1>3. offset + k - 1 \in 0..(length - 1) /\ (offset + k - 1) + 1 = offset + k
  <2>1. k \in 1..Len(source.data)
    BY DEF source
  <2> QED
    BY <1>1, <1>2, <2>1, SMTT(30)
<1>4. [j \in 0..(length - 1) |-> b.storage[j + 1]][offset + k - 1] = b.storage[offset + k]
  BY <1>3
<1> QED
  BY <1>2, <1>4 DEF offset, length, source, FileOf

\* All bytes of section m are in the file.
BytesInFile(b, keys, m) ==
    \A k \in 1..Len(Sections[keys[m]].data) :
        FileOf(b.storage)[b.sections[m].file_offset + k - 1] = Sections[keys[m]].data[k]

\* And so are those of every section.
LEMMA SectionBytes ==
    ASSUME NEW b, NEW keys, NEW n \in Nat, NEW o, TurnOK(b, keys, n, o),
           \A m \in 1..n : IsSection(Sections[keys[m]])
    PROVE  \A m \in 1..n : BytesInFile(b, keys, m)
BY SectionByte DEF BytesInFile

\* A segment has the data of its first section, and memory for all of it.
LoadsExactly(t, bytes, keys) ==
    LET source == Sections[keys[t.sections[1] + 1]]
    IN  /\ [k \in 1..t.file_size |-> bytes[t.file_offset + k - 1]] = source.data
        /\ t.memory_size = Len(source.data) + source.zero_fill

\* What SectionsKeepTheirBytes says of one segment.
LEMMA LoneSection ==
    ASSUME NEW b, NEW keys, NEW n \in Nat, NEW o, TurnOK(b, keys, n, o),
           \A m \in 1..n : IsSection(Sections[keys[m]]),
           NEW g \in 1..Len(b.segments), Len(b.segments[g].sections) = 1,
           NEW bytes, bytes = FileOf(b.storage)
    PROVE  LoadsExactly(b.segments[g], bytes, keys)
<1> DEFINE t == b.segments[g]
           m == t.sections[1] + 1
           source == Sections[keys[m]]
           data == source.data
           x == b.sections[m]
<1>1. SegmentOK(t, b.sections, b.file_cursor, b.memory_cursor) /\ Len(b.sections) = n
  BY DEF TurnOK
<1>2. 1 \in 1..Len(t.sections) /\ t.sections[1] \in 0..(n - 1)
  <2>1. 1 \in 1..Len(t.sections)
    OBVIOUS
  <2> HIDE DEF t
  <2> QED
    BY <1>1, <2>1 DEF SegmentOK
<1>3. m \in 1..n
  BY <1>2
<1>4. /\ t.file_offset = x.file_offset /\ t.file_size = x.file_size
      /\ t.memory_size = x.memory_size
  BY <1>1 DEF SegmentOK
<1>5. SectionOK(x, m, source, b.storage, b.file_cursor) /\ IsSection(source)
  BY <1>3 DEF TurnOK
<1> HIDE DEF m
<1>6. x.file_size = Len(data) /\ x.memory_size = Len(data) + source.zero_fill
      /\ data = [k \in 1..Len(data) |-> data[k]]
  <2> HIDE DEF x, source
  <2> QED
    BY <1>5 DEF SectionOK, IsSection
<1>7. \A k \in 1..Len(data) : bytes[x.file_offset + k - 1] = data[k]
  <2>1. BytesInFile(b, keys, m)
    BY <1>3, SectionBytes
  <2> QED
    BY <2>1 DEF BytesInFile
<1> HIDE DEF t, x, source, data
<1>8. [k \in 1..t.file_size |-> bytes[t.file_offset + k - 1]] = data
  BY <1>4, <1>6, <1>7
<1> QED
  BY <1>4, <1>6, <1>8 DEF t, x, source, data, m, LoadsExactly

\* SectionsKeepTheirBytes, of every image that BinaryImageBuilder::build returns.
THEOREM BytesAreKept == Spec => []SectionsKeepTheirBytes
<1>1. BuilderInv => SectionsKeepTheirBytes
  <2> SUFFICES ASSUME BuilderInv, HasBuilt PROVE SectionsKeepTheirBytes
    BY DEF SectionsKeepTheirBytes, LoneSectionsLoadExactly, Holds
  <2> DEFINE o == options
             b == LaidOut(options)
             i == Built(options)
             keys == sections
             n == Len(sections)
  <2>1. /\ TurnOK(b, keys, n, o) /\ i.sections = b.sections /\ i.segments = b.segments
        /\ i.file.bytes = FileOf(b.storage)
    BY BuiltIsSound DEF FileOf
  <2>2. n \in Nat /\ \A m \in 1..n : IsSection(Sections[keys[m]])
    BY BuilderAssumption DEF BuilderInv
  <2>3. LoneSectionsLoadExactly <=>
          \A g \in DOMAIN i.segments :
            Len(i.segments[g].sections) = 1 =>
                LoadsExactly(i.segments[g], i.file.bytes, keys)
    BY DEF LoneSectionsLoadExactly, Holds, LoadsExactly
  <2>4. SectionsKeepTheirBytes <=>
          /\ LoneSectionsLoadExactly
          /\ \A m \in DOMAIN i.sections : \A k \in DOMAIN Sections[keys[m]].data :
                i.file.bytes[i.sections[m].file_offset + k - 1]
                   = Sections[keys[m]].data[k]
    BY DEF SectionsKeepTheirBytes, Holds
  <2> HIDE DEF o, b, i, keys, n
  <2>5. DOMAIN i.segments = 1..Len(b.segments) /\ DOMAIN i.sections = 1..n
    BY <2>1 DEF TurnOK, IsVector
  <2>6. ASSUME NEW m \in 1..n PROVE DOMAIN Sections[keys[m]].data = 1..Len(Sections[keys[m]].data)
    BY <2>2 DEF IsSection
  <2>7. LoneSectionsLoadExactly
    BY <2>1, <2>2, <2>3, <2>5, LoneSection
  <2>8. ASSUME NEW m \in 1..n, NEW k \in 1..Len(Sections[keys[m]].data)
        PROVE  i.file.bytes[i.sections[m].file_offset + k - 1] = Sections[keys[m]].data[k]
    <3>1. IsSection(Sections[keys[m]])
      BY <2>2
    <3>2. FileOf(b.storage)[b.sections[m].file_offset + k - 1] = Sections[keys[m]].data[k]
      BY <2>1, <2>2, <2>8, <3>1, SectionByte
    <3>3. i.sections = b.sections /\ i.file.bytes = FileOf(b.storage)
      BY <2>1
    <3> QED
      BY <3>2, <3>3, Zenon
  <2> QED
    BY <2>4, <2>5, <2>6, <2>7, <2>8
<1> QED
  BY <1>1, BuilderInvariant, PTL

\* A section lies in the one segment that lists it.
HeldOnce(placed, segments, m, o) ==
    LET s == placed[m]
        holders == {g \in DOMAIN segments : s.index \in Range(segments[g].sections)}
    IN  /\ Cardinality(holders) = 1
        /\ \A g \in holders :
             LET t == segments[g] IN
             /\ s.file_offset >= t.file_offset
             /\ RangeInside(s.file_offset - t.file_offset, s.file_size, t.file_size)
             /\ s.virtual_address >= t.virtual_address
             /\ RangeInside(s.virtual_address - t.virtual_address,
                            s.memory_size, t.memory_size)
             /\ o.separate_permissions => s.permissions = t.perms

\* What SegmentsHoldSections says of one section.
LEMMA HoldersOf ==
    ASSUME NEW b, NEW keys, NEW n \in Nat, NEW o, TurnOK(b, keys, n, o),
           \A m \in 1..n : IsSection(Sections[keys[m]]), NEW m \in 1..n
    PROVE  HeldOnce(b.sections, b.segments, m, o)
<1> DEFINE s == b.sections[m]
           holders == {g \in 1..Len(b.segments) :
                          s.index \in Range(b.segments[g].sections)}
<1>1. /\ SectionOK(s, m, Sections[keys[m]], b.storage, b.file_cursor)
      /\ IsSection(Sections[keys[m]]) /\ HolderOK(b.sections, b.segments, m, o)
  BY DEF TurnOK
<1>2. PICK h \in 1..Len(b.segments) :
         /\ Lies(s, b.segments[h], o)
         /\ \A g \in 1..Len(b.segments) : Lists(b.segments[g], m - 1) <=> g = h
  BY <1>1 DEF HolderOK
<1> HIDE DEF s
<1>3. /\ s.index = m - 1 /\ s.file_offset \in Nat /\ s.file_size \in Nat
      /\ s.virtual_address \in Nat /\ s.memory_size \in Nat
  BY <1>1, SMTT(30) DEF SectionOK, IsSection
<1>4. \A g \in 1..Len(b.segments) :
         s.index \in Range(b.segments[g].sections) <=> Lists(b.segments[g], m - 1)
  <2> TAKE g \in 1..Len(b.segments)
  <2> DEFINE list == b.segments[g].sections
  <2>1. IsVector(list)
    BY DEF TurnOK, SegmentOK
  <2>2. DOMAIN list = 1..Len(list)
    BY <2>1 DEF IsVector
  <2>3. Lists(b.segments[g], m - 1) <=> \E j \in 1..Len(list) : list[j] = m - 1
    BY DEF Lists
  <2> HIDE DEF list
  <2>4. m - 1 \in Range(list) <=> \E j \in 1..Len(list) : list[j] = m - 1
    BY <2>2 DEF Range
  <2> QED
    BY <1>3, <2>3, <2>4 DEF list
<1>5. holders = {h}
  BY <1>2, <1>4
<1>6. Cardinality(holders) = 1
  BY <1>5, FS_Singleton
<1> DEFINE t == b.segments[h]
<1>7. /\ t.file_offset \in Nat /\ t.file_size \in Nat
      /\ t.virtual_address \in Nat /\ t.memory_size \in Nat
  BY DEF TurnOK, SegmentOK
<1>8. /\ t.file_offset <= s.file_offset
      /\ s.file_offset + s.file_size <= t.file_offset + t.file_size
      /\ t.virtual_address <= s.virtual_address
      /\ s.virtual_address + s.memory_size <= t.virtual_address + t.memory_size
      /\ o.separate_permissions => s.permissions = t.perms
  BY <1>2 DEF Lies
<1>9. ASSUME NEW a \in Nat, NEW l \in Nat, NEW c \in Nat, NEW z \in Nat,
             c <= a, a + l <= c + z
      PROVE  a >= c /\ RangeInside(a - c, l, z)
  BY <1>9 DEF RangeInside
<1> HIDE DEF t
<1>10. /\ s.file_offset >= t.file_offset
       /\ RangeInside(s.file_offset - t.file_offset, s.file_size, t.file_size)
  BY <1>3, <1>7, <1>8, <1>9
<1>11. /\ s.virtual_address >= t.virtual_address
       /\ RangeInside(s.virtual_address - t.virtual_address, s.memory_size, t.memory_size)
  BY <1>3, <1>7, <1>8, <1>9
<1>12. \A g \in holders : g = h
  BY <1>5
<1>13. DOMAIN b.segments = 1..Len(b.segments)
  BY DEF TurnOK, IsVector
<1> HIDE DEF holders
<1> QED
  BY <1>6, <1>8, <1>10, <1>11, <1>12, <1>13 DEF s, t, holders, HeldOnce

\* SegmentsHoldSections, of every image that BinaryImageBuilder::build returns.
THEOREM SectionsAreHeld == Spec => []SegmentsHoldSections
<1>1. BuilderInv => SegmentsHoldSections
  <2> SUFFICES ASSUME BuilderInv, HasBuilt PROVE SegmentsHoldSections
    BY DEF SegmentsHoldSections, Holds
  <2> DEFINE o == options
             b == LaidOut(options)
             i == Built(options)
             keys == sections
             n == Len(sections)
  <2>1. TurnOK(b, keys, n, o) /\ i.sections = b.sections /\ i.segments = b.segments
    BY BuiltIsSound
  <2>2. n \in Nat /\ \A m \in 1..n : IsSection(Sections[keys[m]])
    BY BuilderAssumption DEF BuilderInv
  <2>3. SegmentsHoldSections <=>
          \A m \in DOMAIN i.sections : HeldOnce(i.sections, i.segments, m, o)
    BY DEF SegmentsHoldSections, Holds, HeldOnce
  <2> HIDE DEF o, b, i, keys, n
  <2>4. DOMAIN i.sections = 1..n
    BY <2>1 DEF TurnOK, IsVector
  <2>5. \A m \in 1..n : HeldOnce(b.sections, b.segments, m, o)
    BY <2>1, <2>2, HoldersOf
  <2> QED
    BY <2>1, <2>3, <2>4, <2>5
<1> QED
  BY <1>1, BuilderInvariant, PTL

-----------------------------------------------------------------------------
(* LayoutPlanner::plan: the order of the regions.                          *)

\* The order in which std::sort of LayoutPlanner::plan leaves the regions: at
\* lists their keys, each once, by address.
IsOrder(at, regions) ==
    LET keys == DOMAIN regions
        count == Cardinality(keys)
    IN  /\ at \in [1..count -> keys]
        /\ \A n \in keys : \E k \in 1..count : at[k] = n
        /\ \A k, l \in 1..count : k < l =>
              /\ at[k] # at[l]
              /\ regions[at[k]].target_address <= regions[at[l]].target_address

\* Ranges with addresses and sizes, behind keys.
AreRegions(regions) ==
    /\ DOMAIN regions \subseteq Nat /\ IsFiniteSet(DOMAIN regions)
    /\ \A n \in DOMAIN regions :
          regions[n].target_address \in Nat /\ regions[n].target_size \in Nat

\* Precedes is a strict total order: what std::sort requires of a comparison,
\* with ties decided.
LEMMA PrecedesIsAnOrder ==
    ASSUME NEW regions, AreRegions(regions)
    PROVE  /\ \A n \in DOMAIN regions : ~Precedes(regions, n, n)
           /\ \A m, n \in DOMAIN regions :
                 m # n => Precedes(regions, m, n) \/ Precedes(regions, n, m)
           /\ \A l, m, n \in DOMAIN regions :
                 Precedes(regions, l, m) /\ Precedes(regions, m, n)
                    => Precedes(regions, l, n)
           /\ \A m, n \in DOMAIN regions :
                 Precedes(regions, m, n) =>
                    regions[m].target_address <= regions[n].target_address
<1> DEFINE a == [n \in DOMAIN regions |-> regions[n].target_address]
           s == [n \in DOMAIN regions |-> regions[n].target_size]
<1>1. \A m, n \in DOMAIN regions :
         Precedes(regions, m, n) <=>
            \/ a[m] < a[n]
            \/ a[m] = a[n] /\ s[m] < s[n]
            \/ a[m] = a[n] /\ s[m] = s[n] /\ m < n
  BY DEF AreRegions, Precedes, Before
<1>2. \A n \in DOMAIN regions : a[n] \in Nat /\ s[n] \in Nat /\ n \in Nat
  BY DEF AreRegions
<1>3. \A n \in DOMAIN regions : a[n] = regions[n].target_address
  OBVIOUS
<1> HIDE DEF a, s
<1>4. \A n \in DOMAIN regions : ~Precedes(regions, n, n)
  BY <1>1, <1>2
<1>5. \A m, n \in DOMAIN regions :
         m # n => Precedes(regions, m, n) \/ Precedes(regions, n, m)
  BY <1>1, <1>2
<1>6. \A l, m, n \in DOMAIN regions :
         Precedes(regions, l, m) /\ Precedes(regions, m, n)
            => Precedes(regions, l, n)
  BY <1>1, <1>2
<1>7. \A m, n \in DOMAIN regions :
         Precedes(regions, m, n) => a[m] <= a[n]
  BY <1>1, <1>2
<1> QED
  BY <1>3, <1>4, <1>5, <1>6, <1>7

\* Sorted lists the regions in an order, each where its predecessors leave room
\* for it.
LEMMA SortedIsOrdered ==
    ASSUME NEW regions, AreRegions(regions)
    PROVE  \E at : /\ IsOrder(at, regions)
                   /\ Sorted(regions) = [k \in 1..Cardinality(DOMAIN regions) |->
                                            regions[at[k]]]
<1> DEFINE H == DOMAIN regions
           N == Cardinality(H)
           Pre(n) == {m \in H : Precedes(regions, m, n)}
           place == [n \in H |-> Cardinality(Pre(n)) + 1]
           at == [k \in 1..N |-> CHOOSE n \in H : Cardinality(Pre(n)) + 1 = k]
<1>1. IsFiniteSet(H) /\ N \in Nat
  BY FS_CardinalityType DEF AreRegions
<1>2. ASSUME NEW n \in H
      PROVE  /\ IsFiniteSet(Pre(n)) /\ Cardinality(Pre(n)) \in Nat
             /\ Cardinality(Pre(n)) + 1 <= N
  <2>1. Pre(n) \in SUBSET (H \ {n})
    BY PrecedesIsAnOrder
  <2>2. IsFiniteSet(H \ {n}) /\ Cardinality(H \ {n}) = N - 1
    BY <1>1, FS_RemoveElement
  <2> HIDE DEF Pre, N
  <2>3. IsFiniteSet(Pre(n)) /\ Cardinality(Pre(n)) <= N - 1
    BY <2>1, <2>2, FS_Subset
  <2> QED
    BY <1>1, <2>3, FS_CardinalityType
<1>3. ASSUME NEW m \in H, NEW n \in H, Precedes(regions, m, n)
      PROVE  Cardinality(Pre(m)) < Cardinality(Pre(n))
  <2>1. m \notin Pre(m) /\ Pre(m) \cup {m} \in SUBSET Pre(n)
    BY <1>3, PrecedesIsAnOrder
  <2>2. IsFiniteSet(Pre(m)) /\ IsFiniteSet(Pre(n))
        /\ Cardinality(Pre(m)) \in Nat /\ Cardinality(Pre(n)) \in Nat
    BY <1>2
  <2> HIDE DEF Pre
  <2>3. Cardinality(Pre(m) \cup {m}) = Cardinality(Pre(m)) + 1
    BY <2>1, <2>2, FS_AddElement
  <2>4. Cardinality(Pre(m) \cup {m}) <= Cardinality(Pre(n))
    BY <2>1, <2>2, FS_Subset
  <2> QED
    BY <2>2, <2>3, <2>4
<1>4. place \in [H -> 1..N]
  <2> HIDE DEF Pre, H, N
  <2>1. \A n \in H : Cardinality(Pre(n)) + 1 \in 1..N
    BY <1>1, <1>2
  <2> QED
    BY <2>1
<1>5. \A m, n \in H : Precedes(regions, m, n) => place[m] < place[n]
  <2> TAKE m, n \in H
  <2>1. place[m] = Cardinality(Pre(m)) + 1 /\ place[n] = Cardinality(Pre(n)) + 1
    OBVIOUS
  <2> HIDE DEF Pre, place
  <2> QED
    BY <1>2, <1>3, <2>1
<1>6. \A n \in H, k \in 1..N : place[n] = k <=> Cardinality(Pre(n)) + 1 = k
  OBVIOUS
<1>7. at = [k \in 1..N |-> CHOOSE n \in H : Cardinality(Pre(n)) + 1 = k]
  OBVIOUS
<1>8. Sorted(regions) = [k \in 1..N |-> regions[at[k]]]
  BY DEF Sorted
<1>9. DOMAIN regions = H /\ Cardinality(H) = N
  OBVIOUS
<1>10. /\ \A m, n \in H : m # n => Precedes(regions, m, n) \/ Precedes(regions, n, m)
       /\ \A m, n \in H : Precedes(regions, m, n) =>
             regions[m].target_address <= regions[n].target_address
  BY PrecedesIsAnOrder
<1> HIDE DEF H, N, Pre, place, at
<1>11. place \in Injection(H, 1..N)
  <2>1. \A m, n \in H : place[m] = place[n] => m = n
    BY <1>4, <1>5, <1>10
  <2> QED
    BY <1>4, <2>1 DEF Injection, IsInjective
<1>12. IsFiniteSet(1..N) /\ Cardinality(1..N) = N
  BY <1>1, FS_Interval
<1>13. place \in Surjection(H, 1..N)
  BY <1>9, <1>11, <1>12, FS_Injection
<1>14. ASSUME NEW k \in 1..N PROVE at[k] \in H /\ place[at[k]] = k
  <2>1. \E n \in H : place[n] = k
    BY <1>13 DEF Surjection
  <2>2. \E n \in H : Cardinality(Pre(n)) + 1 = k
    BY <1>6, <2>1
  <2>3. at[k] \in H /\ Cardinality(Pre(at[k])) + 1 = k
    BY <1>7, <2>2
  <2> QED
    BY <1>6, <2>3
<1>15. at \in [1..N -> H]
  BY <1>7, <1>14
<1>16. ASSUME NEW n \in H PROVE \E k \in 1..N : at[k] = n
  <2>1. place[n] \in 1..N
    BY <1>4
  <2>2. at[place[n]] \in H /\ place[at[place[n]]] = place[n]
    BY <1>14, <2>1
  <2>3. at[place[n]] = n
    BY <1>11, <2>2 DEF Injection, IsInjective
  <2> QED
    BY <2>1, <2>3
<1>17. ASSUME NEW k \in 1..N, NEW l \in 1..N, k < l
       PROVE  /\ at[k] # at[l]
              /\ regions[at[k]].target_address <= regions[at[l]].target_address
  <2>1. /\ at[k] \in H /\ place[at[k]] = k
        /\ at[l] \in H /\ place[at[l]] = l
    BY <1>14
  <2>2. at[k] # at[l]
    BY <1>17, <2>1
  <2>3. ~Precedes(regions, at[l], at[k])
    BY <1>5, <1>17, <2>1
  <2> QED
    BY <1>10, <2>1, <2>2, <2>3
<1>18. IsOrder(at, regions)
  BY <1>9, <1>15, <1>16, <1>17 DEF IsOrder
<1> QED
  BY <1>8, <1>9, <1>18

-----------------------------------------------------------------------------
(* The placement of segments.                                              *)

\* A table of segments whose fields have their types.
AreSegments(segments) ==
    /\ IsVector(segments)
    /\ \A n \in 1..Len(segments) :
          /\ segments[n].virtual_address \in Nat /\ segments[n].memory_size \in Nat
          /\ segments[n].file_offset \in Nat /\ segments[n].file_size \in Nat

\* The regions before they are sorted, behind the numbers of their segments.
RegionsOf(image, base0) ==
    [n \in Holding(image.segments) |-> RegionOf(image, base0, image.segments[n])]

\* The loop that looks for the lowest address finds it.
LEMMA LowestIsLowest ==
    ASSUME NEW image, AreSegments(image.segments), Len(image.segments) > 0
    PROVE  /\ LowestAddress(image) \in Nat
           /\ \A n \in 1..Len(image.segments) :
                 LowestAddress(image) <= image.segments[n].virtual_address
<1> DEFINE D == DOMAIN image.segments
           A == {image.segments[n].virtual_address : n \in D}
<1>1. D = 1..Len(image.segments)
  BY DEF AreSegments, IsVector
<1>2. A \in SUBSET Nat /\ A # {}
  <2>1. 1 \in D
    BY <1>1 DEF AreSegments, IsVector
  <2> QED
    BY <1>1, <2>1 DEF AreSegments
<1>3. LowestAddress(image) = CHOOSE a \in A : \A b \in A : a <= b
  BY DEF LowestAddress
<1>4. \A n \in D : image.segments[n].virtual_address \in A
  OBVIOUS
<1> HIDE DEF A, D
<1>5. \E a \in A : \A b \in A : a <= b
  BY <1>2, LeastElement
<1>6. LowestAddress(image) \in A /\ \A b \in A : LowestAddress(image) <= b
  BY <1>3, <1>5
<1> QED
  BY <1>1, <1>2, <1>4, <1>6

\* What the fields of a region are: those of its segment, moved.
FieldsFollow(r, s, shift) ==
    /\ s.memory_size > 0
    /\ r.target_address = s.virtual_address + shift
    /\ r.target_address \in Nat
    /\ r.target_size = s.memory_size
    /\ r.source_offset = s.file_offset
    /\ r.source_size = s.file_size
    /\ r.permissions = s.perms

\* The displacement is the same for all segments, and no region of the plan
\* has a size or an address other than its segment gives it.
LEMMA RegionFields ==
    ASSUME NEW image, AreSegments(image.segments), Len(image.segments) > 0,
           NEW base0 \in Nat
    PROVE  \E shift \in Int :
              /\ shift = LayoutBase(image, base0) - LowestAddress(image)
              /\ \A n \in Holding(image.segments) :
                    /\ n \in 1..Len(image.segments)
                    /\ FieldsFollow(RegionsOf(image, base0)[n], image.segments[n], shift)
<1> DEFINE shift == LayoutBase(image, base0) - LowestAddress(image)
<1>1. /\ LowestAddress(image) \in Nat
      /\ \A n \in 1..Len(image.segments) :
            LowestAddress(image) <= image.segments[n].virtual_address
  BY LowestIsLowest
<1>2. LayoutBase(image, base0) \in Nat
  BY <1>1 DEF LayoutBase
<1>3. ASSUME NEW n \in Holding(image.segments)
      PROVE  /\ n \in 1..Len(image.segments)
             /\ FieldsFollow(RegionsOf(image, base0)[n], image.segments[n], shift)
  <2> DEFINE s == image.segments[n]
             r == RegionsOf(image, base0)[n]
  <2>1. n \in 1..Len(image.segments) /\ s.memory_size # 0
    BY <1>3 DEF Holding, HasMemory, AreSegments, IsVector
  <2>2. s.memory_size \in Nat /\ s.virtual_address \in Nat
    BY <2>1 DEF AreSegments
  <2>3. r = RegionOf(image, base0, s)
    BY DEF RegionsOf
  <2>4. /\ r.target_size = s.memory_size
        /\ r.source_offset = s.file_offset
        /\ r.source_size = s.file_size
        /\ r.permissions = s.perms
        /\ r.target_address = TargetAddress(image, base0, s)
    BY <2>3 DEF RegionOf
  <2>5. LowestAddress(image) <= s.virtual_address
    BY <1>1, <2>1
  <2>6. TargetAddress(image, base0, s)
          = LayoutBase(image, base0) + (s.virtual_address - LowestAddress(image))
    BY DEF TargetAddress
  <2> HIDE DEF s, r
  <2>7. r.target_address = s.virtual_address + shift /\ r.target_address \in Nat
    BY <1>1, <1>2, <2>2, <2>4, <2>5, <2>6
  <2> QED
    BY <2>1, <2>2, <2>4, <2>7 DEF s, r, FieldsFollow
<1>4. shift \in Int
  BY <1>1, <1>2
<1> QED
  BY <1>3, <1>4

\* The placed regions, by the order that std::sort leaves.
LEMMA PlacedInOrder ==
    ASSUME NEW image, AreSegments(image.segments), Len(image.segments) > 0,
           NEW base0 \in Nat
    PROVE  /\ AreRegions(RegionsOf(image, base0))
           /\ Cardinality(Holding(image.segments)) \in Nat
           /\ \E at :
                /\ IsOrder(at, RegionsOf(image, base0))
                /\ PlacedRegions(image, base0) =
                      [k \in 1..Cardinality(Holding(image.segments)) |->
                          RegionsOf(image, base0)[at[k]]]
<1> DEFINE R == RegionsOf(image, base0)
<1>1. DOMAIN R = Holding(image.segments)
  BY DEF RegionsOf
<1>2. Holding(image.segments) \in SUBSET (1..Len(image.segments))
        /\ Len(image.segments) \in Nat
  BY DEF Holding, AreSegments, IsVector
<1>3. IsFiniteSet(Holding(image.segments))
  <2>1. IsFiniteSet(1..Len(image.segments))
    BY <1>2, FS_Interval
  <2> QED
    BY <1>2, <2>1, FS_Subset
<1>4. ASSUME NEW n \in DOMAIN R
      PROVE  R[n].target_address \in Nat /\ R[n].target_size \in Nat
  <2>1. PICK shift \in Int : \A m \in Holding(image.segments) :
           FieldsFollow(R[m], image.segments[m], shift)
    BY RegionFields
  <2> QED
    BY <1>1, <1>2, <1>4, <2>1 DEF AreSegments, FieldsFollow
<1>5. AreRegions(R)
  BY <1>1, <1>2, <1>3, <1>4 DEF AreRegions
<1>6. PlacedRegions(image, base0) = Sorted(R)
  BY DEF PlacedRegions, RegionsOf
<1> HIDE DEF R
<1> QED
  BY <1>1, <1>3, <1>5, <1>6, SortedIsOrdered, FS_CardinalityType DEF R

\* Regions one after the other, each behind the end of those before.
Apart(regions) ==
    \A k, l \in 1..Len(regions) :
        k < l => TargetEnd(regions[k]) <= regions[l].target_address

\* Comparing each region with the one before it is enough, because they are
\* sorted: what a region overlaps it overlaps with its neighbour in between too.
LEMMA NeighboursDecide ==
    ASSUME NEW image, AreSegments(image.segments), Len(image.segments) > 0,
           NEW base0 \in Nat
    PROVE  /\ NeighboursOverlap(PlacedRegions(image, base0))
                <=> ~Separate(image.segments)
           /\ ~NeighboursOverlap(PlacedRegions(image, base0))
                => Apart(PlacedRegions(image, base0))
<1> DEFINE R == RegionsOf(image, base0)
           H == Holding(image.segments)
           N == Cardinality(H)
           P == PlacedRegions(image, base0)
           a == [n \in H |-> R[n].target_address]
           z == [n \in H |-> R[n].target_size]
           v == [n \in H |-> image.segments[n].virtual_address]
<1>1. PICK at : IsOrder(at, R) /\ P = [k \in 1..N |-> R[at[k]]]
  BY PlacedInOrder
<1>2. N \in Nat
  BY PlacedInOrder
<1>3. DOMAIN R = H
  BY DEF RegionsOf
<1>4. /\ at \in [1..N -> H]
      /\ \A n \in H : \E k \in 1..N : at[k] = n
      /\ \A k, l \in 1..N : k < l => at[k] # at[l] /\ a[at[k]] <= a[at[l]]
  <2> HIDE DEF R, N, H
  <2>1. DOMAIN R = H /\ Cardinality(H) = N
    BY <1>3 DEF N
  <2> QED
    BY <1>1, <2>1 DEF IsOrder
<1>5. PICK shift \in Int : \A n \in H :
         /\ n \in 1..Len(image.segments) /\ z[n] > 0
         /\ a[n] = v[n] + shift /\ a[n] \in Nat
         /\ z[n] = image.segments[n].memory_size
  <2>1. PICK shift \in Int : \A n \in H :
           n \in 1..Len(image.segments) /\ FieldsFollow(R[n], image.segments[n], shift)
    BY RegionFields
  <2>2. \A n \in H : /\ a[n] = R[n].target_address /\ z[n] = R[n].target_size
                     /\ v[n] = image.segments[n].virtual_address
    OBVIOUS
  <2> HIDE DEF R, H, a, z, v
  <2> QED
    BY <2>1, <2>2 DEF FieldsFollow
<1>6. \A n \in H : /\ z[n] \in Nat /\ z[n] > 0 /\ v[n] \in Nat
                   /\ a[n] = v[n] + shift /\ a[n] \in Nat
  BY <1>5 DEF AreSegments
<1>7. Separate(image.segments) <=>
         \A m, n \in H : m # n => v[m] + z[m] <= v[n] \/ v[n] + z[n] <= v[m]
  <2>1. \A n \in H : z[n] = image.segments[n].memory_size
                     /\ v[n] = image.segments[n].virtual_address
    BY <1>5
  <2>2. \A n \in DOMAIN image.segments : HasMemory(image.segments[n]) <=> n \in H
    BY DEF Holding
  <2>3. \A n \in H : n \in DOMAIN image.segments
    BY DEF Holding
  <2> HIDE DEF H, z, v
  <2> QED
    BY <2>1, <2>2, <2>3 DEF Separate
<1>8. Len(P) = N
  <2> HIDE DEF P, N, R, H
  <2> QED
    BY <1>1, <1>2
<1>9. \A k \in 1..N : /\ TargetEnd(P[k]) = a[at[k]] + z[at[k]]
                      /\ P[k].target_address = a[at[k]]
  BY <1>1, <1>4 DEF TargetEnd
<1>10. NeighboursOverlap(P) <=>
         \E k \in 1..(N - 1) : a[at[k]] + z[at[k]] > a[at[k + 1]]
  <2>1. \A k \in 1..(N - 1) : k \in 1..N /\ k + 1 \in 1..N
    BY <1>2
  <2> HIDE DEF P, N, R, H, a, z, v
  <2> QED
    BY <1>8, <1>9, <2>1 DEF NeighboursOverlap
<1>11. Apart(P) <=> \A k, l \in 1..N : k < l => a[at[k]] + z[at[k]] <= a[at[l]]
  <2> HIDE DEF P, N, R, H, a, z, v
  <2> QED
    BY <1>8, <1>9 DEF Apart
<1> HIDE DEF P, N, R, H, a, z, v
<1>12. ASSUME NEW k \in 1..(N - 1), a[at[k]] + z[at[k]] > a[at[k + 1]]
       PROVE  ~Separate(image.segments)
  <2> DEFINE m == at[k]
             n == at[k + 1]
  <2>1. m \in H /\ n \in H /\ m # n /\ a[m] <= a[n]
    BY <1>2, <1>4
  <2>2. a[m] + z[m] > a[n]
    BY <1>12
  <2> HIDE DEF m, n
  <2>3. ~(v[m] + z[m] <= v[n]) /\ ~(v[n] + z[n] <= v[m])
    <3>1. /\ z[m] \in Nat /\ z[m] > 0 /\ v[m] \in Nat /\ a[m] = v[m] + shift
          /\ z[n] \in Nat /\ z[n] > 0 /\ v[n] \in Nat /\ a[n] = v[n] + shift
      BY <1>6, <2>1
    <3> QED
      BY <2>1, <2>2, <3>1, SMTT(30)
  <2> QED
    BY <1>7, <2>1, <2>3
<1>13. ASSUME \A k \in 1..(N - 1) : ~(a[at[k]] + z[at[k]] > a[at[k + 1]])
       PROVE  \A k, l \in 1..N : k < l => a[at[k]] + z[at[k]] <= a[at[l]]
  <2> SUFFICES ASSUME NEW k \in 1..N, NEW l \in 1..N, k < l
               PROVE  a[at[k]] + z[at[k]] <= a[at[l]]
    OBVIOUS
  <2>1. k \in 1..(N - 1) /\ k + 1 \in 1..N
    BY <1>2
  <2>2. at[k] \in H /\ at[k + 1] \in H /\ at[l] \in H
    BY <1>4, <2>1
  <2>3. a[at[k + 1]] <= a[at[l]]
    <3>1. CASE k + 1 = l
      BY <1>5, <2>2, <3>1
    <3>2. CASE k + 1 < l
      BY <1>4, <2>1, <3>2
    <3> QED
      BY <1>2, <3>1, <3>2
  <2>4. ~(a[at[k]] + z[at[k]] > a[at[k + 1]])
    BY <1>13, <2>1
  <2>5. /\ z[at[k]] \in Nat /\ a[at[k]] \in Nat
        /\ a[at[k + 1]] \in Nat /\ a[at[l]] \in Nat
    BY <1>6, <2>2
  <2> QED
    BY <2>3, <2>4, <2>5
<1>14. ASSUME \A k, l \in 1..N : k < l => a[at[k]] + z[at[k]] <= a[at[l]]
       PROVE  Separate(image.segments)
  <2> SUFFICES ASSUME NEW m \in H, NEW n \in H, m # n
               PROVE  v[m] + z[m] <= v[n] \/ v[n] + z[n] <= v[m]
    BY <1>7
  <2>1. PICK k \in 1..N : at[k] = m
    BY <1>4
  <2>2. PICK l \in 1..N : at[l] = n
    BY <1>4
  <2>3. k < l \/ l < k
    BY <2>1, <2>2
  <2>4. a[m] + z[m] <= a[n] \/ a[n] + z[n] <= a[m]
    BY <1>14, <2>1, <2>2, <2>3
  <2>5. /\ z[m] \in Nat /\ v[m] \in Nat /\ a[m] = v[m] + shift
        /\ z[n] \in Nat /\ v[n] \in Nat /\ a[n] = v[n] + shift
    BY <1>6
  <2> QED
    BY <2>4, <2>5, SMTT(30)
<1> QED
  BY <1>10, <1>11, <1>12, <1>13, <1>14 DEF P

\* What LayoutPlanner::plan returns for an image whose segments can be placed.
LEMMA PlanOutcome ==
    ASSUME NEW image, Valid(image), image.segments # <<>>, NEW base0, NEW merge0,
           PlacementsError(image, base0) = "none"
    PROVE  LET placed == PlacedRegions(image, base0)
               regions == IF merge0 THEN Merge(placed) ELSE placed
           IN  /\ NeighboursOverlap(placed) =>
                     Plan(image, base0, merge0).error = "mapping_overlap"
               /\ ~NeighboursOverlap(placed) =>
                     \/ /\ MappedBytes(regions) > MaxMappedBytes
                        /\ Plan(image, base0, merge0).error = "resource_limit"
                     \/ /\ ~(MappedBytes(regions) > MaxMappedBytes)
                        /\ Plan(image, base0, merge0) = PlanOf(regions)
                        /\ Plan(image, base0, merge0).error = "none"
<1> DEFINE placed == PlacedRegions(image, base0)
           regions == IF merge0 THEN Merge(placed) ELSE placed
<1>1. Plan(image, base0, merge0) =
         IF NeighboursOverlap(placed) THEN Refused("mapping_overlap")
         ELSE IF PlanOf(regions).mapped_bytes > MaxMappedBytes
         THEN Refused("resource_limit") ELSE PlanOf(regions)
  BY DEF Plan
<1> HIDE DEF placed, regions
<1>2. /\ Refused("mapping_overlap").error = "mapping_overlap"
      /\ Refused("resource_limit").error = "resource_limit"
  BY DEF Refused
<1>3. PlanOf(regions).mapped_bytes = MappedBytes(regions) /\ PlanOf(regions).error = "none"
  BY DEF PlanOf
<1> QED
  BY <1>1, <1>2, <1>3 DEF placed, regions

\* The calls of the caller keep the types.
LayoutInv ==
    /\ listed \in Seq(DOMAIN Segments)
    /\ base \in Nat

\* The list of a caller of LayoutPlanner::plan is a list of segments.
LEMMA LayoutInvariant == LayoutSpec => []LayoutInv
<1>1. LayoutInit => LayoutInv
  BY DEF LayoutInit, LayoutInv
<1>2. LayoutInv /\ [LayoutNext]_layout_vars => LayoutInv'
  <2> SUFFICES ASSUME LayoutInv, [LayoutNext]_layout_vars PROVE LayoutInv'
    OBVIOUS
  <2>1. CASE AddSegment
    BY <2>1 DEF LayoutInv, AddSegment
  <2>2. CASE MakePlan
    <3>1. Bases \subseteq Nat
      BY LayoutAssumption, WordAssumption DEF Word
    <3> QED
      BY <2>2, <3>1 DEF LayoutInv, MakePlan
  <2>3. CASE NextImage
    BY <2>3 DEF LayoutInv, NextImage
  <2>4. CASE UNCHANGED layout_vars
    BY <2>4 DEF LayoutInv, layout_vars
  <2> QED
    BY <2>1, <2>2, <2>3, <2>4 DEF LayoutNext
<1> QED
  BY <1>1, <1>2, PTL DEF LayoutSpec

\* The image that is planned has a table of segments.
LEMMA RequestedSegments ==
    LayoutInv => /\ AreSegments(Requested.segments)
                 /\ Len(Requested.segments) = Len(listed)
                 /\ Requested.segments = <<>> <=> listed = <<>>
<1> SUFFICES ASSUME LayoutInv
             PROVE  /\ AreSegments(Requested.segments)
                    /\ Len(Requested.segments) = Len(listed)
                    /\ Requested.segments = <<>> <=> listed = <<>>
  OBVIOUS
<1> DEFINE segments == Requested.segments
<1>1. /\ listed \in Seq(DOMAIN Segments) /\ Len(listed) \in Nat
      /\ DOMAIN listed = 1..Len(listed)
      /\ \A n \in 1..Len(listed) : listed[n] \in DOMAIN Segments
  BY DEF LayoutInv
<1>2. segments = [n \in 1..Len(listed) |-> Segments[listed[n]]]
  BY <1>1 DEF Requested
<1> HIDE DEF segments
<1>3. Len(segments) = Len(listed)
  BY <1>1, <1>2
<1>4. IsVector(segments)
  BY <1>1, <1>2, <1>3 DEF IsVector
<1>5. \A n \in 1..Len(segments) : IsSegment(segments[n])
  BY <1>1, <1>2, <1>3, LayoutAssumption
<1>6. Word \subseteq Nat
  BY WordAssumption DEF Word
<1>7. AreSegments(segments)
  BY <1>4, <1>5, <1>6 DEF AreSegments, IsSegment
<1>8. segments = <<>> <=> listed = <<>>
  <2>1. listed = <<>> <=> Len(listed) = 0
    BY <1>1
  <2>2. segments = <<>> <=> Len(segments) = 0
    BY <1>2, <1>1, <1>3
  <2> QED
    BY <1>3, <2>1, <2>2
<1> QED
  BY <1>3, <1>7, <1>8 DEF segments

\* OverlapIsFound, for every list of segments and every base: LayoutPlanner::plan
\* refuses an image as overlapping exactly when two of its segments overlap.
THEOREM EveryOverlapIsFound == LayoutSpec => []OverlapIsFound
<1>1. LayoutInv => OverlapIsFound
  <2> SUFFICES ASSUME LayoutInv, Valid(Requested),
                      PlacementsError(Requested, base) = "none"
               PROVE  Answer.error = "mapping_overlap" <=> ~Separate(Requested.segments)
    BY DEF OverlapIsFound
  <2>1. /\ AreSegments(Requested.segments)
        /\ Len(Requested.segments) \in Nat
        /\ Requested.segments = <<>> <=> Len(Requested.segments) = 0
        /\ base \in Nat
    BY RequestedSegments DEF LayoutInv
  <2>2. CASE Requested.segments = <<>>
    <3>1. Answer = EmptyPlan(base)
      BY <2>2 DEF Answer, Plan
    <3>2. Answer.error = "none"
      BY <3>1 DEF EmptyPlan, Refused
    <3>3. Separate(Requested.segments)
      BY <2>2 DEF Separate
    <3> QED
      BY <3>2, <3>3
  <2>3. CASE Requested.segments # <<>>
    <3>1. NeighboursOverlap(PlacedRegions(Requested, base))
            <=> ~Separate(Requested.segments)
      BY <2>1, <2>3, NeighboursDecide
    <3>2. Answer.error = "mapping_overlap"
            <=> NeighboursOverlap(PlacedRegions(Requested, base))
      BY <2>3, PlanOutcome DEF Answer
    <3> QED
      BY <3>1, <3>2
  <2> QED
    BY <2>2, <2>3
<1> QED
  BY <1>1, LayoutInvariant, PTL

-----------------------------------------------------------------------------
(* Sums over a table.                                                      *)

\* Numbers that are added up one after the other.
AreSizes(sizes) ==
    IsVector(sizes) /\ \A k \in 1..Len(sizes) : sizes[k] \in Nat
AddsUp(f, sizes) ==
    /\ f[0] = 0
    /\ \A k \in 1..Len(sizes) : f[k] = f[k - 1] + sizes[k]

\* Total is the last value of the running total.
LEMMA TotalUnfolds ==
    ASSUME NEW sizes, AreSizes(sizes)
    PROVE  \E f : AddsUp(f, sizes) /\ Total(sizes) = f[Len(sizes)]
<1> DEFINE n == Len(sizes)
           Body(h) == [k \in 0..n |-> IF k = 0 THEN 0 ELSE h[k - 1] + sizes[k]]
           sum == CHOOSE h : h = Body(h)
<1>1. n \in Nat /\ \A k \in 1..n : sizes[k] \in Nat
  BY DEF AreSizes, IsVector
<1>2. \E h : h = Body(h)
  BY <1>1, RunningTotals
<1>3. sum = Body(sum)
  <2> HIDE DEF Body
  <2> QED
    BY <1>2
<1>4. Total(sizes) = sum[n]
  BY DEF Total
<1> HIDE DEF sum, n
<1>5. sum[0] = 0 /\ \A k \in 1..n : sum[k] = sum[k - 1] + sizes[k]
  BY <1>1, <1>3
<1> QED
  BY <1>4, <1>5 DEF AddsUp, n

\* The running totals are numbers, and depend on what was added only.
LEMMA SameFront ==
    ASSUME NEW s, AreSizes(s), NEW t, AreSizes(t), NEW f, AddsUp(f, s),
           NEW g, AddsUp(g, t), NEW n \in Nat, n <= Len(s), n <= Len(t),
           \A k \in 1..n : s[k] = t[k]
    PROVE  f[n] = g[n] /\ f[n] \in Nat
<1> DEFINE S == {k \in Nat : k <= n => f[k] = g[k] /\ f[k] \in Nat}
<1>1. 0 \in S
  BY DEF AddsUp
<1>2. ASSUME NEW k \in Nat, k \in S PROVE k + 1 \in S
  <2>1. SUFFICES ASSUME k + 1 <= n PROVE f[k + 1] = g[k + 1] /\ f[k + 1] \in Nat
    OBVIOUS
  <2>2. Len(s) \in Nat /\ Len(t) \in Nat
    BY DEF AreSizes, IsVector
  <2>3. k + 1 \in 1..n /\ k + 1 \in 1..Len(s) /\ k + 1 \in 1..Len(t)
        /\ (k + 1) - 1 = k /\ k <= n
    BY <2>1, <2>2
  <2>4. f[k] = g[k] /\ f[k] \in Nat
    BY <1>2, <2>3
  <2>5. f[k + 1] = f[k] + s[k + 1] /\ g[k + 1] = g[k] + t[k + 1]
    BY <2>3 DEF AddsUp
  <2>6. s[k + 1] = t[k + 1] /\ s[k + 1] \in Nat
    BY <2>3 DEF AreSizes
  <2> QED
    BY <2>4, <2>5, <2>6
<1> HIDE DEF S
<1>3. n \in S
  BY <1>1, <1>2, SetInduction
<1> QED
  BY <1>3 DEF S

\* A total is a number.
LEMMA TotalIsNat ==
    ASSUME NEW sizes, AreSizes(sizes)
    PROVE  Total(sizes) \in Nat
<1>1. PICK f : AddsUp(f, sizes) /\ Total(sizes) = f[Len(sizes)]
  BY TotalUnfolds
<1>2. Len(sizes) \in Nat
  BY DEF AreSizes, IsVector
<1> QED
  BY <1>1, <1>2, SameFront

\* One entry more adds its size.
LEMMA TotalOfMore ==
    ASSUME NEW s, AreSizes(s), NEW t, AreSizes(t), Len(t) = Len(s) + 1,
           \A k \in 1..Len(s) : s[k] = t[k]
    PROVE  Total(t) = Total(s) + t[Len(t)]
<1>1. PICK f : AddsUp(f, s) /\ Total(s) = f[Len(s)]
  BY TotalUnfolds
<1>2. PICK g : AddsUp(g, t) /\ Total(t) = g[Len(t)]
  BY TotalUnfolds
<1>3. Len(s) \in Nat /\ Len(t) - 1 = Len(s) /\ Len(t) \in 1..Len(t)
  BY DEF AreSizes, IsVector
<1>4. f[Len(s)] = g[Len(s)]
  BY <1>1, <1>2, <1>3, SameFront
<1>5. g[Len(t)] = g[Len(t) - 1] + t[Len(t)]
  BY <1>2, <1>3 DEF AddsUp
<1> QED
  BY <1>1, <1>2, <1>3, <1>4, <1>5

\* A last entry that grows adds what it grows by.
LEMMA TotalOfLarger ==
    ASSUME NEW s, AreSizes(s), NEW t, AreSizes(t), Len(t) = Len(s), Len(s) > 0,
           \A k \in 1..(Len(s) - 1) : s[k] = t[k],
           NEW x \in Nat, t[Len(s)] = s[Len(s)] + x
    PROVE  Total(t) = Total(s) + x
<1>1. PICK f : AddsUp(f, s) /\ Total(s) = f[Len(s)]
  BY TotalUnfolds
<1>2. PICK g : AddsUp(g, t) /\ Total(t) = g[Len(t)]
  BY TotalUnfolds
<1>3. Len(s) \in Nat /\ Len(s) - 1 \in Nat /\ Len(s) \in 1..Len(s) /\ s[Len(s)] \in Nat
  BY DEF AreSizes, IsVector
<1>4. f[Len(s) - 1] = g[Len(s) - 1] /\ f[Len(s) - 1] \in Nat
  <2> DEFINE n == Len(s) - 1
  <2>1. n \in Nat /\ n <= Len(s) /\ n <= Len(t) /\ \A k \in 1..n : s[k] = t[k]
    BY <1>3
  <2> HIDE DEF n
  <2>2. f[n] = g[n] /\ f[n] \in Nat
    BY <1>1, <1>2, <2>1, SameFront
  <2> QED
    BY <2>2 DEF n
<1>5. /\ f[Len(s)] = f[Len(s) - 1] + s[Len(s)]
      /\ g[Len(s)] = g[Len(s) - 1] + t[Len(s)]
  BY <1>1, <1>2, <1>3 DEF AddsUp
<1> QED
  BY <1>1, <1>2, <1>3, <1>4, <1>5

-----------------------------------------------------------------------------
(* The cells of regions.                                                   *)

\* A region with its fields, as plan.regions has them.
IsRegion(r) ==
    /\ r = [source_offset |-> r.source_offset, source_size |-> r.source_size,
            target_address |-> r.target_address, target_size |-> r.target_size,
            alignment |-> r.alignment, permissions |-> r.permissions]
    /\ r.source_offset \in Nat /\ r.source_size \in Nat
    /\ r.target_address \in Nat /\ r.target_size \in Nat /\ r.target_size > 0

Cell(r, k) == <<r.target_address + k, r.permissions,
                SourceOf(r.source_offset, r.source_size, k)>>

\* As many cells as addresses.
LEMMA CellsAreCounted ==
    ASSUME NEW r, IsRegion(r), NEW n \in Nat
    PROVE  /\ IsFiniteSet({Cell(r, k) : k \in 0..(n - 1)})
           /\ Cardinality({Cell(r, k) : k \in 0..(n - 1)}) = n
<1> DEFINE I == 0..(n - 1)
           C == {Cell(r, k) : k \in I}
           f == [k \in I |-> Cell(r, k)]
<1>1. \A k \in I : k \in Int
  OBVIOUS
<1>2. \A k \in I : Cell(r, k)[1] = r.target_address + k
  BY DEF Cell
<1>3. \A k, l \in I : Cell(r, k) = Cell(r, l) => k = l
  BY <1>1, <1>2 DEF IsRegion
<1>4. IsFiniteSet(I) /\ Cardinality(I) = n
  BY FS_Interval
<1> HIDE DEF I
<1>5. f \in Bijection(I, C)
  BY <1>3 DEF Bijection, Injection, Surjection, IsInjective
<1> QED
  BY <1>4, <1>5, FS_Bijection DEF ExistsBijection, I

\* The cells of a region are as many as its addresses, and those with a byte of
\* the file as many as its bytes.
LEMMA RegionIsCounted ==
    ASSUME NEW r, IsRegion(r), r.source_size <= r.target_size
    PROVE  LET C == RegionCells(r)
               B == {c \in RegionCells(r) : c[3] >= 0}
           IN  /\ IsFiniteSet(C) /\ Cardinality(C) = r.target_size
               /\ IsFiniteSet(B) /\ Cardinality(B) = r.source_size
<1>1. RegionCells(r) = {Cell(r, k) : k \in 0..(r.target_size - 1)}
  BY DEF RegionCells, Cell
<1>2. r.source_size \in Nat /\ r.target_size \in Nat /\ r.source_offset \in Nat
  BY DEF IsRegion
<1>3. ASSUME NEW k \in 0..(r.target_size - 1)
      PROVE  Cell(r, k)[3] >= 0 <=> k \in 0..(r.source_size - 1)
  <2>1. Cell(r, k)[3] = SourceOf(r.source_offset, r.source_size, k)
    BY DEF Cell
  <2>2. k < r.source_size => Cell(r, k)[3] = r.source_offset + k
    BY <2>1 DEF SourceOf
  <2>3. ~(k < r.source_size) => Cell(r, k)[3] = -1
    BY <2>1 DEF SourceOf
  <2> QED
    BY <1>2, <2>2, <2>3
<1>4. 0..(r.source_size - 1) \subseteq 0..(r.target_size - 1)
  BY <1>2
<1>5. {c \in RegionCells(r) : c[3] >= 0} = {Cell(r, k) : k \in 0..(r.source_size - 1)}
  BY <1>1, <1>3, <1>4
<1> DEFINE All == {Cell(r, k) : k \in 0..(r.target_size - 1)}
           Some == {Cell(r, k) : k \in 0..(r.source_size - 1)}
<1>6. IsFiniteSet(All) /\ Cardinality(All) = r.target_size
  BY <1>2, CellsAreCounted
<1>7. IsFiniteSet(Some) /\ Cardinality(Some) = r.source_size
  BY <1>2, CellsAreCounted
<1>8. RegionCells(r) = All /\ {c \in RegionCells(r) : c[3] >= 0} = Some
  BY <1>1, <1>5
<1> HIDE DEF All, Some
<1> QED
  BY <1>6, <1>7, <1>8

\* The table of a plan.
AreRegionTable(regions) ==
    IsVector(regions) /\ \A n \in 1..Len(regions) : IsRegion(regions[n])
TargetSizes(regions) == [n \in DOMAIN regions |-> regions[n].target_size]
SourceSizes(regions) == [n \in DOMAIN regions |-> regions[n].source_size]

\* Both columns can be added up.
LEMMA SizesOfRegions ==
    ASSUME NEW regions, AreRegionTable(regions)
    PROVE  /\ AreSizes(TargetSizes(regions)) /\ AreSizes(SourceSizes(regions))
           /\ Len(TargetSizes(regions)) = Len(regions)
           /\ Len(SourceSizes(regions)) = Len(regions)
           /\ \A n \in 1..Len(regions) :
                 /\ TargetSizes(regions)[n] = regions[n].target_size
                 /\ SourceSizes(regions)[n] = regions[n].source_size
<1> DEFINE t == TargetSizes(regions)
           s == SourceSizes(regions)
           N == Len(regions)
<1>1. N \in Nat /\ DOMAIN regions = 1..N
  BY DEF AreRegionTable, IsVector
<1>2. t = [n \in 1..N |-> regions[n].target_size]
      /\ s = [n \in 1..N |-> regions[n].source_size]
  BY <1>1 DEF TargetSizes, SourceSizes
<1>3. \A n \in 1..N : regions[n].target_size \in Nat /\ regions[n].source_size \in Nat
  BY DEF AreRegionTable, IsRegion
<1> HIDE DEF t, s, N
<1>4. Len(t) = N /\ Len(s) = N
  BY <1>1, <1>2
<1>5. AreSizes(t) /\ AreSizes(s)
  BY <1>1, <1>2, <1>3, <1>4 DEF AreSizes, IsVector
<1>6. \A n \in 1..N : t[n] = regions[n].target_size /\ s[n] = regions[n].source_size
  BY <1>2
<1> QED
  BY <1>4, <1>5, <1>6 DEF t, s, N

CellsUpTo(regions, k) == UNION {RegionCells(regions[n]) : n \in 1..k}

\* The cells of the first regions, one region after the other.
LEMMA CellsGrow ==
    ASSUME NEW regions, NEW k \in Nat
    PROVE  /\ CellsUpTo(regions, 0) = {}
           /\ CellsUpTo(regions, k + 1)
                = CellsUpTo(regions, k) \cup RegionCells(regions[k + 1])
<1>1. 1..0 = {} /\ 1..(k + 1) = (1..k) \cup {k + 1}
  OBVIOUS
<1> QED
  BY <1>1 DEF CellsUpTo

\* Disjoint sets have as many elements as both together.
LEMMA DisjointUnion ==
    ASSUME NEW S, IsFiniteSet(S), NEW T, IsFiniteSet(T), S \cap T = {}
    PROVE  /\ IsFiniteSet(S \cup T)
           /\ Cardinality(S \cup T) = Cardinality(S) + Cardinality(T)
<1>1. Cardinality(S \cup T) = Cardinality(S) + Cardinality(T) - Cardinality({})
  BY FS_Union
<1>2. Cardinality({}) = 0 /\ Cardinality(S) \in Nat /\ Cardinality(T) \in Nat
  BY FS_EmptySet, FS_CardinalityType
<1>3. IsFiniteSet(S \cup T)
  BY FS_Union
<1> QED
  BY <1>1, <1>2, <1>3

\* Regions that lie apart have as many cells as their sizes add up to.
LEMMA ApartAreCounted ==
    ASSUME NEW regions, AreRegionTable(regions), Apart(regions),
           \A n \in 1..Len(regions) : regions[n].source_size <= regions[n].target_size
    PROVE  LET C == CellsUpTo(regions, Len(regions)) IN
           /\ Cardinality(C) = Total(TargetSizes(regions))
           /\ Cardinality({c \in C : c[3] >= 0}) = Total(SourceSizes(regions))
<1> DEFINE N == Len(regions)
           C(k) == CellsUpTo(regions, k)
           B(k) == {c \in CellsUpTo(regions, k) : c[3] >= 0}
<1>1. PICK f : AddsUp(f, TargetSizes(regions)) /\ Total(TargetSizes(regions)) = f[N]
  BY SizesOfRegions, TotalUnfolds
<1>2. PICK g : AddsUp(g, SourceSizes(regions)) /\ Total(SourceSizes(regions)) = g[N]
  BY SizesOfRegions, TotalUnfolds
<1>3. N \in Nat
  BY DEF AreRegionTable, IsVector
<1>4. /\ f[0] = 0 /\ g[0] = 0
      /\ \A k \in 1..N : /\ f[k] = f[k - 1] + regions[k].target_size
                         /\ g[k] = g[k - 1] + regions[k].source_size
  BY <1>1, <1>2, SizesOfRegions DEF AddsUp
<1> DEFINE S == {k \in Nat : k <= N =>
                   /\ IsFiniteSet(C(k)) /\ Cardinality(C(k)) = f[k]
                   /\ IsFiniteSet(B(k)) /\ Cardinality(B(k)) = g[k]}
<1>5. 0 \in S
  <2>1. C(0) = {} /\ B(0) = {}
    BY CellsGrow
  <2> QED
    BY <1>4, <2>1, FS_EmptySet
<1>6. ASSUME NEW k \in Nat, k \in S PROVE k + 1 \in S
  <2>1. SUFFICES ASSUME k + 1 <= N
                 PROVE  /\ IsFiniteSet(C(k + 1)) /\ Cardinality(C(k + 1)) = f[k + 1]
                        /\ IsFiniteSet(B(k + 1)) /\ Cardinality(B(k + 1)) = g[k + 1]
    OBVIOUS
  <2> DEFINE r == regions[k + 1]
             R == RegionCells(r)
             Q == {c \in RegionCells(r) : c[3] >= 0}
  <2>2. /\ k + 1 \in 1..N /\ (k + 1) - 1 = k /\ k <= N
        /\ IsRegion(r) /\ r.source_size <= r.target_size
    BY <1>3, <2>1 DEF AreRegionTable
  <2>3. C(k + 1) = C(k) \cup R
    BY CellsGrow
  <2>4. B(k + 1) = B(k) \cup Q
    BY <2>3
  <2>5. C(k) \cap R = {}
    <3> SUFFICES ASSUME NEW c \in C(k), c \in R PROVE FALSE
      OBVIOUS
    <3>1. PICK n \in 1..k : c \in RegionCells(regions[n])
      BY DEF CellsUpTo
    <3>2. n \in 1..N /\ n < k + 1 /\ IsRegion(regions[n])
      BY <1>3, <2>1 DEF AreRegionTable
    <3>3. TargetEnd(regions[n]) <= r.target_address
      BY <2>2, <3>2 DEF Apart
    <3>4. PICK i \in 0..(regions[n].target_size - 1) :
             c[1] = regions[n].target_address + i
      BY <3>1 DEF RegionCells
    <3>5. PICK j \in 0..(r.target_size - 1) : c[1] = r.target_address + j
      BY DEF RegionCells
    <3> DEFINE a == regions[n].target_address
               z == regions[n].target_size
               b == r.target_address
    <3>6. a \in Nat /\ z \in Nat /\ b \in Nat
      BY <2>2, <3>2 DEF IsRegion
    <3>7. a + z <= b /\ i \in Int /\ i <= z - 1 /\ j \in Int /\ j >= 0 /\ a + i = b + j
      BY <3>3, <3>4, <3>5, <3>6 DEF TargetEnd
    <3> HIDE DEF a, b, z
    <3> QED
      BY <3>6, <3>7
  <2>6. B(k) \cap Q = {}
    BY <2>5
  <2>7. /\ IsFiniteSet(R) /\ Cardinality(R) = r.target_size
        /\ IsFiniteSet(Q) /\ Cardinality(Q) = r.source_size
    BY <2>2, RegionIsCounted
  <2>8. /\ IsFiniteSet(C(k)) /\ Cardinality(C(k)) = f[k]
        /\ IsFiniteSet(B(k)) /\ Cardinality(B(k)) = g[k]
    BY <1>6, <2>2
  <2>9. /\ f[k + 1] = f[k] + r.target_size /\ g[k + 1] = g[k] + r.source_size
        /\ r.target_size \in Nat /\ r.source_size \in Nat
    BY <1>4, <2>2 DEF IsRegion
  <2> HIDE DEF R, Q, C, B
  <2>10. IsFiniteSet(C(k) \cup R) /\ Cardinality(C(k) \cup R) = f[k] + r.target_size
    BY <2>5, <2>7, <2>8, DisjointUnion
  <2>11. IsFiniteSet(B(k) \cup Q) /\ Cardinality(B(k) \cup Q) = g[k] + r.source_size
    BY <2>6, <2>7, <2>8, DisjointUnion
  <2>12. IsFiniteSet(C(k + 1)) /\ Cardinality(C(k + 1)) = f[k + 1]
    BY <2>3, <2>9, <2>10
  <2>13. IsFiniteSet(B(k + 1)) /\ Cardinality(B(k + 1)) = g[k + 1]
    BY <2>4, <2>9, <2>11
  <2> QED
    BY <2>12, <2>13
<1> HIDE DEF S
<1>7. N \in S
  BY <1>3, <1>5, <1>6, SetInduction
<1> QED
  BY <1>1, <1>2, <1>3, <1>7 DEF S

-----------------------------------------------------------------------------
(* merge_adjacent: after each turn of the loop.                            *)

\* The merged regions span what the regions so far span.
MergedShape(regions, k, merged) ==
    /\ AreRegionTable(merged)
    /\ k = 0 => merged = <<>>
    /\ k > 0 => /\ Len(merged) > 0
                /\ merged[1].target_address = regions[1].target_address
                /\ TargetEnd(merged[Len(merged)]) = TargetEnd(regions[k])
    /\ \A n \in 1..Len(merged) :
          /\ regions[1].target_address <= merged[n].target_address
          /\ TargetEnd(merged[n]) <= TargetEnd(regions[k])

\* They have the same totals.
MergedTotals(merged, targets, sources) ==
    Total(TargetSizes(merged)) = targets /\ Total(SourceSizes(merged)) = sources

\* They have the same addresses and permissions.
MergedCells(regions, k, merged) ==
    Places(CellsUpTo(merged, Len(merged))) = Places(CellsUpTo(regions, k))

\* Two regions that were merged into one.
Joined(x, r) ==
    [x EXCEPT !.target_size = @ + r.target_size, !.source_size = @ + r.source_size]

\* The fields of the region they become.
LEMMA JoinedFields ==
    ASSUME NEW x, IsRegion(x), NEW r, IsRegion(r), CanMerge(x, r)
    PROVE  /\ IsRegion(Joined(x, r))
           /\ Joined(x, r).target_address = x.target_address
           /\ Joined(x, r).target_size = x.target_size + r.target_size
           /\ Joined(x, r).source_size = x.source_size + r.source_size
           /\ Joined(x, r).source_offset = x.source_offset
           /\ Joined(x, r).permissions = x.permissions
           /\ TargetEnd(Joined(x, r)) = TargetEnd(r)
<1> DEFINE y == Joined(x, r)
<1>1. x = [source_offset |-> x.source_offset, source_size |-> x.source_size,
           target_address |-> x.target_address, target_size |-> x.target_size,
           alignment |-> x.alignment, permissions |-> x.permissions]
  BY DEF IsRegion
<1>2. y = [source_offset |-> x.source_offset,
           source_size |-> x.source_size + r.source_size,
           target_address |-> x.target_address,
           target_size |-> x.target_size + r.target_size,
           alignment |-> x.alignment, permissions |-> x.permissions]
  <2> DEFINE ts == x.target_size + r.target_size
             ss == x.source_size + r.source_size
  <2>1. y = [x EXCEPT !.target_size = ts, !.source_size = ss]
    BY DEF Joined
  <2> HIDE DEF ts, ss, y
  <2>2. y = [source_offset |-> x.source_offset, source_size |-> ss,
             target_address |-> x.target_address, target_size |-> ts,
             alignment |-> x.alignment, permissions |-> x.permissions]
    BY <1>1, <2>1
  <2> QED
    BY <2>2 DEF ts, ss
<1> HIDE DEF y
<1>3. /\ y.target_address = x.target_address
      /\ y.target_size = x.target_size + r.target_size
      /\ y.source_size = x.source_size + r.source_size
      /\ y.source_offset = x.source_offset
      /\ y.permissions = x.permissions /\ y.alignment = x.alignment
  BY <1>2
<1>4. /\ x.target_size \in Nat /\ x.target_size > 0 /\ r.target_size \in Nat
      /\ x.source_size \in Nat /\ r.source_size \in Nat /\ x.source_offset \in Nat
      /\ x.target_address \in Nat /\ r.target_address \in Nat
  BY DEF IsRegion
<1>5. IsRegion(y)
  <2>1. y = [source_offset |-> y.source_offset, source_size |-> y.source_size,
             target_address |-> y.target_address, target_size |-> y.target_size,
             alignment |-> y.alignment, permissions |-> y.permissions]
    BY <1>2, <1>3
  <2>2. /\ y.source_offset \in Nat /\ y.source_size \in Nat
        /\ y.target_address \in Nat /\ y.target_size \in Nat /\ y.target_size > 0
    BY <1>3, <1>4
  <2> QED
    BY <2>1, <2>2 DEF IsRegion
<1>6. TargetEnd(y) = TargetEnd(r)
  <2>1. x.target_address + x.target_size = r.target_address
    BY DEF CanMerge, TargetEnd
  <2>2. TargetEnd(y) = x.target_address + (x.target_size + r.target_size)
    BY <1>3 DEF TargetEnd
  <2>3. TargetEnd(r) = r.target_address + r.target_size
    BY DEF TargetEnd
  <2> QED
    BY <1>4, <2>1, <2>2, <2>3
<1> QED
  BY <1>3, <1>5, <1>6 DEF y

\* The places of a region.
LEMMA PlacesOfRegion ==
    ASSUME NEW r
    PROVE  Places(RegionCells(r))
             = {<<r.target_address + k, r.permissions>> : k \in 0..(r.target_size - 1)}
<1> DEFINE C == RegionCells(r)
           D == {<<r.target_address + k, r.permissions>> : k \in 0..(r.target_size - 1)}
<1>1. ASSUME NEW p \in Places(C) PROVE p \in D
  <2>1. PICK c \in C : p = <<c[1], c[2]>>
    BY DEF Places
  <2>2. PICK k \in 0..(r.target_size - 1) :
           c = <<r.target_address + k, r.permissions,
                 SourceOf(r.source_offset, r.source_size, k)>>
    BY DEF RegionCells
  <2> QED
    BY <2>1, <2>2
<1>2. ASSUME NEW p \in D PROVE p \in Places(C)
  <2>1. PICK k \in 0..(r.target_size - 1) : p = <<r.target_address + k, r.permissions>>
    OBVIOUS
  <2> DEFINE c == <<r.target_address + k, r.permissions,
                    SourceOf(r.source_offset, r.source_size, k)>>
  <2>2. c \in C
    BY DEF RegionCells
  <2>3. p = <<c[1], c[2]>>
    BY <2>1
  <2> HIDE DEF c
  <2> QED
    BY <2>2, <2>3 DEF Places
<1> QED
  BY <1>1, <1>2

\* Places of several regions together.
LEMMA PlacesOfUnion ==
    ASSUME NEW C, NEW D
    PROVE  Places(C \cup D) = Places(C) \cup Places(D)
BY DEF Places

\* A region that two were merged into covers both.
LEMMA JoinedPlaces ==
    ASSUME NEW x, IsRegion(x), NEW r, IsRegion(r), CanMerge(x, r)
    PROVE  Places(RegionCells(Joined(x, r)))
             = Places(RegionCells(x)) \cup Places(RegionCells(r))
<1> DEFINE y == Joined(x, r)
           a == x.target_address
           m == x.target_size
           b == r.target_address
           n == r.target_size
           p == x.permissions
<1>1. /\ y.target_address = a /\ y.target_size = m + n /\ y.permissions = p
      /\ a \in Nat /\ m \in Nat /\ b \in Nat /\ n \in Nat
      /\ a + m = b /\ r.permissions = p
  BY JoinedFields DEF IsRegion, CanMerge, TargetEnd
<1> DEFINE Y == {<<a + k, p>> : k \in 0..(m + n - 1)}
           X == {<<a + k, p>> : k \in 0..(m - 1)}
           Z == {<<b + k, p>> : k \in 0..(n - 1)}
<1>2. /\ Places(RegionCells(y)) = Y /\ Places(RegionCells(x)) = X
      /\ Places(RegionCells(r)) = Z
  BY <1>1, PlacesOfRegion
<1> HIDE DEF y, a, m, b, n, p
<1>3. ASSUME NEW q \in Y PROVE q \in X \cup Z
  <2>1. PICK k \in 0..(m + n - 1) : q = <<a + k, p>>
    OBVIOUS
  <2>2. CASE k < m
    <3>1. k \in 0..(m - 1)
      BY <1>1, <2>2
    <3> QED
      BY <2>1, <3>1
  <2>3. CASE ~(k < m)
    <3>1. k - m \in 0..(n - 1) /\ a + k = b + (k - m)
      BY <1>1, <2>3
    <3>2. q = <<b + (k - m), p>>
      BY <2>1, <3>1
    <3> QED
      BY <3>1, <3>2
  <2> QED
    BY <2>2, <2>3
<1>4. ASSUME NEW q \in X PROVE q \in Y
  <2>1. PICK k \in 0..(m - 1) : q = <<a + k, p>>
    OBVIOUS
  <2>2. k \in 0..(m + n - 1)
    BY <1>1
  <2> QED
    BY <2>1, <2>2
<1>5. ASSUME NEW q \in Z PROVE q \in Y
  <2>1. PICK k \in 0..(n - 1) : q = <<b + k, p>>
    OBVIOUS
  <2>2. m + k \in 0..(m + n - 1) /\ b + k = a + (m + k)
    BY <1>1
  <2>3. q = <<a + (m + k), p>>
    BY <2>1, <2>2
  <2> QED
    BY <2>2, <2>3
<1>6. Y = X \cup Z
  BY <1>3, <1>4, <1>5
<1> QED
  BY <1>2, <1>6 DEF y

\* The cells of regions that are the same are the same.
LEMMA FrontCells ==
    ASSUME NEW v, NEW w, NEW n \in Nat, \A k \in 1..n : v[k] = w[k]
    PROVE  CellsUpTo(v, n) = CellsUpTo(w, n)
<1>1. {RegionCells(v[k]) : k \in 1..n} = {RegionCells(w[k]) : k \in 1..n}
  OBVIOUS
<1> QED
  BY <1>1 DEF CellsUpTo

\* What is known before a turn: the region that comes next lies behind all.
LEMMA NextRegion ==
    ASSUME NEW regions, AreRegionTable(regions), Apart(regions),
           NEW k \in Nat, k + 1 <= Len(regions)
    PROVE  /\ IsRegion(regions[k + 1]) /\ IsRegion(regions[1])
           /\ TargetEnd(regions[k + 1]) \in Nat
           /\ regions[k + 1].target_address <= TargetEnd(regions[k + 1])
           /\ regions[1].target_address <= regions[k + 1].target_address
           /\ k > 0 => /\ TargetEnd(regions[k]) \in Nat
                       /\ TargetEnd(regions[k]) <= regions[k + 1].target_address
<1> DEFINE N == Len(regions)
<1>1. N \in Nat /\ 1 \in 1..N /\ k + 1 \in 1..N /\ (k > 0 => k \in 1..N /\ k < k + 1)
  BY DEF AreRegionTable, IsVector
<1>2. \A n \in 1..N : IsRegion(regions[n]) /\ TargetEnd(regions[n]) \in Nat
                      /\ regions[n].target_address <= TargetEnd(regions[n])
  BY DEF AreRegionTable, IsRegion, TargetEnd
<1>3. k > 0 => TargetEnd(regions[k]) <= regions[k + 1].target_address
  BY <1>1 DEF Apart
<1>4. regions[1].target_address <= regions[k + 1].target_address
  <2>1. \A n \in 1..N : regions[n].target_address \in Nat
    BY <1>2 DEF IsRegion
  <2>2. CASE k = 0
    BY <1>1, <2>1, <2>2
  <2>3. CASE k # 0
    <3>1. 1 < k + 1
      BY <2>3
    <3>2. TargetEnd(regions[1]) <= regions[k + 1].target_address
      BY <1>1, <3>1 DEF Apart
    <3> QED
      BY <1>1, <1>2, <2>1, <3>2
  <2> QED
    BY <2>2, <2>3
<1> QED
  BY <1>1, <1>2, <1>3, <1>4

\* A turn that puts the next region behind the merged ones.
LEMMA MergeAppends ==
    ASSUME NEW regions, AreRegionTable(regions), Apart(regions),
           NEW k \in Nat, k + 1 <= Len(regions),
           NEW merged, MergedShape(regions, k, merged), MergedCells(regions, k, merged),
           NEW targets, NEW sources, MergedTotals(merged, targets, sources)
    PROVE  LET r == regions[k + 1]
               next == Append(merged, r)
           IN  /\ MergedShape(regions, k + 1, next)
               /\ MergedCells(regions, k + 1, next)
               /\ MergedTotals(next, targets + r.target_size, sources + r.source_size)
<1> DEFINE r == regions[k + 1]
           next == Append(merged, r)
           L == Len(merged)
<1>1. /\ IsRegion(r) /\ IsRegion(regions[1]) /\ TargetEnd(r) \in Nat
      /\ r.target_address <= TargetEnd(r)
      /\ regions[1].target_address <= r.target_address
      /\ k > 0 => TargetEnd(regions[k]) \in Nat /\ TargetEnd(regions[k]) <= r.target_address
  BY NextRegion
<1>2. AreRegionTable(merged) /\ L \in Nat /\ IsVector(merged)
  BY DEF MergedShape, AreRegionTable, IsVector
<1>3. /\ IsVector(next) /\ Len(next) = L + 1
      /\ \A n \in 1..L : next[n] = merged[n]
      /\ next[L + 1] = r
  BY <1>2, AppendVector
<1> HIDE DEF next
<1>4. AreRegionTable(next)
  <2>1. \A n \in 1..(L + 1) : n \in 1..L \/ n = L + 1
    BY <1>2
  <2> QED
    BY <1>1, <1>2, <1>3, <2>1 DEF AreRegionTable
<1>5. MergedShape(regions, k + 1, next)
  <2>1. k + 1 > 0 /\ k + 1 # 0 /\ L + 1 > 0
    BY <1>2
  <2>2. next[1].target_address = regions[1].target_address
    <3>1. CASE k = 0
      <4>1. L = 0
        BY <3>1 DEF MergedShape
      <4> QED
        BY <1>3, <3>1, <4>1
    <3>2. CASE k # 0
      <4>1. k > 0
        BY <3>2
      <4>2. L > 0 /\ merged[1].target_address = regions[1].target_address
        BY <4>1 DEF MergedShape
      <4>3. 1 \in 1..L
        BY <1>2, <4>2
      <4> QED
        BY <1>3, <4>2, <4>3
    <3> QED
      BY <3>1, <3>2
  <2>3. ASSUME NEW n \in 1..(L + 1)
        PROVE  /\ regions[1].target_address <= next[n].target_address
               /\ TargetEnd(next[n]) <= TargetEnd(r)
    <3>1. CASE n = L + 1
      BY <1>1, <1>3, <3>1
    <3>2. CASE n # L + 1
      <4>1. n \in 1..L /\ L # 0
        BY <1>2, <3>2
      <4>2. k > 0
        <5>1. CASE k = 0
          BY <4>1, <5>1 DEF MergedShape
        <5> QED
          BY <5>1
      <4>3. /\ regions[1].target_address <= merged[n].target_address
            /\ TargetEnd(merged[n]) <= TargetEnd(regions[k])
        BY <4>1 DEF MergedShape
      <4>4. TargetEnd(merged[n]) \in Nat /\ r.target_address \in Nat
        <5>1. IsRegion(merged[n])
          BY <1>2, <4>1 DEF AreRegionTable
        <5>2. TargetEnd(merged[n]) \in Nat
          BY <5>1 DEF IsRegion, TargetEnd
        <5>3. r.target_address \in Nat
          BY <1>1 DEF IsRegion
        <5> QED
          BY <5>2, <5>3
      <4>5. TargetEnd(merged[n]) <= TargetEnd(r)
        BY <1>1, <4>2, <4>3, <4>4
      <4> QED
        BY <1>3, <4>1, <4>3, <4>5
    <3> QED
      BY <3>1, <3>2
  <2> QED
    BY <1>3, <1>4, <2>1, <2>2, <2>3 DEF MergedShape
<1>6. MergedCells(regions, k + 1, next)
  <2>1. CellsUpTo(next, L + 1) = CellsUpTo(merged, L) \cup RegionCells(r)
    <3>1. CellsUpTo(next, L) = CellsUpTo(merged, L)
      BY <1>2, <1>3, FrontCells
    <3>2. CellsUpTo(next, L + 1) = CellsUpTo(next, L) \cup RegionCells(next[L + 1])
      BY <1>2, CellsGrow
    <3> QED
      BY <1>3, <3>1, <3>2
  <2>2. CellsUpTo(regions, k + 1) = CellsUpTo(regions, k) \cup RegionCells(r)
    BY CellsGrow
  <2>3. Places(CellsUpTo(next, Len(next))) = Places(CellsUpTo(regions, k + 1))
    <3>1. Places(CellsUpTo(merged, L)) = Places(CellsUpTo(regions, k))
      BY DEF MergedCells
    <3>2. Places(CellsUpTo(next, L + 1))
            = Places(CellsUpTo(merged, L)) \cup Places(RegionCells(r))
      BY <2>1, PlacesOfUnion
    <3>3. Places(CellsUpTo(regions, k + 1))
            = Places(CellsUpTo(regions, k)) \cup Places(RegionCells(r))
      BY <2>2, PlacesOfUnion
    <3> QED
      BY <1>3, <3>1, <3>2, <3>3
  <2> QED
    BY <2>3 DEF MergedCells
<1>7. MergedTotals(next, targets + r.target_size, sources + r.source_size)
  <2>1. /\ AreSizes(TargetSizes(merged)) /\ AreSizes(SourceSizes(merged))
        /\ Len(TargetSizes(merged)) = L /\ Len(SourceSizes(merged)) = L
        /\ \A n \in 1..L : /\ TargetSizes(merged)[n] = merged[n].target_size
                           /\ SourceSizes(merged)[n] = merged[n].source_size
    BY <1>2, SizesOfRegions
  <2>2. /\ AreSizes(TargetSizes(next)) /\ AreSizes(SourceSizes(next))
        /\ Len(TargetSizes(next)) = L + 1 /\ Len(SourceSizes(next)) = L + 1
        /\ \A n \in 1..(L + 1) : /\ TargetSizes(next)[n] = next[n].target_size
                                 /\ SourceSizes(next)[n] = next[n].source_size
    BY <1>3, <1>4, SizesOfRegions
  <2>3. /\ \A n \in 1..L : /\ TargetSizes(merged)[n] = TargetSizes(next)[n]
                           /\ SourceSizes(merged)[n] = SourceSizes(next)[n]
        /\ TargetSizes(next)[L + 1] = r.target_size
        /\ SourceSizes(next)[L + 1] = r.source_size
    <3>1. L + 1 \in 1..(L + 1) /\ \A n \in 1..L : n \in 1..(L + 1)
      BY <1>2
    <3> QED
      BY <1>3, <2>1, <2>2, <3>1
  <2>4. Total(TargetSizes(next)) = Total(TargetSizes(merged)) + r.target_size
    BY <2>1, <2>2, <2>3, TotalOfMore
  <2>5. Total(SourceSizes(next)) = Total(SourceSizes(merged)) + r.source_size
    BY <2>1, <2>2, <2>3, TotalOfMore
  <2> QED
    BY <2>4, <2>5 DEF MergedTotals
<1> QED
  BY <1>5, <1>6, <1>7 DEF next

\* A turn that merges the next region into the last one.
LEMMA MergeJoins ==
    ASSUME NEW regions, AreRegionTable(regions), Apart(regions),
           NEW k \in Nat, k + 1 <= Len(regions),
           NEW merged, MergedShape(regions, k, merged), MergedCells(regions, k, merged),
           NEW targets, NEW sources, MergedTotals(merged, targets, sources),
           merged # <<>>, CanMerge(merged[Len(merged)], regions[k + 1])
    PROVE  LET r == regions[k + 1]
               next == [merged EXCEPT ![Len(merged)] = Joined(@, r)]
           IN  /\ MergedShape(regions, k + 1, next)
               /\ MergedCells(regions, k + 1, next)
               /\ MergedTotals(next, targets + r.target_size, sources + r.source_size)
<1> DEFINE r == regions[k + 1]
           L == Len(merged)
           x == merged[L]
           y == Joined(x, r)
           next == [merged EXCEPT ![L] = y]
<1>1. /\ IsRegion(r) /\ IsRegion(regions[1]) /\ TargetEnd(r) \in Nat
      /\ r.target_address <= TargetEnd(r)
      /\ regions[1].target_address <= r.target_address
      /\ k > 0 => TargetEnd(regions[k]) \in Nat /\ TargetEnd(regions[k]) <= r.target_address
  BY NextRegion
<1>2. AreRegionTable(merged) /\ L \in Nat /\ IsVector(merged)
  BY DEF MergedShape, AreRegionTable, IsVector
<1>3. k > 0 /\ L > 0 /\ L \in 1..L
  <2>1. k # 0
    BY DEF MergedShape
  <2>2. k > 0
    BY <2>1
  <2> QED
    BY <1>2, <2>2 DEF MergedShape
<1>4. IsRegion(x) /\ CanMerge(x, r)
  BY <1>2, <1>3 DEF AreRegionTable
<1>5. /\ IsRegion(y) /\ y.target_address = x.target_address
      /\ y.target_size = x.target_size + r.target_size
      /\ y.source_size = x.source_size + r.source_size
      /\ TargetEnd(y) = TargetEnd(r)
  BY <1>1, <1>4, JoinedFields
<1>6. /\ next = [n \in 1..L |-> IF n = L THEN y ELSE merged[n]]
      /\ DOMAIN merged = 1..L
  <2>1. merged = [n \in 1..L |-> merged[n]]
    BY <1>2 DEF IsVector
  <2> HIDE DEF y, L
  <2> QED
    BY <1>3, <2>1
<1> HIDE DEF next, y
<1>7. /\ IsVector(next) /\ Len(next) = L /\ next[L] = y
      /\ \A n \in 1..L : n # L => next[n] = merged[n]
  <2> HIDE DEF L
  <2>1. Len(next) = L
    BY <1>2, <1>6
  <2>2. \A n \in 1..L : next[n] = IF n = L THEN y ELSE merged[n]
    BY <1>6
  <2>3. next = [n \in 1..L |-> next[n]]
    BY <1>6
  <2> QED
    BY <1>2, <1>3, <2>1, <2>2, <2>3 DEF IsVector
<1>8. AreRegionTable(next)
  BY <1>2, <1>5, <1>7 DEF AreRegionTable
<1>9. MergedShape(regions, k + 1, next)
  <2>1. k + 1 > 0 /\ k + 1 # 0
    OBVIOUS
  <2>2. next[1].target_address = regions[1].target_address
    <3>1. merged[1].target_address = regions[1].target_address
      BY <1>3 DEF MergedShape
    <3>2. 1 \in 1..L
      BY <1>2, <1>3
    <3>3. CASE L = 1
      BY <1>5, <1>7, <3>1, <3>3
    <3>4. CASE L # 1
      BY <1>7, <3>1, <3>2, <3>4
    <3> QED
      BY <3>3, <3>4
  <2>3. ASSUME NEW n \in 1..L
        PROVE  /\ regions[1].target_address <= next[n].target_address
               /\ TargetEnd(next[n]) <= TargetEnd(r)
    <3>1. /\ regions[1].target_address <= merged[n].target_address
          /\ TargetEnd(merged[n]) <= TargetEnd(regions[k])
      BY DEF MergedShape
    <3>2. CASE n = L
      BY <1>1, <1>5, <1>7, <3>1, <3>2
    <3>3. CASE n # L
      <4>1. TargetEnd(merged[n]) \in Nat
        <5>1. IsRegion(merged[n])
          BY <1>2 DEF AreRegionTable
        <5> QED
          BY <5>1 DEF IsRegion, TargetEnd
      <4>2. r.target_address \in Nat
        BY <1>1 DEF IsRegion
      <4>3. TargetEnd(merged[n]) <= TargetEnd(r)
        <5> HIDE DEF r
        <5> QED
          BY <1>1, <1>3, <3>1, <4>1, <4>2
      <4> QED
        BY <1>7, <3>1, <3>3, <4>3
    <3> QED
      BY <3>2, <3>3
  <2> QED
    BY <1>3, <1>5, <1>7, <1>8, <2>1, <2>2, <2>3 DEF MergedShape
<1> DEFINE front == CellsUpTo(merged, L - 1)
<1>10. /\ L - 1 \in Nat /\ (L - 1) + 1 = L
       /\ CellsUpTo(merged, L) = front \cup RegionCells(x)
       /\ CellsUpTo(next, L) = front \cup RegionCells(y)
  <2>1. L - 1 \in Nat /\ (L - 1) + 1 = L
    BY <1>2, <1>3
  <2>2. \A n \in 1..(L - 1) : next[n] = merged[n]
    BY <1>2, <1>7
  <2> HIDE DEF L
  <2>3. CellsUpTo(next, L - 1) = CellsUpTo(merged, L - 1)
    BY <2>1, <2>2, FrontCells
  <2>4. CellsUpTo(merged, (L - 1) + 1) = front \cup RegionCells(merged[(L - 1) + 1])
    BY <2>1, CellsGrow
  <2>5. CellsUpTo(next, (L - 1) + 1) = CellsUpTo(next, L - 1)
                                        \cup RegionCells(next[(L - 1) + 1])
    BY <2>1, CellsGrow
  <2> QED
    BY <1>7, <2>1, <2>3, <2>4, <2>5
<1>11. CellsUpTo(regions, k + 1) = CellsUpTo(regions, k) \cup RegionCells(r)
  BY CellsGrow
<1> HIDE DEF front
<1>12. MergedCells(regions, k + 1, next)
  <2>1. Places(CellsUpTo(next, Len(next))) = Places(CellsUpTo(regions, k + 1))
    <3>1. Places(CellsUpTo(merged, L)) = Places(CellsUpTo(regions, k))
      BY DEF MergedCells
    <3>2. Places(RegionCells(y)) = Places(RegionCells(x)) \cup Places(RegionCells(r))
      BY <1>1, <1>4, JoinedPlaces DEF y
    <3>3. Places(CellsUpTo(next, L)) = Places(front) \cup Places(RegionCells(y))
      BY <1>10, PlacesOfUnion
    <3>4. Places(CellsUpTo(merged, L)) = Places(front) \cup Places(RegionCells(x))
      BY <1>10, PlacesOfUnion
    <3>5. Places(CellsUpTo(regions, k + 1))
            = Places(CellsUpTo(regions, k)) \cup Places(RegionCells(r))
      BY <1>11, PlacesOfUnion
    <3> QED
      BY <1>7, <3>1, <3>2, <3>3, <3>4, <3>5
  <2> QED
    BY <2>1 DEF MergedCells
<1>13. MergedTotals(next, targets + r.target_size, sources + r.source_size)
  <2> DEFINE mt == TargetSizes(merged)
             ms == SourceSizes(merged)
             nt == TargetSizes(next)
             ns == SourceSizes(next)
  <2>1. /\ AreSizes(mt) /\ AreSizes(ms) /\ Len(mt) = L /\ Len(ms) = L
        /\ \A n \in 1..L : mt[n] = merged[n].target_size /\ ms[n] = merged[n].source_size
    BY <1>2, SizesOfRegions
  <2>2. /\ AreSizes(nt) /\ AreSizes(ns) /\ Len(nt) = L /\ Len(ns) = L
        /\ \A n \in 1..L : nt[n] = next[n].target_size /\ ns[n] = next[n].source_size
    BY <1>7, <1>8, SizesOfRegions
  <2> HIDE DEF mt, ms, nt, ns
  <2>3. /\ \A n \in 1..(L - 1) : mt[n] = nt[n] /\ ms[n] = ns[n]
        /\ nt[L] = mt[L] + r.target_size
        /\ ns[L] = ms[L] + r.source_size
    <3>1. \A n \in 1..(L - 1) : n \in 1..L /\ n # L
      BY <1>2
    <3>2. nt[L] = y.target_size /\ ns[L] = y.source_size
      BY <1>3, <1>7, <2>2
    <3>3. mt[L] = x.target_size /\ ms[L] = x.source_size
      BY <1>3, <2>1
    <3>4. \A n \in 1..(L - 1) : mt[n] = nt[n] /\ ms[n] = ns[n]
      BY <1>7, <2>1, <2>2, <3>1
    <3> QED
      BY <1>5, <3>2, <3>3, <3>4
  <2>4. r.target_size \in Nat /\ r.source_size \in Nat
    BY <1>1 DEF IsRegion
  <2> DEFINE u == r.target_size
             v == r.source_size
  <2>5. u \in Nat /\ v \in Nat /\ nt[L] = mt[L] + u /\ ns[L] = ms[L] + v
    BY <2>3, <2>4
  <2> HIDE DEF u, v, r, x, L
  <2>6. Total(nt) = Total(mt) + u
    <3>1. AreSizes(mt) /\ AreSizes(nt) /\ Len(nt) = Len(mt) /\ Len(mt) > 0
      BY <1>3, <2>1, <2>2
    <3>2. \A n \in 1..(Len(mt) - 1) : mt[n] = nt[n]
      BY <2>1, <2>3
    <3>3. u \in Nat /\ nt[Len(mt)] = mt[Len(mt)] + u
      BY <2>1, <2>5
    <3> QED
      BY <3>1, <3>2, <3>3, TotalOfLarger
  <2>7. Total(ns) = Total(ms) + v
    <3>1. AreSizes(ms) /\ AreSizes(ns) /\ Len(ns) = Len(ms) /\ Len(ms) > 0
      BY <1>3, <2>1, <2>2
    <3>2. \A n \in 1..(Len(ms) - 1) : ms[n] = ns[n]
      BY <2>1, <2>3
    <3>3. v \in Nat /\ ns[Len(ms)] = ms[Len(ms)] + v
      BY <2>1, <2>5
    <3> QED
      BY <3>1, <3>2, <3>3, TotalOfLarger
  <2> QED
    BY <2>6, <2>7 DEF MergedTotals, mt, ms, nt, ns, u, v
<1> QED
  BY <1>9, <1>12, <1>13 DEF next, y

-----------------------------------------------------------------------------
(* The bytes of the regions that were merged into one.                     *)

\* The numbers of a region.
LEMMA RegionIsExtent ==
    ASSUME NEW r, IsRegion(r)
    PROVE  /\ r.target_address \in Nat /\ r.target_size \in Nat /\ r.target_size > 0
           /\ r.source_offset \in Nat /\ r.source_size \in Nat
           /\ TargetEnd(r) = r.target_address + r.target_size
           /\ TargetEnd(r) \in Nat /\ r.target_address < TargetEnd(r)
<1>1. /\ r.target_address \in Nat /\ r.target_size \in Nat /\ r.target_size > 0
      /\ r.source_offset \in Nat /\ r.source_size \in Nat
  BY DEF IsRegion
<1>2. TargetEnd(r) = r.target_address + r.target_size
  BY DEF TargetEnd
<1> QED
  BY <1>1, <1>2

\* As the validator leaves them.
NoneIsLong(regions) ==
    \A n \in 1..Len(regions) : regions[n].source_size <= regions[n].target_size

\* A region lies in another in memory; it has no zeros.
Inside(p, x) ==
    x.target_address <= p.target_address /\ TargetEnd(p) <= TargetEnd(x)
Full(p) == p.source_size = p.target_size

\* How far behind the start of x a region lies, in memory and in the file.
Ahead(p, x) == p.target_address - x.target_address
FileAhead(p, x) == p.source_offset - x.source_offset

\* Region n was merged into x: it is as far behind the start in the file as in
\* memory if those before it have no zeros, and nearer otherwise; its bytes are
\* the last ones if those after it have none.
PartOK(regions, k, x, n) ==
    /\ regions[n].permissions = x.permissions
    /\ FileAhead(regions[n], x) \in Nat
    /\ FileAhead(regions[n], x) <= Ahead(regions[n], x)
    /\ FileAhead(regions[n], x) + regions[n].source_size <= x.source_size
    /\ FileAhead(regions[n], x) = Ahead(regions[n], x)
         <=> \A m \in 1..(n - 1) : Inside(regions[m], x) => Full(regions[m])
    /\ (\A m \in (n + 1)..k : Inside(regions[m], x) => regions[m].source_size = 0)
         => FileAhead(regions[n], x) + regions[n].source_size = x.source_size

PartsOK(regions, k, x) ==
    /\ \A n \in 1..k : Inside(regions[n], x) => PartOK(regions, k, x, n)
    /\ x.source_size <= x.target_size
    /\ Full(x) <=> \A m \in 1..k : Inside(regions[m], x) => Full(regions[m])

\* The merged regions lie apart, and each of the regions so far was merged into
\* one of them.
MergedParts(regions, k, merged) ==
    /\ Apart(merged)
    /\ \A j \in 1..Len(merged) : PartsOK(regions, k, merged[j])
    /\ \A n \in 1..k : \E j \in 1..Len(merged) : Inside(regions[n], merged[j])

\* The next region lies behind all before it.
LEMMA NextIsBehind ==
    ASSUME NEW regions, AreRegionTable(regions), Apart(regions),
           NEW k \in Nat, k + 1 <= Len(regions), NEW n \in 1..k
    PROVE  /\ IsRegion(regions[n])
           /\ TargetEnd(regions[n]) <= regions[k + 1].target_address
<1>1. n \in 1..Len(regions) /\ k + 1 \in 1..Len(regions) /\ n < k + 1
  BY DEF AreRegionTable, IsVector
<1> QED
  BY <1>1 DEF Apart, AreRegionTable

\* A region of the table has one part: itself.
LEMMA LonePart ==
    ASSUME NEW regions, AreRegionTable(regions), Apart(regions), NoneIsLong(regions),
           NEW k \in Nat, k <= Len(regions), NEW j \in 1..k
    PROVE  PartsOK(regions, k, regions[j]) /\ Inside(regions[j], regions[j])
<1> DEFINE r == regions[j]
<1>1. \A n \in 1..k : n \in 1..Len(regions) /\ IsRegion(regions[n])
  BY DEF AreRegionTable, IsVector
<1>2. \A n \in 1..k : /\ regions[n].target_address \in Nat
                      /\ TargetEnd(regions[n]) \in Nat
                      /\ regions[n].target_address < TargetEnd(regions[n])
  BY <1>1, RegionIsExtent
<1>3. ASSUME NEW n \in 1..k, Inside(regions[n], r) PROVE n = j
  <2>1. n < j => TargetEnd(regions[n]) <= regions[j].target_address
    BY <1>1 DEF Apart
  <2>2. j < n => TargetEnd(regions[j]) <= regions[n].target_address
    BY <1>1 DEF Apart
  <2> DEFINE a == regions[n].target_address
             c == TargetEnd(regions[n])
             b == regions[j].target_address
             d == TargetEnd(regions[j])
  <2>3. a \in Nat /\ c \in Nat /\ a < c /\ b \in Nat /\ d \in Nat /\ b < d
    BY <1>2
  <2>4. (n < j => c <= b) /\ (j < n => d <= a) /\ b <= a /\ c <= d
    BY <1>3, <2>1, <2>2 DEF Inside
  <2> HIDE DEF a, b, c, d
  <2>5. ~(n < j) /\ ~(j < n)
    BY <2>3, <2>4
  <2> QED
    BY <2>5
<1>4. /\ r.source_offset \in Nat /\ r.source_size \in Nat /\ r.target_size \in Nat
      /\ r.source_size <= r.target_size
  BY <1>1, RegionIsExtent DEF NoneIsLong
<1>5. Inside(r, r) /\ Ahead(r, r) = 0 /\ FileAhead(r, r) = 0
  <2> DEFINE a == r.target_address
             d == TargetEnd(r)
             f == r.source_offset
  <2>1. a \in Nat /\ d \in Nat /\ f \in Nat
    BY <1>2, <1>4
  <2>2. /\ Inside(r, r) <=> a <= a /\ d <= d
        /\ Ahead(r, r) = a - a /\ FileAhead(r, r) = f - f
    BY DEF Inside, Ahead, FileAhead
  <2> HIDE DEF a, d, f, r
  <2> QED
    BY <2>1, <2>2
<1>6. PartOK(regions, k, r, j)
  <2>1. /\ \A m \in 1..(j - 1) : m \in 1..k /\ m # j
        /\ FileAhead(r, r) + r.source_size = r.source_size
    BY <1>4, <1>5
  <2> QED
    BY <1>3, <1>4, <1>5, <2>1 DEF PartOK
<1> QED
  BY <1>3, <1>4, <1>5, <1>6 DEF PartsOK

\* A region that ends before the next one keeps its parts.
LEMMA PartsStay ==
    ASSUME NEW regions, AreRegionTable(regions),
           NEW k \in Nat, k + 1 <= Len(regions),
           NEW x, IsRegion(x), TargetEnd(x) <= regions[k + 1].target_address,
           PartsOK(regions, k, x)
    PROVE  PartsOK(regions, k + 1, x)
<1> DEFINE r == regions[k + 1]
<1>1. k + 1 \in 1..Len(regions) /\ IsRegion(r)
  BY DEF AreRegionTable, IsVector
<1>2. ~Inside(r, x)
  <2>1. r.target_address \in Nat /\ TargetEnd(r) \in Nat /\ r.target_address < TargetEnd(r)
    BY <1>1, RegionIsExtent
  <2>2. TargetEnd(x) \in Nat
    BY RegionIsExtent
  <2> HIDE DEF r
  <2> QED
    BY <2>1, <2>2 DEF Inside, r
<1>3. \A n \in 1..(k + 1) : n \in 1..k \/ n = k + 1
  OBVIOUS
<1>4. ASSUME NEW n \in 1..k, Inside(regions[n], x) PROVE PartOK(regions, k + 1, x, n)
  <2>1. PartOK(regions, k, x, n)
    BY <1>4 DEF PartsOK
  <2>2. \A m \in (n + 1)..k : m \in (n + 1)..(k + 1)
    OBVIOUS
  <2> QED
    BY <2>1, <2>2 DEF PartOK
<1>5. \A n \in 1..k : n \in 1..(k + 1)
  OBVIOUS
<1> QED
  BY <1>2, <1>3, <1>4, <1>5 DEF PartsOK

\* The region of a turn that merges has one part more.
LEMMA PartsJoin ==
    ASSUME NEW regions, AreRegionTable(regions), Apart(regions), NoneIsLong(regions),
           NEW k \in Nat, k + 1 <= Len(regions),
           NEW x, IsRegion(x), CanMerge(x, regions[k + 1]), PartsOK(regions, k, x)
    PROVE  PartsOK(regions, k + 1, Joined(x, regions[k + 1]))
<1> DEFINE r == regions[k + 1]
           y == Joined(x, r)
<1>1. k + 1 \in 1..Len(regions) /\ IsRegion(r) /\ r.source_size <= r.target_size
  BY DEF AreRegionTable, IsVector, NoneIsLong
<1>2. /\ y.target_address = x.target_address
      /\ y.target_size = x.target_size + r.target_size
      /\ y.source_size = x.source_size + r.source_size
      /\ y.source_offset = x.source_offset
      /\ y.permissions = x.permissions
      /\ TargetEnd(y) = TargetEnd(r)
  BY <1>1, JoinedFields
<1>3. /\ x.target_address \in Nat /\ x.target_size \in Nat
      /\ x.source_offset \in Nat /\ x.source_size \in Nat
      /\ TargetEnd(x) = x.target_address + x.target_size
      /\ TargetEnd(x) \in Nat /\ x.target_address < TargetEnd(x)
  BY RegionIsExtent
<1>4. /\ r.target_address \in Nat /\ r.target_size \in Nat
      /\ r.source_offset \in Nat /\ r.source_size \in Nat
      /\ TargetEnd(r) \in Nat /\ r.target_address < TargetEnd(r)
  BY <1>1, RegionIsExtent
<1>5. /\ TargetEnd(x) = r.target_address
      /\ x.source_offset + x.source_size = r.source_offset
      /\ x.permissions = r.permissions
  BY DEF CanMerge
<1> DEFINE xa == x.target_address
           xt == x.target_size
           xo == x.source_offset
           xs == x.source_size
           ra == r.target_address
           rt == r.target_size
           ro == r.source_offset
           rs == r.source_size
           rn == TargetEnd(r)
<1>16. /\ xa \in Nat /\ xt \in Nat /\ xo \in Nat /\ xs \in Nat
       /\ ra \in Nat /\ rt \in Nat /\ ro \in Nat /\ rs \in Nat /\ rn \in Nat
       /\ ra < rn /\ xa + xt = ra /\ xo + xs = ro /\ rs <= rt
  BY <1>1, <1>3, <1>4, <1>5
<1>17. /\ y.target_address = xa /\ y.target_size = xt + rt /\ y.source_offset = xo
       /\ y.source_size = xs + rs /\ TargetEnd(y) = rn /\ TargetEnd(x) = ra
  BY <1>2, <1>5
<1> HIDE DEF r, y, xa, xt, xo, xs, ra, rt, ro, rs, rn
<1>6. ASSUME NEW n \in 1..k
      PROVE  /\ Inside(regions[n], x) <=> Inside(regions[n], y)
             /\ Ahead(regions[n], y) = Ahead(regions[n], x)
             /\ FileAhead(regions[n], y) = FileAhead(regions[n], x)
  <2>1. IsRegion(regions[n]) /\ TargetEnd(regions[n]) <= r.target_address
    BY NextIsBehind DEF r
  <2>2. TargetEnd(regions[n]) \in Nat
    BY <2>1, RegionIsExtent
  <2> DEFINE a == regions[n].target_address
             d == TargetEnd(regions[n])
  <2>3. d \in Nat /\ d <= ra
    BY <2>1, <2>2 DEF ra
  <2>4. /\ Inside(regions[n], x) <=> xa <= a /\ d <= ra
        /\ Inside(regions[n], y) <=> xa <= a /\ d <= rn
    BY <1>17 DEF Inside, xa
  <2>5. /\ Ahead(regions[n], y) = Ahead(regions[n], x)
        /\ FileAhead(regions[n], y) = FileAhead(regions[n], x)
    BY <1>17 DEF Ahead, FileAhead, xa, xo
  <2> HIDE DEF a, d
  <2> QED
    BY <1>16, <2>3, <2>4, <2>5
<1>7. Inside(r, y) /\ Ahead(r, y) = xt /\ FileAhead(r, y) = xs
  <2>1. /\ Inside(r, y) <=> xa <= ra /\ rn <= rn
        /\ Ahead(r, y) = ra - xa /\ FileAhead(r, y) = ro - xo
    BY <1>17 DEF Inside, Ahead, FileAhead, ra, rn, ro
  <2> QED
    BY <1>16, <2>1
<1>8. /\ xs <= xt
      /\ Full(x) <=> \A m \in 1..k : Inside(regions[m], x) => Full(regions[m])
      /\ \A n \in 1..k : Inside(regions[n], x) => PartOK(regions, k, x, n)
  BY DEF PartsOK, xs, xt
<1>9. \A n \in 1..(k + 1) : n \in 1..k \/ n = k + 1
  OBVIOUS
<1>10. k + 1 \in 1..(k + 1) /\ (k + 1) - 1 = k /\ \A n \in 1..k : n \in 1..(k + 1)
  OBVIOUS
<1>11. y.source_size <= y.target_size
  BY <1>8, <1>16, <1>17
<1>12. Full(y) <=> Full(x) /\ Full(r)
  <2>1. (Full(x) <=> xs = xt) /\ (Full(r) <=> rs = rt)
        /\ (Full(y) <=> xs + rs = xt + rt)
    BY <1>17 DEF Full, xs, xt, rs, rt
  <2> QED
    BY <1>8, <1>16, <2>1
<1>13. Full(y) <=> \A m \in 1..(k + 1) : Inside(regions[m], y) => Full(regions[m])
  BY <1>6, <1>7, <1>8, <1>9, <1>10, <1>12 DEF r
<1>14. PartOK(regions, k + 1, y, k + 1)
  <2>1. FileAhead(r, y) = Ahead(r, y)
          <=> \A m \in 1..((k + 1) - 1) : Inside(regions[m], y) => Full(regions[m])
    BY <1>6, <1>7, <1>8, <1>10 DEF Full, xs, xt
  <2>2. FileAhead(r, y) \in Nat /\ FileAhead(r, y) <= Ahead(r, y)
    BY <1>7, <1>8, <1>16
  <2>3. FileAhead(r, y) + r.source_size = y.source_size
    BY <1>7, <1>17 DEF rs
  <2>4. y.source_size \in Nat
    BY <1>16, <1>17
  <2> QED
    BY <1>2, <1>5, <2>1, <2>2, <2>3, <2>4 DEF PartOK, r
<1>15. ASSUME NEW n \in 1..k, Inside(regions[n], y) PROVE PartOK(regions, k + 1, y, n)
  <2> DEFINE p == regions[n]
             f == FileAhead(p, x)
  <2>1. PartOK(regions, k, x, n)
    BY <1>6, <1>8, <1>15
  <2>2. /\ p.permissions = x.permissions /\ f \in Nat /\ f <= Ahead(p, x)
        /\ f + p.source_size <= xs
        /\ f = Ahead(p, x) <=> \A m \in 1..(n - 1) : Inside(regions[m], x) => Full(regions[m])
        /\ (\A m \in (n + 1)..k : Inside(regions[m], x) => regions[m].source_size = 0)
             => f + p.source_size = xs
    BY <2>1 DEF PartOK, xs
  <2>3. f = FileAhead(p, y) /\ Ahead(p, x) = Ahead(p, y)
    BY <1>6
  <2>4. p.source_size \in Nat
    <3>1. IsRegion(p)
      BY NextIsBehind
    <3> QED
      BY <3>1, RegionIsExtent
  <2>5. \A m \in 1..(n - 1) : m \in 1..k
    OBVIOUS
  <2>6. f = Ahead(p, x) <=> \A m \in 1..(n - 1) : Inside(regions[m], y) => Full(regions[m])
    BY <1>6, <2>2, <2>5
  <2>7. ASSUME \A m \in (n + 1)..(k + 1) : Inside(regions[m], y) => regions[m].source_size = 0
        PROVE  f + p.source_size = y.source_size
    <3>1. \A m \in (n + 1)..k : m \in 1..k /\ m \in (n + 1)..(k + 1)
      OBVIOUS
    <3>2. f + p.source_size = xs
      BY <1>6, <2>2, <2>7, <3>1
    <3>3. k + 1 \in (n + 1)..(k + 1)
      OBVIOUS
    <3>4. rs = 0
      BY <1>7, <2>7, <3>3 DEF r, rs
    <3> QED
      BY <1>16, <1>17, <3>2, <3>4
  <2> DEFINE q == p.source_size
  <2>10. f \in Nat /\ q \in Nat /\ f + q <= xs
    BY <2>2, <2>4
  <2> HIDE DEF f, q
  <2>11. f + q <= xs + rs
    BY <1>16, <2>10
  <2> HIDE DEF p
  <2>8. f + p.source_size <= y.source_size
    BY <1>17, <2>11 DEF q
  <2>9. p.permissions = y.permissions
    BY <1>2, <2>2
  <2> QED
    BY <2>2, <2>3, <2>6, <2>7, <2>8, <2>9 DEF PartOK, p, f
<1> QED
  BY <1>7, <1>9, <1>11, <1>13, <1>14, <1>15 DEF PartsOK, y, r

\* Before a turn all merged regions end before the next one.
LEMMA MergedAreBehind ==
    ASSUME NEW regions, AreRegionTable(regions), Apart(regions),
           NEW k \in Nat, k + 1 <= Len(regions),
           NEW merged, MergedShape(regions, k, merged), NEW j \in 1..Len(merged)
    PROVE  /\ IsRegion(merged[j])
           /\ TargetEnd(merged[j]) <= regions[k + 1].target_address
<1>1. IsRegion(merged[j])
  BY DEF MergedShape, AreRegionTable
<1>2. TargetEnd(merged[j]) \in Nat
  BY <1>1, RegionIsExtent
<1>3. k > 0
  <2>1. Len(merged) \in Nat
    BY DEF MergedShape, AreRegionTable, IsVector
  <2>2. merged = <<>> => Len(merged) = 0
    OBVIOUS
  <2>3. k # 0
    BY <2>1, <2>2 DEF MergedShape
  <2> QED
    BY <2>3
<1>4. TargetEnd(merged[j]) <= TargetEnd(regions[k])
  BY DEF MergedShape
<1>5. /\ TargetEnd(regions[k]) \in Nat
      /\ TargetEnd(regions[k]) <= regions[k + 1].target_address
      /\ IsRegion(regions[k + 1])
  BY <1>3, NextRegion
<1>6. regions[k + 1].target_address \in Nat
  BY <1>5, RegionIsExtent
<1> DEFINE a == TargetEnd(merged[j])
           b == TargetEnd(regions[k])
           c == regions[k + 1].target_address
<1>7. a \in Nat /\ b \in Nat /\ c \in Nat /\ a <= b /\ b <= c
  BY <1>2, <1>4, <1>5, <1>6
<1> HIDE DEF a, b, c
<1>8. a <= c
  BY <1>7
<1> QED
  BY <1>1, <1>8 DEF a, c

\* A turn that does not merge.
LEMMA PartsAppended ==
    ASSUME NEW regions, AreRegionTable(regions), Apart(regions), NoneIsLong(regions),
           NEW k \in Nat, k + 1 <= Len(regions),
           NEW merged, MergedShape(regions, k, merged), MergedParts(regions, k, merged)
    PROVE  MergedParts(regions, k + 1, Append(merged, regions[k + 1]))
<1> DEFINE r == regions[k + 1]
           next == Append(merged, r)
           L == Len(merged)
<1>1. L \in Nat /\ IsVector(merged)
  BY DEF MergedShape, AreRegionTable, IsVector
<1>2. /\ Len(next) = L + 1 /\ next[L + 1] = r
      /\ \A n \in 1..L : next[n] = merged[n]
  BY <1>1, AppendVector
<1>3. \A j \in 1..L : IsRegion(merged[j]) /\ TargetEnd(merged[j]) <= r.target_address
  BY MergedAreBehind
<1>4. PartsOK(regions, k + 1, r) /\ Inside(r, r)
  <2>1. k + 1 \in 1..(k + 1) /\ k + 1 \in Nat
    OBVIOUS
  <2> QED
    BY <2>1, LonePart
<1>5. \A j \in 1..L : PartsOK(regions, k + 1, merged[j])
  BY <1>3, PartsStay DEF MergedParts
<1> HIDE DEF next, r
<1>6. \A j \in 1..(L + 1) : j \in 1..L \/ j = L + 1
  BY <1>1
<1>7. Apart(next)
  <2> SUFFICES ASSUME NEW i \in 1..(L + 1), NEW j \in 1..(L + 1), i < j
               PROVE  TargetEnd(next[i]) <= next[j].target_address
    BY <1>2 DEF Apart
  <2>1. i \in 1..L
    BY <1>1
  <2>2. CASE j = L + 1
    BY <1>2, <1>3, <2>1, <2>2
  <2>3. CASE j \in 1..L
    BY <1>2, <2>1, <2>3 DEF MergedParts, Apart
  <2> QED
    BY <1>6, <2>2, <2>3
<1>8. \A j \in 1..(L + 1) : PartsOK(regions, k + 1, next[j])
  BY <1>2, <1>4, <1>5, <1>6
<1>9. ASSUME NEW n \in 1..(k + 1)
      PROVE  \E j \in 1..(L + 1) : Inside(regions[n], next[j])
  <2>1. CASE n = k + 1
    <3>1. L + 1 \in 1..(L + 1)
      BY <1>1
    <3> QED
      BY <1>2, <1>4, <2>1, <3>1 DEF r
  <2>2. CASE n # k + 1
    <3>1. n \in 1..k
      BY <2>2
    <3>2. PICK j \in 1..L : Inside(regions[n], merged[j])
      BY <3>1 DEF MergedParts
    <3>3. j \in 1..(L + 1)
      BY <1>1
    <3> QED
      BY <1>2, <3>2, <3>3
  <2> QED
    BY <2>1, <2>2
<1> QED
  BY <1>2, <1>7, <1>8, <1>9 DEF MergedParts, next, r

\* A turn that merges.
LEMMA PartsJoined ==
    ASSUME NEW regions, AreRegionTable(regions), Apart(regions), NoneIsLong(regions),
           NEW k \in Nat, k + 1 <= Len(regions),
           NEW merged, MergedShape(regions, k, merged), MergedParts(regions, k, merged),
           merged # <<>>, CanMerge(merged[Len(merged)], regions[k + 1])
    PROVE  MergedParts(regions, k + 1,
                       [merged EXCEPT ![Len(merged)] = Joined(@, regions[k + 1])])
<1> DEFINE r == regions[k + 1]
           L == Len(merged)
           x == merged[L]
           y == Joined(x, r)
           next == [merged EXCEPT ![L] = y]
<1>1. L \in Nat /\ merged = [n \in 1..L |-> merged[n]]
  BY DEF MergedShape, AreRegionTable, IsVector
<1>2. L \in 1..L
  <2>1. L # 0
    BY <1>1
  <2> QED
    BY <1>1, <2>1
<1>3. \A j \in 1..L : IsRegion(merged[j]) /\ TargetEnd(merged[j]) <= r.target_address
  BY MergedAreBehind
<1>4. IsRegion(r)
  BY NextRegion
<1>5. PartsOK(regions, k + 1, y)
  BY <1>2, <1>3, PartsJoin DEF MergedParts
<1>6. /\ y.target_address = x.target_address /\ TargetEnd(y) = TargetEnd(r)
  BY <1>2, <1>3, <1>4, JoinedFields
<1> HIDE DEF y
<1>7. /\ Len(next) = L /\ next[L] = y
      /\ \A n \in 1..L : n # L => next[n] = merged[n]
  <2> HIDE DEF L
  <2>1. next = [n \in 1..L |-> IF n = L THEN y ELSE merged[n]]
    BY <1>1, <1>2
  <2> HIDE DEF next
  <2>2. Len(next) = L
    BY <1>1, <2>1
  <2> QED
    BY <1>2, <2>1, <2>2
<1> HIDE DEF next
<1>8. \A j \in 1..L : j # L => PartsOK(regions, k + 1, merged[j])
  BY <1>3, PartsStay DEF MergedParts
<1>9. \A j \in 1..L : PartsOK(regions, k + 1, next[j])
  BY <1>5, <1>7, <1>8
<1>10. Apart(next)
  <2> SUFFICES ASSUME NEW i \in 1..L, NEW j \in 1..L, i < j
               PROVE  TargetEnd(next[i]) <= next[j].target_address
    BY <1>7 DEF Apart
  <2>1. i # L
    BY <1>1
  <2>2. TargetEnd(merged[i]) <= merged[j].target_address
    BY DEF MergedParts, Apart
  <2>3. next[j].target_address = merged[j].target_address
    BY <1>6, <1>7
  <2> QED
    BY <1>7, <2>1, <2>2, <2>3
<1>11. /\ r.target_address \in Nat /\ TargetEnd(r) \in Nat
       /\ r.target_address < TargetEnd(r)
       /\ x.target_address \in Nat /\ TargetEnd(x) \in Nat
       /\ x.target_address < TargetEnd(x)
       /\ TargetEnd(x) = r.target_address
  BY <1>2, <1>3, <1>4, RegionIsExtent DEF CanMerge
<1> HIDE DEF x, r, L
<1>12. ASSUME NEW n \in 1..(k + 1)
       PROVE  \E j \in 1..L : Inside(regions[n], next[j])
  <2>1. CASE n = k + 1
    <3>1. Inside(r, y)
      BY <1>6, <1>11 DEF Inside
    <3> QED
      BY <1>2, <1>7, <2>1, <3>1 DEF r
  <2>2. CASE n # k + 1
    <3>1. n \in 1..k
      BY <2>2
    <3>2. PICK j \in 1..L : Inside(regions[n], merged[j])
      BY <3>1 DEF MergedParts, L
    <3>3. CASE j # L
      BY <1>7, <3>2, <3>3
    <3>4. CASE j = L
      <4>1. IsRegion(regions[n])
        BY <3>1, NextIsBehind
      <4>2. TargetEnd(regions[n]) \in Nat
        BY <4>1, RegionIsExtent
      <4>3. Inside(regions[n], x)
        BY <3>2, <3>4 DEF x
      <4>4. Inside(regions[n], y)
        BY <1>6, <1>11, <4>2, <4>3 DEF Inside
      <4> QED
        BY <1>2, <1>7, <4>4
    <3> QED
      BY <3>3, <3>4
  <2> QED
    BY <2>1, <2>2
<1> QED
  BY <1>7, <1>9, <1>10, <1>12 DEF MergedParts, next, y, x, r, L

\* The four parts together, after a turn of the loop.
MergedSoFar(regions, k, merged, targets, sources) ==
    /\ MergedShape(regions, k, merged)
    /\ MergedCells(regions, k, merged)
    /\ MergedTotals(merged, targets, sources)
    /\ MergedParts(regions, k, merged)

\* A turn of the loop of merge_adjacent, whether it merges or not.
LEMMA MergeNextKeeps ==
    ASSUME NEW regions, AreRegionTable(regions), Apart(regions), NoneIsLong(regions),
           NEW k \in Nat, k + 1 <= Len(regions),
           NEW merged, NEW targets, NEW sources,
           MergedSoFar(regions, k, merged, targets, sources)
    PROVE  MergedSoFar(regions, k + 1, MergeNext(merged, regions[k + 1]),
                       targets + regions[k + 1].target_size,
                       sources + regions[k + 1].source_size)
<1> DEFINE r == regions[k + 1]
           L == Len(merged)
           next == MergeNext(merged, r)
<1>1. /\ MergedShape(regions, k, merged) /\ MergedCells(regions, k, merged)
      /\ MergedTotals(merged, targets, sources) /\ MergedParts(regions, k, merged)
  BY DEF MergedSoFar
<1>2. CASE merged # <<>> /\ CanMerge(merged[L], r)
  <2>1. next = [merged EXCEPT ![L] = Joined(@, r)]
    <3>1. next = [merged EXCEPT ![L].target_size = @ + r.target_size,
                                ![L].source_size = @ + r.source_size]
      BY <1>2 DEF MergeNext
    <3> HIDE DEF next, r, L
    <3>2. [merged EXCEPT ![L].target_size = @ + r.target_size,
                         ![L].source_size = @ + r.source_size]
            = [merged EXCEPT ![L] = Joined(@, r)]
      BY DEF Joined
    <3> QED
      BY <3>1, <3>2
  <2> DEFINE joined == [merged EXCEPT ![L] = Joined(@, r)]
  <2>2. /\ MergedShape(regions, k + 1, joined)
        /\ MergedCells(regions, k + 1, joined)
        /\ MergedTotals(joined, targets + r.target_size, sources + r.source_size)
    BY <1>1, <1>2, MergeJoins
  <2>3. MergedParts(regions, k + 1, joined)
    BY <1>1, <1>2, PartsJoined
  <2> QED
    BY <2>1, <2>2, <2>3 DEF MergedSoFar
<1>3. CASE ~(merged # <<>> /\ CanMerge(merged[L], r))
  <2>1. next = Append(merged, r)
    BY <1>3 DEF MergeNext
  <2> DEFINE appended == Append(merged, r)
  <2>2. /\ MergedShape(regions, k + 1, appended)
        /\ MergedCells(regions, k + 1, appended)
        /\ MergedTotals(appended, targets + r.target_size, sources + r.source_size)
    BY <1>1, MergeAppends
  <2>3. MergedParts(regions, k + 1, appended)
    BY <1>1, PartsAppended
  <2> QED
    BY <2>1, <2>2, <2>3 DEF MergedSoFar
<1> QED
  BY <1>2, <1>3

\* The merged regions after each turn.
MergeTurns(f, regions, n) ==
    [k \in 0..n |-> IF k = 0 THEN <<>> ELSE MergeNext(f[k - 1], regions[k])]

\* The loop comes to an end: there are merged regions after each turn.
LEMMA MergesExist ==
    ASSUME NEW regions, NEW n \in Nat
    PROVE  \E f : f = MergeTurns(f, regions, n)
<1> DEFINE S == {m \in Nat : \E f : f = MergeTurns(f, regions, m)}
<1>1. 0 \in S
  <2> DEFINE f0 == [k \in 0..0 |-> <<>>]
  <2>1. f0 = MergeTurns(f0, regions, 0)
    BY DEF MergeTurns
  <2> QED
    BY <2>1
<1>2. ASSUME NEW m \in Nat, m \in S PROVE m + 1 \in S
  <2>1. PICK f : f = MergeTurns(f, regions, m)
    BY <1>2
  <2> DEFINE next == [k \in 0..(m + 1) |->
                        IF k = m + 1 THEN MergeNext(f[m], regions[m + 1]) ELSE f[k]]
  <2>2. \A k \in 0..m :
           f[k] = IF k = 0 THEN <<>> ELSE MergeNext(f[k - 1], regions[k])
    BY <2>1 DEF MergeTurns
  <2>3. /\ next[m + 1] = MergeNext(f[m], regions[m + 1])
        /\ \A k \in 0..m : next[k] = f[k]
    OBVIOUS
  <2>4. DOMAIN next = 0..(m + 1) /\ next = [k \in 0..(m + 1) |-> next[k]]
    OBVIOUS
  <2> HIDE DEF next
  <2>5. ASSUME NEW k \in 0..(m + 1)
        PROVE  next[k] = IF k = 0 THEN <<>> ELSE MergeNext(next[k - 1], regions[k])
    <3>1. CASE k = m + 1
      <4>1. k - 1 = m /\ m \in 0..m /\ k # 0
        BY <3>1
      <4>2. next[k - 1] = f[m] /\ next[k] = MergeNext(f[m], regions[k])
        BY <2>3, <3>1, <4>1
      <4> QED
        BY <4>1, <4>2
    <3>2. CASE k = 0
      BY <2>2, <2>3, <3>2
    <3>3. CASE k # 0 /\ k # m + 1
      <4>1. k \in 0..m /\ k - 1 \in 0..m
        BY <3>3
      <4>2. next[k] = f[k] /\ next[k - 1] = f[k - 1]
        BY <2>3, <4>1
      <4> QED
        BY <2>2, <3>3, <4>1, <4>2
    <3> QED
      BY <3>1, <3>2, <3>3
  <2>6. next = MergeTurns(next, regions, m + 1)
    BY <2>4, <2>5 DEF MergeTurns
  <2> QED
    BY <2>6
<1> HIDE DEF S
<1>3. n \in S
  BY <1>1, <1>2, SetInduction
<1> QED
  BY <1>3 DEF S

\* merge_adjacent changes neither what the regions cover nor what they add
\* up to.
LEMMA MergeIsSound ==
    ASSUME NEW regions, AreRegionTable(regions), Apart(regions), NoneIsLong(regions)
    PROVE  MergedSoFar(regions, Len(regions), Merge(regions),
                       Total(TargetSizes(regions)), Total(SourceSizes(regions)))
<1> DEFINE n == Len(regions)
           Body(h) == [k \in 0..n |-> IF k = 0 THEN <<>>
                                      ELSE MergeNext(h[k - 1], regions[k])]
           turns == CHOOSE h : h = Body(h)
<1>1. n \in Nat
  BY DEF AreRegionTable, IsVector
<1>2. Merge(regions) = turns[n]
  BY DEF Merge
<1>3. \A h : Body(h) = MergeTurns(h, regions, n)
  BY DEF MergeTurns
<1> HIDE DEF n, Body
<1>4. \E h : h = Body(h)
  BY <1>1, <1>3, MergesExist
<1>5. turns = MergeTurns(turns, regions, n)
  BY <1>3, <1>4
<1> HIDE DEF turns
<1>6. \A k \in 0..n :
         turns[k] = IF k = 0 THEN <<>> ELSE MergeNext(turns[k - 1], regions[k])
  BY <1>5 DEF MergeTurns
<1>7. PICK f : AddsUp(f, TargetSizes(regions)) /\ Total(TargetSizes(regions)) = f[n]
  BY SizesOfRegions, TotalUnfolds DEF n
<1>8. PICK g : AddsUp(g, SourceSizes(regions)) /\ Total(SourceSizes(regions)) = g[n]
  BY SizesOfRegions, TotalUnfolds DEF n
<1>9. /\ f[0] = 0 /\ g[0] = 0
      /\ \A k \in 1..n : /\ f[k] = f[k - 1] + regions[k].target_size
                         /\ g[k] = g[k - 1] + regions[k].source_size
  BY <1>7, <1>8, SizesOfRegions DEF AddsUp, n
<1> DEFINE S == {k \in Nat : k <= n => MergedSoFar(regions, k, turns[k], f[k], g[k])}
<1>10. 0 \in S
  <2> DEFINE e == turns[0]
  <2>1. e = <<>> /\ f[0] = 0 /\ g[0] = 0
    BY <1>1, <1>6, <1>9
  <2>2. Len(e) = 0 /\ DOMAIN e = {} /\ e = [k \in 1..0 |-> e[k]] /\ 1..0 = {}
    BY <2>1
  <2>3. AreRegionTable(e)
    BY <2>2 DEF AreRegionTable, IsVector
  <2>4. MergedShape(regions, 0, e)
    BY <2>1, <2>2, <2>3 DEF MergedShape
  <2>5. CellsUpTo(e, 0) = {} /\ CellsUpTo(regions, 0) = {}
    BY CellsGrow
  <2>6. MergedCells(regions, 0, e)
    BY <2>2, <2>5 DEF MergedCells
  <2>7. MergedTotals(e, 0, 0)
    <3>1. /\ AreSizes(TargetSizes(e)) /\ AreSizes(SourceSizes(e))
          /\ Len(TargetSizes(e)) = 0 /\ Len(SourceSizes(e)) = 0
      BY <2>2, <2>3, SizesOfRegions
    <3>2. PICK ft : AddsUp(ft, TargetSizes(e)) /\ Total(TargetSizes(e)) = ft[0]
      BY <3>1, TotalUnfolds
    <3>3. PICK fs : AddsUp(fs, SourceSizes(e)) /\ Total(SourceSizes(e)) = fs[0]
      BY <3>1, TotalUnfolds
    <3> QED
      BY <3>2, <3>3 DEF MergedTotals, AddsUp
  <2> HIDE DEF e
  <2>8. MergedParts(regions, 0, e)
    BY <2>2 DEF MergedParts, Apart
  <2>9. MergedSoFar(regions, 0, e, 0, 0)
    BY <2>4, <2>6, <2>7, <2>8 DEF MergedSoFar
  <2> QED
    BY <2>1, <2>9 DEF e
<1>11. ASSUME NEW k \in Nat, k \in S PROVE k + 1 \in S
  <2>1. SUFFICES ASSUME k + 1 <= n
                 PROVE  MergedSoFar(regions, k + 1, turns[k + 1], f[k + 1], g[k + 1])
    OBVIOUS
  <2>2. /\ k + 1 \in 1..n /\ k + 1 \in 0..n /\ (k + 1) - 1 = k /\ k + 1 # 0
        /\ MergedSoFar(regions, k, turns[k], f[k], g[k])
    BY <1>1, <1>11, <2>1
  <2>3. turns[k + 1] = MergeNext(turns[k], regions[k + 1])
    BY <1>6, <2>2
  <2>4. /\ f[k + 1] = f[k] + regions[k + 1].target_size
        /\ g[k + 1] = g[k] + regions[k + 1].source_size
    BY <1>9, <2>2
  <2>5. MergedSoFar(regions, k + 1, MergeNext(turns[k], regions[k + 1]),
                    f[k] + regions[k + 1].target_size,
                    g[k] + regions[k + 1].source_size)
    BY <2>1, <2>2, MergeNextKeeps DEF n
  <2> QED
    BY <2>3, <2>4, <2>5
<1> HIDE DEF S
<1>12. n \in S
  BY <1>1, <1>10, <1>11, SetInduction
<1> QED
  BY <1>1, <1>2, <1>7, <1>8, <1>12 DEF S, n

-----------------------------------------------------------------------------
(* The plan and the segments.                                              *)

\* The regions of the segments make up a table.
LEMMA PlacedTable ==
    ASSUME NEW image, AreSegments(image.segments), Len(image.segments) > 0,
           NEW base0 \in Nat
    PROVE  /\ AreRegionTable(PlacedRegions(image, base0))
           /\ \A k \in 1..Len(PlacedRegions(image, base0)) :
                 \E n \in Holding(image.segments) :
                    PlacedRegions(image, base0)[k] = RegionsOf(image, base0)[n]
           /\ \A n \in Holding(image.segments) :
                 \E k \in 1..Len(PlacedRegions(image, base0)) :
                    PlacedRegions(image, base0)[k] = RegionsOf(image, base0)[n]
<1> DEFINE R == RegionsOf(image, base0)
           H == Holding(image.segments)
           N == Cardinality(H)
           P == PlacedRegions(image, base0)
<1>1. PICK at : IsOrder(at, R) /\ P = [k \in 1..N |-> R[at[k]]]
  BY PlacedInOrder
<1>2. N \in Nat /\ DOMAIN R = H
  BY PlacedInOrder DEF RegionsOf
<1>3. at \in [1..N -> H] /\ \A n \in H : \E k \in 1..N : at[k] = n
  <2> HIDE DEF R, H
  <2> QED
    BY <1>1, <1>2 DEF IsOrder
<1>4. ASSUME NEW n \in H PROVE IsRegion(R[n])
  <2> DEFINE s == image.segments[n]
             r == R[n]
  <2>1. n \in 1..Len(image.segments) /\ \E shift \in Int : FieldsFollow(r, s, shift)
    <3>1. PICK shift \in Int : \A m \in H :
             /\ m \in 1..Len(image.segments)
             /\ FieldsFollow(R[m], image.segments[m], shift)
      BY RegionFields
    <3> QED
      BY <1>4, <3>1
  <2>2. /\ s.file_offset \in Nat /\ s.file_size \in Nat /\ s.memory_size \in Nat
    BY <2>1 DEF AreSegments
  <2>3. r = RegionOf(image, base0, s)
    BY <1>4 DEF RegionsOf
  <2>4. r = [source_offset |-> r.source_offset, source_size |-> r.source_size,
             target_address |-> r.target_address, target_size |-> r.target_size,
             alignment |-> r.alignment, permissions |-> r.permissions]
    BY <2>3 DEF RegionOf
  <2> HIDE DEF r, s
  <2> QED
    BY <2>1, <2>2, <2>4 DEF IsRegion, FieldsFollow, r
<1> HIDE DEF R, P, N, H
<1>5. Len(P) = N /\ \A k \in 1..N : P[k] = R[at[k]]
  BY <1>1, <1>2
<1>6. IsVector(P)
  BY <1>1, <1>2, <1>5 DEF IsVector
<1>7. \A k \in 1..Len(P) : at[k] \in H /\ P[k] = R[at[k]]
  BY <1>3, <1>5
<1>8. AreRegionTable(P)
  BY <1>4, <1>6, <1>7 DEF AreRegionTable
<1>9. ASSUME NEW n \in H PROVE \E k \in 1..Len(P) : P[k] = R[n]
  BY <1>3, <1>5
<1> QED
  BY <1>7, <1>8, <1>9 DEF R, P, H

\* Where the bytes of a segment lie is where those of its region lie.
LEMMA RegionOfSegment ==
    ASSUME LayoutInv, NEW n \in Holding(Requested.segments), Len(Requested.segments) > 0
    PROVE  RegionCells(RegionsOf(Requested, base)[n])
             = {SegmentCell(Requested.segments[n], k) :
                  k \in 0..(Requested.segments[n].memory_size - 1)}
<1> DEFINE s == Requested.segments[n]
           r == RegionsOf(Requested, base)[n]
           B == LayoutBase(Requested, base)
           W == LowestAddress(Requested)
<1>1. AreSegments(Requested.segments) /\ base \in Nat
  BY RequestedSegments DEF LayoutInv
<1>2. PICK shift \in Int :
         /\ shift = B - W
         /\ \A m \in Holding(Requested.segments) :
               /\ m \in 1..Len(Requested.segments)
               /\ FieldsFollow(RegionsOf(Requested, base)[m], Requested.segments[m], shift)
  BY <1>1, RegionFields
<1>3. n \in 1..Len(Requested.segments) /\ FieldsFollow(r, s, shift)
  BY <1>2
<1>4. W \in Nat /\ B \in Nat
  BY <1>1, LowestIsLowest DEF LayoutBase
<1>5. s.virtual_address \in Nat /\ s.memory_size \in Nat
  BY <1>1, <1>3 DEF AreSegments
<1> DEFINE a == s.virtual_address
           b == r.target_address
<1>6. /\ b = a + shift /\ r.target_size = s.memory_size
      /\ r.source_offset = s.file_offset
      /\ r.source_size = s.file_size
      /\ r.permissions = s.perms
  BY <1>3 DEF FieldsFollow
<1>7. ASSUME NEW k \in 0..(s.memory_size - 1)
      PROVE  SegmentCell(s, k) = <<b + k, r.permissions,
                                   SourceOf(r.source_offset, r.source_size, k)>>
  <2>1. B + a + k - W = b + k
    <3>1. k \in Int /\ a \in Nat
      BY <1>5
    <3> HIDE DEF a, b, B, W
    <3> QED
      BY <1>2, <1>4, <1>6, <3>1
  <2>2. SegmentCell(s, k) = <<B + a + k - W, s.perms,
                              SourceOf(s.file_offset, s.file_size, k)>>
    BY DEF SegmentCell
  <2> HIDE DEF s, r, a, b, B, W
  <2> QED
    BY <1>6, <2>1, <2>2
<1>8. RegionCells(r) = {<<b + k, r.permissions,
                          SourceOf(r.source_offset, r.source_size, k)>> :
                          k \in 0..(s.memory_size - 1)}
  BY <1>6 DEF RegionCells
<1> HIDE DEF s, r, b
<1> QED
  BY <1>7, <1>8 DEF s, r

\* The regions cover what the segments cover: a segment without memory has no
\* region and no byte.
LEMMA PlacedCells ==
    ASSUME LayoutInv, Len(Requested.segments) > 0
    PROVE  LET P == PlacedRegions(Requested, base)
           IN  CellsUpTo(P, Len(P)) = SegmentCells
<1> DEFINE S == Requested.segments
           H == Holding(S)
           R == RegionsOf(Requested, base)
           P == PlacedRegions(Requested, base)
           Q(n) == {SegmentCell(S[n], k) : k \in 0..(S[n].memory_size - 1)}
<1>1. AreSegments(S) /\ base \in Nat
  BY RequestedSegments DEF LayoutInv
<1>2. /\ \A k \in 1..Len(P) : \E n \in H : P[k] = R[n]
      /\ \A n \in H : \E k \in 1..Len(P) : P[k] = R[n]
  BY <1>1, PlacedTable
<1>3. \A n \in H : RegionCells(R[n]) = Q(n)
  BY RegionOfSegment
<1>4. \A n \in DOMAIN S : n \in H \/ Q(n) = {}
  BY DEF Holding, HasMemory
<1>5. \A n \in H : n \in DOMAIN S
  BY DEF Holding
<1>6. SegmentCells = UNION {Q(n) : n \in DOMAIN S}
  BY DEF SegmentCells
<1>7. CellsUpTo(P, Len(P)) = UNION {RegionCells(P[k]) : k \in 1..Len(P)}
  BY DEF CellsUpTo
<1> HIDE DEF S, H, R, P, Q
<1>8. ASSUME NEW c \in CellsUpTo(P, Len(P)) PROVE c \in SegmentCells
  <2>1. PICK k \in 1..Len(P) : c \in RegionCells(P[k])
    BY <1>7
  <2>2. PICK n \in H : P[k] = R[n]
    BY <1>2
  <2> QED
    BY <1>3, <1>5, <1>6, <2>1, <2>2
<1>9. ASSUME NEW c \in SegmentCells PROVE c \in CellsUpTo(P, Len(P))
  <2>1. PICK n \in DOMAIN S : c \in Q(n)
    BY <1>6
  <2>2. n \in H
    BY <1>4, <2>1
  <2>3. PICK k \in 1..Len(P) : P[k] = R[n]
    BY <1>2, <2>2
  <2> QED
    BY <1>3, <1>7, <2>1, <2>2, <2>3
<1> QED
  BY <1>8, <1>9 DEF P

\* An image without errors has segments that are no longer in the file than in
\* memory.
LEMMA ValidSegments ==
    ASSUME NEW image, AreSegments(image.segments), Valid(image)
    PROVE  \A n \in 1..Len(image.segments) :
              image.segments[n].file_size <= image.segments[n].memory_size
<1>1. SegmentErrors(image) = {}
  BY DEF Valid, ValidationErrors
<1> DEFINE outside(s) == \/ s.file_size > s.memory_size
                         \/ ~RangeInside(s.file_offset, s.file_size, image.file.size)
<1>2. ~\E n \in 1..Len(image.segments) : outside(image.segments[n])
  BY <1>1 DEF SegmentErrors, Reported
<1>3. \A n \in 1..Len(image.segments) :
         image.segments[n].file_size \in Nat /\ image.segments[n].memory_size \in Nat
  BY DEF AreSegments
<1> QED
  BY <1>2, <1>3

\* The errors of a report are errors.
LEMMA ReportedErrors ==
    ASSUME NEW image
    PROVE  \A e \in ValidationErrors(image) : e # "none"
<1>1. \A table : /\ IndexErrors(table, "invalid_section") \subseteq {"invalid_section"}
                 /\ IndexErrors(table, "invalid_symbol") \subseteq {"invalid_symbol"}
  BY DEF IndexErrors, Reported
<1>2. CountErrors(image) \subseteq {"resource_limit"}
  BY DEF CountErrors, Reported
<1>3. SectionErrors(image)
        \subseteq {"invalid_section", "file_range_overflow", "invalid_alignment"}
  BY <1>1 DEF SectionErrors, Reported
<1>4. SegmentErrors(image) \subseteq {"invalid_segment", "address_overflow"}
  BY DEF SegmentErrors, Reported
<1>5. RelocationErrors(image) \subseteq {"invalid_symbol"}
  BY DEF RelocationErrors, Reported
<1>6. ValidationErrors(image)
        \subseteq {"invalid_header", "resource_limit", "invalid_section",
                   "file_range_overflow", "invalid_alignment", "invalid_segment",
                   "address_overflow", "invalid_symbol"}
  BY <1>1, <1>2, <1>3, <1>4, <1>5 DEF ValidationErrors
<1> QED
  BY <1>6

\* When no segment failed, each could be placed.
LEMMA EveryPlacementFits ==
    ASSUME NEW image, AreSegments(image.segments), NEW base0,
           PlacementsError(image, base0) = "none"
    PROVE  \A n \in Holding(image.segments) :
              PlacementError(image, base0, image.segments[n]) = "none"
<1> DEFINE S == image.segments
           errors == [n \in DOMAIN S |->
                        IF HasMemory(S[n]) THEN PlacementError(image, base0, S[n])
                        ELSE "none"]
           failed == {n \in DOMAIN errors : errors[n] # "none"}
<1>1. PlacementsError(image, base0)
        = IF failed = {} THEN "none"
          ELSE errors[CHOOSE n \in failed : \A m \in failed : n <= m]
  BY DEF PlacementsError
<1>2. failed \in SUBSET Nat
  BY DEF AreSegments, IsVector
<1>3. \A n \in failed : errors[n] # "none"
  OBVIOUS
<1>4. \A n \in Holding(S) : n \in DOMAIN S /\ HasMemory(S[n])
  BY DEF Holding
<1>5. \A n \in Holding(S) : n \notin failed
                               => PlacementError(image, base0, S[n]) = "none"
  BY <1>4
<1> HIDE DEF errors, failed
<1>6. failed = {}
  <2>1. SUFFICES ASSUME failed # {} PROVE FALSE
    OBVIOUS
  <2>2. \E n \in failed : \A m \in failed : n <= m
    BY <1>2, <2>1, LeastElement
  <2>3. (CHOOSE n \in failed : \A m \in failed : n <= m) \in failed
    BY <2>2
  <2> QED
    BY <1>1, <1>3, <2>1, <2>3
<1> QED
  BY <1>5, <1>6

\* The plan of the regions lies between its ends.
Spans(regions) ==
    \A n \in 1..Len(regions) :
       /\ regions[1].target_address <= regions[n].target_address
       /\ TargetEnd(regions[n]) <= TargetEnd(regions[Len(regions)])

\* Regions that the placed ones may be given as.
GivenAs(regions, P) ==
    /\ AreRegionTable(regions)
    /\ Spans(regions)
    /\ Len(regions) > 0 =>
          /\ Len(P) > 0
          /\ TargetEnd(regions[Len(regions)]) = TargetEnd(P[Len(P)])
    /\ Total(TargetSizes(regions)) = Total(TargetSizes(P))
    /\ Total(SourceSizes(regions)) = Total(SourceSizes(P))
    /\ Places(CellsUpTo(regions, Len(regions))) = Places(CellsUpTo(P, Len(P)))
    /\ MergedParts(P, Len(P), regions)

\* A region with zeros and one with bytes behind it were merged.
Misplaced(regions, P) ==
    \E j \in 1..Len(regions) : \E m, n \in 1..Len(P) :
        /\ m < n /\ Inside(P[m], regions[j]) /\ Inside(P[n], regions[j])
        /\ ~Full(P[m]) /\ P[n].source_size > 0

\* An address belongs to one region of those that lie apart.
LEMMA OneRegion ==
    ASSUME NEW regions, AreRegionTable(regions), Apart(regions),
           NEW i \in 1..Len(regions), NEW j \in 1..Len(regions), NEW a \in Nat,
           regions[i].target_address <= a, a < TargetEnd(regions[i]),
           regions[j].target_address <= a, a < TargetEnd(regions[j])
    PROVE  i = j
<1>1. /\ regions[i].target_address \in Nat /\ TargetEnd(regions[i]) \in Nat
      /\ regions[j].target_address \in Nat /\ TargetEnd(regions[j]) \in Nat
  BY RegionIsExtent DEF AreRegionTable
<1>2. /\ i < j => TargetEnd(regions[i]) <= regions[j].target_address
      /\ j < i => TargetEnd(regions[j]) <= regions[i].target_address
  BY DEF Apart
<1>3. i \in Int /\ j \in Int
  OBVIOUS
<1> DEFINE b == regions[i].target_address
           c == TargetEnd(regions[i])
           d == regions[j].target_address
           e == TargetEnd(regions[j])
<1>4. /\ b \in Nat /\ c \in Nat /\ d \in Nat /\ e \in Nat
      /\ (i < j => c <= d) /\ (j < i => e <= b)
      /\ b <= a /\ a < c /\ d <= a /\ a < e
  BY <1>1, <1>2
<1> HIDE DEF b, c, d, e
<1> QED
  BY <1>3, <1>4

\* Where a byte of a part lies in the merged region.
LEMMA PartCell ==
    ASSUME NEW p, IsRegion(p), NEW x, IsRegion(x), Inside(p, x),
           NEW k \in 0..(p.target_size - 1)
    PROVE  /\ Ahead(p, x) \in Nat
           /\ Ahead(p, x) + k \in 0..(x.target_size - 1)
           /\ x.target_address + (Ahead(p, x) + k) = p.target_address + k
           /\ p.target_address + k \in Nat
           /\ x.target_address <= p.target_address + k
           /\ p.target_address + k < TargetEnd(x)
<1>1. /\ p.target_address \in Nat /\ p.target_size \in Nat
      /\ TargetEnd(p) = p.target_address + p.target_size
  BY RegionIsExtent
<1>2. /\ x.target_address \in Nat /\ x.target_size \in Nat
      /\ TargetEnd(x) = x.target_address + x.target_size
  BY RegionIsExtent
<1> DEFINE a == p.target_address
           b == x.target_address
           m == p.target_size
           n == x.target_size
<1>3. a \in Nat /\ b \in Nat /\ m \in Nat /\ n \in Nat /\ b <= a /\ a + m <= b + n
  BY <1>1, <1>2 DEF Inside
<1>4. k \in Int /\ 0 <= k /\ k <= m - 1
  BY <1>3
<1> HIDE DEF a, b, m, n
<1>5. a - b \in Nat /\ a - b + k \in 0..(n - 1) /\ b + (a - b + k) = a + k
      /\ a + k \in Nat /\ b <= a + k /\ a + k < b + n
  BY <1>3, <1>4
<1> QED
  BY <1>2, <1>5 DEF Ahead, a, b, m, n

\* A part takes its bytes from their place, unless zeros lie before bytes.
LEMMA PartInPlace ==
    ASSUME NEW P, AreRegionTable(P), NEW x, IsRegion(x),
           NEW n \in 1..Len(P), Inside(P[n], x), PartOK(P, Len(P), x, n),
           \A l, m \in 1..Len(P) :
              l < m /\ Inside(P[l], x) /\ Inside(P[m], x) /\ ~Full(P[l])
                 => ~(P[m].source_size > 0),
           NEW k \in 0..(P[n].target_size - 1)
    PROVE  Cell(P[n], k) = Cell(x, Ahead(P[n], x) + k)
<1> DEFINE p == P[n]
           D == Ahead(p, x)
           F == FileAhead(p, x)
<1>1. /\ Len(P) \in Nat /\ \A m \in 1..Len(P) : IsRegion(P[m])
      /\ \A m \in 1..Len(P) : P[m].source_size \in Nat
  BY RegionIsExtent DEF AreRegionTable, IsVector
<1>2. /\ D \in Nat /\ x.target_address + (D + k) = p.target_address + k
  BY <1>1, PartCell
<1>3. /\ p.permissions = x.permissions /\ F \in Nat /\ F <= D
      /\ F + p.source_size <= x.source_size
      /\ F = D <=> \A m \in 1..(n - 1) : Inside(P[m], x) => Full(P[m])
      /\ (\A m \in (n + 1)..Len(P) : Inside(P[m], x) => P[m].source_size = 0)
           => F + p.source_size = x.source_size
  BY DEF PartOK
<1>4. /\ \A m \in 1..(n - 1) : m \in 1..Len(P) /\ m < n
      /\ \A m \in (n + 1)..Len(P) : m \in 1..Len(P) /\ n < m
  BY <1>1
<1>5. /\ p.source_size \in Nat /\ p.target_size \in Nat /\ p.source_offset \in Nat
      /\ x.source_size \in Nat /\ x.source_offset \in Nat
      /\ p.source_offset = x.source_offset + F
  <2>1. /\ p.source_size \in Nat /\ p.target_size \in Nat /\ p.source_offset \in Nat
        /\ x.source_size \in Nat /\ x.source_offset \in Nat
    BY <1>1, RegionIsExtent
  <2> DEFINE a == p.source_offset
             b == x.source_offset
  <2>2. a \in Nat /\ b \in Nat /\ F = a - b
    BY <2>1 DEF FileAhead
  <2> HIDE DEF a, b, F
  <2>3. a = b + F
    BY <2>2
  <2> QED
    BY <2>1, <2>3 DEF a, b
<1>6. k \in Nat /\ k < p.target_size
  BY <1>5
<1>7. SourceOf(p.source_offset, p.source_size, k)
        = SourceOf(x.source_offset, x.source_size, D + k)
  <2>1. CASE k < p.source_size
    <3>1. p.source_size > 0
      BY <1>5, <1>6, <2>1
    <3>2. F = D
      BY <1>1, <1>3, <1>4, <3>1
    <3> DEFINE ps == p.source_size
               xs == x.source_size
               po == p.source_offset
               xo == x.source_offset
    <3>4. /\ ps \in Nat /\ xs \in Nat /\ po \in Nat /\ xo \in Nat
          /\ po = xo + F /\ F + ps <= xs /\ k < ps
      BY <1>3, <1>5, <2>1
    <3> HIDE DEF p, D, F, ps, xs, po, xo
    <3>6. D \in Nat /\ k \in Nat
      BY <1>2, <1>6
    <3>5. D + k < xs /\ po + k = xo + (D + k)
      BY <3>2, <3>4, <3>6
    <3>3. D + k < x.source_size /\ p.source_offset + k = x.source_offset + (D + k)
      BY <3>5 DEF xs, po, xo
    <3> QED
      BY <2>1, <3>3 DEF SourceOf
  <2>2. CASE ~(k < p.source_size)
    <3>1. ~Full(p)
      BY <1>5, <1>6, <2>2 DEF Full
    <3>2. F + p.source_size = x.source_size
      <4>1. \A m \in (n + 1)..Len(P) : Inside(P[m], x) => ~(P[m].source_size > 0)
        BY <1>4, <3>1
      <4>2. \A m \in (n + 1)..Len(P) : Inside(P[m], x) => P[m].source_size = 0
        BY <1>1, <1>4, <4>1
      <4> QED
        BY <1>3, <4>2
    <3> HIDE DEF p, D, F
    <3>3. ~(D + k < x.source_size)
      BY <1>2, <1>3, <1>5, <1>6, <2>2, <3>2
    <3> QED
      BY <2>2, <3>3 DEF SourceOf
  <2> QED
    BY <2>1, <2>2
<1> HIDE DEF p, D, F
<1> QED
  BY <1>2, <1>3, <1>7 DEF Cell, p, D, F

\* A cell among those of a list of regions.
LEMMA CellIsInRegion ==
    ASSUME NEW regions, NEW c
    PROVE  c \in CellsUpTo(regions, Len(regions))
             <=> \E j \in 1..Len(regions) :
                    \E k \in 0..(regions[j].target_size - 1) : c = Cell(regions[j], k)
BY DEF CellsUpTo, RegionCells, Cell

\* The bytes of the file are where they were, exactly unless zeros lie before
\* bytes in a merged region.
LEMMA BytesInPlace ==
    ASSUME NEW P, AreRegionTable(P), NEW regions, GivenAs(regions, P)
    PROVE  CellsUpTo(regions, Len(regions)) = CellsUpTo(P, Len(P))
             <=> ~Misplaced(regions, P)
<1> DEFINE N == Len(P)
           L == Len(regions)
           C == CellsUpTo(regions, L)
           B == CellsUpTo(P, N)
<1>1. /\ AreRegionTable(regions) /\ Apart(regions)
      /\ \A j \in 1..L : PartsOK(P, N, regions[j])
      /\ \A n \in 1..N : \E j \in 1..L : Inside(P[n], regions[j])
      /\ Places(C) = Places(B)
  BY DEF GivenAs, MergedParts
<1>2. /\ \A n \in 1..N : IsRegion(P[n])
      /\ \A j \in 1..L : IsRegion(regions[j])
  BY <1>1 DEF AreRegionTable
<1>3. ASSUME NEW i \in 1..L, NEW k \in 0..(regions[i].target_size - 1),
             NEW j \in 1..L, NEW l \in 0..(regions[j].target_size - 1),
             regions[i].target_address + k = regions[j].target_address + l
      PROVE  i = j /\ k = l
  <2> DEFINE a == regions[i].target_address + k
  <2>1. /\ regions[i].target_address \in Nat /\ regions[i].target_size \in Nat
        /\ TargetEnd(regions[i]) = regions[i].target_address + regions[i].target_size
    BY <1>2, RegionIsExtent
  <2>2. /\ regions[j].target_address \in Nat /\ regions[j].target_size \in Nat
        /\ TargetEnd(regions[j]) = regions[j].target_address + regions[j].target_size
    BY <1>2, RegionIsExtent
  <2> DEFINE b == regions[i].target_address
             m == regions[i].target_size
             c == regions[j].target_address
             n == regions[j].target_size
  <2>3. b \in Nat /\ m \in Nat /\ c \in Nat /\ n \in Nat /\ b + k = c + l /\ a = b + k
    BY <1>3, <2>1, <2>2
  <2>4. k \in 0..(m - 1) /\ l \in 0..(n - 1)
    OBVIOUS
  <2> HIDE DEF a, b, c, m, n
  <2>5. a \in Nat /\ b <= a /\ a < b + m /\ c <= a /\ a < c + n
    BY <2>3, <2>4
  <2>6. i = j
    BY <1>1, <2>1, <2>2, <2>5, OneRegion DEF b, c, m, n
  <2>7. b = c
    BY <2>6 DEF b, c
  <2>8. k = l
    BY <2>3, <2>4, <2>7
  <2> QED
    BY <2>6, <2>8
<1>4. ASSUME ~Misplaced(regions, P) PROVE C = B
  <2>1. ASSUME NEW n \in 1..N, NEW j \in 1..L, Inside(P[n], regions[j]),
               NEW k \in 0..(P[n].target_size - 1)
        PROVE  /\ Ahead(P[n], regions[j]) + k \in 0..(regions[j].target_size - 1)
               /\ Cell(P[n], k) = Cell(regions[j], Ahead(P[n], regions[j]) + k)
    <3>1. PartOK(P, N, regions[j], n)
      BY <1>1, <2>1 DEF PartsOK
    <3>2. \A l, m \in 1..N :
             l < m /\ Inside(P[l], regions[j]) /\ Inside(P[m], regions[j]) /\ ~Full(P[l])
                => ~(P[m].source_size > 0)
      BY <1>4 DEF Misplaced
    <3>3. Cell(P[n], k) = Cell(regions[j], Ahead(P[n], regions[j]) + k)
      BY <1>2, <2>1, <3>1, <3>2, PartInPlace
    <3>4. Ahead(P[n], regions[j]) + k \in 0..(regions[j].target_size - 1)
      BY <1>2, <2>1, PartCell
    <3> QED
      BY <3>3, <3>4
  <2>2. ASSUME NEW c \in B PROVE c \in C
    <3>1. PICK n \in 1..N : \E k \in 0..(P[n].target_size - 1) : c = Cell(P[n], k)
      BY CellIsInRegion
    <3>2. PICK k \in 0..(P[n].target_size - 1) : c = Cell(P[n], k)
      BY <3>1
    <3>3. PICK j \in 1..L : Inside(P[n], regions[j])
      BY <1>1
    <3>4. /\ Ahead(P[n], regions[j]) + k \in 0..(regions[j].target_size - 1)
          /\ c = Cell(regions[j], Ahead(P[n], regions[j]) + k)
      BY <2>1, <3>2, <3>3
    <3> QED
      BY <3>4, CellIsInRegion
  <2>3. ASSUME NEW c \in C PROVE c \in B
    <3>1. PICK j \in 1..L : \E k \in 0..(regions[j].target_size - 1) :
             c = Cell(regions[j], k)
      BY CellIsInRegion
    <3>2. PICK k \in 0..(regions[j].target_size - 1) : c = Cell(regions[j], k)
      BY <3>1
    <3>3. <<c[1], c[2]>> \in Places(B)
      BY <1>1 DEF Places
    <3>4. PICK d \in B : <<c[1], c[2]>> = <<d[1], d[2]>>
      BY <3>3 DEF Places
    <3>5. d \in C
      BY <2>2
    <3>6. PICK i \in 1..L : \E l \in 0..(regions[i].target_size - 1) :
             d = Cell(regions[i], l)
      BY <3>5, CellIsInRegion
    <3>7. PICK l \in 0..(regions[i].target_size - 1) : d = Cell(regions[i], l)
      BY <3>6
    <3>8. regions[j].target_address + k = regions[i].target_address + l
      <4>1. c[1] = regions[j].target_address + k
        BY <3>2 DEF Cell
      <4>2. d[1] = regions[i].target_address + l
        BY <3>7 DEF Cell
      <4> QED
        BY <3>4, <4>1, <4>2
    <3>9. c = d
      BY <1>3, <3>2, <3>7, <3>8
    <3> QED
      BY <3>9
  <2> QED
    BY <2>2, <2>3
<1>5. ASSUME Misplaced(regions, P), C = B PROVE FALSE
  <2>1. PICK j \in 1..L, m \in 1..N, n \in 1..N :
           /\ m < n /\ Inside(P[m], regions[j]) /\ Inside(P[n], regions[j])
           /\ ~Full(P[m]) /\ P[n].source_size > 0
    BY <1>5 DEF Misplaced
  <2> DEFINE p == P[n]
             x == regions[j]
             D == Ahead(p, x)
             F == FileAhead(p, x)
  <2>2. PartOK(P, N, x, n) /\ IsRegion(p) /\ IsRegion(x) /\ Inside(p, x)
    BY <1>1, <1>2, <2>1 DEF PartsOK
  <2>3. m \in 1..(n - 1)
    BY <2>1
  <2>4. F # D
    BY <2>1, <2>2, <2>3 DEF PartOK
  <2>5. /\ p.target_size \in Nat /\ p.target_size > 0 /\ p.target_address \in Nat
        /\ p.source_size \in Nat /\ p.source_offset \in Nat /\ x.source_offset \in Nat
    BY <2>2, RegionIsExtent
  <2>6. 0 \in 0..(p.target_size - 1)
    <3> DEFINE w == p.target_size
    <3>1. w \in Nat /\ w > 0
      BY <2>5
    <3> HIDE DEF w
    <3>2. 0 \in 0..(w - 1)
      BY <3>1
    <3> QED
      BY <3>2 DEF w
  <2>7. /\ D \in Nat /\ D + 0 \in 0..(x.target_size - 1)
        /\ x.target_address + (D + 0) = p.target_address + 0
    BY <2>2, <2>6, PartCell
  <2>8. Cell(p, 0) \in C
    <3>1. Cell(p, 0) \in B
      BY <2>6, CellIsInRegion
    <3> QED
      BY <1>5, <3>1
  <2>9. PICK i \in 1..L : \E k \in 0..(regions[i].target_size - 1) :
           Cell(p, 0) = Cell(regions[i], k)
    BY <2>8, CellIsInRegion
  <2>10. PICK k \in 0..(regions[i].target_size - 1) : Cell(p, 0) = Cell(regions[i], k)
    BY <2>9
  <2>11. p.target_address + 0 = regions[i].target_address + k
    BY <2>10 DEF Cell
  <2>12. i = j /\ k = D + 0
    BY <1>3, <2>7, <2>11
  <2>13. SourceOf(p.source_offset, p.source_size, 0)
           = SourceOf(x.source_offset, x.source_size, D + 0)
    BY <2>10, <2>12 DEF Cell
  <2>14. SourceOf(p.source_offset, p.source_size, 0) = p.source_offset
    <3> DEFINE o == p.source_offset
               z == p.source_size
    <3>1. o \in Nat /\ z \in Nat /\ z > 0
      BY <2>1, <2>5
    <3> HIDE DEF o, z
    <3>2. SourceOf(o, z, 0) = o
      BY <3>1 DEF SourceOf
    <3> QED
      BY <3>2 DEF o, z
  <2>15. \/ SourceOf(x.source_offset, x.source_size, D + 0) = -1
         \/ SourceOf(x.source_offset, x.source_size, D + 0) = x.source_offset + D
    BY <2>5, <2>7 DEF SourceOf
  <2>16. F = p.source_offset - x.source_offset
    BY DEF FileAhead
  <2> DEFINE o == p.source_offset
             u == x.source_offset
             v == SourceOf(x.source_offset, x.source_size, D + 0)
  <2>17. /\ o \in Nat /\ u \in Nat /\ D \in Nat /\ v = o
         /\ (v = -1 \/ v = u + D) /\ F = o - u /\ F # D
    BY <2>4, <2>5, <2>7, <2>13, <2>14, <2>15, <2>16
  <2> HIDE DEF p, x, D, F, o, u, v
  <2> QED
    BY <2>17
<1> QED
  BY <1>4, <1>5 DEF C, B

\* Regions that are not merged.
LEMMA GivenAsPlaced ==
    ASSUME NEW P, AreRegionTable(P), Apart(P), NoneIsLong(P)
    PROVE  GivenAs(P, P)
<1> DEFINE N == Len(P)
<1>1. N \in Nat
  BY DEF AreRegionTable, IsVector
<1>2. ASSUME NEW n \in 1..N
      PROVE  /\ P[n].target_address \in Nat /\ TargetEnd(P[n]) \in Nat
             /\ P[n].target_address <= TargetEnd(P[n])
  <2>1. IsRegion(P[n])
    BY DEF AreRegionTable
  <2> QED
    BY <2>1, RegionIsExtent
<1>3. ASSUME NEW n \in 1..N
      PROVE  /\ P[1].target_address <= P[n].target_address
             /\ TargetEnd(P[n]) <= TargetEnd(P[N])
  <2>1. 1 \in 1..N /\ N \in 1..N
    BY <1>1
  <2>2. n = 1 \/ TargetEnd(P[1]) <= P[n].target_address
    BY <1>1, <2>1 DEF Apart
  <2>3. n = N \/ TargetEnd(P[n]) <= P[N].target_address
    BY <1>1, <2>1 DEF Apart
  <2>4. P[1].target_address <= P[n].target_address
    BY <1>2, <2>1, <2>2
  <2>5. TargetEnd(P[n]) <= TargetEnd(P[N])
    BY <1>2, <2>1, <2>3
  <2> QED
    BY <2>4, <2>5
<1>4. MergedParts(P, N, P)
  <2>1. \A j \in 1..N : PartsOK(P, N, P[j]) /\ Inside(P[j], P[j])
    BY <1>1, LonePart
  <2> QED
    BY <2>1 DEF MergedParts
<1> QED
  BY <1>3, <1>4 DEF GivenAs, Spans

\* Regions that are merged.
LEMMA GivenAsMerged ==
    ASSUME NEW P, AreRegionTable(P), Apart(P), NoneIsLong(P)
    PROVE  GivenAs(Merge(P), P)
<1> DEFINE M == Merge(P)
           N == Len(P)
<1>1. /\ MergedShape(P, N, M) /\ MergedCells(P, N, M)
      /\ MergedTotals(M, Total(TargetSizes(P)), Total(SourceSizes(P)))
      /\ MergedParts(P, N, M)
  BY MergeIsSound DEF MergedSoFar
<1>2. N \in Nat
  BY DEF AreRegionTable, IsVector
<1> HIDE DEF M
<1>3. AreRegionTable(M)
  BY <1>1 DEF MergedShape
<1>4. Len(M) \in Nat
  BY <1>3 DEF AreRegionTable, IsVector
<1>5. Len(M) > 0 => N > 0
  <2>1. N = 0 => M = <<>>
    BY <1>1 DEF MergedShape
  <2>2. M = <<>> => Len(M) = 0
    OBVIOUS
  <2> QED
    BY <1>2, <1>4, <2>1, <2>2
<1>6. Len(M) > 0 => /\ M[1].target_address = P[1].target_address
                    /\ TargetEnd(M[Len(M)]) = TargetEnd(P[N])
  BY <1>1, <1>5 DEF MergedShape
<1>7. Spans(M)
  <2> SUFFICES ASSUME NEW n \in 1..Len(M)
               PROVE  /\ M[1].target_address <= M[n].target_address
                      /\ TargetEnd(M[n]) <= TargetEnd(M[Len(M)])
    BY DEF Spans
  <2>1. Len(M) > 0
    BY <1>4
  <2>2. /\ P[1].target_address <= M[n].target_address
        /\ TargetEnd(M[n]) <= TargetEnd(P[N])
    BY <1>1 DEF MergedShape
  <2> QED
    BY <1>6, <2>1, <2>2
<1>8. /\ Total(TargetSizes(M)) = Total(TargetSizes(P))
      /\ Total(SourceSizes(M)) = Total(SourceSizes(P))
  BY <1>1 DEF MergedTotals
<1>9. Places(CellsUpTo(M, Len(M))) = Places(CellsUpTo(P, N))
  BY <1>1 DEF MergedCells
<1> QED
  BY <1>1, <1>3, <1>5, <1>6, <1>7, <1>8, <1>9 DEF GivenAs, M

\* What is known of a plan that was given.
LEMMA AcceptedPlan ==
    ASSUME LayoutInv, Accepted, listed # <<>>
    PROVE  LET P == PlacedRegions(Requested, base)
               regions == IF merge THEN Merge(P) ELSE P
           IN  /\ Valid(Requested) /\ Len(Requested.segments) > 0
               /\ AreSegments(Requested.segments)
               /\ PlacementsError(Requested, base) = "none"
               /\ AreRegionTable(P) /\ Apart(P) /\ NoneIsLong(P)
               /\ Answer = PlanOf(regions)
               /\ ~(MappedBytes(regions) > MaxMappedBytes)
<1> DEFINE P == PlacedRegions(Requested, base)
           regions == IF merge THEN Merge(P) ELSE P
<1>1. /\ AreSegments(Requested.segments) /\ base \in Nat
      /\ Requested.segments # <<>> /\ Len(Requested.segments) > 0
  BY RequestedSegments DEF LayoutInv
<1>2. Answer.error = "none"
  BY DEF Accepted
<1>3. Valid(Requested)
  <2>1. SUFFICES ASSUME ~Valid(Requested) PROVE FALSE
    OBVIOUS
  <2> DEFINE e == CHOOSE x \in ValidationErrors(Requested) : TRUE
  <2>2. Answer = Refused(e)
    BY <2>1 DEF Answer, Plan
  <2>3. e \in ValidationErrors(Requested)
    BY <2>1 DEF Valid
  <2> HIDE DEF e
  <2>4. Answer.error = e
    BY <2>2 DEF Refused
  <2> QED
    BY <1>2, <2>3, <2>4, ReportedErrors
<1>4. PlacementsError(Requested, base) = "none"
  <2>1. SUFFICES ASSUME PlacementsError(Requested, base) # "none" PROVE FALSE
    OBVIOUS
  <2>2. Answer = Refused(PlacementsError(Requested, base))
    BY <1>1, <1>3, <2>1 DEF Answer, Plan
  <2>3. Answer.error = PlacementsError(Requested, base)
    BY <2>2 DEF Refused
  <2> QED
    BY <1>2, <2>1, <2>3
<1>5. /\ ~NeighboursOverlap(P)
      /\ Answer = PlanOf(regions)
      /\ ~(MappedBytes(regions) > MaxMappedBytes)
  BY <1>1, <1>2, <1>3, <1>4, PlanOutcome DEF Answer
<1>6. Apart(P)
  BY <1>1, <1>5, NeighboursDecide
<1>7. AreRegionTable(P)
  BY <1>1, PlacedTable
<1>8. NoneIsLong(P)
  <2> DEFINE S == Requested.segments
  <2>1. \A n \in 1..Len(S) : S[n].file_size <= S[n].memory_size
    BY <1>1, <1>3, ValidSegments
  <2>2. PICK shift \in Int : \A n \in Holding(S) :
           /\ n \in 1..Len(S)
           /\ FieldsFollow(RegionsOf(Requested, base)[n], S[n], shift)
    BY <1>1, RegionFields
  <2>3. \A k \in 1..Len(P) : \E n \in Holding(S) : P[k] = RegionsOf(Requested, base)[n]
    BY <1>1, PlacedTable
  <2> HIDE DEF P, S
  <2> QED
    BY <2>1, <2>2, <2>3 DEF NoneIsLong, FieldsFollow
<1> QED
  BY <1>1, <1>3, <1>4, <1>5, <1>6, <1>7, <1>8

\* The regions of a plan that was given, against the segments.
LEMMA GivenPlan ==
    ASSUME LayoutInv, Accepted, listed # <<>>
    PROVE  LET P == PlacedRegions(Requested, base)
           IN  /\ GivenAs(Answer.regions, P)
               /\ CellsUpTo(P, Len(P)) = SegmentCells
               /\ CellsUpTo(Answer.regions, Len(Answer.regions)) = PlanCells
               /\ AreRegionTable(P) /\ Apart(P) /\ NoneIsLong(P)
<1> DEFINE P == PlacedRegions(Requested, base)
           regions == IF merge THEN Merge(P) ELSE P
<1>1. /\ AreRegionTable(P) /\ Apart(P) /\ NoneIsLong(P) /\ Answer = PlanOf(regions)
      /\ Len(Requested.segments) > 0
  BY AcceptedPlan
<1>2. Answer.regions = regions
  BY <1>1 DEF PlanOf
<1>3. CellsUpTo(P, Len(P)) = SegmentCells
  BY <1>1, PlacedCells
<1> HIDE DEF P
<1>4. GivenAs(regions, P)
  BY <1>1, GivenAsMerged, GivenAsPlaced
<1> HIDE DEF regions
<1>5. DOMAIN regions = 1..Len(regions)
  BY <1>4 DEF GivenAs, AreRegionTable, IsVector
<1>6. CellsUpTo(regions, Len(regions)) = PlanCells
  BY <1>2, <1>5 DEF PlanCells, CellsOf, CellsUpTo
<1> QED
  BY <1>1, <1>2, <1>3, <1>4, <1>6 DEF P

\* Zeros before bytes, of segments and of the regions they were merged into.
LEMMA ZerosOfSegments ==
    ASSUME LayoutInv, Accepted, listed # <<>>
    PROVE  (\E j \in DOMAIN Answer.regions : ZerosBeforeBytes(Answer.regions[j]))
             <=> Misplaced(Answer.regions, PlacedRegions(Requested, base))
<1> DEFINE P == PlacedRegions(Requested, base)
           N == Len(P)
           S == Requested.segments
           R == RegionsOf(Requested, base)
           H == Holding(S)
           regions == Answer.regions
           L == Len(regions)
<1>1. AreSegments(S) /\ base \in Nat /\ Len(S) > 0
  BY AcceptedPlan DEF LayoutInv
<1>2. GivenAs(regions, P) /\ AreRegionTable(P) /\ Apart(P) /\ NoneIsLong(P)
  BY GivenPlan
<1>3. /\ AreRegionTable(regions) /\ Apart(regions) /\ DOMAIN regions = 1..L
      /\ \A n \in 1..N : \E j \in 1..L : Inside(P[n], regions[j])
  <2>1. AreRegionTable(regions) /\ MergedParts(P, N, regions)
    BY <1>2 DEF GivenAs
  <2> HIDE DEF regions
  <2> QED
    BY <2>1 DEF MergedParts, AreRegionTable, IsVector
<1>4. PICK shift \in Int : \A n \in H : n \in 1..Len(S) /\ FieldsFollow(R[n], S[n], shift)
  BY <1>1, RegionFields
<1>5. /\ \A k \in 1..N : \E n \in H : P[k] = R[n]
      /\ \A n \in H : \E k \in 1..N : P[k] = R[n]
  BY <1>1, PlacedTable
<1>6. \A n \in H : R[n].target_address = TargetAddress(Requested, base, S[n])
  BY DEF RegionsOf, RegionOf
<1>7. \A n : n \in H <=> n \in DOMAIN S /\ HasMemory(S[n])
  BY DEF Holding
<1>8. /\ \A k \in 1..N : IsRegion(P[k])
      /\ \A j \in 1..L : IsRegion(regions[j])
  BY <1>2, <1>3 DEF AreRegionTable
<1>9. \A n \in H : /\ S[n].virtual_address \in Nat /\ S[n].file_size \in Nat
                   /\ S[n].memory_size \in Nat
  BY <1>1, <1>4 DEF AreSegments
<1> HIDE DEF P, S, R, H, regions
<1>10. ASSUME NEW n \in H, NEW k \in 1..N, P[k] = R[n], NEW j \in 1..L
       PROVE  /\ LiesIn(S[n], regions[j]) <=> Inside(P[k], regions[j])
              /\ P[k].target_address = S[n].virtual_address + shift
              /\ P[k].source_size = S[n].file_size
              /\ P[k].target_size = S[n].memory_size
  <2>1. FieldsFollow(P[k], S[n], shift)
    BY <1>4, <1>10
  <2>2. LiesIn(S[n], regions[j]) <=> P[k].target_address \in Targets(regions[j])
    BY <1>6, <1>7, <1>10 DEF LiesIn, S
  <2>3. /\ P[k].target_address \in Nat /\ TargetEnd(P[k]) \in Nat
        /\ P[k].target_address < TargetEnd(P[k])
    BY <1>8, RegionIsExtent
  <2>4. \A i \in 1..L : regions[i].target_address \in Nat /\ TargetEnd(regions[i]) \in Nat
    BY <1>8, RegionIsExtent
  <2> DEFINE a == P[k].target_address
  <2>5. Targets(regions[j]) = (regions[j].target_address)..(TargetEnd(regions[j]) - 1)
    BY DEF Targets
  <2>11. a \in Nat
    BY <2>3
  <2>6. a \in Targets(regions[j])
          <=> regions[j].target_address <= a /\ a < TargetEnd(regions[j])
    <3> DEFINE b == regions[j].target_address
               c == TargetEnd(regions[j])
    <3>1. b \in Nat /\ c \in Nat /\ Targets(regions[j]) = b..(c - 1)
      BY <2>4, <2>5
    <3> HIDE DEF a, b, c
    <3>2. a \in Targets(regions[j]) <=> b <= a /\ a < c
      BY <2>11, <3>1
    <3> QED
      BY <3>2 DEF b, c
  <2>7. \A i \in 1..L : Inside(P[k], regions[i])
           => regions[i].target_address <= a /\ a < TargetEnd(regions[i])
    <3> SUFFICES ASSUME NEW i \in 1..L, Inside(P[k], regions[i])
                 PROVE  regions[i].target_address <= a /\ a < TargetEnd(regions[i])
      OBVIOUS
    <3> DEFINE c == TargetEnd(regions[i])
               d == TargetEnd(P[k])
    <3>1. c \in Nat /\ d \in Nat /\ a < d /\ d <= c
      BY <2>3, <2>4 DEF Inside
    <3>2. regions[i].target_address <= a
      BY DEF Inside
    <3> HIDE DEF a, c, d
    <3>3. a < c
      BY <2>11, <3>1
    <3> QED
      BY <3>2, <3>3 DEF c
  <2>8. PICK i \in 1..L : Inside(P[k], regions[i])
    BY <1>3
  <2>9. a \in Targets(regions[j]) => i = j
    BY <1>3, <2>3, <2>6, <2>7, <2>8, OneRegion
  <2>10. a \in Targets(regions[j]) <=> Inside(P[k], regions[j])
    BY <2>6, <2>7, <2>8, <2>9
  <2> QED
    BY <2>1, <2>2, <2>10 DEF FieldsFollow
<1>11. \A k, l \in 1..N : k < l <=> P[k].target_address < P[l].target_address
  <2> SUFFICES ASSUME NEW k \in 1..N, NEW l \in 1..N
               PROVE  k < l <=> P[k].target_address < P[l].target_address
    OBVIOUS
  <2>1. /\ P[k].target_address \in Nat /\ TargetEnd(P[k]) \in Nat
        /\ P[k].target_address < TargetEnd(P[k])
    BY <1>8, RegionIsExtent
  <2>2. /\ P[l].target_address \in Nat /\ TargetEnd(P[l]) \in Nat
        /\ P[l].target_address < TargetEnd(P[l])
    BY <1>8, RegionIsExtent
  <2>3. /\ k < l => TargetEnd(P[k]) <= P[l].target_address
        /\ l < k => TargetEnd(P[l]) <= P[k].target_address
    BY <1>2 DEF Apart
  <2>4. k < l \/ l < k \/ k = l
    OBVIOUS
  <2> DEFINE a == P[k].target_address
             b == TargetEnd(P[k])
             c == P[l].target_address
             d == TargetEnd(P[l])
  <2>5. /\ a \in Nat /\ b \in Nat /\ a < b /\ c \in Nat /\ d \in Nat /\ c < d
        /\ (k < l => b <= c) /\ (l < k => d <= a) /\ (k = l => a = c)
    BY <2>1, <2>2, <2>3
  <2> HIDE DEF a, b, c, d
  <2>6. k < l <=> a < c
    BY <2>4, <2>5
  <2> QED
    BY <2>6 DEF a, c
<1>12. ASSUME NEW m \in H, NEW n \in H, NEW k \in 1..N, NEW l \in 1..N,
              P[k] = R[m], P[l] = R[n], NEW j \in 1..L
       PROVE  (/\ LiesIn(S[m], regions[j]) /\ LiesIn(S[n], regions[j])
               /\ S[m].virtual_address < S[n].virtual_address
               /\ S[m].file_size < S[m].memory_size
               /\ S[n].file_size > 0)
          <=> (/\ k < l /\ Inside(P[k], regions[j]) /\ Inside(P[l], regions[j])
               /\ ~Full(P[k]) /\ P[l].source_size > 0)
  <2>1. /\ LiesIn(S[m], regions[j]) <=> Inside(P[k], regions[j])
        /\ LiesIn(S[n], regions[j]) <=> Inside(P[l], regions[j])
        /\ P[k].source_size = S[m].file_size /\ P[k].target_size = S[m].memory_size
        /\ P[l].source_size = S[n].file_size
        /\ P[k].target_address = S[m].virtual_address + shift
        /\ P[l].target_address = S[n].virtual_address + shift
    BY <1>10, <1>12
  <2>2. k < l <=> S[m].virtual_address < S[n].virtual_address
    <3>1. S[m].virtual_address + shift < S[n].virtual_address + shift
            <=> S[m].virtual_address < S[n].virtual_address
      <4> DEFINE a == S[m].virtual_address
                 b == S[n].virtual_address
      <4>1. a \in Nat /\ b \in Nat
        BY <1>9
      <4> HIDE DEF a, b
      <4>2. a + shift < b + shift <=> a < b
        BY <4>1
      <4> QED
        BY <4>2 DEF a, b
    <3> QED
      BY <1>11, <2>1, <3>1
  <2>3. Full(P[k]) <=> ~(S[m].file_size < S[m].memory_size)
    <3>1. P[k].source_size <= P[k].target_size
      BY <1>2 DEF NoneIsLong
    <3> DEFINE f == S[m].file_size
               t == S[m].memory_size
    <3>2. f \in Nat /\ t \in Nat /\ f <= t /\ (Full(P[k]) <=> f = t)
      BY <1>9, <2>1, <3>1 DEF Full
    <3> HIDE DEF f, t
    <3>3. Full(P[k]) <=> ~(f < t)
      BY <3>2
    <3> QED
      BY <3>3 DEF f, t
  <2> QED
    BY <2>1, <2>2, <2>3
<1>13. ASSUME NEW j \in 1..L, ZerosBeforeBytes(regions[j]) PROVE Misplaced(regions, P)
  <2>1. PICK m \in DOMAIN S, n \in DOMAIN S :
           /\ LiesIn(S[m], regions[j]) /\ LiesIn(S[n], regions[j])
           /\ S[m].virtual_address < S[n].virtual_address
           /\ S[m].file_size < S[m].memory_size
           /\ S[n].file_size > 0
    BY <1>13 DEF ZerosBeforeBytes, S
  <2>2. m \in H /\ n \in H
    BY <1>7, <2>1 DEF LiesIn
  <2>3. PICK k \in 1..N : P[k] = R[m]
    BY <1>5, <2>2
  <2>4. PICK l \in 1..N : P[l] = R[n]
    BY <1>5, <2>2
  <2>5. /\ k < l /\ Inside(P[k], regions[j]) /\ Inside(P[l], regions[j])
        /\ ~Full(P[k]) /\ P[l].source_size > 0
    BY <1>12, <2>1, <2>2, <2>3, <2>4
  <2> QED
    BY <2>5 DEF Misplaced
<1>14. ASSUME Misplaced(regions, P) PROVE \E j \in 1..L : ZerosBeforeBytes(regions[j])
  <2>1. PICK j \in 1..L, k \in 1..N, l \in 1..N :
           /\ k < l /\ Inside(P[k], regions[j]) /\ Inside(P[l], regions[j])
           /\ ~Full(P[k]) /\ P[l].source_size > 0
    BY <1>14 DEF Misplaced
  <2>2. PICK m \in H : P[k] = R[m]
    BY <1>5
  <2>3. PICK n \in H : P[l] = R[n]
    BY <1>5
  <2>4. /\ LiesIn(S[m], regions[j]) /\ LiesIn(S[n], regions[j])
        /\ S[m].virtual_address < S[n].virtual_address
        /\ S[m].file_size < S[m].memory_size
        /\ S[n].file_size > 0
    BY <1>12, <2>1, <2>2, <2>3
  <2>5. ZerosBeforeBytes(regions[j])
    BY <1>7, <2>4 DEF ZerosBeforeBytes, S
  <2> QED
    BY <2>5
<1> QED
  BY <1>3, <1>13, <1>14 DEF P, regions

\* PlanPlacesTheSegments, for every list of segments, every base and both ways
\* of asking: LayoutPlanner::plan moves all segments by the same distance,
\* merge_adjacent loses no address and invents none, and a byte of the file is in
\* another place exactly when zeros were merged with bytes that follow them.
THEOREM PlansPlaceTheSegments == LayoutSpec => []PlanPlacesTheSegments
<1>1. LayoutInv => PlanPlacesTheSegments
  <2> SUFFICES ASSUME LayoutInv, Accepted, listed # <<>>
               PROVE  /\ Places(PlanCells) = Places(SegmentCells)
                      /\ PlanCells = SegmentCells
                           <=> ~\E n \in DOMAIN Answer.regions :
                                   ZerosBeforeBytes(Answer.regions[n])
    BY DEF PlanPlacesTheSegments
  <2> DEFINE P == PlacedRegions(Requested, base)
  <2>1. /\ GivenAs(Answer.regions, P) /\ AreRegionTable(P)
        /\ CellsUpTo(P, Len(P)) = SegmentCells
        /\ CellsUpTo(Answer.regions, Len(Answer.regions)) = PlanCells
    BY GivenPlan
  <2>2. Places(PlanCells) = Places(SegmentCells)
    BY <2>1 DEF GivenAs
  <2>3. PlanCells = SegmentCells <=> ~Misplaced(Answer.regions, P)
    BY <2>1, BytesInPlace
  <2> QED
    BY <2>2, <2>3, ZerosOfSegments
<1> QED
  BY <1>1, LayoutInvariant, PTL

\* TotalsAreExact, for every list of segments, every base and both ways of
\* asking: the sums of LayoutPlanner::plan count every byte of a segment once,
\* and the ends of the image enclose its regions inside the address space.
THEOREM PlanTotalsAreExact == LayoutSpec => []TotalsAreExact
<1>1. LayoutInv => TotalsAreExact
  <2> SUFFICES ASSUME LayoutInv, Accepted, listed # <<>>
               PROVE  /\ Answer.mapped_bytes = Cardinality(SegmentCells)
                      /\ Answer.file_bytes = Cardinality({c \in SegmentCells : c[3] >= 0})
                      /\ Answer.mapped_bytes <= MaxMappedBytes
                      /\ \A n \in DOMAIN Answer.regions :
                            Targets(Answer.regions[n])
                              \subseteq Answer.image_begin..(Answer.image_end - 1)
                      /\ Answer.image_end <= MaxWord
    BY DEF TotalsAreExact
  <2> DEFINE P == PlacedRegions(Requested, base)
             S == Requested.segments
             R == RegionsOf(Requested, base)
             regions == Answer.regions
             N == Len(regions)
  <2>1. /\ Valid(Requested) /\ Len(S) > 0 /\ AreSegments(S) /\ base \in Nat
        /\ PlacementsError(Requested, base) = "none"
        /\ AreRegionTable(P) /\ Apart(P)
    BY AcceptedPlan DEF LayoutInv
  <2>2. Answer = PlanOf(regions) /\ ~(MappedBytes(regions) > MaxMappedBytes)
    <3> DEFINE given == IF merge THEN Merge(P) ELSE P
    <3>1. Answer = PlanOf(given) /\ ~(MappedBytes(given) > MaxMappedBytes)
      BY AcceptedPlan
    <3> HIDE DEF given
    <3>2. regions = given
      BY <3>1 DEF PlanOf
    <3> QED
      BY <3>1, <3>2
  <2>3. GivenAs(regions, P) /\ CellsUpTo(P, Len(P)) = SegmentCells
    BY GivenPlan
  <2>4. PICK shift \in Int : \A n \in Holding(S) :
           n \in 1..Len(S) /\ FieldsFollow(R[n], S[n], shift)
    BY <2>1, RegionFields
  <2>5. \A k \in 1..Len(P) : \E n \in Holding(S) : P[k] = R[n]
    BY <2>1, PlacedTable
  <2> HIDE DEF regions, R, N
  <2>6. /\ MappedBytes(regions) = Total(TargetSizes(P))
        /\ FileBytes(regions) = Total(SourceSizes(P))
    BY <2>3 DEF GivenAs, MappedBytes, FileBytes, TargetSizes, SourceSizes
  <2>7. /\ Answer.mapped_bytes = MappedBytes(regions)
        /\ Answer.file_bytes = FileBytes(regions)
        /\ Answer.image_begin = IF regions = <<>> THEN 0 ELSE regions[1].target_address
        /\ Answer.image_end = IF regions = <<>> THEN 0 ELSE TargetEnd(regions[N])
    BY <2>2 DEF PlanOf, N
  <2>8. \A k \in 1..Len(P) : P[k].source_size <= P[k].target_size
    BY AcceptedPlan DEF NoneIsLong
  <2>9. /\ Cardinality(SegmentCells) = Total(TargetSizes(P))
        /\ Cardinality({c \in SegmentCells : c[3] >= 0}) = Total(SourceSizes(P))
    BY <2>1, <2>3, <2>8, ApartAreCounted
  <2>10. Answer.mapped_bytes <= MaxMappedBytes
    <3>1. Total(TargetSizes(P)) \in Nat
      BY <2>1, SizesOfRegions, TotalIsNat
    <3> QED
      BY <2>2, <2>6, <2>7, <3>1, LayoutAssumption
  <2>11. /\ N \in Nat /\ DOMAIN regions = 1..N
         /\ \A n \in 1..N : /\ regions[n].target_address \in Nat
                            /\ TargetEnd(regions[n]) \in Nat
    <3>1. N \in Nat /\ DOMAIN regions = 1..N /\ \A n \in 1..N : IsRegion(regions[n])
      BY <2>3 DEF GivenAs, AreRegionTable, IsVector, N
    <3>2. ASSUME NEW n \in 1..N
          PROVE  regions[n].target_address \in Nat /\ TargetEnd(regions[n]) \in Nat
      <4>1. regions[n].target_address \in Nat /\ regions[n].target_size \in Nat
        BY <3>1 DEF IsRegion
      <4> QED
        BY <4>1 DEF TargetEnd
    <3> QED
      BY <3>1, <3>2
  <2>12. ASSUME NEW n \in DOMAIN regions
         PROVE  Targets(regions[n]) \subseteq Answer.image_begin..(Answer.image_end - 1)
    <3>1. n \in 1..N /\ 1 \in 1..N /\ N \in 1..N /\ regions # <<>>
      BY <2>11 DEF N
    <3>2. /\ Answer.image_begin = regions[1].target_address
          /\ Answer.image_end = TargetEnd(regions[N])
      BY <2>7, <3>1
    <3>3. /\ regions[1].target_address <= regions[n].target_address
          /\ TargetEnd(regions[n]) <= TargetEnd(regions[N])
      BY <2>3, <3>1 DEF GivenAs, Spans, N
    <3>4. /\ Answer.image_begin \in Nat /\ Answer.image_end \in Nat
          /\ regions[n].target_address \in Nat /\ TargetEnd(regions[n]) \in Nat
      BY <2>11, <3>1, <3>2
    <3>5. Targets(regions[n]) = (regions[n].target_address)..(TargetEnd(regions[n]) - 1)
      BY DEF Targets
    <3> QED
      BY <3>2, <3>3, <3>4, <3>5
  <2>13. Answer.image_end <= MaxWord
    <3>1. CASE regions = <<>>
      BY <2>7, <3>1, WordAssumption
    <3>2. CASE regions # <<>>
      <4>1. N > 0
        <5>1. N # 0
          <6>1. SUFFICES ASSUME N = 0 PROVE regions = <<>>
            BY <3>2
          <6>2. regions = [n \in 1..Len(regions) |-> regions[n]]
            BY <2>3 DEF GivenAs, AreRegionTable, IsVector
          <6> QED
            BY <6>1, <6>2 DEF N
        <5> QED
          BY <2>11, <5>1
      <4> DEFINE K == Len(P)
      <4>2. K > 0 /\ TargetEnd(regions[N]) = TargetEnd(P[K])
        BY <2>3, <4>1 DEF GivenAs, N
      <4>3. K \in 1..Len(P)
        BY <2>1, <4>2 DEF AreRegionTable, IsVector
      <4>4. PICK n \in Holding(S) : P[K] = R[n]
        BY <2>5, <4>3
      <4>5. PlacementError(Requested, base, S[n]) = "none"
        BY <2>1, EveryPlacementFits
      <4> DEFINE t == TargetAddress(Requested, base, S[n])
                 m == S[n].memory_size
      <4>6. AddFits(t, m)
        BY <4>5 DEF PlacementError
      <4>7. R[n].target_address = t /\ R[n].target_size = m
        BY DEF R, RegionsOf, RegionOf
      <4>8. FieldsFollow(R[n], S[n], shift) /\ n \in 1..Len(S)
        BY <2>4
      <4>9. t \in Nat
        BY <4>7, <4>8 DEF FieldsFollow
      <4>10. m \in Nat
        BY <2>1, <4>8 DEF AreSegments
      <4>11. TargetEnd(P[K]) = t + m
        BY <4>4, <4>7 DEF TargetEnd
      <4> HIDE DEF t, m, K, P, S
      <4>12. t + m <= MaxWord
        BY <4>6, <4>9, <4>10, WordAssumption DEF AddFits
      <4> QED
        BY <2>7, <3>2, <4>2, <4>11, <4>12
    <3> QED
      BY <3>1, <3>2
  <2> QED
    BY <2>6, <2>7, <2>9, <2>10, <2>12, <2>13 DEF regions
<1> QED
  BY <1>1, LayoutInvariant, PTL

-----------------------------------------------------------------------------
(* BinaryImageBuilder, BinaryValidator and LayoutPlanner agree.            *)

\* The errors of build as a function of what was added.
ErrorsFrom(added, names, imported, exported, fixups, o) ==
    LET b == LaidFrom(added, o)
        image == [image_base  |-> o.image_base,
                  entry_point |-> EntryPoint(b.sections),
                  sections    |-> b.sections,
                  segments    |-> b.segments,
                  symbols     |-> Numbered(names, Symbols),
                  imports     |-> [n \in DOMAIN imported |-> Imports[imported[n]]],
                  exports     |-> [n \in DOMAIN exported |-> Exports[exported[n]]],
                  relocations |-> Numbered(fixups, Relocations),
                  file        |-> [size  |-> Len(b.storage),
                                   bytes |-> [n \in 0..(Len(b.storage) - 1) |->
                                                b.storage[n + 1]]]]
    IN  IF OptionsError(o) # "none" THEN {OptionsError(o)}
        ELSE IF b.error # "none" THEN {b.error}
        ELSE ValidationErrors(image)

\* What was added is within the limits and has alignments that are powers of
\* two.
ListsOK ==
    /\ symbols \in Seq(DOMAIN Symbols)
    /\ relocations \in Seq(DOMAIN Relocations)
    /\ Len(sections) <= MaxSections
    /\ Len(symbols) <= MaxSymbols
    /\ Len(relocations) <= MaxRelocations
    /\ \A n \in 1..Len(sections) : IsPowerOfTwo(Sections[sections[n]].alignment)

\* The answer of the last build is one that build gives.
AnswerOK ==
    last.op = "build" =>
        \/ last.error = "none" /\ BuildErrors(options) = {}
        \/ last.error \in BuildErrors(options)

\* A call that adds to a list keeps to its limit.
LEMMA ExtendedList ==
    ASSUME NEW K, NEW list \in Seq(K), NEW k \in K, NEW limit \in Nat,
           Len(list) <= limit, NEW e, e = "none" => ~(Len(list) >= limit)
    PROVE  /\ Extended(list, k, e) \in Seq(K)
           /\ Len(Extended(list, k, e)) <= limit
<1>1. CASE e = "none"
  <2>1. Extended(list, k, e) = Append(list, k)
    BY <1>1 DEF Extended
  <2>2. Append(list, k) \in Seq(K) /\ Len(Append(list, k)) = Len(list) + 1
    BY AppendProperties
  <2>3. Len(list) \in Nat
    OBVIOUS
  <2> QED
    BY <1>1, <2>1, <2>2, <2>3
<1>2. CASE e # "none"
  BY <1>2 DEF Extended
<1> QED
  BY <1>1, <1>2

\* The calls of a builder keep to the limits, and build answers for what was
\* added before it.
LEMMA CallsInvariant == Spec => [](BuilderInv /\ ListsOK /\ AnswerOK)
<1>1. Init => ListsOK /\ AnswerOK
  <2> SUFFICES ASSUME Init PROVE ListsOK /\ AnswerOK
    OBVIOUS
  <2>1. sections = <<>> /\ symbols = <<>> /\ relocations = <<>> /\ last.op # "build"
    BY DEF Init
  <2>2. Len(<<>>) = 0 /\ 0 <= MaxSections /\ 0 <= MaxSymbols /\ 0 <= MaxRelocations
    BY BuilderAssumption, LimitsAssumption
  <2>3. \A n \in 1..0 : FALSE
    OBVIOUS
  <2>4. ListsOK
    BY <2>1, <2>2, <2>3 DEF ListsOK
  <2> QED
    BY <2>1, <2>4 DEF AnswerOK
<1>2. BuilderInv /\ ListsOK /\ AnswerOK /\ [Next]_vars => ListsOK' /\ AnswerOK'
  <2> SUFFICES ASSUME BuilderInv, ListsOK, AnswerOK, [Next]_vars
               PROVE  ListsOK' /\ AnswerOK'
    OBVIOUS
  <2>1. ASSUME NEW op, op # "build", NEW e, Returns(op, e)
        PROVE  AnswerOK'
    BY <2>1 DEF Returns, AnswerOK
  <2>2. /\ sections \in Seq(DOMAIN Sections) /\ Len(sections) \in Nat
        /\ MaxSections \in Nat /\ MaxSymbols \in Nat /\ MaxRelocations \in Nat
    BY BuilderAssumption, LimitsAssumption DEF BuilderInv
  <2>3. ASSUME NEW k \in DOMAIN Sections, AddSection(k) PROVE ListsOK' /\ AnswerOK'
    <3> DEFINE e == SectionRefusal(Sections[k])
    <3>1. /\ sections' = Extended(sections, k, e) /\ Returns("add_section", e)
          /\ symbols' = symbols /\ relocations' = relocations
      BY <2>3 DEF AddSection
    <3>2. e = "none" => /\ ~(Len(sections) >= MaxSections)
                        /\ IsPowerOfTwo(Sections[k].alignment)
      BY DEF SectionRefusal
    <3> HIDE DEF e
    <3>3. Len(sections') <= MaxSections
      <4>1. Len(sections) <= MaxSections
        BY DEF ListsOK
      <4> QED
        BY <2>2, <3>1, <3>2, <4>1, ExtendedList
    <3>4. ASSUME NEW n \in 1..Len(sections')
          PROVE  IsPowerOfTwo(Sections[sections'[n]].alignment)
      <4>1. CASE e = "none"
        <5>1. sections' = Append(sections, k)
          BY <3>1, <4>1 DEF Extended
        <5>2. /\ Len(sections') = Len(sections) + 1
              /\ \A j \in 1..Len(sections) : sections'[j] = sections[j]
              /\ sections'[Len(sections) + 1] = k
          BY <2>2, <5>1, AppendProperties
        <5>3. CASE n = Len(sections) + 1
          BY <3>2, <4>1, <5>2, <5>3
        <5>4. CASE n # Len(sections) + 1
          <6>1. n \in 1..Len(sections)
            BY <2>2, <5>2, <5>4
          <6> QED
            BY <5>2, <6>1 DEF ListsOK
        <5> QED
          BY <5>3, <5>4
      <4>2. CASE e # "none"
        <5>1. sections' = sections
          BY <3>1, <4>2 DEF Extended
        <5> QED
          BY <5>1 DEF ListsOK
      <4> QED
        BY <4>1, <4>2
    <3>5. ListsOK'
      BY <3>1, <3>3, <3>4 DEF ListsOK
    <3> QED
      BY <2>1, <3>1, <3>5
  <2>4. ASSUME NEW k \in DOMAIN Symbols, AddSymbol(k) PROVE ListsOK' /\ AnswerOK'
    <3> DEFINE e == Refusal(symbols, MaxSymbols, {Symbols[k].name, Symbols[k].library})
    <3>1. /\ symbols' = Extended(symbols, k, e) /\ Returns("add_symbol", e)
          /\ sections' = sections /\ relocations' = relocations
      BY <2>4 DEF AddSymbol
    <3>2. e = "none" => ~(Len(symbols) >= MaxSymbols)
      BY DEF Refusal
    <3> HIDE DEF e
    <3>3. symbols' \in Seq(DOMAIN Symbols) /\ Len(symbols') <= MaxSymbols
      <4>1. symbols \in Seq(DOMAIN Symbols) /\ Len(symbols) <= MaxSymbols
        BY DEF ListsOK
      <4> QED
        BY <2>2, <3>1, <3>2, <4>1, ExtendedList
    <3>4. ListsOK'
      BY <3>1, <3>3 DEF ListsOK
    <3> QED
      BY <2>1, <3>1, <3>4
  <2>5. ASSUME NEW k \in DOMAIN Relocations, AddRelocation(k)
        PROVE  ListsOK' /\ AnswerOK'
    <3> DEFINE e == Refusal(relocations, MaxRelocations, {})
    <3>1. /\ relocations' = Extended(relocations, k, e) /\ Returns("add_relocation", e)
          /\ sections' = sections /\ symbols' = symbols
      BY <2>5 DEF AddRelocation
    <3>2. e = "none" => ~(Len(relocations) >= MaxRelocations)
      BY DEF Refusal
    <3> HIDE DEF e
    <3>3. /\ relocations' \in Seq(DOMAIN Relocations)
          /\ Len(relocations') <= MaxRelocations
      <4>1. relocations \in Seq(DOMAIN Relocations) /\ Len(relocations) <= MaxRelocations
        BY DEF ListsOK
      <4> QED
        BY <2>2, <3>1, <3>2, <4>1, ExtendedList
    <3>4. ListsOK'
      BY <3>1, <3>3 DEF ListsOK
    <3> QED
      BY <2>1, <3>1, <3>4
  <2>6. ASSUME sections' = sections, symbols' = symbols, relocations' = relocations
        PROVE  ListsOK'
    BY <2>6 DEF ListsOK
  <2>7. ASSUME NEW k \in DOMAIN Imports, AddImport(k) PROVE ListsOK' /\ AnswerOK'
    BY <2>1, <2>6, <2>7 DEF AddImport
  <2>8. ASSUME NEW k \in DOMAIN Exports, AddExport(k) PROVE ListsOK' /\ AnswerOK'
    BY <2>1, <2>6, <2>8 DEF AddExport
  <2>9. ASSUME Clear PROVE ListsOK' /\ AnswerOK'
    <3>1. /\ sections' = <<>> /\ symbols' = <<>> /\ relocations' = <<>>
          /\ Returns("clear", "none")
      BY <2>9 DEF Clear
    <3>2. Len(<<>>) = 0 /\ \A n \in 1..0 : FALSE
      OBVIOUS
    <3>3. ListsOK'
      BY <2>2, <3>1, <3>2 DEF ListsOK
    <3> QED
      BY <2>1, <3>1, <3>3
  <2>10. /\ BuildErrors(options)
              = ErrorsFrom(sections, symbols, imports, exports, relocations, options)
         /\ (BuildErrors(options))'
              = ErrorsFrom(sections', symbols', imports', exports', relocations', options')
    BY DEF BuildErrors, ErrorsFrom, Built, ImageFrom, LaidOut, LaidFrom
  <2>11. ASSUME NEW k \in DOMAIN Options, Build(k) PROVE ListsOK' /\ AnswerOK'
    <3>1. /\ sections' = sections /\ symbols' = symbols /\ imports' = imports
          /\ exports' = exports /\ relocations' = relocations
      BY <2>11 DEF Build, lists
    <3>2. PICK e : /\ last' = [op |-> "build", options |-> k, error |-> e]
                   /\ \/ e = "none" /\ BuildErrors(Options[k]) = {}
                      \/ e \in BuildErrors(Options[k])
      BY <2>11 DEF Build
    <3>3. options' = Options[k] /\ last'.error = e
      BY <3>2 DEF options
    <3>4. BuildErrors(Options[k])
            = ErrorsFrom(sections, symbols, imports, exports, relocations, Options[k])
      BY DEF BuildErrors, ErrorsFrom, Built, ImageFrom, LaidOut, LaidFrom
    <3>5. (BuildErrors(options))' = BuildErrors(Options[k])
      BY <2>10, <3>1, <3>3, <3>4
    <3>6. AnswerOK'
      BY <3>2, <3>3, <3>5 DEF AnswerOK
    <3> QED
      BY <2>6, <3>1, <3>6
  <2>12. ASSUME UNCHANGED vars PROVE ListsOK' /\ AnswerOK'
    <3>1. /\ sections' = sections /\ symbols' = symbols /\ imports' = imports
          /\ exports' = exports /\ relocations' = relocations /\ last' = last
      BY <2>12 DEF vars
    <3>2. options' = options
      BY <3>1 DEF options
    <3>3. (BuildErrors(options))' = BuildErrors(options)
      BY <2>10, <3>1, <3>2
    <3>4. AnswerOK'
      BY <3>1, <3>3 DEF AnswerOK
    <3> QED
      BY <2>6, <3>1, <3>4
  <2> QED
    BY <2>3, <2>4, <2>5, <2>7, <2>8, <2>9, <2>11, <2>12 DEF Next
<1> QED
  BY <1>1, <1>2, BuilderInvariant, PTL DEF Spec

\* The entries of a list that build numbers.
LEMMA NumberedEntries ==
    ASSUME NEW K, NEW list \in Seq(K), NEW Of
    PROVE  /\ Len(Numbered(list, Of)) = Len(list)
           /\ \A n \in 1..Len(list) :
                 /\ Numbered(list, Of)[n].index = n - 1
                 /\ "symbol_index" \in DOMAIN Of[list[n]] =>
                       Numbered(list, Of)[n].symbol_index = Of[list[n]].symbol_index
<1> DEFINE L == Len(list)
           new == Numbered(list, Of)
<1>1. L \in Nat /\ DOMAIN list = 1..L
  OBVIOUS
<1>2. new = [n \in 1..L |->
                [field \in DOMAIN Of[list[n]] \cup {"index"} |->
                    IF field = "index" THEN n - 1 ELSE Of[list[n]][field]]]
  BY <1>1 DEF Numbered
<1> HIDE DEF new, L
<1>3. Len(new) = L
  BY <1>1, <1>2
<1>4. ASSUME NEW n \in 1..L
      PROVE  /\ new[n].index = n - 1
             /\ "symbol_index" \in DOMAIN Of[list[n]] =>
                   new[n].symbol_index = Of[list[n]].symbol_index
  <2> DEFINE g == Of[list[n]]
  <2>1. new[n] = [field \in DOMAIN g \cup {"index"} |->
                    IF field = "index" THEN n - 1 ELSE g[field]]
    BY <1>2
  <2> HIDE DEF g
  <2>2. new[n]["index"] = n - 1
    BY <2>1
  <2>3. "symbol_index" \in DOMAIN g => new[n]["symbol_index"] = g["symbol_index"]
    BY <2>1
  <2> QED
    BY <2>2, <2>3 DEF g
<1> QED
  BY <1>3, <1>4 DEF new, L

\* The image that build hands to the validator.
LEMMA LaidOutImage ==
    ASSUME BuilderInv, last.op = "build", LaidOut(options).error = "none"
    PROVE  /\ IsOptions(options)
           /\ TurnOK(LaidOut(options), sections, Len(sections), options)
           /\ AlignmentsOK(sections, Len(sections), options)
                => GrowthOK(LaidOut(options), options)
           /\ Built(options).sections = LaidOut(options).sections
           /\ Built(options).segments = LaidOut(options).segments
           /\ Built(options).symbols = Numbered(symbols, Symbols)
           /\ Built(options).relocations = Numbered(relocations, Relocations)
           /\ Built(options).file.size = LaidOut(options).file_cursor
<1>1. sections \in Seq(DOMAIN Sections) /\ IsOptions(options)
  BY BuilderAssumption DEF BuilderInv, options
<1>2. /\ TurnOK(LaidOut(options), sections, Len(sections), options)
      /\ AlignmentsOK(sections, Len(sections), options)
           => GrowthOK(LaidOut(options), options)
  BY <1>1, LaidOutIsSound DEF LayoutOK
<1>3. /\ Built(options).sections = LaidOut(options).sections
      /\ Built(options).segments = LaidOut(options).segments
      /\ Built(options).symbols = Numbered(symbols, Symbols)
      /\ Built(options).relocations = Numbered(relocations, Relocations)
      /\ Built(options).file.size = Len(LaidOut(options).storage)
  BY DEF Built, ImageFrom
<1>4. Len(LaidOut(options).storage) = LaidOut(options).file_cursor
  BY <1>2 DEF TurnOK
<1> QED
  BY <1>1, <1>2, <1>3, <1>4

\* Each check of the validator passes, but for the three that a caller can fail.
LEMMA UnexplainedIsValid ==
    ASSUME BuilderInv, ListsOK, last.op = "build", LaidOut(options).error = "none",
           ~(Len(LaidOut(options).segments) > MaxSegments),
           ~\E n \in DOMAIN relocations :
               LET symbol == Relocations[relocations[n]].symbol_index
               IN  symbol # 0 /\ symbol >= Len(symbols),
           ~\E n \in DOMAIN LaidOut(options).segments :
               LET t == LaidOut(options).segments[n]
               IN  /\ t.file_size > t.memory_size
                   /\ GapsMayDiffer(t, LaidOut(options).sections, options),
           OptionsError(options) = "none"
    PROVE  Valid(Built(options))
<1> DEFINE o == options
           i == Built(options)
           b == LaidOut(options)
           N == Len(sections)
           size == b.file_cursor
<1>1. /\ TurnOK(b, sections, N, o)
      /\ AlignmentsOK(sections, N, o) => GrowthOK(b, o)
      /\ i.sections = b.sections /\ i.segments = b.segments
      /\ i.symbols = Numbered(symbols, Symbols)
      /\ i.relocations = Numbered(relocations, Relocations)
      /\ i.file.size = size
  BY LaidOutImage
<1> HIDE DEF i, b, o
<1>2. /\ N \in Nat /\ IsVector(b.storage) /\ Len(b.storage) = size
      /\ size <= MaxFileSize /\ b.memory_cursor \in Word
      /\ Len(b.sections) = N /\ IsVector(b.segments)
  BY <1>1 DEF TurnOK, BuilderInv
<1>3. size \in Nat /\ b.memory_cursor \in Nat /\ b.memory_cursor <= MaxWord
  BY <1>2, WordAssumption DEF IsVector, Word
<1>4. /\ symbols \in Seq(DOMAIN Symbols) /\ relocations \in Seq(DOMAIN Relocations)
      /\ Len(symbols) \in Nat /\ Len(relocations) \in Nat
      /\ sections \in Seq(DOMAIN Sections)
  BY DEF ListsOK, BuilderInv
<1>5. /\ Len(i.symbols) = Len(symbols)
      /\ \A n \in 1..Len(i.symbols) : i.symbols[n].index = n - 1
  BY <1>1, <1>4, NumberedEntries
<1>6. /\ Len(i.relocations) = Len(relocations)
      /\ \A n \in 1..Len(i.relocations) :
            i.relocations[n].symbol_index = Relocations[relocations[n]].symbol_index
  <2>1. \A n \in 1..Len(relocations) :
           "symbol_index" \in DOMAIN Relocations[relocations[n]]
    <3>1. \A n \in 1..Len(relocations) : relocations[n] \in DOMAIN Relocations
      BY <1>4
    <3> QED
      BY <3>1, LimitsAssumption
  <2> QED
    BY <1>1, <1>4, <2>1, NumberedEntries
<1>7. i.file # NoFile
  <2>1. NoFile.size = -1
    BY DEF NoFile
  <2> QED
    BY <1>1, <1>3, <2>1
<1>8. CountErrors(i) = {}
  <2>1. ~(i.file.size > MaxFileSize)
    BY <1>1, <1>2, <1>3, BuilderAssumption
  <2>2. ~(Len(i.sections) > MaxSections)
    BY <1>1, <1>2, BuilderAssumption DEF ListsOK
  <2>3. ~(Len(i.segments) > MaxSegments)
    BY <1>1 DEF b
  <2>4. ~(Len(i.symbols) > MaxSymbols) /\ ~(Len(i.relocations) > MaxRelocations)
    BY <1>4, <1>5, <1>6, LimitsAssumption DEF ListsOK
  <2> QED
    BY <2>1, <2>2, <2>3, <2>4 DEF CountErrors, Reported
<1>9. ASSUME NEW a \in Nat, NEW l \in Nat, a + l <= size
      PROVE  RangeInside(a, l, i.file.size)
  BY <1>1, <1>3, <1>9 DEF RangeInside
<1>10. SectionErrors(i) = {}
  <2>1. ASSUME NEW n \in 1..Len(i.sections)
        PROVE  /\ i.sections[n].index = n - 1
               /\ RangeInside(i.sections[n].file_offset, i.sections[n].file_size,
                              i.file.size)
               /\ IsPowerOfTwo(i.sections[n].alignment)
    <3> DEFINE s == i.sections[n]
               source == Sections[sections[n]]
    <3>1. n \in 1..N /\ SectionOK(s, n, source, b.storage, size)
      BY <1>1, <1>2 DEF TurnOK
    <3>2. IsSection(source) /\ IsPowerOfTwo(source.alignment)
      BY <1>4, <3>1, BuilderAssumption DEF ListsOK
    <3>3. /\ s.index = n - 1 /\ s.alignment = source.alignment
          /\ s.file_offset \in Nat /\ s.file_size \in Nat
          /\ s.file_offset + s.file_size <= size
      BY <3>1, <3>2 DEF SectionOK, IsSection
    <3> HIDE DEF s, source
    <3>4. RangeInside(s.file_offset, s.file_size, i.file.size)
      BY <1>9, <3>3
    <3> QED
      BY <3>2, <3>3, <3>4 DEF s
  <2>2. IndexErrors(i.sections, "invalid_section") = {}
    BY <2>1 DEF IndexErrors, Reported
  <2> DEFINE outside(s) == /\ s.kind # "no_bits"
                           /\ ~RangeInside(s.file_offset, s.file_size, i.file.size)
             misaligned(s) == ~IsPowerOfTwo(s.alignment)
  <2>3. /\ ~\E n \in 1..Len(i.sections) : outside(i.sections[n])
        /\ ~\E n \in 1..Len(i.sections) : misaligned(i.sections[n])
    BY <2>1
  <2> QED
    BY <2>2, <2>3 DEF SectionErrors, Reported
<1>11. SegmentErrors(i) = {}
  <2>1. ASSUME NEW n \in 1..Len(i.segments)
        PROVE  /\ ~(i.segments[n].file_size > i.segments[n].memory_size)
               /\ RangeInside(i.segments[n].file_offset, i.segments[n].file_size,
                              i.file.size)
               /\ AddFits(i.segments[n].virtual_address, i.segments[n].memory_size)
    <3> DEFINE t == i.segments[n]
    <3>1. /\ SegmentOK(t, b.sections, size, b.memory_cursor)
          /\ n \in DOMAIN b.segments
      BY <1>1, <1>2 DEF TurnOK, IsVector
    <3>2. /\ t.file_offset \in Nat /\ t.file_size \in Nat
          /\ t.virtual_address \in Nat /\ t.memory_size \in Nat
          /\ t.file_offset + t.file_size <= size
          /\ t.virtual_address + t.memory_size <= b.memory_cursor
          /\ Len(t.sections) \in Nat /\ Len(t.sections) > 0
      BY <3>1 DEF SegmentOK, IsVector
    <3>3. ~(t.file_size > t.memory_size)
      <4>1. AlignmentsOK(sections, N, o)
        <5>1. \A m \in 1..N : sections[m] \in DOMAIN Sections
          BY <1>4
        <5> QED
          BY <5>1 DEF AlignmentsOK, ListsOK, o
      <4>2. GrownAlike(t, b.sections, o)
        BY <1>1, <1>2, <3>1, <4>1 DEF GrowthOK, IsVector
      <4>3. ~(t.file_size > t.memory_size /\ GapsMayDiffer(t, b.sections, o))
        BY <1>1, <3>1 DEF b, o
      <4> HIDE DEF t
      <4>4. CASE t.file_size <= t.memory_size
        <5> DEFINE fz == t.file_size
                   mz == t.memory_size
        <5>1. fz \in Nat /\ mz \in Nat /\ fz <= mz
          BY <3>2, <4>4
        <5> HIDE DEF fz, mz
        <5>2. ~(fz > mz)
          BY <5>1
        <5> QED
          BY <5>2 DEF fz, mz
      <4>5. CASE GapsMayDiffer(t, b.sections, o)
        BY <4>3, <4>5
      <4> QED
        BY <4>2, <4>4, <4>5 DEF GrownAlike
    <3> HIDE DEF t
    <3>4. RangeInside(t.file_offset, t.file_size, i.file.size)
      BY <1>9, <3>2
    <3>5. AddFits(t.virtual_address, t.memory_size)
      BY <1>3, <3>2, WordAssumption DEF AddFits
    <3> QED
      BY <3>3, <3>4, <3>5 DEF t
  <2> DEFINE outside(s) == \/ s.file_size > s.memory_size
                           \/ ~RangeInside(s.file_offset, s.file_size, i.file.size)
             overflowing(s) == ~AddFits(s.virtual_address, s.memory_size)
  <2>2. /\ ~\E n \in 1..Len(i.segments) : outside(i.segments[n])
        /\ ~\E n \in 1..Len(i.segments) : overflowing(i.segments[n])
    BY <2>1
  <2> QED
    BY <2>2 DEF SegmentErrors, Reported
<1>12. IndexErrors(i.symbols, "invalid_symbol") = {}
  BY <1>5 DEF IndexErrors, Reported
<1>13. RelocationErrors(i) = {}
  <2>1. ASSUME NEW n \in 1..Len(i.relocations)
        PROVE  LET index == i.relocations[n].symbol_index
               IN  ~(index # 0 /\ ~HasSymbol(i, index))
    <3> DEFINE symbol == Relocations[relocations[n]].symbol_index
    <3>1. n \in DOMAIN relocations /\ i.relocations[n].symbol_index = symbol
      BY <1>4, <1>6
    <3>2. symbol \in Nat
      BY <1>4, <3>1, LimitsAssumption
    <3>3. ~(symbol # 0 /\ symbol >= Len(symbols))
      BY <3>1
    <3> HIDE DEF symbol
    <3>4. symbol = 0 \/ symbol < Len(symbols)
      BY <1>4, <3>2, <3>3
    <3> QED
      BY <1>5, <3>1, <3>4 DEF HasSymbol
  <2> QED
    BY <2>1 DEF RelocationErrors, Reported
<1>14. ValidationErrors(i) = {}
  BY <1>7, <1>8, <1>10, <1>11, <1>12, <1>13 DEF ValidationErrors
<1> QED
  BY <1>14 DEF Valid, i

\* Every segment of an image that was built can be placed at its own address.
LEMMA BuiltIsPlaced ==
    ASSUME NEW b, NEW keys, NEW n \in Nat, NEW o, IsOptions(o), TurnOK(b, keys, n, o),
           OptionsError(o) = "none",
           \A m \in 1..n : /\ IsPowerOfTwo(Sections[keys[m]].alignment)
                           /\ Sections[keys[m]].alignment \in Nat,
           NEW image, image.segments = b.segments
    PROVE  /\ AreSegments(image.segments)
           /\ Separate(image.segments)
           /\ Len(image.segments) > 0 => PlacementsError(image, 0) = "none"
<1> DEFINE S == image.segments
           L == Len(S)
           W == LowestAddress(image)
<1>1. /\ IsVector(S) /\ L \in Nat /\ DOMAIN S = 1..L
      /\ SegmentsApart(S) /\ SegmentsAligned(S, keys, n, o)
      /\ \A g \in 1..L : SegmentOK(S[g], b.sections, b.file_cursor, b.memory_cursor)
      /\ b.memory_cursor \in Word
  BY DEF TurnOK, IsVector
<1>2. b.memory_cursor \in Nat /\ b.memory_cursor <= MaxWord
  BY <1>1, WordAssumption DEF Word
<1>3. \A g \in 1..L :
         /\ S[g].file_offset \in Nat /\ S[g].file_size \in Nat
         /\ S[g].virtual_address \in Nat /\ S[g].memory_size \in Nat
         /\ S[g].virtual_address + S[g].memory_size <= b.memory_cursor
  BY <1>1 DEF SegmentOK
<1>4. AreSegments(S)
  BY <1>1, <1>3 DEF AreSegments
<1>5. Separate(S)
  <2> DEFINE End(t) == t.virtual_address + t.memory_size
  <2> SUFFICES ASSUME NEW g \in 1..L, NEW h \in 1..L, g # h
               PROVE  \/ End(S[g]) <= S[h].virtual_address
                      \/ End(S[h]) <= S[g].virtual_address
    BY <1>1 DEF Separate
  <2>1. g < h \/ h < g
    OBVIOUS
  <2> QED
    BY <1>1, <2>1 DEF SegmentsApart
<1>6. ASSUME L > 0, NEW g \in 1..L
      PROVE  PlacementError(image, 0, S[g]) = "none"
  <2> DEFINE t == S[g]
             a == t.virtual_address
             m == t.memory_size
             alignment == RegionAlignment(t)
  <2>1. W \in Nat /\ W <= a
    BY <1>4, <1>6, LowestIsLowest
  <2>2. a \in Nat /\ m \in Nat /\ a + m <= MaxWord
    <3>1. a \in Nat /\ m \in Nat /\ a + m <= b.memory_cursor
      BY <1>3
    <3> HIDE DEF a, m
    <3> QED
      BY <1>2, <3>1, WordAssumption
  <2>3. LayoutBase(image, 0) = W
    BY DEF LayoutBase
  <2> DEFINE address == TargetAddress(image, 0, t)
  <2>4. address = a
    <3>1. address = W + (a - W)
      BY <2>3 DEF TargetAddress
    <3> HIDE DEF a, W, address
    <3> QED
      BY <2>1, <2>2, <3>1
  <2>5. IsPowerOfTwo(alignment)
    <3>1. IsPowerOfTwo(1)
      BY DEF IsPowerOfTwo
    <3>2. IsPowerOfTwo(o.memory_alignment)
      BY DEF OptionsError
    <3>3. IsPowerOfTwo(t.alignment)
      <4>1. \/ t.alignment = o.memory_alignment
            \/ \E k \in 1..n : t.alignment = Sections[keys[k]].alignment
        BY <1>1 DEF SegmentsAligned
      <4> HIDE DEF t
      <4> QED
        BY <3>2, <4>1
    <3>4. \/ alignment = PageSize \/ alignment = t.alignment \/ alignment = 1
      BY DEF RegionAlignment, Greater
    <3> HIDE DEF t, alignment
    <3> QED
      BY <3>1, <3>3, <3>4, LimitsAssumption
  <2>6. AddFits(LayoutBase(image, 0), a - W) /\ AddFits(address, m)
    <3> HIDE DEF a, m, W, address
    <3>1. a - W <= MaxWord - W /\ m <= MaxWord - address
      BY <2>1, <2>2, <2>4, WordAssumption
    <3> QED
      BY <2>3, <3>1 DEF AddFits
  <2> QED
    BY <2>5, <2>6 DEF PlacementError
<1>7. L > 0 => PlacementsError(image, 0) = "none"
  <2> SUFFICES ASSUME L > 0 PROVE PlacementsError(image, 0) = "none"
    OBVIOUS
  <2> DEFINE errors == [g \in DOMAIN S |->
                          IF HasMemory(S[g]) THEN PlacementError(image, 0, S[g])
                          ELSE "none"]
             failed == {g \in DOMAIN errors : errors[g] # "none"}
  <2>1. PlacementsError(image, 0)
          = IF failed = {} THEN "none"
            ELSE errors[CHOOSE g \in failed : \A h \in failed : g <= h]
    BY DEF PlacementsError
  <2>2. failed = {}
    BY <1>1, <1>6
  <2> QED
    BY <2>1, <2>2
<1> QED
  BY <1>4, <1>5, <1>7

\* An image that was built is valid.
LEMMA BuiltIsValid ==
    ASSUME BuilderInv, AnswerOK, HasBuilt
    PROVE  /\ OptionsError(options) = "none"
           /\ LaidOut(options).error = "none"
           /\ Valid(Built(options))
<1>1. "none" \notin BuildErrors(options)
  <2>1. "none" \notin ValidationErrors(Built(options))
    BY ReportedErrors
  <2> QED
    BY <2>1 DEF BuildErrors
<1>2. BuildErrors(options) = {}
  BY <1>1 DEF AnswerOK, HasBuilt
<1> QED
  BY <1>2 DEF BuildErrors, Valid

\* BuiltImagesCanBePlanned, for every sequence of calls and every limits: the
\* validator refuses what BinaryImageBuilder::build laid out only for what the
\* caller asked for or for what alignment made longer in the file, and
\* LayoutPlanner::plan finds no overlap and no address that overflows in what
\* build returns.
THEOREM BuiltImagesArePlanned == Spec => []BuiltImagesCanBePlanned
<1>1. BuilderInv /\ ListsOK /\ AnswerOK => BuiltImagesCanBePlanned
  <2> SUFFICES ASSUME BuilderInv, ListsOK, AnswerOK
               PROVE  BuiltImagesCanBePlanned
    OBVIOUS
  <2>1. RefusalsAreExplained
    <3>1. SUFFICES ASSUME last.op = "build", last.error # "none",
                          OptionsError(options) = "none",
                          LaidOut(options).error = "none",
                          Valid(Built(options))
                   PROVE  FALSE
      BY UnexplainedIsValid DEF RefusalsAreExplained
    <3>2. BuildErrors(options) = ValidationErrors(Built(options))
      BY <3>1 DEF BuildErrors
    <3>3. last.error \in BuildErrors(options)
      BY <3>1 DEF AnswerOK
    <3> QED
      BY <3>1, <3>2, <3>3 DEF Valid
  <2>2. ASSUME HasBuilt
        PROVE  Plan(Built(options), 0, FALSE).error \in {"none", "resource_limit"}
    <3> DEFINE i == Built(options)
               b == LaidOut(options)
    <3>1. OptionsError(options) = "none" /\ b.error = "none" /\ Valid(i)
      BY <2>2, BuiltIsValid
    <3>2. /\ IsOptions(options) /\ TurnOK(b, sections, Len(sections), options)
          /\ i.segments = b.segments
      BY <2>2, <3>1, LaidOutImage DEF HasBuilt
    <3>3. \A m \in 1..Len(sections) : /\ IsPowerOfTwo(Sections[sections[m]].alignment)
                                      /\ Sections[sections[m]].alignment \in Nat
      <4>1. sections \in Seq(DOMAIN Sections)
        BY DEF BuilderInv
      <4>2. \A m \in 1..Len(sections) : sections[m] \in DOMAIN Sections
        BY <4>1
      <4> QED
        BY <4>2, BuilderAssumption DEF ListsOK, IsSection
    <3>4. Len(sections) \in Nat
      BY DEF BuilderInv
    <3> HIDE DEF i, b
    <3>5. /\ AreSegments(i.segments) /\ Separate(i.segments)
          /\ Len(i.segments) > 0 => PlacementsError(i, 0) = "none"
      BY <3>1, <3>2, <3>3, <3>4, BuiltIsPlaced
    <3>6. CASE i.segments = <<>>
      <4>1. Plan(i, 0, FALSE) = EmptyPlan(0)
        BY <3>1, <3>6 DEF Plan
      <4>2. EmptyPlan(0).error = "none"
        BY DEF EmptyPlan, Refused
      <4> QED
        BY <4>1, <4>2 DEF i
    <3>7. CASE i.segments # <<>>
      <4>1. Len(i.segments) > 0
        <5>1. IsVector(i.segments)
          BY <3>5 DEF AreSegments
        <5>2. CASE Len(i.segments) = 0
          <6>1. i.segments \in Seq({})
            BY <5>1, <5>2, VectorIsSeq
          <6> QED
            BY <3>7, <5>2, <6>1
        <5> QED
          BY <5>1, <5>2 DEF IsVector
      <4>2. ~NeighboursOverlap(PlacedRegions(i, 0))
        BY <3>5, <4>1, NeighboursDecide
      <4>3. Plan(i, 0, FALSE).error \in {"none", "resource_limit"}
        BY <3>1, <3>5, <3>7, <4>1, <4>2, PlanOutcome
      <4> QED
        BY <4>3 DEF i
    <3> QED
      BY <3>6, <3>7
  <2> QED
    BY <2>1, <2>2 DEF BuiltImagesCanBePlanned, Holds
<1> QED
  BY <1>1, CallsInvariant, PTL
===============================================================================
