------------------------- MODULE MemorySnapshotProofs -------------------------
(***************************************************************************)
(* What MemorySnapshotCodec promises, for every memory, every snapshot and *)
(* every file: a restore leaves a sound memory, all of it or nothing, and  *)
(* what was captured comes back.                                           *)
(***************************************************************************)
EXTENDS MemorySnapshot, MemoryProofs, SequenceTheorems

USE SnapshotAssumption

-----------------------------------------------------------------------------
(* The order of the regions in a snapshot.                                 *)

Rank(rs, b) == Cardinality({c \in DOMAIN rs : c < b})

\* The regions of a memory are finitely many, and a region comes after more
\* regions than any region before it does.
LEMMA RanksGrow ==
    ASSUME NEW rs, IsRegions(rs)
    PROVE  /\ IsFiniteSet(DOMAIN rs)
           /\ \A b \in DOMAIN rs : Rank(rs, b) \in 0..(Cardinality(DOMAIN rs) - 1)
           /\ \A b, c \in DOMAIN rs : b < c => Rank(rs, b) < Rank(rs, c)
<1> DEFINE S == DOMAIN rs
           below(b) == {c \in S : c < b}
<1>1. S \subseteq Word /\ MaxWord \in Nat
  BY WordAssumption DEF IsRegions
<1>2. IsFiniteSet(S)
  <2>1. IsFiniteSet(Word)
    BY <1>1, FS_Interval DEF Word
  <2> QED
    BY <1>1, <2>1, FS_Subset
<1>3. Cardinality(S) \in Nat
  BY <1>2, FS_CardinalityType
<1>4. ASSUME NEW b \in S
      PROVE  /\ below(b) \subseteq S
             /\ IsFiniteSet(below(b))
             /\ Cardinality(below(b)) \in Nat
             /\ b \notin below(b)
  <2>1. below(b) \subseteq S /\ b \notin below(b)
    BY <1>1 DEF Word
  <2>2. IsFiniteSet(below(b))
    BY <1>2, <2>1, FS_Subset
  <2> QED
    BY <2>1, <2>2, FS_CardinalityType
<1>5. ASSUME NEW T, IsFiniteSet(T), NEW U, U \subseteq T, NEW x \in T, x \notin U
      PROVE  Cardinality(U) < Cardinality(T)
  <2>1. /\ Cardinality(U) <= Cardinality(T)
        /\ Cardinality(T) = Cardinality(U) => T = U
        /\ IsFiniteSet(U)
    BY <1>5, FS_Subset
  <2>2. Cardinality(U) \in Nat /\ Cardinality(T) \in Nat
    BY <1>5, <2>1, FS_CardinalityType
  <2> QED
    BY <1>5, <2>1, <2>2
<1>6. ASSUME NEW b \in S PROVE Cardinality(below(b)) \in 0..(Cardinality(S) - 1)
  <2>1. Cardinality(below(b)) < Cardinality(S)
    BY <1>2, <1>4, <1>5
  <2> QED
    BY <1>3, <1>4, <2>1
<1>7. ASSUME NEW b \in S, NEW c \in S, b < c
      PROVE  Cardinality(below(b)) < Cardinality(below(c))
  <2>1. below(b) \subseteq below(c) /\ b \in below(c)
    BY <1>1, <1>7 DEF Word
  <2> QED
    BY <1>4, <1>5, <2>1
<1> QED
  BY <1>2, <1>6, <1>7 DEF Rank

\* Capture walks the map from its first region to its last: it meets every
\* region once.
LEMMA BasesInOrder ==
    ASSUME NEW rs, IsRegions(rs)
    PROVE  LET n == Cardinality(DOMAIN rs)
           IN  /\ n \in Nat
               /\ \A k \in 1..n : /\ NthBase(rs, k) \in DOMAIN rs
                                  /\ Rank(rs, NthBase(rs, k)) = k - 1
               /\ \A b \in DOMAIN rs : \E k \in 1..n : b = NthBase(rs, k)
<1> DEFINE S == DOMAIN rs
           n == Cardinality(S)
           T == 0..(n - 1)
           rank == [b \in S |-> Rank(rs, b)]
<1>1. IsFiniteSet(S) /\ n \in Nat
  BY RanksGrow, FS_CardinalityType
<1>2. IsFiniteSet(T) /\ Cardinality(T) = n
  <2> HIDE DEF n
  <2>1. 0 \in Int /\ n - 1 \in Int
    BY <1>1
  <2>2. IsFiniteSet(T) /\ Cardinality(T) = IF 0 > n - 1 THEN 0 ELSE (n - 1) - 0 + 1
    BY <2>1, FS_Interval
  <2> QED
    BY <1>1, <2>2
<1>3. \A b \in S : rank[b] = Rank(rs, b) /\ rank[b] \in T
  BY RanksGrow
<1>4. \A b, c \in S : rank[b] = rank[c] => b = c
  <2> TAKE b, c \in S
  <2> HAVE rank[b] = rank[c]
  <2>1. b \in Nat /\ c \in Nat
    BY WordAssumption DEF IsRegions, Word
  <2>2. ~(b < c) /\ ~(c < b)
    <3>1. Rank(rs, b) = Rank(rs, c) /\ Rank(rs, b) \in Int
      BY <1>3
    <3> QED
      BY <1>1, <3>1, RanksGrow
  <2> QED
    BY <2>1, <2>2
<1>5. rank \in [S -> T]
  BY <1>3
<1> HIDE DEF rank, T
<1>6. rank \in Injection(S, T)
  BY <1>4, <1>5 DEF Injection, IsInjective
<1>7. rank \in Surjection(S, T)
  BY <1>1, <1>2, <1>6, FS_Injection
<1>8. \A i \in T : \E b \in S : rank[b] = i
  BY <1>7 DEF Surjection
<1>9. ASSUME NEW k \in 1..n
      PROVE  NthBase(rs, k) \in S /\ Rank(rs, NthBase(rs, k)) = k - 1
  <2>1. k - 1 \in T
    BY <1>1 DEF T
  <2>2. \E b \in S : Rank(rs, b) = k - 1
    BY <1>3, <1>8, <2>1
  <2> QED
    BY <2>2 DEF NthBase, Rank
<1>10. ASSUME NEW b \in S PROVE \E k \in 1..n : b = NthBase(rs, k)
  <2> DEFINE k == rank[b] + 1
  <2>1. k \in 1..n /\ k - 1 = rank[b]
    BY <1>1, <1>3 DEF T
  <2> HIDE DEF k
  <2>2. rank[NthBase(rs, k)] = rank[b] /\ NthBase(rs, k) \in S
    BY <1>3, <1>9, <2>1
  <2> QED
    BY <1>4, <2>1, <2>2
<1> QED
  BY <1>1, <1>9, <1>10

-----------------------------------------------------------------------------
(* The bytes of a region, and where regions end in a file.                 *)

\* The bytes of a snapshot's region are a buffer of ByteCount bytes.
LEMMA BytesOfRegion ==
    ASSUME NEW source, NEW n \in Word, source.bytes \in Buffer(n)
    PROVE  ByteCount(source) = n
<1>1. n \in Nat /\ 0 \in Int /\ n - 1 \in Int
  BY WordAssumption DEF Word
<1>2. DOMAIN source.bytes = 0..(n - 1)
  BY DEF Buffer
<1>3. Cardinality(0..(n - 1)) = n
  <2>1. Cardinality(0..(n - 1)) = IF 0 > n - 1 THEN 0 ELSE (n - 1) - 0 + 1
    BY <1>1, FS_Interval
  <2> QED
    BY <1>1, <2>1
<1> QED
  BY <1>2, <1>3 DEF ByteCount

\* f is the running total of the first N sizes g; sizes is the first n of them.
IsRunning(f, g, N) ==
    f[0] = 0 /\ \A k \in 1..N : f[k] = f[k - 1] + g[k] /\ f[k] \in Nat
IsFront(sizes, g, n) == sizes = [i \in 1..n |-> g[i]]

\* A sum over the first entries of a list is the running total.
LEMMA TotalIsRunning ==
    ASSUME NEW N \in Nat, NEW g, NEW f, IsRunning(f, g, N),
           NEW n \in 0..N, NEW sizes, IsFront(sizes, g, n)
    PROVE  Total(sizes) = f[n]
<1> USE DEF IsRunning, IsFront
<1> DEFINE Body(h) == [k \in 0..Len(sizes) |->
                         IF k = 0 THEN 0 ELSE h[k - 1] + sizes[k]]
           sum == CHOOSE h : h = Body(h)
           part == [k \in 0..n |-> f[k]]
<1>1. n \in Nat /\ Len(sizes) = n /\ \A k \in 1..n : sizes[k] = g[k]
  OBVIOUS
<1>2. \A k \in 0..n : part[k] = f[k]
  OBVIOUS
<1>3. part = Body(part)
  <2>1. \A k \in 0..n : f[k] = IF k = 0 THEN 0 ELSE part[k - 1] + sizes[k]
    <3> TAKE k \in 0..n
    <3>1. CASE k = 0
      BY <3>1
    <3>2. CASE k # 0
      <4>1. k \in 1..n /\ k \in 1..N /\ k - 1 \in 0..n
        BY <3>2
      <4> HIDE DEF part
      <4> QED
        BY <1>1, <1>2, <3>2, <4>1
    <3> QED
      BY <3>1, <3>2
  <2> QED
    BY <1>1, <2>1
<1>4. sum = Body(sum)
  <2> HIDE DEF Body
  <2> QED
    BY <1>3
<1>5. Total(sizes) = sum[n]
  <2>1. Total(sizes) = sum[Len(sizes)]
    BY DEF Total
  <2> QED
    BY <1>1, <2>1
<1>6. \A k \in 0..n : sum[k] = IF k = 0 THEN 0 ELSE sum[k - 1] + sizes[k]
  <2> HIDE DEF sum
  <2> QED
    BY <1>1, <1>4
<1> DEFINE S == {k \in Nat : k <= n => sum[k] = f[k]}
<1> HIDE DEF sum
<1>7. 0 \in S
  <2>1. 0 \in 0..n
    BY <1>1
  <2>2. sum[0] = 0 /\ f[0] = 0
    BY <1>6, <2>1
  <2> QED
    BY <2>2
<1>8. ASSUME NEW k \in Nat, k \in S PROVE k + 1 \in S
  <2>1. CASE k + 1 <= n
    <3>1. /\ k + 1 \in 0..n /\ k + 1 \in 1..n /\ k + 1 \in 1..N
          /\ (k + 1) - 1 = k /\ k + 1 # 0 /\ sum[k] = f[k]
      BY <1>8, <2>1
    <3>2. sum[k + 1] = sum[k] + sizes[k + 1]
      BY <1>6, <3>1
    <3>3. f[k + 1] = f[k] + g[k + 1]
      BY <3>1
    <3> QED
      BY <1>1, <3>1, <3>2, <3>3
  <2>2. CASE ~(k + 1 <= n)
    BY <2>2
  <2> QED
    BY <2>1, <2>2
<1>9. Nat \subseteq S
  <2> HIDE DEF S
  <2> QED
    BY <1>7, <1>8, SetInduction
<1>10. sum[n] = f[n]
  BY <1>1, <1>9
<1> QED
  BY <1>5, <1>10

\* No region of a list ends beyond the last one (encode).
LEMMA RegionsEndInOrder ==
    ASSUME NEW list, IsRegionList(list), NEW n \in 0..Len(list)
    PROVE  /\ RegionEnd(list, n) \in Nat
           /\ RegionEnd(list, n) >= 20
           /\ RegionEnd(list, n) <= RegionEnd(list, Len(list))
<1> DEFINE N == Len(list)
           g == [k \in 1..N |-> 33 + ByteCount(list[k])]
<1>1. N \in Nat
  BY DEF IsRegionList
<1>2. \A k \in 1..N : g[k] \in Nat
  <2> TAKE k \in 1..N
  <2>1. PICK m \in Word : list[k].bytes \in Buffer(m)
    BY DEF IsRegionList, IsSnapshotRegion
  <2>2. ByteCount(list[k]) = m /\ m \in Nat
    BY <2>1, BytesOfRegion, WordAssumption DEF Word
  <2> QED
    BY <2>2
<1>3. PICK f : f = [k \in 0..N |-> IF k = 0 THEN 0 ELSE f[k - 1] + g[k]]
  <2> HIDE DEF g, N
  <2> QED
    BY <1>1, <1>2, RunningTotals
<1>4. f[0] = 0 /\ \A k \in 1..N : f[k] = f[k - 1] + g[k]
  <2> HIDE DEF g, N
  <2> QED
    BY <1>1, <1>3
<1>5. \A k \in 0..N : RegionEnd(list, k) = 20 + Total([i \in 1..k |-> g[i]])
  <2> TAKE k \in 0..N
  <2>1. \A i \in 1..k : g[i] = 33 + ByteCount(list[i])
    BY <1>1
  <2>2. [i \in 1..k |-> g[i]] = [i \in 1..k |-> 33 + ByteCount(list[i])]
    <3> HIDE DEF g
    <3> QED
      BY <2>1
  <2> HIDE DEF g
  <2> QED
    BY <2>2 DEF RegionEnd
<1> HIDE DEF g, N
<1> DEFINE S == {k \in Nat : k <= N => f[k] \in Nat}
<1>6. Nat \subseteq S
  <2>1. 0 \in S
    BY <1>4
  <2>2. ASSUME NEW k \in Nat, k \in S PROVE k + 1 \in S
    <3>1. CASE k + 1 <= N
      <4>1. k + 1 \in 1..N /\ (k + 1) - 1 = k /\ f[k] \in Nat
        BY <1>1, <2>2, <3>1
      <4>2. f[k + 1] = f[k] + g[k + 1] /\ g[k + 1] \in Nat
        BY <1>2, <1>4, <4>1
      <4> QED
        BY <4>1, <4>2
    <3>2. CASE ~(k + 1 <= N)
      BY <3>2
    <3> QED
      BY <3>1, <3>2
  <2> HIDE DEF S
  <2> QED
    BY <2>1, <2>2, SetInduction
<1>7. \A k \in 0..N : f[k] \in Nat
  BY <1>1, <1>6
<1>8. \A k \in 0..N : RegionEnd(list, k) = 20 + f[k]
  <2>1. \A k \in 1..N : f[k] \in Nat
    BY <1>1, <1>7
  <2>2. ASSUME NEW k \in 0..N PROVE Total([i \in 1..k |-> g[i]]) = f[k]
    <3> DEFINE sizes == [i \in 1..k |-> g[i]]
    <3>1. IsFront(sizes, g, k) /\ IsRunning(f, g, N)
      BY <1>4, <2>1 DEF IsFront, IsRunning
    <3> HIDE DEF sizes
    <3>2. Total(sizes) = f[k]
      BY <1>1, <3>1, TotalIsRunning
    <3> QED
      BY <3>2 DEF sizes
  <2> QED
    BY <1>5, <2>2
<1> DEFINE R == {k \in Nat : n + k <= N => f[n] <= f[n + k]}
<1>9. n \in Nat /\ n \in 0..N /\ n <= N
  BY <1>1 DEF N
<1>10. Nat \subseteq R
  <2>1. 0 \in R
    BY <1>7, <1>9
  <2>2. ASSUME NEW k \in Nat, k \in R PROVE k + 1 \in R
    <3>1. CASE n + (k + 1) <= N
      <4>1. /\ n + (k + 1) \in 1..N /\ (n + (k + 1)) - 1 = n + k
            /\ n + k \in 0..N /\ f[n] <= f[n + k]
        BY <1>1, <1>9, <2>2, <3>1
      <4>2. f[n + (k + 1)] = f[n + k] + g[n + (k + 1)]
            /\ g[n + (k + 1)] \in Nat
        BY <1>2, <1>4, <4>1
      <4>3. f[n] \in Nat /\ f[n + k] \in Nat
        BY <1>7, <1>9, <4>1
      <4> QED
        BY <4>1, <4>2, <4>3
    <3>2. CASE ~(n + (k + 1) <= N)
      BY <3>2
    <3> QED
      BY <3>1, <3>2
  <2> HIDE DEF R
  <2> QED
    BY <2>1, <2>2, SetInduction
<1>11. f[n] <= f[N]
  <2>1. N - n \in Nat /\ n + (N - n) = N
    BY <1>1, <1>9
  <2>2. N - n \in R
    BY <1>10, <2>1
  <2> QED
    BY <2>1, <2>2
<1>12. N \in 0..N
  BY <1>1
<1> QED
  BY <1>7, <1>8, <1>9, <1>11, <1>12 DEF N

-----------------------------------------------------------------------------
(* One turn of the loop of restore.                                        *)

\* What the checks of a turn establish about the region they accept.
LEMMA AcceptedRegion ==
    ASSUME NEW source, RegionError(source) = "none"
    PROVE  /\ source.size # 0
           /\ ByteCount(source) \in {0, source.size}
           /\ MapError(staged, total, CodecLimit, source.base, source.size)
                 = "none"
BY DEF RegionError

\* The region a turn adds to the staged memory.
StagedRegion(source) ==
    IF ByteCount(source) = 0 THEN NewRegion(source.size, source.perms)
    ELSE [size |-> source.size, perms |-> source.perms, bytes |-> source.bytes]

\* A turn adds the region, with its bytes if it has any, and touches no other;
\* the write finds the region that map has just made.
LEMMA StageAddsRegion ==
    ASSUME Sound(staged, total, CodecLimit),
           NEW source, IsSnapshotRegion(source), RegionError(source) = "none"
    PROVE  /\ Sound(Stage(source), total + source.size, CodecLimit)
           /\ DOMAIN Stage(source) = DOMAIN staged \cup {source.base}
           /\ Stage(source)[source.base] = StagedRegion(source)
           /\ \A b \in DOMAIN staged :
                 b # source.base => Stage(source)[b] = staged[b]
<1> DEFINE base == source.base
           size == source.size
           perms == source.perms
           data == source.bytes
           old == Mapped(staged, base, size, perms)
           new == Written(old, base, data, size)
<1>1. /\ size # 0 /\ ByteCount(source) \in {0, size}
      /\ MapError(staged, total, CodecLimit, base, size) = "none"
      /\ base \in Word /\ size \in Word /\ perms \in SUBSET Permission
  BY AcceptedRegion DEF IsSnapshotRegion
<1>2. Sound(old, total + size, CodecLimit)
  <2> HIDE DEF base, size, perms
  <2> QED
    BY <1>1, MapKeepsSound
<1>3. /\ DOMAIN old = DOMAIN staged \cup {base}
      /\ old[base] = NewRegion(size, perms)
      /\ \A b \in DOMAIN staged : b # base => old[b] = staged[b]
  BY DEF Mapped
<1>4. CASE ByteCount(source) = 0
  <2>1. Stage(source) = old
    BY <1>4 DEF Stage
  <2> HIDE DEF old
  <2> QED
    BY <1>2, <1>3, <1>4, <2>1 DEF StagedRegion
<1>5. CASE ByteCount(source) # 0
  <2>1. Stage(source) = new
    BY <1>5 DEF Stage
  <2>2. PICK n \in Word : data \in Buffer(n)
    BY DEF IsSnapshotRegion
  <2>3. data \in Buffer(size)
    <3>1. ByteCount(source) = n
      BY <2>2, BytesOfRegion
    <3> QED
      BY <1>1, <1>5, <2>2, <3>1
  <2>4. StagedRegion(source) = [size |-> size, perms |-> perms, bytes |-> data]
    BY <1>5 DEF StagedRegion
  <2> HIDE DEF old, base, size, perms, data
  <2>5. IsRegions(old) /\ base \in DOMAIN old
    BY <1>2, <1>3 DEF Sound
  <2>6. old[base].size = size /\ old[base].perms = perms
    BY <1>3 DEF NewRegion
  <2>7. base \in Target(old, base, size)
    <3>1. base \in Nat /\ size \in Nat /\ size > 0
      BY <1>1, WordAssumption DEF Word
    <3>2. IsAt(old, base, base)
      BY <2>5, <3>1 DEF IsAt
    <3>3. Contains(old, base, base, 1) /\ Contains(old, base, base, size)
      BY <2>6, <3>1 DEF Contains, RangeInside
    <3> QED
      BY <2>5, <3>2, <3>3 DEF Target, RegionAt
  <2>8. \A c \in Target(old, base, size) : c = base
    BY <1>1, <2>5, <2>7, TargetIsOne
  <2>9. /\ IsRegions(new) /\ SameShape(old, new)
        /\ \A b \in DOMAIN old : new[b].perms = old[b].perms
    BY <1>1, <2>3, <2>5, WriteKeepsRegions
  <2>10. Sound(new, total + size, CodecLimit)
    BY <1>2, <2>9, ShapeKeepsSound
  <2>11. \A b \in DOMAIN old : b # base => new[b] = old[b]
    BY <2>8 DEF Written
  <2>12. \A i \in 0..(size - 1) : new[base].bytes[i] = data[i]
    <3> TAKE i \in 0..(size - 1)
    <3>1. i \in Nat /\ size \in Nat /\ base \in Nat /\ i < size
      BY <1>1, WordAssumption DEF Word
    <3>2. base - base = 0 /\ 0 <= i /\ i < 0 + size /\ i - 0 = i
      BY <3>1
    <3>3. Written(old, base, data, size)[base].bytes[i] =
             IF /\ base \in Target(old, base, size)
                /\ base - base <= i
                /\ i < (base - base) + size
             THEN data[i - (base - base)]
             ELSE old[base].bytes[i]
      BY <2>5, <2>6, WrittenByte
    <3> QED
      BY <2>7, <3>2, <3>3
  <2> HIDE DEF new
  <2>13. IsRegion(new[base]) /\ new[base].size = size /\ new[base].perms = perms
    BY <2>5, <2>6, <2>9 DEF IsRegions, SameShape
  <2>14. new[base].bytes = data
    <3> DEFINE bytes == new[base].bytes
               D == 0..(size - 1)
    <3>1. bytes \in [D -> Byte] /\ data \in [D -> Byte]
      BY <2>3, <2>13 DEF IsRegion, Buffer
    <3>2. \A i \in D : bytes[i] = data[i]
      BY <2>12
    <3> HIDE DEF bytes, D
    <3>3. bytes = data
      BY <3>1, <3>2
    <3> QED
      BY <3>3 DEF bytes
  <2>15. new[base] = [size |-> size, perms |-> perms, bytes |-> data]
    BY <2>13, <2>14 DEF IsRegion
  <2>16. DOMAIN new = DOMAIN staged \cup {base}
    BY <1>3, <2>9 DEF SameShape
  <2>17. \A b \in DOMAIN staged : b # base => new[b] = staged[b]
    BY <1>3, <2>11
  <2> QED
    BY <2>1, <2>4, <2>10, <2>15, <2>16, <2>17 DEF base, size, perms, data
<1> QED
  BY <1>4, <1>5

-----------------------------------------------------------------------------
(* The inductive invariant.  The staged memory is sound at every turn of   *)
(* the loop of restore, because it is built with map; for a snapshot that  *)
(* was captured it is the captured memory up to the region the loop is at. *)

\* What restoring the capture t gives.
Image(t) == [b \in DOMAIN t[1] |->
                IF t[3] THEN t[1][b]
                ELSE NewRegion(t[1][b].size, t[1][b].perms)]

\* The first n bases of the captured memory.
FirstBases(t, n) == {NthBase(t[1], k) : k \in 1..n}

\* st is the memory a loop over the first n captured regions has built.
IsPart(st, t, n) ==
    /\ DOMAIN st = FirstBases(t, n)
    /\ \A b \in DOMAIN st : st[b] = Image(t)[b]

\* list is what capture made of the memory rs.
IsListing(list, rs, include_bytes) ==
    /\ Len(list) = Cardinality(DOMAIN rs)
    /\ \A n \in 1..Len(list) :
          list[n] = SnapshotRegion(rs, NthBase(rs, n), include_bytes)

IsCapture(t, s) ==
    /\ Sound(t[1], t[2], CodecLimit)
    /\ Cardinality(DOMAIN t[1]) <= MaxSegments
    /\ t[3] \in BOOLEAN
    /\ s.version = 1
    /\ s.mapped_bytes = t[2]
    /\ IsListing(s.regions, t[1], t[3])

MemoryOK ==
    /\ limit \in Word
    /\ Sound(regions, mapped_bytes, limit)

SnapshotOK ==
    /\ IsSnapshot(snapshot)
    /\ \A t \in taken : IsCapture(t, snapshot)

LocalsOK ==
    /\ pc \in {"idle", "restoring"}
    /\ Sound(staged, total, CodecLimit)
    /\ index \in 1..(Len(snapshot.regions) + 1)
    /\ index = 1 => staged = NoRegions /\ total = 0
    /\ pc = "idle" => index = 1
    /\ pc = "restoring" => memory = before
    /\ pc = "restoring" =>
          \A t \in taken : IsPart(staged, t, index - 1)

SnapshotInv ==
    /\ MemoryOK
    /\ SnapshotOK
    /\ LocalsOK
    /\ RestoreIsAtomic
    /\ RestoresTheCapture
    /\ CaptureCanBeRestored

-----------------------------------------------------------------------------
(* Snapshots that were captured here.                                      *)

\* The n-th region of a captured snapshot is the n-th region of the memory.
LEMMA ListedRegion ==
    ASSUME NEW rs, IsRegions(rs), NEW include \in BOOLEAN,
           NEW list, IsListing(list, rs, include), NEW n \in 1..Len(list)
    PROVE  LET b == NthBase(rs, n)
               source == list[n]
           IN  /\ b \in DOMAIN rs
               /\ source.base = b
               /\ source.size = rs[b].size
               /\ source.perms = rs[b].perms
               /\ source.checksum = Crc(rs[b].bytes)
               /\ source.bytes = IF include THEN rs[b].bytes ELSE NoBytes
               /\ IsSnapshotRegion(source)
               /\ rs[b].size \in Word \ {0}
               /\ ByteCount(source) = IF include THEN rs[b].size ELSE 0
<1> DEFINE b == NthBase(rs, n)
           source == list[n]
<1>1. b \in DOMAIN rs
  BY BasesInOrder DEF IsListing
<1>2. source = SnapshotRegion(rs, b, include)
  BY DEF IsListing
<1> HIDE DEF b, source
<1>3. /\ source.base = b /\ source.size = rs[b].size
      /\ source.perms = rs[b].perms
      /\ source.checksum = Crc(rs[b].bytes)
      /\ source.bytes = IF include THEN rs[b].bytes ELSE NoBytes
  BY <1>2 DEF SnapshotRegion
<1>4. IsRegion(rs[b]) /\ b \in Word
  BY <1>1 DEF IsRegions
<1>5. /\ rs[b].size \in Word \ {0} /\ rs[b].perms \in SUBSET Permission
      /\ rs[b].bytes \in Buffer(rs[b].size)
  BY <1>4 DEF IsRegion
<1>6. 0 \in Word /\ NoBytes \in Buffer(0)
  BY WordAssumption DEF Word, NoBytes, Buffer
<1>7. CASE include
  <2>1. source.bytes \in Buffer(rs[b].size)
    BY <1>3, <1>5, <1>7
  <2>2. ByteCount(source) = rs[b].size
    BY <1>5, <2>1, BytesOfRegion
  <2>3. IsSnapshotRegion(source)
    BY <1>3, <1>4, <1>5, <2>1 DEF IsSnapshotRegion
  <2> QED
    BY <1>1, <1>3, <1>5, <1>7, <2>2, <2>3 DEF b, source
<1>8. CASE ~include
  <2>1. source.bytes \in Buffer(0)
    BY <1>3, <1>6, <1>8
  <2>2. ByteCount(source) = 0
    BY <1>6, <2>1, BytesOfRegion
  <2>3. IsSnapshotRegion(source)
    BY <1>3, <1>4, <1>5, <1>6, <2>1 DEF IsSnapshotRegion
  <2> QED
    BY <1>1, <1>3, <1>5, <1>8, <2>2, <2>3 DEF b, source
<1> QED
  BY <1>7, <1>8

\* What is restored has the layout of what was captured.
LEMMA ImageShape ==
    ASSUME NEW t, IsRegions(t[1])
    PROVE  /\ SameShape(t[1], Image(t))
           /\ \A b \in DOMAIN t[1] :
                 Image(t)[b] = IF t[3] THEN t[1][b]
                               ELSE NewRegion(t[1][b].size, t[1][b].perms)
<1>1. /\ DOMAIN Image(t) = DOMAIN t[1]
      /\ \A b \in DOMAIN t[1] :
            Image(t)[b] = IF t[3] THEN t[1][b]
                          ELSE NewRegion(t[1][b].size, t[1][b].perms)
  BY DEF Image
<1>2. \A b \in DOMAIN t[1] : Image(t)[b].size = t[1][b].size
  <2>1. \A size, perms : NewRegion(size, perms).size = size
    BY DEF NewRegion
  <2> QED
    BY <1>1, <2>1
<1> QED
  BY <1>1, <1>2 DEF SameShape

\* The next captured region is new, and there is room for it: the captured
\* memory held it beside the ones that were staged.
LEMMA NextFits ==
    ASSUME NEW t, Sound(t[1], t[2], CodecLimit),
           NEW n \in 1..Cardinality(DOMAIN t[1]),
           NEW st, NEW tot, Sound(st, tot, CodecLimit), IsPart(st, t, n - 1)
    PROVE  LET b == NthBase(t[1], n)
               size == t[1][b].size
           IN  /\ b \notin DOMAIN st
               /\ AddFits(tot, size) /\ tot + size <= CodecLimit
               /\ MapError(st, tot, CodecLimit, b, size) = "none"
<1> DEFINE rs == t[1]
           b == NthBase(rs, n)
           size == rs[b].size
           cells == Cells(rs, b)
           N == Cardinality(DOMAIN rs)
<1>1. /\ IsRegions(rs) /\ Disjoint(rs) /\ t[2] = Cardinality(MappedAddresses(rs))
      /\ t[2] <= CodecLimit /\ MaxWord \in Nat /\ CodecLimit \in Word
      /\ tot \in Word /\ tot = Cardinality(MappedAddresses(st))
      /\ IsRegions(st) /\ Disjoint(st) /\ t[2] \in Word
  BY WordAssumption DEF Sound
<1>2. /\ N \in Nat
      /\ \A k \in 1..N : NthBase(rs, k) \in DOMAIN rs
                         /\ Rank(rs, NthBase(rs, k)) = k - 1
  BY <1>1, BasesInOrder
<1>3. DOMAIN st \subseteq DOMAIN rs /\ b \notin DOMAIN st /\ b \in DOMAIN rs
  <2>1. ASSUME NEW c \in DOMAIN st PROVE c \in DOMAIN rs /\ c # b
    <3>1. PICK k \in 1..(n - 1) : c = NthBase(rs, k)
      BY DEF IsPart, FirstBases
    <3>2. k \in 1..N /\ k - 1 # n - 1
      BY <1>2
    <3> QED
      BY <1>2, <3>1, <3>2
  <2> QED
    BY <1>2, <2>1
<1>4. ASSUME NEW c \in DOMAIN st
      PROVE  /\ c \in DOMAIN rs /\ c # b /\ st[c].size = rs[c].size
             /\ Cells(st, c) = Cells(rs, c)
             /\ Cells(rs, c) \cap cells = {}
             /\ c \in Word /\ rs[c].size \in Word /\ rs[c].size # 0
             /\ AddFits(c, rs[c].size)
  <2>1. st[c].size = rs[c].size
    BY <1>1, <1>3, ImageShape DEF IsPart, SameShape
  <2>2. Cells(st, c) = Cells(rs, c)
    BY <2>1 DEF Cells
  <2>3. Cells(rs, c) \cap cells = {} /\ AddFits(c, rs[c].size)
    BY <1>1, <1>3 DEF Disjoint
  <2>4. c \in Word /\ rs[c].size \in Word /\ rs[c].size # 0
    BY <1>1, <1>3 DEF IsRegions, IsRegion
  <2> QED
    BY <1>3, <2>1, <2>2, <2>3, <2>4
<1>5. /\ b \in Word /\ size \in Word /\ size # 0 /\ AddFits(b, size)
      /\ cells = b..(b + size - 1)
  BY <1>1, <1>3 DEF IsRegions, IsRegion, Disjoint, Cells
<1> HIDE DEF b
<1>6. IsFiniteSet(cells) /\ Cardinality(cells) = size
  <2> HIDE DEF size, cells
  <2> QED
    BY <1>5, SpanSize
<1> DEFINE all == MappedAddresses(rs)
           part == MappedAddresses(st)
<1>7. IsFiniteSet(all) /\ IsFiniteSet(part)
  BY <1>1, MappedIsFinite
<1>8. part \cup cells \subseteq all /\ part \cap cells = {}
  <2> HIDE DEF size
  <2>1. cells \subseteq all
    BY <1>3 DEF MappedAddresses
  <2> HIDE DEF cells
  <2>2. part \subseteq all
    BY <1>4 DEF MappedAddresses
  <2>3. part \cap cells = {}
    BY <1>4 DEF MappedAddresses
  <2> QED
    BY <2>1, <2>2, <2>3
<1> HIDE DEF all, part, cells, size
<1>9. tot + size <= t[2]
  <2>1. Cardinality(part \cup cells) = Cardinality(part) + Cardinality(cells)
    BY <1>6, <1>7, <1>8, AddToAccount
  <2>2. Cardinality(part \cup cells) <= Cardinality(all)
    BY <1>7, <1>8, FS_Subset
  <2> QED
    BY <1>1, <1>6, <2>1, <2>2 DEF all, part
<1>10. AddFits(tot, size) /\ tot + size <= CodecLimit
  BY <1>1, <1>5, <1>9 DEF AddFits, Word
<1>11. ~OverlapsNext(st, b, b + size)
  <2> SUFFICES ASSUME NEW c \in DOMAIN st, c >= b, b + size > c PROVE FALSE
    BY DEF OverlapsNext, IsNext
  <2>1. c \in Cells(rs, c)
    BY <1>1, <1>4 DEF Cells, Word
  <2>2. c \in cells
    BY <1>1, <1>4, <1>5 DEF Word
  <2> QED
    BY <1>4, <2>1, <2>2
<1>12. ~OverlapsPrevious(st, b)
  <2> SUFFICES ASSUME NEW c \in DOMAIN st, c < b,
                      \/ ~AddFits(c, st[c].size)
                      \/ c + st[c].size > b
               PROVE  FALSE
    BY DEF OverlapsPrevious, IsPrevious
  <2>1. c + rs[c].size > b
    BY <1>4
  <2>2. b \in Cells(rs, c)
    <3>1. c \in Nat /\ b \in Nat /\ rs[c].size \in Nat /\ c < b
      BY <1>1, <1>4, <1>5 DEF Word
    <3>2. b \in c..(c + rs[c].size - 1)
      BY <2>1, <3>1
    <3> QED
      BY <3>2 DEF Cells
  <2>3. b \in cells
    BY <1>1, <1>5 DEF Word
  <2> QED
    BY <1>4, <2>2, <2>3
<1>13. MapError(st, tot, CodecLimit, b, size) = "none"
  <2>1. ~(tot + size > CodecLimit)
    BY <1>1, <1>5, <1>10 DEF Word
  <2> QED
    BY <1>5, <1>10, <1>11, <1>12, <2>1 DEF MapError
<1> QED
  BY <1>3, <1>10, <1>13 DEF b, size

\* A list of regions is a sequence.
LEMMA ListIsSequence ==
    ASSUME NEW list, IsRegionList(list), NEW n \in 0..Len(list)
    PROVE  LET front == SubSeq(list, 1, n)
           IN  /\ IsRegionList(front) /\ Len(front) = n
               /\ \A k \in 1..n : front[k] = list[k]
               /\ n = Len(list) => front = list
<1> DEFINE N == Len(list)
           S == {list[k] : k \in 1..N}
           front == SubSeq(list, 1, n)
<1>1. N \in Nat /\ list = [k \in 1..N |-> list[k]] /\ n \in Nat /\ n <= N
  BY DEF IsRegionList
<1>2. list \in Seq(S)
  <2>1. list \in [1..N -> S]
    <3>1. [k \in 1..N |-> list[k]] \in [1..N -> S]
      OBVIOUS
    <3> QED
      BY <1>1, <3>1
  <2> HIDE DEF N, S
  <2> QED
    BY <1>1, <2>1
<1> HIDE DEF S
<1>3. /\ front \in Seq(S) /\ Len(front) = n
      /\ \A k \in 1..n : front[k] = list[k]
  BY <1>1, <1>2
<1> HIDE DEF front
<1>4. front = [k \in 1..n |-> front[k]]
  <2>1. DOMAIN front = 1..n
    BY <1>3
  <2>2. front \in [1..n -> S]
    BY <1>3
  <2> QED
    BY <2>1, <2>2
<1>5. IsRegionList(front)
  <2>1. \A k \in 1..n : IsSnapshotRegion(front[k])
    BY <1>1, <1>3 DEF IsRegionList
  <2> QED
    BY <1>1, <1>3, <1>4, <2>1 DEF IsRegionList
<1>6. n = N => front = list
  BY <1>1, <1>3, <1>4
<1> QED
  BY <1>3, <1>5, <1>6 DEF front

\* What decode accepts is a snapshot.
LEMMA DecodedIsSnapshot ==
    ASSUME NEW file, IsFile(file), DecodeError(file) = "none"
    PROVE  /\ IsSnapshot(Decoded(file))
           /\ file.count \in 0..Len(file.regions)
<1>1. ~ \E n \in 1..file.count :
           IF n > Len(file.regions) THEN TRUE
           ELSE \/ RegionEnd(file.regions, n) > ReadableEnd(file)
                \/ ByteCount(file.regions[n]) > CodecLimit
  BY DEF DecodeError
<1>2. file.count \in Nat /\ Len(file.regions) \in Nat
      /\ IsRegionList(file.regions) /\ file.mapped_bytes \in Word
  BY DEF IsFile, IsRegionList
<1>3. file.count <= Len(file.regions)
  <2>1. CASE file.count = 0
    BY <1>2, <2>1
  <2>2. CASE file.count # 0
    <3>1. file.count \in 1..file.count
      BY <1>2, <2>2
    <3>2. ~(file.count > Len(file.regions))
      BY <1>1, <3>1
    <3> QED
      BY <1>2, <3>2
  <2> QED
    BY <2>1, <2>2
<1>4. file.count \in 0..Len(file.regions)
  BY <1>2, <1>3
<1>5. IsRegionList(SubSeq(file.regions, 1, file.count))
  BY <1>2, <1>4, ListIsSequence
<1>6. /\ Decoded(file).mapped_bytes = file.mapped_bytes
      /\ Decoded(file).regions = SubSeq(file.regions, 1, file.count)
  BY DEF Decoded
<1> QED
  BY <1>2, <1>4, <1>5, <1>6 DEF IsSnapshot

\* A file that encode writes holds the snapshot, and decode finds it there.
LEMMA EncodedIsFile ==
    ASSUME NEW s, IsSnapshot(s)
    PROVE  /\ IsFile(Encoded(s))
           /\ Decoded(Encoded(s)).version = s.version
           /\ Decoded(Encoded(s)).mapped_bytes = s.mapped_bytes
           /\ Decoded(Encoded(s)).regions = s.regions
<1> DEFINE file == Encoded(s)
           N == Len(s.regions)
<1>1. IsRegionList(s.regions) /\ N \in Nat /\ s.mapped_bytes \in Word /\ N \in 0..N
  BY DEF IsSnapshot, IsRegionList
<1>2. RegionEnd(s.regions, N) \in Nat
  BY <1>1, RegionsEndInOrder
<1>3. /\ file.version = s.version /\ file.mapped_bytes = s.mapped_bytes
      /\ file.count = N /\ file.regions = s.regions
      /\ file.size = RegionEnd(s.regions, N) + SealBytes
  BY DEF Encoded
<1>4. SubSeq(s.regions, 1, N) = s.regions
  BY <1>1, ListIsSequence
<1> HIDE DEF file, N
<1>5. IsFile(file)
  BY <1>1, <1>2, <1>3 DEF IsFile, SealBytes
<1>6. /\ Decoded(file).version = s.version
      /\ Decoded(file).mapped_bytes = s.mapped_bytes
      /\ Decoded(file).regions = s.regions
  BY <1>3, <1>4 DEF Decoded
<1> QED
  BY <1>5, <1>6 DEF file

\* The bytes of a captured region are within the limit of the codec.
LEMMA CapturedBytesFit ==
    ASSUME NEW t, NEW s, IsCapture(t, s), NEW n \in 1..Len(s.regions)
    PROVE  /\ ByteCount(s.regions[n]) <= CodecLimit
           /\ s.regions[n].size <= CodecLimit
           /\ ByteCount(s.regions[n]) \in Nat
<1> DEFINE rs == t[1]
           b == NthBase(rs, n)
           cells == Cells(rs, b)
           all == MappedAddresses(rs)
<1>1. /\ IsRegions(rs) /\ Disjoint(rs) /\ t[2] = Cardinality(all)
      /\ t[2] <= CodecLimit /\ t[2] \in Word /\ t[3] \in BOOLEAN
      /\ IsListing(s.regions, rs, t[3])
      /\ MaxWord \in Nat /\ CodecLimit \in Word
  BY WordAssumption DEF IsCapture, Sound
<1>2. /\ b \in DOMAIN rs
      /\ s.regions[n].size = rs[b].size
      /\ rs[b].size \in Word \ {0}
      /\ ByteCount(s.regions[n]) = IF t[3] THEN rs[b].size ELSE 0
  <2> HIDE DEF rs
  <2> QED
    BY <1>1, ListedRegion
<1>3. b \in Word
  BY <1>1, <1>2 DEF IsRegions
<1> HIDE DEF b
<1>4. IsFiniteSet(cells) /\ Cardinality(cells) = rs[b].size
  BY <1>2, <1>3, SpanSize DEF Cells
<1>5. cells \subseteq all
  BY <1>2 DEF MappedAddresses
<1>6. IsFiniteSet(all)
  BY <1>1, MappedIsFinite
<1> HIDE DEF cells, all, rs
<1>7. rs[b].size <= t[2]
  BY <1>1, <1>4, <1>5, <1>6, FS_Subset
<1> QED
  BY <1>1, <1>2, <1>7 DEF Word

\* A captured snapshot can be written, and what was written can be read unless
\* the file as a whole is too large.
LEMMA CapturesSurviveFiles ==
    ASSUME NEW t, NEW s, IsSnapshot(s), IsCapture(t, s)
    PROVE  /\ MetadataError(s) = "none"
           /\ EncodeError(s) = "none"
           /\ DecodeError(Encoded(s)) # "none" =>
                 Encoded(s).size > CodecLimit + MaxFileSize
<1> DEFINE file == Encoded(s)
           N == Len(s.regions)
<1>1. /\ IsRegionList(s.regions) /\ N \in Nat /\ s.mapped_bytes \in Word
      /\ MaxWord \in Nat /\ CodecLimit \in Word /\ N \in 0..N
  BY WordAssumption DEF IsSnapshot, IsRegionList
<1>2. /\ s.version = 1 /\ s.mapped_bytes <= CodecLimit /\ N <= MaxSegments
  BY DEF IsCapture, Sound, IsListing
<1>3. \A n \in 1..N : ~(ByteCount(s.regions[n]) > CodecLimit)
  <2> TAKE n \in 1..N
  <2>1. ByteCount(s.regions[n]) <= CodecLimit /\ ByteCount(s.regions[n]) \in Nat
    BY CapturedBytesFit
  <2> QED
    BY <1>1, <2>1 DEF Word
<1>4. ~(N > MaxSegments) /\ ~(s.mapped_bytes > CodecLimit)
  BY <1>1, <1>2 DEF Word
<1>5. EncodeError(s) = "none" /\ MetadataError(s) = "none"
  BY <1>2, <1>3, <1>4 DEF EncodeError, MetadataError
<1>6. /\ file.version = s.version /\ file.mapped_bytes = s.mapped_bytes
      /\ file.count = N /\ file.regions = s.regions
      /\ file.size = RegionEnd(s.regions, N) + SealBytes
      /\ file.magic = TRUE /\ file.sealed = TRUE
  BY DEF Encoded
<1> HIDE DEF file, N
<1>7. RegionEnd(s.regions, N) \in Nat /\ RegionEnd(s.regions, N) >= 20
  BY <1>1, RegionsEndInOrder DEF N
<1>8. /\ ~(file.size < 24)
      /\ ReadableEnd(file) = RegionEnd(s.regions, N)
  BY <1>6, <1>7 DEF ReadableEnd, SealBytes
<1>9. \A n \in 1..N : ~(RegionEnd(s.regions, n) > ReadableEnd(file))
  <2> TAKE n \in 1..N
  <2>1. n \in 0..Len(s.regions)
    BY <1>1 DEF N
  <2>2. /\ RegionEnd(s.regions, n) <= RegionEnd(s.regions, N)
        /\ RegionEnd(s.regions, n) \in Nat
    BY <1>1, <2>1, RegionsEndInOrder DEF N
  <2> QED
    BY <1>7, <1>8, <2>2
<1>10. \A n \in 1..N : ~(n > Len(s.regions))
  BY <1>1 DEF N
<1>11. ASSUME ~(file.size > CodecLimit + MaxFileSize)
       PROVE  DecodeError(file) = "none"
  BY <1>2, <1>3, <1>4, <1>6, <1>8, <1>9, <1>10, <1>11 DEF DecodeError
<1> QED
  BY <1>5, <1>11 DEF file

-----------------------------------------------------------------------------
(* One lemma per action.                                                   *)

\* A call between restores leaves the locals of restore out of scope.
LEMMA IdleLocals ==
    ASSUME LocalsOK, pc = "idle", UNCHANGED <<pc, staged, total, index>>,
           IsSnapshot(snapshot')
    PROVE  LocalsOK'
<1>1. Len(snapshot'.regions) \in Nat
  BY DEF IsSnapshot, IsRegionList
<1>2. index' = 1 /\ 1 \in 1..(Len(snapshot'.regions) + 1)
  BY <1>1 DEF LocalsOK
<1> QED
  BY <1>2 DEF LocalsOK

\* The fields of an outcome.
LEMMA ReturnedFields ==
    ASSUME NEW call, NEW error
    PROVE  Returned(call, error).call = call /\ Returned(call, error).error = error
BY DEF Returned

\* Construction.
LEMMA SnapshotInit == Init => SnapshotInv
<1> SUFFICES ASSUME Init PROVE SnapshotInv
  OBVIOUS
<1>1. 0 \in Word /\ MaxWord \in Nat
  BY WordAssumption DEF Word
<1>2. Sound(NoRegions, 0, MemoryLimit) /\ Sound(NoRegions, 0, CodecLimit)
  BY EmptyMemory
<1>3. MemoryOK
  BY <1>2 DEF Init, MemoryOK
<1>4. /\ snapshot.mapped_bytes = 0 /\ snapshot.regions = <<>>
      /\ Len(<<>>) = 0 /\ taken = {}
  BY DEF Init, HeaderOnly
<1>5. IsRegionList(<<>>)
  BY DEF IsRegionList
<1>6. SnapshotOK
  BY <1>1, <1>4, <1>5 DEF SnapshotOK, IsSnapshot
<1>7. LocalsOK
  BY <1>2, <1>4 DEF Init, LocalsOK
<1>8. last.call = "none" /\ last.error = "none"
  BY ReturnedFields DEF Init
<1>9. RestoreIsAtomic /\ RestoresTheCapture /\ CaptureCanBeRestored
  BY <1>8 DEF RestoreIsAtomic, RestoresTheCapture, CaptureCanBeRestored, Ended
<1> QED
  BY <1>3, <1>6, <1>7, <1>9 DEF SnapshotInv

\* map, unmap and write between the calls of the codec.
LEMMA UseMemoryKeeps ==
    ASSUME SnapshotInv, UseMemory
    PROVE  SnapshotInv'
<1>1. /\ pc = "idle" /\ last' = Returned("none", "none")
      /\ UNCHANGED <<limit, snapshot, pc, staged, total, index, taken>>
      /\ limit \in Word /\ Sound(regions, mapped_bytes, limit)
      /\ SnapshotOK /\ LocalsOK
  BY DEF UseMemory, SnapshotInv, MemoryOK
<1>2. Sound(regions', mapped_bytes', limit)
  <2>1. ASSUME NEW m \in Mappings,
               MapError(regions, mapped_bytes, limit, m[1], m[2]) = "none",
               regions' = Mapped(regions, m[1], m[2], m[3]),
               mapped_bytes' = mapped_bytes + m[2]
        PROVE  Sound(regions', mapped_bytes', limit)
    <3>1. m[1] \in Word /\ m[2] \in Word /\ m[3] \in SUBSET Permission
      OBVIOUS
    <3> QED
      BY <1>1, <2>1, <3>1, MapKeepsSound
  <2>2. ASSUME NEW base \in DOMAIN regions,
               regions' = Unmapped(regions, base),
               mapped_bytes' = mapped_bytes - regions[base].size
        PROVE  Sound(regions', mapped_bytes', limit)
    BY <1>1, <2>2, UnmapKeepsSound
  <2>3. ASSUME NEW base \in DOMAIN regions, NEW data \in Buffer(1),
               WriteError(regions, base, 1, TRUE) = "none",
               regions' = Written(regions, base, data, 1),
               mapped_bytes' = mapped_bytes
        PROVE  Sound(regions', mapped_bytes', limit)
    <3>1. IsRegions(regions) /\ base \in Word
      BY <1>1 DEF Sound, IsRegions
    <3>2. 1 \in Word
      <4>1. regions[base].size \in Word \ {0}
        BY <3>1 DEF IsRegions, IsRegion
      <4> QED
        BY <4>1, WordAssumption DEF Word
    <3>3. IsRegions(regions') /\ SameShape(regions, regions')
      BY <2>3, <3>1, <3>2, WriteKeepsRegions
    <3> QED
      BY <1>1, <2>3, <3>3, ShapeKeepsSound
  <2> QED
    BY <2>1, <2>2, <2>3 DEF UseMemory
<1>3. MemoryOK'
  BY <1>1, <1>2 DEF MemoryOK
<1>4. SnapshotOK' /\ IsSnapshot(snapshot')
  BY <1>1 DEF SnapshotOK, IsCapture
<1>5. LocalsOK'
  BY <1>1, <1>4, IdleLocals
<1>6. last'.call = "none" /\ last'.error = "none"
  BY <1>1, ReturnedFields
<1>7. RestoreIsAtomic' /\ RestoresTheCapture' /\ CaptureCanBeRestored'
  BY <1>6 DEF RestoreIsAtomic, RestoresTheCapture, CaptureCanBeRestored, Ended
<1> QED
  BY <1>3, <1>4, <1>5, <1>7 DEF SnapshotInv

\* A call on the codec that does not restore: the memory stays as it is.
LEMMA OtherCallKeeps ==
    ASSUME SnapshotInv, pc = "idle",
           UNCHANGED <<regions, mapped_bytes, limit, pc, staged, total, index>>,
           SnapshotOK', last'.call # "restore", CaptureCanBeRestored'
    PROVE  SnapshotInv'
<1>1. MemoryOK' /\ LocalsOK
  BY DEF SnapshotInv, MemoryOK
<1>2. LocalsOK'
  BY <1>1, IdleLocals DEF SnapshotOK
<1>3. RestoreIsAtomic' /\ RestoresTheCapture'
  BY DEF RestoreIsAtomic, RestoresTheCapture, Ended
<1> QED
  BY <1>1, <1>2, <1>3 DEF SnapshotInv

\* A snapshot from elsewhere.
LEMMA ReceiveKeeps ==
    ASSUME SnapshotInv, NEW key \in DOMAIN Foreign, Receive(Foreign[key])
    PROVE  SnapshotInv'
<1>1. /\ pc = "idle" /\ snapshot' = Foreign[key] /\ taken' = {}
      /\ last' = Returned("none", "none")
      /\ UNCHANGED <<regions, mapped_bytes, limit, pc, staged, total, index>>
  BY DEF Receive
<1>2. last'.call = "none" /\ last'.error = "none"
  BY <1>1, ReturnedFields
<1>3. SnapshotOK' /\ CaptureCanBeRestored'
  BY <1>1, <1>2 DEF SnapshotOK, CaptureCanBeRestored
<1> QED
  BY <1>1, <1>2, <1>3, OtherCallKeeps

\* capture lists the regions of a sound memory.
LEMMA CaptureKeeps ==
    ASSUME SnapshotInv, NEW include \in BOOLEAN, Capture(include)
    PROVE  SnapshotInv'
<1>1. /\ pc = "idle" /\ last' = Returned("capture", CaptureError)
      /\ UNCHANGED <<regions, mapped_bytes, limit, pc, staged, total, index>>
      /\ Sound(regions, mapped_bytes, limit)
  BY DEF Capture, SnapshotInv, MemoryOK
<1>2. last'.call = "capture" /\ last'.error = CaptureError
  BY <1>1, ReturnedFields
<1>3. mapped_bytes \in Word /\ IsRegions(regions)
  BY <1>1 DEF Sound
<1>4. CASE /\ CaptureError = "none" /\ snapshot' = WholeSnapshot(include)
           /\ taken' = {<<regions, mapped_bytes, include>>}
  <2> DEFINE N == Cardinality(DOMAIN regions)
             list == [n \in 1..N |->
                        SnapshotRegion(regions, NthBase(regions, n), include)]
             t == <<regions, mapped_bytes, include>>
  <2>1. N \in Nat
    BY <1>3, BasesInOrder
  <2>2. /\ snapshot'.version = 1 /\ snapshot'.mapped_bytes = mapped_bytes
        /\ snapshot'.regions = list
    BY <1>4 DEF WholeSnapshot
  <2>3. Len(list) = N /\ list = [n \in 1..Len(list) |-> list[n]]
    <3> HIDE DEF N
    <3> QED
      BY <2>1
  <2>4. IsListing(list, regions, include)
    BY <2>3 DEF IsListing
  <2> HIDE DEF list, N
  <2>5. \A n \in 1..Len(list) : IsSnapshotRegion(list[n])
    BY <1>3, <2>4, ListedRegion
  <2>6. IsSnapshot(snapshot')
    BY <1>3, <2>1, <2>2, <2>3, <2>5 DEF IsSnapshot, IsRegionList
  <2>7. mapped_bytes <= CodecLimit /\ N <= MaxSegments
    <3>1. ~(mapped_bytes > CodecLimit) /\ ~(N > MaxSegments)
      BY <1>4 DEF CaptureError, N
    <3> QED
      BY <1>3, <2>1, <3>1, WordAssumption DEF Word
  <2>8. t[1] = regions /\ t[2] = mapped_bytes /\ t[3] = include
    OBVIOUS
  <2> HIDE DEF t
  <2>9. IsCapture(t, snapshot')
    BY <1>1, <2>2, <2>4, <2>7, <2>8 DEF IsCapture, Sound, N
  <2>10. SnapshotOK'
    <3>1. \A x \in taken' : x = t
      BY <1>4 DEF t
    <3>2. \A x \in taken' : IsCapture(x, snapshot')
      BY <2>9, <3>1
    <3> QED
      BY <2>6, <3>2 DEF SnapshotOK, IsCapture
  <2>11. CaptureCanBeRestored'
    BY <1>2, <1>4 DEF CaptureCanBeRestored
  <2> QED
    BY <1>1, <1>2, <2>10, <2>11, OtherCallKeeps
<1>5. CASE CaptureError # "none" /\ snapshot' = HeaderOnly /\ taken' = {}
  <2>1. /\ snapshot'.mapped_bytes = mapped_bytes /\ snapshot'.regions = <<>>
        /\ Len(<<>>) = 0
    BY <1>5 DEF HeaderOnly
  <2>2. IsRegionList(<<>>)
    BY DEF IsRegionList
  <2>3. SnapshotOK' /\ CaptureCanBeRestored'
    BY <1>3, <1>5, <2>1, <2>2
       DEF SnapshotOK, IsSnapshot, CaptureCanBeRestored
  <2> QED
    BY <1>1, <1>2, <2>3, OtherCallKeeps
<1> QED
  BY <1>4, <1>5 DEF Capture

\* A snapshot that goes to a file and comes back.
LEMMA WriteAndReadKeeps ==
    ASSUME SnapshotInv, WriteAndRead
    PROVE  SnapshotInv'
<1> DEFINE file == Encoded(snapshot)
<1>1. /\ pc = "idle"
      /\ UNCHANGED <<regions, mapped_bytes, limit, pc, staged, total, index>>
      /\ IsSnapshot(snapshot)
      /\ \A t \in taken : IsCapture(t, snapshot)
  BY DEF WriteAndRead, SnapshotInv, SnapshotOK
<1>2. \A t \in taken :
         /\ EncodeError(snapshot) = "none"
         /\ DecodeError(file) # "none" => file.size > CodecLimit + MaxFileSize
  BY <1>1, CapturesSurviveFiles
<1>3. /\ IsFile(file) /\ Decoded(file).version = snapshot.version
      /\ Decoded(file).mapped_bytes = snapshot.mapped_bytes
      /\ Decoded(file).regions = snapshot.regions
  BY <1>1, EncodedIsFile
<1>4. CASE EncodeError(snapshot) # "none"
           /\ last' = Returned("encode", EncodeError(snapshot))
           /\ UNCHANGED <<snapshot, taken>>
  <2>1. last'.call = "encode"
    BY <1>4, ReturnedFields
  <2>2. taken = {}
    BY <1>2, <1>4
  <2>3. SnapshotOK' /\ CaptureCanBeRestored'
    BY <1>1, <1>4, <2>2 DEF SnapshotOK, CaptureCanBeRestored
  <2> QED
    BY <1>1, <2>1, <2>3, OtherCallKeeps
<1>5. CASE /\ last' = Returned("decode", DecodeError(file))
           /\ DecodeError(file) = "none" /\ snapshot' = Decoded(file)
           /\ taken' = taken
  <2>1. last'.call = "decode" /\ last'.error = "none"
    BY <1>5, ReturnedFields
  <2> HIDE DEF file
  <2>2. IsSnapshot(snapshot')
    BY <1>3, <1>5, DecodedIsSnapshot
  <2>3. \A t \in taken : IsCapture(t, snapshot')
    BY <1>1, <1>3, <1>5 DEF IsCapture
  <2>4. SnapshotOK' /\ CaptureCanBeRestored'
    BY <1>5, <2>1, <2>2, <2>3 DEF SnapshotOK, CaptureCanBeRestored
  <2> QED
    BY <1>1, <2>1, <2>4, OtherCallKeeps
<1>6. CASE /\ last' = Returned("decode", DecodeError(file))
           /\ DecodeError(file) # "none" /\ UNCHANGED <<snapshot, taken>>
  <2>1. last'.call = "decode"
    BY <1>6, ReturnedFields
  <2>2. SnapshotOK'
    BY <1>1, <1>6 DEF SnapshotOK
  <2>3. CaptureCanBeRestored'
    <3>1. Encoded(snapshot') = file
      BY <1>6
    <3> HIDE DEF file
    <3> QED
      BY <1>2, <1>6, <2>1, <3>1 DEF CaptureCanBeRestored
  <2> QED
    BY <1>1, <2>1, <2>2, <2>3, OtherCallKeeps
<1> QED
  BY <1>4, <1>5, <1>6 DEF WriteAndRead, ReadFile

\* A file from elsewhere.
LEMMA OpenFileKeeps ==
    ASSUME SnapshotInv, NEW key \in DOMAIN ForeignFiles,
           OpenFile(ForeignFiles[key])
    PROVE  SnapshotInv'
<1> DEFINE file == ForeignFiles[key]
<1>1. /\ pc = "idle" /\ last' = Returned("open", DecodeError(file))
      /\ UNCHANGED <<regions, mapped_bytes, limit, pc, staged, total, index>>
      /\ SnapshotOK /\ IsFile(file)
      /\ \/ DecodeError(file) = "none" /\ snapshot' = Decoded(file) /\ taken' = {}
         \/ UNCHANGED <<snapshot, taken>>
  BY DEF OpenFile, ReadFile, SnapshotInv
<1>2. last'.call = "open"
  BY <1>1, ReturnedFields
<1> HIDE DEF file
<1>3. SnapshotOK'
  BY <1>1, DecodedIsSnapshot DEF SnapshotOK
<1>4. CaptureCanBeRestored'
  BY <1>2 DEF CaptureCanBeRestored
<1> QED
  BY <1>1, <1>2, <1>3, <1>4, OtherCallKeeps

\* restore begins: nothing is staged yet, and a captured snapshot passes.
LEMMA BeginRestoreKeeps ==
    ASSUME SnapshotInv, BeginRestore
    PROVE  SnapshotInv'
<1> DEFINE error == MetadataError(snapshot)
<1>1. /\ pc = "idle" /\ last' = Returned("restore", error)
      /\ pc' = IF error = "none" THEN "restoring" ELSE "idle"
      /\ before' = memory
      /\ UNCHANGED <<regions, mapped_bytes, limit, snapshot, staged, total,
                     index, taken>>
      /\ MemoryOK /\ SnapshotOK /\ LocalsOK
  BY DEF BeginRestore, SnapshotInv
<1>2. last'.call = "restore" /\ last'.error = error
  BY <1>1, ReturnedFields
<1>3. \A t \in taken : error = "none"
  BY <1>1, CapturesSurviveFiles DEF SnapshotOK
<1> HIDE DEF error
<1>4. MemoryOK' /\ SnapshotOK'
  BY <1>1 DEF MemoryOK, SnapshotOK
<1>5. memory' = before'
  BY <1>1 DEF memory
<1>6. LocalsOK'
  <2>1. index = 1 /\ staged = NoRegions
    BY <1>1 DEF LocalsOK
  <2>2. \A t \in taken : IsPart(NoRegions, t, 1 - 1)
    <3>1. DOMAIN NoRegions = {} /\ 1 - 1 = 0 /\ 1..0 = {}
      BY DEF NoRegions
    <3> QED
      BY <3>1 DEF IsPart, FirstBases
  <2> QED
    BY <1>1, <1>5, <2>1, <2>2 DEF LocalsOK
<1>7. RestoreIsAtomic'
  BY <1>1, <1>2, <1>5 DEF RestoreIsAtomic, Ended
<1>8. RestoresTheCapture'
  BY <1>1, <1>2 DEF RestoresTheCapture, Ended
<1>9. CaptureCanBeRestored'
  BY <1>1, <1>2, <1>3 DEF CaptureCanBeRestored
<1> QED
  BY <1>4, <1>6, <1>7, <1>8, <1>9 DEF SnapshotInv

\* A restore that returns an error: the memory was not touched, and the
\* snapshot was not captured here.
LEMMA FailedRestoreKeeps ==
    ASSUME SnapshotInv, pc = "restoring",
           NEW error, error # "none", ReturnFromRestore(error),
           UNCHANGED <<regions, mapped_bytes, limit, snapshot, taken, before>>,
           taken = {}
    PROVE  SnapshotInv'
<1>1. /\ last' = Returned("restore", error) /\ pc' = "idle"
      /\ staged' = NoRegions /\ total' = 0 /\ index' = 1
      /\ MemoryOK /\ SnapshotOK /\ LocalsOK
  BY DEF ReturnFromRestore, SnapshotInv
<1>2. last'.call = "restore" /\ last'.error = error
  BY <1>1, ReturnedFields
<1>3. MemoryOK' /\ SnapshotOK'
  BY <1>1 DEF MemoryOK, SnapshotOK
<1>4. LocalsOK'
  <2>1. Sound(NoRegions, 0, CodecLimit)
    BY EmptyMemory
  <2>2. Len(snapshot.regions) \in Nat
    BY <1>1 DEF SnapshotOK, IsSnapshot, IsRegionList
  <2>3. 1 \in 1..(Len(snapshot.regions) + 1)
    BY <2>2
  <2> QED
    BY <1>1, <2>1, <2>3 DEF LocalsOK
<1>5. RestoreIsAtomic'
  BY <1>1, <1>2 DEF LocalsOK, RestoreIsAtomic, memory
<1>6. RestoresTheCapture' /\ CaptureCanBeRestored'
  BY <1>2 DEF RestoresTheCapture, CaptureCanBeRestored, Ended
<1> QED
  BY <1>3, <1>4, <1>5, <1>6 DEF SnapshotInv

\* A captured region is accepted, and what is staged for it is the region.
LEMMA CapturedTurn ==
    ASSUME SnapshotInv, pc = "restoring", index <= Len(snapshot.regions),
           NEW t \in taken
    PROVE  LET source == snapshot.regions[index]
           IN  /\ RegionError(source) = "none"
               /\ source.base = NthBase(t[1], index)
               /\ source.base \in DOMAIN t[1]
               /\ StagedRegion(source) = Image(t)[source.base]
<1> DEFINE source == snapshot.regions[index]
           rs == t[1]
           b == NthBase(rs, index)
<1>1. /\ IsCapture(t, snapshot) /\ IsSnapshot(snapshot) /\ LocalsOK
      /\ Sound(rs, t[2], CodecLimit) /\ IsListing(snapshot.regions, rs, t[3])
      /\ Sound(staged, total, CodecLimit) /\ IsPart(staged, t, index - 1)
      /\ IsRegions(rs) /\ t[3] \in BOOLEAN
      /\ Len(snapshot.regions) = Cardinality(DOMAIN rs)
  BY DEF SnapshotInv, SnapshotOK, LocalsOK, IsCapture, Sound, IsListing
<1>2. index \in 1..Len(snapshot.regions) /\ index \in 1..Cardinality(DOMAIN rs)
  <2>1. Len(snapshot.regions) \in Nat
    BY <1>1 DEF IsSnapshot, IsRegionList
  <2> QED
    BY <1>1, <2>1 DEF LocalsOK
<1>3. /\ b \in DOMAIN rs /\ source.base = b /\ source.size = rs[b].size
      /\ source.perms = rs[b].perms
      /\ source.checksum = Crc(rs[b].bytes)
      /\ source.bytes = IF t[3] THEN rs[b].bytes ELSE NoBytes
      /\ rs[b].size \in Word \ {0}
      /\ ByteCount(source) = IF t[3] THEN rs[b].size ELSE 0
  <2> DEFINE list == snapshot.regions
             n == index
  <2>1. IsListing(list, rs, t[3]) /\ n \in 1..Len(list)
    BY <1>1, <1>2
  <2> HIDE DEF list, n, rs
  <2> QED
    BY <1>1, <2>1, ListedRegion DEF list, n
<1>4. source.size <= CodecLimit
  BY <1>1, <1>2, CapturedBytesFit
<1>5. /\ AddFits(total, rs[b].size) /\ total + rs[b].size <= CodecLimit
      /\ MapError(staged, total, CodecLimit, b, rs[b].size) = "none"
  BY <1>1, <1>2, NextFits
<1>6. /\ total \in Nat /\ CodecLimit \in Nat /\ rs[b].size \in Nat
  BY <1>1, <1>3, WordAssumption DEF Sound, Word
<1> HIDE DEF source, b
<1>7. RegionError(source) = "none"
  <2>1. ~(source.size > CodecLimit) /\ ~(total + source.size > CodecLimit)
        /\ source.size # 0 /\ AddFits(total, source.size)
    BY <1>3, <1>4, <1>5, <1>6
  <2>2. ByteCount(source) # 0 =>
           ByteCount(source) = source.size /\ Crc(source.bytes) = source.checksum
    BY <1>3
  <2>3. MapError(staged, total, CodecLimit, source.base, source.size) = "none"
    BY <1>3, <1>5
  <2> DEFINE mapping == MapError(staged, total, CodecLimit, source.base,
                                 source.size)
             bad == \/ source.size = 0
                    \/ source.size > CodecLimit
                    \/ ByteCount(source) # 0 /\ ~(ByteCount(source) = source.size)
             rest == IF \/ ~AddFits(total, source.size)
                        \/ total + source.size > CodecLimit
                     THEN "resource_limit"
                     ELSE IF mapping # "none" THEN mapping
                     ELSE IF /\ ByteCount(source) # 0
                             /\ Crc(source.bytes) # source.checksum
                          THEN "invalid_header"
                     ELSE "none"
  <2>4. RegionError(source) = CASE bad -> "invalid_segment" [] OTHER -> rest
    BY DEF RegionError
  <2>5. ~bad /\ rest = "none"
    BY <2>1, <2>2, <2>3
  <2> HIDE DEF bad, rest
  <2> QED
    BY <2>4, <2>5
<1>8. StagedRegion(source) = Image(t)[b]
  <2>1. Image(t)[b] = IF t[3] THEN rs[b] ELSE NewRegion(rs[b].size, rs[b].perms)
    BY <1>1, <1>3, ImageShape
  <2>2. rs[b] = [size |-> rs[b].size, perms |-> rs[b].perms,
                 bytes |-> rs[b].bytes]
    BY <1>1, <1>3 DEF IsRegions, IsRegion
  <2>3. CASE t[3]
    BY <1>3, <2>1, <2>2, <2>3 DEF StagedRegion
  <2>4. CASE ~t[3]
    BY <1>3, <2>1, <2>4 DEF StagedRegion
  <2> QED
    BY <2>3, <2>4
<1> QED
  BY <1>3, <1>7, <1>8 DEF source, b

\* One turn of the loop: the region is staged, or restore returns.
LEMMA RestoreRegionKeeps ==
    ASSUME SnapshotInv, RestoreRegion
    PROVE  SnapshotInv'
<1> DEFINE source == snapshot.regions[index]
<1>1. /\ pc = "restoring" /\ index <= Len(snapshot.regions)
      /\ UNCHANGED <<regions, mapped_bytes, limit, snapshot, taken, before>>
      /\ MemoryOK /\ SnapshotOK /\ LocalsOK
  BY DEF RestoreRegion, SnapshotInv
<1>2. /\ Len(snapshot.regions) \in Nat /\ index \in 1..Len(snapshot.regions)
      /\ IsSnapshotRegion(source) /\ Sound(staged, total, CodecLimit)
  <2>1. Len(snapshot.regions) \in Nat
    BY <1>1 DEF SnapshotOK, IsSnapshot, IsRegionList
  <2>2. index \in 1..Len(snapshot.regions)
    BY <1>1, <2>1 DEF LocalsOK
  <2> QED
    BY <1>1, <2>1, <2>2 DEF SnapshotOK, IsSnapshot, IsRegionList, LocalsOK
<1>3. \A t \in taken :
         /\ RegionError(source) = "none"
         /\ source.base = NthBase(t[1], index)
         /\ source.base \in DOMAIN t[1]
         /\ StagedRegion(source) = Image(t)[source.base]
  BY <1>1, CapturedTurn
<1>4. CASE /\ RegionError(source) = "none"
           /\ staged' = Stage(source)
           /\ total' = total + source.size
           /\ index' = index + 1
           /\ UNCHANGED <<pc, last>>
  <2> HIDE DEF source
  <2>1. /\ Sound(staged', total', CodecLimit)
        /\ DOMAIN staged' = DOMAIN staged \cup {source.base}
        /\ staged'[source.base] = StagedRegion(source)
        /\ \A b \in DOMAIN staged : b # source.base => staged'[b] = staged[b]
    BY <1>2, <1>4, StageAddsRegion
  <2>2. ASSUME NEW t \in taken PROVE IsPart(staged', t, index' - 1)
    <3>1. /\ DOMAIN staged = FirstBases(t, index - 1)
          /\ \A b \in DOMAIN staged : staged[b] = Image(t)[b]
      BY <1>1 DEF LocalsOK, IsPart
    <3>2. /\ source.base = NthBase(t[1], index)
          /\ StagedRegion(source) = Image(t)[source.base]
      BY <1>3
    <3>3. FirstBases(t, index) = FirstBases(t, index - 1) \cup {source.base}
      <4>1. 1..index = (1..(index - 1)) \cup {index}
        BY <1>2
      <4> QED
        BY <3>2, <4>1 DEF FirstBases
    <3>4. index' - 1 = index
      BY <1>2, <1>4
    <3>5. DOMAIN staged' = FirstBases(t, index)
      BY <2>1, <3>1, <3>3
    <3>6. \A b \in DOMAIN staged' : staged'[b] = Image(t)[b]
      BY <2>1, <3>1, <3>2
    <3> QED
      BY <3>4, <3>5, <3>6 DEF IsPart
  <2>3. index' \in 1..(Len(snapshot.regions) + 1) /\ index' # 1
    BY <1>2, <1>4
  <2>4. LocalsOK'
    BY <1>1, <1>4, <2>1, <2>2, <2>3 DEF LocalsOK, memory
  <2>5. MemoryOK' /\ SnapshotOK'
    BY <1>1 DEF MemoryOK, SnapshotOK
  <2>6. RestoreIsAtomic' /\ RestoresTheCapture' /\ CaptureCanBeRestored'
    BY <1>1, <1>4 DEF RestoreIsAtomic, RestoresTheCapture, CaptureCanBeRestored,
                      Ended
  <2> QED
    BY <2>4, <2>5, <2>6 DEF SnapshotInv
<1>5. CASE RegionError(source) # "none" /\ ReturnFromRestore(RegionError(source))
  <2>1. taken = {}
    BY <1>3, <1>5
  <2> QED
    BY <1>1, <1>5, <2>1, FailedRestoreKeeps
<1> QED
  BY <1>4, <1>5 DEF RestoreRegion

\* What the loop has built from a whole capture is the captured memory.
LEMMA WholeCapture ==
    ASSUME SnapshotInv, pc = "restoring", index > Len(snapshot.regions),
           NEW t \in taken
    PROVE  staged = Image(t) /\ total = t[2] /\ snapshot.mapped_bytes = t[2]
<1> DEFINE rs == t[1]
           N == Cardinality(DOMAIN rs)
<1>1. /\ IsCapture(t, snapshot) /\ IsSnapshot(snapshot)
      /\ Sound(rs, t[2], CodecLimit) /\ IsRegions(rs) /\ Disjoint(rs)
      /\ t[2] = Cardinality(MappedAddresses(rs))
      /\ Sound(staged, total, CodecLimit) /\ IsRegions(staged)
      /\ total = Cardinality(MappedAddresses(staged))
      /\ IsPart(staged, t, index - 1)
      /\ Len(snapshot.regions) = N /\ snapshot.mapped_bytes = t[2]
      /\ index \in 1..(Len(snapshot.regions) + 1)
  BY DEF SnapshotInv, SnapshotOK, LocalsOK, IsCapture, Sound, IsListing
<1>2. N \in Nat /\ index - 1 = N
  <2>1. N \in Nat
    BY <1>1, BasesInOrder
  <2> QED
    BY <1>1, <2>1
<1>3. FirstBases(t, N) = DOMAIN rs
  BY <1>1, BasesInOrder DEF FirstBases
<1>4. DOMAIN staged = DOMAIN rs /\ \A b \in DOMAIN rs : staged[b] = Image(t)[b]
  BY <1>1, <1>2, <1>3 DEF IsPart
<1>5. SameShape(rs, Image(t))
  BY <1>1, ImageShape
<1>6. staged = Image(t)
  <2>1. staged = [b \in DOMAIN staged |-> staged[b]]
    BY <1>1 DEF IsRegions
  <2>2. DOMAIN Image(t) = DOMAIN rs /\ Image(t) = [b \in DOMAIN rs |-> Image(t)[b]]
    BY DEF Image
  <2> QED
    BY <1>4, <2>1, <2>2
<1>7. MappedAddresses(staged) = MappedAddresses(rs)
  BY <1>1, <1>5, <1>6, ShapeDecides
<1> QED
  BY <1>1, <1>6, <1>7

\* restore ends: the staged memory replaces the old one, or nothing changes.
LEMMA FinishRestoreKeeps ==
    ASSUME SnapshotInv, FinishRestore
    PROVE  SnapshotInv'
<1>1. /\ pc = "restoring" /\ index > Len(snapshot.regions)
      /\ UNCHANGED <<snapshot, taken, before>>
      /\ MemoryOK /\ SnapshotOK /\ LocalsOK
  BY DEF FinishRestore, SnapshotInv
<1>2. \A t \in taken : /\ staged = Image(t) /\ total = t[2]
                       /\ snapshot.mapped_bytes = t[2]
  BY <1>1, WholeCapture
<1>3. CASE /\ snapshot.mapped_bytes = total /\ regions' = staged
           /\ mapped_bytes' = total /\ limit' = CodecLimit
           /\ ReturnFromRestore("none")
  <2>1. /\ last' = Returned("restore", "none") /\ pc' = "idle"
        /\ staged' = NoRegions /\ total' = 0 /\ index' = 1
    BY <1>3 DEF ReturnFromRestore
  <2>2. last'.call = "restore" /\ last'.error = "none"
    BY <2>1, ReturnedFields
  <2>3. MemoryOK'
    BY <1>1, <1>3 DEF MemoryOK, LocalsOK
  <2>4. SnapshotOK'
    BY <1>1 DEF SnapshotOK
  <2>5. LocalsOK'
    <3>1. Sound(NoRegions, 0, CodecLimit)
      BY EmptyMemory
    <3>2. Len(snapshot.regions) \in Nat
      BY <1>1 DEF SnapshotOK, IsSnapshot, IsRegionList
    <3>3. 1 \in 1..(Len(snapshot.regions) + 1)
      BY <3>2
    <3> QED
      BY <1>1, <2>1, <3>1, <3>3 DEF LocalsOK
  <2>6. RestoreIsAtomic'
    <3>1. ASSUME snapshot.regions = <<>> PROVE snapshot.mapped_bytes = 0
      <4>1. Len(snapshot.regions) = 0
        BY <3>1
      <4>2. index = 1
        BY <1>1, <4>1 DEF LocalsOK
      <4> QED
        BY <1>1, <1>3, <4>2 DEF LocalsOK
    <3> QED
      BY <1>1, <2>2, <3>1 DEF RestoreIsAtomic
  <2>7. RestoresTheCapture'
    BY <1>1, <1>2, <1>3 DEF RestoresTheCapture, Image
  <2>8. CaptureCanBeRestored'
    BY <2>2 DEF CaptureCanBeRestored
  <2> QED
    BY <2>3, <2>4, <2>5, <2>6, <2>7, <2>8 DEF SnapshotInv
<1>4. CASE /\ snapshot.mapped_bytes # total /\ UNCHANGED memory
           /\ ReturnFromRestore("invalid_header")
  <2>1. taken = {}
    BY <1>2, <1>4
  <2>2. UNCHANGED <<regions, mapped_bytes, limit>>
    BY <1>4 DEF memory
  <2> QED
    BY <1>1, <1>4, <2>1, <2>2, FailedRestoreKeeps
<1> QED
  BY <1>3, <1>4 DEF FinishRestore

-----------------------------------------------------------------------------
(* The theorems.                                                           *)

\* Every call, and every turn of the loop of restore, keeps the invariant.
THEOREM SnapshotInvariant == Spec => []SnapshotInv
<1>1. Init => SnapshotInv
  BY SnapshotInit
<1>2. SnapshotInv /\ [Next]_vars => SnapshotInv'
  <2> SUFFICES ASSUME SnapshotInv, [Next]_vars PROVE SnapshotInv'
    OBVIOUS
  <2>1. CASE UseMemory
    BY <2>1, UseMemoryKeeps
  <2>2. ASSUME NEW key \in DOMAIN Foreign, Receive(Foreign[key])
        PROVE  SnapshotInv'
    BY <2>2, ReceiveKeeps
  <2>3. ASSUME NEW key \in DOMAIN ForeignFiles, OpenFile(ForeignFiles[key])
        PROVE  SnapshotInv'
    BY <2>3, OpenFileKeeps
  <2>4. CASE WriteAndRead
    BY <2>4, WriteAndReadKeeps
  <2>5. ASSUME NEW include \in BOOLEAN, Capture(include) PROVE SnapshotInv'
    BY <2>5, CaptureKeeps
  <2>6. CASE BeginRestore
    BY <2>6, BeginRestoreKeeps
  <2>7. CASE RestoreRegion
    BY <2>7, RestoreRegionKeeps
  <2>8. CASE FinishRestore
    BY <2>8, FinishRestoreKeeps
  <2>9. CASE UNCHANGED vars
    BY <2>9 DEF vars, SnapshotInv, MemoryOK, SnapshotOK, LocalsOK, memory,
                RestoreIsAtomic, RestoresTheCapture, CaptureCanBeRestored, Ended
  <2> QED
    BY <2>1, <2>2, <2>3, <2>4, <2>5, <2>6, <2>7, <2>8, <2>9 DEF Next, Step
<1> QED
  BY <1>1, <1>2, PTL DEF Spec

\* Whatever a snapshot or a file says, the memory is always one the calls of
\* AddressSpace could have built, within the limits it has.
THEOREM RestoreIsSound == Spec => []RestoredMemoryIsSound
<1>1. SnapshotInv => RestoredMemoryIsSound
  BY DEF SnapshotInv, MemoryOK, Sound, RestoredMemoryIsSound
<1> QED
  BY <1>1, SnapshotInvariant, PTL

\* A restore that fails, at whatever region, leaves memory and limits alone;
\* one that succeeds with no region had no byte to restore.
THEOREM RestoreIsAllOrNothing == Spec => []RestoreIsAtomic
<1>1. SnapshotInv => RestoreIsAtomic
  BY DEF SnapshotInv
<1> QED
  BY <1>1, SnapshotInvariant, PTL

\* capture and then restore, with files and any use of the memory between
\* them, gives the captured memory.
THEOREM CaptureComesBack == Spec => []RestoresTheCapture
<1>1. SnapshotInv => RestoresTheCapture
  BY DEF SnapshotInv
<1> QED
  BY <1>1, SnapshotInvariant, PTL

\* No call on a captured snapshot fails but the reading of a file that encode
\* has made too large.
THEOREM CapturesAreAccepted == Spec => []CaptureCanBeRestored
<1>1. SnapshotInv => CaptureCanBeRestored
  BY DEF SnapshotInv
<1> QED
  BY <1>1, SnapshotInvariant, PTL
===============================================================================
