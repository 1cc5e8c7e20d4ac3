----------------------------- MODULE MemoryProofs -----------------------------
(***************************************************************************)
(* Facts about the operators of Memory, for every word size and every      *)
(* memory.  The one that matters: looking at the two neighbours of a new   *)
(* mapping is as good as looking at all regions.                           *)
(***************************************************************************)
EXTENDS Memory, InductionProofs, FiniteSetTheorems

-----------------------------------------------------------------------------
(* Extrema.                                                                *)

\* The number whose digits are read in a loop, the most significant first.
IsHorner(f, n, g) ==
    f = [k \in 0..n |-> IF k = 0 THEN 0 ELSE f[k - 1] * Radix + g[k]]

\* Such a number exists.
LEMMA HornerExists ==
    ASSUME NEW n \in Nat, NEW g
    PROVE  \E f : IsHorner(f, n, g)
<1> DEFINE S == {m \in Nat : \E f : IsHorner(f, m, g)}
<1>1. 0 \in S
  <2> DEFINE f0 == [k \in 0..0 |-> 0]
  <2>1. IsHorner(f0, 0, g)
    BY DEF IsHorner
  <2> QED
    BY <2>1
<1>2. ASSUME NEW m \in Nat, m \in S PROVE m + 1 \in S
  <2>1. PICK f : IsHorner(f, m, g)
    BY <1>2
  <2> DEFINE next == [k \in 0..(m + 1) |->
                        IF k = m + 1 THEN f[m] * Radix + g[m + 1] ELSE f[k]]
  <2>2. \A k \in 0..m : f[k] = IF k = 0 THEN 0 ELSE f[k - 1] * Radix + g[k]
    BY <2>1 DEF IsHorner
  <2>3. \A k \in 0..(m + 1) :
           next[k] = IF k = 0 THEN 0 ELSE next[k - 1] * Radix + g[k]
    BY <2>2
  <2>4. IsHorner(next, m + 1, g)
    <3>1. next = [k \in 0..(m + 1) |-> next[k]]
      OBVIOUS
    <3> HIDE DEF next
    <3> QED
      BY <2>3, <3>1 DEF IsHorner
  <2> HIDE DEF next
  <2> QED
    BY <2>4
<1> HIDE DEF S
<1>3. Nat \subseteq S
  BY <1>1, <1>2, SetInduction
<1> QED
  BY <1>3 DEF S

\* A nonempty set of words has a greatest element: what std::prev of
\* upper_bound finds.
LEMMA GreatestElement ==
    ASSUME NEW S \in SUBSET Word, S # {}
    PROVE  \E m \in S : \A x \in S : x <= m
<1> DEFINE T == {n \in Nat : \E x \in S : n = MaxWord - x}
<1>1. MaxWord \in Nat
  BY WordAssumption
<1>2. T \in SUBSET Nat /\ T # {}
  <2>1. PICK x \in S : x \in Word
    OBVIOUS
  <2>2. MaxWord - x \in T
    BY <1>1, <2>1 DEF Word
  <2> QED
    BY <2>2
<1>3. PICK t \in T : \A n \in T : t <= n
  BY <1>2, LeastElement
<1>4. PICK m \in S : t = MaxWord - m
  BY <1>3
<1>5. \A x \in S : MaxWord - x \in T
  BY <1>1 DEF Word
<1>6. \A x \in S : x <= m
  BY <1>1, <1>3, <1>4, <1>5 DEF Word
<1> QED
  BY <1>4, <1>6

-----------------------------------------------------------------------------
(* map.                                                                    *)

\* The conditions under which map goes ahead.
MapAllowed(rs, base, size) ==
    /\ base \in Word
    /\ size \in Word
    /\ size # 0
    /\ AddFits(base, size)
    /\ ~OverlapsNext(rs, base, base + size)
    /\ ~OverlapsPrevious(rs, base)

\* The neighbour checks of map are complete: a range that clears both of its
\* neighbours shares no address with any region.
LEMMA NeighboursSuffice ==
    ASSUME NEW rs, IsRegions(rs), Disjoint(rs),
           NEW base, NEW size, MapAllowed(rs, base, size),
           NEW c \in DOMAIN rs
    PROVE  /\ Cells(rs, c) \cap (base..(base + size - 1)) = {}
           /\ c # base
<1> DEFINE above == {d \in DOMAIN rs : d >= base}
           below == {d \in DOMAIN rs : d < base}
<1>1. /\ DOMAIN rs \subseteq Word
      /\ MaxWord \in Nat
      /\ base \in Word
      /\ size \in Word
      /\ size > 0
      /\ \A d \in DOMAIN rs : rs[d].size \in Word /\ rs[d].size > 0
  BY WordAssumption DEF IsRegions, IsRegion, MapAllowed, Word
<1>2. CASE c >= base
  <2>1. above \in SUBSET Nat /\ above # {}
    BY <1>1, <1>2 DEF Word
  <2>2. PICK n \in above : \A x \in above : n <= x
    BY <2>1, LeastElement
  <2>3. IsNext(rs, n, base)
    BY <2>2 DEF IsNext
  <2>4. ~(base + size > n)
    BY <2>2, <2>3 DEF MapAllowed, OverlapsNext
  <2>5. c >= base + size
    BY <1>1, <1>2, <2>2, <2>4 DEF Word
  <2> QED
    BY <1>1, <2>5 DEF Cells, Word
<1>3. CASE c < base
  <2>1. below \in SUBSET Word /\ below # {}
    BY <1>1, <1>3
  <2>2. PICK p \in below : \A x \in below : x <= p
    BY <2>1, GreatestElement
  <2>3. IsPrevious(rs, p, base)
    BY <2>2 DEF IsPrevious
  <2>4. ~(p + rs[p].size > base)
    BY <2>2, <2>3 DEF MapAllowed, OverlapsPrevious
  <2>5. CASE c = p
    BY <1>1, <1>3, <2>4, <2>5 DEF Cells, Word
  <2>6. CASE c # p
    <3>1. c < p
      BY <1>1, <1>3, <2>2, <2>6 DEF Word
    <3>2. Cells(rs, c) \cap Cells(rs, p) = {}
      BY <2>2, <2>6 DEF Disjoint
    <3>3. p \in Cells(rs, p)
      BY <1>1, <2>2 DEF Cells, Word
    <3>4. ~(p <= c + rs[c].size - 1)
      BY <1>1, <2>2, <3>1, <3>2, <3>3 DEF Cells, Word
    <3> QED
      BY <1>1, <1>3, <2>2, <3>4 DEF Cells, Word
  <2> QED
    BY <2>5, <2>6
<1> QED
  BY <1>1, <1>2, <1>3 DEF Word

\* What map leaves behind: a well-formed map of disjoint regions that covers
\* the old addresses and, apart from them, the new ones.
LEMMA MapKeepsRegions ==
    ASSUME NEW rs, IsRegions(rs), Disjoint(rs),
           NEW base, NEW size, MapAllowed(rs, base, size),
           NEW perms \in SUBSET Permission
    PROVE  LET new == Mapped(rs, base, size, perms)
               span == base..(base + size - 1)
           IN  /\ IsRegions(new)
               /\ Disjoint(new)
               /\ MappedAddresses(new) = MappedAddresses(rs) \cup span
               /\ MappedAddresses(rs) \cap span = {}
<1> DEFINE new == Mapped(rs, base, size, perms)
           span == base..(base + size - 1)
<1>1. /\ base \in Word /\ size \in Word \ {0} /\ AddFits(base, size)
      /\ MaxWord \in Nat /\ Radix \in Nat /\ Radix > 1
      /\ DOMAIN rs \subseteq Word
  BY WordAssumption DEF MapAllowed, IsRegions
<1>2. \A c \in DOMAIN rs : Cells(rs, c) \cap span = {} /\ c # base
  BY NeighboursSuffice
<1>3. /\ DOMAIN new = DOMAIN rs \cup {base}
      /\ new[base] = NewRegion(size, perms)
      /\ \A c \in DOMAIN rs : new[c] = rs[c]
  BY <1>2 DEF Mapped
<1>4. IsRegion(NewRegion(size, perms)) /\ NewRegion(size, perms).size = size
  <2>1. 0 \in Byte
    BY <1>1 DEF Byte
  <2>2. [i \in 0..(size - 1) |-> 0] \in Buffer(size)
    BY <2>1 DEF Buffer
  <2> QED
    BY <1>1, <2>2 DEF IsRegion, NewRegion
<1>5. IsRegions(new)
  <2>1. new = [b \in DOMAIN new |-> new[b]]
    BY DEF Mapped
  <2>2. \A b \in DOMAIN new : IsRegion(new[b])
    BY <1>3, <1>4 DEF IsRegions
  <2> HIDE DEF new
  <2> QED
    BY <1>1, <1>3, <2>1, <2>2 DEF IsRegions
<1>6. /\ Cells(new, base) = span
      /\ \A c \in DOMAIN rs : Cells(new, c) = Cells(rs, c)
  BY <1>3, <1>4 DEF Cells
<1>7. Disjoint(new)
  <2> HIDE DEF new, span
  <2>1. \A b, c \in DOMAIN new : b # c => Cells(new, b) \cap Cells(new, c) = {}
    <3> TAKE b, c \in DOMAIN new
    <3> HAVE b # c
    <3>1. CASE b \in DOMAIN rs /\ c \in DOMAIN rs
      BY <1>6, <3>1 DEF Disjoint
    <3>2. CASE b = base
      BY <1>2, <1>3, <1>6, <3>2
    <3>3. CASE c = base
      BY <1>2, <1>3, <1>6, <3>3
    <3> QED
      BY <1>3, <3>1, <3>2, <3>3
  <2>2. \A b \in DOMAIN new : AddFits(b, new[b].size)
    BY <1>1, <1>3, <1>4 DEF Disjoint
  <2> QED
    BY <2>1, <2>2 DEF Disjoint
<1>8. MappedAddresses(new) = MappedAddresses(rs) \cup span
  <2> HIDE DEF new, span
  <2> QED
    BY <1>3, <1>6 DEF MappedAddresses
<1>9. MappedAddresses(rs) \cap span = {}
  <2> HIDE DEF span
  <2> QED
    BY <1>2 DEF MappedAddresses
<1> QED
  BY <1>5, <1>7, <1>8, <1>9

-----------------------------------------------------------------------------
(* unmap, protect and write.                                               *)

\* What unmap leaves behind: the same regions without the one at base, whose
\* addresses are no longer mapped.
LEMMA UnmapKeepsRegions ==
    ASSUME NEW rs, IsRegions(rs), Disjoint(rs), NEW base \in DOMAIN rs
    PROVE  LET new == Unmapped(rs, base)
           IN  /\ IsRegions(new)
               /\ Disjoint(new)
               /\ MappedAddresses(new) = MappedAddresses(rs) \ Cells(rs, base)
               /\ Cells(rs, base) \subseteq MappedAddresses(rs)
<1> DEFINE new == Unmapped(rs, base)
<1>1. /\ DOMAIN new = DOMAIN rs \ {base}
      /\ \A c \in DOMAIN new : new[c] = rs[c]
      /\ new = [b \in DOMAIN new |-> new[b]]
  BY DEF Unmapped
<1> HIDE DEF new
<1>2. IsRegions(new)
  BY <1>1 DEF IsRegions
<1>3. \A c \in DOMAIN new : Cells(new, c) = Cells(rs, c)
  BY <1>1 DEF Cells
<1>4. Disjoint(new)
  BY <1>1, <1>3 DEF Disjoint
<1>5. \A c \in DOMAIN new : Cells(rs, c) \cap Cells(rs, base) = {}
  BY <1>1 DEF Disjoint
<1>6. MappedAddresses(new) = MappedAddresses(rs) \ Cells(rs, base)
  BY <1>1, <1>3, <1>5 DEF MappedAddresses
<1>7. Cells(rs, base) \subseteq MappedAddresses(rs)
  BY DEF MappedAddresses
<1> QED
  BY <1>2, <1>4, <1>6, <1>7 DEF new

\* Two memories with the same layout: the same regions of the same sizes.
SameShape(rs, new) ==
    /\ DOMAIN new = DOMAIN rs
    /\ \A b \in DOMAIN rs : new[b].size = rs[b].size

\* A change that keeps the layout keeps everything that depends on it.
LEMMA ShapeDecides ==
    ASSUME NEW rs, NEW new, SameShape(rs, new), Disjoint(rs)
    PROVE  Disjoint(new) /\ MappedAddresses(new) = MappedAddresses(rs)
<1>1. \A b \in DOMAIN rs : Cells(new, b) = Cells(rs, b)
  BY DEF SameShape, Cells
<1> QED
  BY <1>1 DEF SameShape, Disjoint, MappedAddresses

\* A write keeps the layout and the permissions, and leaves as many bytes as
\* there were, whatever region it went to.
LEMMA WriteKeepsRegions ==
    ASSUME NEW rs, IsRegions(rs), NEW address \in Word, NEW size \in Word,
           NEW data \in Buffer(size)
    PROVE  LET new == Written(rs, address, data, size)
           IN  /\ IsRegions(new)
               /\ SameShape(rs, new)
               /\ \A b \in DOMAIN rs : new[b].perms = rs[b].perms
<1> DEFINE new == Written(rs, address, data, size)
<1>1. /\ DOMAIN new = DOMAIN rs
      /\ new = [b \in DOMAIN new |-> new[b]]
  BY DEF Written
<1>2. ASSUME NEW b \in DOMAIN rs
      PROVE  /\ IsRegion(new[b])
             /\ new[b].size = rs[b].size
             /\ new[b].perms = rs[b].perms
  <2>1. IsRegion(rs[b])
    BY DEF IsRegions
  <2>2. CASE b \notin Target(rs, address, size)
    BY <2>1, <2>2 DEF Written
  <2>3. CASE b \in Target(rs, address, size)
    <3> DEFINE bytes == Overwrite(rs[b].bytes, address - b, data, size)
    <3>1. new[b] = [rs[b] EXCEPT !.bytes = bytes]
      BY <2>3 DEF Written
    <3>2. b \in Word /\ address - b \in Int
      BY WordAssumption DEF IsRegions, Word
    <3>3. bytes \in Buffer(rs[b].size)
      <4>1. rs[b].bytes \in [0..(rs[b].size - 1) -> Byte]
        BY <2>1 DEF IsRegion, Buffer
      <4>2. rs[b].size \in Nat
        BY <2>1, WordAssumption DEF IsRegion, Word
      <4>3. ASSUME NEW i \in 0..(rs[b].size - 1),
                   address - b <= i, i < (address - b) + size
            PROVE  data[i - (address - b)] \in Byte
        <5>1. i - (address - b) \in 0..(size - 1)
          BY <3>2, <4>2, <4>3, WordAssumption DEF Word
        <5> QED
          BY <5>1 DEF Buffer
      <4> QED
        BY <4>1, <4>3 DEF Overwrite, Buffer
    <3> HIDE DEF bytes
    <3> QED
      BY <2>1, <3>1, <3>3 DEF IsRegion
  <2> QED
    BY <2>2, <2>3
<1> HIDE DEF new
<1>3. IsRegions(new)
  BY <1>1, <1>2 DEF IsRegions
<1>4. SameShape(rs, new)
  BY <1>1, <1>2 DEF SameShape
<1> QED
  BY <1>2, <1>3, <1>4 DEF new

\* protect changes the permissions of one region and nothing else.
LEMMA ProtectKeepsRegions ==
    ASSUME NEW rs, IsRegions(rs), NEW base \in DOMAIN rs,
           NEW perms \in SUBSET Permission
    PROVE  LET new == [rs EXCEPT ![base].perms = perms]
           IN  IsRegions(new) /\ SameShape(rs, new)
<1> DEFINE new == [rs EXCEPT ![base].perms = perms]
<1>1. /\ DOMAIN new = DOMAIN rs
      /\ new = [b \in DOMAIN new |-> new[b]]
      /\ \A b \in DOMAIN rs :
            new[b] = IF b = base THEN [rs[b] EXCEPT !.perms = perms] ELSE rs[b]
  BY DEF IsRegions
<1> HIDE DEF new
<1>2. \A b \in DOMAIN rs : IsRegion(new[b]) /\ new[b].size = rs[b].size
  BY <1>1 DEF IsRegions, IsRegion
<1> QED
  BY <1>1, <1>2 DEF IsRegions, SameShape, new

-----------------------------------------------------------------------------
(* The account.                                                            *)

\* The mapped addresses are a finite set: they are words.
LEMMA MappedIsFinite ==
    ASSUME NEW rs, IsRegions(rs), Disjoint(rs)
    PROVE  /\ MappedAddresses(rs) \subseteq Word
           /\ IsFiniteSet(MappedAddresses(rs))
           /\ Cardinality(MappedAddresses(rs)) \in Nat
<1>1. MaxWord \in Nat
  BY WordAssumption
<1>2. \A b \in DOMAIN rs : Cells(rs, b) \subseteq Word
  <2> TAKE b \in DOMAIN rs
  <2>1. b \in Word /\ rs[b].size \in Word /\ AddFits(b, rs[b].size)
    BY DEF IsRegions, IsRegion, Disjoint
  <2> QED
    BY <1>1, <2>1 DEF Cells, Word, AddFits
<1>3. MappedAddresses(rs) \subseteq Word
  BY <1>2 DEF MappedAddresses
<1>4. IsFiniteSet(Word)
  BY <1>1, FS_Interval DEF Word
<1> QED
  BY <1>3, <1>4, FS_Subset, FS_CardinalityType

\* The bytes of a mapping of size bytes.
LEMMA SpanSize ==
    ASSUME NEW base \in Word, NEW size \in Word, size # 0
    PROVE  /\ IsFiniteSet(base..(base + size - 1))
           /\ Cardinality(base..(base + size - 1)) = size
<1>1. /\ base \in Int /\ base + size - 1 \in Int
      /\ ~(base > base + size - 1)
      /\ (base + size - 1) - base + 1 = size
  BY WordAssumption DEF Word
<1> QED
  BY <1>1, FS_Interval

\* Adding addresses that are not in the account yet.
LEMMA AddToAccount ==
    ASSUME NEW S, IsFiniteSet(S), NEW T, IsFiniteSet(T), S \cap T = {}
    PROVE  Cardinality(S \cup T) = Cardinality(S) + Cardinality(T)
<1>1. Cardinality(S \cap T) = 0
  BY FS_EmptySet
<1>2. Cardinality(S) \in Nat /\ Cardinality(T) \in Nat
  BY FS_CardinalityType
<1>3. Cardinality(S \cup T)
        = Cardinality(S) + Cardinality(T) - Cardinality(S \cap T)
  BY FS_Union
<1> QED
  BY <1>1, <1>2, <1>3

\* Removing addresses that are in the account.
LEMMA RemoveFromAccount ==
    ASSUME NEW S, IsFiniteSet(S), NEW T, T \subseteq S
    PROVE  /\ Cardinality(S \ T) = Cardinality(S) - Cardinality(T)
           /\ Cardinality(T) <= Cardinality(S)
<1>1. S \cap T = T
  OBVIOUS
<1>2. Cardinality(S \ T) = Cardinality(S) - Cardinality(S \cap T)
  BY FS_Difference
<1>3. Cardinality(T) <= Cardinality(S)
  BY FS_Subset
<1> QED
  BY <1>1, <1>2, <1>3

-----------------------------------------------------------------------------
(* Sound memories: what the calls of AddressSpace maintain.                *)

\* Well-formed, disjoint regions with an exact account within the limit.
Sound(rs, mapped, limit) ==
    /\ IsRegions(rs)
    /\ Disjoint(rs)
    /\ mapped = Cardinality(MappedAddresses(rs))
    /\ mapped \in Word
    /\ mapped <= limit

\* map returns no error exactly under the conditions of MapAllowed, and then
\* the new total stays within the limit.
LEMMA MapErrorNone ==
    ASSUME NEW rs, NEW limit \in Word, NEW mapped \in Word, NEW base \in Word,
           NEW size \in Word, MapError(rs, mapped, limit, base, size) = "none"
    PROVE  MapAllowed(rs, base, size) /\ mapped + size <= limit
<1>1. /\ size # 0
      /\ AddFits(base, size)
      /\ AddFits(mapped, size)
      /\ mapped + size <= limit
      /\ ~OverlapsNext(rs, base, base + size)
      /\ ~OverlapsPrevious(rs, base)
  BY WordAssumption DEF MapError, Word
<1> QED
  BY <1>1 DEF MapAllowed

\* The memory after construction and after clear.
LEMMA EmptyMemory ==
    ASSUME NEW limit \in Word
    PROVE  Sound(NoRegions, 0, limit)
<1>1. DOMAIN NoRegions = {} /\ NoRegions = [b \in DOMAIN NoRegions |-> NoRegions[b]]
  BY DEF NoRegions
<1>2. IsRegions(NoRegions) /\ Disjoint(NoRegions)
  BY <1>1 DEF IsRegions, Disjoint
<1>3. MappedAddresses(NoRegions) = {}
  BY <1>1 DEF MappedAddresses
<1>4. 0 \in Word /\ 0 <= limit
  BY WordAssumption DEF Word
<1> QED
  BY <1>2, <1>3, <1>4, FS_EmptySet DEF Sound

\* A successful map keeps a memory sound: what it adds to the account was free.
LEMMA MapKeepsSound ==
    ASSUME NEW rs, NEW limit \in Word, NEW mapped, Sound(rs, mapped, limit),
           NEW base \in Word, NEW size \in Word, NEW perms \in SUBSET Permission,
           MapError(rs, mapped, limit, base, size) = "none"
    PROVE  Sound(Mapped(rs, base, size, perms), mapped + size, limit)
<1> DEFINE new == Mapped(rs, base, size, perms)
           span == base..(base + size - 1)
<1>1. /\ IsRegions(rs) /\ Disjoint(rs) /\ mapped \in Word
      /\ mapped = Cardinality(MappedAddresses(rs))
      /\ MaxWord \in Nat
  BY WordAssumption DEF Sound
<1>2. MapAllowed(rs, base, size) /\ mapped + size <= limit
  BY <1>1, MapErrorNone
<1>3. /\ IsRegions(new) /\ Disjoint(new)
      /\ MappedAddresses(new) = MappedAddresses(rs) \cup span
      /\ MappedAddresses(rs) \cap span = {}
  BY <1>1, <1>2, MapKeepsRegions
<1>4. IsFiniteSet(span) /\ Cardinality(span) = size
  BY <1>2, SpanSize DEF MapAllowed
<1>5. IsFiniteSet(MappedAddresses(rs))
  BY <1>1, MappedIsFinite
<1> HIDE DEF span, new
<1>6. Cardinality(MappedAddresses(new)) = mapped + size
  BY <1>1, <1>3, <1>4, <1>5, AddToAccount
<1>7. mapped + size \in Word
  BY <1>1, <1>2 DEF Word
<1> QED
  BY <1>2, <1>3, <1>6, <1>7 DEF Sound, new

\* unmap keeps a memory sound: the bytes it takes out of the account are the
\* addresses that are no longer mapped.
LEMMA UnmapKeepsSound ==
    ASSUME NEW rs, NEW limit \in Word, NEW mapped, Sound(rs, mapped, limit),
           NEW base \in DOMAIN rs
    PROVE  Sound(Unmapped(rs, base), mapped - rs[base].size, limit)
<1> DEFINE cells == Cells(rs, base)
           new == Unmapped(rs, base)
<1>1. /\ IsRegions(rs) /\ Disjoint(rs) /\ mapped \in Word
      /\ mapped = Cardinality(MappedAddresses(rs))
      /\ mapped <= limit
      /\ MaxWord \in Nat
  BY WordAssumption DEF Sound
<1>2. /\ IsRegions(new) /\ Disjoint(new)
      /\ MappedAddresses(new) = MappedAddresses(rs) \ cells
      /\ cells \subseteq MappedAddresses(rs)
  BY <1>1, UnmapKeepsRegions
<1>3. base \in Word /\ rs[base].size \in Word /\ rs[base].size # 0
  BY <1>1 DEF IsRegions, IsRegion
<1>4. IsFiniteSet(cells) /\ Cardinality(cells) = rs[base].size
  BY <1>3, SpanSize DEF Cells
<1>5. IsFiniteSet(MappedAddresses(rs))
  BY <1>1, MappedIsFinite
<1> HIDE DEF cells, new
<1>6. /\ Cardinality(MappedAddresses(rs) \ cells)
            = Cardinality(MappedAddresses(rs)) - Cardinality(cells)
      /\ Cardinality(cells) <= Cardinality(MappedAddresses(rs))
  BY <1>2, <1>5, RemoveFromAccount
<1>7. Cardinality(MappedAddresses(new)) = mapped - rs[base].size
  BY <1>1, <1>2, <1>4, <1>6
<1>8. mapped - rs[base].size \in Word /\ mapped - rs[base].size <= limit
  BY <1>1, <1>3, <1>4, <1>6 DEF Word
<1> QED
  BY <1>2, <1>7, <1>8 DEF Sound, new

\* A change that keeps the layout keeps a memory sound.
LEMMA ShapeKeepsSound ==
    ASSUME NEW rs, NEW limit, NEW mapped, Sound(rs, mapped, limit),
           NEW new, IsRegions(new), SameShape(rs, new)
    PROVE  Sound(new, mapped, limit)
BY ShapeDecides DEF Sound

-----------------------------------------------------------------------------
(* Where reads and writes go.                                              *)

\* A read or a write goes to one region at most, whose bytes it stays within:
\* upper_bound has one predecessor, and contains is checked (region_at).
LEMMA TargetIsOne ==
    ASSUME NEW rs, IsRegions(rs), NEW address \in Word, NEW size \in Word,
           NEW b \in Target(rs, address, size)
    PROVE  /\ b \in DOMAIN rs
           /\ address - b \in Nat
           /\ (address - b) + size <= rs[b].size
           /\ \A c \in Target(rs, address, size) : c = b
<1>1. /\ b \in DOMAIN rs /\ IsAt(rs, b, address)
      /\ Contains(rs, b, address, size)
  BY DEF Target, RegionAt
<1>2. b \in Word /\ rs[b].size \in Word /\ MaxWord \in Nat
  BY <1>1, WordAssumption DEF IsRegions, IsRegion
<1>3. address - b \in Nat /\ (address - b) + size <= rs[b].size
  BY <1>1, <1>2 DEF Contains, RangeInside, Word
<1>4. ASSUME NEW c \in Target(rs, address, size) PROVE c = b
  <2>1. c \in DOMAIN rs /\ IsAt(rs, c, address)
    BY DEF Target, RegionAt
  <2>2. c \in Word
    BY <2>1 DEF IsRegions
  <2>3. c <= b /\ b <= c
    BY <1>1, <2>1 DEF IsAt
  <2> QED
    BY <1>2, <2>2, <2>3 DEF Word
<1> QED
  BY <1>1, <1>3, <1>4

\* The layout alone decides where reads and writes go.
LEMMA TargetOfShape ==
    ASSUME NEW rs, NEW new, SameShape(rs, new), NEW address, NEW size
    PROVE  Target(new, address, size) = Target(rs, address, size)
BY DEF SameShape, Target, RegionAt, IsAt, Contains

\* Well-formed regions that share no address.
Tidy(rs) == IsRegions(rs) /\ Disjoint(rs)

\* A write into the cells of a region finds that region (region_at): no other
\* base lies between the base and the address.
LEMMA TargetHere ==
    ASSUME NEW rs, Tidy(rs), NEW b \in DOMAIN rs, NEW address \in Word,
           NEW size \in Word, size # 0, Contains(rs, b, address, size)
    PROVE  b \in Target(rs, address, size)
<1>1. /\ b \in Nat /\ rs[b].size \in Nat /\ address \in Nat /\ size \in Nat
      /\ \A c \in DOMAIN rs : c \in Nat /\ rs[c].size \in Nat /\ rs[c].size > 0
  BY WordAssumption DEF Tidy, IsRegions, IsRegion, Word
<1>2. b <= address /\ (address - b) + size <= rs[b].size
  BY <1>1 DEF Contains, RangeInside
<1>3. Contains(rs, b, address, 1)
  BY <1>1, <1>2 DEF Contains, RangeInside
<1>4. ASSUME NEW c \in DOMAIN rs, c <= address, ~(c <= b)
      PROVE  FALSE
  <2>1. c \in Cells(rs, b) /\ c \in Cells(rs, c) /\ c # b
    BY <1>1, <1>2, <1>4 DEF Cells
  <2> QED
    BY <2>1 DEF Tidy, Disjoint
<1> QED
  BY <1>2, <1>3, <1>4 DEF Target, RegionAt, IsAt

\* What a write does to each byte of the memory.
LEMMA WrittenByte ==
    ASSUME NEW rs, IsRegions(rs), NEW address, NEW size, NEW data,
           NEW b \in DOMAIN rs, NEW i \in 0..(rs[b].size - 1)
    PROVE  Written(rs, address, data, size)[b].bytes[i] =
              IF /\ b \in Target(rs, address, size)
                 /\ address - b <= i
                 /\ i < (address - b) + size
              THEN data[i - (address - b)]
              ELSE rs[b].bytes[i]
<1>1. IsRegion(rs[b])
  BY DEF IsRegions
<1>2. DOMAIN rs[b].bytes = 0..(rs[b].size - 1)
  BY <1>1 DEF IsRegion, Buffer
<1>3. CASE b \in Target(rs, address, size)
  <2> DEFINE bytes == Overwrite(rs[b].bytes, address - b, data, size)
  <2>1. Written(rs, address, data, size)[b] = [rs[b] EXCEPT !.bytes = bytes]
    BY <1>3 DEF Written
  <2>2. [rs[b] EXCEPT !.bytes = bytes].bytes = bytes
    BY <1>1 DEF IsRegion
  <2>3. bytes[i] = IF address - b <= i /\ i < (address - b) + size
                   THEN data[i - (address - b)] ELSE rs[b].bytes[i]
    BY <1>2 DEF Overwrite
  <2> QED
    BY <1>3, <2>1, <2>2, <2>3
<1>4. CASE b \notin Target(rs, address, size)
  BY <1>4 DEF Written
<1> QED
  BY <1>3, <1>4

\* What a read copies out: the bytes of its region.
LEMMA SliceOfTarget ==
    ASSUME NEW rs, IsRegions(rs), NEW address \in Word, NEW size \in Word,
           NEW b \in Target(rs, address, size)
    PROVE  /\ Slice(rs, address, size) \in Buffer(size)
           /\ \A j \in 0..(size - 1) :
                 Slice(rs, address, size)[j] = rs[b].bytes[(address - b) + j]
<1>1. /\ b \in DOMAIN rs /\ address - b \in Nat
      /\ (address - b) + size <= rs[b].size
      /\ \A c \in Target(rs, address, size) : c = b
  BY TargetIsOne
<1> DEFINE chosen == CHOOSE c \in DOMAIN rs : c \in Target(rs, address, size)
<1>2. chosen = b
  BY <1>1
<1>3. Slice(rs, address, size)
        = [j \in 0..(size - 1) |-> rs[b].bytes[(address - b) + j]]
  <2>1. Slice(rs, address, size)
          = [j \in 0..(size - 1) |-> rs[chosen].bytes[(address - chosen) + j]]
    BY DEF Slice
  <2> HIDE DEF chosen
  <2> QED
    BY <1>2, <2>1
<1>4. IsRegion(rs[b])
  BY <1>1 DEF IsRegions
<1>5. ASSUME NEW j \in 0..(size - 1)
      PROVE  rs[b].bytes[(address - b) + j] \in Byte
  <2>1. size \in Nat /\ rs[b].size \in Nat
    BY <1>4, WordAssumption DEF IsRegion, Word
  <2>2. (address - b) + j \in 0..(rs[b].size - 1)
    BY <1>1, <2>1
  <2> QED
    BY <1>4, <2>2 DEF IsRegion, Buffer
<1> HIDE DEF chosen
<1> QED
  BY <1>3, <1>5 DEF Buffer

\* Two memories with the same layout, permissions and bytes are the same.
LEMMA SameMemory ==
    ASSUME NEW rs, IsRegions(rs), NEW new, IsRegions(new), SameShape(rs, new),
           \A b \in DOMAIN rs :
              /\ new[b].perms = rs[b].perms
              /\ \A i \in 0..(rs[b].size - 1) : new[b].bytes[i] = rs[b].bytes[i]
    PROVE  new = rs
<1>1. ASSUME NEW b \in DOMAIN rs PROVE new[b] = rs[b]
  <2>1. IsRegion(rs[b]) /\ IsRegion(new[b]) /\ new[b].size = rs[b].size
    BY DEF IsRegions, SameShape
  <2>2. /\ rs[b].bytes \in [0..(rs[b].size - 1) -> Byte]
        /\ new[b].bytes \in [0..(rs[b].size - 1) -> Byte]
    BY <2>1 DEF IsRegion, Buffer
  <2>3. new[b].bytes = rs[b].bytes
    <3> DEFINE S == 0..(rs[b].size - 1)
               old == rs[b].bytes
               now == new[b].bytes
    <3>1. \A i \in S : now[i] = old[i]
      OBVIOUS
    <3>2. old \in [S -> Byte] /\ now \in [S -> Byte]
      BY <2>2
    <3> HIDE DEF S, old, now
    <3>3. now = old
      BY <3>1, <3>2
    <3> QED
      BY <3>3 DEF old, now
  <2> QED
    BY <2>1, <2>3 DEF IsRegion
<1>2. /\ DOMAIN new = DOMAIN rs
      /\ rs = [b \in DOMAIN rs |-> rs[b]]
      /\ new = [b \in DOMAIN new |-> new[b]]
  BY DEF IsRegions, SameShape
<1> QED
  BY <1>1, <1>2

\* The digits of an integer are bytes (write_integer).
LEMMA DigitsAreBytes ==
    ASSUME NEW value \in Word, NEW width \in Width, NEW order
    PROVE  Digits(value, width, order) \in Buffer(width)
<1> DEFINE shift(i) == IF order = "little" THEN i ELSE width - i - 1
<1>1. /\ Radix \in Nat /\ Radix > 1 /\ value \in Nat
      /\ width \in Nat
  BY WordAssumption DEF Word, Width
<1>2. \A i \in 0..(width - 1) : shift(i) \in 0..7
  BY <1>1 DEF Width
<1>3. \A q \in Int : q % Radix \in 0..(Radix - 1)
  BY <1>1
<1>4. \A i \in 0..(width - 1) : Radix^shift(i) \in Nat /\ Radix^shift(i) > 0
  BY <1>2, PowerAssumption
<1>5. \A i \in 0..(width - 1) : value \div Radix^shift(i) \in Int
  BY <1>1, <1>4
<1> QED
  BY <1>3, <1>5 DEF Digits, Buffer, Byte

\* Division with remainder.
LEMMA DivisionIsExact ==
    ASSUME NEW v \in Nat, NEW d \in Nat, d > 0
    PROVE  /\ v \div d \in Nat
           /\ v % d \in 0..(d - 1)
           /\ v = d * (v \div d) + (v % d)
OBVIOUS

\* Quotient and remainder are determined by the number: an integer has one
\* sequence of digits.
LEMMA QuotientIsUnique ==
    ASSUME NEW d \in Nat, d > 0, NEW q \in Nat, NEW r \in 0..(d - 1),
           NEW p \in Nat, NEW s \in 0..(d - 1), d * q + r = d * p + s
    PROVE  q = p
<1>1. ASSUME NEW x \in Nat, NEW y \in Nat, x < y PROVE d * x + d <= d * y
  <2>1. y = x + (y - x) /\ y - x \in Nat /\ y - x >= 1
    BY <1>1
  <2> DEFINE z == y - x
  <2>2. z \in Nat /\ z >= 1 /\ d * y = d * x + d * z
    BY <2>1
  <2> HIDE DEF z
  <2>3. d * z >= d
    BY <2>2
  <2>4. d * x \in Int /\ d * y \in Int /\ d * z \in Int
    BY <2>2
  <2> QED
    BY <2>2, <2>3, <2>4
<1>2. d * q \in Int /\ d * p \in Int
  OBVIOUS
<1>3. ~(q < p)
  BY <1>1, <1>2
<1>4. ~(p < q)
  BY <1>1, <1>2
<1> QED
  BY <1>3, <1>4

\* Dividing twice is dividing by the product.
LEMMA DivideTwice ==
    ASSUME NEW v \in Nat, NEW d \in Nat, d > 0, NEW e \in Nat, e > 0
    PROVE  /\ d * e \in Nat /\ d * e > 0
           /\ (v \div d) \div e = v \div (d * e)
<1> DEFINE x == v \div d
           q == x \div e
           r == v % d
           s == x % e
           p == v \div (d * e)
           t == v % (d * e)
<1>1. d * e \in Nat /\ d * e > 0
  OBVIOUS
<1>2. x \in Nat /\ r \in 0..(d - 1) /\ v = d * x + r
  BY DivisionIsExact
<1>3. q \in Nat /\ s \in 0..(e - 1) /\ x = e * q + s
  <2> HIDE DEF x
  <2> QED
    BY <1>2, DivisionIsExact
<1>4. p \in Nat /\ t \in 0..(d * e - 1) /\ v = (d * e) * p + t
  BY <1>1, DivisionIsExact
<1> HIDE DEF x, q, r, s, p, t
<1>5. v = (d * e) * q + (d * s + r)
  BY <1>2, <1>3
<1>6. d * s + r \in 0..(d * e - 1)
  <2>1. d * s <= d * (e - 1)
    BY <1>3
  <2>2. d * (e - 1) = d * e - d /\ d * s \in Nat
    BY <1>3
  <2> QED
    BY <1>1, <1>2, <2>1, <2>2
<1>7. q = p
  <2> DEFINE f == d * e
             u == d * s + r
  <2>1. f \in Nat /\ f > 0 /\ u \in 0..(f - 1) /\ t \in 0..(f - 1)
        /\ f * q + u = f * p + t
    BY <1>1, <1>4, <1>5, <1>6
  <2> HIDE DEF f, u
  <2> QED
    BY <1>3, <1>4, <2>1, QuotientIsUnique
<1> QED
  BY <1>1, <1>7 DEF p, q, x

\* The digits above position k, as a number, grow by one digit from position
\* k + 1 to position k.
LEMMA NextDigit ==
    ASSUME NEW v \in Nat, NEW k \in 0..7
    PROVE  v \div Radix^k = (v \div Radix^(k + 1)) * Radix + ((v \div Radix^k) % Radix)
<1> DEFINE d == Radix^k
           x == v \div d
<1>1. d \in Nat /\ d > 0 /\ Radix^(k + 1) = d * Radix /\ Radix \in Nat /\ Radix > 0
  BY PowerAssumption, WordAssumption
<1> HIDE DEF d
<1>2. x \in Nat
  BY <1>1, DivisionIsExact
<1>3. x \div Radix = v \div (d * Radix)
  BY <1>1, DivideTwice
<1> HIDE DEF x
<1>4. x \div Radix \in Nat /\ x = Radix * (x \div Radix) + (x % Radix)
  BY <1>1, <1>2, DivisionIsExact
<1>5. x = (x \div Radix) * Radix + (x % Radix)
  BY <1>1, <1>4
<1> QED
  BY <1>1, <1>3, <1>5 DEF x, d

\* read_integer returns what write_integer stored, in either byte order, when
\* the value has no more digits than the width.
LEMMA IntegersReadBack ==
    ASSUME NEW v \in Word, NEW width \in Width, NEW order, v < Radix^width
    PROVE  Accumulate(Digits(v, width, order), width, order) = v
<1> DEFINE data == Digits(v, width, order)
           byte(k) == IF order = "little" THEN data[width - k] ELSE data[k - 1]
           Body(f) == [k \in 0..width |->
                         IF k = 0 THEN 0 ELSE f[k - 1] * Radix + byte(k)]
           value == CHOOSE f : f = Body(f)
           high == [k \in 0..width |-> v \div Radix^(width - k)]
<1>1. /\ width \in Nat /\ width <= 8 /\ v \in Nat /\ Radix \in Nat /\ Radix > 1
      /\ width \in 1..8
  BY WordAssumption DEF Word, Width
<1>2. ASSUME NEW k \in 1..width
      PROVE  byte(k) = (v \div Radix^(width - k)) % Radix
  <2>1. width - k \in 0..(width - 1) /\ k - 1 \in 0..(width - 1)
        /\ width - (k - 1) - 1 = width - k
    BY <1>1, <1>2
  <2>2. CASE order = "little"
    BY <2>1, <2>2 DEF Digits
  <2>3. CASE order # "little"
    BY <2>1, <2>3 DEF Digits
  <2> QED
    BY <2>2, <2>3
<1>3. ASSUME NEW k \in 1..width
      PROVE  high[k] = high[k - 1] * Radix + byte(k)
  <2>1. width - k \in 0..7 /\ (width - k) + 1 = width - (k - 1)
        /\ k \in 0..width /\ k - 1 \in 0..width
    BY <1>1, <1>3
  <2>2. v \div Radix^(width - k)
          = (v \div Radix^((width - k) + 1)) * Radix
            + ((v \div Radix^(width - k)) % Radix)
    BY <1>1, <2>1, NextDigit
  <2> HIDE DEF byte
  <2> QED
    BY <1>2, <2>1, <2>2
<1>4. high[0] = 0
  <2>1. Radix^width \in Nat /\ Radix^width > 0
    BY <1>1, PowerAssumption
  <2> DEFINE d == Radix^width
  <2>2. d \in Nat /\ d > 0 /\ v < d
    BY <2>1
  <2> HIDE DEF d
  <2>3. v \div d = 0
    BY <1>1, <2>2
  <2>4. width - 0 = width /\ 0 \in 0..width
    BY <1>1
  <2> QED
    BY <2>3, <2>4 DEF d
<1>5. high[width] = v
  <2>1. width - width = 0 /\ width \in 0..width
    BY <1>1
  <2>2. v \div 1 = v
    BY <1>1
  <2> QED
    BY <2>1, <2>2, PowerAssumption
<1>6. high = Body(high)
  <2>1. \A k \in 0..width : k # 0 => k \in 1..width
    BY <1>1
  <2>2. high = [k \in 0..width |-> high[k]]
    OBVIOUS
  <2> HIDE DEF high, byte
  <2> QED
    BY <1>3, <1>4, <2>1, <2>2
<1>7. value = Body(value)
  <2> HIDE DEF Body, high
  <2> QED
    BY <1>6
<1>8. \A k \in 0..width : value[k] = high[k]
  <2> DEFINE S == {k \in Nat : k <= width => value[k] = high[k]}
  <2> HIDE DEF value, high, byte
  <2>1. 0 \in S
    BY <1>1, <1>4, <1>7
  <2>2. ASSUME NEW k \in Nat, k \in S PROVE k + 1 \in S
    <3>1. SUFFICES ASSUME k + 1 <= width PROVE value[k + 1] = high[k + 1]
      OBVIOUS
    <3>2. k + 1 \in 1..width /\ (k + 1) - 1 = k /\ value[k] = high[k]
          /\ k + 1 \in 0..width /\ k + 1 # 0
      BY <1>1, <2>2, <3>1
    <3>3. value[k + 1] = value[(k + 1) - 1] * Radix + byte(k + 1)
      BY <1>7, <3>2
    <3>4. high[k + 1] = high[(k + 1) - 1] * Radix + byte(k + 1)
      BY <1>3, <3>2
    <3> QED
      BY <3>2, <3>3, <3>4
  <2>3. Nat \subseteq S
    <3> HIDE DEF S
    <3> QED
      BY <2>1, <2>2, SetInduction
  <2> QED
    BY <1>1, <2>3
<1>9. Accumulate(data, width, order) = value[width]
  BY DEF Accumulate
<1>10. width \in 0..width
  BY <1>1
<1> HIDE DEF value, high, data
<1> QED
  BY <1>5, <1>8, <1>9, <1>10 DEF data
===============================================================================
