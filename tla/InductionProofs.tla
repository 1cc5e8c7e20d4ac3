---------------------------- MODULE InductionProofs ----------------------------
(***************************************************************************)
(* Induction over the naturals in the form in which the other proofs use   *)
(* it: for a set, which the provers can instantiate.                       *)
(***************************************************************************)
EXTENDS Integers, WellFoundedInduction, TLAPS

\* A nonempty set of naturals has a least element: std::map iteration and
\* lower_bound always find a first key.
LEMMA LeastElement ==
    ASSUME NEW S \in SUBSET Nat, S # {}
    PROVE  \E m \in S : \A x \in S : m <= x
<1>1. \E m \in S : \A x \in S : ~(<<x, m>> \in OpToRel(<, Nat))
  BY NatLessThanWellFounded, WFMin
<1>2. PICK m \in S : \A x \in S : ~(<<x, m>> \in OpToRel(<, Nat))
  BY <1>1
<1>3. \A x \in S : ~(x < m)
  BY <1>2 DEF OpToRel
<1>4. \A x \in S : x \in Nat /\ m \in Nat
  BY <1>2
<1>5. \A x \in S : m <= x
  BY <1>3, <1>4
<1> QED
  BY <1>2, <1>5

\* Induction, for a set: loops over the entries of a table are reasoned about
\* with it.
LEMMA SetInduction ==
    ASSUME NEW S, 0 \in S, \A n \in Nat : n \in S => n + 1 \in S
    PROVE  Nat \subseteq S
<1> DEFINE rest == Nat \ S
<1>1. SUFFICES ASSUME rest # {} PROVE FALSE
  OBVIOUS
<1>2. PICK m \in rest : \A x \in rest : m <= x
  BY <1>1, LeastElement
<1>3. m \in Nat /\ m # 0
  BY <1>2
<1>4. m - 1 \in Nat /\ m - 1 \notin rest
  BY <1>2, <1>3
<1>5. (m - 1) + 1 \in S
  BY <1>4
<1> QED
  BY <1>2, <1>3, <1>5

\* Sums that are added up in a loop exist: the running total after each turn.
LEMMA RunningTotals ==
    ASSUME NEW n \in Nat, NEW g, \A k \in 1..n : g[k] \in Nat
    PROVE  \E f : f = [k \in 0..n |-> IF k = 0 THEN 0 ELSE f[k - 1] + g[k]]
<1> DEFINE Body(f, m) == [k \in 0..m |-> IF k = 0 THEN 0 ELSE f[k - 1] + g[k]]
           S == {m \in Nat : m <= n => \E f : f = Body(f, m)}
<1>1. 0 \in S
  <2> DEFINE f0 == [k \in 0..0 |-> 0]
  <2>1. f0 = Body(f0, 0)
    OBVIOUS
  <2> QED
    BY <2>1
<1>2. ASSUME NEW m \in Nat, m \in S PROVE m + 1 \in S
  <2>1. CASE m + 1 <= n
    <3>1. PICK f : f = Body(f, m)
      BY <1>2, <2>1
    <3> DEFINE next == [k \in 0..(m + 1) |->
                          IF k = m + 1 THEN f[m] + g[m + 1] ELSE f[k]]
    <3>2. \A k \in 0..m : f[k] = IF k = 0 THEN 0 ELSE f[k - 1] + g[k]
      BY <3>1
    <3>3. \A k \in 0..(m + 1) :
             next[k] = IF k = 0 THEN 0 ELSE next[k - 1] + g[k]
      BY <3>2
    <3>4. next = Body(next, m + 1)
      <4>1. DOMAIN next = 0..(m + 1)
              /\ next = [k \in 0..(m + 1) |-> next[k]]
        OBVIOUS
      <4> HIDE DEF next
      <4> QED
        BY <3>3, <4>1
    <3> HIDE DEF next
    <3> QED
      BY <3>4
  <2>2. CASE ~(m + 1 <= n)
    BY <2>2
  <2> QED
    BY <2>1, <2>2
<1> HIDE DEF S
<1>3. Nat \subseteq S
  BY <1>1, <1>2, SetInduction
<1>4. n \in S
  BY <1>3
<1> QED
  BY <1>4 DEF S

-----------------------------------------------------------------------------
(* Loops that build a value turn by turn.                                  *)

\* The value of the loop after each of n turns.
LoopValues(f, n, T, base, step) ==
    /\ f \in [0..n -> T] /\ f[0] = base
    /\ \A k \in 1..n : f[k] = step[k][f[k - 1]]

\* Such a loop has a value after each turn.
LEMMA LoopsExist ==
    ASSUME NEW n \in Nat, NEW T, NEW base \in T, NEW step,
           \A k \in 1..n : \A s \in T : step[k][s] \in T
    PROVE  \E f : LoopValues(f, n, T, base, step)
<1> DEFINE S == {m \in Nat : m <= n => \E f : LoopValues(f, m, T, base, step)}
<1>1. 0 \in S
  <2> DEFINE f0 == [k \in 0..0 |-> base]
  <2>1. f0 \in [0..0 -> T] /\ f0[0] = base /\ 1..0 = {}
    OBVIOUS
  <2>2. LoopValues(f0, 0, T, base, step)
    BY <2>1 DEF LoopValues
  <2> QED
    BY <2>2
<1>2. ASSUME NEW m \in Nat, m \in S PROVE m + 1 \in S
  <2>1. SUFFICES ASSUME m + 1 <= n
                 PROVE  \E f : LoopValues(f, m + 1, T, base, step)
    OBVIOUS
  <2>2. m <= n /\ m + 1 \in 1..n
    BY <2>1
  <2>3. PICK f : LoopValues(f, m, T, base, step)
    BY <1>2, <2>2
  <2>4. /\ f \in [0..m -> T] /\ f[0] = base
        /\ \A k \in 1..m : f[k] = step[k][f[k - 1]]
    BY <2>3 DEF LoopValues
  <2>5. step[m + 1][f[m]] \in T
    BY <2>2, <2>4
  <2> DEFINE z == step[m + 1][f[m]]
             next == [k \in 0..(m + 1) |-> IF k = m + 1 THEN z ELSE f[k]]
  <2>6. next[m + 1] = z /\ \A k \in 0..m : next[k] = f[k]
    OBVIOUS
  <2>7. next \in [0..(m + 1) -> T]
    BY <2>4, <2>5
  <2> HIDE DEF next
  <2>8. \A k \in 1..(m + 1) : next[k] = step[k][next[k - 1]]
    <3> TAKE k \in 1..(m + 1)
    <3>1. CASE k = m + 1
      <4>1. k - 1 = m /\ m \in 0..m
        BY <3>1
      <4> QED
        BY <2>6, <3>1, <4>1
    <3>2. CASE k # m + 1
      <4>1. k \in 1..m /\ k \in 0..m /\ k - 1 \in 0..m
        BY <3>2
      <4> QED
        BY <2>4, <2>6, <4>1
    <3> QED
      BY <3>1, <3>2
  <2>9. next[0] = base
    BY <2>4, <2>6
  <2>10. LoopValues(next, m + 1, T, base, step)
    BY <2>7, <2>8, <2>9 DEF LoopValues
  <2> QED
    BY <2>10
<1> HIDE DEF S
<1>3. n \in S
  BY <1>1, <1>2, SetInduction
<1> QED
  BY <1>3 DEF S
================================================================================
