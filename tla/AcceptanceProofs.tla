--------------------------- MODULE AcceptanceProofs ---------------------------
(***************************************************************************)
(* What Reachable is, for every program and stream: the least set of       *)
(* places that has the beginning and that no step leaves.  It is defined   *)
(* by counting rounds, so its facts are proved by counting through a set   *)
(* of numbers.                                                             *)
(***************************************************************************)
EXTENDS Acceptance, FiniteSetTheorems, WellFoundedInduction, TLAPS

\* A set of naturals that has 0 and with each number the next one has them all.
LEMMA Counting ==
    ASSUME NEW S, 0 \in S, \A n \in Nat : n \in S => n + 1 \in S
    PROVE  Nat \subseteq S
<1> DEFINE T == Nat \ S
<1> SUFFICES ASSUME T # {} PROVE FALSE
  OBVIOUS
<1>1. PICK x \in T : \A y \in T : ~ (<<y, x>> \in OpToRel(<, Nat))
  BY WFMin, NatLessThanWellFounded
<1>2. x # 0 /\ x - 1 \in Nat /\ x - 1 < x
  OBVIOUS
<1>3. x - 1 \in T
  BY <1>2
<1>4. <<x - 1, x>> \in OpToRel(<, Nat)
  BY <1>2 DEF OpToRel
<1> QED BY <1>1, <1>3, <1>4

-----------------------------------------------------------------------------
(* Closures. *)

\* f has what has come of a after each number of rounds, all in U.
Grows(f, U, a, F) ==
    f \in [Nat -> SUBSET U] /\ f[0] = {a} /\ \A n \in Nat : f[n + 1] = More(F, f[n])

\* There is such a function if nothing leaves U.
LEMMA Growing ==
    ASSUME NEW U, NEW a \in U, NEW F \in [U -> SUBSET U]
    PROVE  \E f : Grows(f, U, a, F)
<1> DEFINE Upto(g, m) ==
               /\ g \in [0 .. m -> SUBSET U]
               /\ g[0] = {a}
               /\ \A k \in 0 .. m - 1 : g[k + 1] = More(F, g[k])
           S == {m \in Nat : \E g : Upto(g, m)}
<1>1. 0 \in S
  <2>1. Upto([k \in 0 .. 0 |-> {a}], 0)
    OBVIOUS
  <2> QED BY <2>1
<1>2. ASSUME NEW m \in Nat, m \in S PROVE m + 1 \in S
  <2>1. PICK g : Upto(g, m)
    BY <1>2
  <2> DEFINE h == [k \in 0 .. m + 1 |-> IF k = m + 1 THEN More(F, g[m]) ELSE g[k]]
  <2>2. h \in [0 .. m + 1 -> SUBSET U]
    <3>1. g[m] \in SUBSET U
      BY <2>1
    <3>2. More(F, g[m]) \in SUBSET U
      BY <3>1 DEF More
    <3> QED BY <2>1, <3>2
  <2>3. h[0] = {a}
    BY <2>1
  <2>4. ASSUME NEW k \in 0 .. (m + 1) - 1 PROVE h[k + 1] = More(F, h[k])
    <3>1. CASE k = m
      BY <3>1
    <3>2. CASE k # m
      BY <2>1, <3>2
    <3> QED BY <3>1, <3>2
  <2>5. Upto(h, m + 1)
    BY <2>2, <2>3, <2>4
  <2> HIDE DEF Upto
  <2> QED BY <2>5
<1>3. Nat \subseteq S
  <2> HIDE DEF S
  <2> QED BY <1>1, <1>2, Counting
<1>4. ASSUME NEW g, NEW h, NEW m \in Nat, NEW l \in Nat, Upto(g, m), Upto(h, l)
      PROVE  \A k \in Nat : k <= m /\ k <= l => g[k] = h[k]
  <2> DEFINE E == {k \in Nat : k <= m /\ k <= l => g[k] = h[k]}
  <2>1. 0 \in E
    BY <1>4
  <2>2. ASSUME NEW k \in Nat, k \in E PROVE k + 1 \in E
    <3> SUFFICES ASSUME k + 1 <= m, k + 1 <= l PROVE g[k + 1] = h[k + 1]
      OBVIOUS
    <3>1. g[k] = h[k] /\ k \in 0 .. m - 1 /\ k \in 0 .. l - 1
      BY <2>2
    <3> QED BY <1>4, <3>1
  <2>3. Nat \subseteq E
    <3> HIDE DEF E
    <3> QED BY <2>1, <2>2, Counting
  <2> QED BY <2>3
<1> DEFINE run(m) == CHOOSE g : Upto(g, m)
           f == [m \in Nat |-> run(m)[m]]
<1>5. \A m \in Nat : Upto(run(m), m)
  <2> HIDE DEF Upto
  <2> QED BY <1>3
<1>6. f \in [Nat -> SUBSET U]
  <2> HIDE DEF run
  <2> QED BY <1>5
<1>7. f[0] = {a}
  <2> HIDE DEF run
  <2> QED BY <1>5
<1>8. ASSUME NEW n \in Nat PROVE f[n + 1] = More(F, f[n])
  <2> HIDE DEF run
  <2>1. Upto(run(n), n) /\ Upto(run(n + 1), n + 1)
    BY <1>5
  <2>2. run(n + 1)[n] = run(n)[n]
    <3> HIDE DEF Upto
    <3> QED BY <1>4, <2>1
  <2>3. run(n + 1)[n + 1] = More(F, run(n + 1)[n])
    BY <2>1
  <2> QED BY <2>2, <2>3
<1> QED BY <1>6, <1>7, <1>8 DEF Grows

\* A closure is what has come of its beginning after as many rounds as there are elements.
LEMMA Within ==
    ASSUME NEW U, IsFiniteSet(U), NEW a \in U, NEW F \in [U -> SUBSET U]
    PROVE  \E f : Grows(f, U, a, F) /\ Closure(a, F) = f[Cardinality(U)]
<1> DEFINE N == Cardinality(U)
           Counts(h) == h = [n \in Nat |-> IF n = 0 THEN {a} ELSE More(F, h[n - 1])]
           within == CHOOSE h : Counts(h)
<1>1. PICK f : Grows(f, U, a, F)
  BY Growing
<1>2. Counts(f)
  <2>1. ASSUME NEW k \in Nat, k # 0 PROVE f[k] = More(F, f[k - 1])
    <3>1. k - 1 \in Nat /\ (k - 1) + 1 = k
      BY <2>1
    <3> QED BY <1>1, <3>1 DEF Grows
  <2> QED BY <1>1, <2>1 DEF Grows
<1>3. Counts(within)
  <2> HIDE DEF Counts
  <2> QED BY <1>2
<1>4. Closure(a, F) = within[N]
  <2>1. DOMAIN F = U
    OBVIOUS
  <2>2. Closure(a, F) = within[Cardinality(DOMAIN F)]
    BY DEF Closure
  <2> QED BY <2>1, <2>2, Zenon
<1>5. \A n \in Nat : within[n] = f[n]
  <2> DEFINE E == {k \in Nat : within[k] = f[k]}
  <2> HIDE DEF within
  <2>1. 0 \in E
    BY <1>1, <1>3 DEF Grows
  <2>2. ASSUME NEW k \in Nat, k \in E PROVE k + 1 \in E
    <3>1. k + 1 \in Nat /\ k + 1 # 0 /\ (k + 1) - 1 = k
      OBVIOUS
    <3>2. within[k + 1] = More(F, within[k])
      BY <1>3, <3>1
    <3> QED BY <1>1, <2>2, <3>1, <3>2 DEF Grows
  <2>3. Nat \subseteq E
    <3> HIDE DEF E
    <3> QED BY <2>1, <2>2, Counting
  <2> QED BY <2>3
<1>6. N \in Nat
  BY FS_CardinalityType
<1> HIDE DEF within, N
<1>7. Closure(a, F) = f[N]
  BY <1>4, <1>5, <1>6
<1> QED BY <1>1, <1>7 DEF N

\* A closure has its beginning, nothing leaves it, and it is the least such set: when the
\* elements have been counted through, a round that adds none has been made.
LEMMA ClosureLeast ==
    ASSUME NEW U, IsFiniteSet(U), NEW a \in U, NEW F \in [U -> SUBSET U]
    PROVE  /\ Closure(a, F) \subseteq U /\ a \in Closure(a, F)
           /\ \A e \in Closure(a, F) : F[e] \subseteq Closure(a, F)
           /\ \A R : /\ a \in R
                     /\ \A e \in R \cap U : F[e] \subseteq R
                     => Closure(a, F) \subseteq R
<1> DEFINE N == Cardinality(U)
<1>1. PICK f :
        /\ f \in [Nat -> SUBSET U] /\ f[0] = {a}
        /\ \A n \in Nat : f[n + 1] = More(F, f[n])
        /\ Closure(a, F) = f[N]
  <2>1. PICK f : Grows(f, U, a, F) /\ Closure(a, F) = f[Cardinality(U)]
    BY Within
  <2> QED BY <2>1 DEF Grows
<1>2. N \in Nat
  BY FS_CardinalityType
<1> HIDE DEF N
<1>3. ASSUME NEW n \in Nat
      PROVE  /\ f[n] \subseteq f[n + 1] /\ f[n] \subseteq U
             /\ IsFiniteSet(f[n]) /\ Cardinality(f[n]) \in Nat
             /\ Cardinality(f[n]) <= Cardinality(U)
  <2>1. f[n] \in SUBSET U
    BY <1>1
  <2>2. f[n] \subseteq f[n + 1]
    BY <1>1 DEF More
  <2>3. IsFiniteSet(f[n]) /\ Cardinality(f[n]) <= Cardinality(U)
    BY <1>2, <2>1, FS_Subset
  <2> QED BY <2>1, <2>2, <2>3, FS_CardinalityType
<1>4. a \in f[N]
  <2> DEFINE E == {n \in Nat : a \in f[n]}
  <2>1. 0 \in E
    BY <1>1
  <2>2. ASSUME NEW n \in Nat, n \in E PROVE n + 1 \in E
    <3>1. f[n] \subseteq f[n + 1]
      BY <1>3, Zenon
    <3>2. n + 1 \in Nat
      OBVIOUS
    <3> QED BY <2>2, <3>1, <3>2
  <2>3. Nat \subseteq E
    <3> HIDE DEF E
    <3> QED BY <2>1, <2>2, Counting
  <2> QED BY <1>2, <2>3
<1>5. f[N + 1] = f[N]
  <2> DEFINE E == {n \in Nat : f[n + 1] = f[n] \/ Cardinality(f[n]) >= n + 1}
  <2>1. 0 \in E
    <3>1. Cardinality(f[0]) = 1
      BY <1>1, FS_Singleton
    <3> QED BY <3>1
  <2>2. ASSUME NEW n \in Nat, n \in E PROVE n + 1 \in E
    <3>1. CASE f[n + 1] = f[n]
      <4>1. f[(n + 1) + 1] = f[n + 1]
        BY <1>1, <3>1
      <4> QED BY <4>1
    <3>2. CASE f[n + 1] # f[n]
      <4>1. Cardinality(f[n]) >= n + 1
        BY <2>2, <3>2
      <4>2. /\ f[n] \in SUBSET f[n + 1] /\ IsFiniteSet(f[n + 1])
            /\ Cardinality(f[n + 1]) \in Nat /\ Cardinality(f[n]) \in Nat
        <5>1. n + 1 \in Nat
          OBVIOUS
        <5>2. f[n] \subseteq f[n + 1] /\ Cardinality(f[n]) \in Nat
          BY <1>3, Zenon
        <5>3. IsFiniteSet(f[n + 1]) /\ Cardinality(f[n + 1]) \in Nat
          BY <1>3, <5>1, Zenon
        <5> QED BY <5>2, <5>3
      <4>3. /\ Cardinality(f[n]) <= Cardinality(f[n + 1])
            /\ Cardinality(f[n]) # Cardinality(f[n + 1])
        BY <3>2, <4>2, FS_Subset
      <4>4. Cardinality(f[n + 1]) >= (n + 1) + 1
        BY <4>1, <4>2, <4>3
      <4> QED BY <4>4
    <3> QED BY <3>1, <3>2
  <2>3. Nat \subseteq E
    <3> HIDE DEF E
    <3> QED BY <2>1, <2>2, Counting
  <2>4. Cardinality(f[N]) <= N /\ Cardinality(f[N]) \in Nat
    BY <1>2, <1>3 DEF N
  <2> QED BY <1>2, <2>3, <2>4
<1>6. \A e \in f[N] : F[e] \subseteq f[N]
  BY <1>1, <1>2, <1>5 DEF More
<1>7. ASSUME NEW R, a \in R, \A e \in R \cap U : F[e] \subseteq R
      PROVE  f[N] \subseteq R
  <2> DEFINE E == {n \in Nat : f[n] \subseteq R}
  <2>1. 0 \in E
    BY <1>1, <1>7
  <2>2. \A n \in Nat : n \in E => n + 1 \in E
    BY <1>1, <1>7 DEF More
  <2>3. Nat \subseteq E
    <3> HIDE DEF E
    <3> QED BY <2>1, <2>2, Counting
  <2> QED BY <1>2, <2>3
<1>8. f[N] \subseteq U
  BY <1>2, <1>3
<1>9. Closure(a, F) = f[N]
  BY <1>1
<1> QED BY <1>4, <1>6, <1>7, <1>8, <1>9

-----------------------------------------------------------------------------
(* Places. *)

\* A step leads from a place to places.
LEMMA StepsInside ==
    ASSUME NEW p, WellFormedCode(p), NEW s \in Seq(Byte), NEW place \in Places(p, s)
    PROVE  Steps(p, s, place) \subseteq Places(p, s)
<1> DEFINE ins == p.code[place[1]]
<1>1. place[1] \in Live(p) /\ place[2] \in 0 .. Len(s) /\ Len(s) \in Nat
  BY DEF Places
<1>2. Leads(ins, place[1]) \subseteq Live(p)
  BY <1>1 DEF WellFormedCode
<1>3. Permits(ins, s, place[2]) /\ ins.op \in Consumers => place[2] + 1 \in 0 .. Len(s)
  BY <1>1 DEF Permits, Consumers
<1> QED BY <1>1, <1>2, <1>3 DEF Steps, Places

LEMMA LiveFinite == ASSUME NEW p, WellFormedCode(p) PROVE IsFiniteSet(Live(p))
<1>1. IsFiniteSet(Pcs(p)) /\ Live(p) \in SUBSET Pcs(p)
  BY DEF WellFormedCode, Live
<1> QED BY <1>1, FS_Subset

\* A program and a stream have finitely many places.
LEMMA PlacesFinite ==
    ASSUME NEW p, WellFormedCode(p), NEW s \in Seq(Byte)
    PROVE  IsFiniteSet(Places(p, s))
<1>1. IsFiniteSet(0 .. Len(s))
  BY FS_Interval
<1> QED BY <1>1, LiveFinite, FS_Product DEF Places

\* Reachable has the beginning, is left by no step, and is the least such set.
LEMMA ReachableClosed ==
    ASSUME NEW p, WellFormedCode(p), NEW s \in Seq(Byte)
    PROVE  /\ Reachable(p, s) \subseteq Places(p, s) /\ <<0, 0>> \in Reachable(p, s)
           /\ \A place \in Reachable(p, s) : Steps(p, s, place) \subseteq Reachable(p, s)
           /\ \A R : /\ <<0, 0>> \in R
                     /\ \A place \in R \cap Places(p, s) : Steps(p, s, place) \subseteq R
                     => Reachable(p, s) \subseteq R
<1> DEFINE U == Places(p, s)
           F == [place \in U |-> Steps(p, s, place)]
<1>1. IsFiniteSet(U) /\ <<0, 0>> \in U
  BY PlacesFinite DEF WellFormedCode, Places
<1>2. F \in [U -> SUBSET U]
  BY StepsInside
<1>3. Reachable(p, s) = Closure(<<0, 0>>, F)
  BY DEF Reachable
<1>4. \A place \in U : F[place] = Steps(p, s, place)
  OBVIOUS
<1> HIDE DEF U, F
<1>5. /\ Closure(<<0, 0>>, F) \subseteq U /\ <<0, 0>> \in Closure(<<0, 0>>, F)
      /\ \A e \in Closure(<<0, 0>>, F) : F[e] \subseteq Closure(<<0, 0>>, F)
      /\ \A R : /\ <<0, 0>> \in R
                /\ \A e \in R \cap U : F[e] \subseteq R
                => Closure(<<0, 0>>, F) \subseteq R
  BY <1>1, <1>2, ClosureLeast
<1> QED BY <1>3, <1>4, <1>5 DEF U

LEMMA ReachableLeast ==
    ASSUME NEW p, WellFormed(p), NEW s \in Seq(Byte)
    PROVE  /\ Reachable(p, s) \subseteq Places(p, s) /\ <<0, 0>> \in Reachable(p, s)
           /\ \A place \in Reachable(p, s) : Steps(p, s, place) \subseteq Reachable(p, s)
           /\ \A R : /\ <<0, 0>> \in R
                     /\ \A place \in R : Steps(p, s, place) \subseteq R
                     => Reachable(p, s) \subseteq R
<1>1. WellFormedCode(p)
  BY DEF WellFormed
<1> QED BY <1>1, ReachableClosed
=============================================================================
