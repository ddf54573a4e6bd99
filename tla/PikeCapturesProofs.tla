------------------------- MODULE PikeCapturesProofs -------------------------
(***************************************************************************)
(* Theorems about the captures of PikeVM, for every program, stream and    *)
(* caller: no capture is recycled, or written, under somebody who holds it.*)
(***************************************************************************)
EXTENDS PikeThreadsProofs, FiniteSetTheorems

(***************************************************************************)
(* A set of holders and the references that are counted for it.            *)
(***************************************************************************)
Covered(S, ref) == IsFiniteSet(S) /\ Cardinality(S) <= ref

\* Fewer holders, or more references.
LEMMA CoveredSub ==
    ASSUME NEW S, NEW T, NEW r \in Int, NEW q \in Int, Covered(S, r), T \subseteq S, r <= q
    PROVE  Covered(T, q)
<1>1. IsFiniteSet(S) /\ IsFiniteSet(T) /\ Cardinality(T) <= Cardinality(S)
  BY FS_Subset DEF Covered
<1>2. Cardinality(S) \in Nat /\ Cardinality(T) \in Nat /\ Cardinality(S) <= r
  BY <1>1, FS_CardinalityType DEF Covered
<1>3. Cardinality(T) <= q
  BY <1>1, <1>2
<1> QED BY <1>1, <1>3 DEF Covered

\* One holder less: one reference may be dropped.
LEMMA CoveredLose ==
    ASSUME NEW S, NEW T, NEW r \in Int, NEW x \in S, Covered(S, r), T \subseteq S \ {x}
    PROVE  Covered(T, r - 1)
<1>1. IsFiniteSet(S) /\ Cardinality(S) \in Nat /\ Cardinality(S) <= r
  BY FS_CardinalityType DEF Covered
<1>2. IsFiniteSet(S \ {x}) /\ Cardinality(S \ {x}) = Cardinality(S) - 1
  BY <1>1, FS_RemoveElement
<1>3. Cardinality(S \ {x}) <= r - 1 /\ r - 1 \in Int
  BY <1>1, <1>2
<1> QED BY <1>2, <1>3, CoveredSub DEF Covered

\* One holder more, with a reference of its own.
LEMMA CoveredGain ==
    ASSUME NEW S, NEW T, NEW r \in Int, NEW y, Covered(S, r), T \subseteq S \cup {y}
    PROVE  Covered(T, r + 1)
<1>1. IsFiniteSet(S) /\ Cardinality(S) \in Nat /\ Cardinality(S) <= r
  BY FS_CardinalityType DEF Covered
<1>2. /\ IsFiniteSet(S \cup {y})
      /\ Cardinality(S \cup {y}) = IF y \in S THEN Cardinality(S) ELSE Cardinality(S) + 1
  BY <1>1, FS_AddElement
<1>3. Cardinality(S \cup {y}) <= r + 1 /\ r + 1 \in Int
  BY <1>1, <1>2
<1> QED BY <1>2, <1>3, CoveredSub DEF Covered

\* One holder hands its reference to another.
LEMMA CoveredTrade ==
    ASSUME NEW S, NEW T, NEW r \in Int, NEW x \in S, NEW y, Covered(S, r),
           T \subseteq (S \ {x}) \cup {y}
    PROVE  Covered(T, r)
<1>1. Covered(S \ {x}, r - 1)
  BY CoveredLose
<1>2. Covered(T, (r - 1) + 1)
  <2>1. r - 1 \in Int
    OBVIOUS
  <2> HIDE DEF Covered
  <2> QED BY <1>1, <2>1, CoveredGain
<1>3. (r - 1) + 1 = r
  OBVIOUS
<1> QED BY <1>2, <1>3

\* Whoever holds a capture is counted.
LEMMA CoveredIn ==
    ASSUME NEW S, NEW r \in Int, Covered(S, r)
    PROVE  (\A x : x \in S => r >= 1) /\ (r = 0 => S = {})
<1>1. IsFiniteSet(S) /\ Cardinality(S) \in Nat /\ Cardinality(S) <= r
  BY FS_CardinalityType DEF Covered
<1>2. Cardinality(S) = 0 <=> S = {}
  BY <1>1, FS_EmptySet
<1>3. ASSUME NEW x \in S PROVE r >= 1
  <2>1. Cardinality(S) # 0
    BY <1>2
  <2> QED BY <1>1, <2>1
<1>4. ASSUME r = 0 PROVE S = {}
  <2>1. Cardinality(S) = 0
    BY <1>1, <1>4
  <2> QED BY <1>2, <2>1
<1> QED BY <1>3, <1>4

\* The one holder that a new capture has.
LEMMA CoveredOne ==
    ASSUME NEW T, NEW y, T \subseteq {y}
    PROVE  Covered(T, 1)
<1>1. IsFiniteSet({y}) /\ Cardinality({y}) = 1
  BY FS_Singleton
<1>2. IsFiniteSet(T) /\ Cardinality(T) <= Cardinality({y})
  BY <1>1, FS_Subset
<1> QED BY <1>1, <1>2 DEF Covered

(***************************************************************************)
(* The list of the free captures, under the operations of SreCapture.      *)
(***************************************************************************)
FreeSound(h) ==
    /\ \A c \in Range(h.free) : h.cell[c].ref = 0
    /\ IsInjective(h.free)

\* What is on the free list is a capture.
LEMMA FreeAreCaptures ==
    ASSUME NEW C, NEW h \in Pools(C)
    PROVE  Range(h.free) \subseteq Captures(h)
<1>1. h.free \in Seq(1 .. Len(h.cell))
  BY PoolParts
<1> QED BY <1>1, RangeOfSeq DEF Captures

\* A capture with a reference is not free: counting references leaves the list sound.
LEMMA FreeSoundCounts ==
    ASSUME NEW Ids, NEW Vecs, NEW h \in Pools(Cells(Ids, Vecs)),
           NEW c \in Captures(h), FreeSound(h), h.cell[c].ref # 0
    PROVE  FreeSound(AddRef(h, c)) /\ FreeSound(DropRef(h, c)) /\ FreeSound(DecrRef(h, c))
<1>1. Range(h.free) \subseteq Captures(h)
  BY FreeAreCaptures
<1>2. c \notin Range(h.free)
  BY DEF FreeSound
<1>3. \A d \in Range(h.free) : h.cell[d].ref = 0 /\ d \in Captures(h) /\ d # c
  BY <1>1, <1>2 DEF FreeSound
<1>4. FreeSound(AddRef(h, c))
  <2>1. /\ AddRef(h, c).free = h.free
        /\ \A d \in Range(h.free) : AddRef(h, c).cell[d].ref = 0
    BY <1>3, AddRefEffect
  <2> QED BY <2>1 DEF FreeSound
<1>5. FreeSound(DropRef(h, c))
  <2>1. /\ DropRef(h, c).free = h.free
        /\ \A d \in Range(h.free) : DropRef(h, c).cell[d].ref = 0
    BY <1>3, DropRefEffect
  <2> QED BY <2>1 DEF FreeSound
<1>6. FreeSound(DecrRef(h, c))
  <2> DEFINE new == DecrRef(h, c)
  <2>1. ASSUME NEW d \in Captures(h)
        PROVE  /\ new.free = IF h.cell[c].ref = 1 THEN <<c>> \o h.free ELSE h.free
               /\ new.cell[d].ref = IF d = c THEN h.cell[d].ref - 1 ELSE h.cell[d].ref
    BY DecrRefEffect
  <2> SUFFICES FreeSound(new)
    OBVIOUS
  <2> HIDE DEF new
  <2>2. \A d \in Range(h.free) : new.cell[d].ref = 0
    BY <1>3, <2>1
  <2>3. CASE h.cell[c].ref = 1
    <3>1. new.free = <<c>> \o h.free /\ new.cell[c].ref = 0
      BY <2>3, <2>1
    <3>2. h.free \in Seq(1 .. Len(h.cell)) /\ c \in 1 .. Len(h.cell)
      BY PoolParts DEF Captures
    <3>3. Range(<<c>> \o h.free) = Range(h.free) \cup {c} /\ IsInjective(<<c>> \o h.free)
      BY <1>2, <3>2, PushRange DEF FreeSound
    <3> QED BY <2>2, <3>1, <3>3 DEF FreeSound
  <2>4. CASE h.cell[c].ref # 1
    <3>1. new.free = h.free
      BY <2>4, <2>1
    <3> QED BY <2>2, <3>1 DEF FreeSound
  <2> QED BY <2>3, <2>4
<1> QED BY <1>4, <1>5, <1>6

\* Writing into a capture leaves the references and the free list alone.
LEMMA FreeSoundWrites ==
    ASSUME NEW Ids, NEW Vecs, NEW h \in Pools(Cells(Ids, Vecs)),
           NEW c \in Captures(h), FreeSound(h)
    PROVE  /\ \A id \in Ids : FreeSound(WithId(h, c, id))
           /\ \A v \in Vecs : FreeSound(WithVector(h, c, v))
<1>1. \A d \in Range(h.free) : h.cell[d].ref = 0 /\ d \in Captures(h)
  BY FreeAreCaptures DEF FreeSound
<1>2. ASSUME NEW id \in Ids PROVE FreeSound(WithId(h, c, id))
  <2>1. /\ WithId(h, c, id).free = h.free
        /\ \A d \in Captures(h) : WithId(h, c, id).cell[d].ref = h.cell[d].ref
    BY WithIdEffect
  <2> QED BY <1>1, <2>1 DEF FreeSound
<1>3. ASSUME NEW v \in Vecs PROVE FreeSound(WithVector(h, c, v))
  <2>1. /\ WithVector(h, c, v).free = h.free
        /\ \A d \in Captures(h) : WithVector(h, c, v).cell[d].ref = h.cell[d].ref
    BY WithVectorEffect
  <2> QED BY <1>1, <2>1 DEF FreeSound
<1> QED BY <1>2, <1>3

\* What sre_capture_create takes is no longer free.
LEMMA FreeSoundTake ==
    ASSUME NEW Ids, NEW Vecs, 0 \in Ids,
           NEW h \in Pools(Cells(Ids, Vecs)), NEW v \in Vecs, FreeSound(h)
    PROVE  FreeSound(Take(h, v)) /\ Fresh(h) \notin Range(Take(h, v).free)
<1>1. /\ Take(h, v).free = IF FromPool(h) THEN <<>> ELSE Tail(h.free)
      /\ \A d \in Captures(h) : d # Fresh(h) => Take(h, v).cell[d] = h.cell[d]
  BY TakeEffect
<1>2. CASE FromPool(h)
  BY <1>1, <1>2, EmptyRange DEF FreeSound
<1>3. CASE ~FromPool(h)
  <2>1. h.free # <<>> /\ Fresh(h) = Head(h.free) /\ h.free \in Seq(1 .. Len(h.cell))
    BY <1>3, PoolParts DEF FromPool, Fresh
  <2>2. /\ IsInjective(Tail(h.free))
        /\ Range(Tail(h.free)) = Range(h.free) \ {Fresh(h)}
    BY <2>1, PopRange DEF FreeSound
  <2>3. \A d \in Range(Tail(h.free)) : Take(h, v).cell[d].ref = 0
    BY <1>1, <2>2, FreeAreCaptures DEF FreeSound
  <2> QED BY <1>1, <1>3, <2>2, <2>3 DEF FreeSound
<1> QED BY <1>2, <1>3

\* What sre_capture_update does to each capture: a shared one loses the reference of
\* the caller, who gets a capture of his own; any other is written in place.
LEMMA UpdateEffect ==
    ASSUME NEW Ids, NEW Vecs, 0 \in Ids,
           NEW h \in Pools(Cells(Ids, Vecs)), NEW c \in Captures(h), FreeSound(h),
           NEW group, NEW pos, Written(h.cell[c].vector, group, pos) \in Vecs,
           NEW new, new = CaptureUpdate(h, c, group, pos)
    PROVE  /\ FreeSound(new)
           /\ Captures(new) \subseteq Captures(h) \cup {Fresh(h)}
           /\ Shared(h, c) =>
                /\ Fresh(h) # c /\ UpdateTarget(h, c) = Fresh(h)
                /\ new.cell[c].ref = h.cell[c].ref - 1
                /\ new.cell[Fresh(h)].ref = 1
                /\ \A d \in Captures(h) : d \notin {c, Fresh(h)} =>
                      new.cell[d].ref = h.cell[d].ref
                /\ \A d \in Captures(h) : d # Fresh(h) =>
                      new.cell[d].vector = h.cell[d].vector
           /\ ~Shared(h, c) =>
                /\ UpdateTarget(h, c) = c /\ Captures(new) = Captures(h)
                /\ \A d \in Captures(h) : new.cell[d].ref = h.cell[d].ref
                /\ \A d \in Captures(h) : d # c => new.cell[d].vector = h.cell[d].vector
<1> DEFINE vector == Written(h.cell[c].vector, group, pos)
           taken == Take(h, vector)
<1>1. vector \in Vecs /\ Len(h.cell) \in Nat
  BY PoolParts
<1>2. CASE Shared(h, c)
  <2>1. new = DropRef(taken, c) /\ UpdateTarget(h, c) = Fresh(h)
    BY <1>2 DEF CaptureUpdate, UpdateTarget
  <2> HIDE DEF vector
  <2>2. /\ taken \in Pools(Cells(Ids, Vecs)) /\ Fresh(h) \in 1 .. Len(taken.cell)
        /\ Len(taken.cell) = IF FromPool(h) THEN Len(h.cell) + 1 ELSE Len(h.cell)
        /\ taken.cell[Fresh(h)].ref = 1
        /\ \A d \in Captures(h) : d # Fresh(h) => taken.cell[d] = h.cell[d]
        /\ FreeSound(taken)
    BY <1>1, TakeEffect, FreeSoundTake
  <2> HIDE DEF taken
  <2>3. h.cell[c].ref \in Int /\ h.cell[c].ref > 1
    BY <1>2, CellParts DEF Shared
  <2>4. Fresh(h) # c
    <3>1. CASE FromPool(h)
      <4>1. Fresh(h) = Len(h.cell) + 1
        BY <3>1 DEF Fresh, FromPool
      <4> QED BY <1>1, <4>1 DEF Captures
    <3>2. CASE ~FromPool(h)
      <4>1. h.free # <<>> /\ Fresh(h) = Head(h.free) /\ h.free \in Seq(1 .. Len(h.cell))
        BY <3>2, PoolParts DEF FromPool, Fresh
      <4>2. Fresh(h) \in Range(h.free)
        BY <4>1, PopRange DEF FreeSound
      <4>3. h.cell[Fresh(h)].ref = 0
        BY <4>2 DEF FreeSound
      <4> QED BY <2>3, <4>3
    <3> QED BY <3>1, <3>2
  <2>5. Captures(h) \subseteq Captures(taken) /\ Fresh(h) \in Captures(taken)
    BY <1>1, <2>2 DEF Captures
  <2>6. c \in Captures(taken) /\ taken.cell[c] = h.cell[c]
    BY <2>2, <2>4, <2>5
  <2>7. /\ Len(new.cell) = Len(taken.cell)
        /\ \A d \in Captures(taken) :
              /\ new.cell[d].ref = IF d = c THEN taken.cell[d].ref - 1 ELSE taken.cell[d].ref
              /\ new.cell[d].vector = taken.cell[d].vector
    BY <2>1, <2>2, <2>6, DropRefEffect
  <2>8. FreeSound(new)
    <3>1. taken.cell[c].ref # 0
      BY <2>3, <2>6
    <3> QED BY <2>1, <2>2, <2>6, <3>1, FreeSoundCounts
  <2>9. Captures(new) \subseteq Captures(h) \cup {Fresh(h)}
    <3>1. CASE FromPool(h)
      <4>1. Fresh(h) = Len(h.cell) + 1
        BY <3>1 DEF Fresh, FromPool
      <4> QED BY <1>1, <2>2, <2>7, <3>1, <4>1 DEF Captures
    <3>2. CASE ~FromPool(h)
      BY <2>2, <2>7, <3>2 DEF Captures
    <3> QED BY <3>1, <3>2
  <2>10. new.cell[c].ref = h.cell[c].ref - 1 /\ new.cell[Fresh(h)].ref = 1
    BY <2>2, <2>4, <2>5, <2>6, <2>7
  <2>11. ASSUME NEW d \in Captures(h), d # Fresh(h)
         PROVE  /\ d # c => new.cell[d].ref = h.cell[d].ref
                /\ new.cell[d].vector = h.cell[d].vector
    BY <2>2, <2>5, <2>7, <2>11
  <2> QED BY <1>2, <2>1, <2>4, <2>8, <2>9, <2>10, <2>11
<1>3. CASE ~Shared(h, c)
  <2>1. new = WithVector(h, c, vector) /\ UpdateTarget(h, c) = c
    BY <1>3 DEF CaptureUpdate, UpdateTarget
  <2> HIDE DEF vector
  <2>2. /\ Len(new.cell) = Len(h.cell)
        /\ \A d \in Captures(h) :
              /\ new.cell[d].ref = h.cell[d].ref
              /\ d # c => new.cell[d].vector = h.cell[d].vector
    BY <1>1, <2>1, WithVectorEffect
  <2>3. FreeSound(new)
    BY <1>1, <2>1, FreeSoundWrites
  <2>4. Captures(new) = Captures(h)
    BY <2>2 DEF Captures
  <2> QED BY <1>3, <2>1, <2>2, <2>3, <2>4
<1> QED BY <1>2, <1>3

(***************************************************************************)
(* Who holds a capture: threads, pending branches, the innermost call, the *)
(* match.                                                                  *)
(***************************************************************************)
ThreadHolds(c) == {<<"thread", i>> : i \in {j \in Listed : Thread(j).cap = c}}
FrameHolds(c)  == {<<"frame", k>> : k \in {j \in DOMAIN stack : stack[j].cap = c}}
CallHold(c)    == IF CallHolds /\ call.cap = c THEN {<<"call", 0>>} ELSE {}
MatchHold(c)   == IF matched = c THEN {<<"matched", 0>>} ELSE {}

\* The match, and the innermost call, as holders.
TheMatch == <<"matched", 0>>
TheCall  == <<"call", 0>>

\* The holders by their kinds.
LEMMA HoldersParts ==
    ASSUME NEW c
    PROVE  Holders(c) = ThreadHolds(c) \cup FrameHolds(c) \cup CallHold(c) \cup MatchHold(c)
BY DEF Holders, ThreadHolds, FrameHolds, CallHold, MatchHold

\* The holders after a step, by their kinds.
LEMMA HoldersPartsNext ==
    ASSUME NEW c
    PROVE  Holders(c)' =
             ThreadHolds(c)' \cup FrameHolds(c)' \cup CallHold(c)' \cup MatchHold(c)'
BY DEF Holders, ThreadHolds, FrameHolds, CallHold, MatchHold

\* A holder is of one kind.
LEMMA HoldersApart ==
    ASSUME NEW c, NEW i
    PROVE  /\ <<"thread", i>> \notin FrameHolds(c) \cup CallHold(c) \cup MatchHold(c)
           /\ <<"frame", i>> \notin ThreadHolds(c) \cup CallHold(c) \cup MatchHold(c)
           /\ <<"call", i>> \notin ThreadHolds(c) \cup FrameHolds(c) \cup MatchHold(c)
           /\ <<"matched", i>> \notin ThreadHolds(c) \cup FrameHolds(c) \cup CallHold(c)
BY DEF ThreadHolds, FrameHolds, CallHold, MatchHold

\* No thread is listed anew, and none gets another capture.
LEMMA ThreadsKept ==
    ASSUME NEW c, Listed' \subseteq Listed, pool'.cell = pool.cell
    PROVE  ThreadHolds(c)' \subseteq ThreadHolds(c)
BY DEF ThreadHolds, Thread

\* Thread x leaves the lists.
LEMMA ThreadLeaves ==
    ASSUME NEW c, NEW x, Listed' \subseteq Listed \ {x}, pool'.cell = pool.cell
    PROVE  ThreadHolds(c)' \subseteq ThreadHolds(c) \ {<<"thread", x>>}
BY DEF ThreadHolds, Thread

\* Thread x, with capture k, joins the lists.
LEMMA ThreadJoins ==
    ASSUME NEW c, NEW x, NEW k, Listed' \subseteq Listed \cup {x},
           \A i \in Listed : pool'.cell[i] = pool.cell[i],
           pool'.cell[x].cap = k
    PROVE  /\ c = k => ThreadHolds(c)' \subseteq ThreadHolds(c) \cup {<<"thread", x>>}
           /\ c # k => ThreadHolds(c)' \subseteq ThreadHolds(c)
BY DEF ThreadHolds, Thread

\* The frames of a call that returns, or that fails, are gone.
LEMMA FramesKept ==
    ASSUME NEW c, stack' \in {stack, <<>>}
    PROVE  FrameHolds(c)' \subseteq FrameHolds(c)
<1>1. CASE stack' = stack
  BY <1>1 DEF FrameHolds
<1>2. CASE stack' = <<>>
  <2>1. DOMAIN stack' = {}
    BY <1>2
  <2> QED BY <2>1 DEF FrameHolds
<1> QED BY <1>1, <1>2

\* A branch with capture k is left for later.
LEMMA FramePushed ==
    ASSUME TypeOK, NEW c, NEW f \in Frames(prog, Len(heap.cell)), stack' = Append(stack, f)
    PROVE  /\ c = f.cap =>
                FrameHolds(c)' \subseteq FrameHolds(c) \cup {<<"frame", Len(stack) + 1>>}
           /\ c # f.cap => FrameHolds(c)' \subseteq FrameHolds(c)
<1>1. stack \in Seq(Frames(prog, Len(heap.cell)))
  BY DEF TypeOK, TypeOfCalls
<1>2. /\ Len(stack) \in Nat /\ DOMAIN stack = 1 .. Len(stack)
      /\ stack' \in Seq(Frames(prog, Len(heap.cell))) /\ Len(stack') = Len(stack) + 1
      /\ \A i \in 1 .. Len(stack) : stack'[i] = stack[i]
      /\ stack'[Len(stack) + 1] = f
  BY <1>1, LenProperties, AppendProperties
<1>3. DOMAIN stack' = 1 .. Len(stack) + 1
  BY <1>2, LenProperties
<1>4. ASSUME NEW k \in DOMAIN stack'
      PROVE  \/ k = Len(stack) + 1 /\ stack'[k] = f
             \/ k \in DOMAIN stack /\ stack'[k] = stack[k]
  <2>1. k = Len(stack) + 1 \/ k \in 1 .. Len(stack)
    BY <1>2, <1>3
  <2> QED BY <1>2, <2>1
<1> QED BY <1>4 DEF FrameHolds

\* The last branch left is taken.
LEMMA FramePopped ==
    ASSUME TypeOK, NEW c, stack # <<>>, stack' = SubSeq(stack, 1, Len(stack) - 1)
    PROVE  /\ FrameHolds(c)' \subseteq FrameHolds(c) \ {<<"frame", Len(stack)>>}
           /\ c = Top.cap => <<"frame", Len(stack)>> \in FrameHolds(c)
<1>1. stack \in Seq(Frames(prog, Len(heap.cell)))
  BY DEF TypeOK, TypeOfCalls
<1>2. Len(stack) \in Nat \ {0} /\ DOMAIN stack = 1 .. Len(stack)
  BY <1>1, LenProperties, EmptySeq
<1>3. \A i \in 1 .. Len(stack) - 1 : stack[i] \in Frames(prog, Len(heap.cell))
  BY <1>1, <1>2, ElementOfSeq
<1>4. /\ stack' \in Seq(Frames(prog, Len(heap.cell)))
      /\ Len(stack') = IF 1 <= Len(stack) - 1 THEN (Len(stack) - 1) - 1 + 1 ELSE 0
  BY <1>2, <1>3, SubSeqProperties
<1>5. Len(stack') = Len(stack) - 1
  BY <1>2, <1>4
<1>6. DOMAIN stack' = 1 .. Len(stack) - 1
  BY <1>4, <1>5, LenProperties
<1>7. ASSUME NEW k \in DOMAIN stack'
      PROVE  k \in DOMAIN stack /\ k # Len(stack) /\ stack'[k] = stack[k]
  <2>1. k \in 1 .. Len(stack) - 1 /\ k \in 1 .. Len(stack) /\ k # Len(stack)
    BY <1>2, <1>6
  <2>2. stack'[k] = stack[k]
    BY <1>2, <2>1
  <2> QED BY <1>2, <2>1, <2>2
<1>8. c = Top.cap => <<"frame", Len(stack)>> \in FrameHolds(c)
  BY <1>2 DEF FrameHolds, Top
<1> QED BY <1>7, <1>8 DEF FrameHolds

(***************************************************************************)
(* What a step leaves of the holders of a capture, put together.           *)
(***************************************************************************)

\* What a step takes from the holders, and gives, it takes and gives by kinds.
LEMMA HoldersMove ==
    ASSUME NEW c, NEW L, NEW G,
           ThreadHolds(c)' \subseteq (ThreadHolds(c) \ L) \cup G,
           FrameHolds(c)' \subseteq (FrameHolds(c) \ L) \cup G,
           CallHold(c)' \subseteq (CallHold(c) \ L) \cup G,
           MatchHold(c)' \subseteq (MatchHold(c) \ L) \cup G
    PROVE  Holders(c)' \subseteq (Holders(c) \ L) \cup G
<1> DEFINE parts == ThreadHolds(c) \cup FrameHolds(c) \cup CallHold(c) \cup MatchHold(c)
           next == ThreadHolds(c)' \cup FrameHolds(c)' \cup CallHold(c)' \cup MatchHold(c)'
<1>1. next \subseteq (parts \ L) \cup G
  OBVIOUS
<1> HIDE DEF parts, next
<1>2. Holders(c) = parts
  BY HoldersParts DEF parts
<1>3. Holders(c)' = next
  BY HoldersPartsNext DEF next
<1> QED BY <1>1, <1>2, <1>3

\* Nobody holds it who did not.
LEMMA HoldersKept ==
    ASSUME NEW c,
           Listed' \subseteq Listed, pool'.cell = pool.cell, stack' \in {stack, <<>>},
           CallHolds' /\ call'.cap = c => CallHolds /\ call.cap = c,
           matched' = c => matched = c
    PROVE  Holders(c)' \subseteq Holders(c)
<1>1. ThreadHolds(c)' \subseteq ThreadHolds(c) /\ FrameHolds(c)' \subseteq FrameHolds(c)
  BY ThreadsKept, FramesKept
<1>2. CallHold(c)' \subseteq CallHold(c) /\ MatchHold(c)' \subseteq MatchHold(c)
  BY DEF CallHold, MatchHold
<1>3. Holders(c)' \subseteq (Holders(c) \ {}) \cup {}
  BY <1>1, <1>2, HoldersMove
<1> QED BY <1>3

\* Thread x gives it up, or hands it to y: the innermost call or the match.
LEMMA ThreadReleases ==
    ASSUME NEW c, NEW x, x \in Listed, Thread(x).cap = c, NEW G,
           Listed' \subseteq Listed \ {x}, pool'.cell = pool.cell, stack' \in {stack, <<>>},
           CallHold(c)' \subseteq CallHold(c) \cup G, MatchHold(c)' \subseteq MatchHold(c) \cup G
    PROVE  /\ <<"thread", x>> \in Holders(c)
           /\ Holders(c)' \subseteq (Holders(c) \ {<<"thread", x>>}) \cup G
<1> DEFINE h == <<"thread", x>>
<1>1. ThreadHolds(c)' \subseteq ThreadHolds(c) \ {h}
  BY ThreadLeaves
<1>2. FrameHolds(c)' \subseteq FrameHolds(c)
  BY FramesKept
<1>3. h \notin FrameHolds(c) \cup CallHold(c) \cup MatchHold(c)
  BY HoldersApart
<1>4. h \in ThreadHolds(c)
  BY DEF ThreadHolds
<1> HIDE DEF h
<1> DEFINE L == {h}
<1>5. /\ ThreadHolds(c)' \subseteq (ThreadHolds(c) \ L) \cup G
      /\ FrameHolds(c)' \subseteq (FrameHolds(c) \ L) \cup G
      /\ CallHold(c)' \subseteq (CallHold(c) \ L) \cup G
      /\ MatchHold(c)' \subseteq (MatchHold(c) \ L) \cup G
  BY <1>1, <1>2, <1>3
<1> HIDE DEF L
<1>6. Holders(c)' \subseteq (Holders(c) \ L) \cup G
  BY <1>5, HoldersMove
<1>7. h \in Holders(c)
  BY <1>4, HoldersParts
<1> QED BY <1>6, <1>7 DEF h, L

\* The innermost call gives it up, or hands it on to a thread or to the match.
LEMMA CallReleases ==
    ASSUME NEW c, CallHolds, call.cap = c, NEW G,
           ~(CallHolds' /\ call'.cap = c), stack' \in {stack, <<>>},
           ThreadHolds(c)' \subseteq ThreadHolds(c) \cup G,
           MatchHold(c)' \subseteq MatchHold(c) \cup G
    PROVE  /\ <<"call", 0>> \in Holders(c)
           /\ Holders(c)' \subseteq (Holders(c) \ {<<"call", 0>>}) \cup G
<1> DEFINE h == <<"call", 0>>
<1>1. FrameHolds(c)' \subseteq FrameHolds(c) /\ CallHold(c)' = {} /\ h \in CallHold(c)
  BY FramesKept DEF CallHold
<1>2. h \notin ThreadHolds(c) \cup FrameHolds(c) \cup MatchHold(c)
  BY HoldersApart
<1> HIDE DEF h
<1>3. /\ ThreadHolds(c)' \subseteq (ThreadHolds(c) \ {h}) \cup G
      /\ FrameHolds(c)' \subseteq (FrameHolds(c) \ {h}) \cup G
      /\ CallHold(c)' \subseteq (CallHold(c) \ {h}) \cup G
      /\ MatchHold(c)' \subseteq (MatchHold(c) \ {h}) \cup G
  BY <1>1, <1>2
<1>4. Holders(c)' \subseteq (Holders(c) \ {h}) \cup G
  BY <1>3, HoldersMove
<1>5. h \in Holders(c)
  BY <1>1, HoldersParts
<1> QED BY <1>4, <1>5 DEF h

\* The match so far is replaced, or reported.
LEMMA MatchReleases ==
    ASSUME NEW c, matched = c, matched' # c,
           Listed' \subseteq Listed, pool'.cell = pool.cell, stack' \in {stack, <<>>},
           CallHold(c)' \subseteq CallHold(c)
    PROVE  /\ <<"matched", 0>> \in Holders(c)
           /\ Holders(c)' \subseteq Holders(c) \ {<<"matched", 0>>}
<1> DEFINE h == <<"matched", 0>>
<1>1. /\ ThreadHolds(c)' \subseteq ThreadHolds(c) /\ FrameHolds(c)' \subseteq FrameHolds(c)
      /\ MatchHold(c)' = {} /\ h \in MatchHold(c)
  BY ThreadsKept, FramesKept DEF MatchHold
<1>2. h \notin ThreadHolds(c) \cup FrameHolds(c) \cup CallHold(c)
  BY HoldersApart
<1> HIDE DEF h
<1>3. /\ ThreadHolds(c)' \subseteq (ThreadHolds(c) \ {h}) \cup {}
      /\ FrameHolds(c)' \subseteq (FrameHolds(c) \ {h}) \cup {}
      /\ CallHold(c)' \subseteq (CallHold(c) \ {h}) \cup {}
      /\ MatchHold(c)' \subseteq (MatchHold(c) \ {h}) \cup {}
  BY <1>1, <1>2
<1>4. Holders(c)' \subseteq (Holders(c) \ {h}) \cup {}
  BY <1>3, HoldersMove
<1>5. h \in Holders(c)
  BY <1>1, HoldersParts
<1> QED BY <1>4, <1>5 DEF h

\* The innermost call takes it, or a branch that is left for later does.
LEMMA HolderJoins ==
    ASSUME NEW c, NEW y, Listed' \subseteq Listed, pool'.cell = pool.cell,
           FrameHolds(c)' \subseteq FrameHolds(c) \cup {y},
           CallHold(c)' \subseteq CallHold(c) \cup {y}, matched' = matched
    PROVE  Holders(c)' \subseteq Holders(c) \cup {y}
<1>1. ThreadHolds(c)' \subseteq ThreadHolds(c) /\ MatchHold(c)' \subseteq MatchHold(c)
  BY ThreadsKept DEF MatchHold
<1>2. Holders(c)' \subseteq (Holders(c) \ {}) \cup {y}
  BY <1>1, HoldersMove
<1> QED BY <1>2

\* The branch on top of the stack is the innermost call now, or is dropped.
LEMMA FrameReleases ==
    ASSUME TypeOK, NEW c, c = Top.cap, NEW G, stack # <<>>,
           stack' = SubSeq(stack, 1, Len(stack) - 1), UNCHANGED <<pool, lists, matched>>,
           CallHold(c)' \subseteq CallHold(c) \cup G
    PROVE  /\ <<"frame", Len(stack)>> \in Holders(c)
           /\ Holders(c)' \subseteq (Holders(c) \ {<<"frame", Len(stack)>>}) \cup G
<1> DEFINE h == <<"frame", Len(stack)>>
<1>1. FrameHolds(c)' \subseteq FrameHolds(c) \ {h} /\ h \in FrameHolds(c)
  BY FramePopped
<1>2. h \notin ThreadHolds(c) \cup CallHold(c) \cup MatchHold(c)
  BY HoldersApart
<1>3. ThreadHolds(c)' \subseteq ThreadHolds(c) /\ MatchHold(c)' \subseteq MatchHold(c)
  BY ThreadsKept DEF MatchHold, lists, Listed
<1> HIDE DEF h
<1>4. /\ ThreadHolds(c)' \subseteq (ThreadHolds(c) \ {h}) \cup G
      /\ FrameHolds(c)' \subseteq (FrameHolds(c) \ {h}) \cup G
      /\ CallHold(c)' \subseteq (CallHold(c) \ {h}) \cup G
      /\ MatchHold(c)' \subseteq (MatchHold(c) \ {h}) \cup G
  BY <1>1, <1>2, <1>3
<1>5. Holders(c)' \subseteq (Holders(c) \ {h}) \cup G
  BY <1>4, HoldersMove
<1>6. h \in Holders(c)
  BY <1>1, HoldersParts
<1> QED BY <1>5, <1>6 DEF h

(***************************************************************************)
(* The inductive invariant: what a capture is held by is counted, whether  *)
(* the capture is free or not, and a free one has no reference.            *)
(***************************************************************************)
CapturesSound ==
    /\ \A c \in Captures(heap) : Covered(Holders(c), heap.cell[c].ref)
    /\ FreeSound(heap)

\* Both invariants of the captures follow from it.
LEMMA SoundSuffices == CapturesSound => RefsCoverHolders /\ FreeCapturesUnused
BY DEF CapturesSound, RefsCoverHolders, FreeCapturesUnused, FreeSound, Covered

\* It holds after a step if it holds of each capture there then is.
LEMMA SoundNext ==
    ASSUME FreeSound(heap'),
           ASSUME NEW c \in Captures(heap') PROVE Covered(Holders(c)', heap'.cell[c].ref)
    PROVE  CapturesSound'
<1>1. FreeSound(heap)'
  BY DEF FreeSound
<1> QED BY <1>1 DEF CapturesSound, Captures, Covered

\* What it says of one capture.
LEMMA SoundParts ==
    ASSUME TypeOK, CapturesSound, NEW c \in Captures(heap)
    PROVE  /\ heap.cell[c].ref \in Int /\ c # NoCapture
           /\ Covered(Holders(c), heap.cell[c].ref)
           /\ \A x : x \in Holders(c) => heap.cell[c].ref >= 1 /\ heap.cell[c].ref # 0
<1>1. heap.cell[c].ref \in Int
  BY CellParts DEF TypeOK, TypeOfMemory
<1>2. Covered(Holders(c), heap.cell[c].ref)
  BY DEF CapturesSound
<1>3. c # NoCapture
  BY DEF Captures, NoCapture
<1>4. ASSUME NEW x, x \in Holders(c) PROVE heap.cell[c].ref >= 1
  BY <1>1, <1>2, <1>4, CoveredIn
<1> QED BY <1>1, <1>2, <1>3, <1>4

\* The heap and its free list have their types.
LEMMA HeapParts ==
    ASSUME TypeOK
    PROVE  /\ heap \in Pools(Cells(RegexIds(prog), Vectors(prog))) /\ 0 \in RegexIds(prog)
           /\ heap.free \in Seq(Captures(heap)) /\ Len(heap.cell) \in Nat
<1>1. heap \in Pools(Cells(RegexIds(prog), Vectors(prog))) /\ prog \in Programs
  BY DEF TypeOK, TypeOfMemory, TypeOfProgram
<1>2. heap.free \in Seq(Captures(heap)) /\ Len(heap.cell) \in Nat
  BY <1>1, PoolParts DEF Captures
<1> QED BY <1>1, <1>2, ProgramParts

\* A listed thread has a capture.
LEMMA ListedParts ==
    ASSUME TypeOK, NEW i \in Listed
    PROVE  i \in 1 .. Len(pool.cell) /\ Thread(i).cap \in Captures(heap)
<1>1. Listed \subseteq 1 .. Len(pool.cell)
  BY ThreadSeqs, RangeOfSeq DEF Listed
<1>2. i \in 1 .. Len(pool.cell)
  BY <1>1
<1> QED BY <1>2, ThreadParts DEF TypeOK, TypeOfMemory, Thread, Captures

\* Nobody holds the capture that sre_capture_create returns.
LEMMA FreshUnheld ==
    ASSUME TypeOK, CapturesSound
    PROVE  Holders(Fresh(heap)) = {} /\ Fresh(heap) # NoCapture
<1> DEFINE x == Fresh(heap)
<1>1. CASE FromPool(heap)
  <2>1. x = Len(heap.cell) + 1 /\ Len(heap.cell) \in Nat
    BY <1>1, HeapParts DEF Fresh, FromPool
  <2>2. x \notin Captures(heap) /\ x # NoCapture
    BY <2>1 DEF Captures, NoCapture
  <2> HIDE DEF x
  <2>3. ThreadHolds(x) = {}
    BY <2>2, ListedParts DEF ThreadHolds
  <2>4. FrameHolds(x) = {}
    <3>1. stack \in Seq(Frames(prog, Len(heap.cell)))
      BY DEF TypeOK, TypeOfCalls
    <3>2. DOMAIN stack = 1 .. Len(stack)
      BY <3>1, LenProperties
    <3>3. ASSUME NEW k \in DOMAIN stack PROVE stack[k].cap # x
      <4>1. stack[k] \in Frames(prog, Len(heap.cell))
        BY <3>1, <3>2, ElementOfSeq
      <4> QED BY <2>2, <4>1 DEF Frames, Captures
    <3> QED BY <3>3 DEF FrameHolds
  <2>5. CallHold(x) = {}
    <3>1. CallHolds => call.cap \in Captures(heap)
      BY HeapParts DEF TypeOK, TypeOfCalls, Captures, NoCapture
    <3> QED BY <2>2, <3>1 DEF CallHold
  <2>6. MatchHold(x) = {}
    BY <2>2 DEF MatchHold, TypeOK, TypeOfContext
  <2> QED BY <2>2, <2>3, <2>4, <2>5, <2>6, HoldersParts DEF x
<1>2. CASE ~FromPool(heap)
  <2>1. heap.free # <<>> /\ x = Head(heap.free)
    BY <1>2 DEF FromPool, Fresh
  <2>2. x \in Range(heap.free) /\ x \in Captures(heap)
    BY <2>1, HeapParts, PopRange, HeadTailProperties DEF CapturesSound, FreeSound
  <2>3. heap.cell[x].ref = 0
    BY <2>2 DEF CapturesSound, FreeSound
  <2> HIDE DEF x
  <2>4. heap.cell[x].ref \in Int /\ Covered(Holders(x), heap.cell[x].ref) /\ x # NoCapture
    BY <2>2, SoundParts
  <2> QED BY <2>3, <2>4, CoveredIn DEF x
<1> QED BY <1>1, <1>2

(***************************************************************************)
(* The invariant, step by step.                                            *)
(***************************************************************************)

\* Steps that nobody holds anything new after, and that drop no reference.
LEMMA StillSound ==
    ASSUME TypeOK, CapturesSound, FreeSound(heap'), Captures(heap') = Captures(heap),
           \A c \in Captures(heap) : heap'.cell[c].ref = heap.cell[c].ref,
           Listed' \subseteq Listed, pool'.cell = pool.cell, stack' \in {stack, <<>>},
           CallHolds' => CallHolds /\ call'.cap = call.cap,
           matched' \in {matched, NoCapture}
    PROVE  CapturesSound'
<1>1. ASSUME NEW c \in Captures(heap') PROVE Covered(Holders(c)', heap'.cell[c].ref)
  <2>1. /\ c \in Captures(heap) /\ heap'.cell[c].ref = heap.cell[c].ref
        /\ heap.cell[c].ref \in Int /\ Covered(Holders(c), heap.cell[c].ref) /\ c # NoCapture
    BY <1>1, SoundParts
  <2>2. Holders(c)' \subseteq Holders(c)
    BY <2>1, HoldersKept
  <2>3. heap.cell[c].ref <= heap.cell[c].ref
    BY <2>1
  <2> QED BY <2>1, <2>2, <2>3, CoveredSub
<1> QED BY <1>1, SoundNext

\* The same, with the heap as it was.
LEMMA StillSoundHeap ==
    ASSUME TypeOK, CapturesSound, heap' = heap,
           Listed' \subseteq Listed, pool'.cell = pool.cell, stack' \in {stack, <<>>},
           CallHolds' => CallHolds /\ call'.cap = call.cap,
           matched' \in {matched, NoCapture}
    PROVE  CapturesSound'
<1>1. FreeSound(heap') /\ Captures(heap') = Captures(heap)
  BY DEF CapturesSound
<1>2. \A c \in Captures(heap) : heap'.cell[c].ref = heap.cell[c].ref
  OBVIOUS
<1> QED BY <1>1, <1>2, StillSound

\* A failing allocation.
LEMMA FailSound ==
    ASSUME TypeOK, CapturesSound, Fail, UNCHANGED memory
    PROVE  CapturesSound'
<1>1. Listed' = Listed /\ pool' = pool /\ heap' = heap /\ stack' = <<>> /\ ~CallHolds'
      /\ matched' = matched
  BY DEF Fail, Return, memory, lists, context, Listed, CallHolds
<1> QED BY <1>1, StillSoundHeap

\* A new capture goes to the innermost call, at the start and at a restart.
LEMMA CreateSound ==
    ASSUME TypeOK, CapturesSound, NEW s, ~CallHolds,
           heap' = CaptureCreate(heap, prog.slots), AddFrom(s, 0, Fresh(heap)),
           UNCHANGED <<pool, lists, matched>>
    PROVE  CapturesSound'
<1> DEFINE v == [i \in 0 .. prog.slots - 1 |-> -1]
           x == Fresh(heap)
<1>1. heap' = Take(heap, v)
  BY DEF CaptureCreate
<1>2. v \in Vectors(prog)
  BY DEF Vectors
<1> HIDE DEF v
<1>3. /\ heap'.cell[x].ref = 1
      /\ Len(heap'.cell) = IF FromPool(heap) THEN Len(heap.cell) + 1 ELSE Len(heap.cell)
      /\ \A d \in Captures(heap) : d # x => heap'.cell[d] = heap.cell[d]
      /\ FromPool(heap) => x = Len(heap.cell) + 1
      /\ FreeSound(heap')
  BY <1>1, <1>2, HeapParts, TakeEffect, FreeSoundTake DEF CapturesSound, Fresh, FromPool
<1> HIDE DEF x
<1>4. /\ Listed' = Listed /\ pool'.cell = pool.cell /\ stack' = <<>>
      /\ call'.cap = x /\ matched' = matched
  BY DEF AddFrom, lists, Listed, x
<1>5. ASSUME NEW c \in Captures(heap') PROVE Covered(Holders(c)', heap'.cell[c].ref)
  <2>1. CASE c = x
    <3>1. FrameHolds(c)' \subseteq FrameHolds(c) /\ CallHold(c)' \subseteq {<<"call", 0>>}
      BY <1>4, FramesKept DEF CallHold
    <3>2. Holders(c)' \subseteq Holders(c) \cup {<<"call", 0>>}
      BY <1>4, <3>1, HolderJoins
    <3>3. Holders(c) = {}
      BY <2>1, FreshUnheld DEF x
    <3>4. Covered(Holders(c)', 1)
      BY <3>2, <3>3, CoveredOne
    <3> QED BY <1>3, <2>1, <3>4
  <2>2. CASE c # x
    <3>1. c \in Captures(heap)
      BY <1>3, <2>2, <1>5, HeapParts DEF Captures
    <3>2. /\ heap'.cell[c].ref = heap.cell[c].ref /\ heap.cell[c].ref \in Int
          /\ Covered(Holders(c), heap.cell[c].ref) /\ c # NoCapture
      BY <1>3, <2>2, <3>1, SoundParts
    <3>3. Holders(c)' \subseteq Holders(c)
      BY <1>4, <2>2, <3>2, HoldersKept
    <3>4. heap.cell[c].ref <= heap.cell[c].ref
      BY <3>2
    <3> QED BY <3>2, <3>3, <3>4, CoveredSub
  <2> QED BY <2>1, <2>2
<1> QED BY <1>3, <1>5, SoundNext

\* Capture k loses a reference, and each capture is held by as many as it counts.
LEMMA DropSound ==
    ASSUME TypeOK, CapturesSound,
           NEW g \in Pools(Cells(RegexIds(prog), Vectors(prog))),
           Captures(g) = Captures(heap), FreeSound(g),
           \A c \in Captures(heap) : g.cell[c].ref = heap.cell[c].ref,
           NEW k \in Captures(heap), heap' \in {DecrRef(g, k), DropRef(g, k)},
           heap.cell[k].ref # 0, Covered(Holders(k)', heap.cell[k].ref - 1),
           ASSUME NEW c \in Captures(heap), c # k
           PROVE  Covered(Holders(c)', heap.cell[c].ref)
    PROVE  CapturesSound'
<1>1. k \in Captures(g) /\ g.cell[k].ref # 0
  OBVIOUS
<1>2. FreeSound(heap')
  BY <1>1, FreeSoundCounts
<1>3. Captures(heap') = Captures(heap)
  BY <1>1, DecrRefType, DropRefType DEF Captures
<1>4. ASSUME NEW c \in Captures(heap')
      PROVE  heap'.cell[c].ref = IF c = k THEN heap.cell[c].ref - 1 ELSE heap.cell[c].ref
  <2>1. c \in Captures(g) /\ c \in Captures(heap) /\ g.cell[c].ref = heap.cell[c].ref
    BY <1>3
  <2>2. DropRef(g, k).cell[c].ref = IF c = k THEN g.cell[c].ref - 1 ELSE g.cell[c].ref
    BY <1>1, <2>1, DropRefEffect
  <2>3. DecrRef(g, k).cell = DropRef(g, k).cell
    BY DEF DecrRef
  <2> QED BY <2>1, <2>2, <2>3
<1>5. ASSUME NEW c \in Captures(heap') PROVE Covered(Holders(c)', heap'.cell[c].ref)
  BY <1>3, <1>4, <1>5
<1> QED BY <1>2, <1>5, SoundNext

\* The head of clist leaves the lists, and so does what an earlier assertion left.
LEMMA CurrentLeaves ==
    ASSUME TypeOK, ThreadsOwnedOnce, clist.ids # <<>>,
           clist' = PopHead(clist), nlist' = nlist, temp' \in {temp, EmptyList}
    PROVE  Current \in Listed /\ Listed' \subseteq Listed \ {Current}
<1> DEFINE x == Current
<1>1. /\ IsInjective(clist.ids)
      /\ Apart(Range(clist.ids), Range(nlist.ids), Range(temp.ids), Range(pool.free), Running)
  BY OwnedForm DEF Owned
<1>2. x \in Range(clist.ids) /\ Range(Tail(clist.ids)) = Range(clist.ids) \ {x}
  BY <1>1, ThreadSeqs, PopRange DEF Current
<1> HIDE DEF x
<1>3. clist'.ids = Tail(clist.ids) /\ nlist'.ids = nlist.ids
  BY DEF PopHead
<1>4. Range(temp'.ids) \subseteq Range(temp.ids)
  BY EmptyRange DEF EmptyList
<1>5. Listed' = Range(clist'.ids) \cup Range(nlist'.ids) \cup Range(temp'.ids)
  BY DEF Listed
<1>6. x \notin Range(nlist.ids) /\ x \notin Range(temp.ids)
  BY <1>1, <1>2 DEF Apart
<1>7. x \in Listed /\ Listed' \subseteq Listed \ {x}
  BY <1>2, <1>3, <1>4, <1>5, <1>6 DEF Listed
<1> QED BY <1>7 DEF x

\* The head of nlist leaves the lists.
LEMMA LeftoverLeaves ==
    ASSUME TypeOK, ThreadsOwnedOnce, nlist.ids # <<>>,
           nlist' = PopHead(nlist), clist' = clist, temp' = temp
    PROVE  Head(nlist.ids) \in Listed /\ Listed' \subseteq Listed \ {Head(nlist.ids)}
<1> DEFINE x == Head(nlist.ids)
<1>1. /\ IsInjective(nlist.ids)
      /\ Apart(Range(clist.ids), Range(nlist.ids), Range(temp.ids), Range(pool.free), Running)
  BY OwnedForm DEF Owned
<1>2. x \in Range(nlist.ids) /\ Range(Tail(nlist.ids)) = Range(nlist.ids) \ {x}
  BY <1>1, ThreadSeqs, PopRange
<1> HIDE DEF x
<1>3. nlist'.ids = Tail(nlist.ids) /\ clist'.ids = clist.ids /\ temp'.ids = temp.ids
  BY DEF PopHead
<1>4. Listed' = Range(clist'.ids) \cup Range(nlist'.ids) \cup Range(temp'.ids)
  BY DEF Listed
<1>5. x \notin Range(clist.ids) /\ x \notin Range(temp.ids)
  BY <1>1, <1>2 DEF Apart
<1>6. x \in Listed /\ Listed' \subseteq Listed \ {x}
  BY <1>2, <1>3, <1>4, <1>5 DEF Listed
<1> QED BY <1>6 DEF x

\* A thread is freed with the reference of its capture.
LEMMA ReleaseSound ==
    ASSUME TypeOK, CapturesSound, NEW x, x \in Listed,
           heap' = DecrRef(heap, Thread(x).cap), Listed' \subseteq Listed \ {x},
           pool'.cell = pool.cell, UNCHANGED <<at, rc, call, stack, matched>>
    PROVE  CapturesSound'
<1> PICK k : k = Thread(x).cap
  OBVIOUS
<1>1. k \in Captures(heap)
  BY ListedParts
<1>2. CallHold(k)' = CallHold(k) /\ MatchHold(k)' = MatchHold(k)
  BY DEF CallHold, CallHolds, MatchHold
<1>3. /\ <<"thread", x>> \in Holders(k)
      /\ Holders(k)' \subseteq (Holders(k) \ {<<"thread", x>>})
  <2> DEFINE G == {}
  <2>1. /\ CallHold(k)' \subseteq CallHold(k) \cup G
        /\ MatchHold(k)' \subseteq MatchHold(k) \cup G
        /\ stack' \in {stack, <<>>} /\ Thread(x).cap = k
    BY <1>2
  <2> HIDE DEF G
  <2>2. /\ <<"thread", x>> \in Holders(k)
        /\ Holders(k)' \subseteq (Holders(k) \ {<<"thread", x>>}) \cup G
    BY <2>1, ThreadReleases
  <2> QED BY <2>2 DEF G
<1>4. heap.cell[k].ref # 0 /\ heap.cell[k].ref \in Int /\ Covered(Holders(k), heap.cell[k].ref)
  BY <1>1, <1>3, SoundParts
<1>5. Covered(Holders(k)', heap.cell[k].ref - 1)
  BY <1>3, <1>4, CoveredLose
<1>6. ASSUME NEW c \in Captures(heap), c # k PROVE Covered(Holders(c)', heap.cell[c].ref)
  <2>1. /\ heap.cell[c].ref \in Int /\ Covered(Holders(c), heap.cell[c].ref) /\ c # NoCapture
    BY SoundParts
  <2>2. Holders(c)' \subseteq Holders(c)
    BY <2>1, HoldersKept DEF CallHolds
  <2>3. heap.cell[c].ref <= heap.cell[c].ref
    BY <2>1
  <2> QED BY <2>1, <2>2, <2>3, CoveredSub
<1>7. FreeSound(heap) /\ heap \in Pools(Cells(RegexIds(prog), Vectors(prog)))
  BY HeapParts DEF CapturesSound
<1> QED BY <1>1, <1>4, <1>5, <1>6, <1>7, DropSound

\* Clearing a list, thread by thread.
LEMMA ClearThreadSound ==
    ASSUME TypeOK, ThreadsOwnedOnce, CapturesSound, ClearThread
    PROVE  CapturesSound'
<1>1. /\ UNCHANGED <<at, rc, call, stack, matched, temp>>
  BY DEF ClearThread, exec, adding, context
<1>2. \A i : FreeThread(pool, i).cell = pool.cell
  BY DEF FreeThread, TypeOK, TypeOfMemory, Pools
<1>3. CASE at = "clear-leftover"
  <2>1. /\ nlist.ids # <<>> /\ nlist' = PopHead(nlist) /\ clist' = clist
        /\ heap' = DecrRef(heap, Thread(Head(nlist.ids)).cap)
        /\ pool' = FreeThread(pool, Head(nlist.ids))
    BY <1>3 DEF ClearThread
  <2>2. Head(nlist.ids) \in Listed /\ Listed' \subseteq Listed \ {Head(nlist.ids)}
    BY <1>1, <2>1, LeftoverLeaves
  <2> QED BY <1>1, <1>2, <2>1, <2>2, ReleaseSound
<1>4. CASE at # "clear-leftover"
  <2>1. /\ clist.ids # <<>> /\ clist' = PopHead(clist) /\ nlist' = nlist
        /\ heap' = DecrRef(heap, Thread(Current).cap)
        /\ pool' = FreeThread(pool, Current)
    BY <1>4 DEF ClearThread, Current
  <2>2. Current \in Listed /\ Listed' \subseteq Listed \ {Current}
    BY <1>1, <2>1, CurrentLeaves
  <2> QED BY <1>1, <1>2, <2>1, <2>2, ReleaseSound
<1> QED BY <1>3, <1>4

\* A thread that runs hands its reference to the call of add_thread.
LEMMA HandOverSound ==
    ASSUME TypeOK, CapturesSound, NEW x, x \in Listed, NEW s, NEW pc, ~CallHolds,
           AddFrom(s, pc, Thread(x).cap), Listed' \subseteq Listed \ {x},
           UNCHANGED <<heap, pool, matched>>
    PROVE  CapturesSound'
<1> PICK k : k = Thread(x).cap
  OBVIOUS
<1>1. k \in Captures(heap) /\ Captures(heap') = Captures(heap) /\ FreeSound(heap')
  BY ListedParts DEF CapturesSound
<1>2. stack' = <<>> /\ call'.cap = k
  BY DEF AddFrom
<1>3. ASSUME NEW c \in Captures(heap') PROVE Covered(Holders(c)', heap'.cell[c].ref)
  <2>1. /\ heap.cell[c].ref \in Int /\ Covered(Holders(c), heap.cell[c].ref)
        /\ c # NoCapture /\ heap'.cell[c].ref = heap.cell[c].ref
    BY <1>1, SoundParts
  <2>2. CASE c = k
    <3> DEFINE h == <<"thread", x>>
               y == <<"call", 0>>
               G == {y}
    <3>1. /\ CallHold(c)' \subseteq CallHold(c) \cup G
          /\ MatchHold(c)' \subseteq MatchHold(c) \cup G
          /\ stack' \in {stack, <<>>} /\ Thread(x).cap = c /\ pool'.cell = pool.cell
      BY <1>2, <2>2 DEF CallHold, MatchHold
    <3> HIDE DEF y, G
    <3>2. /\ <<"thread", x>> \in Holders(c)
          /\ Holders(c)' \subseteq (Holders(c) \ {<<"thread", x>>}) \cup G
      BY <3>1, ThreadReleases
    <3>3. h \in Holders(c) /\ Holders(c)' \subseteq (Holders(c) \ {h}) \cup {y}
      BY <3>2 DEF G
    <3> HIDE DEF h
    <3> QED BY <2>1, <3>3, CoveredTrade
  <2>3. CASE c # k
    <3>1. Holders(c)' \subseteq Holders(c)
      BY <1>2, <2>1, <2>3, HoldersKept
    <3>2. heap.cell[c].ref <= heap.cell[c].ref
      BY <2>1
    <3> QED BY <2>1, <3>1, <3>2, CoveredSub
  <2> QED BY <2>2, <2>3
<1> QED BY <1>1, <1>3, SoundNext

\* Holder h of capture k, a thread or a call, hands its reference to the match, and
\* the match so far gives up its own (the matched label, with either caller).
LEMMA MatchedSound ==
    ASSUME TypeOK, CapturesSound,
           NEW g \in Pools(Cells(RegexIds(prog), Vectors(prog))),
           Captures(g) = Captures(heap), FreeSound(g),
           \A c \in Captures(heap) : g.cell[c].ref = heap.cell[c].ref,
           NEW k \in Captures(heap), NEW i, Matched(g, k, i), NEW h \in Holders(k),
           Listed' \subseteq Listed, pool'.cell = pool.cell, stack' \in {stack, <<>>},
           ~CallHolds',
           matched # k => Holders(k)' \subseteq (Holders(k) \ {h}) \cup {TheMatch},
           matched = k => Holders(k)' \subseteq Holders(k) \ {h}
    PROVE  CapturesSound'
<1> PICK old : old = matched
  OBVIOUS
<1>1. /\ matched' = k /\ heap' = IF old = NoCapture THEN g ELSE DecrRef(g, old)
      /\ old \in Captures(heap) \cup {NoCapture}
  BY DEF Matched, TypeOK, TypeOfContext
<1>2. ASSUME NEW c \in Captures(heap)
      PROVE  /\ heap.cell[c].ref \in Int /\ Covered(Holders(c), heap.cell[c].ref)
             /\ c # NoCapture /\ heap.cell[c].ref <= heap.cell[c].ref
  <2>1. heap.cell[c].ref \in Int /\ Covered(Holders(c), heap.cell[c].ref) /\ c # NoCapture
    BY SoundParts
  <2> QED BY <2>1
<1>3. ASSUME NEW c \in Captures(heap), c # k, c # old
      PROVE  Covered(Holders(c)', heap.cell[c].ref)
  <2>1. Holders(c)' \subseteq Holders(c)
    BY <1>1, <1>2, <1>3, HoldersKept
  <2> QED BY <1>2, <2>1, CoveredSub
<1>4. ASSUME old # k PROVE Covered(Holders(k)', heap.cell[k].ref)
  <2>1. Holders(k)' \subseteq (Holders(k) \ {h}) \cup {TheMatch}
    BY <1>4
  <2>2. heap.cell[k].ref \in Int /\ Covered(Holders(k), heap.cell[k].ref) /\ h \in Holders(k)
    BY <1>2
  <2>3. PICK S, T, r : S = Holders(k) /\ T = Holders(k)' /\ r = heap.cell[k].ref
    OBVIOUS
  <2>4. Covered(T, r)
    <3>1. r \in Int /\ Covered(S, r) /\ h \in S /\ T \subseteq (S \ {h}) \cup {TheMatch}
      BY <2>1, <2>2, <2>3
    <3> QED BY <3>1, CoveredTrade
  <2> QED BY <2>3, <2>4
<1>5. old = k => Covered(Holders(k)', heap.cell[k].ref - 1)
  BY <1>2, CoveredLose
<1>6. ASSUME old \in Captures(heap), old # k
      PROVE  Covered(Holders(old)', heap.cell[old].ref - 1)
  <2>1. CallHold(old)' \subseteq CallHold(old)
    BY DEF CallHold
  <2>2. /\ TheMatch \in Holders(old)
        /\ Holders(old)' \subseteq Holders(old) \ {TheMatch}
    BY <1>1, <1>6, <2>1, MatchReleases DEF TheMatch
  <2> QED BY <1>2, <1>6, <2>2, CoveredLose
<1>7. CASE old = NoCapture
  <2>1. heap' = g /\ old # k
    BY <1>1, <1>2, <1>7
  <2>2. ASSUME NEW c \in Captures(heap') PROVE Covered(Holders(c)', heap'.cell[c].ref)
    <3>1. c \in Captures(heap) /\ heap'.cell[c].ref = heap.cell[c].ref /\ c # old
      BY <1>2, <1>7, <2>1
    <3>2. CASE c = k
      BY <1>4, <2>1, <3>1, <3>2
    <3>3. CASE c # k
      BY <1>3, <3>1, <3>3
    <3> QED BY <3>2, <3>3
  <2> QED BY <2>1, <2>2, SoundNext
<1>8. CASE old # NoCapture
  <2>1. old \in Captures(heap) /\ heap' \in {DecrRef(g, old), DropRef(g, old)}
    BY <1>1, <1>8
  <2>2. Covered(Holders(old)', heap.cell[old].ref - 1)
    BY <1>5, <1>6, <2>1
  <2>3. ASSUME NEW c \in Captures(heap), c # old PROVE Covered(Holders(c)', heap.cell[c].ref)
    BY <1>3, <1>4, <2>3
  <2>4. heap.cell[old].ref # 0
    <3>1. TheMatch \in Holders(old)
      BY HoldersParts DEF MatchHold, TheMatch
    <3> QED BY <2>1, <3>1, SoundParts
  <2> QED BY <2>1, <2>2, <2>3, <2>4, DropSound
<1> QED BY <1>7, <1>8

\* A regex id in a capture leaves what the invariant is about as it was.
LEMMA WithIdSound ==
    ASSUME TypeOK, CapturesSound, NEW k \in Captures(heap), NEW id \in RegexIds(prog),
           NEW g, g = WithId(heap, k, id)
    PROVE  /\ g \in Pools(Cells(RegexIds(prog), Vectors(prog)))
           /\ Captures(g) = Captures(heap) /\ FreeSound(g)
           /\ \A c \in Captures(heap) : g.cell[c].ref = heap.cell[c].ref
           /\ \A c \in Captures(heap) : g.cell[c].vector = heap.cell[c].vector
<1>1. heap \in Pools(Cells(RegexIds(prog), Vectors(prog))) /\ FreeSound(heap)
  BY HeapParts DEF CapturesSound
<1>2. FreeSound(g)
  BY <1>1, FreeSoundWrites
<1>3. /\ g \in Pools(Cells(RegexIds(prog), Vectors(prog))) /\ Len(g.cell) = Len(heap.cell)
      /\ \A c \in Captures(heap) : g.cell[c].ref = heap.cell[c].ref
      /\ \A c \in Captures(heap) : g.cell[c].vector = heap.cell[c].vector
  BY <1>1, WithIdEffect
<1> QED BY <1>2, <1>3 DEF Captures

\* Running the head of clist: its thread dies, goes on, fails an assertion, or matches.
LEMMA RunSound ==
    ASSUME TypeOK, ThreadsOwnedOnce, CapturesSound, Run
    PROVE  CapturesSound'
<1> PICK x : x = Current
  OBVIOUS
<1>1. Dispatch /\ at = "threads" /\ clist.ids # <<>> /\ clist' = PopHead(clist) /\ nlist' = nlist
  BY DEF Run, ThreadDies, ThreadConsumes, AssertionFails, AssertionHold, ThreadMatches,
         Dispatch, lists
<1>2. temp' \in {temp, EmptyList} /\ ~CallHolds
  BY <1>1 DEF Run, ThreadDies, ThreadConsumes, AssertionFails, AssertionHold, ThreadMatches,
              CallHolds
<1>3. x \in Listed /\ Listed' \subseteq Listed \ {x} /\ Listed' \subseteq Listed
  BY <1>1, <1>2, CurrentLeaves
<1>4. FreeThread(pool, x).cell = pool.cell
  BY DEF FreeThread, TypeOK, TypeOfMemory, Pools
<1>5. CASE ThreadDies
  <2>1. /\ heap' = DecrRef(heap, Thread(x).cap) /\ pool' = FreeThread(pool, x)
        /\ UNCHANGED <<at, rc, call, stack, matched>>
    BY <1>5 DEF ThreadDies, exec, adding, context
  <2> QED BY <1>3, <1>4, <2>1, ReleaseSound
<1>6. CASE ThreadConsumes \/ AssertionHold
  <2>1. /\ UNCHANGED <<heap, pool, matched>>
        /\ \E s : AddFrom(s, Thread(x).pc + 1, Thread(x).cap)
    BY <1>6 DEF ThreadConsumes, AssertionHold, memory, context
  <2> QED BY <1>2, <1>3, <2>1, HandOverSound
<1>7. CASE AssertionFails
  <2>1. /\ pool' = FreeThread(pool, x) /\ heap' = heap
        /\ UNCHANGED <<at, rc, call, stack, matched>>
    BY <1>7 DEF AssertionFails, exec, adding, context
  <2>2. ~CallHolds'
    BY <1>2, <2>1 DEF CallHolds
  <2> QED BY <1>3, <1>4, <2>1, <2>2, StillSoundHeap
<1>8. CASE ThreadMatches
  <2> PICK k : k = Thread(x).cap
    OBVIOUS
  <2>1. x \in 1 .. Len(pool.cell) /\ k \in Captures(heap)
    BY <1>3, ListedParts
  <2>2. Waiting.n \in RegexIds(prog)
    <3>1. Thread(x).pc \in Live(prog) /\ prog \in Programs
      BY <2>1, ThreadParts DEF TypeOK, TypeOfMemory, TypeOfProgram, Thread
    <3>2. Waiting = prog.code[Thread(x).pc] /\ Waiting.op = "match"
      BY <1>8 DEF ThreadMatches, Waiting, Ins
    <3> QED BY <3>1, <3>2, InstructionParts
  <2> PICK g : g = WithId(heap, k, Waiting.n)
    OBVIOUS
  <2>3. Matched(g, k, x) /\ UNCHANGED adding
    BY <1>8 DEF ThreadMatches
  <2>4. /\ g \in Pools(Cells(RegexIds(prog), Vectors(prog)))
        /\ Captures(g) = Captures(heap) /\ FreeSound(g)
        /\ \A c \in Captures(heap) : g.cell[c].ref = heap.cell[c].ref
    BY <2>1, <2>2, WithIdSound
  <2>5. pool'.cell = pool.cell /\ stack' \in {stack, <<>>} /\ ~CallHolds' /\ matched' = k
    BY <1>4, <2>3 DEF Matched, CallHolds, adding
  <2> PICK h : h = <<"thread", x>>
    OBVIOUS
  <2>6. /\ h \in Holders(k)
        /\ Holders(k)' \subseteq (Holders(k) \ {h}) \cup {TheMatch}
        /\ matched = k => Holders(k)' \subseteq (Holders(k) \ {h})
    <3> DEFINE G == {TheMatch}
               N == {}
    <3>1. /\ CallHold(k)' \subseteq CallHold(k) \cup G /\ CallHold(k)' \subseteq CallHold(k) \cup N
          /\ MatchHold(k)' \subseteq MatchHold(k) \cup G
          /\ matched = k => MatchHold(k)' \subseteq MatchHold(k) \cup N
          /\ Thread(x).cap = k
      BY <2>5 DEF CallHold, MatchHold, TheMatch
    <3> HIDE DEF G, N
    <3>2. /\ <<"thread", x>> \in Holders(k)
          /\ Holders(k)' \subseteq (Holders(k) \ {<<"thread", x>>}) \cup G
      BY <1>3, <2>5, <3>1, ThreadReleases
    <3>3. ASSUME matched = k
          PROVE  Holders(k)' \subseteq (Holders(k) \ {<<"thread", x>>}) \cup N
      BY <1>3, <2>5, <3>1, <3>3, ThreadReleases
    <3> QED BY <3>2, <3>3 DEF G, N
  <2> QED BY <1>3, <2>1, <2>3, <2>4, <2>5, <2>6, MatchedSound
<1> QED BY <1>5, <1>6, <1>7, <1>8 DEF Run

\* Nobody of any kind holds it who did not.
LEMMA HoldersStay ==
    ASSUME NEW c, ThreadHolds(c)' \subseteq ThreadHolds(c),
           FrameHolds(c)' \subseteq FrameHolds(c), CallHold(c)' \subseteq CallHold(c),
           MatchHold(c)' \subseteq MatchHold(c)
    PROVE  Holders(c)' \subseteq Holders(c)
<1>1. Holders(c)' \subseteq (Holders(c) \ {}) \cup {}
  BY HoldersMove
<1> QED BY <1>1

\* A capture whose holders and count stay.
LEMMA StaysCovered ==
    ASSUME TypeOK, CapturesSound, NEW c \in Captures(heap), Holders(c)' \subseteq Holders(c),
           heap'.cell[c].ref = heap.cell[c].ref
    PROVE  Covered(Holders(c)', heap'.cell[c].ref)
<1>1. heap.cell[c].ref \in Int /\ Covered(Holders(c), heap.cell[c].ref)
  BY SoundParts
<1>2. heap.cell[c].ref <= heap.cell[c].ref
  BY <1>1
<1> QED BY <1>1, <1>2, CoveredSub

\* The call of add_thread hands its reference to the match.
LEMMA ConsumedToMatchSound ==
    ASSUME TypeOK, CapturesSound, ConsumedToMatch
    PROVE  CapturesSound'
<1> PICK k : k = call.cap
  OBVIOUS
<1>1. /\ at = "return" /\ rc = "DONE" /\ CallHolds /\ k \in Captures(heap)
      /\ Matched(heap, k, t) /\ stack' = <<>> /\ Listed' = Listed
  BY CalleeParts DEF ConsumedToMatch, Returned, Called, CallHolds, Listed, lists, TypeOK,
                     TypeOfCalls, Captures, NoCapture
<1>2. /\ ~CallHolds' /\ matched' = k /\ pool'.cell = pool.cell /\ stack' \in {stack, <<>>}
  BY <1>1 DEF Matched, CallHolds, FreeThread, TypeOK, TypeOfMemory, Pools
<1>3. /\ TheCall \in Holders(k)
      /\ Holders(k)' \subseteq (Holders(k) \ {TheCall}) \cup {TheMatch}
      /\ matched = k => Holders(k)' \subseteq Holders(k) \ {TheCall}
  <2> DEFINE G == {TheMatch}
             N == {}
  <2>1. ThreadHolds(k)' \subseteq ThreadHolds(k)
    BY <1>1, <1>2, ThreadsKept
  <2>2. /\ ThreadHolds(k)' \subseteq ThreadHolds(k) \cup G
        /\ ThreadHolds(k)' \subseteq ThreadHolds(k) \cup N
        /\ MatchHold(k)' \subseteq MatchHold(k) \cup G
        /\ matched = k => MatchHold(k)' \subseteq MatchHold(k) \cup N
        /\ ~(CallHolds' /\ call'.cap = k) /\ call.cap = k
    BY <1>2, <2>1 DEF MatchHold, TheMatch
  <2> HIDE DEF G, N
  <2>3. /\ <<"call", 0>> \in Holders(k)
        /\ Holders(k)' \subseteq (Holders(k) \ {<<"call", 0>>}) \cup G
    BY <1>1, <1>2, <2>2, CallReleases
  <2>4. ASSUME matched = k
        PROVE  Holders(k)' \subseteq (Holders(k) \ {<<"call", 0>>}) \cup N
    BY <1>1, <1>2, <2>2, <2>4, CallReleases
  <2> QED BY <2>3, <2>4 DEF G, N, TheCall
<1>4. /\ heap \in Pools(Cells(RegexIds(prog), Vectors(prog))) /\ FreeSound(heap)
      /\ Listed' \subseteq Listed
  BY <1>1, HeapParts DEF CapturesSound
<1> QED BY <1>1, <1>2, <1>3, <1>4, MatchedSound

\* The steps of add_thread that hand the capture on, or leave it, as it is.
LEMMA AddPlainSound ==
    ASSUME TypeOK, CapturesSound, AddMarked \/ AddJmp \/ AddLookBehind \/ AddMatchDone
    PROVE  CapturesSound'
<1>1. /\ at = "add" /\ CallHolds /\ call.cap \in Captures(heap)
      /\ call.pc \in Live(prog) /\ prog \in Programs
  BY CalleeParts DEF AddMarked, AddJmp, AddLookBehind, AddMatchDone, NewPc, Calling, CallHolds,
                     TypeOK, TypeOfProgram
<1>2. CASE AddMarked \/ AddJmp \/ AddLookBehind
  <2>1. heap' = heap /\ pool' = pool /\ UNCHANGED lists /\ stack' = stack /\ matched' = matched
    BY <1>2 DEF AddMarked, AddJmp, AddLookBehind, addFrame, context
  <2>2. \/ call'.cap = call.cap
        \/ at' = "return" /\ rc' = "OK"
    BY <1>2 DEF AddMarked, AddJmp, AddLookBehind, Continue, Result
  <2>3. (CallHolds' => CallHolds /\ call'.cap = call.cap) /\ Listed' = Listed
    BY <1>1, <2>1, <2>2 DEF CallHolds, lists, Listed
  <2> QED BY <2>1, <2>3, StillSoundHeap
<1>3. CASE AddMatchDone
  <2>1. /\ heap' = WithId(heap, call.cap, Callee.n) /\ pool' = pool /\ UNCHANGED lists
        /\ stack' = stack /\ matched' = matched /\ call' = call /\ Callee.op = "match"
    BY <1>3 DEF AddMatchDone, Result
  <2>2. Callee.n \in RegexIds(prog)
    BY <1>1, <2>1, InstructionParts DEF Callee, Ins
  <2>3. /\ Captures(heap') = Captures(heap) /\ FreeSound(heap')
        /\ \A c \in Captures(heap) : heap'.cell[c].ref = heap.cell[c].ref
    BY <1>1, <2>1, <2>2, WithIdSound
  <2>4. Listed' = Listed
    BY <2>1 DEF lists, Listed
  <2> QED BY <1>1, <2>1, <2>3, <2>4, StillSound
<1> QED BY <1>2, <1>3

\* SPLIT: the branch that is left for later has a reference of its own.
LEMMA AddSplitSound ==
    ASSUME TypeOK, CapturesSound, AddSplit
    PROVE  CapturesSound'
<1> PICK k, f : k = call.cap /\ f = [pc |-> Callee.y, cap |-> call.cap]
  OBVIOUS
<1>1. /\ at = "add" /\ CallHolds /\ k \in Captures(heap)
      /\ call.pc \in Live(prog) /\ prog \in Programs
  BY CalleeParts DEF AddSplit, NewPc, Calling, CallHolds, TypeOK, TypeOfProgram
<1>2. /\ heap' = AddRef(heap, k) /\ pool' = pool /\ Listed' = Listed /\ matched' = matched
      /\ stack' = Append(stack, f) /\ call'.cap = k /\ Callee.op = "split"
  BY DEF AddSplit, addFrame, context, Continue, Listed, lists
<1>3. f \in Frames(prog, Len(heap.cell)) /\ f.cap = k
  <2>1. Callee.y \in Live(prog)
    BY <1>1, <1>2, InstructionParts DEF Callee, Ins
  <2> QED BY <1>1, <2>1 DEF Frames, Captures
<1>4. ASSUME NEW c
      PROVE  /\ ThreadHolds(c)' \subseteq ThreadHolds(c) /\ CallHold(c)' \subseteq CallHold(c)
             /\ MatchHold(c)' \subseteq MatchHold(c)
             /\ c = k =>
                  FrameHolds(c)' \subseteq FrameHolds(c) \cup {<<"frame", Len(stack) + 1>>}
             /\ c # k => FrameHolds(c)' \subseteq FrameHolds(c)
  <2>1. ThreadHolds(c)' \subseteq ThreadHolds(c)
    BY <1>2, ThreadsKept
  <2>2. CallHold(c)' \subseteq CallHold(c) /\ MatchHold(c)' \subseteq MatchHold(c)
    BY <1>1, <1>2 DEF CallHold, MatchHold
  <2>3. /\ c = k =>
             FrameHolds(c)' \subseteq FrameHolds(c) \cup {<<"frame", Len(stack) + 1>>}
        /\ c # k => FrameHolds(c)' \subseteq FrameHolds(c)
    BY <1>2, <1>3, FramePushed
  <2> QED BY <2>1, <2>2, <2>3
<1>5. /\ Captures(heap') = Captures(heap)
      /\ \A c \in Captures(heap) :
            heap'.cell[c].ref = IF c = k THEN heap.cell[c].ref + 1 ELSE heap.cell[c].ref
  BY <1>1, <1>2, HeapParts, AddRefEffect DEF Captures
<1>6. FreeSound(heap')
  <2>1. <<"call", 0>> \in Holders(k)
    BY <1>1, HoldersParts DEF CallHold
  <2>2. heap.cell[k].ref # 0 /\ FreeSound(heap)
    BY <1>1, <2>1, SoundParts DEF CapturesSound
  <2>3. heap \in Pools(Cells(RegexIds(prog), Vectors(prog)))
    BY HeapParts
  <2>4. FreeSound(AddRef(heap, k))
    BY <1>1, <2>2, <2>3, FreeSoundCounts
  <2> QED BY <1>2, <2>4
<1>7. ASSUME NEW c \in Captures(heap') PROVE Covered(Holders(c)', heap'.cell[c].ref)
  <2>1. c \in Captures(heap)
    BY <1>5
  <2>2. CASE c = k
    <3> PICK y : y = <<"frame", Len(stack) + 1>>
      OBVIOUS
    <3>1. /\ FrameHolds(c)' \subseteq FrameHolds(c) \cup {y}
          /\ CallHold(c)' \subseteq CallHold(c) \cup {y}
          /\ Listed' \subseteq Listed /\ pool'.cell = pool.cell /\ matched' = matched
      BY <1>2, <1>4, <2>2
    <3>2. Holders(c)' \subseteq Holders(c) \cup {y}
      BY ONLY <3>1, HolderJoins
    <3>3. heap.cell[c].ref \in Int /\ Covered(Holders(c), heap.cell[c].ref)
      BY <2>1, SoundParts
    <3>4. Covered(Holders(c)', heap.cell[c].ref + 1)
      BY <3>2, <3>3, CoveredGain
    <3>5. heap'.cell[c].ref = heap.cell[c].ref + 1
      BY <1>5, <2>1, <2>2
    <3> QED BY <3>4, <3>5
  <2>3. CASE c # k
    <3>1. Holders(c)' \subseteq Holders(c)
      BY <1>4, <2>3, HoldersStay
    <3>2. heap'.cell[c].ref = heap.cell[c].ref
      BY <1>5, <2>1, <2>3
    <3> QED BY <2>1, <3>1, <3>2, StaysCovered
  <2> QED BY <2>2, <2>3
<1> QED BY <1>6, <1>7, SoundNext

\* SAVE: the call goes on with the capture that sre_capture_update returns, a copy if
\* the other was shared.
LEMMA AddSaveSound ==
    ASSUME TypeOK, CapturesSound, AddSave
    PROVE  CapturesSound'
<1> PICK k, x : k = call.cap /\ x = Fresh(heap)
  OBVIOUS
<1>1. /\ at = "add" /\ CallHolds /\ k \in Captures(heap)
  BY CalleeParts DEF AddSave, NewPc, Calling, CallHolds
<1>2. pool' = pool /\ Listed' = Listed /\ matched' = matched /\ stack' = stack
  BY DEF AddSave, addFrame, context, Listed, lists
<1>3. CASE Result("ERROR") /\ UNCHANGED heap
  <2>1. ~CallHolds'
    BY <1>3 DEF Result, CallHolds
  <2> QED BY <1>2, <1>3, <2>1, StillSoundHeap
<1>4. CASE /\ heap' = CaptureUpdate(heap, call.cap, Callee.n, processed + Pos)
           /\ Continue(call.pc + 1, UpdateTarget(heap, call.cap))
  <2>1. /\ FreeSound(heap')
        /\ Captures(heap') \subseteq Captures(heap) \cup {x}
        /\ Shared(heap, k) =>
             /\ x # k /\ UpdateTarget(heap, k) = x
             /\ heap'.cell[k].ref = heap.cell[k].ref - 1
             /\ heap'.cell[x].ref = 1
             /\ \A d \in Captures(heap) : d \notin {k, x} =>
                   heap'.cell[d].ref = heap.cell[d].ref
        /\ ~Shared(heap, k) =>
             /\ UpdateTarget(heap, k) = k /\ Captures(heap') = Captures(heap)
             /\ \A d \in Captures(heap) : heap'.cell[d].ref = heap.cell[d].ref
    <3>1. /\ heap \in Pools(Cells(RegexIds(prog), Vectors(prog))) /\ FreeSound(heap)
          /\ 0 \in RegexIds(prog)
      BY HeapParts DEF CapturesSound
    <3> QED BY <1>1, <1>4, <3>1, SavedVector, UpdateEffect
  <2>2. call'.cap = UpdateTarget(heap, k)
    BY <1>4 DEF Continue
  <2>3. CASE ~Shared(heap, k)
    BY <1>1, <1>2, <2>1, <2>2, <2>3, StillSound
  <2>4. CASE Shared(heap, k)
    <3>1. call'.cap = x /\ x # k /\ ThreadHolds(k)' \subseteq ThreadHolds(k)
      BY <1>2, <2>1, <2>2, <2>4, ThreadsKept
    <3>2. ASSUME NEW c \in Captures(heap') PROVE Covered(Holders(c)', heap'.cell[c].ref)
      <4>1. CASE c = x
        <5> PICK y : y = <<"call", 0>>
          OBVIOUS
        <5>1. FrameHolds(c)' \subseteq FrameHolds(c) \cup {y} /\ CallHold(c)' \subseteq {y}
          BY <1>2 DEF CallHold, FrameHolds
        <5>2. Holders(c)' \subseteq Holders(c) \cup {y}
          BY <1>2, <5>1, HolderJoins
        <5>3. Holders(c) = {} /\ heap'.cell[c].ref = 1
          BY <2>1, <2>4, <4>1, FreshUnheld
        <5> QED BY <5>2, <5>3, CoveredOne
      <4>2. CASE c = k
        <5> DEFINE N == {}
        <5>1. /\ ThreadHolds(c)' \subseteq ThreadHolds(c) \cup N
              /\ MatchHold(c)' \subseteq MatchHold(c) \cup N
              /\ call.cap = c /\ ~(CallHolds' /\ call'.cap = c) /\ stack' \in {stack, <<>>}
          BY <1>2, <3>1, <4>2 DEF MatchHold
        <5> HIDE DEF N
        <5>2. /\ <<"call", 0>> \in Holders(c)
              /\ Holders(c)' \subseteq (Holders(c) \ {<<"call", 0>>}) \cup N
          BY <1>1, <5>1, CallReleases
        <5>3. TheCall \in Holders(c) /\ Holders(c)' \subseteq Holders(c) \ {TheCall}
          BY <5>2 DEF N, TheCall
        <5>4. heap.cell[c].ref \in Int /\ Covered(Holders(c), heap.cell[c].ref)
          BY <1>1, <4>2, SoundParts
        <5>5. Covered(Holders(c)', heap.cell[c].ref - 1)
          BY <5>3, <5>4, CoveredLose
        <5> QED BY <2>1, <2>4, <4>2, <5>5
      <4>3. CASE c \notin {k, x}
        <5>1. c \in Captures(heap) /\ heap'.cell[c].ref = heap.cell[c].ref
          BY <2>1, <2>4, <4>3
        <5>2. Holders(c)' \subseteq Holders(c)
          BY <1>2, <3>1, <4>3, HoldersKept
        <5> QED BY <5>1, <5>2, StaysCovered
      <4> QED BY <4>1, <4>2, <4>3
    <3> QED BY <2>1, <3>2, SoundNext
  <2> QED BY <2>3, <2>4
<1> QED BY <1>3, <1>4 DEF AddSave

\* A new thread on the list of the call site, as the lists see it.
LEMMA ThreadAdded ==
    ASSUME TypeOK, ThreadsOwnedOnce, NEW thread \in Threads(prog, Len(heap.cell)),
           pool' = TakeThread(thread), SetTarget(Enlist(Target, Fresh(pool)))
    PROVE  /\ Listed' \subseteq Listed \cup {Fresh(pool)}
           /\ \A i \in Listed : pool'.cell[i] = pool.cell[i]
           /\ pool'.cell[Fresh(pool)] = thread
<1> PICK x : x = Fresh(pool)
  OBVIOUS
<1>1. /\ x \notin Listed
      /\ Listed \subseteq Captures(pool)
  <2>1. Listed \subseteq 1 .. Len(pool.cell)
    BY ThreadSeqs, RangeOfSeq DEF Listed
  <2> QED BY <2>1, FreshThread DEF Listed, Captures
<1>2. /\ pool'.cell[x] = thread
      /\ \A i \in Captures(pool) : i # x => pool'.cell[i] = pool.cell[i]
  BY AllocateEffect DEF TakeThread, TypeOK, TypeOfMemory
<1>3. /\ clist'.ids \in {clist.ids, Append(clist.ids, x)}
      /\ nlist'.ids \in {nlist.ids, Append(nlist.ids, x)}
      /\ temp'.ids \in {temp.ids, Append(temp.ids, x)}
  BY DEF SetTarget, Target, Enlist
<1>4. /\ Range(clist'.ids) \subseteq Range(clist.ids) \cup {x}
      /\ Range(nlist'.ids) \subseteq Range(nlist.ids) \cup {x}
      /\ Range(temp'.ids) \subseteq Range(temp.ids) \cup {x}
  <2> DEFINE S == 1 .. Len(pool.cell) + 1
  <2>1. clist.ids \in Seq(S) /\ nlist.ids \in Seq(S) /\ temp.ids \in Seq(S)
    <3>1. Len(pool.cell) \in Nat /\ Len(pool.cell) + 1 \in Nat
      BY ThreadSeqs
    <3> QED BY <3>1, ThreadSeqs, SeqWiden
  <2>2. x \in S
    BY FreshThread
  <2> HIDE DEF S
  <2>3. ASSUME NEW s \in Seq(S) PROVE Range(Append(s, x)) = Range(s) \cup {x}
    BY <2>2, AppendRange
  <2> QED BY <1>3, <2>1, <2>3
<1>5. Listed' \subseteq Listed \cup {x}
  BY <1>4 DEF Listed
<1> QED BY <1>1, <1>2, <1>5

\* An instruction that waits: the call hands its reference to the new thread.
LEMMA AddWaitingSound ==
    ASSUME TypeOK, ThreadsOwnedOnce, CapturesSound, AddWaiting
    PROVE  CapturesSound'
<1> PICK k, x : k = call.cap /\ x = Fresh(pool)
  OBVIOUS
<1>1. /\ at = "add" /\ CallHolds /\ k \in Captures(heap)
      /\ call.pc \in Live(prog) /\ prog \in Programs
  BY CalleeParts DEF AddWaiting, NewPc, Calling, CallHolds, TypeOK, TypeOfProgram
<1>2. matched' = matched /\ stack' = stack
  BY DEF AddWaiting
<1>3. /\ Captures(heap') = Captures(heap) /\ FreeSound(heap')
      /\ \A c \in Captures(heap) : heap'.cell[c].ref = heap.cell[c].ref
  <2>1. CASE heap' = heap
    BY <2>1 DEF CapturesSound
  <2>2. CASE heap' = WithId(heap, k, Callee.n) /\ Callee.op = "match"
    <3>1. Callee.n \in RegexIds(prog)
      BY <1>1, <2>2, InstructionParts DEF Callee, Ins
    <3> QED BY <1>1, <2>2, <3>1, WithIdSound
  <2> QED BY <2>1, <2>2 DEF AddWaiting
<1>4. CASE Result("ERROR") /\ UNCHANGED <<pool, lists>>
  <2>1. ~CallHolds' /\ Listed' = Listed
    BY <1>4 DEF Result, CallHolds, lists, Listed
  <2> QED BY <1>2, <1>3, <1>4, <2>1, StillSound
<1>5. CASE /\ pool' = TakeThread(ThreadOf(call))
           /\ SetTarget(Enlist(Target, Fresh(pool)))
           /\ Result("OK")
  <2>1. ThreadOf(call) \in Threads(prog, Len(heap.cell)) /\ ThreadOf(call).cap = k
    <3>1. SeenWordBefore \in BOOLEAN
      BY DEF SeenWordBefore
    <3> QED BY <1>1, <3>1 DEF Threads, ThreadOf, Captures
  <2>2. /\ Listed' \subseteq Listed \cup {x} /\ pool'.cell[x].cap = k
        /\ \A i \in Listed : pool'.cell[i] = pool.cell[i]
    BY <1>5, <2>1, ThreadAdded
  <2>3. ~CallHolds' /\ stack' \in {stack, <<>>}
    BY <1>2, <1>5 DEF Result, CallHolds
  <2>4. ASSUME NEW c \in Captures(heap') PROVE Covered(Holders(c)', heap'.cell[c].ref)
    <3>1. c \in Captures(heap) /\ heap'.cell[c].ref = heap.cell[c].ref
      BY <1>3
    <3>2. CASE c = k
      <4> PICK y : y = <<"thread", x>>
        OBVIOUS
      <4> DEFINE G == {y}
      <4>1. ThreadHolds(c)' \subseteq ThreadHolds(c) \cup {y}
        BY <2>2, <3>2, ThreadJoins
      <4>2. /\ ThreadHolds(c)' \subseteq ThreadHolds(c) \cup G
            /\ MatchHold(c)' \subseteq MatchHold(c) \cup G
            /\ CallHolds /\ call.cap = c /\ ~(CallHolds' /\ call'.cap = c)
        BY <1>1, <1>2, <2>3, <3>2, <4>1 DEF MatchHold
      <4> HIDE DEF G
      <4>3. /\ <<"call", 0>> \in Holders(c)
            /\ Holders(c)' \subseteq (Holders(c) \ {<<"call", 0>>}) \cup G
        BY ONLY <2>3, <4>2, CallReleases
      <4> PICK S, T, r : S = Holders(c) /\ T = Holders(c)' /\ r = heap'.cell[c].ref
        OBVIOUS
      <4>4. r \in Int /\ Covered(S, r)
        BY <3>1, SoundParts
      <4>5. TheCall \in S /\ T \subseteq (S \ {TheCall}) \cup {y}
        BY <4>3 DEF G, TheCall
      <4>6. Covered(T, r)
        BY ONLY <4>4, <4>5, CoveredTrade
      <4> QED BY <4>6
    <3>3. CASE c # k
      <4>1. ThreadHolds(c)' \subseteq ThreadHolds(c) /\ FrameHolds(c)' \subseteq FrameHolds(c)
        <5>1. ThreadHolds(c)' \subseteq ThreadHolds(c)
          BY <2>2, <3>3 DEF ThreadHolds, Thread
        <5>2. FrameHolds(c)' \subseteq FrameHolds(c)
          BY <2>3, FramesKept
        <5> QED BY <5>1, <5>2
      <4>2. CallHold(c)' \subseteq CallHold(c) /\ MatchHold(c)' \subseteq MatchHold(c)
        BY <1>2, <2>3 DEF CallHold, MatchHold
      <4>3. Holders(c)' \subseteq Holders(c)
        BY <4>1, <4>2, HoldersStay
      <4> QED BY <3>1, <4>3, StaysCovered
    <3> QED BY <3>2, <3>3
  <2> QED BY <1>3, <2>4, SoundNext
<1> QED BY <1>4, <1>5 DEF AddWaiting

\* The first branch of a SPLIT has returned: the second is called with the reference
\* that was kept for it, or drops it.
LEMMA AddReturnSound ==
    ASSUME TypeOK, CapturesSound, AddReturn
    PROVE  CapturesSound'
<1> PICK k, h : k = Top.cap /\ h = <<"frame", Len(stack)>>
  OBVIOUS
<1>1. /\ at = "return" /\ stack # <<>> /\ stack' = SubSeq(stack, 1, Len(stack) - 1)
      /\ UNCHANGED <<pool, lists, matched, rc>> /\ pool' = pool /\ matched' = matched
      /\ Listed' = Listed
  BY DEF AddReturn, addFrame, context, lists, Listed
<1>2. k \in Captures(heap)
  <2>1. stack \in Seq(Frames(prog, Len(heap.cell)))
    BY DEF TypeOK, TypeOfCalls
  <2>2. Len(stack) \in 1 .. Len(stack)
    BY <1>1, <2>1, LenProperties, EmptySeq
  <2>3. Top \in Frames(prog, Len(heap.cell))
    BY <2>1, <2>2, ElementOfSeq DEF Top
  <2> QED BY <2>3 DEF Frames, Captures
<1>3. ASSUME NEW c PROVE /\ FrameHolds(c)' \subseteq FrameHolds(c)
                         /\ ThreadHolds(c)' \subseteq ThreadHolds(c)
                         /\ MatchHold(c)' \subseteq MatchHold(c)
  <2>1. FrameHolds(c)' \subseteq FrameHolds(c) /\ ThreadHolds(c)' \subseteq ThreadHolds(c)
    BY <1>1, FramePopped, ThreadsKept
  <2> QED BY <1>1, <2>1 DEF MatchHold
<1>4. CASE rc = "OK"
  <2>1. call' = Top /\ heap' = heap /\ call'.cap = k /\ ~CallHolds
    BY <1>1, <1>4 DEF AddReturn, CallHolds
  <2>2. ASSUME NEW c \in Captures(heap') PROVE Covered(Holders(c)', heap'.cell[c].ref)
    <3>1. c \in Captures(heap) /\ heap'.cell[c].ref = heap.cell[c].ref
      BY <2>1
    <3>2. CASE c = k
      <4> DEFINE G == {TheCall}
      <4>1. CallHold(c)' \subseteq CallHold(c) \cup G /\ c = Top.cap
        BY <3>2 DEF CallHold, TheCall
      <4> HIDE DEF G
      <4>2. /\ <<"frame", Len(stack)>> \in Holders(c)
            /\ Holders(c)' \subseteq (Holders(c) \ {<<"frame", Len(stack)>>}) \cup G
        BY <1>1, <4>1, FrameReleases
      <4> PICK S, T, r : S = Holders(c) /\ T = Holders(c)' /\ r = heap'.cell[c].ref
        OBVIOUS
      <4>3. r \in Int /\ Covered(S, r)
        BY <3>1, SoundParts
      <4>4. h \in S /\ T \subseteq (S \ {h}) \cup {TheCall}
        BY <4>2 DEF G
      <4>5. Covered(T, r)
        BY ONLY <4>3, <4>4, CoveredTrade
      <4> QED BY <4>5
    <3>3. CASE c # k
      <4>1. CallHold(c)' \subseteq CallHold(c)
        BY <2>1, <3>3 DEF CallHold
      <4>2. Holders(c)' \subseteq Holders(c)
        BY <1>3, <4>1, HoldersStay
      <4> QED BY <3>1, <4>2, StaysCovered
    <3> QED BY <3>2, <3>3
  <2>3. FreeSound(heap')
    BY <2>1 DEF CapturesSound
  <2> QED BY <2>2, <2>3, SoundNext
<1>5. CASE rc # "OK"
  <2>1. heap' = DropRef(heap, k) /\ UNCHANGED <<at, call, rc>>
    BY <1>1, <1>5 DEF AddReturn
  <2>2. ASSUME NEW c PROVE CallHold(c)' = CallHold(c)
    BY <2>1 DEF CallHold, CallHolds
  <2>3. h \in Holders(k) /\ Holders(k)' \subseteq Holders(k) \ {h}
    <3> DEFINE N == {}
    <3>1. CallHold(k)' \subseteq CallHold(k) \cup N /\ k = Top.cap
      BY <2>2
    <3> HIDE DEF N
    <3>2. /\ <<"frame", Len(stack)>> \in Holders(k)
          /\ Holders(k)' \subseteq (Holders(k) \ {<<"frame", Len(stack)>>}) \cup N
      BY <1>1, <3>1, FrameReleases
    <3> QED BY <3>2 DEF N
  <2>4. /\ heap.cell[k].ref \in Int /\ Covered(Holders(k), heap.cell[k].ref)
        /\ heap.cell[k].ref # 0
    BY <1>2, <2>3, SoundParts
  <2>5. Covered(Holders(k)', heap.cell[k].ref - 1)
    BY <2>3, <2>4, CoveredLose
  <2>6. ASSUME NEW c \in Captures(heap), c # k PROVE Covered(Holders(c)', heap.cell[c].ref)
    <3>1. Holders(c)' \subseteq Holders(c)
      BY <1>3, <2>2, HoldersStay
    <3>2. /\ heap.cell[c].ref \in Int /\ Covered(Holders(c), heap.cell[c].ref)
          /\ heap.cell[c].ref <= heap.cell[c].ref
      BY SoundParts
    <3> QED BY <3>1, <3>2, CoveredSub
  <2>7. /\ heap \in Pools(Cells(RegexIds(prog), Vectors(prog))) /\ FreeSound(heap)
        /\ heap' \in {DecrRef(heap, k), DropRef(heap, k)}
    BY <2>1, HeapParts DEF CapturesSound
  <2> QED BY <1>2, <2>4, <2>5, <2>6, <2>7, DropSound
<1> QED BY <1>4, <1>5

\* A match is reported, with the reference it had.
LEMMA FinishMatchSound ==
    ASSUME TypeOK, CapturesSound, FinishMatch
    PROVE  CapturesSound'
<1> PICK k : k = matched
  OBVIOUS
<1>1. /\ k \in Captures(heap) /\ matched' = NoCapture /\ heap' = DecrRef(heap, k)
      /\ at' = "idle" /\ stack' = stack
  BY DEF FinishMatch, TypeOK, TypeOfContext, Return, adding
<1>2. /\ pool'.cell = pool.cell /\ Listed' \subseteq Listed /\ ~CallHolds'
  <2>1. clist'.ids = <<>> /\ nlist' = nlist /\ temp' = temp
    BY DEF FinishMatch, Emptied
  <2>2. pool'.cell = pool.cell
    BY DEF FinishMatch, TypeOK, TypeOfMemory, Pools
  <2> QED BY <1>1, <2>1, <2>2, EmptyRange DEF Listed, CallHolds
<1>3. stack' \in {stack, <<>>} /\ \A c : CallHold(c)' \subseteq CallHold(c)
  BY <1>1, <1>2 DEF CallHold
<1>4. TheMatch \in Holders(k) /\ Holders(k)' \subseteq Holders(k) \ {TheMatch}
  <2>1. matched' # k
    BY <1>1, SoundParts
  <2> QED BY <1>2, <1>3, <2>1, MatchReleases DEF TheMatch
<1>5. /\ heap.cell[k].ref \in Int /\ Covered(Holders(k), heap.cell[k].ref)
      /\ heap.cell[k].ref # 0
  BY <1>1, <1>4, SoundParts
<1>6. Covered(Holders(k)', heap.cell[k].ref - 1)
  BY <1>4, <1>5, CoveredLose
<1>7. ASSUME NEW c \in Captures(heap), c # k PROVE Covered(Holders(c)', heap.cell[c].ref)
  <2>1. /\ heap.cell[c].ref \in Int /\ Covered(Holders(c), heap.cell[c].ref)
        /\ c # NoCapture /\ heap.cell[c].ref <= heap.cell[c].ref
    <3>1. heap.cell[c].ref \in Int /\ Covered(Holders(c), heap.cell[c].ref) /\ c # NoCapture
      BY SoundParts
    <3> QED BY <3>1
  <2>2. matched' = c => matched = c
    BY <1>1, <2>1
  <2>3. Holders(c)' \subseteq Holders(c)
    BY <1>2, <1>3, <2>2, HoldersKept
  <2> QED BY <2>1, <2>3, CoveredSub
<1>8. /\ heap \in Pools(Cells(RegexIds(prog), Vectors(prog))) /\ FreeSound(heap)
      /\ heap' \in {DecrRef(heap, k), DropRef(heap, k)}
  BY <1>1, HeapParts DEF CapturesSound
<1> QED BY <1>1, <1>5, <1>6, <1>7, <1>8, DropSound

\* The steps that hand no capture on.
LEMMA QuietSound ==
    ASSUME TypeOK, CapturesSound,
           \/ ExecAfterEof \/ ExecEmptyChunk \/ ExecResume
           \/ LoopEnd \/ LoopStep \/ LoopSkip \/ ClearedSkipped \/ StepDone \/ StepNext
           \/ Seeded \/ Restarted \/ Consumed \/ Asserted \/ AddFails
           \/ FinishDeclined \/ FinishAgain \/ UNCHANGED vars
    PROVE  CapturesSound'
<1>1. CASE Fail /\ UNCHANGED memory
  BY <1>1, FailSound
<1>2. CASE \/ ExecAfterEof \/ ExecEmptyChunk \/ UNCHANGED vars
  <2>1. heap' = heap /\ pool' = pool /\ UNCHANGED <<lists, adding, at, matched>>
    BY <1>2 DEF ExecAfterEof, ExecEmptyChunk, vars, memory, exec, context
  <2>2. Listed' = Listed /\ stack' = stack /\ (CallHolds' => CallHolds /\ call'.cap = call.cap)
    BY <2>1 DEF lists, adding, Listed, CallHolds
  <2> QED BY <2>1, <2>2, StillSoundHeap
<1>3. CASE ExecResume \/ LoopEnd \/ LoopStep \/ LoopSkip \/ ClearedSkipped \/ StepNext
           \/ FinishDeclined \/ FinishAgain
  <2>1. heap' = heap /\ pool' = pool /\ UNCHANGED <<lists, adding, matched>>
    BY <1>3 DEF ExecResume, LoopEnd, LoopStep, LoopSkip, ClearedSkipped, StepNext,
                FinishDeclined, FinishAgain, memory, context
  <2>2. at' \in {"loop", "finish", "threads", "clear-skipped", "skipped", "idle"}
    BY <1>3 DEF ExecResume, LoopEnd, LoopStep, LoopSkip, ClearedSkipped, StepNext,
                FinishDeclined, FinishAgain, Return, RunThreads
  <2>3. Listed' = Listed /\ stack' = stack /\ ~CallHolds'
    BY <2>1, <2>2 DEF lists, adding, Listed, CallHolds
  <2> QED BY <2>1, <2>3, StillSoundHeap
<1>4. CASE StepDone
  <2>1. heap' = heap /\ pool' = pool /\ matched' = matched /\ stack' = stack
        /\ clist' = nlist /\ nlist' = clist /\ temp' = temp /\ at' = "clear-leftover"
    BY <1>4 DEF StepDone, memory, context, adding
  <2>2. Listed' \subseteq Listed /\ ~CallHolds'
    BY <2>1 DEF Listed, CallHolds
  <2> QED BY <2>1, <2>2, StillSoundHeap
<1>5. CASE Called /\ (Seeded \/ Restarted)
  <2>1. heap' = heap /\ pool' = pool /\ UNCHANGED lists /\ matched' = matched /\ stack' = <<>>
        /\ at' \in {"loop", "finish", "threads", "idle"}
    BY <1>5 DEF Seeded, Restarted, Called, memory, context, Fail, Return, RunThreads
  <2>2. Listed' = Listed /\ ~CallHolds'
    BY <2>1 DEF lists, Listed, CallHolds
  <2> QED BY <2>1, <2>2, StillSoundHeap
<1>6. CASE Consumed \/ Asserted
  <2>1. /\ heap' = heap /\ pool' = FreeThread(pool, t) /\ matched' = matched
        /\ stack' = <<>> /\ at' = "threads"
    BY <1>6 DEF Consumed, Asserted, Called, context
  <2>2. pool'.cell = pool.cell
    BY <2>1 DEF FreeThread, TypeOK, TypeOfMemory, Pools
  <2>3. Listed' \subseteq Listed
    <3>1. CASE UNCHANGED lists
      BY <3>1 DEF lists, Listed
    <3>2. CASE clist' = Spliced(temp, clist) /\ temp' = EmptyList /\ nlist' = nlist
      <4>1. Range(clist'.ids) = Range(temp.ids) \cup Range(clist.ids)
        <5>1. clist'.ids = temp.ids \o clist.ids
          BY <3>2 DEF Spliced
        <5> QED BY <5>1, ThreadSeqs, JoinRange
      <4>2. Range(temp'.ids) = {}
        BY <3>2, EmptyRange DEF EmptyList
      <4> QED BY <3>2, <4>1, <4>2 DEF Listed
    <3> QED BY <1>6, <3>1, <3>2 DEF Consumed, Asserted
  <2>4. ~CallHolds'
    BY <2>1 DEF CallHolds
  <2> QED BY <2>1, <2>2, <2>3, <2>4, StillSoundHeap
<1>7. CASE AddFails
  BY <1>7, FailSound DEF AddFails
<1>8. CASE Seeded \/ Restarted
  <2>1. Called \/ (Fail /\ UNCHANGED memory)
    BY <1>8 DEF Seeded, Restarted
  <2> QED BY <1>1, <1>5, <1>8, <2>1
<1> QED BY <1>2, <1>3, <1>4, <1>6, <1>7, <1>8

\* Every step keeps the count of each capture up to its holders.
LEMMA SoundStep ==
    TypeOK /\ ThreadsOwnedOnce /\ CapturesSound /\ [Next]_vars => CapturesSound'
<1> SUFFICES ASSUME TypeOK, ThreadsOwnedOnce, CapturesSound, [Next]_vars
             PROVE  CapturesSound'
  OBVIOUS
<1>1. CASE Call \/ UNCHANGED vars
  <2>1. CASE ExecFirstBuffer
    <3>1. UNCHANGED <<pool, lists, matched>> /\ at = "idle" /\ ~CallHolds
      BY <2>1 DEF ExecFirstBuffer, CallerReady, CallHolds, lists
    <3>2. CASE heap' = CaptureCreate(heap, prog.slots) /\ AddFrom("first", 0, Fresh(heap))
      BY <3>1, <3>2, CreateSound
    <3>3. CASE at' = "idle" /\ UNCHANGED <<heap, adding>>
      <4>1. Listed' = Listed /\ stack' = stack /\ ~CallHolds'
        BY <3>1, <3>3 DEF lists, adding, Listed, CallHolds
      <4> QED BY <3>1, <3>3, <4>1, StillSoundHeap
    <3> QED BY <2>1, <3>2, <3>3 DEF ExecFirstBuffer
  <2> QED BY <1>1, <2>1, QuietSound DEF Call
<1>2. CASE Loop
  <2>1. CASE Skipped
    <3>1. CASE Fail /\ UNCHANGED <<tags, memory>>
      BY <3>1, FailSound
    <3>2. CASE /\ heap' = CaptureCreate(heap, prog.slots) /\ AddFrom("skip", 0, Fresh(heap))
               /\ UNCHANGED <<pool, lists, context>>
      <4>1. ~CallHolds /\ UNCHANGED <<pool, lists, matched>>
        BY <2>1, <3>2 DEF Skipped, CallHolds, context
      <4> QED BY <3>2, <4>1, CreateSound
    <3> QED BY <2>1, <3>1, <3>2 DEF Skipped
  <2>2. CASE ClearThread
    BY <2>2, ClearThreadSound
  <2> QED BY <1>2, <2>1, <2>2, QuietSound DEF Loop
<1>3. CASE Run
  BY <1>3, RunSound
<1>4. CASE AddThread
  BY <1>4, AddPlainSound, AddSplitSound, AddSaveSound, AddWaitingSound, AddReturnSound
     DEF AddThread
<1>5. CASE AddDone
  BY <1>5, ConsumedToMatchSound, QuietSound DEF AddDone
<1>6. CASE Finish
  BY <1>6, FinishMatchSound, QuietSound DEF Finish
<1> QED BY <1>1, <1>2, <1>3, <1>4, <1>5, <1>6 DEF Next, Machine

\* There is no capture at first.
LEMMA SoundInit == Init => CapturesSound
<1> SUFFICES ASSUME Init PROVE CapturesSound
  OBVIOUS
<1>1. heap = [cell |-> <<>>, free |-> <<>>]
  BY DEF Init, EmptyHeap
<1>2. Captures(heap) = {} /\ FreeSound(heap)
  BY <1>1, EmptyRange DEF Captures, FreeSound
<1> QED BY <1>2 DEF CapturesSound

\* Every capture has at least as many references as there are threads, pending
\* branches, calls and matches that hold it: sre_capture_decr_ref recycles none that is
\* still needed, and sre_capture_update copies every one that is shared.
THEOREM HoldersAreCounted == Spec => []RefsCoverHolders
<1>1. Init => TypeOK /\ ThreadsOwnedOnce /\ CapturesSound
  BY TypeInit, OwnedInit, SoundInit
<1>2. TypeOK /\ ThreadsOwnedOnce /\ CapturesSound /\ [Next]_vars
        => (TypeOK /\ ThreadsOwnedOnce /\ CapturesSound)'
  BY TypeStep, OwnedStep, SoundStep
<1>3. CapturesSound => RefsCoverHolders
  BY SoundSuffices
<1> QED BY <1>1, <1>2, <1>3, PTL DEF Spec

\* A capture on ctx->free_capture has no reference left, and is there once: two calls
\* of sre_capture_create never return the same cell while somebody holds it.
THEOREM FreeCapturesAreUnused == Spec => []FreeCapturesUnused
<1>1. Init => TypeOK /\ ThreadsOwnedOnce /\ CapturesSound
  BY TypeInit, OwnedInit, SoundInit
<1>2. TypeOK /\ ThreadsOwnedOnce /\ CapturesSound /\ [Next]_vars
        => (TypeOK /\ ThreadsOwnedOnce /\ CapturesSound)'
  BY TypeStep, OwnedStep, SoundStep
<1>3. CapturesSound => FreeCapturesUnused
  BY SoundSuffices
<1> QED BY <1>1, <1>2, <1>3, PTL DEF Spec

(***************************************************************************)
(* Copy on write: what a step writes into.                                 *)
(***************************************************************************)
KeepsVectors(g) == \A c \in Captures(heap) : g.cell[c].vector = heap.cell[c].vector

\* Counting references leaves the positions alone.
LEMMA CountsKeepVectors ==
    ASSUME TypeOK, NEW k \in Captures(heap)
    PROVE  KeepsVectors(AddRef(heap, k)) /\ KeepsVectors(DropRef(heap, k))
           /\ KeepsVectors(DecrRef(heap, k))
<1>1. heap \in Pools(Cells(RegexIds(prog), Vectors(prog)))
  BY HeapParts
<1>2. KeepsVectors(AddRef(heap, k)) /\ KeepsVectors(DropRef(heap, k))
  BY <1>1, AddRefEffect, DropRefEffect DEF KeepsVectors
<1>3. DecrRef(heap, k).cell = DropRef(heap, k).cell
  BY DEF DecrRef
<1> QED BY <1>2, <1>3 DEF KeepsVectors

\* The matched label neither.
LEMMA MatchedKeepsVectors ==
    ASSUME TypeOK, NEW g \in Pools(Cells(RegexIds(prog), Vectors(prog))),
           Captures(g) = Captures(heap), KeepsVectors(g), NEW k, NEW i, Matched(g, k, i)
    PROVE  KeepsVectors(heap')
<1> PICK old : old = matched
  OBVIOUS
<1>1. /\ heap' = IF old = NoCapture THEN g ELSE DecrRef(g, old)
      /\ old \in Captures(g) \cup {NoCapture}
  BY DEF Matched, TypeOK, TypeOfContext
<1>2. CASE old = NoCapture
  BY <1>1, <1>2
<1>3. CASE old # NoCapture
  <2>1. heap'.cell = DropRef(g, old).cell /\ old \in Captures(g)
    BY <1>1, <1>3 DEF DecrRef
  <2>2. \A c \in Captures(g) : DropRef(g, old).cell[c].vector = g.cell[c].vector
    BY <2>1, DropRefEffect
  <2> QED BY <2>1, <2>2 DEF KeepsVectors
<1> QED BY <1>2, <1>3

\* A step that changes the positions in a capture changes those of one that the caller
\* alone holds, or of one that was free.
LEMMA WritesStep ==
    ASSUME TypeOK, ThreadsOwnedOnce, CapturesSound, [Next]_vars,
           NEW c \in Captures(heap), heap'.cell[c].vector # heap.cell[c].vector
    PROVE  Cardinality(Holders(c)) <= 1
<1>1. heap.cell[c].ref \in Int /\ Covered(Holders(c), heap.cell[c].ref)
  BY SoundParts
<1>2. ASSUME c = Fresh(heap) PROVE Cardinality(Holders(c)) <= 1
  <2>1. Holders(c) = {}
    BY <1>2, FreshUnheld
  <2>2. Cardinality(Holders(c)) = 0
    BY <2>1, FS_EmptySet
  <2> QED BY <2>2
<1>3. ~KeepsVectors(heap')
  BY DEF KeepsVectors
<1>4. CASE heap' = heap
  BY <1>4
<1>5. CASE heap' = CaptureCreate(heap, prog.slots)
  <2> DEFINE v == [i \in 0 .. prog.slots - 1 |-> -1]
  <2>1. heap' = Take(heap, v) /\ v \in Vectors(prog)
    BY <1>5 DEF CaptureCreate, Vectors
  <2> HIDE DEF v
  <2>2. \A d \in Captures(heap) : d # Fresh(heap) => heap'.cell[d] = heap.cell[d]
    BY <2>1, HeapParts, TakeEffect
  <2> QED BY <1>2, <2>2
<1>6. ASSUME NEW k \in Captures(heap)
      PROVE  heap' \notin {AddRef(heap, k), DropRef(heap, k), DecrRef(heap, k)}
  BY <1>3, CountsKeepVectors
<1>7. CASE Call \/ Skipped
  BY <1>4, <1>5, <1>7 DEF Call, ExecAfterEof, ExecEmptyChunk, ExecFirstBuffer, ExecResume,
                          Skipped, Fail, memory
<1>8. CASE ClearThread
  <2>1. ASSUME NEW l \in {clist, nlist}, l.ids # <<>>
        PROVE  heap' # DecrRef(heap, Thread(Head(l.ids)).cap)
    <3>1. Head(l.ids) \in Range(l.ids)
      BY <2>1, ThreadSeqs, HeadInRange
    <3>2. Thread(Head(l.ids)).cap \in Captures(heap)
      BY <2>1, <3>1, ListedParts DEF Listed
    <3> QED BY <1>6, <3>2
  <2> QED BY <1>8, <2>1 DEF ClearThread
<1>9. CASE Run
  <2>1. clist.ids # <<>> /\ Current \in Listed
    <3>1. clist.ids # <<>>
      BY <1>9 DEF Run, ThreadDies, ThreadConsumes, AssertionFails, AssertionHold,
                  ThreadMatches, Dispatch
    <3> QED BY <3>1, ThreadSeqs, HeadInRange DEF Listed, Current
  <2>2. Thread(Current).cap \in Captures(heap) /\ Thread(Current).pc \in Live(prog)
    BY <2>1, ListedParts, ThreadParts DEF TypeOK, TypeOfMemory, Thread
  <2>3. CASE ThreadMatches
    <3> PICK k, g : k = Thread(Current).cap /\ g = WithId(heap, k, Waiting.n)
      OBVIOUS
    <3>1. Matched(g, k, Current) /\ Waiting.op = "match"
      BY <2>3 DEF ThreadMatches
    <3>2. Waiting.n \in RegexIds(prog)
      BY <2>2, <3>1, InstructionParts DEF Waiting, Ins, TypeOK, TypeOfProgram
    <3>3. /\ g \in Pools(Cells(RegexIds(prog), Vectors(prog)))
          /\ Captures(g) = Captures(heap) /\ KeepsVectors(g)
      BY <2>2, <3>2, WithIdSound DEF KeepsVectors
    <3> QED BY <1>3, <3>1, <3>3, MatchedKeepsVectors
  <2>4. CASE ThreadDies
    BY <1>6, <2>2, <2>4 DEF ThreadDies
  <2>5. CASE ThreadConsumes \/ AssertionFails \/ AssertionHold
    BY <1>4, <2>5 DEF ThreadConsumes, AssertionFails, AssertionHold, memory
  <2> QED BY <1>9, <2>3, <2>4, <2>5 DEF Run
<1>10. CASE AddSplit \/ AddMatchDone \/ AddWaiting \/ AddSave
  <2>1. Calling
    BY <1>10 DEF AddSplit, AddMatchDone, AddWaiting, AddSave, NewPc
  <2>2. call.cap \in Captures(heap) /\ call.pc \in Live(prog)
    BY <2>1, CalleeParts
  <2>3. CASE AddSplit
    BY <1>6, <2>2, <2>3 DEF AddSplit
  <2>4. CASE heap' = WithId(heap, call.cap, Callee.n) /\ Callee.op = "match"
    <3>1. Callee.n \in RegexIds(prog)
      BY <2>2, <2>4, InstructionParts DEF Callee, Ins, TypeOK, TypeOfProgram
    <3> QED BY <2>2, <2>4, <3>1, WithIdSound
  <2>5. CASE AddSave /\ heap' # heap
    <3>1. heap' = CaptureUpdate(heap, call.cap, Callee.n, processed + Pos)
      BY <2>5 DEF AddSave
    <3>2. /\ heap \in Pools(Cells(RegexIds(prog), Vectors(prog))) /\ FreeSound(heap)
          /\ 0 \in RegexIds(prog)
      BY HeapParts DEF CapturesSound
    <3>3. /\ Shared(heap, call.cap) =>
               \A d \in Captures(heap) : d # Fresh(heap) =>
                     heap'.cell[d].vector = heap.cell[d].vector
          /\ ~Shared(heap, call.cap) =>
               \A d \in Captures(heap) : d # call.cap =>
                     heap'.cell[d].vector = heap.cell[d].vector
      BY <2>2, <2>5, <3>1, <3>2, SavedVector, UpdateEffect
    <3>4. CASE Shared(heap, call.cap)
      BY <1>2, <3>3, <3>4
    <3>5. CASE ~Shared(heap, call.cap)
      <4>1. c = call.cap /\ ~(heap.cell[c].ref > 1)
        BY <3>3, <3>5 DEF Shared
      <4>2. Cardinality(Holders(c)) \in Nat /\ Cardinality(Holders(c)) <= heap.cell[c].ref
        BY <1>1, FS_CardinalityType DEF Covered
      <4> QED BY <1>1, <4>1, <4>2
    <3> QED BY <3>4, <3>5
  <2> QED BY <1>4, <1>10, <2>3, <2>4, <2>5 DEF AddMatchDone, AddWaiting
<1>11. CASE AddReturn
  <2>1. Top.cap \in Captures(heap)
    <3>1. stack \in Seq(Frames(prog, Len(heap.cell))) /\ stack # <<>>
      BY <1>11 DEF TypeOK, TypeOfCalls, AddReturn
    <3>2. Len(stack) \in 1 .. Len(stack)
      BY <3>1, LenProperties, EmptySeq
    <3>3. Top \in Frames(prog, Len(heap.cell))
      BY <3>1, <3>2, ElementOfSeq DEF Top
    <3> QED BY <3>3 DEF Frames, Captures
  <2> QED BY <1>4, <1>6, <1>11, <2>1 DEF AddReturn
<1>12. CASE ConsumedToMatch
  <2>1. Matched(heap, call.cap, t)
    BY <1>12 DEF ConsumedToMatch
  <2>2. /\ heap \in Pools(Cells(RegexIds(prog), Vectors(prog)))
        /\ KeepsVectors(heap)
    BY HeapParts DEF KeepsVectors
  <2> QED BY <1>3, <2>1, <2>2, MatchedKeepsVectors
<1>13. CASE FinishMatch
  <2>1. heap' = DecrRef(heap, matched) /\ matched \in Captures(heap)
    BY <1>13 DEF FinishMatch, TypeOK, TypeOfContext
  <2> QED BY <1>6, <2>1
<1>14. CASE \/ LoopEnd \/ LoopStep \/ LoopSkip \/ ClearedSkipped \/ StepDone \/ StepNext
            \/ AddMarked \/ AddJmp \/ AddLookBehind
            \/ Seeded \/ Restarted \/ Consumed \/ Asserted \/ AddFails
            \/ FinishDeclined \/ FinishAgain \/ UNCHANGED vars
  BY <1>4, <1>14 DEF LoopEnd, LoopStep, LoopSkip, ClearedSkipped, StepDone, StepNext,
     AddMarked, AddJmp, AddLookBehind, Seeded, Restarted, Consumed, Asserted, AddFails,
     FinishDeclined, FinishAgain, vars, memory
<1> QED BY <1>7, <1>8, <1>9, <1>10, <1>11, <1>12, <1>13, <1>14
        DEF Next, Machine, Loop, Run, AddThread, AddDone, Finish

\* Copy on write, for every program and stream: sre_capture_update never changes the
\* positions that somebody other than its caller still reads.
THEOREM WritesAreNeverShared == Spec => WritesAreUnshared
<1> DEFINE Writes ==
      \A c \in Captures(heap) :
          heap'.cell[c].vector # heap.cell[c].vector => Cardinality(Holders(c)) <= 1
<1>1. Init => TypeOK /\ ThreadsOwnedOnce /\ CapturesSound
  BY TypeInit, OwnedInit, SoundInit
<1>2. TypeOK /\ ThreadsOwnedOnce /\ CapturesSound /\ [Next]_vars
        => (TypeOK /\ ThreadsOwnedOnce /\ CapturesSound)'
  BY TypeStep, OwnedStep, SoundStep
<1>3. TypeOK /\ ThreadsOwnedOnce /\ CapturesSound /\ [Next]_vars => [Writes]_vars
  BY WritesStep
<1> QED BY <1>1, <1>2, <1>3, PTL DEF Spec, WritesAreUnshared
=============================================================================
