-------------------------- MODULE PikeThreadsProofs --------------------------
(***************************************************************************)
(* Theorems about the thread lists of PikeVM, for every program, stream    *)
(* and caller: which list a thread cell is in, where the tail pointers     *)
(* point, and which tags the instructions carry.                           *)
(***************************************************************************)
EXTENDS PikeVMProofs

(***************************************************************************)
(* Sequences whose elements are all different.                             *)
(***************************************************************************)

\* The head of a sequence is in it.
LEMMA HeadInRange ==
    ASSUME NEW S, NEW s \in Seq(S), s # <<>>
    PROVE  Head(s) \in Range(s)
<1>1. Len(s) \in Nat /\ Len(s) # 0 /\ DOMAIN s = 1 .. Len(s)
  BY LenProperties, EmptySeq
<1>2. 1 \in DOMAIN s /\ Head(s) = s[1]
  BY <1>1
<1> QED BY <1>2 DEF Range

\* Taking the head off: it is the one element that goes.
LEMMA PopRange ==
    ASSUME NEW S, NEW s \in Seq(S), s # <<>>, IsInjective(s)
    PROVE  /\ IsInjective(Tail(s)) /\ Head(s) \in Range(s)
           /\ Range(Tail(s)) = Range(s) \ {Head(s)}
<1>1. /\ Len(s) \in Nat /\ Len(s) # 0 /\ DOMAIN s = 1 .. Len(s)
      /\ Tail(s) \in Seq(S) /\ Len(Tail(s)) = Len(s) - 1
      /\ \A i \in 1 .. Len(Tail(s)) : Tail(s)[i] = s[i + 1]
  BY LenProperties, EmptySeq, HeadTailProperties
<1>2. DOMAIN Tail(s) = 1 .. Len(s) - 1
  BY <1>1, LenProperties
<1>3. Head(s) = s[1]
  OBVIOUS
<1>4. Head(s) \in Range(s)
  BY HeadInRange
<1>5. IsInjective(Tail(s))
  <2> SUFFICES ASSUME NEW a \in 1 .. Len(s) - 1, NEW b \in 1 .. Len(s) - 1,
                      Tail(s)[a] = Tail(s)[b]
               PROVE  a = b
    BY <1>2 DEF IsInjective
  <2>1. s[a + 1] = s[b + 1] /\ a + 1 \in 1 .. Len(s) /\ b + 1 \in 1 .. Len(s)
    BY <1>1
  <2> QED BY <1>1, <2>1 DEF IsInjective
<1>6. ASSUME NEW x \in Range(Tail(s)) PROVE x \in Range(s) \ {Head(s)}
  <2>1. PICK a \in 1 .. Len(s) - 1 : x = Tail(s)[a]
    BY <1>2 DEF Range
  <2>2. x = s[a + 1] /\ a + 1 \in 1 .. Len(s) /\ a + 1 # 1 /\ 1 \in 1 .. Len(s)
    BY <1>1, <2>1
  <2>3. x # s[1]
    BY <1>1, <2>2 DEF IsInjective
  <2> QED BY <1>1, <1>3, <2>2, <2>3 DEF Range
<1>7. ASSUME NEW x \in Range(s) \ {Head(s)} PROVE x \in Range(Tail(s))
  <2>1. PICK b \in 1 .. Len(s) : x = s[b]
    BY <1>1 DEF Range
  <2>2. b # 1
    BY <1>3, <2>1
  <2>3. b - 1 \in 1 .. Len(s) - 1 /\ (b - 1) + 1 = b
    BY <1>1, <2>2
  <2>4. x = Tail(s)[b - 1]
    BY <1>1, <2>1, <2>3
  <2> QED BY <1>2, <2>3, <2>4 DEF Range
<1> QED BY <1>4, <1>5, <1>6, <1>7

\* Putting one sequence in front of another that shares no element with it.
LEMMA JoinRange ==
    ASSUME NEW S, NEW s \in Seq(S), NEW r \in Seq(S)
    PROVE  /\ Range(s \o r) = Range(s) \cup Range(r)
           /\ IsInjective(s) /\ IsInjective(r) /\ Range(s) \cap Range(r) = {}
                => IsInjective(s \o r)
<1>1. Range(s \o r) = Range(s) \cup Range(r)
  BY RangeConcatenation
<1>2. ASSUME IsInjective(s), IsInjective(r), Range(s) \cap Range(r) = {}
      PROVE  IsInjective(s \o r)
  <2>1. /\ Len(s) \in Nat /\ Len(r) \in Nat
        /\ DOMAIN s = 1 .. Len(s) /\ DOMAIN r = 1 .. Len(r)
    BY LenProperties
  <2>2. /\ s \o r \in Seq(S) /\ Len(s \o r) = Len(s) + Len(r)
        /\ \A i \in 1 .. Len(s) + Len(r) :
              (s \o r)[i] = IF i <= Len(s) THEN s[i] ELSE r[i - Len(s)]
    BY ConcatProperties
  <2>3. DOMAIN (s \o r) = 1 .. Len(s) + Len(r)
    BY <2>2, LenProperties
  <2> DEFINE j == s \o r
  <2>4. ASSUME NEW a \in 1 .. Len(s) + Len(r), a <= Len(s)
        PROVE  a \in 1 .. Len(s) /\ j[a] = s[a] /\ j[a] \in Range(s)
    BY <2>1, <2>2, <2>4 DEF Range
  <2>5. ASSUME NEW a \in 1 .. Len(s) + Len(r), ~(a <= Len(s))
        PROVE  a - Len(s) \in 1 .. Len(r) /\ j[a] = r[a - Len(s)] /\ j[a] \in Range(r)
    <3>1. a - Len(s) \in 1 .. Len(r)
      BY <2>1, <2>5
    <3> QED BY <2>1, <2>2, <2>5, <3>1 DEF Range
  <2> SUFFICES ASSUME NEW a \in 1 .. Len(s) + Len(r), NEW b \in 1 .. Len(s) + Len(r),
                      j[a] = j[b]
               PROVE  a = b
    BY <2>3 DEF IsInjective
  <2> HIDE DEF j
  <2>6. CASE a <= Len(s) /\ b <= Len(s)
    BY <1>2, <2>1, <2>4, <2>6 DEF IsInjective
  <2>7. CASE ~(a <= Len(s)) /\ ~(b <= Len(s))
    <3>1. a - Len(s) = b - Len(s)
      BY <1>2, <2>1, <2>5, <2>7 DEF IsInjective
    <3> QED BY <2>1, <3>1
  <2>8. CASE (a <= Len(s)) # (b <= Len(s))
    BY <1>2, <2>4, <2>5, <2>8
  <2> QED BY <2>6, <2>7, <2>8
<1> QED BY <1>1, <1>2

\* A sequence of one element.
LEMMA SingleRange ==
    ASSUME NEW S, NEW x \in S
    PROVE  <<x>> \in Seq(S) /\ Range(<<x>>) = {x} /\ IsInjective(<<x>>)
BY DEF Range, IsInjective

\* Putting one element in front.
LEMMA PushRange ==
    ASSUME NEW S, NEW s \in Seq(S), NEW x \in S
    PROVE  /\ Range(<<x>> \o s) = Range(s) \cup {x}
           /\ IsInjective(s) /\ x \notin Range(s) => IsInjective(<<x>> \o s)
<1> DEFINE one == <<x>>
<1>1. one \in Seq(S) /\ Range(one) = {x} /\ IsInjective(one)
  BY SingleRange
<1> HIDE DEF one
<1>2. Range(one \o s) = Range(s) \cup {x}
  BY <1>1, JoinRange
<1>3. ASSUME IsInjective(s), x \notin Range(s) PROVE IsInjective(one \o s)
  <2>1. Range(one) \cap Range(s) = {}
    BY <1>1, <1>3
  <2> QED BY <1>1, <1>3, <2>1, JoinRange
<1> QED BY <1>2, <1>3 DEF one

\* Putting one element at the end.
LEMMA AppendRange ==
    ASSUME NEW S, NEW s \in Seq(S), NEW x \in S
    PROVE  /\ Range(Append(s, x)) = Range(s) \cup {x}
           /\ IsInjective(s) /\ x \notin Range(s) => IsInjective(Append(s, x))
<1> DEFINE one == <<x>>
<1>1. one \in Seq(S) /\ Range(one) = {x} /\ IsInjective(one)
  BY SingleRange
<1>2. Append(s, x) = s \o one
  BY AppendIsConcat
<1> HIDE DEF one
<1>3. Range(s \o one) = Range(s) \cup Range(one)
  BY <1>1, JoinRange
<1>4. ASSUME IsInjective(s), x \notin Range(s) PROVE IsInjective(s \o one)
  <2>1. Range(s) \cap Range(one) = {}
    BY <1>1, <1>4
  <2> QED BY <1>1, <1>4, <2>1, JoinRange
<1> QED BY <1>1, <1>2, <1>3, <1>4

\* The empty sequence.
LEMMA EmptyRange == Range(<<>>) = {} /\ IsInjective(<<>>)
BY DEF Range, IsInjective

(***************************************************************************)
(* Where the threads are.  A step moves a thread from one of the five      *)
(* places to another, and there is nothing else that the lists may share.  *)
(***************************************************************************)
Apart(a, b, c, d, e) ==
    /\ a \cap b = {} /\ a \cap c = {} /\ a \cap d = {} /\ a \cap e = {}
    /\ b \cap c = {} /\ b \cap d = {} /\ b \cap e = {}
    /\ c \cap d = {} /\ c \cap e = {}
    /\ d \cap e = {}

\* The same as ThreadsOwnedOnce, of the sequences cs, ns, ts, fs and the set r.
Owned(cs, ns, ts, fs, r) ==
    /\ IsInjective(cs) /\ IsInjective(ns) /\ IsInjective(ts) /\ IsInjective(fs)
    /\ Apart(Range(cs), Range(ns), Range(ts), Range(fs), r)

\* Five sets are pairwise disjoint, said with indexes and without.
LEMMA ApartForm ==
    ASSUME NEW a, NEW b, NEW c, NEW d, NEW e
    PROVE  (\A i, j \in 1 .. 5 : i # j =>
               <<a, b, c, d, e>>[i] \cap <<a, b, c, d, e>>[j] = {})
           <=> Apart(a, b, c, d, e)
<1> DEFINE w == <<a, b, c, d, e>>
<1>1. w[1] = a /\ w[2] = b /\ w[3] = c /\ w[4] = d /\ w[5] = e
  OBVIOUS
<1>2. 1 .. 5 = {1, 2, 3, 4, 5}
  OBVIOUS
<1> HIDE DEF w
<1>3. ASSUME \A i, j \in 1 .. 5 : i # j => w[i] \cap w[j] = {} PROVE Apart(a, b, c, d, e)
  BY <1>1, <1>2, <1>3 DEF Apart
<1>4. ASSUME Apart(a, b, c, d, e), NEW i \in 1 .. 5, NEW j \in 1 .. 5, i # j
      PROVE  w[i] \cap w[j] = {}
  <2>1. i \in {1, 2, 3, 4, 5} /\ j \in {1, 2, 3, 4, 5}
    BY <1>2
  <2> QED BY <1>1, <1>4, <2>1 DEF Apart
<1> QED BY <1>3, <1>4 DEF w

\* ThreadsOwnedOnce, said of the lists as they are.
LEMMA OwnedForm ==
    ThreadsOwnedOnce <=> Owned(clist.ids, nlist.ids, temp.ids, pool.free, Running)
BY ApartForm DEF ThreadsOwnedOnce, Whereabouts, Owned

\* ThreadsOwnedOnce, said of the lists after a step.
LEMMA OwnedFormNext ==
    ThreadsOwnedOnce' <=>
        Owned(clist'.ids, nlist'.ids, temp'.ids, pool'.free, Running')
BY ApartForm DEF ThreadsOwnedOnce, Whereabouts, Owned

\* The lists and the free cells are sequences of threads.
LEMMA ThreadSeqs ==
    ASSUME TypeOK
    PROVE  /\ clist.ids \in Seq(1 .. Len(pool.cell)) /\ nlist.ids \in Seq(1 .. Len(pool.cell))
           /\ temp.ids \in Seq(1 .. Len(pool.cell)) /\ pool.free \in Seq(1 .. Len(pool.cell))
           /\ Len(pool.cell) \in Nat /\ t \in 0 .. Len(pool.cell)
BY PoolParts DEF TypeOK, TypeOfMemory, TypeOfContext, TypeOfLocals, ThreadLists

\* The three lists may change places.
LEMMA OwnedSwap ==
    ASSUME NEW cs, NEW ns, NEW ts, NEW fs, NEW r, Owned(cs, ns, ts, fs, r)
    PROVE  Owned(ns, cs, ts, fs, r) /\ Owned(ts, ns, cs, fs, r)
BY DEF Owned, Apart

\* Nothing runs any more, or the temporary list is new.
LEMMA OwnedLess ==
    ASSUME NEW cs, NEW ns, NEW ts, NEW fs, NEW r, Owned(cs, ns, ts, fs, r)
    PROVE  Owned(cs, ns, ts, fs, {}) /\ Owned(cs, ns, <<>>, fs, r)
BY EmptyRange DEF Owned, Apart

\* The head of a list is freed, or runs.
LEMMA OwnedPop ==
    ASSUME NEW S, NEW cs \in Seq(S), NEW ns, NEW ts, NEW fs \in Seq(S), NEW r,
           Owned(cs, ns, ts, fs, r), cs # <<>>
    PROVE  /\ Owned(Tail(cs), ns, ts, <<Head(cs)>> \o fs, r)
           /\ Owned(Tail(cs), ns, ts, fs, {Head(cs)})
<1> DEFINE x == Head(cs)
           up == <<x>> \o fs
           rest == Tail(cs)
<1>1. /\ IsInjective(cs) /\ IsInjective(ns) /\ IsInjective(ts) /\ IsInjective(fs)
      /\ Apart(Range(cs), Range(ns), Range(ts), Range(fs), r)
  BY DEF Owned
<1>2. /\ IsInjective(rest) /\ x \in Range(cs) /\ Range(rest) = Range(cs) \ {x}
      /\ x \in S
  BY <1>1, PopRange, HeadTailProperties
<1> HIDE DEF x
<1>3. x \notin Range(fs)
  BY <1>1, <1>2 DEF Apart
<1>4. Range(up) = Range(fs) \cup {x} /\ IsInjective(up)
  BY <1>1, <1>2, <1>3, PushRange
<1> HIDE DEF up, rest
<1>5. Owned(rest, ns, ts, up, r)
  BY <1>1, <1>2, <1>4 DEF Owned, Apart
<1>6. Owned(rest, ns, ts, fs, {x})
  BY <1>1, <1>2 DEF Owned, Apart
<1> QED BY <1>5, <1>6 DEF up, rest, x

\* The running thread is freed.
LEMMA OwnedStop ==
    ASSUME NEW S, NEW cs, NEW ns, NEW ts, NEW fs \in Seq(S), NEW x \in S,
           Owned(cs, ns, ts, fs, {x})
    PROVE  Owned(cs, ns, ts, <<x>> \o fs, {})
<1> DEFINE up == <<x>> \o fs
<1>1. Range(up) = Range(fs) \cup {x} /\ IsInjective(up)
  BY PushRange DEF Owned, Apart
<1> HIDE DEF up
<1>2. Owned(cs, ns, ts, up, {})
  BY <1>1 DEF Owned, Apart
<1> QED BY <1>2 DEF up

\* A list is put in front of another.
LEMMA OwnedSplice ==
    ASSUME NEW S, NEW cs \in Seq(S), NEW ns, NEW ts \in Seq(S), NEW fs, NEW r,
           Owned(cs, ns, ts, fs, r)
    PROVE  Owned(ts \o cs, ns, <<>>, fs, r)
<1> DEFINE j == ts \o cs
<1>1. Range(ts) \cap Range(cs) = {}
  BY DEF Owned, Apart
<1>2. Range(j) = Range(ts) \cup Range(cs) /\ IsInjective(j)
  BY <1>1, JoinRange DEF Owned
<1> HIDE DEF j
<1>3. Owned(j, ns, <<>>, fs, r)
  BY <1>2, EmptyRange DEF Owned, Apart
<1> QED BY <1>3 DEF j

\* A whole list is freed.
LEMMA OwnedEmptied ==
    ASSUME NEW S, NEW cs \in Seq(S), NEW ns, NEW ts, NEW fs \in Seq(S), NEW r,
           Owned(cs, ns, ts, fs, r)
    PROVE  Owned(<<>>, ns, ts, cs \o fs, r)
<1> DEFINE j == cs \o fs
<1>1. Range(cs) \cap Range(fs) = {}
  BY DEF Owned, Apart
<1>2. Range(j) = Range(cs) \cup Range(fs) /\ IsInjective(j)
  BY <1>1, JoinRange DEF Owned
<1> HIDE DEF j
<1>3. Owned(<<>>, ns, ts, j, r)
  BY <1>2, EmptyRange DEF Owned, Apart
<1> QED BY <1>3 DEF j

\* A thread that is in none of the places is appended to a list.
LEMMA OwnedAppend ==
    ASSUME NEW S, NEW cs \in Seq(S), NEW ns, NEW ts, NEW fs, NEW r, NEW x \in S,
           Owned(cs, ns, ts, fs, r),
           x \notin Range(cs), x \notin Range(ns), x \notin Range(ts),
           x \notin Range(fs), x \notin r
    PROVE  Owned(Append(cs, x), ns, ts, fs, r)
<1> DEFINE j == Append(cs, x)
<1>1. Range(j) = Range(cs) \cup {x} /\ IsInjective(j)
  BY AppendRange DEF Owned
<1> HIDE DEF j
<1>2. Owned(j, ns, ts, fs, r)
  BY <1>1 DEF Owned, Apart
<1> QED BY <1>2 DEF j

(***************************************************************************)
(* The thread add_thread takes is in none of the lists: it is the first    *)
(* free one, or new.                                                       *)
(***************************************************************************)
LEMMA FreshThread ==
    ASSUME TypeOK, ThreadsOwnedOnce
    PROVE  /\ Fresh(pool) \in 1 .. Len(pool.cell) + 1
           /\ Fresh(pool) \notin Range(clist.ids) /\ Fresh(pool) \notin Range(nlist.ids)
           /\ Fresh(pool) \notin Range(temp.ids) /\ Fresh(pool) \notin Running
           /\ \A thread : /\ Fresh(pool) \notin Range(TakeThread(thread).free)
                          /\ Range(TakeThread(thread).free) \subseteq Range(pool.free)
                          /\ IsInjective(TakeThread(thread).free)
<1> DEFINE S == 1 .. Len(pool.cell)
           x == Fresh(pool)
<1>1. /\ clist.ids \in Seq(S) /\ nlist.ids \in Seq(S) /\ temp.ids \in Seq(S)
      /\ pool.free \in Seq(S) /\ Len(pool.cell) \in Nat /\ t \in 0 .. Len(pool.cell)
  BY ThreadSeqs
<1>2. /\ IsInjective(pool.free)
      /\ Apart(Range(clist.ids), Range(nlist.ids), Range(temp.ids), Range(pool.free), Running)
  BY OwnedForm DEF Owned
<1>3. ASSUME NEW thread
      PROVE  TakeThread(thread).free = IF FromPool(pool) THEN <<>> ELSE Tail(pool.free)
  BY DEF TakeThread, Allocate
<1>4. CASE FromPool(pool)
  <2>1. x = Len(pool.cell) + 1
    BY <1>4 DEF Fresh, FromPool
  <2>2. x \notin S /\ x \in 1 .. Len(pool.cell) + 1
    BY <1>1, <2>1
  <2>3. Range(clist.ids) \subseteq S /\ Range(nlist.ids) \subseteq S /\ Range(temp.ids) \subseteq S
    BY <1>1, RangeOfSeq
  <2>4. x \notin Running
    BY <1>1, <2>1 DEF Running
  <2> QED BY <1>3, <1>4, <2>2, <2>3, <2>4, EmptyRange
<1>5. CASE ~FromPool(pool)
  <2>1. x = Head(pool.free) /\ pool.free # <<>>
    BY <1>5 DEF Fresh, FromPool
  <2>2. /\ IsInjective(Tail(pool.free)) /\ x \in Range(pool.free)
        /\ Range(Tail(pool.free)) = Range(pool.free) \ {x}
    BY <1>1, <1>2, <2>1, PopRange
  <2>3. x \in S
    BY <1>1, <2>1, HeadTailProperties
  <2>4. x \in 1 .. Len(pool.cell) + 1
    BY <1>1, <2>3
  <2>5. /\ x \notin Range(clist.ids) /\ x \notin Range(nlist.ids)
        /\ x \notin Range(temp.ids) /\ x \notin Running
    BY <1>2, <2>2 DEF Apart
  <2> QED BY <1>3, <1>5, <2>2, <2>4, <2>5
<1> QED BY <1>4, <1>5

(***************************************************************************)
(* Each cell stays in one place, step by step.                             *)
(***************************************************************************)

\* Steps that move no thread, and returns that forget the running one.
LEMMA StillOwned ==
    ASSUME ThreadsOwnedOnce, pool' = pool, UNCHANGED lists, t' \in {t, NoThread}
    PROVE  ThreadsOwnedOnce'
<1>1. Running' \in {Running, {}}
  BY DEF Running
<1>2. Owned(clist.ids, nlist.ids, temp.ids, pool.free, Running')
  BY <1>1, OwnedForm, OwnedLess
<1> QED BY <1>2, OwnedFormNext DEF lists

\* Clearing a list, thread by thread.
LEMMA ClearThreadOwned ==
    ASSUME TypeOK, ThreadsOwnedOnce, ClearThread
    PROVE  ThreadsOwnedOnce'
<1> DEFINE S == 1 .. Len(pool.cell)
<1>1. /\ clist.ids \in Seq(S) /\ nlist.ids \in Seq(S) /\ pool.free \in Seq(S)
  BY ThreadSeqs
<1> HIDE DEF S
<1>2. Owned(clist.ids, nlist.ids, temp.ids, pool.free, Running)
  BY OwnedForm
<1>3. Running' = Running /\ temp' = temp
  BY DEF ClearThread, exec, Running
<1>4. CASE at = "clear-leftover"
  <2>1. /\ nlist.ids # <<>> /\ nlist'.ids = Tail(nlist.ids) /\ clist' = clist
        /\ pool'.free = <<Head(nlist.ids)>> \o pool.free
    BY <1>4 DEF ClearThread, FreeThread, PopHead, TypeOK, TypeOfMemory, Pools
  <2>2. Owned(nlist.ids, clist.ids, temp.ids, pool.free, Running)
    BY <1>2, OwnedSwap
  <2>3. Owned(Tail(nlist.ids), clist.ids, temp.ids, <<Head(nlist.ids)>> \o pool.free, Running)
    BY <1>1, <2>1, <2>2, OwnedPop
  <2>4. Owned(clist.ids, Tail(nlist.ids), temp.ids, <<Head(nlist.ids)>> \o pool.free, Running)
    BY <2>3, OwnedSwap
  <2> QED BY <1>3, <2>1, <2>4, OwnedFormNext
<1>5. CASE at # "clear-leftover"
  <2>1. /\ clist.ids # <<>> /\ clist'.ids = Tail(clist.ids) /\ nlist' = nlist
        /\ pool'.free = <<Head(clist.ids)>> \o pool.free
    BY <1>5 DEF ClearThread, FreeThread, PopHead, TypeOK, TypeOfMemory, Pools
  <2>2. Owned(Tail(clist.ids), nlist.ids, temp.ids, <<Head(clist.ids)>> \o pool.free, Running)
    BY <1>1, <1>2, <2>1, OwnedPop
  <2> QED BY <1>3, <2>1, <2>2, OwnedFormNext
<1> QED BY <1>4, <1>5

\* Running the head of clist: it is freed, or it is the running thread.
LEMMA RunOwned ==
    ASSUME TypeOK, ThreadsOwnedOnce, Run
    PROVE  ThreadsOwnedOnce'
<1> DEFINE S == 1 .. Len(pool.cell)
           rest == Tail(clist.ids)
           up == <<Current>> \o pool.free
<1>1. clist.ids \in Seq(S) /\ pool.free \in Seq(S)
  BY ThreadSeqs
<1> HIDE DEF S
<1>2. Owned(clist.ids, nlist.ids, temp.ids, pool.free, Running)
  BY OwnedForm
<1>3. Dispatch /\ clist' = PopHead(clist) /\ nlist' = nlist
  BY DEF Run, ThreadDies, ThreadConsumes, AssertionFails, AssertionHold, ThreadMatches
<1>4. clist.ids # <<>> /\ clist'.ids = rest
  BY <1>3 DEF Dispatch, PopHead
<1>5. /\ Owned(rest, nlist.ids, temp.ids, up, Running)
      /\ Owned(rest, nlist.ids, temp.ids, pool.free, {Current})
  BY <1>1, <1>2, <1>4, OwnedPop DEF Current
<1> HIDE DEF rest, up
<1>6. FreeThread(pool, Current).free = up
  BY DEF FreeThread, up, TypeOK, TypeOfMemory, Pools
<1>7. CASE ThreadDies \/ AssertionFails
  <2>1. pool' = FreeThread(pool, Current) /\ t' = t /\ temp' = temp
    BY <1>7 DEF ThreadDies, AssertionFails, exec
  <2> QED BY <1>3, <1>4, <1>5, <1>6, <2>1, OwnedFormNext DEF Running
<1>8. CASE ThreadConsumes \/ AssertionHold
  <2>1. /\ pool' = pool /\ t' = Current /\ temp' \in {temp, EmptyList}
    BY <1>8 DEF ThreadConsumes, AssertionHold, memory
  <2>2. Running' = {Current}
    <3>1. Current # NoThread
      BY <1>3, CurrentParts
    <3> QED BY <2>1, <3>1 DEF Running
  <2>3. Owned(rest, nlist.ids, temp'.ids, pool.free, {Current})
    <3>1. temp'.ids \in {temp.ids, <<>>}
      BY <2>1 DEF EmptyList
    <3> QED BY <1>5, <3>1, OwnedLess
  <2> QED BY <1>3, <1>4, <2>1, <2>2, <2>3, OwnedFormNext
<1>9. CASE ThreadMatches
  <2>1. pool' = FreeThread(pool, Current) /\ t' = NoThread /\ temp' = temp
    BY <1>9 DEF ThreadMatches, Matched
  <2>2. Running' = {}
    BY <2>1 DEF Running
  <2>3. Owned(rest, nlist.ids, temp.ids, up, {})
    BY <1>5, OwnedLess
  <2> QED BY <1>3, <1>4, <1>6, <2>1, <2>2, <2>3, OwnedFormNext
<1> QED BY <1>7, <1>8, <1>9 DEF Run

\* add_thread puts the thread it takes into one list.
LEMMA AddWaitingOwned ==
    ASSUME TypeOK, ThreadsOwnedOnce, AddWaiting
    PROVE  ThreadsOwnedOnce'
<1>1. t' = t
  BY DEF AddWaiting
<1>2. CASE UNCHANGED <<pool, lists>>
  BY <1>1, <1>2, StillOwned
<1>3. CASE /\ pool' = TakeThread(ThreadOf(call))
           /\ SetTarget(Enlist(Target, Fresh(pool)))
  <2> DEFINE x == Fresh(pool)
             free == pool'.free
             S == 1 .. Len(pool.cell) + 1
  <2>1. /\ x \in S
        /\ x \notin Range(clist.ids) /\ x \notin Range(nlist.ids)
        /\ x \notin Range(temp.ids) /\ x \notin Running
        /\ x \notin Range(free) /\ Range(free) \subseteq Range(pool.free)
        /\ IsInjective(free)
    BY <1>3, FreshThread
  <2>2. clist.ids \in Seq(S) /\ nlist.ids \in Seq(S) /\ temp.ids \in Seq(S)
    <3>1. Len(pool.cell) \in Nat /\ Len(pool.cell) + 1 \in Nat
      BY ThreadSeqs
    <3> QED BY <3>1, ThreadSeqs, SeqWiden
  <2> HIDE DEF x, S
  <2>3. Owned(clist.ids, nlist.ids, temp.ids, free, Running)
    BY <2>1, OwnedForm DEF Owned, Apart
  <2>4. Running' = Running
    BY <1>1 DEF Running
  <2>5. Enlist(Target, x).ids = Append(Target.ids, x)
    BY DEF Enlist
  <2>6. CASE site = "byte"
    <3>1. nlist'.ids = Append(nlist.ids, x) /\ temp' = temp /\ clist' = clist
      BY <1>3, <2>5, <2>6 DEF SetTarget, Target, x
    <3>2. Owned(nlist.ids, clist.ids, temp.ids, free, Running)
      BY <2>3, OwnedSwap
    <3>3. Owned(Append(nlist.ids, x), clist.ids, temp.ids, free, Running)
      BY <2>1, <2>2, <3>2, OwnedAppend
    <3>4. Owned(clist.ids, Append(nlist.ids, x), temp.ids, free, Running)
      BY <3>3, OwnedSwap
    <3> QED BY <2>4, <3>1, <3>4, OwnedFormNext
  <2>7. CASE site = "assert"
    <3>1. temp'.ids = Append(temp.ids, x) /\ nlist' = nlist /\ clist' = clist
      BY <1>3, <2>5, <2>7 DEF SetTarget, Target, x
    <3>2. Owned(temp.ids, nlist.ids, clist.ids, free, Running)
      BY <2>3, OwnedSwap
    <3>3. Owned(Append(temp.ids, x), nlist.ids, clist.ids, free, Running)
      BY <2>1, <2>2, <3>2, OwnedAppend
    <3>4. Owned(clist.ids, nlist.ids, Append(temp.ids, x), free, Running)
      BY <3>3, OwnedSwap
    <3> QED BY <2>4, <3>1, <3>4, OwnedFormNext
  <2>8. CASE site \in {"first", "skip"}
    <3>1. clist'.ids = Append(clist.ids, x) /\ nlist' = nlist /\ temp' = temp
      BY <1>3, <2>5, <2>8 DEF SetTarget, Target, x
    <3>2. Owned(Append(clist.ids, x), nlist.ids, temp.ids, free, Running)
      BY <2>1, <2>2, <2>3, OwnedAppend
    <3> QED BY <2>4, <3>1, <3>2, OwnedFormNext
  <2>9. site \in {"byte", "assert", "first", "skip"}
    <3>1. Calling
      BY DEF AddWaiting, NewPc
    <3> QED BY <3>1, CalleeParts DEF TypeOK, TypeOfCalls
  <2> QED BY <2>6, <2>7, <2>8, <2>9
<1> QED BY <1>2, <1>3 DEF AddWaiting

\* The call sites free the thread that ran, and splice what an assertion let through.
LEMMA AddDoneOwned ==
    ASSUME TypeOK, ThreadsOwnedOnce, Consumed \/ ConsumedToMatch \/ Asserted
    PROVE  ThreadsOwnedOnce'
<1> DEFINE S == 1 .. Len(pool.cell)
           up == <<t>> \o pool.free
<1>1. /\ clist.ids \in Seq(S) /\ temp.ids \in Seq(S) /\ pool.free \in Seq(S)
  BY ThreadSeqs
<1>2. t \in S /\ t # NoThread
  BY DEF Consumed, ConsumedToMatch, Asserted, Returned, TypeOK, TypeOfCalls, TypeOfLocals,
         NoThread
<1> HIDE DEF S
<1>3. pool' = FreeThread(pool, t) /\ t' = NoThread
  BY DEF Consumed, ConsumedToMatch, Asserted, Matched
<1>4. pool'.free = up
  BY <1>3 DEF FreeThread, TypeOK, TypeOfMemory, Pools
<1>5. Running = {t} /\ Running' = {}
  BY <1>2, <1>3 DEF Running
<1>6. Owned(clist.ids, nlist.ids, temp.ids, up, {})
  BY <1>1, <1>2, <1>5, OwnedForm, OwnedStop
<1> HIDE DEF up
<1>7. CASE Consumed \/ ConsumedToMatch
  <2>1. UNCHANGED lists
    BY <1>7 DEF Consumed, ConsumedToMatch
  <2> QED BY <1>4, <1>5, <1>6, <2>1, OwnedFormNext DEF lists
<1>8. CASE Asserted
  <2>1. clist'.ids = temp.ids \o clist.ids /\ nlist' = nlist /\ temp'.ids = <<>>
    BY <1>8 DEF Asserted, Spliced, EmptyList
  <2>2. Owned(temp.ids \o clist.ids, nlist.ids, <<>>, up, {})
    BY <1>1, <1>6, OwnedSplice
  <2> QED BY <1>4, <1>5, <2>1, <2>2, OwnedFormNext
<1> QED BY <1>7, <1>8

\* The end of the stream frees a whole list.
LEMMA FinishMatchOwned ==
    ASSUME TypeOK, ThreadsOwnedOnce, FinishMatch
    PROVE  ThreadsOwnedOnce'
<1>1. /\ clist.ids \in Seq(1 .. Len(pool.cell)) /\ pool.free \in Seq(1 .. Len(pool.cell))
  BY ThreadSeqs
<1>2. clist'.ids = <<>> /\ nlist' = nlist /\ temp' = temp /\ t' = NoThread
  BY DEF FinishMatch, Emptied, Return
<1>3. pool'.free = clist.ids \o pool.free
  BY DEF FinishMatch, TypeOK, TypeOfMemory, Pools
<1>4. Owned(clist.ids, nlist.ids, temp.ids, pool.free, {})
  BY OwnedForm, OwnedLess
<1>5. Owned(<<>>, nlist.ids, temp.ids, clist.ids \o pool.free, {})
  BY <1>1, <1>4, OwnedEmptied
<1> QED BY <1>2, <1>3, <1>5, OwnedFormNext DEF Running

\* Every step keeps each thread in one place.
LEMMA OwnedStep == TypeOK /\ ThreadsOwnedOnce /\ [Next]_vars => ThreadsOwnedOnce'
<1> SUFFICES ASSUME TypeOK, ThreadsOwnedOnce, [Next]_vars PROVE ThreadsOwnedOnce'
  OBVIOUS
<1>1. CASE Call \/ UNCHANGED vars
  <2>1. pool' = pool /\ UNCHANGED lists /\ t' = t
    BY <1>1 DEF Call, ExecAfterEof, ExecEmptyChunk, ExecFirstBuffer, ExecResume, vars,
                memory, lists, exec
  <2> QED BY <2>1, StillOwned
<1>2. CASE Loop
  <2>1. CASE ClearThread
    BY <2>1, ClearThreadOwned
  <2>2. CASE StepDone
    <3>1. clist' = nlist /\ nlist' = clist /\ temp' = temp /\ pool' = pool /\ t' = t
      BY <2>2 DEF StepDone, memory
    <3>2. Owned(nlist.ids, clist.ids, temp.ids, pool.free, Running)
      BY OwnedForm, OwnedSwap
    <3> QED BY <3>1, <3>2, OwnedFormNext DEF Running
  <2>3. CASE LoopEnd \/ LoopStep \/ LoopSkip \/ ClearedSkipped \/ StepNext \/ Skipped
    <3>1. pool' = pool /\ UNCHANGED lists /\ t' \in {t, NoThread}
      BY <2>3 DEF LoopEnd, LoopStep, LoopSkip, ClearedSkipped, StepNext, Skipped, Fail, Return,
                  memory, lists
    <3> QED BY <3>1, StillOwned
  <2> QED BY <1>2, <2>1, <2>2, <2>3 DEF Loop
<1>3. CASE Run
  BY <1>3, RunOwned
<1>4. CASE AddThread
  <2>1. CASE AddWaiting
    BY <2>1, AddWaitingOwned
  <2>2. CASE AddMarked \/ AddJmp \/ AddSplit \/ AddSave \/ AddLookBehind \/ AddMatchDone
             \/ AddReturn
    <3>1. pool' = pool /\ UNCHANGED lists /\ t' = t
      BY <2>2 DEF AddMarked, AddJmp, AddSplit, AddSave, AddLookBehind, AddMatchDone, AddReturn,
                  addFrame
    <3> QED BY <3>1, StillOwned
  <2> QED BY <1>4, <2>1, <2>2 DEF AddThread
<1>5. CASE AddDone
  <2>1. CASE Consumed \/ ConsumedToMatch \/ Asserted
    BY <2>1, AddDoneOwned
  <2>2. CASE Seeded \/ Restarted \/ AddFails
    <3>1. pool' = pool /\ UNCHANGED lists /\ t' \in {t, NoThread}
      BY <2>2 DEF Seeded, Restarted, AddFails, Fail, Return, memory
    <3> QED BY <3>1, StillOwned
  <2> QED BY <1>5, <2>1, <2>2 DEF AddDone
<1>6. CASE Finish
  <2>1. CASE FinishMatch
    BY <2>1, FinishMatchOwned
  <2>2. CASE FinishDeclined \/ FinishAgain
    <3>1. pool' = pool /\ UNCHANGED lists /\ t' = NoThread
      BY <2>2 DEF FinishDeclined, FinishAgain, Return, memory
    <3> QED BY <3>1, StillOwned
  <2> QED BY <1>6, <2>1, <2>2 DEF Finish
<1> QED BY <1>1, <1>2, <1>3, <1>4, <1>5, <1>6 DEF Next, Machine

\* No thread is anywhere at first.
LEMMA OwnedInit == Init => ThreadsOwnedOnce
<1> SUFFICES ASSUME Init PROVE ThreadsOwnedOnce
  OBVIOUS
<1>1. /\ clist.ids = <<>> /\ nlist.ids = <<>> /\ temp.ids = <<>> /\ pool.free = <<>>
      /\ Running = {}
  BY DEF Init, EmptyList, EmptyHeap, Running
<1>2. Owned(<<>>, <<>>, <<>>, <<>>, {})
  BY EmptyRange DEF Owned, Apart
<1> QED BY <1>1, <1>2, OwnedForm

\* No thread cell is ever in two lists, or in one list twice, or listed and free, or
\* freed twice: what sre_vm_pike_add_thread takes from ctx->free_threads nobody else
\* still runs, through every splice, swap, early match and failed allocation.
THEOREM ThreadsNeverShared == Spec => []ThreadsOwnedOnce
BY OwnedInit, OwnedStep, TypeInit, TypeStep, PTL DEF Spec

(***************************************************************************)
(* The tail pointers.  That of clist is stale while the threads of a step  *)
(* run: those behind an assertion may have been put in front of an empty   *)
(* list.  It is right again once the lists have been swapped, so that it   *)
(* has to be followed from there to where a search appends to clist.       *)
(***************************************************************************)
Failed == at = "idle" /\ out.rc = "ERROR"

\* Where the tail of clist is used next, or may be.
Settled ==
    site \notin {"byte", "assert"} /\ at \notin {"threads", "clear-matched"} /\ ~Failed

Counted(l) == l.count = Len(l.ids)

Tails ==
    /\ Counted(clist) /\ Counted(nlist) /\ Counted(temp)
    /\ TailIsLast(nlist)
    /\ site = "assert" => TailIsLast(temp)
    /\ Settled => TailIsLast(clist)

\* What is appended to is what the tails are right for.
LEMMA TailsSuffice == TypeOK /\ Tails => AppendsAtTail
<1> SUFFICES ASSUME TypeOK, Tails PROVE AppendsAtTail
  OBVIOUS
<1>1. ASSUME at \in {"add", "return"} PROVE TailIsLast(Target)
  <2>1. site \in {"first", "skip", "byte", "assert"}
    BY <1>1 DEF TypeOK, TypeOfCalls
  <2>2. site \in {"first", "skip"} => Settled
    BY <1>1 DEF Settled, Failed
  <2> QED BY <2>1, <2>2 DEF Tails, Target
<1>2. ASSUME at = "finish" PROVE TailIsLast(clist)
  <2>1. site = "none"
    BY <1>2 DEF TypeOK, TypeOfCalls
  <2> QED BY <1>2, <2>1 DEF Tails, Settled, Failed
<1>3. \A l \in {clist, nlist, temp} : l.count = Len(l.ids)
  BY DEF Tails, Counted
<1> QED BY <1>1, <1>2, <1>3 DEF AppendsAtTail

\* Popping the head leaves the last thread the last.
LEMMA PopTail ==
    ASSUME NEW n \in Nat, NEW l \in ThreadLists(n), l.ids # <<>>
    PROVE  /\ Counted(l) => Counted(PopHead(l))
           /\ TailIsLast(l) => TailIsLast(PopHead(l))
<1>1. l.ids \in Seq(1 .. n)
  BY ListParts
<1>2. /\ Len(l.ids) \in Nat /\ Tail(l.ids) \in Seq(1 .. n)
      /\ Len(Tail(l.ids)) = Len(l.ids) - 1
      /\ \A i \in 1 .. Len(Tail(l.ids)) : Tail(l.ids)[i] = l.ids[i + 1]
  BY <1>1, LenProperties, HeadTailProperties
<1>3. PopHead(l).ids = Tail(l.ids) /\ PopHead(l).tail = l.tail /\ PopHead(l).count = l.count - 1
  BY DEF PopHead
<1>4. Counted(l) => Counted(PopHead(l))
  BY <1>2, <1>3 DEF Counted
<1>5. ASSUME TailIsLast(l), Tail(l.ids) # <<>>
      PROVE  l.tail = Tail(l.ids)[Len(Tail(l.ids))]
  <2> DEFINE m == Len(Tail(l.ids))
             k == Len(l.ids)
  <2>1. m \in Nat \ {0}
    BY <1>2, <1>5, EmptySeq
  <2>2. k \in Nat /\ m = k - 1
    BY <1>2
  <2> HIDE DEF m, k
  <2>3. m \in 1 .. m /\ m + 1 = k
    BY <2>1, <2>2
  <2>4. Tail(l.ids)[m] = l.ids[Len(l.ids)]
    BY <1>2, <2>3 DEF m, k
  <2> QED BY <1>5, <2>4 DEF TailIsLast, m
<1> QED BY <1>3, <1>4, <1>5 DEF TailIsLast

\* An appended thread is the last.
LEMMA EnlistTail ==
    ASSUME NEW n \in Nat, NEW l \in ThreadLists(n), NEW i \in 1 .. n
    PROVE  (Counted(l) => Counted(Enlist(l, i))) /\ TailIsLast(Enlist(l, i))
<1>1. l.ids \in Seq(1 .. n)
  BY ListParts
<1>2. Len(Append(l.ids, i)) = Len(l.ids) + 1 /\ Append(l.ids, i)[Len(l.ids) + 1] = i
  BY <1>1, AppendProperties
<1>3. /\ Enlist(l, i).ids = Append(l.ids, i) /\ Enlist(l, i).tail = i
      /\ Enlist(l, i).count = l.count + 1
  BY DEF Enlist
<1> QED BY <1>2, <1>3 DEF Counted, TailIsLast

\* A list without threads has any tail.
LEMMA EmptyTail ==
    /\ Counted(EmptyList) /\ TailIsLast(EmptyList)
    /\ \A l : Counted(l) => Counted(Emptied(l)) /\ TailIsLast(Emptied(l))
<1>1. Len(<<>>) = 0
  OBVIOUS
<1>2. Counted(EmptyList) /\ TailIsLast(EmptyList)
  BY <1>1 DEF Counted, TailIsLast, EmptyList
<1>3. ASSUME NEW l, Counted(l) PROVE Counted(Emptied(l)) /\ TailIsLast(Emptied(l))
  BY <1>1, <1>3 DEF Counted, TailIsLast, Emptied
<1> QED BY <1>2, <1>3

\* What the parts of Tails come to for the lists after a step.
LEMMA TailsNext ==
    ASSUME Counted(clist'), Counted(nlist'), Counted(temp'), TailIsLast(nlist'),
           site' = "assert" => TailIsLast(temp'),
           Settled' => TailIsLast(clist')
    PROVE  Tails'
BY DEF Tails, Counted, TailIsLast

\* Steps that leave the lists as they are, and settle nothing.
LEMMA StillTails ==
    ASSUME Tails, UNCHANGED lists, site' = "assert" => site = "assert", Settled' => Settled
    PROVE  Tails'
BY DEF Tails, Counted, TailIsLast, lists

\* Clearing a list keeps the counts and leaves a right tail right.
LEMMA ClearThreadTails ==
    ASSUME TypeOK, Tails, ClearThread
    PROVE  Tails'
<1>1. /\ Len(pool.cell) \in Nat /\ clist \in ThreadLists(Len(pool.cell))
      /\ nlist \in ThreadLists(Len(pool.cell))
  BY Lengths DEF TypeOK, TypeOfContext
<1>2. /\ Counted(clist) /\ Counted(nlist) /\ Counted(temp) /\ TailIsLast(nlist)
      /\ site = "assert" => TailIsLast(temp)
      /\ Settled => TailIsLast(clist)
  BY DEF Tails
<1>3. temp' = temp /\ site' = site /\ Settled' = Settled
  BY DEF ClearThread, adding, exec, caller, Settled, Failed
<1>4. CASE at = "clear-leftover"
  <2>1. nlist.ids # <<>> /\ nlist' = PopHead(nlist) /\ clist' = clist
    BY <1>4 DEF ClearThread
  <2>2. Counted(nlist') /\ TailIsLast(nlist')
    BY <1>1, <1>2, <2>1, PopTail
  <2> QED BY <1>2, <1>3, <2>1, <2>2, TailsNext
<1>5. CASE at # "clear-leftover"
  <2>1. clist.ids # <<>> /\ clist' = PopHead(clist) /\ nlist' = nlist
    BY <1>5 DEF ClearThread
  <2>2. Counted(clist') /\ (TailIsLast(clist) => TailIsLast(clist'))
    BY <1>1, <1>2, <2>1, PopTail
  <2> QED BY <1>2, <1>3, <2>1, <2>2, TailsNext
<1> QED BY <1>4, <1>5

\* Running the head of clist: the tail of clist is not used before the lists are swapped.
LEMMA RunTails ==
    ASSUME TypeOK, Tails, Run
    PROVE  Tails'
<1>1. /\ Len(pool.cell) \in Nat /\ clist \in ThreadLists(Len(pool.cell))
  BY Lengths DEF TypeOK, TypeOfContext
<1>2. Dispatch /\ clist' = PopHead(clist) /\ nlist' = nlist
  BY DEF Run, ThreadDies, ThreadConsumes, AssertionFails, AssertionHold, ThreadMatches
<1>3. /\ Counted(clist) /\ Counted(nlist) /\ Counted(temp) /\ TailIsLast(nlist)
      /\ site = "assert" => TailIsLast(temp)
  BY DEF Tails
<1>4. Counted(clist')
  BY <1>1, <1>2, <1>3, PopTail DEF Dispatch
<1>5. at = "threads" /\ site = "none"
  BY <1>2 DEF Dispatch, TypeOK, TypeOfCalls
<1>6. /\ ~Settled' /\ temp' \in {temp, EmptyList}
      /\ site' = "assert" => temp' = EmptyList
  BY <1>5 DEF Run, ThreadDies, ThreadConsumes, AssertionFails, AssertionHold, ThreadMatches,
              Matched, AddFrom, Settled, exec, adding
<1> QED BY <1>2, <1>3, <1>4, <1>6, EmptyTail, TailsNext

\* add_thread appends where the tail is right, and leaves it right.
LEMMA AddWaitingTails ==
    ASSUME TypeOK, Tails, AddWaiting
    PROVE  Tails'
<1>1. site' = site /\ at = "add" /\ at' = "return"
  BY DEF AddWaiting, NewPc, Calling, Result
<1>2. Settled' = Settled
  BY <1>1 DEF Settled, Failed
<1>3. CASE UNCHANGED <<pool, lists>>
  BY <1>1, <1>2, <1>3, StillTails
<1>4. CASE SetTarget(Enlist(Target, Fresh(pool)))
  <2> DEFINE n == Len(pool.cell) + 1
             x == Fresh(pool)
  <2>1. n \in Nat /\ x \in 1 .. n
    <3>1. pool \in Pools(Threads(prog, Len(heap.cell)))
      BY DEF TypeOK, TypeOfMemory
    <3>2. pool.free # <<>> => Head(pool.free) \in 1 .. Len(pool.cell)
      BY <3>1, PoolParts, HeadTailProperties
    <3> QED BY <3>2, Lengths DEF Fresh
  <2>2. clist \in ThreadLists(n) /\ nlist \in ThreadLists(n) /\ temp \in ThreadLists(n)
    BY <2>1, PoolGrows, Lengths
  <2>3. Target \in {clist, nlist, temp}
    BY DEF Target
  <2>4. /\ Counted(clist) /\ Counted(nlist) /\ Counted(temp) /\ TailIsLast(nlist)
        /\ site = "assert" => TailIsLast(temp)
        /\ Settled => TailIsLast(clist)
    BY DEF Tails
  <2> HIDE DEF x, n
  <2>5. Counted(Enlist(Target, x)) /\ TailIsLast(Enlist(Target, x))
    BY <2>1, <2>2, <2>3, <2>4, EnlistTail
  <2>6. /\ nlist' = IF site = "byte" THEN Enlist(Target, x) ELSE nlist
        /\ temp' = IF site = "assert" THEN Enlist(Target, x) ELSE temp
        /\ clist' = IF site \in {"first", "skip"} THEN Enlist(Target, x) ELSE clist
    BY <1>4 DEF SetTarget, x
  <2> QED BY <1>1, <1>2, <2>4, <2>5, <2>6, TailsNext
<1> QED BY <1>3, <1>4 DEF AddWaiting

\* Every step keeps the counts, and the tails where they are used.
LEMMA TailsStep == TypeOK /\ Tails /\ [Next]_vars => Tails'
<1> SUFFICES ASSUME TypeOK, Tails, [Next]_vars PROVE Tails'
  OBVIOUS
<1> USE DEF Settled, Failed
<1>1. CASE Call
  <2>1. UNCHANGED lists /\ site' # "assert" /\ at = "idle" /\ out.rc # "ERROR" /\ site = "none"
    BY <1>1 DEF Call, ExecAfterEof, ExecEmptyChunk, ExecFirstBuffer, ExecResume, CallerReady,
                TypeOK, TypeOfCalls, adding, AddFrom
  <2> QED BY <2>1, StillTails
<1>2. CASE UNCHANGED vars
  <2>1. UNCHANGED <<lists, site, at, out>>
    BY <1>2 DEF vars, adding, exec, caller
  <2> QED BY <2>1, StillTails
<1>3. CASE Loop
  <2>1. CASE ClearThread
    BY <2>1, ClearThreadTails
  <2>2. CASE StepDone
    <3>1. /\ clist.ids = <<>> /\ clist' = nlist /\ nlist' = clist /\ temp' = temp /\ site' = site
      BY <2>2 DEF StepDone, adding
    <3>2. /\ Counted(clist) /\ Counted(nlist) /\ Counted(temp) /\ TailIsLast(nlist)
          /\ site = "assert" => TailIsLast(temp)
      BY DEF Tails
    <3>3. TailIsLast(nlist')
      BY <3>1 DEF TailIsLast
    <3> QED BY <3>1, <3>2, <3>3, TailsNext
  <2>3. CASE LoopEnd \/ LoopStep \/ LoopSkip \/ ClearedSkipped \/ StepNext \/ Skipped
    <3>1. UNCHANGED lists /\ site' # "assert"
      BY <2>3 DEF LoopEnd, LoopStep, LoopSkip, ClearedSkipped, StepNext, Skipped, Fail, AddFrom,
                  lists, adding, TypeOK, TypeOfCalls
    <3>2. Settled' => Settled
      BY <2>3 DEF LoopEnd, LoopStep, LoopSkip, ClearedSkipped, StepNext, Skipped, Fail, Return,
                  NoRc, AddFrom, RunThreads, TypeOK, TypeOfCalls
    <3> QED BY <3>1, <3>2, StillTails
  <2> QED BY <1>3, <2>1, <2>2, <2>3 DEF Loop
<1>4. CASE Run
  BY <1>4, RunTails
<1>5. CASE AddThread
  <2>1. CASE AddWaiting
    BY <2>1, AddWaitingTails
  <2>2. CASE AddMarked \/ AddJmp \/ AddSplit \/ AddSave \/ AddLookBehind \/ AddMatchDone
             \/ AddReturn
    <3>1. UNCHANGED lists /\ site' = site
      BY <2>2 DEF AddMarked, AddJmp, AddSplit, AddSave, AddLookBehind, AddMatchDone, AddReturn,
                  addFrame
    <3>2. at \in {"add", "return"}
      BY <2>2 DEF AddMarked, AddJmp, AddSplit, AddSave, AddLookBehind, AddMatchDone, AddReturn,
                  NewPc, Calling
    <3> QED BY <3>1, <3>2, StillTails
  <2> QED BY <1>5, <2>1, <2>2 DEF AddThread
<1>6. CASE AddDone
  <2>1. CASE Seeded \/ Restarted
    <3>1. UNCHANGED lists /\ site' = "none" /\ site \in {"first", "skip"} /\ at = "return"
      BY <2>1 DEF Seeded, Restarted, Called, Fail, Returned
    <3> QED BY <3>1, StillTails
  <2>2. CASE AddFails
    <3>1. UNCHANGED lists /\ site' = "none" /\ at' = "idle" /\ out'.rc = "ERROR"
      BY <2>2 DEF AddFails, Fail, Return, NoRc
    <3> QED BY <3>1, StillTails
  <2>3. CASE Consumed \/ ConsumedToMatch
    <3>1. UNCHANGED lists /\ site' = "none" /\ at' \in {"threads", "clear-matched"}
      BY <2>3 DEF Consumed, ConsumedToMatch, Matched, Called
    <3> QED BY <3>1, StillTails
  <2>4. CASE Asserted
    <3>1. /\ clist' = Spliced(temp, clist) /\ nlist' = nlist /\ temp' = EmptyList
          /\ site' = "none" /\ at' = "threads"
      BY <2>4 DEF Asserted, Called
    <3>2. Counted(clist) /\ Counted(nlist) /\ Counted(temp) /\ TailIsLast(nlist)
      BY DEF Tails
    <3>3. Counted(Spliced(temp, clist))
      <4>1. Len(temp.ids \o clist.ids) = Len(temp.ids) + Len(clist.ids)
        BY ThreadSeqs, ConcatProperties
      <4> QED BY <3>2, <4>1 DEF Counted, Spliced
    <3> QED BY <3>1, <3>2, <3>3, EmptyTail, TailsNext
  <2> QED BY <1>6, <2>1, <2>2, <2>3, <2>4 DEF AddDone
<1>7. CASE Finish
  <2>1. site' = site /\ at = "finish" /\ site = "none"
    BY <1>7 DEF Finish, FinishMatch, FinishDeclined, FinishAgain, Finished, adding,
                TypeOK, TypeOfCalls
  <2>2. CASE FinishMatch
    <3>1. clist' = Emptied(clist) /\ nlist' = nlist /\ temp' = temp
      BY <2>2 DEF FinishMatch
    <3>2. Counted(clist) /\ Counted(nlist) /\ Counted(temp) /\ TailIsLast(nlist)
      BY DEF Tails
    <3> QED BY <2>1, <3>1, <3>2, EmptyTail, TailsNext
  <2>3. CASE FinishDeclined \/ FinishAgain
    <3>1. UNCHANGED lists
      BY <2>3 DEF FinishDeclined, FinishAgain
    <3> QED BY <2>1, <3>1, StillTails
  <2> QED BY <1>7, <2>2, <2>3 DEF Finish
<1> QED BY <1>1, <1>2, <1>3, <1>4, <1>5, <1>6, <1>7 DEF Next, Machine

\* The lists are empty at first.
LEMMA TailsInit == Init => Tails
BY EmptyTail DEF Init, Tails

\* A thread is appended, the threads of an assertion are spliced and what an eof
\* leaves is freed through a tail pointer that is the last thread's, and the count
\* that decides on skipping is the number of threads.
THEOREM TailsAreRight == Spec => []AppendsAtTail
BY TailsInit, TailsStep, TailsSuffice, TypeInit, TypeStep, PTL DEF Spec

(***************************************************************************)
(* The tags.  No instruction carries a later tag than the last round gave, *)
(* as long as the tags do not wrap; while the threads behind an assertion  *)
(* are added, in the round before, that is the tag after the current one.  *)
(***************************************************************************)
TagsDoNotWrap == tag + 1 < TagModulus /\ progTag + 1 < TagModulus

LastTag == IF at = "idle" THEN progTag ELSE IF site = "assert" THEN tag + 1 ELSE tag

FreshTags ==
    /\ ~Failed => \A i \in Pcs(prog) : marks[i] <= LastTag
    /\ at = "threads" \/ site = "byte" => tag >= 1

\* Without a wrap the tags count up, and down.
LEMMA TagSteps ==
    ASSUME NEW n \in Nat, n + 1 < TagModulus
    PROVE  NextTag(n) = n + 1 /\ (n >= 1 => PrevTag(n) = n - 1)
<1>1. TagModulus \in Nat
  BY ConstantsAssumption
<1>2. (n + 1) % TagModulus = n + 1
  BY <1>1
<1>3. n >= 1 => (n - 1) % TagModulus = n - 1
  BY <1>1
<1> QED BY <1>2, <1>3 DEF NextTag, PrevTag

\* The tags after a step that marks nothing.
LEMMA TagsNext ==
    ASSUME TypeOK, FreshTags, ~Failed \/ Failed', UNCHANGED <<prog, marks>>,
           Failed' \/ (LastTag' \in Nat /\ LastTag' >= LastTag),
           at' = "threads" \/ site' = "byte" => tag' >= 1
    PROVE  FreshTags'
<1>1. ASSUME ~Failed' PROVE \A i \in Pcs(prog) : marks[i] <= LastTag'
  <2>1. \A i \in Pcs(prog) : marks[i] \in Nat /\ marks[i] <= LastTag
    BY <1>1 DEF FreshTags, TypeOK, TypeOfProgram
  <2>2. LastTag \in Nat
    BY DEF LastTag, TypeOK, TypeOfProgram
  <2> QED BY <1>1, <2>1, <2>2
<1> QED BY <1>1 DEF FreshTags, Failed

\* A visit leaves the tag of its round.
LEMMA TagsMarked ==
    ASSUME TypeOK, FreshTags, Calling, at' \in {"add", "return"}, UNCHANGED <<prog, tag, site>>,
           marks' = marks \/ Mark
    PROVE  FreshTags'
<1>1. /\ tag \in Nat /\ marks \in [Pcs(prog) -> Nat] /\ at = "add" /\ at # "idle"
      /\ site # "none"
  BY CalleeParts DEF TypeOK, TypeOfProgram, Calling
<1>2. LastTag' = LastTag /\ LastTag \in Nat /\ tag <= LastTag
  BY <1>1 DEF LastTag
<1>3. ASSUME NEW i \in Pcs(prog) PROVE marks'[i] <= LastTag
  <2>1. marks[i] <= LastTag
    BY <1>1 DEF FreshTags, Failed
  <2>2. marks'[i] \in {marks[i], tag}
    BY <1>1 DEF Mark
  <2> QED BY <1>2, <2>1, <2>2
<1> QED BY <1>1, <1>2, <1>3 DEF FreshTags, Failed

\* The arithmetic of the steps: a tag that stays or is the next is no earlier.
LEMMA LaterTag ==
    ASSUME NEW a \in Nat, NEW b, b = a \/ b = a + 1
    PROVE  b \in Nat /\ b >= a /\ (b = a + 1 => b >= 1) /\ (b = a /\ a >= 1 => b >= 1)
OBVIOUS

\* Every step keeps the tags in the order of the rounds, unless one wraps.
LEMMA TagsStep ==
    TypeOK /\ FreshTags /\ TagsDoNotWrap /\ [Next]_vars => FreshTags'
<1> SUFFICES ASSUME TypeOK, FreshTags, TagsDoNotWrap, [Next]_vars PROVE FreshTags'
  OBVIOUS
<1>1. /\ tag \in Nat /\ progTag \in Nat
      /\ site = "none" <=> at \notin {"add", "return"}
      /\ NextTag(tag) = tag + 1 /\ NextTag(progTag) = progTag + 1
      /\ tag >= 1 => PrevTag(tag) = tag - 1
      /\ at = "threads" \/ site = "byte" => tag >= 1
  BY TagSteps DEF TypeOK, TypeOfProgram, TypeOfCalls, TagsDoNotWrap, FreshTags
<1>9. tag \in Nat /\ progTag \in Nat
  BY DEF TypeOK, TypeOfProgram
<1>2. CASE Call
  <2>1. /\ at = "idle" /\ out.rc # "ERROR" /\ UNCHANGED <<prog, marks, progTag>>
    BY <1>2 DEF Call, ExecAfterEof, ExecEmptyChunk, ExecFirstBuffer, ExecResume, CallerReady,
                program, tags
  <2>2. \/ at' = "idle" /\ UNCHANGED adding
        \/ at' = "add" /\ site' = "first" /\ tag' = progTag + 1
        \/ at' = "loop" /\ tag' = progTag /\ UNCHANGED adding
    BY <1>1, <1>2 DEF Call, ExecAfterEof, ExecEmptyChunk, ExecFirstBuffer, ExecResume,
                      AddFrom, exec, CallerReady
  <2>3. LastTag = progTag /\ ~Failed /\ site = "none"
    BY <1>1, <2>1 DEF LastTag, Failed
  <2>4. /\ LastTag' = progTag \/ LastTag' = progTag + 1
        /\ ~(at' = "threads" \/ site' = "byte")
    BY <2>1, <2>2, <2>3 DEF LastTag, adding
  <2>5. LastTag' \in Nat /\ LastTag' >= LastTag
    <3>1. LastTag' = progTag \/ LastTag' = progTag + 1
      BY <2>4
    <3>2. LastTag' \in Nat /\ LastTag' >= progTag
      BY ONLY <1>9, <3>1, LaterTag
    <3> QED BY <2>3, <3>2
  <2> QED BY <2>1, <2>3, <2>4, <2>5, TagsNext
<1>3. CASE UNCHANGED vars
  BY <1>3 DEF vars, program, tags, exec, adding, caller, FreshTags, LastTag, Failed
<1>4. CASE Loop
  <2>1. /\ at # "idle" /\ site = "none" /\ UNCHANGED <<prog, marks>>
    BY <1>1, <1>4 DEF Loop, LoopEnd, LoopStep, LoopSkip, Skipped, ClearThread, ClearedSkipped,
                      StepDone, StepNext, program, tags, Fail
  <2>2. \/ at' = "idle" /\ out'.rc = "ERROR" /\ site' = "none"
        \/ at' \notin {"idle", "threads"} /\ tag' = tag /\ site' = "none"
        \/ at = "threads" /\ at' = "threads" /\ tag' = tag /\ site' = "none"
        \/ at' \in {"threads", "add"} /\ tag' = tag + 1 /\ site' \in {"none", "skip"}
    <3>1. CASE LoopEnd \/ LoopSkip \/ ClearThread \/ ClearedSkipped \/ StepDone \/ StepNext
      BY <2>1, <3>1 DEF LoopEnd, LoopSkip, ClearThread, ClearedSkipped, StepDone, StepNext,
                        tags, adding, exec
    <3>2. CASE LoopStep
      BY <1>1, <2>1, <3>2 DEF LoopStep, RunThreads, adding
    <3>3. CASE Skipped
      BY <1>1, <2>1, <3>3 DEF Skipped, Fail, Return, NoRc, AddFrom
    <3> QED BY <1>4, <3>1, <3>2, <3>3 DEF Loop
  <2>3. LastTag = tag /\ ~Failed
    BY <2>1 DEF LastTag, Failed
  <2>4. Failed' \/ LastTag' = tag'
    BY <2>2 DEF LastTag, Failed
  <2>5. Failed' \/ tag' = tag \/ tag' = tag + 1
    BY <2>2 DEF Failed
  <2>6. Failed' \/ (LastTag' \in Nat /\ LastTag' >= LastTag)
    <3>1. CASE Failed'
      BY <3>1
    <3>2. CASE ~Failed'
      <4>1. tag' = tag \/ tag' = tag + 1
        BY <2>5, <3>2
      <4>2. tag' \in Nat /\ tag' >= tag
        BY ONLY <1>9, <4>1, LaterTag
      <4> QED BY <2>3, <2>4, <3>2, <4>2
    <3> QED BY <3>1, <3>2
  <2>7. at' = "threads" \/ site' = "byte" => tag' >= 1
    <3>1. ASSUME tag' = tag + 1 PROVE tag' >= 1
      BY ONLY <1>9, <3>1, LaterTag
    <3>2. CASE at = "threads" /\ tag' = tag
      BY <1>1, <3>2
    <3> QED BY <2>2, <3>1, <3>2
  <2> QED BY <2>1, <2>3, <2>6, <2>7, TagsNext
<1>5. CASE Run
  <2>1. /\ at = "threads" /\ site = "none" /\ UNCHANGED <<prog, marks>>
    BY <1>1, <1>5 DEF Run, ThreadDies, ThreadConsumes, AssertionFails, AssertionHold,
                      ThreadMatches, Dispatch, program, tags
  <2>2. \/ at' \in {"threads", "clear-matched"} /\ tag' = tag /\ site' = "none"
        \/ at' = "add" /\ tag' = tag /\ site' = "byte"
        \/ at' = "add" /\ tag' = PrevTag(tag) /\ site' = "assert"
    BY <1>5, <2>1 DEF Run, ThreadDies, ThreadConsumes, AssertionFails, AssertionHold,
                      ThreadMatches, Matched, AddFrom, tags, adding, exec
  <2>3. LastTag = tag /\ ~Failed
    BY <2>1 DEF LastTag, Failed
  <2>4. \/ tag' = tag /\ LastTag' = tag
        \/ LastTag' = tag' + 1 /\ tag' = tag - 1 /\ at' = "add" /\ site' = "assert"
    BY <1>1, <2>1, <2>2 DEF LastTag
  <2>5. /\ LastTag' \in Nat /\ LastTag' >= LastTag
        /\ at' = "threads" \/ site' = "byte" => tag' >= 1
    <3>1. tag >= 1
      BY <1>1, <2>1
    <3>2. CASE tag' = tag /\ LastTag' = tag
      <4>1. LastTag' \in Nat /\ LastTag' >= tag
        BY ONLY <1>9, <3>2
      <4> QED BY <2>3, <3>1, <3>2, <4>1
    <3>3. CASE LastTag' = tag' + 1 /\ tag' = tag - 1 /\ at' = "add" /\ site' = "assert"
      <4>1. LastTag' \in Nat /\ LastTag' >= tag
        BY ONLY <1>9, <3>1, <3>3
      <4> QED BY <2>3, <3>3, <4>1
    <3> QED BY <2>4, <3>2, <3>3
  <2> QED BY <2>1, <2>3, <2>5, TagsNext
<1>6. CASE AddThread
  <2>1. at' \in {"add", "return"} /\ UNCHANGED <<prog, tag, site>>
    BY <1>6 DEF AddThread, AddMarked, AddJmp, AddSplit, AddSave, AddLookBehind, AddMatchDone,
                AddWaiting, AddReturn, Continue, Result, addFrame, program
  <2>2. CASE AddReturn
    <3>1. at = "return" /\ marks' = marks
      BY <2>2 DEF AddReturn
    <3>2. LastTag' = LastTag
      BY <2>1, <3>1 DEF LastTag
    <3> QED BY <1>1, <2>1, <3>1, <3>2 DEF FreshTags, Failed
  <2>3. CASE ~AddReturn
    <3>1. Calling /\ (marks' = marks \/ Mark)
      BY <1>6, <2>3 DEF AddThread, AddMarked, AddJmp, AddSplit, AddSave, AddLookBehind,
                        AddMatchDone, AddWaiting, NewPc
    <3> QED BY <2>1, <3>1, TagsMarked
  <2> QED BY <2>2, <2>3
<1>7. CASE AddDone
  <2>1. at = "return" /\ ~Failed /\ UNCHANGED <<prog, marks>>
    BY <1>7 DEF AddDone, Seeded, Restarted, Consumed, ConsumedToMatch, Asserted,
                AddFails, Returned, program, tags, Fail, Failed
  <2>2. LastTag = IF site = "assert" THEN tag + 1 ELSE tag
    BY <2>1 DEF LastTag
  <2>3. CASE Seeded
    <3>1. site = "first" /\ tag' = tag /\ site' = "none"
          /\ (at' = "loop" \/ (at' = "idle" /\ out'.rc = "ERROR"))
      BY <2>3 DEF Seeded, Returned, Called, Fail, Return, NoRc, tags
    <3>2. Failed' \/ LastTag' = tag
      BY <3>1 DEF LastTag, Failed
    <3>3. Failed' \/ (LastTag' \in Nat /\ LastTag' >= LastTag)
      <4>1. CASE ~Failed'
        <5>1. LastTag' = tag /\ LastTag = tag
          BY <2>2, <3>1, <3>2, <4>1
        <5> QED BY ONLY <1>9, <5>1
      <4> QED BY <4>1
    <3>4. ~(at' = "threads" \/ site' = "byte")
      BY <3>1
    <3> QED BY <2>1, <3>3, <3>4, TagsNext
  <2>4. CASE Restarted
    <3>1. /\ site = "skip" /\ site' = "none" /\ at' \in {"finish", "threads"}
          /\ tag' \in {tag, tag + 1} /\ (at' = "threads" => tag' = tag + 1)
      BY <1>1, <2>4 DEF Restarted, Returned, Called, RunThreads
    <3>2. LastTag' = tag'
      BY <3>1 DEF LastTag
    <3>3. LastTag' \in Nat /\ LastTag' >= LastTag
      <4>1. LastTag = tag /\ (LastTag' = tag \/ LastTag' = tag + 1)
        BY <2>2, <3>1, <3>2
      <4> QED BY ONLY <1>9, <4>1, LaterTag
    <3>4. at' = "threads" \/ site' = "byte" => tag' >= 1
      <4>1. ASSUME tag' = tag + 1 PROVE tag' >= 1
        BY ONLY <1>9, <4>1, LaterTag
      <4> QED BY <3>1, <4>1
    <3> QED BY <2>1, <3>3, <3>4, TagsNext
  <2>5. CASE Consumed \/ ConsumedToMatch
    <3>1. /\ site = "byte" /\ site' = "none" /\ at' \in {"threads", "clear-matched"}
          /\ tag' = tag
      BY <2>5 DEF Consumed, ConsumedToMatch, Returned, Called, Matched, tags
    <3>2. LastTag' = tag
      BY <3>1 DEF LastTag
    <3>3. LastTag' \in Nat /\ LastTag' >= LastTag
      BY <1>1, <2>2, <3>1, <3>2
    <3>4. at' = "threads" \/ site' = "byte" => tag' >= 1
      BY <1>1, <3>1
    <3> QED BY <2>1, <3>3, <3>4, TagsNext
  <2>6. CASE Asserted
    <3>1. site = "assert" /\ site' = "none" /\ at' = "threads" /\ tag' = tag + 1
      BY <1>1, <2>6 DEF Asserted, Returned, Called
    <3>2. LastTag' = tag + 1
      BY <3>1 DEF LastTag
    <3>3. LastTag' \in Nat /\ LastTag' >= LastTag
      <4>1. LastTag = tag + 1 /\ LastTag' = tag + 1
        BY <2>2, <3>1, <3>2
      <4> QED BY ONLY <1>9, <4>1
    <3>4. at' = "threads" \/ site' = "byte" => tag' >= 1
      <4>1. tag' = tag + 1
        BY <3>1
      <4> QED BY ONLY <1>9, <4>1
    <3> QED BY <2>1, <3>3, <3>4, TagsNext
  <2>7. CASE AddFails
    <3>1. Failed' /\ site' = "none" /\ at' = "idle"
      BY <2>7 DEF AddFails, Fail, Return, NoRc, Failed
    <3>2. ~(at' = "threads" \/ site' = "byte")
      BY <3>1
    <3> QED BY <2>1, <3>1, <3>2, TagsNext
  <2> QED BY <1>7, <2>3, <2>4, <2>5, <2>6, <2>7 DEF AddDone
<1>8. CASE Finish
  <2>1. /\ at = "finish" /\ UNCHANGED <<prog, marks, tag>> /\ at' = "idle"
        /\ progTag' = tag /\ site' = site
    BY <1>8 DEF Finish, FinishMatch, FinishDeclined, FinishAgain, Finished, SaveContext,
                Return, program, adding
  <2>2. LastTag' = tag /\ LastTag = tag /\ ~Failed /\ site' = "none"
    BY <1>1, <2>1 DEF LastTag, Failed
  <2>3. /\ LastTag' \in Nat /\ LastTag' >= LastTag
        /\ at' = "threads" \/ site' = "byte" => tag' >= 1
    BY <1>1, <2>1, <2>2
  <2> QED BY <2>1, <2>2, <2>3, TagsNext
<1> QED BY <1>2, <1>3, <1>4, <1>5, <1>6, <1>7, <1>8 DEF Next, Machine

\* What the compiler has left in the program.
LEMMA TagsInit == Init => FreshTags
BY DEF Init, FreshTags, LastTag

\* A round begins with a tag of its own.
LEMMA RoundStep ==
    ASSUME TypeOK, FreshTags, TagsDoNotWrap, [Next]_vars, RoundBegins, NEW j \in Pcs(prog)
    PROVE  marks[j] # tag'
<1>1. /\ tag \in Nat /\ progTag \in Nat /\ marks[j] \in Nat
      /\ site = "none" <=> at \notin {"add", "return"}
      /\ NextTag(tag) = tag + 1 /\ NextTag(progTag) = progTag + 1
  BY TagSteps DEF TypeOK, TypeOfProgram, TypeOfCalls, TagsDoNotWrap
<1>2. ~Failed => marks[j] <= LastTag
  BY DEF FreshTags
<1>3. CASE ExecFirstBuffer
  BY <1>1, <1>2, <1>3 DEF ExecFirstBuffer, CallerReady, Failed, LastTag, AddFrom, RoundBegins,
                          adding
<1>4. CASE Skipped \/ LoopStep \/ Restarted
  <2>1. tag' = tag + 1 /\ at # "idle" /\ site # "assert"
    BY <1>1, <1>4 DEF Skipped, LoopStep, Restarted, Returned, RunThreads, Fail, Return,
                      RoundBegins, Called
  <2> QED BY <1>1, <1>2, <2>1 DEF Failed, LastTag
<1>5. CASE ~(ExecFirstBuffer \/ Skipped \/ LoopStep \/ Restarted)
  <2>1. CASE Call \/ UNCHANGED vars
    BY <1>5, <2>1 DEF Call, ExecAfterEof, ExecEmptyChunk, ExecResume, vars, adding, exec,
                      RoundBegins
  <2>2. CASE Loop
    BY <1>5, <2>2 DEF Loop, LoopEnd, LoopSkip, ClearThread, ClearedSkipped, StepDone, StepNext,
                      adding, exec, RoundBegins
  <2>3. CASE Run
    BY <2>3 DEF Run, ThreadDies, ThreadConsumes, AssertionFails, AssertionHold,
                ThreadMatches, Dispatch, Matched, AddFrom, adding, exec, RoundBegins
  <2>4. CASE AddThread
    BY <2>4 DEF AddThread, AddMarked, AddJmp, AddSplit, AddSave, AddLookBehind, AddMatchDone,
                AddWaiting, AddReturn, Continue, Result, addFrame, RoundBegins
  <2>5. CASE AddDone
    BY <1>5, <2>5 DEF AddDone, Seeded, Consumed, ConsumedToMatch, Asserted, AddFails,
                Returned, Called, Fail, Return, Matched, RoundBegins
  <2>6. CASE Finish
    BY <2>6 DEF Finish, FinishMatch, FinishDeclined, FinishAgain, Return, adding, RoundBegins
  <2> QED BY <2>1, <2>2, <2>3, <2>4, <2>5, <2>6 DEF Next, Machine
<1> QED BY <1>3, <1>4, <1>5

\* Every round of sre_vm_pike_add_thread begins with a tag that no instruction carries,
\* across the calls, the searches and the assertions that go a tag back, for as long as
\* no tag reaches the width of the unsigned (where the code has nothing against it).
THEOREM RoundsBeginFresh == Spec /\ []TagsDoNotWrap => RoundsAreFresh
<1> DEFINE Fresh1 == RoundBegins => \A i \in Pcs(prog) : marks[i] # tag'
<1>1. Init => TypeOK /\ FreshTags
  BY TypeInit, TagsInit
<1>2. TypeOK /\ FreshTags /\ TagsDoNotWrap /\ [Next]_vars => (TypeOK /\ FreshTags)'
  BY TypeStep, TagsStep
<1>3. TypeOK /\ FreshTags /\ TagsDoNotWrap /\ [Next]_vars => [Fresh1]_vars
  BY RoundStep
<1> QED BY <1>1, <1>2, <1>3, PTL DEF Spec, RoundsAreFresh

(***************************************************************************)
(* One thread for each instruction, if the program looks ahead nowhere:    *)
(* then only the calls of one round fill a list, and each of them marks    *)
(* the instruction whose thread it appends with the tag of that round.     *)
(* (The threads behind a look-ahead are spliced into clist in the middle   *)
(* of a round, whatever clist holds: the run chained_lookahead.)           *)
(***************************************************************************)
NoLookAheads(p) == \A i \in Pcs(p) : p.code[i].op = "assert" => LookBehind(p.code[i].look)

OnePcIn(ids, cell) == \A i, j \in DOMAIN ids : cell[ids[i]].pc = cell[ids[j]].pc => i = j

MarkedIn(ids, cell, m, n) == \A i \in Range(ids) : m[cell[i].pc] = n

\* The bytes of a round fill nlist; a search is seeded in clist; between the rounds
\* nlist is empty, and so is clist before a search is seeded.
InRound   == at = "threads" \/ site = "byte"
Seeding   == site \in {"first", "skip"}
Between   == ~Failed /\ ~InRound /\ at \notin {"clear-matched", "clear-leftover"}
SeedsNext == (at = "idle" /\ firstBuf /\ ~Failed) \/ at = "skipped"

OneEach ==
    /\ OnePcIn(clist.ids, pool.cell) /\ OnePcIn(nlist.ids, pool.cell)
    /\ site # "assert"
    /\ InRound => MarkedIn(nlist.ids, pool.cell, marks, tag)
    /\ Seeding => MarkedIn(clist.ids, pool.cell, marks, tag)
    /\ Between => nlist.ids = <<>>
    /\ SeedsNext => clist.ids = <<>>
    /\ firstBuf => at = "idle"

\* No thread of an empty list waits anywhere.
LEMMA NoneEach ==
    ASSUME NEW cell, NEW m, NEW n
    PROVE  OnePcIn(<<>>, cell) /\ MarkedIn(<<>>, cell, m, n)
BY EmptyRange DEF OnePcIn, MarkedIn

\* Popping the head of a list.
LEMMA PopEach ==
    ASSUME NEW S, NEW ids \in Seq(S), ids # <<>>, NEW cell, OnePcIn(ids, cell)
    PROVE  OnePcIn(Tail(ids), cell)
<1>1. /\ Len(ids) \in Nat /\ DOMAIN ids = 1 .. Len(ids)
      /\ Tail(ids) \in Seq(S) /\ Len(Tail(ids)) = Len(ids) - 1
      /\ \A i \in 1 .. Len(Tail(ids)) : Tail(ids)[i] = ids[i + 1]
  BY LenProperties, HeadTailProperties
<1>2. DOMAIN Tail(ids) = 1 .. Len(ids) - 1
  BY <1>1, LenProperties
<1> SUFFICES ASSUME NEW a \in 1 .. Len(ids) - 1, NEW b \in 1 .. Len(ids) - 1,
                    cell[Tail(ids)[a]].pc = cell[Tail(ids)[b]].pc
             PROVE  a = b
  BY <1>2 DEF OnePcIn
<1>3. /\ Tail(ids)[a] = ids[a + 1] /\ Tail(ids)[b] = ids[b + 1]
      /\ a + 1 \in 1 .. Len(ids) /\ b + 1 \in 1 .. Len(ids)
  BY <1>1
<1>4. a + 1 = b + 1
  BY <1>1, <1>3 DEF OnePcIn
<1> QED BY <1>4

\* A visit marks one instruction more.
LEMMA MarkEach ==
    ASSUME NEW ids, NEW cell, NEW D, NEW m \in [D -> Nat], NEW n, NEW p,
           \A i \in Range(ids) : cell[i].pc \in D, MarkedIn(ids, cell, m, n)
    PROVE  MarkedIn(ids, cell, [m EXCEPT ![p] = n], n)
BY DEF MarkedIn

\* A thread is appended that waits where no instruction was marked.
LEMMA AppendEach ==
    ASSUME NEW S, NEW ids \in Seq(S), NEW x \in S, NEW cell, NEW grown, NEW D,
           NEW m \in [D -> Nat], NEW n, NEW p \in D,
           \A i \in Range(ids) : grown[i] = cell[i] /\ cell[i].pc \in D,
           grown[x].pc = p, m[p] # n,
           OnePcIn(ids, cell), MarkedIn(ids, cell, m, n)
    PROVE  /\ OnePcIn(Append(ids, x), grown)
           /\ MarkedIn(Append(ids, x), grown, [m EXCEPT ![p] = n], n)
<1>1. /\ Len(ids) \in Nat /\ DOMAIN ids = 1 .. Len(ids)
      /\ Append(ids, x) \in Seq(S) /\ Len(Append(ids, x)) = Len(ids) + 1
      /\ \A i \in 1 .. Len(ids) : Append(ids, x)[i] = ids[i]
      /\ Append(ids, x)[Len(ids) + 1] = x
  BY LenProperties, AppendProperties
<1>2. DOMAIN Append(ids, x) = 1 .. Len(ids) + 1
  BY <1>1, LenProperties
<1>3. Range(Append(ids, x)) = Range(ids) \cup {x}
  BY AppendRange
<1>4. ASSUME NEW i \in 1 .. Len(ids)
      PROVE  /\ grown[Append(ids, x)[i]] = cell[ids[i]]
             /\ cell[ids[i]].pc # p
  <2>1. ids[i] \in Range(ids) /\ Append(ids, x)[i] = ids[i]
    BY <1>1 DEF Range
  <2>2. m[cell[ids[i]].pc] = n
    BY <2>1 DEF MarkedIn
  <2> QED BY <2>1, <2>2
<1>5. ASSUME NEW a \in 1 .. Len(ids) + 1, NEW b \in 1 .. Len(ids) + 1,
             grown[Append(ids, x)[a]].pc = grown[Append(ids, x)[b]].pc
      PROVE  a = b
  <2>1. ASSUME NEW i \in 1 .. Len(ids) + 1
        PROVE  i \in 1 .. Len(ids) \/ (i = Len(ids) + 1 /\ grown[Append(ids, x)[i]].pc = p)
    BY <1>1
  <2>2. CASE a \in 1 .. Len(ids) /\ b \in 1 .. Len(ids)
    BY <1>1, <1>4, <1>5, <2>2 DEF OnePcIn
  <2>3. CASE a \in 1 .. Len(ids) /\ b \notin 1 .. Len(ids)
    BY <1>4, <1>5, <2>1, <2>3
  <2>5. CASE a \notin 1 .. Len(ids) /\ b \in 1 .. Len(ids)
    BY <1>4, <1>5, <2>1, <2>5
  <2>4. CASE a \notin 1 .. Len(ids) /\ b \notin 1 .. Len(ids)
    BY <2>1, <2>4
  <2> QED BY <2>2, <2>3, <2>4, <2>5
<1>6. OnePcIn(Append(ids, x), grown)
  BY <1>2, <1>5 DEF OnePcIn
<1>7. ASSUME NEW i \in Range(ids) \cup {x} PROVE [m EXCEPT ![p] = n][grown[i].pc] = n
  <2>1. CASE i = x
    BY <2>1
  <2>2. CASE i \in Range(ids)
    <3>1. grown[i].pc \in D /\ m[grown[i].pc] = n
      BY <2>2 DEF MarkedIn
    <3> QED BY <3>1
  <2> QED BY <2>1, <2>2
<1>8. MarkedIn(Append(ids, x), grown, [m EXCEPT ![p] = n], n)
  BY <1>3, <1>7 DEF MarkedIn
<1> QED BY <1>6, <1>8

\* The threads of a list wait at instructions of the program.
LEMMA WaitsInProgram ==
    ASSUME TypeOK
    PROVE  /\ \A i \in Range(clist.ids) : pool.cell[i].pc \in Pcs(prog)
           /\ \A i \in Range(nlist.ids) : pool.cell[i].pc \in Pcs(prog)
           /\ marks \in [Pcs(prog) -> Nat]
<1>1. Range(clist.ids) \subseteq 1 .. Len(pool.cell) /\ Range(nlist.ids) \subseteq 1 .. Len(pool.cell)
  BY ThreadSeqs, RangeOfSeq
<1>2. ASSUME NEW i \in 1 .. Len(pool.cell) PROVE pool.cell[i].pc \in Pcs(prog)
  <2>1. pool.cell[i] \in Threads(prog, Len(heap.cell))
    BY PoolParts DEF TypeOK, TypeOfMemory
  <2> QED BY <2>1 DEF Threads, Live
<1> QED BY <1>1, <1>2 DEF TypeOK, TypeOfProgram

\* What the parts of OneEach come to for the lists after a step.
LEMMA EachNext ==
    ASSUME OnePcIn(clist'.ids, pool'.cell), OnePcIn(nlist'.ids, pool'.cell),
           site' # "assert",
           InRound' => MarkedIn(nlist'.ids, pool'.cell, marks', tag'),
           Seeding' => MarkedIn(clist'.ids, pool'.cell, marks', tag'),
           Between' => nlist'.ids = <<>>,
           SeedsNext' => clist'.ids = <<>>,
           firstBuf' => at' = "idle"
    PROVE  OneEach'
BY DEF OneEach, OnePcIn, MarkedIn

\* Steps that leave the lists, the marks and the threads as they are.
LEMMA StillEach ==
    ASSUME OneEach, UNCHANGED <<lists, marks>>, pool'.cell = pool.cell, site' # "assert",
           InRound' => nlist.ids = <<>> \/ (InRound /\ tag' = tag),
           Seeding' => clist.ids = <<>> \/ (Seeding /\ tag' = tag),
           Between' => nlist.ids = <<>>,
           SeedsNext' => clist.ids = <<>>,
           firstBuf' => at' = "idle"
    PROVE  OneEach'
<1>1. clist' = clist /\ nlist' = nlist /\ marks' = marks
  BY DEF lists
<1>2. OnePcIn(clist.ids, pool.cell) /\ OnePcIn(nlist.ids, pool.cell)
  BY DEF OneEach
<1>3. InRound' => MarkedIn(nlist.ids, pool.cell, marks, tag')
  BY NoneEach DEF OneEach
<1>4. Seeding' => MarkedIn(clist.ids, pool.cell, marks, tag')
  BY NoneEach DEF OneEach
<1> QED BY <1>1, <1>2, <1>3, <1>4, EachNext

\* Entering sre_vm_pike_exec, and refusing to.
LEMMA CallEach ==
    ASSUME TypeOK, OneEach, Call
    PROVE  OneEach'
<1>1. /\ UNCHANGED <<lists, marks>> /\ pool'.cell = pool.cell
      /\ at = "idle" /\ site = "none" /\ ~Failed
  BY DEF Call, ExecAfterEof, ExecEmptyChunk, ExecFirstBuffer, ExecResume, CallerReady, tags,
         memory, Failed, TypeOK, TypeOfCalls
<1>2. nlist.ids = <<>> /\ (firstBuf => clist.ids = <<>>)
  BY <1>1 DEF OneEach, Between, SeedsNext, InRound
<1>3. site' # "assert" /\ site' # "byte" /\ at' # "threads" /\ at' # "skipped"
  BY <1>1 DEF Call, ExecAfterEof, ExecEmptyChunk, ExecFirstBuffer, ExecResume, exec, adding,
              AddFrom
<1>4. firstBuf' => firstBuf /\ at' = "idle"
  BY <1>1 DEF Call, ExecAfterEof, ExecEmptyChunk, ExecFirstBuffer, ExecResume, exec, flags
<1>5. Seeding' => firstBuf
  BY <1>1 DEF Call, ExecAfterEof, ExecEmptyChunk, ExecFirstBuffer, ExecResume, adding, Seeding
<1> QED BY <1>1, <1>2, <1>3, <1>4, <1>5, StillEach DEF InRound, SeedsNext

\* Clearing a list, thread by thread.
LEMMA ClearThreadEach ==
    ASSUME TypeOK, OneEach, ClearThread
    PROVE  OneEach'
<1>1. /\ pool'.cell = pool.cell /\ site = "none" /\ UNCHANGED <<at, site, out, firstBuf>>
      /\ at \in {"clear-skipped", "clear-matched", "clear-leftover"}
  BY DEF ClearThread, FreeThread, TypeOK, TypeOfCalls, TypeOfMemory, Pools, exec, adding, flags,
         caller
<1>2. /\ clist.ids \in Seq(1 .. Len(pool.cell)) /\ nlist.ids \in Seq(1 .. Len(pool.cell))
      /\ OnePcIn(clist.ids, pool.cell) /\ OnePcIn(nlist.ids, pool.cell)
  BY ThreadSeqs DEF OneEach
<1>3. /\ ~InRound' /\ ~Seeding' /\ ~SeedsNext' /\ site' # "assert" /\ ~firstBuf'
      /\ Between' => at # "clear-leftover" /\ Between
  BY <1>1 DEF InRound, Seeding, SeedsNext, Between, OneEach, Failed
<1>4. CASE at = "clear-leftover"
  <2>1. nlist.ids # <<>> /\ nlist'.ids = Tail(nlist.ids) /\ clist' = clist
    BY <1>4 DEF ClearThread, PopHead
  <2>2. OnePcIn(nlist'.ids, pool.cell)
    BY <1>2, <2>1, PopEach
  <2> QED BY <1>1, <1>2, <1>3, <1>4, <2>1, <2>2, EachNext
<1>5. CASE at # "clear-leftover"
  <2>1. clist.ids # <<>> /\ clist'.ids = Tail(clist.ids) /\ nlist' = nlist
    BY <1>5 DEF ClearThread, PopHead
  <2>2. OnePcIn(clist'.ids, pool.cell)
    BY <1>2, <2>1, PopEach
  <2>3. Between' => nlist'.ids = <<>>
    BY <1>3, <2>1 DEF OneEach
  <2> QED BY <1>1, <1>2, <1>3, <2>1, <2>2, <2>3, EachNext
<1> QED BY <1>4, <1>5

\* The steps of the loop over the bytes.
LEMMA LoopEach ==
    ASSUME TypeOK, OneEach, Loop
    PROVE  OneEach'
<1>1. /\ site = "none" /\ at # "idle" /\ ~firstBuf /\ ~Failed
  BY DEF Loop, LoopEnd, LoopStep, LoopSkip, Skipped, ClearThread, ClearedSkipped, StepDone,
         StepNext, TypeOK, TypeOfCalls, OneEach, Failed
<1>2. CASE LoopEnd \/ LoopStep \/ LoopSkip \/ ClearedSkipped \/ StepNext
  <2>1. /\ UNCHANGED <<lists, marks>> /\ pool'.cell = pool.cell /\ site' = "none"
        /\ at' # "idle" /\ ~firstBuf' /\ (at' = "skipped" => clist.ids = <<>>)
    BY <1>1, <1>2 DEF LoopEnd, LoopStep, LoopSkip, ClearedSkipped, StepNext, tags, memory, flags,
                      adding, RunThreads
  <2>2. Between \/ nlist.ids = <<>>
    BY <1>1, <1>2 DEF LoopEnd, LoopStep, LoopSkip, ClearedSkipped, StepNext, Between, InRound
  <2>3. nlist.ids = <<>>
    BY <2>2 DEF OneEach
  <2> QED BY <2>1, <2>3, StillEach DEF Seeding, SeedsNext
<1>3. CASE Skipped
  <2>1. /\ UNCHANGED <<lists, marks>> /\ pool'.cell = pool.cell
        /\ site' \in {"none", "skip"} /\ ~firstBuf' /\ at' \in {"idle", "add"}
        /\ (at' = "idle" => Failed')
    BY <1>1, <1>3 DEF Skipped, Fail, Return, NoRc, AddFrom, Failed, tags, memory, flags
  <2>2. Between /\ SeedsNext
    BY <1>1, <1>3 DEF Skipped, Between, InRound, SeedsNext
  <2>3. nlist.ids = <<>> /\ clist.ids = <<>>
    BY <2>2 DEF OneEach
  <2> QED BY <2>1, <2>3, StillEach
<1>4. CASE ClearThread
  BY <1>4, ClearThreadEach
<1>5. CASE StepDone
  <2>1. /\ clist.ids = <<>> /\ clist' = nlist /\ nlist' = clist /\ pool' = pool
        /\ at' = "clear-leftover" /\ site' = "none" /\ ~firstBuf'
    BY <1>1, <1>5 DEF StepDone, memory, adding, flags
  <2>2. ~InRound' /\ ~Seeding' /\ ~SeedsNext' /\ ~Between'
    BY <2>1 DEF InRound, Seeding, SeedsNext, Between
  <2>3. OnePcIn(clist'.ids, pool'.cell) /\ OnePcIn(nlist'.ids, pool'.cell)
    BY <2>1 DEF OneEach
  <2> QED BY <2>1, <2>2, <2>3, EachNext
<1> QED BY <1>2, <1>3, <1>4, <1>5 DEF Loop

\* Running the head of clist; no thread waits at an assertion that may hold.
LEMMA RunEach ==
    ASSUME TypeOK, NoLookAheads(prog), OneEach, Run
    PROVE  OneEach'
<1>1. /\ Dispatch /\ clist' = PopHead(clist) /\ nlist' = nlist /\ marks' = marks
      /\ pool'.cell = pool.cell /\ ~firstBuf'
  BY DEF Run, ThreadDies, ThreadConsumes, AssertionFails, AssertionHold, ThreadMatches, Matched,
         Dispatch, FreeThread, TypeOK, TypeOfMemory, Pools, tags, memory, flags, OneEach
<1>2. at = "threads" /\ site = "none"
  BY <1>1 DEF Dispatch, TypeOK, TypeOfCalls
<1>3. ~AssertionHold
  <2>1. SUFFICES ASSUME AssertionHold PROVE FALSE
    OBVIOUS
  <2>2. Thread(Current).pc \in Pcs(prog)
    BY <1>1, CurrentParts DEF Live
  <2>3. LookBehind(Waiting.look)
    BY <2>1, <2>2 DEF AssertionHold, NoLookAheads, Waiting, Ins
  <2> QED BY <2>1, <2>3 DEF AssertionHold, AssertionHolds, LookBehind
<1>4. /\ clist.ids \in Seq(1 .. Len(pool.cell)) /\ clist.ids # <<>>
      /\ clist'.ids = Tail(clist.ids)
  BY <1>1, ThreadSeqs DEF Dispatch, PopHead
<1>5. OnePcIn(clist'.ids, pool'.cell) /\ OnePcIn(nlist'.ids, pool'.cell)
  BY <1>1, <1>4, PopEach DEF OneEach
<1>6. /\ \/ at' \in {"threads", "clear-matched"} /\ site' = "none"
         \/ at' = "add" /\ site' = "byte"
      /\ tag' = tag
  BY <1>2, <1>3 DEF Run, ThreadDies, ThreadConsumes, AssertionFails, ThreadMatches, Matched,
                    AddFrom, tags, exec, adding
<1>7. MarkedIn(nlist'.ids, pool'.cell, marks', tag')
  BY <1>1, <1>2, <1>6 DEF OneEach, InRound
<1>8. ~Seeding' /\ ~SeedsNext' /\ ~Between' /\ site' # "assert"
  BY <1>6 DEF Seeding, SeedsNext, Between, InRound
<1> QED BY <1>1, <1>5, <1>7, <1>8, EachNext

\* A visit that appends nothing.
LEMMA VisitEach ==
    ASSUME TypeOK, OneEach, at \in {"add", "return"}, at' \in {"add", "return"},
           UNCHANGED <<lists, tag, site, firstBuf>>, pool'.cell = pool.cell,
           marks' = marks \/ Mark
    PROVE  OneEach'
<1>1. clist' = clist /\ nlist' = nlist
  BY DEF lists
<1>2. /\ site # "none" /\ site # "assert" /\ ~firstBuf
      /\ OnePcIn(clist.ids, pool.cell) /\ OnePcIn(nlist.ids, pool.cell)
      /\ site = "byte" => MarkedIn(nlist.ids, pool.cell, marks, tag)
      /\ Seeding => MarkedIn(clist.ids, pool.cell, marks, tag)
      /\ site # "byte" => nlist.ids = <<>>
  BY DEF OneEach, TypeOK, TypeOfCalls, InRound, Between, Failed
<1>3. ASSUME NEW ids, \A i \in Range(ids) : pool.cell[i].pc \in Pcs(prog),
             MarkedIn(ids, pool.cell, marks, tag)
      PROVE  MarkedIn(ids, pool.cell, marks', tag)
  <2>1. marks \in [Pcs(prog) -> Nat]
    BY WaitsInProgram
  <2>2. MarkedIn(ids, pool.cell, [marks EXCEPT ![call.pc] = tag], tag)
    BY <1>3, <2>1, MarkEach
  <2> QED BY <1>3, <2>2 DEF Mark
<1>4. /\ site = "byte" => MarkedIn(nlist.ids, pool.cell, marks', tag)
      /\ Seeding => MarkedIn(clist.ids, pool.cell, marks', tag)
  BY <1>2, <1>3, WaitsInProgram
<1>5. /\ InRound' => site = "byte"
      /\ Seeding' => Seeding
      /\ Between' => site # "byte"
      /\ ~SeedsNext'
  BY DEF InRound, Seeding, Between, SeedsNext
<1> QED BY <1>1, <1>2, <1>4, <1>5, EachNext

\* The thread of an instruction that waits: no other one of the list waits there.
LEMMA AddWaitingEach ==
    ASSUME TypeOK, ThreadsOwnedOnce, OneEach, AddWaiting
    PROVE  OneEach'
<1>1. /\ at = "add" /\ at' = "return" /\ UNCHANGED <<tag, site, firstBuf>> /\ Mark
      /\ ~Marked(call.pc)
  BY DEF AddWaiting, NewPc, Calling, Result, flags
<1>2. CASE UNCHANGED <<pool, lists>>
  BY <1>1, <1>2, VisitEach
<1>3. CASE pool' = TakeThread(ThreadOf(call)) /\ SetTarget(Enlist(Target, Fresh(pool)))
  <2> PICK x, p, n : x = Fresh(pool) /\ p = call.pc /\ n = tag
    OBVIOUS
  <2> DEFINE S == 1 .. Len(pool.cell) + 1
  <2>1. /\ x \in S /\ x \notin Range(clist.ids) /\ x \notin Range(nlist.ids)
    BY FreshThread
  <2>2. clist.ids \in Seq(S) /\ nlist.ids \in Seq(S)
    <3>1. Len(pool.cell) \in Nat /\ Len(pool.cell) + 1 \in Nat
      BY ThreadSeqs
    <3> QED BY <3>1, ThreadSeqs, SeqWiden
  <2> HIDE DEF S
  <2>3. p \in Live(prog) /\ call.cap \in Captures(heap)
    BY <1>1, CalleeParts DEF Calling
  <2>4. ThreadOf(call) \in Threads(prog, Len(heap.cell)) /\ ThreadOf(call).pc = p
    BY <2>3 DEF ThreadOf, Threads, SeenWordBefore, Captures
  <2>5. /\ pool'.cell[x].pc = p
        /\ \A i \in Captures(pool) : i # x => pool'.cell[i] = pool.cell[i]
    <3>1. /\ pool'.cell[x] = ThreadOf(call)
          /\ \A i \in Captures(pool) : i # x => pool'.cell[i] = pool.cell[i]
      BY <1>3, <2>4, AllocateEffect DEF TakeThread, TypeOK, TypeOfMemory
    <3> QED BY <2>4, <3>1
  <2>6. /\ \A i \in Range(clist.ids) : pool'.cell[i] = pool.cell[i]
        /\ \A i \in Range(nlist.ids) : pool'.cell[i] = pool.cell[i]
    <3>1. Range(clist.ids) \subseteq Captures(pool) /\ Range(nlist.ids) \subseteq Captures(pool)
      BY ThreadSeqs, RangeOfSeq DEF Captures
    <3> QED BY <2>1, <2>5, <3>1
  <2>7. /\ marks \in [Pcs(prog) -> Nat] /\ marks' = [marks EXCEPT ![p] = n]
        /\ p \in Pcs(prog) /\ marks[p] # n /\ tag' = n
    BY <1>1, <2>3, WaitsInProgram DEF Mark, Marked, Live
  <2>8. /\ \A i \in Range(clist.ids) : pool.cell[i].pc \in Pcs(prog)
        /\ \A i \in Range(nlist.ids) : pool.cell[i].pc \in Pcs(prog)
    BY WaitsInProgram
  <2>9. /\ site # "none" /\ site # "assert" /\ ~firstBuf
        /\ OnePcIn(clist.ids, pool.cell) /\ OnePcIn(nlist.ids, pool.cell)
        /\ site = "byte" => MarkedIn(nlist.ids, pool.cell, marks, n)
        /\ Seeding => MarkedIn(clist.ids, pool.cell, marks, n)
        /\ site # "byte" => nlist.ids = <<>>
    BY <1>1 DEF OneEach, TypeOK, TypeOfCalls, InRound, Between, Failed
  <2>10. OnePcIn(clist.ids, pool'.cell) /\ OnePcIn(nlist.ids, pool'.cell)
    <3>1. ASSUME NEW ids \in Seq(S), OnePcIn(ids, pool.cell),
                 \A i \in Range(ids) : pool'.cell[i] = pool.cell[i]
          PROVE  OnePcIn(ids, pool'.cell)
      BY <3>1 DEF OnePcIn, Range
    <3> QED BY <2>2, <2>6, <2>9, <3>1
  <2>11. /\ ~SeedsNext' /\ ~firstBuf' /\ site' # "assert"
         /\ InRound' => site = "byte"
         /\ Seeding' => Seeding
         /\ Between' => site # "byte"
    BY <1>1, <2>9 DEF InRound, Seeding, Between, SeedsNext
  <2>15. ASSUME NEW ids \in Seq(S), OnePcIn(ids, pool.cell), MarkedIn(ids, pool.cell, marks, n),
                \A i \in Range(ids) : pool'.cell[i] = pool.cell[i],
                \A i \in Range(ids) : pool.cell[i].pc \in Pcs(prog)
         PROVE  /\ OnePcIn(Append(ids, x), pool'.cell)
                /\ MarkedIn(Append(ids, x), pool'.cell, marks', n)
    <3> PICK g, c, m, D : g = pool'.cell /\ c = pool.cell /\ m = marks /\ D = Pcs(prog)
      OBVIOUS
    <3>1. \A i \in Range(ids) : g[i] = c[i] /\ c[i].pc \in D
      BY <2>15
    <3>2. g[x].pc = p /\ m \in [D -> Nat] /\ p \in D /\ m[p] # n
      BY <2>5, <2>7
    <3>3. OnePcIn(ids, c) /\ MarkedIn(ids, c, m, n)
      BY <2>15
    <3>4. /\ OnePcIn(Append(ids, x), g)
          /\ MarkedIn(Append(ids, x), g, [m EXCEPT ![p] = n], n)
      BY ONLY <2>1, <3>1, <3>2, <3>3, AppendEach
    <3> QED BY <2>7, <3>4
  <2>12. site = "byte" \/ Seeding
    BY <2>9 DEF Seeding, TypeOK, TypeOfCalls
  <2>13. CASE site = "byte"
    <3>1. nlist'.ids = Append(nlist.ids, x) /\ clist' = clist /\ ~Seeding
      BY <1>3, <2>13 DEF SetTarget, Target, Enlist, Seeding
    <3>2. /\ OnePcIn(Append(nlist.ids, x), pool'.cell)
          /\ MarkedIn(Append(nlist.ids, x), pool'.cell, marks', n)
      BY <2>2, <2>6, <2>8, <2>9, <2>13, <2>15
    <3> QED BY <2>7, <2>10, <2>11, <2>13, <3>1, <3>2, EachNext
  <2>14. CASE Seeding
    <3>1. clist'.ids = Append(clist.ids, x) /\ nlist' = nlist /\ site # "byte"
      BY <1>3, <2>14 DEF SetTarget, Target, Enlist, Seeding
    <3>2. /\ OnePcIn(Append(clist.ids, x), pool'.cell)
          /\ MarkedIn(Append(clist.ids, x), pool'.cell, marks', n)
      BY <2>2, <2>6, <2>8, <2>9, <2>14, <2>15
    <3> QED BY <2>7, <2>9, <2>10, <2>11, <2>14, <3>1, <3>2, EachNext
  <2> QED BY <2>12, <2>13, <2>14
<1> QED BY <1>2, <1>3 DEF AddWaiting

\* Every step of a program that looks ahead nowhere.
LEMMA EachStep ==
    TypeOK /\ ThreadsOwnedOnce /\ (NoLookAheads(prog) => OneEach) /\ [Next]_vars
        => (NoLookAheads(prog) => OneEach)'
<1> SUFFICES ASSUME TypeOK, ThreadsOwnedOnce, NoLookAheads(prog) => OneEach, [Next]_vars
             PROVE  (NoLookAheads(prog) => OneEach)'
  OBVIOUS
<1>1. prog' = prog
  BY DEF Next, Machine, Call, ExecAfterEof, ExecEmptyChunk, ExecFirstBuffer, ExecResume, Loop,
         LoopEnd, LoopStep, LoopSkip, Skipped, ClearThread, ClearedSkipped, StepDone, StepNext,
         Run, ThreadDies, ThreadConsumes, AssertionFails, AssertionHold, ThreadMatches,
         AddThread, AddMarked, AddJmp, AddSplit, AddSave, AddLookBehind, AddMatchDone,
         AddWaiting, AddReturn, AddDone, Seeded, Restarted, Consumed, ConsumedToMatch, Asserted,
         AddFails, Finish, FinishMatch, FinishDeclined, FinishAgain, Fail, vars, program,
         addFrame
<1> SUFFICES ASSUME NoLookAheads(prog) PROVE OneEach'
  BY <1>1 DEF NoLookAheads, Pcs
<1>2. OneEach
  OBVIOUS
<1>3. CASE Call
  BY <1>2, <1>3, CallEach
<1>4. CASE UNCHANGED vars
  BY <1>2, <1>4 DEF vars, lists, tags, memory, exec, adding, flags, caller, OneEach, OnePcIn,
                    MarkedIn, InRound, Seeding, Between, SeedsNext, Failed
<1>5. CASE Loop
  BY <1>2, <1>5, LoopEach
<1>6. CASE Run
  BY <1>2, <1>6, RunEach
<1>7. CASE AddThread
  <2>1. CASE AddWaiting
    BY <1>2, <2>1, AddWaitingEach
  <2>2. CASE AddMarked \/ AddJmp \/ AddSplit \/ AddSave \/ AddLookBehind \/ AddMatchDone
             \/ AddReturn
    <3>1. /\ at \in {"add", "return"} /\ at' \in {"add", "return"}
          /\ UNCHANGED <<lists, tag, site, firstBuf>> /\ pool'.cell = pool.cell
      BY <2>2 DEF AddMarked, AddJmp, AddSplit, AddSave, AddLookBehind, AddMatchDone, AddReturn,
                  addFrame, NewPc, Calling, Continue, Result, flags
    <3>2. marks' = marks \/ Mark
      BY <2>2 DEF AddMarked, AddJmp, AddSplit, AddSave, AddLookBehind, AddMatchDone, AddReturn
    <3> QED BY <1>2, <3>1, <3>2, VisitEach
  <2> QED BY <1>7, <2>1, <2>2 DEF AddThread
<1>8. CASE AddDone
  <2>1. at = "return" /\ site \notin {"none", "assert"} /\ ~firstBuf
    BY <1>2, <1>8 DEF AddDone, Seeded, Restarted, Consumed, ConsumedToMatch, Asserted, AddFails,
                      Returned, OneEach, TypeOK, TypeOfCalls
  <2>2. /\ UNCHANGED <<lists, marks, firstBuf>> /\ pool'.cell = pool.cell /\ site' = "none"
    BY <1>8, <2>1 DEF AddDone, Seeded, Restarted, Consumed, ConsumedToMatch, Asserted, AddFails,
                      Returned, Called, Fail, Matched, FreeThread, tags, memory, flags,
                      TypeOK, TypeOfMemory, Pools
  <2>3. \/ Failed' /\ at' = "idle"
        \/ at' \in {"loop", "finish"} /\ site # "byte"
        \/ at' = "threads" /\ site = "skip"
        \/ at' = "threads" /\ site = "byte" /\ tag' = tag
        \/ at' = "clear-matched"
    <3>1. CASE Seeded \/ AddFails
      <4>1. ASSUME Fail PROVE Failed' /\ at' = "idle"
        BY <4>1 DEF Fail, Return, NoRc, Failed
      <4>2. Fail \/ (at' = "loop" /\ site = "first")
        BY <3>1 DEF Seeded, AddFails, Returned
      <4> QED BY <4>1, <4>2
    <3>2. CASE Restarted
      BY <3>2 DEF Restarted, Returned, RunThreads
    <3>3. CASE Consumed \/ ConsumedToMatch
      BY <3>3 DEF Consumed, ConsumedToMatch, Returned, Matched, tags
    <3>4. ~Asserted
      BY <2>1 DEF Asserted, Returned
    <3> QED BY <1>8, <3>1, <3>2, <3>3, <3>4 DEF AddDone
  <2>4. site # "byte" => nlist.ids = <<>>
    BY <1>2, <2>1 DEF OneEach, Between, InRound, Failed
  <2>5. /\ InRound' => nlist.ids = <<>> \/ (InRound /\ tag' = tag)
        /\ ~Seeding' /\ ~SeedsNext'
        /\ Between' => nlist.ids = <<>>
    BY <2>2, <2>3, <2>4 DEF InRound, Seeding, SeedsNext, Between
  <2> QED BY <1>2, <2>1, <2>2, <2>5, StillEach
<1>9. CASE Finish
  <2>1. /\ at = "finish" /\ at' = "idle" /\ site = "none" /\ site' = "none" /\ ~firstBuf
        /\ marks' = marks
    BY <1>2, <1>9 DEF Finish, FinishMatch, FinishDeclined, FinishAgain, Finished, Return,
                      adding, TypeOK, TypeOfCalls, OneEach
  <2>2. nlist.ids = <<>>
    BY <1>2, <2>1 DEF OneEach, Between, InRound, Failed
  <2>3. ~InRound' /\ ~Seeding'
    BY <2>1 DEF InRound, Seeding
  <2>4. CASE FinishMatch
    <3>1. clist'.ids = <<>> /\ nlist' = nlist
      BY <2>4 DEF FinishMatch, Emptied
    <3>2. OnePcIn(clist'.ids, pool'.cell) /\ OnePcIn(nlist'.ids, pool'.cell)
      BY <2>2, <3>1, NoneEach
    <3> QED BY <2>1, <2>2, <2>3, <3>1, <3>2, EachNext
  <2>5. CASE FinishDeclined \/ FinishAgain
    <3>1. UNCHANGED <<lists, firstBuf>> /\ pool'.cell = pool.cell
      BY <2>5 DEF FinishDeclined, FinishAgain, memory
    <3>2. ~SeedsNext'
      BY <2>1, <3>1 DEF SeedsNext
    <3> QED BY <1>2, <2>1, <2>2, <2>3, <3>1, <3>2, StillEach
  <2> QED BY <1>9, <2>4, <2>5 DEF Finish
<1> QED BY <1>3, <1>4, <1>5, <1>6, <1>7, <1>8, <1>9 DEF Next, Machine

\* The lists are empty at first.
LEMMA EachInit == Init => OneEach
BY NoneEach DEF Init, EmptyList, OneEach, InRound, Seeding, Between, SeedsNext

\* Two threads of a list never wait at the same instruction, so that a list is no longer
\* than the program and a byte costs no more than its instructions, if the program has
\* no assertion that looks ahead (with one, the run chained_lookahead has two).
THEOREM OneThreadEach == Spec => [](NoLookAheads(prog) => OneThreadPerPc)
<1>1. TypeOK /\ (NoLookAheads(prog) => OneEach) => (NoLookAheads(prog) => OneThreadPerPc)
  BY DEF OneEach, OnePcIn, OneThreadPerPc, Thread
<1>2. Init => (NoLookAheads(prog) => OneEach)
  BY EachInit
<1> QED BY <1>1, <1>2, EachStep, OwnedInit, OwnedStep, TypeInit, TypeStep, PTL DEF Spec
=============================================================================
