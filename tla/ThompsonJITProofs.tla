-------------------------- MODULE ThompsonJITProofs --------------------------
(***************************************************************************)
(* Theorems about ThompsonJIT for every set of compiled programs, streams  *)
(* and chunks.                                                             *)
(***************************************************************************)
EXTENDS ThompsonJIT, AcceptanceProofs, SequenceTheorems, FunctionTheorems,
        FiniteSetTheorems, TLAPS

\* The invariant: the image stays one of those that the compiler has made.
IInv == TypeOK /\ prog \in Images

\* Its parts that speak of the contexts and of the lists of threads.
ContextsOK ==
    /\ contexts \in Seq(Contexts)
    /\ \A c \in DOMAIN contexts :
        contexts[c].base <= Len(contexts[c].stream) /\ HasCode(contexts[c].threads)

ListsOK == clist \in Seq(Threads) /\ nlist \in Seq(Threads) /\ HasCode(clist) /\ HasCode(nlist)

\* A list of threads that have code.
ListOK(list) == list \in Seq(Threads) /\ HasCode(list)

PathStates == [pc : DOMAIN prog.code, asserts : SUBSET Assertions]

-----------------------------------------------------------------------------
(* Images. *)

\* The thread indexes are finitely many, and their number is what the lists are made for.
LEMMA IndexesAreCounted ==
    ASSUME IInv
    PROVE  /\ IsFiniteSet(Indexes(prog.code, prog.paths))
           /\ prog.uniq = Cardinality(Indexes(prog.code, prog.paths)) /\ prog.uniq \in Nat
<1>1. WellFormedImage(prog)
  BY ImagesAssumption DEF IInv
<1>2. /\ IsFiniteSet(Indexes(prog.code, prog.paths))
      /\ prog.uniq = Cardinality(Indexes(prog.code, prog.paths))
  BY <1>1 DEF WellFormedImage
<1>. QED  BY <1>2, FS_CardinalityType

-----------------------------------------------------------------------------
(* Sequences. *)

\* One element of a sequence replaced.
LEMMA ReplacedInSeq ==
    ASSUME NEW S, NEW s \in Seq(S), NEW c \in DOMAIN s, NEW e \in S
    PROVE  /\ [s EXCEPT ![c] = e] \in Seq(S)
           /\ DOMAIN [s EXCEPT ![c] = e] = DOMAIN s
           /\ [s EXCEPT ![c] = e][c] = e
           /\ \A d \in DOMAIN s : d # c => [s EXCEPT ![c] = e][d] = s[d]
<1>1. c \in 1 .. Len(s)
  BY LenProperties
<1>. QED  BY <1>1, ExceptSeq

\* A thread with code is added to a list.
LEMMA ListGrows ==
    ASSUME NEW list, ListOK(list), NEW t \in Threads,
           prog.code[t.pc].op = "match" \/ t.pc \in DOMAIN prog.paths
    PROVE  ListOK(Append(list, t))
<1>. DEFINE more == Append(list, t)
<1>1. /\ more \in Seq(Threads) /\ Len(more) = Len(list) + 1
      /\ \A n \in 1 .. Len(list) : more[n] = list[n]
      /\ more[Len(list) + 1] = t
  BY AppendProperties DEF ListOK
<1>2. DOMAIN more = 1 .. Len(list) + 1 /\ DOMAIN list = 1 .. Len(list) /\ Len(list) \in Nat
  BY <1>1, LenProperties DEF ListOK
<1>3. ASSUME NEW n \in DOMAIN more
      PROVE  prog.code[more[n].pc].op = "match" \/ more[n].pc \in DOMAIN prog.paths
  <2>1. CASE n \in DOMAIN list
    BY <1>1, <1>2, <2>1 DEF ListOK, HasCode
  <2>2. CASE n = Len(list) + 1
    BY <1>1, <2>2
  <2>. QED  BY <1>2, <1>3, <2>1, <2>2
<1>. QED  BY <1>1, <1>3 DEF ListOK, HasCode

LEMMA EmptyList == ListOK(<<>>)
BY DEF ListOK, HasCode

\* The parts of the invariant after a step, in the types that were there before it.
LEMMA PartsAfter ==
    ASSUME prog' = prog
    PROVE  /\ ListOK(clist') /\ ListOK(nlist') => ListsOK'
           /\ contexts' \in Seq(Contexts)
              /\ (\A c \in DOMAIN contexts' :
                    contexts'[c].base <= Len(contexts'[c].stream) /\ HasCode(contexts'[c].threads))
              => ContextsOK'
<1>1. Threads' = Threads
  BY DEF Threads
<1>2. Contexts' = Contexts
  BY <1>1 DEF Contexts
<1>3. ASSUME ListOK(clist'), ListOK(nlist') PROVE ListsOK'
  BY <1>1, <1>3 DEF ListsOK, ListOK, HasCode
<1>4. ASSUME contexts' \in Seq(Contexts),
             \A c \in DOMAIN contexts' :
                contexts'[c].base <= Len(contexts'[c].stream) /\ HasCode(contexts'[c].threads)
      PROVE  ContextsOK'
  BY <1>2, <1>4 DEF ContextsOK, HasCode
<1>. QED  BY <1>3, <1>4

LEMMA PartsBefore == ASSUME IInv PROVE ContextsOK /\ ListOK(clist) /\ ListOK(nlist)
BY DEF IInv, TypeOK, ListOK, ContextsOK

\* The invariant from its parts.
LEMMA InvAfter ==
    ASSUME ContextsOK', ListsOK', (prog \in Images)',
           (/\ pcode \in {"none", "mapped"} /\ uniqThreads \in Nat
            /\ at \in {"idle", "first_buf", "sp_loop", "run_thread", "path"}
            /\ sp \in Nat /\ size \in Nat /\ eof \in BOOLEAN
            /\ at # "idle" =>
                /\ pcode = "mapped"
                /\ self \in DOMAIN contexts
                /\ This.base + size <= Len(This.stream)
                /\ sp <= size
            /\ ct \in Nat \ {0} /\ st \in Nat \ {0}
            /\ at = "path" =>
                ct <= Len(clist) /\ sp < size /\ prog.code[clist[ct].pc].op # "match"
            /\ added \subseteq prog.dups)'
    PROVE  IInv'
BY DEF IInv, TypeOK, ContextsOK, ListsOK

-----------------------------------------------------------------------------
(* What the running call works on. *)

LEMMA ThisType ==
    ASSUME IInv, at # "idle"
    PROVE  /\ self \in DOMAIN contexts /\ This \in Contexts
           /\ This.stream \in Streams /\ This.base \in Nat /\ Len(This.stream) \in Nat
           /\ size \in Nat /\ This.base + size <= Len(This.stream)
           /\ pcode = "mapped" /\ sp \in Nat /\ sp <= size
<1>1. self \in DOMAIN contexts /\ contexts \in Seq(Contexts)
  BY DEF IInv, TypeOK
<1>2. This \in Contexts
  BY <1>1, ElementOfSeq, LenProperties DEF This
<1>3. This.stream \in Streams /\ This.base \in Nat
  BY <1>2 DEF Contexts
<1>4. Len(This.stream) \in Nat
  BY <1>3, JITAssumption, LenProperties
<1>. QED  BY <1>1, <1>2, <1>3, <1>4 DEF IInv, TypeOK

\* A context is replaced, by one that has not been fed more than its stream.
LEMMA ContextsKept ==
    ASSUME IInv, prog' = prog, NEW c \in DOMAIN contexts, NEW new \in Contexts,
           new.base <= Len(new.stream), HasCode(new.threads),
           contexts' = [contexts EXCEPT ![c] = new]
    PROVE  ContextsOK' /\ DOMAIN contexts' = DOMAIN contexts /\ contexts'[c] = new
<1>1. ContextsOK
  BY PartsBefore
<1>2. /\ contexts' \in Seq(Contexts) /\ DOMAIN contexts' = DOMAIN contexts
      /\ contexts'[c] = new
      /\ \A d \in DOMAIN contexts : d # c => contexts'[d] = contexts[d]
  BY <1>1, ReplacedInSeq DEF ContextsOK
<1>3. \A d \in DOMAIN contexts' :
        contexts'[d].base <= Len(contexts'[d].stream) /\ HasCode(contexts'[d].threads)
  <2>1. SUFFICES ASSUME NEW d \in DOMAIN contexts'
                 PROVE  contexts'[d].base <= Len(contexts'[d].stream)
                        /\ HasCode(contexts'[d].threads)
    OBVIOUS
  <2>2. CASE d = c
    BY <1>2, <2>2
  <2>3. CASE d # c
    BY <1>1, <1>2, <2>3 DEF ContextsOK
  <2>. QED  BY <2>2, <2>3
<1>. QED  BY <1>2, <1>3, PartsAfter

\* The parts of the invariant that a step inside a call disturbs.
LEMMA InsideCall ==
    ASSUME IInv, at # "idle", UNCHANGED <<prog, native, contexts, self, size, eof>>,
           at' \in {"first_buf", "sp_loop", "run_thread", "path"},
           sp' \in Nat, sp' <= size, ct' \in Nat \ {0}, st' \in Nat \ {0},
           ListOK(clist'), ListOK(nlist'), added' \subseteq prog.dups,
           at' = "path" =>
               ct' <= Len(clist') /\ sp' < size /\ prog.code[clist'[ct'].pc].op # "match"
    PROVE  IInv'
<1>1. This' = This /\ IInv /\ TypeOK
  BY DEF This, IInv
<1>2. /\ pcode = "mapped" /\ self \in DOMAIN contexts /\ size \in Nat
      /\ This.base + size <= Len(This.stream)
  BY ThisType
<1>3. ListsOK'
  BY PartsAfter
<1>4. ContextsOK'
  <2>1. contexts' \in Seq(Contexts)
        /\ \A c \in DOMAIN contexts' :
             contexts'[c].base <= Len(contexts'[c].stream) /\ HasCode(contexts'[c].threads)
    BY PartsBefore DEF ContextsOK
  <2>. QED  BY <2>1, PartsAfter
<1>5. uniqThreads' \in Nat /\ eof' \in BOOLEAN /\ pcode' = "mapped"
  BY <1>1, <1>2 DEF TypeOK, native
<1>6. This'.base + size' <= Len(This'.stream) /\ self' \in DOMAIN contexts'
  BY <1>1, <1>2
<1>7. prog' \in Images
  BY DEF IInv
<1>8. /\ at' \in {"idle", "first_buf", "sp_loop", "run_thread", "path"}
      /\ size' \in Nat /\ sp' <= size' /\ added' \subseteq prog'.dups
      /\ at' = "path" =>
           ct' <= Len(clist') /\ sp' < size' /\ prog'.code[clist'[ct'].pc].op # "match"
  BY <1>2
<1>. QED  BY <1>3, <1>4, <1>5, <1>6, <1>7, <1>8, InvAfter

-----------------------------------------------------------------------------
(* The ends of a call. *)

LEMMA ReturnStep ==
    ASSUME IInv, at # "idle", NEW rc \in {"OK", "AGAIN", "DECLINED"},
           NEW threads, ListOK(threads), Return(rc, threads)
    PROVE  IInv'
<1>. DEFINE new == [This EXCEPT !.out = rc, !.threads = threads, !.base = This.base + size]
<1>1. /\ self \in DOMAIN contexts /\ This \in Contexts /\ This.base \in Nat /\ size \in Nat
      /\ This.base + size <= Len(This.stream)
  BY ThisType
<1>2. prog' = prog /\ native' = native /\ contexts' = [contexts EXCEPT ![self] = new]
  BY DEF Return, This
<1>3. /\ new \in Contexts /\ new.base <= Len(new.stream) /\ HasCode(new.threads)
  <2>1. threads \in Seq(Threads) /\ HasCode(threads)
    BY DEF ListOK
  <2>2. This.base + size \in Nat
    BY <1>1
  <2>3. new \in Contexts
    BY <1>1, <2>1, <2>2 DEF Contexts
  <2>4. new.base = This.base + size /\ new.stream = This.stream /\ new.threads = threads
    BY <1>1 DEF Contexts
  <2>. QED  BY <1>1, <2>1, <2>3, <2>4
<1>. HIDE DEF new
<1>4. ContextsOK'
  BY <1>1, <1>2, <1>3, ContextsKept
<1>5. ListsOK'
  <2>1. clist' = <<>> /\ nlist' = <<>>
    BY DEF Return
  <2>. QED  BY <1>2, <2>1, EmptyList, PartsAfter
<1>6. pcode' \in {"none", "mapped"} /\ uniqThreads' \in Nat /\ prog' \in Images
  BY <1>2 DEF IInv, TypeOK, native
<1>7. eof' \in BOOLEAN
  BY Zenon DEF Return
<1>8. /\ at' = "idle" /\ sp' \in Nat /\ size' \in Nat /\ ct' \in Nat \ {0} /\ st' \in Nat \ {0}
      /\ added' \subseteq prog'.dups
  BY DEF Return
<1>. QED  BY <1>4, <1>5, <1>6, <1>7, <1>8, InvAfter

-----------------------------------------------------------------------------
(* The caller's steps. *)

LEMMA JitStep ==
    ASSUME IInv, JitCompile \/ JitFree
    PROVE  IInv'
<1>1. /\ at = "idle" /\ UNCHANGED <<prog, contexts, at, exec, ct, st, lists>>
      /\ pcode' \in {"none", "mapped"} /\ uniqThreads' \in Nat
  <2>1. prog.uniq \in Nat
    BY IndexesAreCounted
  <2>. QED  BY <2>1 DEF JitCompile, JitFree, IInv, TypeOK
<1>2. UNCHANGED <<prog, contexts, at, self, sp, size, eof, ct, st, clist, nlist, added>>
  BY <1>1 DEF exec, lists
<1>3. ListsOK'
  BY <1>2, PartsBefore, PartsAfter
<1>4. ContextsOK'
  BY <1>2, PartsBefore, PartsAfter DEF ContextsOK
<1>5. sp \in Nat /\ size \in Nat /\ eof \in BOOLEAN /\ ct \in Nat \ {0} /\ st \in Nat \ {0}
      /\ added \subseteq prog.dups /\ prog \in Images
  BY DEF IInv, TypeOK
<1>. QED  BY <1>1, <1>2, <1>3, <1>4, <1>5, InvAfter

LEMMA CreateStep ==
    ASSUME IInv, CreateCtx
    PROVE  IInv'
<1>1. PICK s \in Streams :
        contexts' = Append(contexts, [stream |-> s, base |-> 0, out |-> "none",
                                      firstBuf |-> TRUE, capacity |-> Capacity,
                                      threads |-> <<>>])
  BY DEF CreateCtx
<1>. DEFINE new == [stream |-> s, base |-> 0, out |-> "none", firstBuf |-> TRUE,
                    capacity |-> Capacity, threads |-> <<>>]
<1>2. at = "idle" /\ UNCHANGED <<prog, native, at, exec, ct, st, lists>>
  BY DEF CreateCtx
<1>3. UNCHANGED <<prog, pcode, uniqThreads, at, self, sp, size, eof, ct, st, clist, nlist, added>>
  BY <1>2 DEF native, exec, lists
<1>4. Len(s) \in Nat
  BY JITAssumption, LenProperties
<1>5. new \in Contexts /\ new.base <= Len(new.stream) /\ HasCode(new.threads)
  BY <1>4, EmptyList DEF Contexts, Capacity, IInv, TypeOK, ListOK
<1>. HIDE DEF new
<1>6. contexts \in Seq(Contexts)
  BY DEF IInv, TypeOK
<1>7. /\ contexts' \in Seq(Contexts) /\ Len(contexts') = Len(contexts) + 1
      /\ \A d \in 1 .. Len(contexts) : contexts'[d] = contexts[d]
      /\ contexts'[Len(contexts) + 1] = new
  BY <1>1, <1>5, <1>6, AppendProperties DEF new
<1>8. DOMAIN contexts' = 1 .. Len(contexts) + 1 /\ DOMAIN contexts = 1 .. Len(contexts)
      /\ Len(contexts) \in Nat
  BY <1>6, <1>7, LenProperties
<1>9. ASSUME NEW d \in DOMAIN contexts'
      PROVE  contexts'[d].base <= Len(contexts'[d].stream) /\ HasCode(contexts'[d].threads)
  <2>1. CASE d \in DOMAIN contexts
    BY <1>7, <1>8, <2>1 DEF IInv, TypeOK
  <2>2. CASE d = Len(contexts) + 1
    BY <1>5, <1>7, <2>2
  <2>. QED  BY <1>8, <2>1, <2>2
<1>10. ContextsOK'
  BY <1>3, <1>7, <1>9, PartsAfter
<1>11. ListsOK'
  BY <1>3, PartsBefore, PartsAfter
<1>12. pcode \in {"none", "mapped"} /\ uniqThreads \in Nat /\ prog \in Images /\ sp \in Nat
       /\ size \in Nat /\ eof \in BOOLEAN /\ ct \in Nat \ {0} /\ st \in Nat \ {0}
       /\ added \subseteq prog.dups
  BY DEF IInv, TypeOK
<1>. QED  BY <1>2, <1>3, <1>10, <1>11, <1>12, InvAfter

LEMMA ExecStep ==
    ASSUME IInv, Exec
    PROVE  IInv'
<1>1. PICK c \in DOMAIN contexts :
        /\ \E chunk \in Chunks(c) : size' = chunk.size /\ eof' = chunk.eof
        /\ self' = c
        /\ at' = IF contexts[c].firstBuf THEN "first_buf" ELSE "sp_loop"
        /\ clist' = contexts[c].threads
        /\ contexts' = [contexts EXCEPT ![c].firstBuf = FALSE]
  BY DEF Exec
<1>. DEFINE new == [contexts[c] EXCEPT !.firstBuf = FALSE]
<1>2. contexts \in Seq(Contexts)
  BY DEF IInv, TypeOK
<1>3. /\ contexts[c] \in Contexts /\ HasCode(contexts[c].threads)
      /\ contexts[c].base <= Len(contexts[c].stream)
  <2>1. contexts[c] \in Contexts
    BY <1>2, ElementOfSeq, LenProperties
  <2>. QED  BY <2>1 DEF IInv, TypeOK
<1>4. Len(contexts[c].stream) \in Nat /\ contexts[c].base \in Nat
      /\ contexts[c].threads \in Seq(Threads)
  <2>1. contexts[c].stream \in Streams
    BY <1>3 DEF Contexts
  <2>. QED  BY <1>3, <2>1, JITAssumption, LenProperties DEF Contexts
<1>5. /\ size' \in Nat /\ eof' \in BOOLEAN
      /\ contexts[c].base + size' <= Len(contexts[c].stream)
  BY <1>1, <1>3, <1>4 DEF Chunks
<1>6. /\ new \in Contexts /\ new.base = contexts[c].base /\ new.stream = contexts[c].stream
      /\ new.threads = contexts[c].threads
  BY <1>3 DEF Contexts
<1>7. contexts' = [contexts EXCEPT ![c] = new] /\ prog' = prog /\ native' = native
  BY <1>1 DEF Exec
<1>. HIDE DEF new
<1>8. ContextsOK' /\ DOMAIN contexts' = DOMAIN contexts /\ contexts'[c] = new
  BY <1>3, <1>6, <1>7, ContextsKept
<1>9. This'.base + size' <= Len(This'.stream) /\ self' \in DOMAIN contexts'
  BY <1>1, <1>5, <1>6, <1>8 DEF This
<1>10. ListsOK'
  <2>1. nlist' = <<>> /\ clist' = contexts[c].threads
    BY <1>1 DEF Exec
  <2>. QED  BY <1>3, <1>4, <1>7, <2>1, EmptyList, PartsAfter DEF ListOK
<1>11. /\ pcode = "mapped" /\ sp' = 0 /\ ct' = 1 /\ st' = 1 /\ added' = {}
       /\ at' \in {"first_buf", "sp_loop"}
  BY <1>1 DEF Exec
<1>12. pcode' = "mapped" /\ uniqThreads' \in Nat /\ prog' \in Images
  BY <1>7, <1>11 DEF IInv, TypeOK, native
<1>13. sp' <= size'
  BY <1>5, <1>11
<1>. QED  BY <1>5, <1>8, <1>9, <1>10, <1>11, <1>12, <1>13, InvAfter

-----------------------------------------------------------------------------
(* The loop over the bytes, and over the threads. *)

LEMMA LoopStep ==
    ASSUME IInv, Loop
    PROVE  IInv'
<1>1. ListOK(clist) /\ ListOK(nlist) /\ ListOK(<<>>)
  BY PartsBefore, EmptyList
<1>2. ASSUME LoopEnd PROVE IInv'
  <2>1. at # "idle" /\ Return(IF eof THEN "DECLINED" ELSE "AGAIN", clist)
    BY <1>2 DEF LoopEnd
  <2>. QED  BY <1>1, <2>1, ReturnStep
<1>3. ASSUME RunCurThreads PROVE IInv'
  <2>1. /\ at # "idle" /\ at' = "run_thread" /\ ct' = 1 /\ added' = {}
        /\ UNCHANGED <<prog, native, contexts, self, size, eof, sp, st, clist, nlist>>
    BY <1>3 DEF RunCurThreads, exec
  <2>2. sp \in Nat /\ sp <= size /\ st \in Nat \ {0}
    BY <2>1, ThisType DEF IInv, TypeOK
  <2>. QED  BY <1>1, <2>1, <2>2, InsideCall
<1>4. ASSUME RunThreadsDone PROVE IInv'
  <2>1. at = "run_thread"
    BY <1>4 DEF RunThreadsDone
  <2>2. sp \in Nat /\ size \in Nat /\ sp <= size /\ ct \in Nat \ {0} /\ st \in Nat \ {0}
        /\ added \subseteq prog.dups
    BY <2>1, ThisType DEF IInv, TypeOK
  <2>3. CASE LastByte
    <3>1. Return(IF eof THEN "DECLINED" ELSE "AGAIN", nlist)
      BY <1>4, <2>3 DEF RunThreadsDone
    <3>. QED  BY <1>1, <2>1, <3>1, ReturnStep
  <2>4. CASE ~LastByte
    <3>1. /\ clist' = nlist /\ nlist' = <<>> /\ at' = "sp_loop" /\ sp' = sp + 1
          /\ UNCHANGED <<prog, native, contexts, self, size, eof, ct, st, added>>
      BY <1>4, <2>4 DEF RunThreadsDone
    <3>2. sp + 1 <= size
      BY <2>2, <2>4 DEF LastByte
    <3>. QED  BY <1>1, <2>1, <2>2, <3>1, <3>2, InsideCall
  <2>. QED  BY <2>3, <2>4
<1>. QED  BY <1>2, <1>3, <1>4 DEF Loop

LEMMA RunStep ==
    ASSUME IInv, Run
    PROVE  IInv'
<1>1. ListOK(clist) /\ ListOK(nlist)
  BY PartsBefore
<1>2. at = "run_thread" /\ ct <= Len(clist)
  BY DEF Run, RunNextThread, CallPath, CallMatch, AtThread
<1>3. /\ sp \in Nat /\ size \in Nat /\ sp <= size /\ ct \in Nat \ {0} /\ st \in Nat \ {0}
      /\ added \subseteq prog.dups
  BY <1>2, ThisType DEF IInv, TypeOK
<1>4. ASSUME RunNextThread PROVE IInv'
  <2>1. ct' = ct + 1 /\ UNCHANGED <<prog, native, contexts, at, exec, st, lists>>
    BY <1>4 DEF RunNextThread, NextThread
  <2>. QED  BY <1>1, <1>2, <1>3, <2>1, InsideCall DEF exec, lists
<1>5. ASSUME CallPath PROVE IInv'
  <2>1. /\ at' = "path" /\ st' = 1 /\ UNCHANGED <<prog, native, contexts, exec, ct, lists>>
        /\ prog.code[clist[ct].pc].op # "match" /\ ~LastByte
    BY <1>5 DEF CallPath, Consumes
  <2>2. sp < size
    BY <1>3, <2>1 DEF LastByte
  <2>. QED  BY <1>1, <1>2, <1>3, <2>1, <2>2, InsideCall DEF exec, lists
<1>6. ASSUME CallMatch PROVE IInv'
  <2>1. Return("OK", nlist)
    BY <1>6 DEF CallMatch
  <2>. QED  BY <1>1, <1>2, <2>1, ReturnStep
<1>. QED  BY <1>4, <1>5, <1>6 DEF Run

-----------------------------------------------------------------------------
(* Paths. *)

\* There is a path where the code is at one, and what its states lead to has code.
LEMMA PathIsSequence ==
    ASSUME IInv, OnPath
    PROVE  From \in DOMAIN prog.paths /\ Path \in Seq(PathStates)
           /\ DOMAIN Path = 1 .. Len(Path) /\ Len(Path) \in Nat
<1>1. WellFormedImage(prog)
  BY ImagesAssumption DEF IInv
<1>2. From \in DOMAIN prog.paths
  <2>1. CASE at = "first_buf"
    BY <1>1, <2>1 DEF From, WellFormedImage
  <2>2. CASE at = "path"
    <3>1. /\ clist \in Seq(Threads) /\ HasCode(clist) /\ ct \in Nat \ {0} /\ ct <= Len(clist)
          /\ prog.code[clist[ct].pc].op # "match"
      BY <2>2 DEF IInv, TypeOK
    <3>2. ct \in DOMAIN clist
      BY <3>1, LenProperties
    <3>. QED  BY <2>2, <3>1, <3>2 DEF HasCode, From
  <2>. QED  BY <2>1, <2>2 DEF OnPath
<1>3. Path \in Seq(PathStates)
  BY <1>1, <1>2 DEF WellFormedImage, Path, PathStates
<1>. QED  BY <1>2, <1>3, LenProperties

LEMMA PathType ==
    ASSUME IInv, OnPath, NEW n \in DOMAIN Path
    PROVE  /\ Path[n] \in PathStates
           /\ \/ prog.code[Path[n].pc].op = "match"
              \/ Path[n].pc \in DOMAIN prog.paths
<1>1. WellFormedImage(prog)
  BY ImagesAssumption DEF IInv
<1>2. From \in DOMAIN prog.paths /\ Path \in Seq(PathStates)
  BY PathIsSequence
<1>3. Path[n] \in PathStates
  BY <1>2, ElementOfSeq, LenProperties
<1>. QED  BY <1>1, <1>2, <1>3 DEF WellFormedImage, Path

LEMMA WalkStep ==
    ASSUME IInv, Walk
    PROVE  IInv'
<1>1. ListOK(clist) /\ ListOK(nlist)
  BY PartsBefore
<1>2. OnPath /\ at # "idle"
  BY DEF Walk, SkipState, StateMatches, AddThread, PathEnds, AtState, OnPath
<1>3. /\ sp \in Nat /\ size \in Nat /\ sp <= size /\ ct \in Nat \ {0} /\ st \in Nat \ {0}
      /\ added \subseteq prog.dups
      /\ at = "path" =>
            ct <= Len(clist) /\ sp < size /\ prog.code[clist[ct].pc].op # "match"
      /\ at \in {"first_buf", "path"}
  BY <1>2, ThisType DEF IInv, TypeOK, OnPath
<1>4. ASSUME SkipState PROVE IInv'
  <2>1. st' = st + 1 /\ UNCHANGED <<prog, native, contexts, at, exec, ct, lists>>
    BY <1>4 DEF SkipState
  <2>. QED  BY <1>1, <1>2, <1>3, <2>1, InsideCall DEF exec, lists
<1>5. ASSUME StateMatches PROVE IInv'
  <2>1. Return("OK", IF AtStart THEN clist ELSE nlist)
    BY <1>5 DEF StateMatches
  <2>. QED  BY <1>1, <1>2, <2>1, ReturnStep
<1>6. ASSUME AddThread PROVE IInv'
  <2>. DEFINE t == Thread(Path[st])
  <2>1. st \in DOMAIN Path
    <3>1. st <= Len(Path)
      BY <1>6 DEF AddThread, AtState
    <3>. QED  BY <1>2, <1>3, <3>1, PathIsSequence
  <2>2. /\ Path[st] \in PathStates
        /\ prog.code[Path[st].pc].op = "match" \/ Path[st].pc \in DOMAIN prog.paths
    BY <1>2, <2>1, PathType
  <2>3. t \in Threads /\ t.pc = Path[st].pc
    BY <2>2 DEF Thread, Threads, PathStates, IsWord
  <2>. HIDE DEF t
  <2>4. ListOK(Append(clist, t)) /\ ListOK(Append(nlist, t))
    BY <1>1, <2>2, <2>3, ListGrows
  <2>5. st' = st + 1 /\ UNCHANGED <<prog, native, contexts, at, exec, ct>>
    BY <1>6 DEF AddThread
  <2>6. CASE AtStart
    <3>1. clist' = Append(clist, t) /\ UNCHANGED <<nlist, added>> /\ at = "first_buf"
      BY <1>6, <2>6 DEF AddThread, t, AtStart
    <3>. QED  BY <1>1, <1>2, <1>3, <2>4, <2>5, <3>1, InsideCall DEF exec
  <2>7. CASE ~AtStart
    <3>1. /\ nlist' = Append(nlist, t) /\ clist' = clist
          /\ added' = added \cup ({ThreadIndex(Path[st])} \cap prog.dups)
      BY <1>6, <2>7 DEF AddThread, t
    <3>2. added' \subseteq prog.dups
      BY <1>3, <3>1
    <3>. QED  BY <1>1, <1>2, <1>3, <2>4, <2>5, <3>1, <3>2, InsideCall DEF exec
  <2>. QED  BY <2>6, <2>7
<1>7. ASSUME PathEnds PROVE IInv'
  <2>1. /\ at' \in {"sp_loop", "run_thread"} /\ ct' \in {ct, ct + 1} /\ st' = 1
        /\ UNCHANGED <<prog, native, contexts, exec, lists>>
    BY <1>7 DEF PathEnds, NextThread
  <2>. QED  BY <1>1, <1>2, <1>3, <2>1, InsideCall DEF exec, lists
<1>. QED  BY <1>4, <1>5, <1>6, <1>7 DEF Walk

-----------------------------------------------------------------------------
LEMMA InitIInv == Init => IInv
<1>. SUFFICES ASSUME Init PROVE IInv
  OBVIOUS
<1>1. HasCode(<<>>)
  BY EmptyList DEF ListOK
<1>2. prog \in Images
  BY DEF Init
<1>3. /\ contexts \in Seq(Contexts)
      /\ \A c \in DOMAIN contexts :
            contexts[c].base <= Len(contexts[c].stream) /\ HasCode(contexts[c].threads)
  BY DEF Init
<1>4. clist \in Seq(Threads) /\ nlist \in Seq(Threads) /\ HasCode(clist) /\ HasCode(nlist)
  BY <1>1 DEF Init
<1>5. eof \in BOOLEAN
  BY Zenon DEF Init
<1>6. /\ pcode = "none" /\ uniqThreads \in Nat /\ at = "idle" /\ sp \in Nat /\ size \in Nat
      /\ ct \in Nat \ {0} /\ st \in Nat \ {0} /\ added \subseteq prog.dups
  BY DEF Init
<1>. QED  BY <1>2, <1>3, <1>4, <1>5, <1>6 DEF IInv, TypeOK

LEMMA Step == IInv /\ [Next]_vars => IInv'
<1>. SUFFICES ASSUME IInv, [Next]_vars PROVE IInv'
  OBVIOUS
<1>1. CASE Caller
  BY <1>1, JitStep, CreateStep, ExecStep DEF Caller
<1>2. CASE Machine
  BY <1>2, LoopStep, RunStep, WalkStep DEF Machine
<1>3. CASE UNCHANGED vars
  <2>1. UNCHANGED <<prog, pcode, uniqThreads, contexts, at, self, sp, size, eof, ct, st,
                    clist, nlist, added>>
    BY <1>3 DEF vars, native, exec, lists
  <2>2. ListsOK'
    BY <2>1, PartsBefore, PartsAfter
  <2>3. ContextsOK'
    BY <2>1, PartsBefore, PartsAfter DEF ContextsOK
  <2>4. This' = This
    BY <2>1 DEF This
  <2>. QED  BY <2>1, <2>2, <2>3, <2>4, InvAfter DEF IInv, TypeOK
<1>. QED  BY <1>1, <1>2, <1>3 DEF Next

\* The machine code never runs a thread it has no code for, nor when it is not mapped,
\* reads no byte outside of the chunk, and has a bit for each thread it looks up.
THEOREM TypeCorrect == Spec => []TypeOK
<1>1. Init => IInv
  BY InitIInv
<1>2. IInv /\ [Next]_vars => IInv'
  BY Step
<1>3. IInv => TypeOK
  BY DEF IInv
<1>. QED  BY <1>1, <1>2, <1>3, PTL DEF Spec

-----------------------------------------------------------------------------
(* The lists fit.  A list has one thread of an index, so that there are no *)
(* more threads than the compiler counted.  What makes it so is not in the *)
(* code that appends, which looks only for the indexes that have a bit.    *)

\* The index of the state that a thread waits in.
Index(t) == <<t.pc, t.asserts>>

ThreadSpots == ThreadPlaces(prog.code, prog.paths)

\* Every thread has been counted, and there is one of an index.
ListSound(list) ==
    /\ \A n \in DOMAIN list : \E p \in ThreadSpots : IndexAt(prog.paths, p) = Index(list[n])
    /\ \A m, n \in DOMAIN list : Index(list[m]) = Index(list[n]) => m = n

\* A thread that has been added in this step by the place b of the path of thread a.
AddedFrom(t, a, b) ==
    /\ a \in DOMAIN clist
    /\ <<clist[a].pc, b>> \in ThreadSpots
    /\ IndexAt(prog.paths, <<clist[a].pc, b>>) = Index(t)
    /\ a < ct \/ (a = ct /\ at = "path" /\ b < st)

\* It has its bit set, or none because it comes from one place only.
Recorded(t) ==
    \/ Index(t) \in added
    \/ Index(t) \notin prog.dups /\ \E a \in Nat, b \in Nat : AddedFrom(t, a, b)

\* What the path from the start has added so far.
FromStart(t) ==
    \E b \in Nat : b \in DOMAIN prog.paths[0] /\ b < st /\ t.pc = prog.paths[0][b].pc

\* The lists that a context keeps are sound too, and it has none before its first call.
KeptSound(cs) ==
    \A c \in DOMAIN cs :
        /\ ListSound(cs[c].threads)
        /\ cs[c].firstBuf => cs[c].threads = <<>>

\* The lists of threads while there is a bit for all that could be added twice.
Once ==
    /\ KeptSound(contexts)
    /\ at # "idle" => ~This.firstBuf
    /\ ListSound(clist) /\ ListSound(nlist)
    /\ at \notin {"run_thread", "path"} => nlist = <<>>
    /\ at = "first_buf" => \A n \in DOMAIN clist : FromStart(clist[n])
    /\ at \in {"run_thread", "path"} => \A n \in DOMAIN nlist : Recorded(nlist[n])

\* Machine code and contexts are for as many threads as the compiler counted.
Sized ==
    /\ pcode = "mapped" => prog.uniq <= uniqThreads
    /\ \A c \in DOMAIN contexts : prog.uniq <= contexts[c].capacity

LEMMA EmptyIsSound == ListSound(<<>>)
BY DEF ListSound

\* A list with one thread of an index is no longer than there are indexes.
LEMMA SoundFits ==
    ASSUME IInv, NEW list \in Seq(Threads), ListSound(list)
    PROVE  Len(list) <= prog.uniq
<1>. DEFINE all == Indexes(prog.code, prog.paths)
            f   == [n \in 1 .. Len(list) |-> Index(list[n])]
<1>1. IsFiniteSet(all) /\ prog.uniq = Cardinality(all)
  BY IndexesAreCounted
<1>2. DOMAIN list = 1 .. Len(list) /\ Len(list) \in Nat
  BY LenProperties
<1>3. \A n \in 1 .. Len(list) : f[n] \in all
  BY <1>2 DEF ListSound, Indexes, ThreadSpots
<1>4. \A m, n \in 1 .. Len(list) : f[m] = f[n] => m = n
  BY <1>2 DEF ListSound
<1>5. f \in Injection(1 .. Len(list), all)
  <2>. HIDE DEF all
  <2>1. f \in [1 .. Len(list) -> all]
    BY <1>3
  <2>. HIDE DEF f
  <2>. QED  BY <1>4, <2>1, Fun_IsInj
<1>6. IsFiniteSet(1 .. Len(list)) /\ Cardinality(1 .. Len(list)) = Len(list)
  BY <1>2, FS_Interval
<1>7. Cardinality(1 .. Len(list)) <= Cardinality(all)
  <2>. HIDE DEF all, f
  <2>. QED  BY <1>1, <1>5, FS_Injection
<1>. QED  BY <1>1, <1>6, <1>7

\* A thread whose index is new is added to a list.
LEMMA SoundGrows ==
    ASSUME NEW list \in Seq(Threads), ListSound(list), NEW t \in Threads,
           \E p \in ThreadSpots : IndexAt(prog.paths, p) = Index(t),
           \A n \in DOMAIN list : Index(list[n]) # Index(t)
    PROVE  /\ ListSound(Append(list, t))
           /\ DOMAIN Append(list, t) = DOMAIN list \cup {Len(list) + 1}
           /\ \A n \in DOMAIN list : Append(list, t)[n] = list[n]
           /\ Append(list, t)[Len(list) + 1] = t
<1>. DEFINE more == Append(list, t)
<1>1. /\ more \in Seq(Threads) /\ Len(more) = Len(list) + 1
      /\ \A n \in 1 .. Len(list) : more[n] = list[n]
      /\ more[Len(list) + 1] = t
  BY AppendProperties
<1>2. /\ DOMAIN more = 1 .. Len(list) + 1 /\ DOMAIN list = 1 .. Len(list)
      /\ Len(list) \in Nat
  BY <1>1, LenProperties
<1>. HIDE DEF more
<1>3. \A n \in DOMAIN more : \E p \in ThreadSpots : IndexAt(prog.paths, p) = Index(more[n])
  <2>1. SUFFICES ASSUME NEW n \in DOMAIN more
                 PROVE  \E p \in ThreadSpots : IndexAt(prog.paths, p) = Index(more[n])
    OBVIOUS
  <2>2. CASE n \in DOMAIN list
    BY <1>1, <1>2, <2>2 DEF ListSound
  <2>3. CASE n = Len(list) + 1
    BY <1>1, <2>3
  <2>. QED  BY <1>2, <2>1, <2>2, <2>3
<1>4. \A m, n \in DOMAIN more : Index(more[m]) = Index(more[n]) => m = n
  <2>1. SUFFICES ASSUME NEW m \in DOMAIN more, NEW n \in DOMAIN more,
                        Index(more[m]) = Index(more[n])
                 PROVE  m = n
    OBVIOUS
  <2>2. CASE m \in DOMAIN list /\ n \in DOMAIN list
    BY <1>1, <1>2, <2>1, <2>2 DEF ListSound
  <2>3. CASE m \in DOMAIN list /\ n = Len(list) + 1
    BY <1>1, <1>2, <2>1, <2>3
  <2>4. CASE m = Len(list) + 1 /\ n \in DOMAIN list
    BY <1>1, <1>2, <2>1, <2>4
  <2>5. CASE m = Len(list) + 1 /\ n = Len(list) + 1
    BY <2>5
  <2>. QED  BY <1>2, <2>2, <2>3, <2>4, <2>5
<1>. QED  BY <1>1, <1>2, <1>3, <1>4 DEF ListSound, more

-----------------------------------------------------------------------------
(* The contexts, and the ends of a call. *)

LEMMA ProgKept == [Next]_vars => prog' = prog
BY DEF Next, Caller, Machine, Loop, Run, Walk, vars, JitCompile, JitFree, CreateCtx, Exec,
       LoopEnd, RunCurThreads, RunThreadsDone, RunNextThread, CallPath, CallMatch,
       SkipState, StateMatches, AddThread, PathEnds, Return

\* The invariant from its parts, in the terms of the program there was.
LEMMA OnceAfter ==
    ASSUME prog' = prog, KeptSound(contexts'),
           at' # "idle" => ~contexts'[self'].firstBuf,
           ListSound(clist'), ListSound(nlist'),
           at' \notin {"run_thread", "path"} => nlist' = <<>>,
           at' = "first_buf" => \A n \in DOMAIN clist' : FromStart(clist[n])',
           at' \in {"run_thread", "path"} => \A n \in DOMAIN nlist' : Recorded(nlist[n])'
    PROVE  Once'
<1>1. ListSound(clist)' /\ ListSound(nlist)'
  BY DEF ListSound, ThreadSpots
<1>2. KeptSound(contexts)'
  BY DEF KeptSound, ListSound, ThreadSpots
<1>3. at' # "idle" => ~This'.firstBuf
  BY DEF This
<1>. QED  BY <1>1, <1>2, <1>3 DEF Once

\* A context is replaced by one whose threads are sound.
LEMMA KeptAfter ==
    ASSUME IInv, KeptSound(contexts), NEW c \in DOMAIN contexts, NEW new \in Contexts,
           ListSound(new.threads), ~new.firstBuf,
           contexts' = [contexts EXCEPT ![c] = new]
    PROVE  KeptSound(contexts') /\ ~contexts'[c].firstBuf
<1>1. contexts \in Seq(Contexts)
  BY DEF IInv, TypeOK
<1>2. /\ DOMAIN contexts' = DOMAIN contexts /\ contexts'[c] = new
      /\ \A d \in DOMAIN contexts : d # c => contexts'[d] = contexts[d]
  BY <1>1, ReplacedInSeq
<1>3. SUFFICES ASSUME NEW d \in DOMAIN contexts'
               PROVE  /\ ListSound(contexts'[d].threads)
                      /\ contexts'[d].firstBuf => contexts'[d].threads = <<>>
  BY <1>2 DEF KeptSound
<1>4. CASE d = c
  BY <1>2, <1>4
<1>5. CASE d # c
  BY <1>2, <1>5 DEF KeptSound
<1>. QED  BY <1>4, <1>5

LEMMA ReturnKeepsOnce ==
    ASSUME IInv, Once, at # "idle", NEW rc \in {"OK", "AGAIN", "DECLINED"},
           NEW threads \in Seq(Threads), ListSound(threads), Return(rc, threads)
    PROVE  Once'
<1>. DEFINE new == [This EXCEPT !.out = rc, !.threads = threads, !.base = This.base + size]
<1>1. /\ self \in DOMAIN contexts /\ This \in Contexts /\ This.base \in Nat /\ size \in Nat
  BY ThisType
<1>2. prog' = prog /\ contexts' = [contexts EXCEPT ![self] = new]
  BY DEF Return, This
<1>3. ~This.firstBuf /\ KeptSound(contexts)
  BY DEF Once
<1>4. new \in Contexts /\ new.threads = threads /\ ~new.firstBuf
  <2>1. This.base + size \in Nat /\ rc \in {"none", "OK", "AGAIN", "DECLINED"}
    BY <1>1
  <2>2. new \in Contexts
    BY <1>1, <2>1 DEF Contexts
  <2>3. new.threads = threads
    BY <1>1 DEF Contexts
  <2>4. ~new.firstBuf
    BY <1>1, <1>3 DEF Contexts
  <2>. QED  BY <2>2, <2>3, <2>4
<1>. HIDE DEF new
<1>5. KeptSound(contexts')
  BY <1>1, <1>2, <1>3, <1>4, KeptAfter
<1>6. at' = "idle" /\ clist' = <<>> /\ nlist' = <<>>
  BY DEF Return
<1>. QED  BY <1>2, <1>5, <1>6, EmptyIsSound, OnceAfter

LEMMA CallerKeepsOnce ==
    ASSUME IInv, Once, Caller
    PROVE  Once'
<1>1. prog' = prog
  BY ProgKept DEF Next
<1>2. KeptSound(contexts) /\ ListSound(clist) /\ ListSound(nlist)
  BY DEF Once
<1>3. contexts \in Seq(Contexts)
  BY DEF IInv, TypeOK
<1>4. ASSUME JitCompile \/ JitFree PROVE Once'
  <2>1. at = "idle" /\ UNCHANGED <<contexts, at, clist, nlist>>
    BY <1>4 DEF JitCompile, JitFree, lists
  <2>2. nlist = <<>>
    BY <2>1 DEF Once
  <2>. QED  BY <1>1, <1>2, <2>1, <2>2, OnceAfter
<1>5. ASSUME CreateCtx PROVE Once'
  <2>1. PICK s \in Streams :
          contexts' = Append(contexts, [stream |-> s, base |-> 0, out |-> "none",
                                        firstBuf |-> TRUE, capacity |-> Capacity,
                                        threads |-> <<>>])
    BY <1>5 DEF CreateCtx
  <2>. DEFINE new == [stream |-> s, base |-> 0, out |-> "none", firstBuf |-> TRUE,
                      capacity |-> Capacity, threads |-> <<>>]
  <2>2. at = "idle" /\ UNCHANGED <<at, clist, nlist>>
    BY <1>5 DEF CreateCtx, lists
  <2>3. new \in Contexts /\ new.threads = <<>>
    BY DEF Contexts, Capacity, IInv, TypeOK
  <2>. HIDE DEF new
  <2>4. /\ contexts' \in Seq(Contexts) /\ Len(contexts') = Len(contexts) + 1
        /\ \A d \in 1 .. Len(contexts) : contexts'[d] = contexts[d]
        /\ contexts'[Len(contexts) + 1] = new
    BY <1>3, <2>1, <2>3, AppendProperties DEF new
  <2>5. DOMAIN contexts' = 1 .. Len(contexts) + 1 /\ DOMAIN contexts = 1 .. Len(contexts)
        /\ Len(contexts) \in Nat
    BY <1>3, <2>4, LenProperties
  <2>6. ASSUME NEW d \in DOMAIN contexts'
        PROVE  /\ ListSound(contexts'[d].threads)
               /\ contexts'[d].firstBuf => contexts'[d].threads = <<>>
    <3>1. CASE d \in DOMAIN contexts
      BY <1>2, <2>4, <2>5, <3>1 DEF KeptSound
    <3>2. CASE d = Len(contexts) + 1
      BY <2>3, <2>4, <3>2, EmptyIsSound
    <3>. QED  BY <2>5, <3>1, <3>2
  <2>7. KeptSound(contexts')
    BY <2>6 DEF KeptSound
  <2>8. nlist = <<>>
    BY <2>2 DEF Once
  <2>. QED  BY <1>1, <1>2, <2>2, <2>7, <2>8, OnceAfter
<1>6. ASSUME Exec PROVE Once'
  <2>1. PICK c \in DOMAIN contexts :
          /\ self' = c
          /\ at' = IF contexts[c].firstBuf THEN "first_buf" ELSE "sp_loop"
          /\ clist' = contexts[c].threads
          /\ contexts' = [contexts EXCEPT ![c].firstBuf = FALSE]
          /\ nlist' = <<>>
    BY <1>6 DEF Exec
  <2>. DEFINE new == [contexts[c] EXCEPT !.firstBuf = FALSE]
  <2>2. contexts[c] \in Contexts
    BY <1>3, ElementOfSeq, LenProperties
  <2>3. new \in Contexts /\ ~new.firstBuf /\ new.threads = contexts[c].threads
    BY <2>2 DEF Contexts
  <2>4. contexts' = [contexts EXCEPT ![c] = new]
    BY <2>1
  <2>. HIDE DEF new
  <2>5. ListSound(contexts[c].threads)
        /\ (contexts[c].firstBuf => contexts[c].threads = <<>>)
    BY <1>2 DEF KeptSound
  <2>6. KeptSound(contexts') /\ ~contexts'[c].firstBuf
    BY <1>2, <2>3, <2>4, <2>5, KeptAfter
  <2>7. at' \notin {"run_thread", "path"} /\ (at' = "first_buf" => clist' = <<>>)
    BY <2>1, <2>5
  <2>8. at' = "first_buf" => \A n \in DOMAIN clist' : FromStart(clist[n])'
    BY <2>7
  <2>. QED  BY <1>1, <2>1, <2>5, <2>6, <2>7, <2>8, EmptyIsSound, OnceAfter
<1>. QED  BY <1>4, <1>5, <1>6 DEF Caller

-----------------------------------------------------------------------------
(* Inside a call. *)

\* A step that leaves the contexts as they are.
LEMMA InsideKeepsOnce ==
    ASSUME Once, at # "idle", UNCHANGED <<prog, contexts, self>>,
           ListSound(clist'), ListSound(nlist'),
           at' \notin {"run_thread", "path"} => nlist' = <<>>,
           at' = "first_buf" => \A n \in DOMAIN clist' : FromStart(clist[n])',
           at' \in {"run_thread", "path"} => \A n \in DOMAIN nlist' : Recorded(nlist[n])'
    PROVE  Once'
<1>1. KeptSound(contexts') /\ ~contexts'[self'].firstBuf
  BY DEF Once, This
<1>. QED  BY <1>1, OnceAfter

\* What has been recorded stays so while the code goes on from state to state and from
\* thread to thread.
LEMMA RecordedOn ==
    ASSUME IInv, at \in {"run_thread", "path"}, at' \in {"run_thread", "path"},
           UNCHANGED <<prog, clist>>, added \subseteq added',
           \/ ct' > ct
           \/ ct' = ct /\ (at = "path" => at' = "path" /\ st' >= st),
           ct' \in Nat, st' \in Nat,
           NEW n \in DOMAIN nlist, nlist'[n] = nlist[n], Recorded(nlist[n])
    PROVE  Recorded(nlist[n])'
<1>1. CASE Index(nlist[n]) \in added
  BY <1>1 DEF Recorded, Index
<1>2. ASSUME Index(nlist[n]) \notin prog.dups,
             NEW a \in Nat, NEW b \in Nat, AddedFrom(nlist[n], a, b)
      PROVE  Recorded(nlist[n])'
  <2>1. ct \in Nat /\ st \in Nat
    BY DEF IInv, TypeOK
  <2>2. a < ct' \/ (a = ct' /\ at' = "path" /\ b < st')
    <3>1. a < ct \/ (a = ct /\ at = "path" /\ b < st)
      BY <1>2 DEF AddedFrom
    <3>. QED  BY <2>1, <3>1
  <2>3. AddedFrom(nlist[n], a, b)'
    BY <1>2, <2>2 DEF AddedFrom, ThreadSpots, Index
  <2>. QED  BY <1>2, <2>3 DEF Recorded, Index
<1>. QED  BY <1>1, <1>2 DEF Recorded

LEMMA LoopKeepsOnce ==
    ASSUME IInv, Once, Loop
    PROVE  Once'
<1>1. clist \in Seq(Threads) /\ nlist \in Seq(Threads) /\ ListSound(clist) /\ ListSound(nlist)
  BY DEF IInv, TypeOK, Once
<1>2. ASSUME LoopEnd PROVE Once'
  <2>1. at # "idle" /\ Return(IF eof THEN "DECLINED" ELSE "AGAIN", clist)
    BY <1>2 DEF LoopEnd
  <2>. QED  BY <1>1, <2>1, ReturnKeepsOnce
<1>3. ASSUME RunCurThreads PROVE Once'
  <2>1. /\ at = "sp_loop" /\ at' = "run_thread"
        /\ UNCHANGED <<prog, contexts, self, clist, nlist>>
    BY <1>3 DEF RunCurThreads, exec
  <2>2. nlist' = <<>>
    BY <2>1 DEF Once
  <2>3. \A n \in DOMAIN nlist' : Recorded(nlist[n])'
    BY <2>2
  <2>. QED  BY <1>1, <2>1, <2>2, <2>3, InsideKeepsOnce
<1>4. ASSUME RunThreadsDone PROVE Once'
  <2>1. at = "run_thread"
    BY <1>4 DEF RunThreadsDone
  <2>2. CASE LastByte
    <3>1. Return(IF eof THEN "DECLINED" ELSE "AGAIN", nlist)
      BY <1>4, <2>2 DEF RunThreadsDone
    <3>. QED  BY <1>1, <2>1, <3>1, ReturnKeepsOnce
  <2>3. CASE ~LastByte
    <3>1. /\ clist' = nlist /\ nlist' = <<>> /\ at' = "sp_loop"
          /\ UNCHANGED <<prog, contexts, self>>
      BY <1>4, <2>3 DEF RunThreadsDone
    <3>. QED  BY <1>1, <2>1, <3>1, EmptyIsSound, InsideKeepsOnce
  <2>. QED  BY <2>2, <2>3
<1>. QED  BY <1>2, <1>3, <1>4 DEF Loop

LEMMA RunKeepsOnce ==
    ASSUME IInv, Once, Run
    PROVE  Once'
<1>1. nlist \in Seq(Threads) /\ ListSound(clist) /\ ListSound(nlist)
  BY DEF IInv, TypeOK, Once
<1>2. at = "run_thread" /\ ct \in Nat /\ st \in Nat
  BY DEF Run, RunNextThread, CallPath, CallMatch, AtThread, IInv, TypeOK
<1>3. \A n \in DOMAIN nlist : Recorded(nlist[n])
  BY <1>2 DEF Once
<1>4. ASSUME RunNextThread PROVE Once'
  <2>1. /\ ct' = ct + 1 /\ st' = st /\ at' = "run_thread"
        /\ UNCHANGED <<prog, contexts, self, clist, nlist, added>>
    BY <1>2, <1>4 DEF RunNextThread, NextThread, exec, lists
  <2>2. \A n \in DOMAIN nlist' : Recorded(nlist[n])'
    BY <1>2, <1>3, <2>1, RecordedOn
  <2>. QED  BY <1>1, <1>2, <2>1, <2>2, InsideKeepsOnce
<1>5. ASSUME CallPath PROVE Once'
  <2>1. /\ ct' = ct /\ st' = 1 /\ at' = "path"
        /\ UNCHANGED <<prog, contexts, self, clist, nlist, added>>
    BY <1>5 DEF CallPath, exec, lists
  <2>2. \A n \in DOMAIN nlist' : Recorded(nlist[n])'
    BY <1>2, <1>3, <2>1, RecordedOn
  <2>. QED  BY <1>1, <1>2, <2>1, <2>2, InsideKeepsOnce
<1>6. ASSUME CallMatch PROVE Once'
  <2>1. Return("OK", nlist)
    BY <1>6 DEF CallMatch
  <2>. QED  BY <1>1, <1>2, <2>1, ReturnKeepsOnce
<1>. QED  BY <1>4, <1>5, <1>6 DEF Run

\* The state that the code is at is a place of the image, if a thread is to wait there.
LEMMA AtPlace ==
    ASSUME IInv, OnPath, st \in DOMAIN Path, ~Matched(Path[st])
    PROVE  /\ <<From, st>> \in ThreadSpots
           /\ IndexAt(prog.paths, <<From, st>>) = ThreadIndex(Path[st])
           /\ Index(Thread(Path[st])) = ThreadIndex(Path[st])
           /\ Thread(Path[st]).pc = Path[st].pc
<1>1. From \in DOMAIN prog.paths
  BY PathIsSequence
<1>2. <<From, st>> \in UNION {{pc} \X DOMAIN prog.paths[pc] : pc \in DOMAIN prog.paths}
  BY <1>1 DEF Path
<1>3. IsThread(prog.code, prog.paths[From][st])
  BY DEF Matched, Path
<1>4. <<From, st>> \in ThreadSpots
  BY <1>2, <1>3 DEF ThreadSpots, ThreadPlaces
<1>5. IndexAt(prog.paths, <<From, st>>) = ThreadIndex(Path[st])
  BY DEF IndexAt, Path
<1>. QED  BY <1>4, <1>5 DEF Index, Thread, ThreadIndex

\* No two places add threads of one index without a bit.
LEMMA OnePlace ==
    ASSUME IInv, NEW p \in ThreadSpots, NEW q \in ThreadSpots,
           IndexAt(prog.paths, p) = IndexAt(prog.paths, q),
           IndexAt(prog.paths, p) \notin prog.dups
    PROVE  p = q
<1>1. WellFormedImage(prog)
  BY ImagesAssumption DEF IInv
<1>. QED  BY <1>1 DEF WellFormedImage, ThreadSpots

\* In the list, the thread whose path adds an index without a bit is the only one at its pc.
LEMMA OneRunsIt ==
    ASSUME RepeatsHaveBits(prog), ListSound(clist),
           NEW a \in DOMAIN clist, NEW c \in DOMAIN clist, clist[a].pc = clist[c].pc,
           NEW b, <<clist[c].pc, b>> \in ThreadSpots,
           IndexAt(prog.paths, <<clist[c].pc, b>>) \notin prog.dups
    PROVE  a = c
<1>1. PICK p \in ThreadSpots : IndexAt(prog.paths, p) = Index(clist[a])
  BY DEF ListSound
<1>2. PICK q \in ThreadSpots : IndexAt(prog.paths, q) = Index(clist[c])
  BY DEF ListSound
<1>3. prog.paths[p[1]][p[2]].pc = clist[a].pc /\ prog.paths[q[1]][q[2]].pc = clist[c].pc
  BY <1>1, <1>2 DEF IndexAt, ThreadIndex, Index
<1>4. IndexAt(prog.paths, p) = IndexAt(prog.paths, q)
  BY <1>3 DEF RepeatsHaveBits, ThreadSpots
<1>. QED  BY <1>1, <1>2, <1>4 DEF ListSound

\* What the path of a thread adds is not yet in the list.
LEMMA NewToList ==
    ASSUME IInv, Once, RepeatsHaveBits(prog), at = "path", st \in DOMAIN Path,
           ~Matched(Path[st]), ~AddedBefore(Path[st]), NEW n \in DOMAIN nlist
    PROVE  Index(nlist[n]) # Index(Thread(Path[st]))
<1>. DEFINE here == <<From, st>>
<1>1. /\ here \in ThreadSpots /\ IndexAt(prog.paths, here) = ThreadIndex(Path[st])
      /\ Index(Thread(Path[st])) = ThreadIndex(Path[st])
  BY AtPlace DEF OnPath
<1>2. Recorded(nlist[n]) /\ ListSound(clist)
  BY DEF Once
<1>3. ThreadIndex(Path[st]) \notin added
  BY DEF AddedBefore, AtStart
<1>4. ct \in Nat /\ ct \in DOMAIN clist /\ From = clist[ct].pc /\ st \in Nat
  <2>1. ct \in Nat \ {0} /\ ct <= Len(clist) /\ clist \in Seq(Threads) /\ st \in Nat
    BY DEF IInv, TypeOK
  <2>. QED  BY <2>1, LenProperties DEF From
<1>. SUFFICES ASSUME Index(nlist[n]) = ThreadIndex(Path[st]) PROVE FALSE
  BY <1>1
<1>5. PICK a \in Nat, b \in Nat :
        Index(nlist[n]) \notin prog.dups /\ AddedFrom(nlist[n], a, b)
  BY <1>2, <1>3 DEF Recorded
<1>6. /\ a \in DOMAIN clist /\ <<clist[a].pc, b>> \in ThreadSpots
      /\ IndexAt(prog.paths, <<clist[a].pc, b>>) = Index(nlist[n])
      /\ a < ct \/ (a = ct /\ b < st)
  BY <1>5 DEF AddedFrom
<1>7. <<clist[a].pc, b>> = here
  BY <1>1, <1>5, <1>6, OnePlace
<1>8. clist[a].pc = clist[ct].pc /\ b = st
  BY <1>4, <1>7
<1>9. a = ct
  BY <1>1, <1>2, <1>4, <1>5, <1>6, <1>8, OneRunsIt
<1>. QED  BY <1>4, <1>6, <1>8, <1>9

\* What the path from the start adds is not yet in the list: it sees an instruction once.
LEMMA NewAtStart ==
    ASSUME IInv, Once, at = "first_buf", st \in DOMAIN Path, NEW n \in DOMAIN clist
    PROVE  Index(clist[n]) # Index(Thread(Path[st]))
<1>1. WellFormedImage(prog)
  BY ImagesAssumption DEF IInv
<1>2. Path = prog.paths[0] /\ 0 \in DOMAIN prog.paths
  BY <1>1 DEF Path, From, WellFormedImage
<1>3. PICK b \in Nat :
        b \in DOMAIN prog.paths[0] /\ b < st /\ clist[n].pc = prog.paths[0][b].pc
  BY DEF Once, FromStart
<1>4. st \in Nat
  BY DEF IInv, TypeOK
<1>5. prog.paths[0][b].pc # Path[st].pc
  BY <1>1, <1>2, <1>3, <1>4 DEF WellFormedImage
<1>6. Thread(Path[st]).pc = Path[st].pc
  BY DEF Thread
<1>. QED  BY <1>3, <1>5, <1>6 DEF Index

LEMMA WalkKeepsOnce ==
    ASSUME IInv, Once, RepeatsHaveBits(prog), Walk
    PROVE  Once'
<1>1. /\ clist \in Seq(Threads) /\ nlist \in Seq(Threads)
      /\ ListSound(clist) /\ ListSound(nlist)
  BY DEF IInv, TypeOK, Once
<1>2. OnPath /\ at # "idle" /\ at \in {"first_buf", "path"} /\ ct \in Nat /\ st \in Nat
  BY DEF Walk, SkipState, StateMatches, AddThread, PathEnds, AtState, OnPath, IInv, TypeOK
<1>3. /\ at = "first_buf" => nlist = <<>> /\ \A n \in DOMAIN clist : FromStart(clist[n])
      /\ at = "path" => \A n \in DOMAIN nlist : Recorded(nlist[n])
  BY DEF Once
<1>4. ASSUME SkipState PROVE Once'
  <2>1. st' = st + 1 /\ UNCHANGED <<prog, contexts, self, at, ct, clist, nlist, added>>
    BY <1>4 DEF SkipState, exec, lists
  <2>2. at' = "first_buf" => \A n \in DOMAIN clist' : FromStart(clist[n])'
    BY <1>2, <1>3, <2>1 DEF FromStart
  <2>3. at' = "path" => \A n \in DOMAIN nlist' : Recorded(nlist[n])'
    BY <1>2, <1>3, <2>1, RecordedOn
  <2>. QED  BY <1>1, <1>2, <1>3, <2>1, <2>2, <2>3, InsideKeepsOnce
<1>5. ASSUME StateMatches PROVE Once'
  <2>1. Return("OK", IF AtStart THEN clist ELSE nlist)
    BY <1>5 DEF StateMatches
  <2>. QED  BY <1>1, <1>2, <2>1, ReturnKeepsOnce
<1>6. ASSUME AddThread PROVE Once'
  <2>. DEFINE t == Thread(Path[st])
  <2>1. /\ st \in DOMAIN Path /\ ~Matched(Path[st]) /\ ~AddedBefore(Path[st]) /\ st' = st + 1
        /\ UNCHANGED <<prog, contexts, self, at, ct>>
    <3>1. st \in Nat \ {0} /\ st <= Len(Path)
      BY <1>6 DEF AddThread, AtState, IInv, TypeOK
    <3>2. st \in DOMAIN Path
      BY <1>2, <3>1, PathIsSequence
    <3>. QED  BY <1>6, <3>2 DEF AddThread, exec
  <2>2. t \in Threads /\ t.pc = Path[st].pc
    BY <1>2, <2>1, PathType DEF Thread, Threads, PathStates, IsWord
  <2>3. /\ <<From, st>> \in ThreadSpots /\ IndexAt(prog.paths, <<From, st>>) = ThreadIndex(Path[st])
        /\ Index(t) = ThreadIndex(Path[st])
    BY <1>2, <2>1, AtPlace
  <2>4. \E p \in ThreadSpots : IndexAt(prog.paths, p) = Index(t)
    BY <2>3
  <2>. HIDE DEF t
  <2>5. CASE at = "first_buf"
    <3>1. clist' = Append(clist, t) /\ UNCHANGED <<nlist, added>>
      BY <1>6, <2>5 DEF AddThread, t, AtStart
    <3>2. \A n \in DOMAIN clist : Index(clist[n]) # Index(t)
      BY <2>1, <2>5, NewAtStart DEF t
    <3>3. /\ ListSound(clist') /\ DOMAIN clist' = DOMAIN clist \cup {Len(clist) + 1}
          /\ \A n \in DOMAIN clist : clist'[n] = clist[n]
          /\ clist'[Len(clist) + 1] = t
      BY <1>1, <2>2, <2>4, <3>1, <3>2, SoundGrows
    <3>4. ASSUME NEW n \in DOMAIN clist' PROVE FromStart(clist[n])'
      <4>1. CASE n \in DOMAIN clist
        BY <1>2, <1>3, <2>1, <2>5, <3>3, <4>1 DEF FromStart
      <4>2. CASE n = Len(clist) + 1
        BY <1>2, <2>1, <2>2, <2>5, <3>3, <4>2 DEF FromStart, Path, From
      <4>. QED  BY <3>3, <4>1, <4>2
    <3>. QED  BY <1>1, <1>2, <1>3, <2>1, <2>5, <3>1, <3>3, <3>4, InsideKeepsOnce
  <2>6. CASE at = "path"
    <3>1. /\ nlist' = Append(nlist, t) /\ clist' = clist
          /\ added' = added \cup ({ThreadIndex(Path[st])} \cap prog.dups)
      BY <1>6, <2>6 DEF AddThread, t, AtStart
    <3>2. \A n \in DOMAIN nlist : Index(nlist[n]) # Index(t)
      BY <2>1, <2>6, NewToList DEF t
    <3>3. /\ ListSound(nlist') /\ DOMAIN nlist' = DOMAIN nlist \cup {Len(nlist) + 1}
          /\ \A n \in DOMAIN nlist : nlist'[n] = nlist[n]
          /\ nlist'[Len(nlist) + 1] = t
      BY <1>1, <2>2, <2>4, <3>1, <3>2, SoundGrows
    <3>4. ASSUME NEW n \in DOMAIN nlist' PROVE Recorded(nlist[n])'
      <4>1. CASE n \in DOMAIN nlist
        BY <1>2, <1>3, <2>1, <2>6, <3>1, <3>3, <4>1, RecordedOn
      <4>2. CASE n = Len(nlist) + 1
        <5>1. Index(nlist'[n]) = ThreadIndex(Path[st])
          BY <2>3, <3>3, <4>2
        <5>2. CASE ThreadIndex(Path[st]) \in prog.dups
          BY <3>1, <5>1, <5>2 DEF Recorded, Index
        <5>3. CASE ThreadIndex(Path[st]) \notin prog.dups
          <6>1. ct \in DOMAIN clist /\ From = clist[ct].pc
            <7>1. ct \in Nat \ {0} /\ ct <= Len(clist)
              BY <2>6 DEF IInv, TypeOK
            <7>. QED  BY <1>1, <2>6, <7>1, LenProperties DEF From
          <6>2. PICK a \in Nat, b \in Nat : a = ct /\ b = st
            BY <1>2
          <6>3. AddedFrom(nlist[n], a, b)'
            <7>1. ct' = ct /\ at' = "path" /\ clist' = clist /\ prog' = prog /\ st' = b + 1
              BY <2>1, <2>6, <3>1, <6>2
            <7>2. <<clist[a].pc, b>> \in ThreadSpots
                  /\ IndexAt(prog.paths, <<clist[a].pc, b>>) = Index(nlist'[n])
              BY <2>3, <5>1, <6>1, <6>2
            <7>. QED  BY <6>1, <6>2, <7>1, <7>2 DEF AddedFrom, ThreadSpots, Index
          <6>. QED  BY <2>1, <5>1, <5>3, <6>3 DEF Recorded, Index
        <5>. QED  BY <5>2, <5>3
      <4>. QED  BY <3>3, <4>1, <4>2
    <3>. QED  BY <1>1, <1>2, <2>1, <2>6, <3>1, <3>3, <3>4, InsideKeepsOnce
  <2>. QED  BY <1>2, <2>5, <2>6
<1>7. ASSUME PathEnds PROVE Once'
  <2>1. st' = 1 /\ UNCHANGED <<prog, contexts, self, clist, nlist, added>>
    BY <1>7 DEF PathEnds, exec, lists
  <2>2. CASE at = "first_buf"
    <3>1. at' = "sp_loop"
      BY <1>7, <2>2 DEF PathEnds, AtStart
    <3>. QED  BY <1>1, <1>2, <1>3, <2>1, <2>2, <3>1, InsideKeepsOnce
  <2>3. CASE at = "path"
    <3>1. at' = "run_thread" /\ ct' = ct + 1
      BY <1>7, <2>3 DEF PathEnds, AtStart, NextThread
    <3>2. \A n \in DOMAIN nlist' : Recorded(nlist[n])'
      BY <1>2, <1>3, <2>1, <2>3, <3>1, RecordedOn
    <3>. QED  BY <1>1, <1>2, <2>1, <3>1, <3>2, InsideKeepsOnce
  <2>. QED  BY <1>2, <2>2, <2>3
<1>. QED  BY <1>4, <1>5, <1>6, <1>7 DEF Walk

LEMMA OnceStep == IInv /\ Once /\ RepeatsHaveBits(prog) /\ [Next]_vars => Once'
<1>. SUFFICES ASSUME IInv, Once, RepeatsHaveBits(prog), [Next]_vars PROVE Once'
  OBVIOUS
<1>1. CASE Caller
  BY <1>1, CallerKeepsOnce
<1>2. CASE Machine
  BY <1>2, LoopKeepsOnce, RunKeepsOnce, WalkKeepsOnce DEF Machine
<1>3. CASE UNCHANGED vars
  <2>1. UNCHANGED <<prog, contexts, at, self, ct, st, clist, nlist, added>>
    BY <1>3 DEF vars, exec, lists
  <2>2. /\ KeptSound(contexts') /\ ListSound(clist') /\ ListSound(nlist')
        /\ at' # "idle" => ~contexts'[self'].firstBuf
    BY <2>1 DEF Once, This
  <2>3. at' \notin {"run_thread", "path"} => nlist' = <<>>
    BY <2>1 DEF Once
  <2>4. at' = "first_buf" => \A n \in DOMAIN clist' : FromStart(clist[n])'
    BY <2>1 DEF Once, FromStart
  <2>5. at' \in {"run_thread", "path"} => \A n \in DOMAIN nlist' : Recorded(nlist[n])'
    BY <2>1 DEF Once, Recorded, AddedFrom, ThreadSpots, Index
  <2>. QED  BY <2>1, <2>2, <2>3, <2>4, <2>5, OnceAfter
<1>. QED  BY <1>1, <1>2, <1>3 DEF Next

-----------------------------------------------------------------------------
(* The entries there are for them. *)

LEMMA SizedStep == IInv /\ Sized /\ [Next]_vars => Sized'
<1>. SUFFICES ASSUME IInv, Sized, [Next]_vars PROVE Sized'
  OBVIOUS
<1>1. prog' = prog /\ prog.uniq \in Nat /\ uniqThreads \in Nat /\ contexts \in Seq(Contexts)
  BY ProgKept, IndexesAreCounted DEF IInv, TypeOK
<1>2. CASE JitCompile
  <2>1. contexts' = contexts
        /\ (pcode' = "mapped" => uniqThreads' = uniqThreads + prog.uniq)
    BY <1>2 DEF JitCompile
  <2>. QED  BY <1>1, <2>1 DEF Sized
<1>3. CASE JitFree
  BY <1>1, <1>3 DEF JitFree, Sized
<1>4. CASE CreateCtx
  <2>1. PICK s \in Streams :
          contexts' = Append(contexts, [stream |-> s, base |-> 0, out |-> "none",
                                        firstBuf |-> TRUE, capacity |-> Capacity,
                                        threads |-> <<>>])
    BY <1>4 DEF CreateCtx
  <2>. DEFINE new == [stream |-> s, base |-> 0, out |-> "none", firstBuf |-> TRUE,
                      capacity |-> Capacity, threads |-> <<>>]
  <2>2. UNCHANGED <<pcode, uniqThreads>> /\ pcode = "mapped"
    BY <1>4 DEF CreateCtx, native
  <2>3. new \in Contexts /\ prog.uniq <= new.capacity
    BY <1>1, <2>2 DEF Contexts, Capacity, Sized
  <2>. HIDE DEF new
  <2>4. /\ contexts' \in Seq(Contexts) /\ Len(contexts') = Len(contexts) + 1
        /\ \A d \in 1 .. Len(contexts) : contexts'[d] = contexts[d]
        /\ contexts'[Len(contexts) + 1] = new
    BY <1>1, <2>1, <2>3, AppendProperties DEF new
  <2>5. DOMAIN contexts' = 1 .. Len(contexts) + 1 /\ DOMAIN contexts = 1 .. Len(contexts)
        /\ Len(contexts) \in Nat
    BY <1>1, <2>4, LenProperties
  <2>6. ASSUME NEW d \in DOMAIN contexts' PROVE prog.uniq <= contexts'[d].capacity
    <3>1. CASE d \in DOMAIN contexts
      BY <2>4, <2>5, <3>1 DEF Sized
    <3>2. CASE d = Len(contexts) + 1
      BY <2>3, <2>4, <3>2
    <3>. QED  BY <2>5, <3>1, <3>2
  <2>. QED  BY <1>1, <2>2, <2>6 DEF Sized
<1>5. ASSUME NEW c \in DOMAIN contexts, NEW new \in Contexts,
             new.capacity = contexts[c].capacity,
             contexts' = [contexts EXCEPT ![c] = new], UNCHANGED <<pcode, uniqThreads>>
      PROVE  Sized'
  <2>1. /\ DOMAIN contexts' = DOMAIN contexts /\ contexts'[c] = new
        /\ \A d \in DOMAIN contexts : d # c => contexts'[d] = contexts[d]
    BY <1>1, <1>5, ReplacedInSeq
  <2>2. \A d \in DOMAIN contexts' : contexts'[d].capacity = contexts[d].capacity
    BY <1>5, <2>1
  <2>. QED  BY <1>1, <1>5, <2>1, <2>2 DEF Sized
<1>6. CASE Exec
  <2>1. PICK c \in DOMAIN contexts : contexts' = [contexts EXCEPT ![c].firstBuf = FALSE]
    BY <1>6 DEF Exec
  <2>2. contexts[c] \in Contexts
    BY <1>1, ElementOfSeq, LenProperties
  <2>3. /\ [contexts[c] EXCEPT !.firstBuf = FALSE] \in Contexts
        /\ [contexts[c] EXCEPT !.firstBuf = FALSE].capacity = contexts[c].capacity
    BY <2>2 DEF Contexts
  <2>4. UNCHANGED <<pcode, uniqThreads>>
    BY <1>6 DEF Exec, native
  <2>. QED  BY <1>5, <2>1, <2>3, <2>4
<1>7. CASE Machine
  <2>1. at # "idle"
    BY <1>7 DEF Machine, Loop, Run, Walk, LoopEnd, RunCurThreads, RunThreadsDone,
                RunNextThread, CallPath, CallMatch, AtThread, SkipState, StateMatches,
                AddThread, PathEnds, AtState, OnPath
  <2>2. ASSUME UNCHANGED <<native, contexts>> PROVE Sized'
    BY <1>1, <2>2 DEF Sized, native
  <2>3. ASSUME NEW rc \in {"OK", "AGAIN", "DECLINED"}, NEW threads \in Seq(Threads),
               Return(rc, threads)
        PROVE  Sized'
    <3>. DEFINE new == [This EXCEPT !.out = rc, !.threads = threads, !.base = This.base + size]
    <3>1. /\ self \in DOMAIN contexts /\ This \in Contexts /\ This.base + size \in Nat
      BY <2>1, ThisType
    <3>2. rc \in {"none", "OK", "AGAIN", "DECLINED"}
      OBVIOUS
    <3>3. new \in Contexts
      BY <3>1, <3>2 DEF Contexts
    <3>4. new.capacity = contexts[self].capacity
      BY <3>1 DEF Contexts, This
    <3>5. contexts' = [contexts EXCEPT ![self] = new] /\ UNCHANGED <<pcode, uniqThreads>>
      BY <2>3 DEF Return, This, native
    <3>. HIDE DEF new
    <3>. QED  BY <1>5, <3>1, <3>3, <3>4, <3>5
  <2>4. clist \in Seq(Threads) /\ nlist \in Seq(Threads)
    BY DEF IInv, TypeOK
  <2>5. CASE Loop
    <3>1. CASE LoopEnd
      BY <2>3, <2>4, <3>1 DEF LoopEnd
    <3>2. CASE RunCurThreads
      BY <2>2, <3>2 DEF RunCurThreads
    <3>3. CASE RunThreadsDone
      BY <2>2, <2>3, <2>4, <3>3 DEF RunThreadsDone
    <3>. QED  BY <2>5, <3>1, <3>2, <3>3 DEF Loop
  <2>6. CASE Run
    <3>1. CASE CallMatch
      BY <2>3, <2>4, <3>1 DEF CallMatch
    <3>2. CASE RunNextThread \/ CallPath
      BY <2>2, <3>2 DEF RunNextThread, CallPath
    <3>. QED  BY <2>6, <3>1, <3>2 DEF Run
  <2>7. CASE Walk
    <3>1. CASE StateMatches
      BY <2>3, <2>4, <3>1 DEF StateMatches
    <3>2. CASE SkipState \/ AddThread \/ PathEnds
      BY <2>2, <3>2 DEF SkipState, AddThread, PathEnds
    <3>. QED  BY <2>7, <3>1, <3>2 DEF Walk
  <2>. QED  BY <1>7, <2>5, <2>6, <2>7 DEF Machine
<1>8. CASE UNCHANGED vars
  BY <1>1, <1>8 DEF vars, native, Sized
<1>. QED  BY <1>2, <1>3, <1>4, <1>6, <1>7, <1>8 DEF Next, Caller

-----------------------------------------------------------------------------
\* The lists never have more threads than entries, though the code that appends to them
\* does not look: in every program where a path that may run twice in a step adds only
\* threads that have a bit.  (It may run twice when a look-ahead brings a second thread
\* to its pc, and the compiler does not count that.)
THEOREM ListsAlwaysFit == Spec => [](RepeatsHaveBits(prog) => ListsFit)
<1>. DEFINE Inv == IInv /\ Sized /\ (RepeatsHaveBits(prog) => Once)
<1>1. Init => Inv
  <2>. SUFFICES ASSUME Init PROVE Inv
    OBVIOUS
  <2>1. Sized
    BY DEF Init, Sized
  <2>2. Once
    BY EmptyIsSound DEF Init, Once, KeptSound
  <2>. QED  BY <2>1, <2>2, InitIInv
<1>2. Inv /\ [Next]_vars => Inv'
  <2>. SUFFICES ASSUME Inv, [Next]_vars PROVE Inv'
    OBVIOUS
  <2>1. prog' = prog
    BY ProgKept
  <2>2. RepeatsHaveBits(prog)' => RepeatsHaveBits(prog)
    BY <2>1
  <2>. QED  BY <2>2, Step, SizedStep, OnceStep
<1>3. Inv => (RepeatsHaveBits(prog) => ListsFit)
  <2>. SUFFICES ASSUME IInv, Sized, Once, at # "idle"
                PROVE  Len(clist) <= This.capacity /\ Len(nlist) <= This.capacity
    BY DEF ListsFit
  <2>1. Len(clist) <= prog.uniq /\ Len(nlist) <= prog.uniq
    BY SoundFits DEF IInv, TypeOK, Once
  <2>2. This \in Contexts /\ prog.uniq <= This.capacity
    BY ThisType DEF Sized, This
  <2>3. Len(clist) \in Nat /\ Len(nlist) \in Nat /\ prog.uniq \in Nat /\ This.capacity \in Nat
    BY <2>2, LenProperties, IndexesAreCounted DEF IInv, TypeOK, Contexts
  <2>. QED  BY <2>1, <2>2, <2>3
<1>. QED  BY <1>1, <1>2, <1>3, PTL DEF Spec

-----------------------------------------------------------------------------
(* What the paths of an image lead to, and what its code comes to. *)

Holds(asserts, s, n) == \A look \in asserts : HoldsAt(look, s, n)

\* The path of pc is what a search goes on with at n: it has read the byte before, which
\* pc consumes, or is at its beginning.
Begins(p, s, pc, n) ==
    \/ pc = 0 /\ n = 0
    \/ /\ pc # 0 /\ n \in Nat \ {0}
       /\ <<pc, n - 1>> \in Reachable(p, s) /\ Permits(p.code[pc], s, n - 1)

LEMMA StartLive ==
    ASSUME NEW p, WellFormedImage(p), NEW pc \in DOMAIN p.paths
    PROVE  /\ WellFormedCode(p) /\ pc \in Live(p) /\ pc \in Nat /\ Start(pc) \in Live(p)
           /\ pc # 0 => p.code[pc].op \in Consumers
<1>1. /\ WellFormedCode(p) /\ p.code[0].op \notin Consumers /\ pc \in Pcs(p)
      /\ pc = 0 \/ p.code[pc].op \in Consumers
  BY DEF WellFormedImage, Pcs
<1>2. pc \in Live(p) /\ pc \in Nat
  BY <1>1 DEF WellFormedCode, Live, Consumers
<1>3. CASE pc = 0
  BY <1>1, <1>2, <1>3 DEF Start
<1>4. CASE pc # 0
  <2>1. Leads(p.code[pc], pc) = {pc + 1}
    BY <1>1, <1>4 DEF Leads, Consumers
  <2>. QED  BY <1>1, <1>2, <1>4, <2>1 DEF WellFormedCode, Start
<1>. QED  BY <1>3, <1>4

\* The ways of a path are what the walk comes to, and no more.
LEMMA WaysLeast ==
    ASSUME NEW p, WellFormedImage(p), NEW pc \in DOMAIN p.paths
    PROVE  LET all == Live(p) \X SUBSET Looks(p)
           IN  /\ Ways(p, pc) \subseteq all /\ <<Start(pc), {}>> \in Ways(p, pc)
               /\ \A way \in Ways(p, pc) : Onward(p.code, way) \subseteq Ways(p, pc)
               /\ \A W : /\ <<Start(pc), {}>> \in W
                         /\ \A way \in W \cap all : Onward(p.code, way) \subseteq W
                         => Ways(p, pc) \subseteq W
<1>. DEFINE all == Live(p) \X SUBSET Looks(p)
            F   == [way \in all |-> Onward(p.code, way)]
            a   == <<Start(pc), {}>>
<1>1. WellFormedCode(p) /\ Start(pc) \in Live(p)
  BY StartLive
<1>2. IsFiniteSet(Looks(p))
  <2>1. IsFiniteSet(DOMAIN p.code)
    BY <1>1 DEF WellFormedCode, Pcs
  <2>. DEFINE look == [m \in DOMAIN p.code |-> p.code[m].look]
  <2>2. look \in Surjection(DOMAIN p.code, Looks(p))
    BY DEF Surjection, Looks
  <2>. QED  BY <2>1, <2>2, FS_Surjection
<1>3. IsFiniteSet(all)
  BY <1>1, <1>2, LiveFinite, FS_SUBSET, FS_Product
<1>4. a \in all
  BY <1>1
<1>5. ASSUME NEW way \in all PROVE Onward(p.code, way) \in SUBSET all
  <2>1. way[1] \in Live(p) /\ way[1] \in DOMAIN p.code /\ way[2] \in SUBSET Looks(p)
    BY DEF Live, Pcs
  <2>2. Leads(p.code[way[1]], way[1]) \subseteq Live(p)
    BY <1>1, <2>1 DEF WellFormedCode
  <2>3. p.code[way[1]].look \in Looks(p)
    BY <2>1 DEF Looks
  <2>. QED  BY <2>1, <2>2, <2>3 DEF Onward
<1>6. F \in [all -> SUBSET all]
  BY <1>5
<1>7. \A way \in all : F[way] = Onward(p.code, way)
  OBVIOUS
<1>8. Ways(p, pc) = Closure(a, F)
  BY DEF Ways
<1>. HIDE DEF all, F, a
<1>9. /\ Closure(a, F) \subseteq all /\ a \in Closure(a, F)
      /\ \A e \in Closure(a, F) : F[e] \subseteq Closure(a, F)
      /\ \A W : a \in W /\ (\A e \in W \cap all : F[e] \subseteq W) => Closure(a, F) \subseteq W
  BY <1>3, <1>4, <1>6, ClosureLeast
<1>10. \A way \in Ways(p, pc) : Onward(p.code, way) \subseteq Ways(p, pc)
  BY <1>7, <1>8, <1>9
<1>11. ASSUME NEW W, a \in W, \A way \in W \cap all : Onward(p.code, way) \subseteq W
       PROVE  Ways(p, pc) \subseteq W
  BY <1>7, <1>8, <1>9, <1>11
<1>. QED  BY <1>8, <1>9, <1>10, <1>11 DEF all, a

\* A search that comes to where a path begins comes along every way whose assertions hold.
LEMMA WaysReach ==
    ASSUME NEW p, WellFormedImage(p), NEW pc \in DOMAIN p.paths, NEW s \in Seq(Byte), NEW n,
           <<Start(pc), n>> \in Reachable(p, s), NEW way \in Ways(p, pc), Holds(way[2], s, n)
    PROVE  <<way[1], n>> \in Reachable(p, s)
<1>. DEFINE all == Live(p) \X SUBSET Looks(p)
            R   == Reachable(p, s)
            W   == {w \in all : Holds(w[2], s, n) => <<w[1], n>> \in R}
<1>1. WellFormedCode(p) /\ Start(pc) \in Live(p)
  BY StartLive
<1>2. <<Start(pc), {}>> \in W
  BY <1>1
<1>3. ASSUME NEW w \in W, NEW v \in Onward(p.code, w) PROVE v \in W
  <2>. DEFINE ins == p.code[w[1]]
              met == IF ins.op = "assert" THEN w[2] \cup {ins.look} ELSE w[2]
  <2>1. ins.op \notin Consumers /\ v \in Leads(ins, w[1]) \X {met}
    BY <1>3 DEF Onward
  <2>2. v \in all
    <3>1. w[1] \in Live(p) /\ w[1] \in DOMAIN p.code /\ w[2] \in SUBSET Looks(p)
      BY DEF Live, Pcs
    <3>2. Leads(ins, w[1]) \subseteq Live(p)
      BY <1>1, <3>1 DEF WellFormedCode
    <3>3. ins.look \in Looks(p)
      BY <3>1 DEF Looks
    <3>. QED  BY <2>1, <3>1, <3>2, <3>3
  <2>3. ASSUME Holds(v[2], s, n) PROVE <<v[1], n>> \in R
    <3>1. Holds(w[2], s, n) /\ (ins.op = "assert" => HoldsAt(ins.look, s, n))
      BY <2>1, <2>3 DEF Holds
    <3>2. <<w[1], n>> \in R
      BY <1>3, <3>1
    <3>3. Permits(ins, s, n)
      BY <2>1, <3>1 DEF Permits
    <3>4. Steps(p, s, <<w[1], n>>) = Leads(ins, w[1]) \X {n}
      BY <2>1, <3>3 DEF Steps
    <3>5. <<v[1], n>> \in Steps(p, s, <<w[1], n>>)
      BY <2>1, <3>4
    <3>. QED  BY <1>1, <3>2, <3>5, ReachableClosed
  <2>. QED  BY <2>2, <2>3
<1>4. Ways(p, pc) \subseteq W
  <2>. HIDE DEF W
  <2>. QED  BY <1>2, <1>3, WaysLeast
<1>. QED  BY <1>4

\* Where the path begins, a search comes to.
LEMMA BeginsReached ==
    ASSUME NEW p, WellFormedImage(p), NEW pc \in DOMAIN p.paths, NEW s \in Seq(Byte), NEW n,
           Begins(p, s, pc, n)
    PROVE  <<Start(pc), n>> \in Reachable(p, s)
<1>1. WellFormedCode(p) /\ pc \in Nat /\ (pc # 0 => p.code[pc].op \in Consumers)
  BY StartLive
<1>2. CASE pc = 0 /\ n = 0
  BY <1>1, <1>2, ReachableClosed DEF Start
<1>3. CASE ~(pc = 0 /\ n = 0)
  <2>1. /\ n \in Nat \ {0} /\ pc # 0
        /\ <<pc, n - 1>> \in Reachable(p, s) /\ Permits(p.code[pc], s, n - 1)
    BY <1>3 DEF Begins
  <2>2. Steps(p, s, <<pc, n - 1>>) = {pc + 1} \X {n}
    <3>1. Leads(p.code[pc], pc) = {pc + 1} /\ p.code[pc].op \in Consumers
      BY <1>1, <2>1 DEF Leads, Consumers
    <3>2. n - 1 + 1 = n
      BY <2>1
    <3>. QED  BY <2>1, <3>1, <3>2 DEF Steps
  <2>3. <<pc + 1, n>> \in Steps(p, s, <<pc, n - 1>>)
    BY <2>2
  <2>. QED  BY <1>1, <2>1, <2>3, ReachableClosed DEF Start
<1>. QED  BY <1>2, <1>3

\* A search comes to a place by no other ways, when the paths are whole.
LEMMA ReachedByWay ==
    ASSUME NEW p, WellFormedImage(p), WholePaths(p), NEW s \in Seq(Byte),
           NEW place \in Reachable(p, s)
    PROVE  \E pc \in DOMAIN p.paths : \E way \in Ways(p, pc) :
               /\ way[1] = place[1] /\ Holds(way[2], s, place[2])
               /\ Begins(p, s, pc, place[2])
<1>. DEFINE R == Reachable(p, s)
            Comes(q) == \E pc \in DOMAIN p.paths : \E way \in Ways(p, pc) :
                            /\ way[1] = q[1] /\ Holds(way[2], s, q[2])
                            /\ Begins(p, s, pc, q[2])
            Q == {q \in R : Comes(q)}
<1>1. WellFormedCode(p) /\ 0 \in DOMAIN p.paths /\ p.code[0].op \notin Consumers
  BY DEF WellFormedImage
<1>2. <<0, 0>> \in Q
  <2>1. <<0, {}>> \in Ways(p, 0)
    BY <1>1, WaysLeast DEF Start
  <2>2. Holds({}, s, 0) /\ Begins(p, s, 0, 0)
    BY DEF Holds, Begins
  <2>3. Comes(<<0, 0>>)
    BY <1>1, <2>1, <2>2
  <2>. HIDE DEF Comes
  <2>. QED  BY <1>1, <2>3, ReachableClosed
<1>3. ASSUME NEW q \in Q, NEW r \in Steps(p, s, q) PROVE r \in Q
  <2>. DEFINE ins == p.code[q[1]]
  <2>1. q \in R /\ q \in Places(p, s) /\ r \in R
    BY <1>1, <1>3, ReachableClosed
  <2>2. PICK pc \in DOMAIN p.paths : \E way \in Ways(p, pc) :
            way[1] = q[1] /\ Holds(way[2], s, q[2]) /\ Begins(p, s, pc, q[2])
    BY <1>3
  <2>3. PICK way \in Ways(p, pc) :
            way[1] = q[1] /\ Holds(way[2], s, q[2]) /\ Begins(p, s, pc, q[2])
    BY <2>2
  <2>4. Permits(ins, s, q[2])
    BY <1>3 DEF Steps
  <2>5. q[1] \in Nat /\ q[2] \in Nat /\ q = <<q[1], q[2]>>
    BY <1>1, <2>1 DEF Places, Live, WellFormedCode
  <2>6. CASE ins.op \in Consumers
    <3>1. q[1] \in DOMAIN p.paths
      <4>1. PICK m \in DOMAIN p.paths[pc] : p.paths[pc][m].pc = q[1]
        BY <2>3, <2>6 DEF WholePaths
      <4>2. p.code[q[1]].op # "match"
        BY <2>6 DEF Consumers
      <4>. QED  BY <4>1, <4>2 DEF WellFormedImage
    <3>2. q[1] # 0
      BY <1>1, <2>6
    <3>3. r[1] = q[1] + 1 /\ r[2] = q[2] + 1
      <4>1. Leads(ins, q[1]) = {q[1] + 1}
        BY <2>6 DEF Leads, Consumers
      <4>. QED  BY <1>3, <2>4, <2>6, <4>1 DEF Steps
    <3>4. <<q[1] + 1, {}>> \in Ways(p, q[1])
      BY <3>1, <3>2, WaysLeast DEF Start
    <3>5. Begins(p, s, q[1], r[2])
      <4>1. q[2] + 1 \in Nat \ {0} /\ q[2] + 1 - 1 = q[2]
        BY <2>5
      <4>. QED  BY <2>1, <2>4, <2>5, <3>2, <3>3, <4>1 DEF Begins
    <3>6. Holds({}, s, r[2])
      BY DEF Holds
    <3>7. Comes(r)
      <4>1. <<q[1] + 1, {}>>[1] = r[1] /\ <<q[1] + 1, {}>>[2] = {}
        BY <3>3
      <4>. QED  BY <3>1, <3>4, <3>5, <3>6, <4>1
    <3>. HIDE DEF Comes
    <3>. QED  BY <2>1, <3>7
  <2>7. CASE ins.op \notin Consumers
    <3>. DEFINE met == IF ins.op = "assert" THEN way[2] \cup {ins.look} ELSE way[2]
                on  == <<r[1], met>>
    <3>1. r[1] \in Leads(ins, q[1]) /\ r[2] = q[2]
      BY <1>3, <2>4, <2>7 DEF Steps
    <3>2. on \in Onward(p.code, way)
      BY <2>3, <2>7, <3>1 DEF Onward
    <3>3. on \in Ways(p, pc)
      <4>1. Onward(p.code, way) \subseteq Ways(p, pc)
        BY <2>3, WaysLeast
      <4>. QED  BY <3>2, <4>1
    <3>4. Holds(met, s, r[2])
      <4>1. ins.op = "assert" => HoldsAt(ins.look, s, q[2])
        BY <2>4, <2>7 DEF Permits
      <4>. QED  BY <2>3, <3>1, <4>1 DEF Holds
    <3>5. on[1] = r[1] /\ on[2] = met
      OBVIOUS
    <3>6. Begins(p, s, pc, r[2])
      BY <2>3, <3>1
    <3>. HIDE DEF met, on
    <3>7. Comes(r)
      BY <3>3, <3>4, <3>5, <3>6
    <3>. HIDE DEF Comes
    <3>. QED  BY <2>1, <3>7
  <2>. QED  BY <2>6, <2>7
<1>4. R \subseteq Q
  <2>. HIDE DEF Q
  <2>1. \A q \in Q : Steps(p, s, q) \subseteq Q
    BY <1>3
  <2>. QED  BY <1>1, <1>2, <2>1, ReachableClosed
<1>. QED  BY <1>4

-----------------------------------------------------------------------------
(* What the lists of threads promise. *)

\* A thread waits at pc, and its assertions hold.
Waits(list, pc, s, n) ==
    \E j \in DOMAIN list : list[j].pc = pc /\ Holds(list[j].asserts, s, n)

\* A state of a path that is a way to the next byte has its thread.
Served(list, state, s, n) == Holds(state.asserts, s, n) => Waits(list, state.pc, s, n)

\* Every byte or match that a search comes to at n has a thread.
Heard(p, s, list, n) ==
    \A place \in Reachable(p, s) :
        place[2] = n /\ p.code[place[1]].op \in Consumers \cup {"match"}
            => Waits(list, place[1], s, n)

NoMatchBefore(p, s, n) ==
    \A place \in Reachable(p, s) : p.code[place[1]].op = "match" => place[2] >= n

LEMMA ReachedType ==
    ASSUME NEW p, WellFormedCode(p), NEW s \in Seq(Byte), NEW place \in Reachable(p, s)
    PROVE  /\ place[1] \in Live(p) /\ place[2] \in 0 .. Len(s) /\ Len(s) \in Nat
           /\ place = <<place[1], place[2]>>
BY ReachableClosed, LenProperties DEF Places

\* A list hears all when every path that a search goes on with has been served.
LEMMA HeardWhen ==
    ASSUME NEW p, WellFormedImage(p), WholePaths(p), NEW s \in Seq(Byte), NEW n, NEW list,
           \A pc \in DOMAIN p.paths : Begins(p, s, pc, n) =>
               \A m \in DOMAIN p.paths[pc] : Served(list, p.paths[pc][m], s, n)
    PROVE  Heard(p, s, list, n)
<1>1. SUFFICES ASSUME NEW place \in Reachable(p, s), place[2] = n,
                      p.code[place[1]].op \in Consumers \cup {"match"}
               PROVE  Waits(list, place[1], s, n)
  BY DEF Heard
<1>2. PICK pc \in DOMAIN p.paths : \E way \in Ways(p, pc) :
          way[1] = place[1] /\ Holds(way[2], s, n) /\ Begins(p, s, pc, n)
  BY <1>1, ReachedByWay
<1>3. PICK way \in Ways(p, pc) :
          way[1] = place[1] /\ Holds(way[2], s, n) /\ Begins(p, s, pc, n)
  BY <1>2
<1>4. PICK m \in DOMAIN p.paths[pc] :
          /\ p.paths[pc][m].pc = way[1] /\ p.paths[pc][m].asserts \subseteq way[2]
  BY <1>1, <1>3 DEF WholePaths
<1>5. Holds(p.paths[pc][m].asserts, s, n)
  BY <1>3, <1>4 DEF Holds
<1>. QED  BY <1>3, <1>4, <1>5 DEF Served

\* A search in which no byte can follow at n comes no further than n.
LEMMA NothingLater ==
    ASSUME NEW p, WellFormedCode(p), NEW s \in Seq(Byte), NEW n \in Nat,
           \A place \in Reachable(p, s) :
               place[2] = n => p.code[place[1]].op \notin Consumers
    PROVE  \A place \in Reachable(p, s) : place[2] <= n
<1>. DEFINE R == Reachable(p, s)
            Q == {q \in R : q[2] <= n}
<1>1. <<0, 0>> \in Q
  BY ReachableClosed
<1>2. ASSUME NEW q \in Q, NEW r \in Steps(p, s, q) PROVE r \in Q
  <2>1. r \in R /\ q[2] \in Nat
    <3>1. q[2] \in 0 .. Len(s)
      BY <1>2, ReachedType
    <3>. QED  BY <1>2, <3>1, ReachableClosed
  <2>2. r[2] = IF p.code[q[1]].op \in Consumers THEN q[2] + 1 ELSE q[2]
    BY <1>2 DEF Steps
  <2>3. p.code[q[1]].op \in Consumers => q[2] # n
    BY <1>2
  <2>. QED  BY <1>2, <2>1, <2>2, <2>3
<1>3. R \subseteq Q
  <2>. HIDE DEF Q
  <2>. QED  BY <1>1, <1>2, ReachableClosed
<1>. QED  BY <1>3

\* When nobody waits there is nothing to wait for, here or later.
LEMMA NobodyWaits ==
    ASSUME NEW p, WellFormedCode(p), NEW s \in Seq(Byte), NEW n \in Nat,
           Heard(p, s, <<>>, n), NoMatchBefore(p, s, n)
    PROVE  /\ ~Accepted(p, s)
           /\ \A m \in Nat : m >= n => Heard(p, s, <<>>, m) /\ NoMatchBefore(p, s, m)
<1>1. \A place \in Reachable(p, s) :
        place[2] = n => p.code[place[1]].op \notin Consumers \cup {"match"}
  BY DEF Heard, Waits
<1>2. \A place \in Reachable(p, s) : place[2] <= n /\ place[2] \in Nat
  <2>1. \A place \in Reachable(p, s) : place[2] = n => p.code[place[1]].op \notin Consumers
    BY <1>1
  <2>2. \A place \in Reachable(p, s) : place[2] <= n
    BY <2>1, NothingLater
  <2>3. \A place \in Reachable(p, s) : place[2] \in 0 .. Len(s)
    BY ReachedType
  <2>. QED  BY <2>2, <2>3
<1>3. \A place \in Reachable(p, s) : p.code[place[1]].op # "match"
  BY <1>1, <1>2 DEF NoMatchBefore
<1>4. ASSUME NEW m \in Nat, m >= n, NEW place \in Reachable(p, s), place[2] = m
      PROVE  p.code[place[1]].op \notin Consumers \cup {"match"}
  BY <1>1, <1>2, <1>4
<1>. QED  BY <1>3, <1>4 DEF Accepted, Heard, NoMatchBefore

-----------------------------------------------------------------------------
(* What the machine decides of assertions. *)

Front == This.base + sp

\* What a thread knows of the byte before it.
SeenRight(s, t, n) == t.asserts \cap WordBoundary # {} => (t.seenWord <=> WordAt(s, n))

\* The buffers: what the call has of the stream, and what it does not run on.
ChunkRight ==
    /\ ~This.firstBuf /\ This.out \in {"none", "AGAIN"}
    /\ eof => This.base + size = Len(This.stream)
    /\ at = "first_buf" => Front = 0
    /\ at \in {"run_thread", "path"} /\ LastByte => eof

LEMMA ChunkBytes ==
    ASSUME IInv, at # "idle"
    PROVE  /\ This.stream \in Seq(Byte) /\ WellFormedImage(prog) /\ WellFormedCode(prog)
           /\ This.base \in Nat /\ sp \in Nat /\ size \in Nat /\ sp <= size
           /\ Len(This.stream) \in Nat /\ Front \in Nat /\ This.base + size <= Len(This.stream)
           /\ Front <= Len(This.stream)
           /\ ~LastByte => /\ sp < size /\ Front < Len(This.stream)
                           /\ ByteAt(sp) = This.stream[Front + 1]
                           /\ IsWord <=> WordAt(This.stream, Front + 1)
<1>1. /\ This.stream \in Streams /\ This.base \in Nat /\ Len(This.stream) \in Nat
      /\ This.base + size <= Len(This.stream) /\ sp \in Nat /\ sp <= size /\ size \in Nat
  BY ThisType
<1>2. This.stream \in Seq(Byte) /\ WellFormedImage(prog) /\ WellFormedCode(prog)
  BY <1>1, JITAssumption, ImagesAssumption DEF IInv, WellFormedImage
<1>3. Front \in Nat /\ Front <= Len(This.stream)
  BY <1>1 DEF Front
<1>4. ASSUME ~LastByte
      PROVE  /\ sp < size /\ Front < Len(This.stream)
             /\ ByteAt(sp) = This.stream[Front + 1]
             /\ IsWord <=> WordAt(This.stream, Front + 1)
  <2>1. sp < size /\ Front < Len(This.stream) /\ Front + 1 \in 1 .. Len(This.stream)
    BY <1>1, <1>4 DEF LastByte, Front
  <2>2. ByteAt(sp) = This.stream[Front + 1]
    BY DEF ByteAt, Front
  <2>. QED  BY <1>4, <2>1, <2>2 DEF IsWord, WordAt
<1>. QED  BY <1>1, <1>2, <1>3, <1>4

\* Where a thread runs, the last step is at the end of the stream.
LEMMA EndsRight ==
    ASSUME IInv, ChunkRight, at \in {"run_thread", "path"}
    PROVE  /\ LastByte <=> Front = Len(This.stream)
           /\ IsWord <=> WordAt(This.stream, Front + 1)
<1>1. at # "idle"
  OBVIOUS
<1>2. /\ This.base \in Nat /\ sp \in Nat /\ size \in Nat /\ sp <= size
      /\ Len(This.stream) \in Nat /\ Front <= Len(This.stream)
  BY <1>1, ChunkBytes
<1>3. CASE LastByte
  <2>1. Front = Len(This.stream)
    BY <1>2, <1>3 DEF ChunkRight, LastByte, Front
  <2>2. ~WordAt(This.stream, Front + 1) /\ ~IsWord
    BY <1>2, <1>3, <2>1 DEF WordAt, IsWord
  <2>. QED  BY <1>3, <2>1, <2>2
<1>4. CASE ~LastByte
  BY <1>1, <1>2, <1>4, ChunkBytes
<1>. QED  BY <1>3, <1>4

\* The handler of the assertions lets a thread pass when they hold, unless it asks for
\* \\z and $ at once; and no other, unless it asks for \\b and \\B.
LEMMA HandlerRight ==
    ASSUME IInv, ChunkRight, at = "run_thread", NEW t \in Threads,
           SeenRight(This.stream, t, Front), NEW c \in Current
    PROVE  /\ HandlerPasses(t, c) /\ ~(WordBoundary \subseteq t.asserts)
               => Holds(t.asserts, This.stream, Front)
           /\ Holds(t.asserts, This.stream, Front) /\ ~({"\\z", "$"} \subseteq t.asserts)
               => HandlerPasses(t, c)
<1>. DEFINE s == This.stream
            n == Front
<1>1. LastByte <=> n = Len(s)
  BY EndsRight
<1>2. c = Newline /\ ~LastByte <=> s[n + 1] = Newline /\ ~LastByte
  BY ChunkBytes DEF Current
<1>3. /\ HoldsAt("\\z", s, n) <=> n = Len(s)
      /\ HoldsAt("$", s, n) <=> n = Len(s) \/ s[n + 1] = Newline
      /\ HoldsAt("\\b", s, n) <=> ~(WordAt(s, n) <=> WordAt(s, n + 1))
      /\ HoldsAt("\\B", s, n) <=> (WordAt(s, n) <=> WordAt(s, n + 1))
  BY DEF HoldsAt, WordAt
<1>4. /\ IsWord <=> WordAt(s, n + 1)
      /\ "\\b" \in t.asserts \/ "\\B" \in t.asserts => (t.seenWord <=> WordAt(s, n))
      /\ t.seenWord \in BOOLEAN /\ IsWord \in BOOLEAN
  BY EndsRight DEF SeenRight, WordBoundary, Threads, IsWord
<1>5. t.asserts \subseteq LookAhead
  BY DEF Threads
<1>6. /\ "\\b" \in t.asserts => (HoldsAt("\\b", s, n) <=> t.seenWord # IsWord)
      /\ "\\B" \in t.asserts => (HoldsAt("\\B", s, n) <=> t.seenWord = IsWord)
  BY <1>3, <1>4, Zenon
<1>. HIDE DEF s, n
<1>7. ASSUME HandlerPasses(t, c), ~(WordBoundary \subseteq t.asserts), NEW look \in t.asserts
      PROVE  HoldsAt(look, s, n)
  <2>1. CASE look = "\\z"
    BY <1>1, <1>3, <1>7, <2>1 DEF HandlerPasses
  <2>2. CASE look = "$"
    BY <1>1, <1>2, <1>3, <1>7, <2>2 DEF HandlerPasses
  <2>3. CASE look = "\\b"
    BY <1>6, <1>7, <2>3, Zenon DEF HandlerPasses
  <2>4. CASE look = "\\B"
    <3>1. "\\b" \notin t.asserts
      BY <1>7, <2>4 DEF WordBoundary
    <3>. QED  BY <1>6, <1>7, <2>4, <3>1, Zenon DEF HandlerPasses
  <2>. QED  BY <1>5, <1>7, <2>1, <2>2, <2>3, <2>4 DEF LookAhead
<1>8. ASSUME Holds(t.asserts, s, n), ~({"\\z", "$"} \subseteq t.asserts)
      PROVE  HandlerPasses(t, c)
  <2>1. \A look \in t.asserts : HoldsAt(look, s, n)
    BY <1>8 DEF Holds
  <2>2. "\\z" \in t.asserts => LastByte
    BY <1>1, <1>3, <2>1
  <2>3. "$" \in t.asserts => (LastByte /\ "\\z" \notin t.asserts) \/ c = Newline
    BY <1>1, <1>2, <1>3, <1>8, <2>1
  <2>4. "\\b" \in t.asserts => t.seenWord # IsWord
    BY <1>6, <2>1, Zenon
  <2>5. "\\B" \in t.asserts => t.seenWord = IsWord
    BY <1>6, <2>1, Zenon
  <2>. QED  BY <2>2, <2>3, <2>4, <2>5, Zenon DEF HandlerPasses
<1>. QED  BY <1>7, <1>8 DEF Holds, s, n

\* The byte of a thread.
LEMMA ConsumesRight ==
    ASSUME IInv, ChunkRight, at \in {"run_thread", "path"}, NEW pc
    PROVE  Consumes(pc) <=> /\ prog.code[pc].op \in Consumers
                            /\ Permits(prog.code[pc], This.stream, Front)
<1>1. Consumes(pc) => prog.code[pc].op \in Consumers
  BY DEF Consumes, Accepts, Consumers
<1>2. ~LastByte => Front < Len(This.stream) /\ ByteAt(sp) = This.stream[Front + 1]
  BY ChunkBytes
<1>3. LastByte <=> Front = Len(This.stream)
  BY EndsRight
<1>4. Len(This.stream) \in Nat /\ Front \in Nat
  BY ChunkBytes
<1>5. ASSUME prog.code[pc].op \in Consumers
      PROVE  Permits(prog.code[pc], This.stream, Front)
                 <=> /\ Front < Len(This.stream)
                     /\ Accepts(prog.code[pc], This.stream[Front + 1])
  BY <1>5 DEF Permits, Consumers
<1>6. CASE prog.code[pc].op \notin Consumers
  BY <1>1, <1>6
<1>7. CASE prog.code[pc].op \in Consumers /\ LastByte
  <2>1. ~(Front < Len(This.stream))
    BY <1>3, <1>4, <1>7
  <2>. QED  BY <1>5, <1>7, <2>1 DEF Consumes
<1>8. CASE prog.code[pc].op \in Consumers /\ ~LastByte
  BY <1>2, <1>5, <1>8 DEF Consumes
<1>. QED  BY <1>6, <1>7, <1>8

\* What the look-behinds of a state come to, with the byte that its path has read.
LEMMA BehindRight ==
    ASSUME IInv, at = "path", NEW state \in PathStates
    PROVE  Holds(state.asserts, This.stream, Front + 1) <=>
               BehindHolds(state) /\ Holds(state.asserts \cap LookAhead, This.stream, Front + 1)
<1>. DEFINE s == This.stream
            n == Front + 1
<1>1. ~LastByte
  <2>1. sp < size /\ sp \in Nat /\ size \in Nat
    BY DEF IInv, TypeOK
  <2>. QED  BY <2>1 DEF LastByte
<1>2. ByteAt(sp) = s[n] /\ n # 0
  BY <1>1, ChunkBytes
<1>3. HoldsAt("\\A", s, n) <=> FALSE
  BY <1>2 DEF HoldsAt
<1>4. HoldsAt("^", s, n) <=> ByteAt(sp) = Newline
  BY <1>2 DEF HoldsAt
<1>5. BehindHolds(state) <=> /\ "\\A" \notin state.asserts
                             /\ "^" \in state.asserts => ByteAt(sp) = Newline
  BY DEF BehindHolds, AtStart
<1>6. \A look \in state.asserts : look \in LookAhead \/ look = "\\A" \/ look = "^"
  BY DEF PathStates, Assertions, LookAhead
<1>. HIDE DEF s, n
<1>. QED  BY <1>3, <1>4, <1>5, <1>6 DEF Holds, s, n

\* At the beginning of the stream the look-behinds hold.
LEMMA BehindAtStart ==
    ASSUME NEW s, NEW state \in PathStates
    PROVE  Holds(state.asserts, s, 0) <=> Holds(state.asserts \cap LookAhead, s, 0)
<1>1. HoldsAt("\\A", s, 0) /\ HoldsAt("^", s, 0)
  BY DEF HoldsAt
<1>2. \A look \in state.asserts : look \in LookAhead \/ look = "\\A" \/ look = "^"
  BY DEF PathStates, Assertions, LookAhead
<1>. QED  BY <1>1, <1>2 DEF Holds

-----------------------------------------------------------------------------
(* What becomes of the contexts. *)

LEMMA Created ==
    ASSUME IInv, CreateCtx
    PROVE  \E s \in Streams :
               LET new == contexts'[Len(contexts) + 1]
               IN  /\ at = "idle" /\ at' = "idle" /\ prog' = prog
                   /\ contexts' = Append(contexts, new)
                   /\ Len(contexts) \in Nat /\ DOMAIN contexts = 1 .. Len(contexts)
                   /\ DOMAIN contexts' = DOMAIN contexts \cup {Len(contexts) + 1}
                   /\ \A d \in DOMAIN contexts : contexts'[d] = contexts[d]
                   /\ new.stream = s /\ new.base = 0 /\ new.out = "none"
                   /\ new.firstBuf /\ new.threads = <<>>
<1>1. PICK s \in Streams :
        contexts' = Append(contexts, [stream |-> s, base |-> 0, out |-> "none",
                                      firstBuf |-> TRUE, capacity |-> Capacity,
                                      threads |-> <<>>])
  BY DEF CreateCtx
<1>. DEFINE new == [stream |-> s, base |-> 0, out |-> "none", firstBuf |-> TRUE,
                    capacity |-> Capacity, threads |-> <<>>]
<1>2. at = "idle" /\ at' = "idle" /\ prog' = prog
  BY DEF CreateCtx
<1>3. contexts \in Seq(Contexts) /\ new \in Contexts
  BY DEF Contexts, Capacity, IInv, TypeOK
<1>4. /\ new.stream = s /\ new.base = 0 /\ new.out = "none"
      /\ new.firstBuf /\ new.threads = <<>>
  OBVIOUS
<1>. HIDE DEF new
<1>5. /\ contexts' \in Seq(Contexts) /\ Len(contexts') = Len(contexts) + 1
      /\ \A d \in 1 .. Len(contexts) : contexts'[d] = contexts[d]
      /\ contexts'[Len(contexts) + 1] = new
  BY <1>1, <1>3, AppendProperties DEF new
<1>6. DOMAIN contexts' = 1 .. Len(contexts) + 1 /\ DOMAIN contexts = 1 .. Len(contexts)
      /\ Len(contexts) \in Nat
  BY <1>3, <1>5, LenProperties
<1>7. DOMAIN contexts' = DOMAIN contexts \cup {Len(contexts) + 1}
  BY <1>6
<1>8. contexts' = Append(contexts, contexts'[Len(contexts) + 1])
  BY <1>1, <1>5 DEF new
<1>. QED  BY <1>2, <1>4, <1>5, <1>6, <1>7, <1>8

LEMMA Executed ==
    ASSUME IInv, Exec
    PROVE  \E c \in DOMAIN contexts :
               LET old == contexts[c]
                   new == contexts'[c]
               IN  /\ old.out \in {"none", "AGAIN"} /\ old.base \in Nat /\ old.stream \in Streams
                   /\ at = "idle" /\ prog' = prog
                   /\ at' = IF old.firstBuf THEN "first_buf" ELSE "sp_loop"
                   /\ self' = c /\ sp' = 0 /\ ct' = 1 /\ st' = 1
                   /\ clist' = old.threads /\ nlist' = <<>>
                   /\ DOMAIN contexts' = DOMAIN contexts
                   /\ new.stream = old.stream /\ new.base = old.base /\ new.out = old.out
                   /\ ~new.firstBuf /\ new.threads = old.threads
                   /\ \A d \in DOMAIN contexts : d # c => contexts'[d] = contexts[d]
                   /\ size' \in Nat
                   /\ eof' => old.base + size' = Len(old.stream)
<1>1. PICK c \in DOMAIN contexts :
        /\ contexts[c].out \in {"none", "AGAIN"}
        /\ \E chunk \in Chunks(c) : size' = chunk.size /\ eof' = chunk.eof
        /\ self' = c
        /\ at' = IF contexts[c].firstBuf THEN "first_buf" ELSE "sp_loop"
        /\ clist' = contexts[c].threads
        /\ contexts' = [contexts EXCEPT ![c].firstBuf = FALSE]
  BY DEF Exec
<1>. DEFINE old == contexts[c]
            new == [old EXCEPT !.firstBuf = FALSE]
<1>2. at = "idle" /\ sp' = 0 /\ ct' = 1 /\ st' = 1 /\ nlist' = <<>> /\ prog' = prog
  BY DEF Exec
<1>3. contexts \in Seq(Contexts)
  BY DEF IInv, TypeOK
<1>4. old \in Contexts
  BY <1>3, ElementOfSeq, LenProperties
<1>5. /\ new \in Contexts /\ new.stream = old.stream /\ new.base = old.base
      /\ new.out = old.out /\ ~new.firstBuf /\ new.threads = old.threads
  BY <1>4 DEF Contexts
<1>6. contexts' = [contexts EXCEPT ![c] = new]
  BY <1>1
<1>7. old.base \in Nat /\ old.stream \in Streams /\ Len(old.stream) \in Nat
  BY <1>4, JITAssumption, LenProperties DEF Contexts
<1>8. size' \in Nat /\ (eof' => old.base + size' = Len(old.stream))
  BY <1>1, <1>7 DEF Chunks
<1>. HIDE DEF new
<1>9. /\ DOMAIN contexts' = DOMAIN contexts /\ contexts'[c] = new
      /\ \A d \in DOMAIN contexts : d # c => contexts'[d] = contexts[d]
  BY <1>3, <1>5, <1>6, ReplacedInSeq
<1>. QED  BY <1>1, <1>2, <1>5, <1>7, <1>8, <1>9

LEMMA Returned ==
    ASSUME IInv, at # "idle", NEW rc \in {"OK", "AGAIN", "DECLINED"},
           NEW threads \in Seq(Threads), Return(rc, threads)
    PROVE  LET new == contexts'[self]
           IN  /\ at' = "idle" /\ prog' = prog /\ self \in DOMAIN contexts
               /\ DOMAIN contexts' = DOMAIN contexts
               /\ new.stream = This.stream /\ new.base = This.base + size /\ new.out = rc
               /\ new.firstBuf = This.firstBuf /\ new.threads = threads
               /\ \A d \in DOMAIN contexts : d # self => contexts'[d] = contexts[d]
<1>. DEFINE new == [This EXCEPT !.out = rc, !.threads = threads, !.base = This.base + size]
<1>1. /\ self \in DOMAIN contexts /\ This \in Contexts /\ This.base \in Nat /\ size \in Nat
  BY ThisType
<1>2. at' = "idle" /\ prog' = prog /\ contexts' = [contexts EXCEPT ![self] = new]
  BY DEF Return, This
<1>3. new \in Contexts
  <2>1. This.base + size \in Nat /\ rc \in {"none", "OK", "AGAIN", "DECLINED"}
    BY <1>1
  <2>. QED  BY <1>1, <2>1 DEF Contexts
<1>4. /\ new.stream = This.stream /\ new.base = This.base + size /\ new.out = rc
      /\ new.firstBuf = This.firstBuf /\ new.threads = threads
  BY <1>1 DEF Contexts
<1>. HIDE DEF new
<1>5. contexts \in Seq(Contexts)
  BY DEF IInv, TypeOK
<1>6. /\ DOMAIN contexts' = DOMAIN contexts /\ contexts'[self] = new
      /\ \A d \in DOMAIN contexts : d # self => contexts'[d] = contexts[d]
  BY <1>1, <1>2, <1>3, <1>5, ReplacedInSeq
<1>. QED  BY <1>1, <1>2, <1>4, <1>6

-----------------------------------------------------------------------------
(* Every thread is one that a search comes to. *)

\* A thread waits in a state of a path; when its assertions hold, a search is there.
ThreadRight(p, s, t, n) ==
    /\ \E spot \in ThreadPlaces(p.code, p.paths) : IndexAt(p.paths, spot) = Index(t)
    /\ SeenRight(s, t, n)
    /\ ~Asks(p, WordBoundary) /\ Holds(t.asserts, s, n) => <<t.pc, n>> \in Reachable(p, s)

AllRight(p, s, list, n) == \A j \in DOMAIN list : ThreadRight(p, s, list[j], n)

KeptRight(p, kept) ==
    /\ kept.firstBuf => kept.base = 0 /\ kept.threads = <<>>
    /\ kept.out \in {"none", "AGAIN"} => AllRight(p, kept.stream, kept.threads, kept.base)
    /\ kept.out = "OK" /\ ~Asks(p, WordBoundary) => Accepted(p, kept.stream)

\* A register bit is set for threads that have been added.
AddedWaits == \A index \in added : \E j \in DOMAIN nlist : Index(nlist[j]) = index

\* The byte of a path is one that a search reads.
ReadsRight(p, s, pc, n) ==
    /\ Permits(p.code[pc], s, n)
    /\ ~Asks(p, WordBoundary) => <<pc, n>> \in Reachable(p, s)

CallRight ==
    /\ ChunkRight
    /\ AllRight(prog, This.stream, clist, Front)
    /\ AllRight(prog, This.stream, nlist, Front + 1)
    /\ at \in {"first_buf", "sp_loop"} => nlist = <<>>
    /\ at \in {"run_thread", "path"} => AddedWaits
    /\ at = "path" => ReadsRight(prog, This.stream, clist[ct].pc, Front)

Right ==
    /\ \A c \in DOMAIN contexts : KeptRight(prog, contexts[c])
    /\ at # "idle" => CallRight

LEMMA NoneRight == \A p, s, n : AllRight(p, s, <<>>, n)
BY DEF AllRight

\* A list with one more thread.
LEMMA RightGrows ==
    ASSUME NEW p, NEW s, NEW n, NEW list \in Seq(Threads), AllRight(p, s, list, n),
           NEW t \in Threads, ThreadRight(p, s, t, n)
    PROVE  AllRight(p, s, Append(list, t), n)
<1>. DEFINE more == Append(list, t)
<1>1. /\ \A m \in 1 .. Len(list) : more[m] = list[m]
      /\ more[Len(list) + 1] = t /\ DOMAIN more = 1 .. Len(list) + 1
      /\ Len(list) \in Nat /\ DOMAIN list = 1 .. Len(list)
  BY AppendProperties, LenProperties
<1>. HIDE DEF more
<1>2. ASSUME NEW j \in DOMAIN more PROVE ThreadRight(p, s, more[j], n)
  <2>1. CASE j \in DOMAIN list
    BY <1>1, <2>1 DEF AllRight
  <2>2. CASE j = Len(list) + 1
    BY <1>1, <2>2
  <2>. QED  BY <1>1, <2>1, <2>2
<1>. QED  BY <1>2 DEF AllRight, more

\* What a thread asks for at once, some state asks for.
LEMMA ThreadAsks ==
    ASSUME IInv, NEW s, NEW t, NEW n, ThreadRight(prog, s, t, n),
           NEW looks, looks \subseteq t.asserts
    PROVE  Asks(prog, looks)
<1>1. PICK spot \in ThreadPlaces(prog.code, prog.paths) : IndexAt(prog.paths, spot) = Index(t)
  BY DEF ThreadRight
<1>2. spot[1] \in DOMAIN prog.paths /\ spot[2] \in DOMAIN prog.paths[spot[1]]
  BY <1>1 DEF ThreadPlaces
<1>3. t.asserts = prog.paths[spot[1]][spot[2]].asserts \cap LookAhead
  BY <1>1 DEF IndexAt, ThreadIndex, Index
<1>. QED  BY <1>2, <1>3 DEF Asks

\* A thread that is no match consumes a byte, and its path is not the first.
LEMMA ThreadConsumes ==
    ASSUME IInv, NEW s, NEW t, NEW n, ThreadRight(prog, s, t, n)
    PROVE  /\ prog.code[t.pc].op \in Consumers \cup {"match"}
           /\ prog.code[t.pc].op # "match" => t.pc \in DOMAIN prog.paths /\ t.pc # 0
<1>1. PICK spot \in ThreadPlaces(prog.code, prog.paths) : IndexAt(prog.paths, spot) = Index(t)
  BY DEF ThreadRight
<1>2. spot[1] \in DOMAIN prog.paths /\ spot[2] \in DOMAIN prog.paths[spot[1]]
  BY <1>1 DEF ThreadPlaces
<1>3. t.pc = prog.paths[spot[1]][spot[2]].pc
  BY <1>1 DEF IndexAt, ThreadIndex, Index
<1>4. WellFormedImage(prog)
  BY ImagesAssumption DEF IInv
<1>5. prog.code[0].op \notin Consumers
  BY <1>4 DEF WellFormedImage
<1>6. \/ prog.code[t.pc].op = "match"
      \/ prog.code[t.pc].op \in Consumers /\ t.pc \in DOMAIN prog.paths
  BY <1>2, <1>3, <1>4 DEF WellFormedImage
<1>. QED  BY <1>5, <1>6

\* The invariant after a step inside a call.
LEMMA InsideRight ==
    ASSUME Right, UNCHANGED <<prog, contexts>>, at' # "idle", CallRight'
    PROVE  Right'
BY DEF Right

LEMMA ReturnKeepsRight ==
    ASSUME IInv, Right, at # "idle", NEW rc \in {"OK", "AGAIN", "DECLINED"},
           NEW threads \in Seq(Threads), Return(rc, threads),
           rc = "AGAIN" => AllRight(prog, This.stream, threads, This.base + size),
           rc = "OK" /\ ~Asks(prog, WordBoundary) => Accepted(prog, This.stream)
    PROVE  Right'
<1>1. LET new == contexts'[self]
      IN  /\ at' = "idle" /\ prog' = prog /\ self \in DOMAIN contexts
          /\ DOMAIN contexts' = DOMAIN contexts
          /\ new.stream = This.stream /\ new.base = This.base + size /\ new.out = rc
          /\ new.firstBuf = This.firstBuf /\ new.threads = threads
          /\ \A d \in DOMAIN contexts : d # self => contexts'[d] = contexts[d]
  BY Returned
<1>2. ~This.firstBuf
  BY DEF Right, CallRight, ChunkRight
<1>3. KeptRight(prog, contexts'[self])
  BY <1>1, <1>2 DEF KeptRight
<1>4. \A d \in DOMAIN contexts' : KeptRight(prog', contexts'[d])
  BY <1>1, <1>3 DEF Right
<1>. QED  BY <1>1, <1>4 DEF Right

LEMMA CallerKeepsRight ==
    ASSUME IInv, Right, Caller
    PROVE  Right'
<1>1. ASSUME JitCompile \/ JitFree PROVE Right'
  <2>1. at = "idle" /\ UNCHANGED <<prog, contexts, at>>
    BY <1>1 DEF JitCompile, JitFree
  <2>. QED  BY <2>1 DEF Right
<1>2. ASSUME CreateCtx PROVE Right'
  <2>. DEFINE new == contexts'[Len(contexts) + 1]
  <2>1. /\ at' = "idle" /\ prog' = prog
        /\ DOMAIN contexts' = DOMAIN contexts \cup {Len(contexts) + 1}
        /\ \A d \in DOMAIN contexts : contexts'[d] = contexts[d]
        /\ new.base = 0 /\ new.out = "none" /\ new.threads = <<>>
    BY <1>2, Created
  <2>2. KeptRight(prog, new)
    BY <2>1, NoneRight DEF KeptRight
  <2>3. \A d \in DOMAIN contexts' : KeptRight(prog', contexts'[d])
    BY <2>1, <2>2 DEF Right
  <2>. QED  BY <2>1, <2>3 DEF Right
<1>3. ASSUME Exec PROVE Right'
  <2>1. PICK c \in DOMAIN contexts :
          LET old == contexts[c]
              new == contexts'[c]
          IN  /\ old.out \in {"none", "AGAIN"} /\ old.base \in Nat
              /\ prog' = prog /\ at' = IF old.firstBuf THEN "first_buf" ELSE "sp_loop"
              /\ self' = c /\ sp' = 0 /\ clist' = old.threads /\ nlist' = <<>>
              /\ DOMAIN contexts' = DOMAIN contexts
              /\ new.stream = old.stream /\ new.base = old.base /\ new.out = old.out
              /\ ~new.firstBuf /\ new.threads = old.threads
              /\ \A d \in DOMAIN contexts : d # c => contexts'[d] = contexts[d]
              /\ eof' => old.base + size' = Len(old.stream)
    BY <1>3, Executed
  <2>2. KeptRight(prog, contexts[c])
    BY DEF Right
  <2>3. KeptRight(prog, contexts'[c])
    BY <2>1, <2>2 DEF KeptRight
  <2>4. \A d \in DOMAIN contexts' : KeptRight(prog', contexts'[d])
    BY <2>1, <2>3 DEF Right
  <2>5. This' = contexts'[c] /\ Front' = contexts[c].base
    BY <2>1 DEF This, Front
  <2>6. AllRight(prog, contexts[c].stream, contexts[c].threads, contexts[c].base)
    BY <2>1, <2>2 DEF KeptRight
  <2>7. ChunkRight'
    BY <2>1, <2>2, <2>5 DEF ChunkRight, KeptRight
  <2>8. CallRight'
    BY <2>1, <2>5, <2>6, <2>7, NoneRight DEF CallRight
  <2>. QED  BY <2>4, <2>8 DEF Right
<1>. QED  BY <1>1, <1>2, <1>3 DEF Caller

LEMMA LoopKeepsRight ==
    ASSUME IInv, Right, Loop
    PROVE  Right'
<1>1. at \in {"sp_loop", "run_thread"} /\ CallRight /\ prog' = prog
  BY DEF Loop, LoopEnd, RunCurThreads, RunThreadsDone, Right, Return
<1>2. clist \in Seq(Threads) /\ nlist \in Seq(Threads) /\ sp \in Nat /\ This.base \in Nat
  BY <1>1, ThisType DEF IInv, TypeOK
<1>3. ASSUME LoopEnd PROVE Right'
  <2>1. Done /\ Return(IF eof THEN "DECLINED" ELSE "AGAIN", clist)
    BY <1>3 DEF LoopEnd
  <2>2. ~eof => AllRight(prog, This.stream, clist, This.base + size)
    <3>1. CASE clist = <<>>
      BY <3>1, NoneRight
    <3>2. CASE clist # <<>> /\ ~eof
      BY <1>1, <2>1, <3>2 DEF Done, LastByte, Front, CallRight
    <3>. QED  BY <3>1, <3>2
  <2>. QED  BY <1>1, <1>2, <2>1, <2>2, ReturnKeepsRight
<1>4. ASSUME RunCurThreads PROVE Right'
  <2>1. /\ at = "sp_loop" /\ ~Done /\ at' = "run_thread" /\ added' = {}
        /\ UNCHANGED <<prog, contexts, self, size, eof, sp, clist, nlist>>
    BY <1>4 DEF RunCurThreads, exec
  <2>2. This' = This /\ Front' = Front /\ (LastByte' => eof)
    BY <2>1 DEF This, Front, LastByte, Done
  <2>3. ChunkRight'
    BY <1>1, <2>1, <2>2 DEF CallRight, ChunkRight
  <2>4. CallRight'
    BY <1>1, <2>1, <2>2, <2>3 DEF CallRight, AddedWaits
  <2>. QED  BY <2>1, <2>4, InsideRight
<1>5. ASSUME RunThreadsDone PROVE Right'
  <2>1. at = "run_thread"
    BY <1>5 DEF RunThreadsDone
  <2>2. CASE LastByte
    <3>1. Return(IF eof THEN "DECLINED" ELSE "AGAIN", nlist)
      BY <1>5, <2>2 DEF RunThreadsDone
    <3>2. eof
      BY <1>1, <2>1, <2>2 DEF CallRight, ChunkRight
    <3>. QED  BY <1>1, <1>2, <3>1, <3>2, ReturnKeepsRight
  <2>3. CASE ~LastByte
    <3>1. /\ clist' = nlist /\ nlist' = <<>> /\ at' = "sp_loop" /\ sp' = sp + 1
          /\ UNCHANGED <<prog, contexts, self, size, eof>>
      BY <1>5, <2>3 DEF RunThreadsDone
    <3>2. This' = This /\ Front' = Front + 1
      <4>1. This' = This
        BY <3>1 DEF This
      <4>. QED  BY <1>2, <3>1, <4>1 DEF Front
    <3>3. ChunkRight'
      BY <1>1, <3>1, <3>2 DEF CallRight, ChunkRight
    <3>4. CallRight'
      BY <1>1, <3>1, <3>2, <3>3, NoneRight DEF CallRight
    <3>. QED  BY <3>1, <3>4, InsideRight
  <2>. QED  BY <2>2, <2>3
<1>. QED  BY <1>3, <1>4, <1>5 DEF Loop

\* The thread that runs, and its place.
LEMMA Running ==
    ASSUME IInv, Right, AtThread
    PROVE  /\ at = "run_thread" /\ CallRight /\ ct \in DOMAIN clist /\ clist[ct] \in Threads
           /\ ThreadRight(prog, This.stream, clist[ct], Front)
           /\ \A c \in Current :
                /\ HandlerPasses(clist[ct], c) /\ ~Asks(prog, WordBoundary)
                       => Holds(clist[ct].asserts, This.stream, Front)
                /\ Holds(clist[ct].asserts, This.stream, Front) /\ ~Asks(prog, {"\\z", "$"})
                       => HandlerPasses(clist[ct], c)
<1>1. at = "run_thread" /\ CallRight /\ ct <= Len(clist)
  BY DEF AtThread, Right
<1>2. clist \in Seq(Threads) /\ ct \in Nat \ {0}
  BY DEF IInv, TypeOK
<1>3. ct \in DOMAIN clist /\ clist[ct] \in Threads
  <2>1. ct \in DOMAIN clist
    BY <1>1, <1>2, LenProperties
  <2>. QED  BY <1>2, <2>1, ElementOfSeq, LenProperties
<1>4. ThreadRight(prog, This.stream, clist[ct], Front)
  BY <1>1, <1>3 DEF CallRight, AllRight
<1>5. SeenRight(This.stream, clist[ct], Front) /\ ChunkRight
  BY <1>1, <1>4 DEF ThreadRight, CallRight
<1>6. \A looks : looks \subseteq clist[ct].asserts => Asks(prog, looks)
  BY <1>4, ThreadAsks
<1>. QED  BY <1>1, <1>3, <1>4, <1>5, <1>6, HandlerRight

LEMMA RunKeepsRight ==
    ASSUME IInv, Right, Run
    PROVE  Right'
<1>. DEFINE t == clist[ct]
<1>1. AtThread
  BY DEF Run, RunNextThread, CallPath, CallMatch
<1>2. /\ at = "run_thread" /\ CallRight /\ t \in Threads /\ nlist \in Seq(Threads)
      /\ ThreadRight(prog, This.stream, t, Front)
  BY <1>1, Running DEF IInv, TypeOK
<1>3. ASSUME ~Asks(prog, WordBoundary), NEW c \in Current, HandlerPasses(t, c)
      PROVE  <<t.pc, Front>> \in Reachable(prog, This.stream)
  BY <1>1, <1>2, <1>3, Running DEF ThreadRight
<1>4. ASSUME RunNextThread PROVE Right'
  <2>1. at' = at /\ UNCHANGED <<prog, contexts, self, size, eof, sp, clist, nlist, added>>
    BY <1>4 DEF RunNextThread, exec, lists
  <2>2. This' = This /\ Front' = Front /\ LastByte' = LastByte
    BY <2>1 DEF This, Front, LastByte
  <2>3. ChunkRight'
    BY <1>2, <2>1, <2>2 DEF CallRight, ChunkRight
  <2>4. CallRight'
    BY <1>2, <2>1, <2>2, <2>3 DEF CallRight, AddedWaits, Index
  <2>. QED  BY <1>2, <2>1, <2>4, InsideRight
<1>5. ASSUME CallPath PROVE Right'
  <2>1. at' = "path" /\ UNCHANGED <<prog, contexts, self, size, eof, sp, ct, clist, nlist, added>>
    BY <1>5 DEF CallPath, exec, lists
  <2>2. Consumes(t.pc) /\ \E c \in Current : HandlerPasses(t, c)
    BY <1>5 DEF CallPath
  <2>3. This' = This /\ Front' = Front /\ LastByte' = LastByte
    BY <2>1 DEF This, Front, LastByte
  <2>4. ChunkRight /\ ChunkRight'
    BY <1>2, <2>1, <2>3 DEF CallRight, ChunkRight
  <2>5. Permits(prog.code[t.pc], This.stream, Front)
    BY <1>2, <2>2, <2>4, ConsumesRight
  <2>6. ReadsRight(prog, This.stream, t.pc, Front)
    BY <1>3, <2>2, <2>5 DEF ReadsRight
  <2>7. CallRight'
    BY <1>2, <2>1, <2>3, <2>4, <2>6 DEF CallRight, AddedWaits, Index
  <2>. QED  BY <2>1, <2>7, InsideRight
<1>6. ASSUME CallMatch PROVE Right'
  <2>1. /\ Return("OK", nlist) /\ prog.code[t.pc].op = "match"
        /\ \E c \in Current : HandlerPasses(t, c)
    BY <1>6 DEF CallMatch
  <2>2. ~Asks(prog, WordBoundary) => Accepted(prog, This.stream)
    BY <1>3, <2>1 DEF Accepted
  <2>. QED  BY <1>2, <2>1, <2>2, ReturnKeepsRight
<1>. QED  BY <1>4, <1>5, <1>6 DEF Run

\* Where the states of the path are: the place of the next byte.
Landing == IF AtStart THEN Front ELSE Front + 1

\* A state of the path whose look-behinds hold: a thread that waits there is right, and
\* when its look-aheads hold too, a search comes to it.
LEMMA StateRight ==
    ASSUME IInv, Right, AtState, BehindHolds(Path[st])
    PROVE  LET state == Path[st]
           IN  /\ CallRight /\ st \in DOMAIN Path
               /\ state \in PathStates /\ Thread(state) \in Threads
               /\ ~Asks(prog, WordBoundary)
                   /\ Holds(state.asserts \cap LookAhead, This.stream, Landing)
                      => <<state.pc, Landing>> \in Reachable(prog, This.stream)
               /\ ~Matched(state) => ThreadRight(prog, This.stream, Thread(state), Landing)
<1>. DEFINE state == Path[st]
            s     == This.stream
            n     == Landing
<1>1. OnPath /\ at \in {"first_buf", "path"} /\ at # "idle" /\ CallRight
  BY DEF AtState, OnPath, Right
<1>2. st \in DOMAIN Path
  <2>1. st \in Nat \ {0} /\ st <= Len(Path)
    BY DEF AtState, IInv, TypeOK
  <2>. QED  BY <1>1, <2>1, PathIsSequence
<1>3. /\ From \in DOMAIN prog.paths /\ state \in PathStates /\ state = prog.paths[From][st]
      /\ WellFormedImage(prog) /\ s \in Seq(Byte) /\ Front \in Nat
  BY <1>1, <1>2, PathIsSequence, PathType, ChunkBytes DEF Path
<1>4. Thread(state) \in Threads
  BY <1>3 DEF Thread, Threads, PathStates, IsWord
<1>5. /\ Thread(state).pc = state.pc
      /\ Thread(state).asserts = state.asserts \cap LookAhead
      /\ Thread(state).seenWord <=> /\ state.asserts \cap WordBoundary # {}
                                     /\ ~AtStart /\ IsWord
  BY DEF Thread
<1>6. ASSUME Holds(state.asserts \cap LookAhead, s, n) PROVE Holds(state.asserts, s, n)
  <2>1. CASE at = "first_buf"
    <3>1. n = 0
      BY <1>1, <2>1 DEF Landing, AtStart, CallRight, ChunkRight
    <3>. QED  BY <1>3, <1>6, <3>1, BehindAtStart
  <2>2. CASE at = "path"
    <3>1. n = Front + 1
      BY <2>2 DEF Landing, AtStart
    <3>. QED  BY <1>3, <1>6, <2>2, <3>1, BehindRight
  <2>. QED  BY <1>1, <2>1, <2>2
<1>7. ASSUME ~Asks(prog, WordBoundary) PROVE Begins(prog, s, From, n)
  <2>1. CASE at = "first_buf"
    BY <1>1, <2>1 DEF Landing, AtStart, CallRight, ChunkRight, Begins, From
  <2>2. CASE at = "path"
    <3>1. n = Front + 1 /\ From = clist[ct].pc
      BY <2>2 DEF Landing, AtStart, From
    <3>2. ct \in DOMAIN clist /\ prog.code[clist[ct].pc].op # "match"
      <4>1. clist \in Seq(Threads) /\ ct \in Nat \ {0} /\ ct <= Len(clist)
            /\ prog.code[clist[ct].pc].op # "match"
        BY <2>2 DEF IInv, TypeOK
      <4>. QED  BY <4>1, LenProperties
    <3>3. ThreadRight(prog, s, clist[ct], Front)
      BY <1>1, <3>2 DEF CallRight, AllRight
    <3>4. From # 0
      BY <3>1, <3>2, <3>3, ThreadConsumes
    <3>5. ReadsRight(prog, s, From, Front)
      BY <1>1, <2>2, <3>1 DEF CallRight
    <3>6. n \in Nat \ {0} /\ n - 1 = Front
      BY <1>3, <3>1
    <3>. QED  BY <1>7, <3>4, <3>5, <3>6 DEF Begins, ReadsRight
  <2>. QED  BY <1>1, <2>1, <2>2
<1>8. ASSUME ~Asks(prog, WordBoundary), Holds(state.asserts \cap LookAhead, s, n)
      PROVE  <<state.pc, n>> \in Reachable(prog, s)
  <2>1. Holds(state.asserts, s, n) /\ Begins(prog, s, From, n)
    BY <1>6, <1>7, <1>8
  <2>2. <<state.pc, state.asserts>> \in Ways(prog, From)
    <3>1. TruePaths(prog)
      BY <1>3 DEF WellFormedImage
    <3>. QED  BY <1>2, <1>3, <3>1 DEF TruePaths, Path
  <2>3. <<Start(From), n>> \in Reachable(prog, s)
    BY <1>3, <2>1, BeginsReached
  <2>4. \A way \in Ways(prog, From) : Holds(way[2], s, n) => <<way[1], n>> \in Reachable(prog, s)
    BY <1>3, <2>3, WaysReach
  <2>. QED  BY <2>1, <2>2, <2>4
<1>9. ASSUME ~Matched(state) PROVE ThreadRight(prog, s, Thread(state), n)
  <2>1. \E spot \in ThreadPlaces(prog.code, prog.paths) :
            IndexAt(prog.paths, spot) = Index(Thread(state))
    <3>1. <<From, st>> \in ThreadPlaces(prog.code, prog.paths)
      BY <1>2, <1>3, <1>9 DEF ThreadPlaces, Matched, Path
    <3>2. IndexAt(prog.paths, <<From, st>>) = Index(Thread(state))
      BY <1>3, <1>5 DEF IndexAt, ThreadIndex, Index
    <3>. QED  BY <3>1, <3>2
  <2>2. SeenRight(s, Thread(state), n)
    <3>1. CASE at = "first_buf"
      <4>1. n = 0 /\ AtStart
        BY <1>1, <3>1 DEF Landing, AtStart, CallRight, ChunkRight
      <4>2. ~WordAt(s, n) /\ ~Thread(state).seenWord
        BY <1>5, <4>1 DEF WordAt
      <4>. QED  BY <4>2 DEF SeenRight
    <3>2. CASE at = "path"
      <4>1. n = Front + 1 /\ ~AtStart /\ (IsWord <=> WordAt(s, n))
        BY <1>1, <3>2, EndsRight DEF Landing, AtStart, CallRight
      <4>2. Thread(state).asserts \cap WordBoundary # {} => state.asserts \cap WordBoundary # {}
        BY <1>5
      <4>. QED  BY <1>5, <4>1, <4>2 DEF SeenRight
    <3>. QED  BY <1>1, <3>1, <3>2
  <2>. QED  BY <1>5, <1>8, <2>1, <2>2 DEF ThreadRight
<1>. QED  BY <1>1, <1>2, <1>3, <1>4, <1>8, <1>9

LEMMA WalkKeepsRight ==
    ASSUME IInv, Right, Walk
    PROVE  Right'
<1>1. OnPath /\ at \in {"first_buf", "path"} /\ CallRight /\ at # "idle"
  BY DEF Walk, SkipState, StateMatches, AddThread, PathEnds, AtState, OnPath, Right
<1>2. clist \in Seq(Threads) /\ nlist \in Seq(Threads)
  BY DEF IInv, TypeOK
<1>3. ASSUME UNCHANGED <<prog, contexts, self, size, eof, sp>>
      PROVE  /\ This' = This /\ Front' = Front /\ LastByte' = LastByte
             /\ at' \in {at, "sp_loop", "run_thread"} /\ (at = "first_buf" => at' # "run_thread")
                    => ChunkRight'
  <2>1. This' = This /\ Front' = Front /\ LastByte' = LastByte
    BY <1>3 DEF This, Front, LastByte
  <2>. QED  BY <1>1, <1>3, <2>1 DEF CallRight, ChunkRight
<1>4. ASSUME SkipState PROVE Right'
  <2>1. at' = at /\ UNCHANGED <<prog, contexts, self, size, eof, sp, ct, clist, nlist, added>>
    BY <1>4 DEF SkipState, exec, lists
  <2>2. This' = This /\ Front' = Front /\ ChunkRight'
    BY <1>1, <1>3, <2>1
  <2>3. CallRight'
    BY <1>1, <2>1, <2>2 DEF CallRight, AddedWaits, Index
  <2>. QED  BY <1>1, <2>1, <2>3, InsideRight
<1>5. ASSUME StateMatches PROVE Right'
  <2>. DEFINE state == Path[st]
  <2>1. /\ AtState /\ BehindHolds(state) /\ Matched(state)
        /\ Return("OK", IF AtStart THEN clist ELSE nlist)
    BY <1>5 DEF StateMatches
  <2>2. prog.code[state.pc].op = "match" /\ state.asserts \cap LookAhead = {}
    BY <2>1 DEF Matched, IsThread
  <2>3. ~Asks(prog, WordBoundary) => Accepted(prog, This.stream)
    <3>1. Holds({}, This.stream, Landing)
      BY DEF Holds
    <3>2. ~Asks(prog, WordBoundary) => <<state.pc, Landing>> \in Reachable(prog, This.stream)
      BY <2>1, <2>2, <3>1, StateRight
    <3>. QED  BY <2>2, <3>2 DEF Accepted
  <2>. QED  BY <1>1, <1>2, <2>1, <2>3, ReturnKeepsRight
<1>6. ASSUME AddThread PROVE Right'
  <2>. DEFINE t == Thread(Path[st])
  <2>1. /\ AtState /\ BehindHolds(Path[st]) /\ ~Matched(Path[st])
        /\ at' = at /\ UNCHANGED <<prog, contexts, self, size, eof, sp, ct>>
    BY <1>6 DEF AddThread, exec
  <2>2. t \in Threads /\ ThreadRight(prog, This.stream, t, Landing)
    BY <2>1, StateRight
  <2>3. t.pc = Path[st].pc /\ t.asserts = Path[st].asserts \cap LookAhead
    BY DEF Thread
  <2>4. This' = This /\ Front' = Front /\ ChunkRight'
    BY <1>1, <1>3, <2>1
  <2>5. Index(t) = ThreadIndex(Path[st])
    BY <2>3 DEF Index, ThreadIndex
  <2>. HIDE DEF t
  <2>6. CASE at = "first_buf"
    <3>1. clist' = Append(clist, t) /\ UNCHANGED <<nlist, added>> /\ Landing = Front
      BY <1>6, <2>6 DEF AddThread, AtStart, Landing, t
    <3>2. AllRight(prog, This.stream, clist', Front)
      BY <1>1, <1>2, <2>2, <3>1, RightGrows DEF CallRight
    <3>3. CallRight'
      BY <1>1, <2>1, <2>4, <2>6, <3>1, <3>2 DEF CallRight
    <3>. QED  BY <1>1, <2>1, <3>3, InsideRight
  <2>7. CASE at = "path"
    <3>1. /\ nlist' = Append(nlist, t) /\ UNCHANGED clist /\ Landing = Front + 1
          /\ added' = added \cup ({ThreadIndex(Path[st])} \cap prog.dups)
      BY <1>6, <2>7 DEF AddThread, AtStart, Landing, t
    <3>2. AllRight(prog, This.stream, nlist', Front + 1)
      BY <1>1, <1>2, <2>2, <3>1, RightGrows DEF CallRight
    <3>3. /\ DOMAIN nlist' = DOMAIN nlist \cup {Len(nlist) + 1}
          /\ \A j \in DOMAIN nlist : nlist'[j] = nlist[j]
          /\ nlist'[Len(nlist) + 1] = t
      <4>1. /\ DOMAIN nlist' = 1 .. Len(nlist) + 1 /\ DOMAIN nlist = 1 .. Len(nlist)
            /\ Len(nlist) \in Nat
            /\ \A j \in 1 .. Len(nlist) : nlist'[j] = nlist[j]
            /\ nlist'[Len(nlist) + 1] = t
        BY <1>2, <2>2, <3>1, AppendProperties, LenProperties
      <4>. QED  BY <4>1
    <3>4. AddedWaits'
      <4>1. SUFFICES ASSUME NEW index \in added'
                     PROVE  \E j \in DOMAIN nlist' : Index(nlist'[j]) = index
        BY DEF AddedWaits, Index
      <4>2. CASE index \in added
        <5>1. PICK j \in DOMAIN nlist : Index(nlist[j]) = index
          BY <1>1, <2>7, <4>2 DEF CallRight, AddedWaits
        <5>. QED  BY <3>3, <5>1
      <4>3. CASE index = ThreadIndex(Path[st])
        BY <2>5, <3>3, <4>3
      <4>. QED  BY <3>1, <4>2, <4>3
    <3>5. CallRight'
      BY <1>1, <2>1, <2>4, <2>7, <3>1, <3>2, <3>4 DEF CallRight
    <3>. QED  BY <1>1, <2>1, <3>5, InsideRight
  <2>. QED  BY <1>1, <2>6, <2>7
<1>7. ASSUME PathEnds PROVE Right'
  <2>1. /\ at' = IF at = "first_buf" THEN "sp_loop" ELSE "run_thread"
        /\ UNCHANGED <<prog, contexts, self, size, eof, sp, clist, nlist, added>>
    BY <1>7 DEF PathEnds, AtStart, exec, lists
  <2>2. This' = This /\ Front' = Front /\ ChunkRight'
    BY <1>1, <1>3, <2>1
  <2>3. CallRight'
    BY <1>1, <2>1, <2>2 DEF CallRight, AddedWaits, Index
  <2>. QED  BY <1>1, <2>1, <2>3, InsideRight
<1>. QED  BY <1>4, <1>5, <1>6, <1>7 DEF Walk

LEMMA RightStep == IInv /\ Right /\ [Next]_vars => Right'
<1>. SUFFICES ASSUME IInv, Right, [Next]_vars PROVE Right'
  OBVIOUS
<1>1. CASE Caller
  BY <1>1, CallerKeepsRight
<1>2. CASE Machine
  BY <1>2, LoopKeepsRight, RunKeepsRight, WalkKeepsRight DEF Machine
<1>3. CASE UNCHANGED vars
  <2>1. UNCHANGED <<prog, contexts, at, self, sp, size, eof, ct, clist, nlist, added>>
    BY <1>3 DEF vars, exec, lists
  <2>2. This' = This /\ Front' = Front /\ LastByte' = LastByte
    BY <2>1 DEF This, Front, LastByte
  <2>3. CallRight => CallRight'
    BY <2>1, <2>2 DEF CallRight, ChunkRight, AddedWaits, Index
  <2>. QED  BY <2>1, <2>3 DEF Right
<1>. QED  BY <1>1, <1>2, <1>3 DEF Next

LEMMA RightInit == Init => Right
BY DEF Init, Right

\* The table of meanings says what they are.
LEMMA MeaningIs ==
    ASSUME NEW image \in Images, NEW s \in Streams
    PROVE  IsAccepted(image, s) <=> Accepted(image, s)
<1>1. ASSUME Accepted(image, s) PROVE IsAccepted(image, s)
  BY <1>1 DEF IsAccepted, Meanings
<1>2. ASSUME IsAccepted(image, s) PROVE Accepted(image, s)
  <2>1. PICK i \in Images, t \in Streams :
            <<image, s, "OK">> = <<i, t, IF Accepted(i, t) THEN "OK" ELSE "DECLINED">>
    BY <1>2 DEF IsAccepted, Meanings
  <2>2. image = i /\ s = t /\ Accepted(i, t)
    BY <2>1
  <2>. QED  BY <2>2
<1>. QED  BY <1>1, <1>2

\* A call of the machine code says SRE_OK only when its stream has a match, whatever the
\* chunks, the other contexts and the caller's compiling: in every program where no state
\* asks for \\b and \\B at once.  (The handler leaves \\B out when \\b is there.)
THEOREM MatchesAreFound == Spec => [](~Asks(prog, WordBoundary) => MatchesAreReal)
<1>. DEFINE Inv == IInv /\ Right
<1>1. Init => Inv
  BY InitIInv, RightInit
<1>2. Inv /\ [Next]_vars => Inv'
  BY Step, RightStep
<1>3. Inv => (~Asks(prog, WordBoundary) => MatchesAreReal)
  <2>. SUFFICES ASSUME IInv, Right, ~Asks(prog, WordBoundary), NEW c \in DOMAIN contexts,
                       contexts[c].out = "OK"
                PROVE  IsAccepted(prog, contexts[c].stream)
    BY DEF MatchesAreReal
  <2>1. Accepted(prog, contexts[c].stream)
    BY DEF Right, KeptRight
  <2>2. prog \in Images /\ contexts[c].stream \in Streams
    <3>1. contexts \in Seq(Contexts)
      BY DEF IInv, TypeOK
    <3>2. contexts[c] \in Contexts
      BY <3>1, ElementOfSeq, LenProperties
    <3>. QED  BY <3>2 DEF IInv, Contexts
  <2>. QED  BY <2>1, <2>2, MeaningIs
<1>. QED  BY <1>1, <1>2, <1>3, PTL DEF Spec

-----------------------------------------------------------------------------
(* No match is missed. *)

\* The list that the states of the path are added to.
Joined == IF AtStart THEN clist ELSE nlist

\* A thread that has been run: if its assertions hold it is no match, and if its byte is
\* there, each state of its path has been served.
Passed(p, s, t, list, n) ==
    Holds(t.asserts, s, n) =>
        /\ p.code[t.pc].op # "match"
        /\ Permits(p.code[t.pc], s, n) =>
            \A m \in DOMAIN p.paths[t.pc] : Served(list, p.paths[t.pc][m], s, n + 1)

\* Between two calls, the threads of a context hear all; and a stream without an end to
\* come has no match.
KeptWhole(p, kept, running) ==
    /\ kept.out \in {"none", "AGAIN"} /\ ~kept.firstBuf /\ ~running
           => /\ Heard(p, kept.stream, kept.threads, kept.base)
              /\ NoMatchBefore(p, kept.stream, kept.base)
    /\ kept.out = "DECLINED" => ~Accepted(p, kept.stream)

CallWhole ==
    /\ NoMatchBefore(prog, This.stream, Front)
    /\ at # "first_buf" => Heard(prog, This.stream, clist, Front)
    /\ at \in {"run_thread", "path"} =>
        \A j \in DOMAIN clist : j < ct => Passed(prog, This.stream, clist[j], nlist, Front)
    /\ OnPath => \A m \in DOMAIN Path : m < st => Served(Joined, Path[m], This.stream, Landing)

Whole ==
    /\ \A c \in DOMAIN contexts : KeptWhole(prog, contexts[c], at # "idle" /\ c = self)
    /\ at # "idle" => CallWhole

\* The hypotheses of the theorem.
Easy(p) == WholePaths(p) /\ ~Asks(p, {"\\z", "$"})

\* What has been served stays so in a list that grows.
LEMMA WaitsOn ==
    ASSUME NEW list, NEW more, DOMAIN list \subseteq DOMAIN more,
           \A j \in DOMAIN list : more[j] = list[j]
    PROVE  /\ \A state, s, n : Served(list, state, s, n) => Served(more, state, s, n)
           /\ \A p, s, t, n : Passed(p, s, t, list, n) => Passed(p, s, t, more, n)
<1>1. \A pc, s, n : Waits(list, pc, s, n) => Waits(more, pc, s, n)
  BY DEF Waits
<1>2. \A state, s, n : Served(list, state, s, n) => Served(more, state, s, n)
  BY <1>1 DEF Served
<1>3. ASSUME NEW p, NEW s, NEW t, NEW n, Passed(p, s, t, list, n)
      PROVE  Passed(p, s, t, more, n)
  BY <1>2, <1>3 DEF Passed
<1>. QED  BY <1>2, <1>3

\* The invariant after a step inside a call.
LEMMA InsideWhole ==
    ASSUME Whole, at # "idle", at' # "idle", UNCHANGED <<prog, contexts, self>>, CallWhole'
    PROVE  Whole'
BY DEF Whole

LEMMA ReturnKeepsWhole ==
    ASSUME IInv, Whole, at # "idle", NEW rc \in {"OK", "AGAIN", "DECLINED"},
           NEW threads \in Seq(Threads), Return(rc, threads),
           rc = "AGAIN" => /\ Heard(prog, This.stream, threads, This.base + size)
                           /\ NoMatchBefore(prog, This.stream, This.base + size),
           rc = "DECLINED" => ~Accepted(prog, This.stream)
    PROVE  Whole'
<1>1. LET new == contexts'[self]
      IN  /\ at' = "idle" /\ prog' = prog /\ self \in DOMAIN contexts
          /\ DOMAIN contexts' = DOMAIN contexts
          /\ new.stream = This.stream /\ new.base = This.base + size /\ new.out = rc
          /\ new.threads = threads
          /\ \A d \in DOMAIN contexts : d # self => contexts'[d] = contexts[d]
  BY Returned
<1>2. KeptWhole(prog, contexts'[self], FALSE)
  BY <1>1 DEF KeptWhole
<1>3. \A d \in DOMAIN contexts : d # self => KeptWhole(prog, contexts[d], FALSE)
  <2>1. \A d \in DOMAIN contexts : KeptWhole(prog, contexts[d], at # "idle" /\ d = self)
    BY DEF Whole
  <2>. QED  BY <2>1 DEF KeptWhole
<1>4. \A d \in DOMAIN contexts' : KeptWhole(prog', contexts'[d], FALSE)
  BY <1>1, <1>2, <1>3
<1>5. \A d \in DOMAIN contexts' : KeptWhole(prog', contexts'[d], at' # "idle" /\ d = self')
  BY <1>1, <1>4 DEF KeptWhole
<1>. QED  BY <1>1, <1>5 DEF Whole

LEMMA CallerKeepsWhole ==
    ASSUME IInv, Right, Whole, Caller
    PROVE  Whole'
<1>0. at = "idle"
  BY DEF Caller, JitCompile, JitFree, CreateCtx, Exec
<1>1. \A d \in DOMAIN contexts : KeptWhole(prog, contexts[d], FALSE)
  BY <1>0 DEF Whole, KeptWhole
<1>2. ASSUME JitCompile \/ JitFree PROVE Whole'
  <2>1. at' = "idle" /\ UNCHANGED <<prog, contexts>>
    BY <1>2 DEF JitCompile, JitFree
  <2>. QED  BY <1>1, <2>1 DEF Whole, KeptWhole
<1>3. ASSUME CreateCtx PROVE Whole'
  <2>. DEFINE new == contexts'[Len(contexts) + 1]
  <2>1. /\ at' = "idle" /\ prog' = prog
        /\ DOMAIN contexts' = DOMAIN contexts \cup {Len(contexts) + 1}
        /\ \A d \in DOMAIN contexts : contexts'[d] = contexts[d]
        /\ new.out = "none" /\ new.firstBuf
    BY <1>3, Created
  <2>2. KeptWhole(prog, new, FALSE)
    BY <2>1 DEF KeptWhole
  <2>3. \A d \in DOMAIN contexts' : KeptWhole(prog', contexts'[d], FALSE)
    BY <1>1, <2>1, <2>2
  <2>. QED  BY <2>1, <2>3 DEF Whole, KeptWhole
<1>4. ASSUME Exec PROVE Whole'
  <2>1. PICK c \in DOMAIN contexts :
          LET old == contexts[c]
              new == contexts'[c]
          IN  /\ old.out \in {"none", "AGAIN"} /\ old.base \in Nat /\ old.stream \in Streams
              /\ prog' = prog /\ at' = IF old.firstBuf THEN "first_buf" ELSE "sp_loop"
              /\ self' = c /\ sp' = 0 /\ st' = 1 /\ clist' = old.threads
              /\ DOMAIN contexts' = DOMAIN contexts
              /\ new.stream = old.stream /\ new.base = old.base /\ new.out = old.out
              /\ \A d \in DOMAIN contexts : d # c => contexts'[d] = contexts[d]
    BY <1>4, Executed
  <2>. DEFINE old == contexts[c]
  <2>2. \A d \in DOMAIN contexts' : KeptWhole(prog', contexts'[d], at' # "idle" /\ d = self')
    <3>1. SUFFICES ASSUME NEW d \in DOMAIN contexts'
                   PROVE  KeptWhole(prog, contexts'[d], at' # "idle" /\ d = self')
      BY <2>1
    <3>2. CASE d = c
      BY <2>1, <3>2 DEF KeptWhole
    <3>3. CASE d # c
      BY <1>1, <2>1, <3>3 DEF KeptWhole
    <3>. QED  BY <3>2, <3>3
  <2>3. This' = contexts'[c] /\ Front' = old.base /\ This'.stream = old.stream
    BY <2>1 DEF This, Front
  <2>4. CASE old.firstBuf
    <3>1. at' = "first_buf" /\ old.base = 0
      BY <2>1, <2>4 DEF Right, KeptRight
    <3>2. NoMatchBefore(prog, old.stream, 0)
      <4>1. WellFormedCode(prog) /\ old.stream \in Seq(Byte)
        BY <2>1, ImagesAssumption, JITAssumption DEF IInv, WellFormedImage
      <4>2. \A place \in Reachable(prog, old.stream) : place[2] >= 0
        BY <4>1, ReachedType
      <4>. QED  BY <4>2 DEF NoMatchBefore
    <3>3. \A m \in DOMAIN Path' : ~(m < st')
      <4>1. IInv' /\ OnPath'
        BY <3>1, <1>4, ExecStep DEF OnPath
      <4>2. Path' = prog.paths[0] /\ prog.paths[0] \in Seq(PathStates)
        <5>1. Path' = prog.paths[0]
          BY <2>1, <3>1 DEF Path, From
        <5>2. WellFormedImage(prog)
          BY ImagesAssumption DEF IInv
        <5>. QED  BY <5>1, <5>2 DEF WellFormedImage, PathStates
      <4>3. DOMAIN Path' = 1 .. Len(Path')
        BY <4>2, LenProperties
      <4>. QED  BY <2>1, <4>3
    <3>4. CallWhole'
      BY <2>1, <2>3, <3>1, <3>2, <3>3 DEF CallWhole
    <3>. QED  BY <2>2, <3>4 DEF Whole
  <2>5. CASE ~old.firstBuf
    <3>1. at' = "sp_loop" /\ ~OnPath'
      BY <2>1, <2>5 DEF OnPath
    <3>2. /\ Heard(prog, old.stream, old.threads, old.base)
          /\ NoMatchBefore(prog, old.stream, old.base)
      BY <1>1, <2>1, <2>5 DEF KeptWhole
    <3>3. CallWhole'
      BY <2>1, <2>3, <3>1, <3>2 DEF CallWhole
    <3>. QED  BY <2>2, <3>3 DEF Whole
  <2>. QED  BY <2>4, <2>5
<1>. QED  BY <1>2, <1>3, <1>4 DEF Caller

\* When all threads of the list have been run, no match is here, and the next list hears
\* all that comes.
LEMMA AllPassed ==
    ASSUME NEW p, WellFormedImage(p), WholePaths(p), NEW s \in Seq(Byte), NEW n \in Nat,
           NEW list, NEW more, NoMatchBefore(p, s, n), Heard(p, s, list, n),
           \A j \in DOMAIN list : Passed(p, s, list[j], more, n)
    PROVE  NoMatchBefore(p, s, n + 1) /\ Heard(p, s, more, n + 1)
<1>1. WellFormedCode(p)
  BY DEF WellFormedImage
<1>2. ASSUME NEW place \in Reachable(p, s), p.code[place[1]].op = "match"
      PROVE  place[2] >= n + 1
  <2>1. place[2] >= n /\ place[2] \in Nat
    <3>1. place[2] \in 0 .. Len(s)
      BY <1>1, ReachedType
    <3>. QED  BY <1>2, <3>1 DEF NoMatchBefore
  <2>2. ASSUME place[2] = n PROVE FALSE
    <3>1. Waits(list, place[1], s, n)
      BY <1>2, <2>2 DEF Heard
    <3>2. PICK j \in DOMAIN list : list[j].pc = place[1] /\ Holds(list[j].asserts, s, n)
      BY <3>1 DEF Waits
    <3>. QED  BY <1>2, <3>2 DEF Passed
  <2>. QED  BY <2>1, <2>2
<1>3. ASSUME NEW pc \in DOMAIN p.paths, Begins(p, s, pc, n + 1), NEW m \in DOMAIN p.paths[pc]
      PROVE  Served(more, p.paths[pc][m], s, n + 1)
  <2>1. pc # 0 /\ <<pc, n>> \in Reachable(p, s) /\ Permits(p.code[pc], s, n)
    <3>1. n + 1 # 0 /\ n + 1 - 1 = n
      OBVIOUS
    <3>. QED  BY <1>3, <3>1 DEF Begins
  <2>2. p.code[pc].op \in Consumers
    BY <2>1, StartLive
  <2>3. Waits(list, pc, s, n)
    <3>1. <<pc, n>>[1] = pc /\ <<pc, n>>[2] = n
      OBVIOUS
    <3>. QED  BY <2>1, <2>2, <3>1 DEF Heard
  <2>4. PICK j \in DOMAIN list : list[j].pc = pc /\ Holds(list[j].asserts, s, n)
    BY <2>3 DEF Waits
  <2>. QED  BY <2>1, <2>4 DEF Passed
<1>4. Heard(p, s, more, n + 1)
  BY <1>3, HeardWhen
<1>. QED  BY <1>2, <1>4 DEF NoMatchBefore

LEMMA LoopKeepsWhole ==
    ASSUME IInv, Right, Easy(prog), Whole, Loop
    PROVE  Whole'
<1>1. /\ at \in {"sp_loop", "run_thread"} /\ CallRight /\ CallWhole /\ prog' = prog
      /\ Heard(prog, This.stream, clist, Front) /\ NoMatchBefore(prog, This.stream, Front)
  BY DEF Loop, LoopEnd, RunCurThreads, RunThreadsDone, Right, Return, Whole, CallWhole
<1>2. /\ clist \in Seq(Threads) /\ nlist \in Seq(Threads) /\ sp \in Nat /\ size \in Nat
      /\ sp <= size /\ This.base \in Nat /\ This.stream \in Seq(Byte) /\ Front \in Nat
      /\ WellFormedImage(prog) /\ WellFormedCode(prog) /\ Len(This.stream) \in Nat
  BY <1>1, ChunkBytes DEF IInv, TypeOK
<1>3. ASSUME LoopEnd PROVE Whole'
  <2>1. Done /\ Return(IF eof THEN "DECLINED" ELSE "AGAIN", clist)
    BY <1>3 DEF LoopEnd
  <2>2. CASE clist = <<>>
    <3>1. /\ ~Accepted(prog, This.stream)
          /\ \A m \in Nat : m >= Front => /\ Heard(prog, This.stream, clist, m)
                                        /\ NoMatchBefore(prog, This.stream, m)
      BY <1>1, <1>2, <2>2, NobodyWaits
    <3>2. This.base + size \in Nat /\ This.base + size >= Front
      BY <1>2 DEF Front
    <3>. QED  BY <1>1, <1>2, <2>1, <3>1, <3>2, ReturnKeepsWhole
  <2>3. CASE LastByte /\ ~eof
    <3>1. This.base + size = Front
      BY <2>3 DEF LastByte, Front
    <3>. QED  BY <1>1, <1>2, <2>1, <2>3, <3>1, ReturnKeepsWhole
  <2>. QED  BY <2>1, <2>2, <2>3 DEF Done
<1>4. ASSUME RunCurThreads PROVE Whole'
  <2>1. /\ at = "sp_loop" /\ at' = "run_thread" /\ ct' = 1
        /\ UNCHANGED <<prog, contexts, self, sp, clist, nlist>>
    BY <1>4 DEF RunCurThreads, exec
  <2>2. This' = This /\ Front' = Front /\ ~OnPath'
    BY <2>1 DEF This, Front, OnPath
  <2>3. DOMAIN clist = 1 .. Len(clist)
    BY <1>2, LenProperties
  <2>4. \A j \in DOMAIN clist : ~(j < 1)
    BY <2>3
  <2>5. CallWhole'
    BY <1>1, <2>1, <2>2, <2>4 DEF CallWhole
  <2>. QED  BY <1>1, <2>1, <2>5, InsideWhole
<1>5. ASSUME RunThreadsDone PROVE Whole'
  <2>1. at = "run_thread" /\ ct > Len(clist)
    BY <1>5 DEF RunThreadsDone
  <2>2. DOMAIN clist = 1 .. Len(clist) /\ Len(clist) \in Nat /\ ct \in Nat
    BY <1>2, LenProperties DEF IInv, TypeOK
  <2>3. \A j \in DOMAIN clist : Passed(prog, This.stream, clist[j], nlist, Front)
    BY <1>1, <2>1, <2>2 DEF CallWhole
  <2>4. /\ NoMatchBefore(prog, This.stream, Front + 1)
        /\ Heard(prog, This.stream, nlist, Front + 1)
    BY <1>1, <1>2, <2>3, AllPassed DEF Easy
  <2>5. CASE LastByte
    <3>1. Return(IF eof THEN "DECLINED" ELSE "AGAIN", nlist)
      BY <1>5, <2>5 DEF RunThreadsDone
    <3>2. eof /\ Front = Len(This.stream)
      BY <1>1, <2>1, <2>5, EndsRight DEF CallRight, ChunkRight
    <3>3. ~Accepted(prog, This.stream)
      <4>1. ASSUME NEW place \in Reachable(prog, This.stream)
            PROVE  prog.code[place[1]].op # "match"
        <5>1. place[2] \in 0 .. Len(This.stream)
          BY <1>2, ReachedType
        <5>. QED  BY <1>2, <2>4, <3>2, <5>1 DEF NoMatchBefore
      <4>. QED  BY <4>1 DEF Accepted
    <3>. QED  BY <1>1, <1>2, <3>1, <3>2, <3>3, ReturnKeepsWhole
  <2>6. CASE ~LastByte
    <3>1. /\ clist' = nlist /\ at' = "sp_loop" /\ sp' = sp + 1
          /\ UNCHANGED <<prog, contexts, self>>
      BY <1>5, <2>6 DEF RunThreadsDone
    <3>2. This' = This /\ Front' = Front + 1 /\ ~OnPath'
      <4>1. This' = This
        BY <3>1 DEF This
      <4>2. ~OnPath'
        BY <3>1 DEF OnPath
      <4>3. This.base \in Nat /\ sp \in Nat
        BY <1>2
      <4>. QED  BY <3>1, <4>1, <4>2, <4>3 DEF Front
    <3>3. /\ NoMatchBefore(prog', This'.stream, Front')
          /\ Heard(prog', This'.stream, clist', Front')
      BY <2>4, <3>1, <3>2
    <3>4. CallWhole'
      BY <3>1, <3>2, <3>3 DEF CallWhole
    <3>. QED  BY <1>1, <3>1, <3>4, InsideWhole
  <2>. QED  BY <2>5, <2>6
<1>. QED  BY <1>3, <1>4, <1>5 DEF Loop

LEMMA RunKeepsWhole ==
    ASSUME IInv, Right, Easy(prog), Whole, Run
    PROVE  Whole'
<1>. DEFINE t == clist[ct]
            s == This.stream
<1>1. AtThread
  BY DEF Run, RunNextThread, CallPath, CallMatch
<1>2. /\ at = "run_thread" /\ CallRight /\ CallWhole /\ nlist \in Seq(Threads)
      /\ ct \in DOMAIN clist /\ clist \in Seq(Threads) /\ ChunkRight
      /\ ThreadRight(prog, s, t, Front)
  BY <1>1, Running DEF IInv, TypeOK, Whole, CallRight
<1>3. \A c \in Current : Holds(t.asserts, s, Front) => HandlerPasses(t, c)
  BY <1>1, Running DEF Easy
<1>4. ASSUME RunNextThread PROVE Whole'
  <2>1. /\ ct' = ct + 1 /\ at' = at /\ UNCHANGED <<prog, contexts, self, sp, clist, nlist>>
    BY <1>4 DEF RunNextThread, NextThread, exec, lists
  <2>2. This' = This /\ Front' = Front /\ ~OnPath'
    BY <1>2, <2>1 DEF This, Front, OnPath
  <2>3. Passed(prog, s, t, nlist, Front)
    <3>1. SUFFICES ASSUME Holds(t.asserts, s, Front)
                   PROVE  prog.code[t.pc].op # "match" /\ ~Permits(prog.code[t.pc], s, Front)
      BY DEF Passed
    <3>2. prog.code[t.pc].op # "match" /\ ~Consumes(t.pc)
      BY <1>3, <1>4, <3>1 DEF RunNextThread
    <3>3. prog.code[t.pc].op \in Consumers
      BY <1>2, <3>2, ThreadConsumes
    <3>. QED  BY <1>2, <3>2, <3>3, ConsumesRight
  <2>4. \A j \in DOMAIN clist : j < ct + 1 => Passed(prog, s, clist[j], nlist, Front)
    <3>1. DOMAIN clist = 1 .. Len(clist) /\ Len(clist) \in Nat /\ ct \in Nat
      BY <1>2, LenProperties DEF IInv, TypeOK
    <3>2. ASSUME NEW j \in DOMAIN clist, j < ct + 1 PROVE j < ct \/ j = ct
      BY <3>1, <3>2
    <3>. QED  BY <1>2, <2>3, <3>2 DEF CallWhole
  <2>5. CallWhole'
    BY <1>2, <2>1, <2>2, <2>4 DEF CallWhole
  <2>. QED  BY <1>2, <2>1, <2>5, InsideWhole
<1>5. ASSUME CallPath PROVE Whole'
  <2>1. /\ at' = "path" /\ st' = 1 /\ UNCHANGED <<prog, contexts, self, sp, ct, clist, nlist>>
    BY <1>5 DEF CallPath, exec, lists
  <2>2. This' = This /\ Front' = Front
    BY <2>1 DEF This, Front
  <2>3. \A m \in DOMAIN Path' : ~(m < st')
    <3>1. prog.code[t.pc].op # "match"
      BY <1>5 DEF CallPath
    <3>2. t.pc \in DOMAIN prog.paths /\ WellFormedImage(prog)
      BY <1>2, <3>1, ThreadConsumes, ImagesAssumption DEF IInv
    <3>3. Path' = prog.paths[t.pc]
      BY <2>1 DEF Path, From
    <3>4. Path' \in Seq(PathStates)
      BY <3>2, <3>3 DEF WellFormedImage, PathStates
    <3>5. DOMAIN Path' = 1 .. Len(Path')
      BY <3>4, LenProperties
    <3>. QED  BY <2>1, <3>5
  <2>4. CallWhole'
    BY <1>2, <2>1, <2>2, <2>3 DEF CallWhole
  <2>. QED  BY <1>2, <2>1, <2>4, InsideWhole
<1>6. ASSUME CallMatch PROVE Whole'
  <2>1. Return("OK", nlist)
    BY <1>6 DEF CallMatch
  <2>. QED  BY <1>2, <2>1, ReturnKeepsWhole
<1>. QED  BY <1>4, <1>5, <1>6 DEF Run

LEMMA WalkKeepsWhole ==
    ASSUME IInv, Right, Easy(prog), Whole, Walk
    PROVE  Whole'
<1>. DEFINE s == This.stream
<1>1. /\ OnPath /\ at \in {"first_buf", "path"} /\ at # "idle" /\ CallRight /\ CallWhole
      /\ ChunkRight
  BY DEF Walk, SkipState, StateMatches, AddThread, PathEnds, AtState, OnPath, Right, Whole,
         CallRight
<1>2. /\ clist \in Seq(Threads) /\ nlist \in Seq(Threads) /\ st \in Nat \ {0} /\ ct \in Nat \ {0}
      /\ DOMAIN Path = 1 .. Len(Path) /\ Len(Path) \in Nat
      /\ WellFormedImage(prog) /\ s \in Seq(Byte)
  BY <1>1, PathIsSequence, ChunkBytes DEF IInv, TypeOK
<1>3. /\ at = "first_buf" => Landing = 0 /\ Front = 0 /\ Joined = clist /\ Path = prog.paths[0]
      /\ at = "path" => Landing = Front + 1 /\ Joined = nlist /\ Path = prog.paths[clist[ct].pc]
  BY <1>1 DEF Landing, Joined, AtStart, ChunkRight, Path, From
<1>4. \A m \in DOMAIN Path : m < st => Served(Joined, Path[m], s, Landing)
  BY <1>1 DEF CallWhole
<1>5. \A m \in DOMAIN Path : m < st + 1 => m < st \/ m = st
  BY <1>2
<1>6. ASSUME AtState, BehindHolds(Path[st]) => Waits(Joined, Path[st].pc, s, Landing)
                                 \/ ~Holds(Path[st].asserts \cap LookAhead, s, Landing)
      PROVE  Served(Joined, Path[st], s, Landing)
  <2>1. st \in DOMAIN Path
    BY <1>2, <1>6 DEF AtState
  <2>2. Path[st] \in PathStates
    BY <1>1, <2>1, PathType
  <2>3. Holds(Path[st].asserts, s, Landing)
            => BehindHolds(Path[st]) /\ Holds(Path[st].asserts \cap LookAhead, s, Landing)
    <3>1. CASE at = "first_buf"
      BY <1>3, <2>2, <3>1, BehindAtStart DEF BehindHolds, AtStart
    <3>2. CASE at = "path"
      BY <1>3, <2>2, <3>2, BehindRight
    <3>. QED  BY <1>1, <3>1, <3>2
  <2>. QED  BY <1>6, <2>3 DEF Served
<1>7. ASSUME SkipState PROVE Whole'
  <2>1. /\ AtState /\ st' = st + 1 /\ at' = at
        /\ UNCHANGED <<prog, contexts, self, sp, ct, clist, nlist>>
    BY <1>7 DEF SkipState, exec, lists
  <2>2. This' = This /\ Front' = Front /\ Path' = Path /\ Joined' = Joined /\ Landing' = Landing
        /\ OnPath'
    BY <1>1, <2>1 DEF This, Front, Path, From, Joined, Landing, AtStart, OnPath
  <2>3. ASSUME BehindHolds(Path[st])
        PROVE  \/ Waits(Joined, Path[st].pc, s, Landing)
               \/ ~Holds(Path[st].asserts \cap LookAhead, s, Landing)
    <3>1. AddedBefore(Path[st])
      BY <1>7, <2>3 DEF SkipState
    <3>2. at = "path" /\ ThreadIndex(Path[st]) \in added
      BY <1>1, <3>1 DEF AddedBefore, AtStart
    <3>3. PICK j \in DOMAIN nlist : Index(nlist[j]) = ThreadIndex(Path[st])
      BY <1>1, <3>2 DEF CallRight, AddedWaits
    <3>4. nlist[j].pc = Path[st].pc /\ nlist[j].asserts = Path[st].asserts \cap LookAhead
      BY <3>3 DEF Index, ThreadIndex
    <3>. QED  BY <1>3, <3>2, <3>4 DEF Waits
  <2>4. Served(Joined, Path[st], s, Landing)
    BY <1>6, <2>1, <2>3
  <2>5. CallWhole'
    BY <1>1, <1>4, <1>5, <2>1, <2>2, <2>4 DEF CallWhole
  <2>. QED  BY <1>1, <2>1, <2>5, InsideWhole
<1>8. ASSUME StateMatches PROVE Whole'
  <2>1. Return("OK", IF AtStart THEN clist ELSE nlist)
    BY <1>8 DEF StateMatches
  <2>. QED  BY <1>1, <1>2, <2>1, ReturnKeepsWhole
<1>9. ASSUME AddThread PROVE Whole'
  <2>. DEFINE t == Thread(Path[st])
  <2>1. /\ AtState /\ BehindHolds(Path[st]) /\ ~Matched(Path[st]) /\ st' = st + 1 /\ at' = at
        /\ UNCHANGED <<prog, contexts, self, sp, ct>>
    BY <1>9 DEF AddThread, exec
  <2>2. t \in Threads /\ t.pc = Path[st].pc /\ t.asserts = Path[st].asserts \cap LookAhead
    BY <2>1, StateRight DEF Thread
  <2>. HIDE DEF t
  <2>3. /\ Joined' = Append(Joined, t)
        /\ at = "first_buf" => nlist' = nlist
        /\ at = "path" => clist' = clist /\ nlist' = Joined'
    BY <1>1, <1>9, <2>1 DEF AddThread, Joined, AtStart, t
  <2>4. /\ DOMAIN Joined \subseteq DOMAIN Joined'
        /\ \A j \in DOMAIN Joined : Joined'[j] = Joined[j]
        /\ Len(Joined) + 1 \in DOMAIN Joined' /\ Joined'[Len(Joined) + 1] = t
    <3>1. Joined \in Seq(Threads)
      BY <1>2 DEF Joined
    <3>2. /\ DOMAIN Joined' = 1 .. Len(Joined) + 1 /\ DOMAIN Joined = 1 .. Len(Joined)
          /\ Len(Joined) \in Nat
          /\ \A j \in 1 .. Len(Joined) : Joined'[j] = Joined[j]
          /\ Joined'[Len(Joined) + 1] = t
      BY <2>2, <2>3, <3>1, AppendProperties, LenProperties
    <3>. QED  BY <3>2
  <2>5. /\ \A state, n : Served(Joined, state, s, n) => Served(Joined', state, s, n)
        /\ \A r, n : Passed(prog, s, r, Joined, n) => Passed(prog, s, r, Joined', n)
    BY <2>4, WaitsOn
  <2>6. This' = This /\ Front' = Front /\ Landing' = Landing /\ OnPath'
    BY <1>1, <2>1 DEF This, Front, Landing, AtStart, OnPath
  <2>7. Path' = Path
    BY <1>1, <2>1, <2>3 DEF Path, From
  <2>8. Served(Joined', Path[st], s, Landing)
    <3>1. ASSUME Holds(Path[st].asserts, s, Landing) PROVE Holds(t.asserts, s, Landing)
      BY <2>2, <3>1 DEF Holds
    <3>. QED  BY <2>2, <2>4, <3>1 DEF Served, Waits
  <2>9. \A m \in DOMAIN Path : m < st + 1 => Served(Joined', Path[m], s, Landing)
    BY <1>4, <1>5, <2>5, <2>8
  <2>10. at = "path" => \A j \in DOMAIN clist : j < ct => Passed(prog, s, clist[j], nlist', Front)
    BY <1>1, <1>3, <2>3, <2>5 DEF CallWhole
  <2>11. CallWhole'
    BY <1>1, <2>1, <2>3, <2>6, <2>7, <2>9, <2>10 DEF CallWhole
  <2>. QED  BY <1>1, <2>1, <2>11, InsideWhole
<1>10. ASSUME PathEnds PROVE Whole'
  <2>1. /\ st > Len(Path) /\ UNCHANGED <<prog, contexts, self, sp, clist, nlist>>
    BY <1>10 DEF PathEnds, exec, lists
  <2>2. \A m \in DOMAIN Path : Served(Joined, Path[m], s, Landing)
    BY <1>2, <1>4, <2>1
  <2>3. This' = This /\ Front' = Front
    BY <2>1 DEF This, Front
  <2>4. CASE at = "first_buf"
    <3>1. at' = "sp_loop" /\ ~OnPath'
      BY <1>10, <2>4 DEF PathEnds, AtStart, OnPath
    <3>2. Heard(prog, s, clist, 0)
      <4>1. ASSUME NEW pc \in DOMAIN prog.paths, Begins(prog, s, pc, 0)
            PROVE  \A m \in DOMAIN prog.paths[pc] : Served(clist, prog.paths[pc][m], s, 0)
        <5>1. pc = 0
          BY <4>1 DEF Begins
        <5>. QED  BY <1>3, <2>2, <2>4, <5>1
      <4>. QED  BY <1>2, <4>1, HeardWhen DEF Easy
    <3>3. CallWhole'
      BY <1>1, <1>3, <2>1, <2>3, <2>4, <3>1, <3>2 DEF CallWhole
    <3>. QED  BY <1>1, <2>1, <3>1, <3>3, InsideWhole
  <2>5. CASE at = "path"
    <3>1. at' = "run_thread" /\ ct' = ct + 1 /\ ~OnPath'
      BY <1>10, <2>5 DEF PathEnds, AtStart, OnPath, NextThread
    <3>2. prog.code[clist[ct].pc].op # "match"
      BY <2>5 DEF IInv, TypeOK
    <3>3. Passed(prog, s, clist[ct], nlist, Front)
      BY <1>3, <2>2, <2>5, <3>2 DEF Passed
    <3>4. \A j \in DOMAIN clist : j < ct + 1 => Passed(prog, s, clist[j], nlist, Front)
      <4>1. DOMAIN clist = 1 .. Len(clist) /\ Len(clist) \in Nat
        BY <1>2, LenProperties
      <4>2. ASSUME NEW j \in DOMAIN clist, j < ct + 1 PROVE j < ct \/ j = ct
        BY <1>2, <4>1, <4>2
      <4>. QED  BY <1>1, <2>5, <3>3, <4>2 DEF CallWhole
    <3>5. CallWhole'
      BY <1>1, <2>1, <2>3, <2>5, <3>1, <3>4 DEF CallWhole
    <3>. QED  BY <1>1, <2>1, <3>1, <3>5, InsideWhole
  <2>. QED  BY <1>1, <2>4, <2>5
<1>. QED  BY <1>7, <1>8, <1>9, <1>10 DEF Walk

LEMMA WholeStep == IInv /\ Right /\ Easy(prog) /\ Whole /\ [Next]_vars => Whole'
<1>. SUFFICES ASSUME IInv, Right, Easy(prog), Whole, [Next]_vars PROVE Whole'
  OBVIOUS
<1>1. CASE Caller
  BY <1>1, CallerKeepsWhole
<1>2. CASE Machine
  BY <1>2, LoopKeepsWhole, RunKeepsWhole, WalkKeepsWhole DEF Machine
<1>3. CASE UNCHANGED vars
  <2>1. UNCHANGED <<prog, contexts, at, self, sp, ct, st, clist, nlist>>
    BY <1>3 DEF vars, exec, lists
  <2>2. This' = This /\ Front' = Front /\ Path' = Path /\ Joined' = Joined /\ Landing' = Landing
    BY <2>1 DEF This, Front, Path, From, Joined, Landing, AtStart
  <2>3. OnPath' <=> OnPath
    BY <2>1 DEF OnPath
  <2>4. CallWhole => CallWhole'
    BY <2>1, <2>2, <2>3 DEF CallWhole
  <2>. QED  BY <2>1, <2>4 DEF Whole
<1>. QED  BY <1>1, <1>2, <1>3 DEF Next

LEMMA WholeInit == Init => Whole
BY DEF Init, Whole

-----------------------------------------------------------------------------
(* The recognizer that the machine code implements. *)

\* The programs that the paths tell all of, and no state of which asks for two assertions
\* that the handler does not take together.
Precise(p) == Easy(p) /\ ~Asks(p, WordBoundary)

FedType == [stream : Streams, n : Nat, out : {"none", "OK", "AGAIN", "DECLINED"}]

FedOf(kept) == [stream |-> kept.stream, n |-> kept.base, out |-> kept.out]

LEMMA FedIs ==
    ASSUME IInv
    PROVE  /\ Fed = [c \in DOMAIN contexts |-> FedOf(contexts[c])]
           /\ Fed \in Seq(FedType) /\ Len(Fed) = Len(contexts)
           /\ DOMAIN Fed = DOMAIN contexts /\ DOMAIN contexts = 1 .. Len(contexts)
           /\ Len(contexts) \in Nat
<1>1. contexts \in Seq(Contexts)
  BY DEF IInv, TypeOK
<1>2. DOMAIN contexts = 1 .. Len(contexts) /\ Len(contexts) \in Nat
  BY <1>1, LenProperties
<1>3. Fed = [c \in DOMAIN contexts |-> FedOf(contexts[c])]
  BY DEF Fed, FedOf
<1>4. \A c \in DOMAIN contexts : FedOf(contexts[c]) \in FedType
  <2>1. \A c \in DOMAIN contexts : contexts[c] \in Contexts
    BY <1>1, ElementOfSeq, LenProperties
  <2>. QED  BY <2>1 DEF Contexts, FedType, FedOf
<1>5. Fed \in [1 .. Len(contexts) -> FedType]
  BY <1>2, <1>3, <1>4
<1>6. Fed \in Seq(FedType)
  BY <1>2, <1>5
<1>. QED  BY <1>2, <1>3, <1>5, <1>6, LenProperties

\* The answer of a context, by the meaning of the program.
LEMMA AnswersRight ==
    ASSUME NEW p \in Images, Precise(p), NEW kept, kept.stream \in Streams,
           KeptRight(p, kept), NEW running, KeptWhole(p, kept, running)
    PROVE  /\ kept.out = "OK" => IsAccepted(p, kept.stream)
           /\ kept.out = "DECLINED" => ~IsAccepted(p, kept.stream)
<1>1. /\ kept.out = "OK" => Accepted(p, kept.stream)
      /\ kept.out = "DECLINED" => ~Accepted(p, kept.stream)
  BY DEF KeptRight, KeptWhole, Precise
<1>. QED  BY <1>1, MeaningIs

\* A new context is opened.
LEMMA CreateOpens ==
    ASSUME IInv, IInv', CreateCtx
    PROVE  Meant!Open
<1>. DEFINE new == contexts'[Len(contexts) + 1]
<1>1. PICK s \in Streams :
        /\ prog' = prog
        /\ DOMAIN contexts' = DOMAIN contexts \cup {Len(contexts) + 1}
        /\ \A d \in DOMAIN contexts : contexts'[d] = contexts[d]
        /\ new.stream = s /\ new.base = 0 /\ new.out = "none"
  BY Created
<1>. DEFINE e == [stream |-> s, n |-> 0, out |-> "none"]
<1>2. /\ Fed = [c \in DOMAIN contexts |-> FedOf(contexts[c])] /\ Fed \in Seq(FedType)
      /\ Len(Fed) = Len(contexts) /\ DOMAIN contexts = 1 .. Len(contexts)
      /\ Len(contexts) \in Nat
  BY FedIs
<1>3. Fed' = [c \in DOMAIN contexts' |-> FedOf(contexts'[c])]
  BY DEF Fed, FedOf
<1>4. e \in FedType /\ FedOf(new) = e
  BY <1>1 DEF FedType, FedOf
<1>. HIDE DEF e, new
<1>5. /\ Append(Fed, e) \in Seq(FedType) /\ Len(Append(Fed, e)) = Len(Fed) + 1
      /\ \A c \in 1 .. Len(Fed) : Append(Fed, e)[c] = Fed[c]
      /\ Append(Fed, e)[Len(Fed) + 1] = e
  BY <1>2, <1>4, AppendProperties
<1>6. DOMAIN contexts' = 1 .. Len(contexts) + 1
  BY <1>1, <1>2
<1>7. Append(Fed, e) \in [1 .. Len(contexts) + 1 -> FedType]
  BY <1>2, <1>5, LenProperties
<1>8. \A c \in 1 .. Len(contexts) + 1 : Fed'[c] = Append(Fed, e)[c]
  <2>1. SUFFICES ASSUME NEW c \in 1 .. Len(contexts) + 1 PROVE Fed'[c] = Append(Fed, e)[c]
    OBVIOUS
  <2>2. CASE c \in 1 .. Len(contexts)
    BY <1>1, <1>2, <1>3, <1>5, <1>6, <2>2
  <2>3. CASE c = Len(contexts) + 1
    BY <1>2, <1>3, <1>4, <1>5, <1>6, <2>3 DEF new
  <2>. QED  BY <1>2, <2>2, <2>3
<1>9. Fed' = Append(Fed, e)
  BY <1>3, <1>6, <1>7, <1>8
<1>. QED  BY <1>1, <1>9 DEF Meant!Open, e

\* The entry of a context after a call.
AfterCall(F, c, m, rc) == [F EXCEPT ![c].n = m, ![c].out = rc]

LEMMA Updated ==
    ASSUME NEW D, NEW F, F = [d \in D |-> F[d]], NEW c \in D, NEW str, NEW b, NEW o,
           F[c] = [stream |-> str, n |-> b, out |-> o], NEW m, NEW rc
    PROVE  AfterCall(F, c, m, rc) = [F EXCEPT ![c] = [stream |-> str, n |-> m, out |-> rc]]
<1>. DEFINE G == [F EXCEPT ![c] = [@ EXCEPT !.n = m]]
            New == [d \in D |-> IF d = c THEN [stream |-> str, n |-> m, out |-> rc] ELSE F[d]]
<1>1. AfterCall(F, c, m, rc) = [G EXCEPT ![c] = [@ EXCEPT !.out = rc]]
  BY DEF AfterCall
<1>2. /\ G[c] = [stream |-> str, n |-> m, out |-> o] /\ G = [d \in D |-> G[d]]
      /\ \A d \in D : d # c => G[d] = F[d]
  <2>1. G = [d \in D |-> IF d = c THEN [stream |-> str, n |-> m, out |-> o] ELSE F[d]]
    BY SMT
  <2>. QED  BY <2>1, SMT
<1>3. [G EXCEPT ![c] = [@ EXCEPT !.out = rc]] = New
  <2>. HIDE DEF G
  <2>1. [G[c] EXCEPT !.out = rc] = [stream |-> str, n |-> m, out |-> rc]
    BY <1>2, SMT
  <2>2. [G EXCEPT ![c] = [@ EXCEPT !.out = rc]]
            = [G EXCEPT ![c] = [stream |-> str, n |-> m, out |-> rc]]
    BY <2>1, Zenon
  <2>. QED  BY <1>2, <2>2, SMT
<1>4. [F EXCEPT ![c] = [stream |-> str, n |-> m, out |-> rc]] = New
  BY SMT
<1>. QED  BY <1>1, <1>3, <1>4

\* A return is a call of the recognizer.
LEMMA ReturnAnswers ==
    ASSUME IInv, Right, IInv', Right', Whole', Precise(prog), at # "idle",
           NEW rc \in {"OK", "AGAIN", "DECLINED"}, NEW threads \in Seq(Threads),
           Return(rc, threads), rc = "AGAIN" => ~eof, rc = "DECLINED" => eof
    PROVE  Meant!Call
<1>. DEFINE s == This.stream
            n == This.base + size
<1>1. LET new == contexts'[self]
      IN  /\ prog' = prog /\ self \in DOMAIN contexts /\ DOMAIN contexts' = DOMAIN contexts
          /\ new.stream = s /\ new.base = n /\ new.out = rc
          /\ \A d \in DOMAIN contexts : d # self => contexts'[d] = contexts[d]
  BY Returned
<1>2. Fed = [c \in DOMAIN contexts |-> FedOf(contexts[c])] /\ DOMAIN Fed = DOMAIN contexts
  BY FedIs
<1>3. Fed' = [c \in DOMAIN contexts' |-> FedOf(contexts'[c])]
  BY DEF Fed, FedOf
<1>4. Fed[self].stream = s /\ Fed[self].n = This.base /\ Fed[self].out = This.out
  BY <1>1, <1>2 DEF FedOf, This
<1>5. /\ This.out \in {"none", "AGAIN"} /\ (eof => n = Len(s))
      /\ This.base \in Nat /\ size \in Nat /\ Len(s) \in Nat /\ n <= Len(s)
      /\ eof \in BOOLEAN
  BY ThisType DEF Right, CallRight, ChunkRight, IInv, TypeOK
<1>6. n \in Fed[self].n .. Len(s)
  BY <1>4, <1>5
<1>7. Fed' = [Fed EXCEPT ![self].n = n, ![self].out = rc]
  <2>1. Fed[self] = [stream |-> s, n |-> This.base, out |-> This.out]
    BY <1>1, <1>2 DEF FedOf, This
  <2>2. [Fed EXCEPT ![self].n = n, ![self].out = rc]
            = [Fed EXCEPT ![self] = [stream |-> s, n |-> n, out |-> rc]]
    <3>1. Fed = [c \in DOMAIN contexts |-> Fed[c]]
      BY <1>2
    <3>2. self \in DOMAIN contexts
      BY <1>1
    <3>3. AfterCall(Fed, self, n, rc)
              = [Fed EXCEPT ![self] = [stream |-> s, n |-> n, out |-> rc]]
      <4>. HIDE DEF s, n
      <4>. QED  BY <2>1, <3>1, <3>2, Updated
    <3>. QED  BY <3>3, Zenon DEF AfterCall
  <2>3. Fed'[self] = [stream |-> s, n |-> n, out |-> rc]
    BY <1>1, <1>3 DEF FedOf
  <2>4. \A c \in DOMAIN contexts : c # self => Fed'[c] = Fed[c]
    BY <1>1, <1>2, <1>3
  <2>. QED  BY <1>1, <1>2, <1>3, <2>2, <2>3, <2>4
<1>8. Meant!MayAnswer(rc, s, n, eof)
  <2>. DEFINE new == contexts'[self]
              running == at' # "idle" /\ self = self'
  <2>1. KeptRight(prog, new) /\ KeptWhole(prog, new, running)
    BY <1>1 DEF Right, Whole
  <2>2. prog \in Images /\ new.stream \in Streams
    BY <1>1, ThisType DEF IInv
  <2>. HIDE DEF running
  <2>3. /\ rc = "OK" => IsAccepted(prog, s)
        /\ rc = "DECLINED" => ~IsAccepted(prog, s)
    BY <1>1, <2>1, <2>2, AnswersRight
  <2>4. /\ rc = "OK" => IsAccepted(prog, s)
        /\ rc = "AGAIN" => ~eof
        /\ rc = "DECLINED" => eof /\ ~IsAccepted(prog, s)
    BY <2>3
  <2>. QED  BY <2>4 DEF Meant!MayAnswer
<1>. QED  BY <1>1, <1>2, <1>4, <1>5, <1>6, <1>7, <1>8, Zenon DEF Meant!Call

LEMMA StepIsMeant ==
    ASSUME IInv, IInv', Right, Right', Whole, Whole', Precise(prog), [Next]_vars
    PROVE  [Meant!Open \/ Meant!Call]_<<prog, Fed>>
<1>1. ASSUME UNCHANGED <<prog, contexts>> PROVE UNCHANGED <<prog, Fed>>
  BY <1>1 DEF Fed
<1>2. CASE JitCompile \/ JitFree
  BY <1>1, <1>2 DEF JitCompile, JitFree
<1>3. CASE CreateCtx
  BY <1>3, CreateOpens
<1>4. CASE Exec
  <2>1. PICK which \in DOMAIN contexts :
            LET old == contexts[which]
                new == contexts'[which]
            IN  /\ prog' = prog /\ DOMAIN contexts' = DOMAIN contexts
                /\ new.stream = old.stream /\ new.base = old.base /\ new.out = old.out
                /\ \A d \in DOMAIN contexts : d # which => contexts'[d] = contexts[d]
    BY <1>4, Executed
  <2>2. \A d \in DOMAIN contexts : FedOf(contexts'[d]) = FedOf(contexts[d])
    BY <2>1 DEF FedOf
  <2>3. Fed = [c \in DOMAIN contexts |-> FedOf(contexts[c])]
    BY DEF Fed, FedOf
  <2>4. Fed' = [c \in DOMAIN contexts' |-> FedOf(contexts'[c])]
    BY DEF Fed, FedOf
  <2>. QED  BY <2>1, <2>2, <2>3, <2>4
<1>5. CASE Machine
  <2>1. /\ nlist \in Seq(Threads) /\ clist \in Seq(Threads)
        /\ at # "idle" => (eof => This.base + size = Len(This.stream))
    BY DEF IInv, TypeOK, Right, CallRight, ChunkRight
  <2>2. at # "idle"
    BY <1>5 DEF Machine, Loop, LoopEnd, RunCurThreads, RunThreadsDone, Run, RunNextThread,
                CallPath, CallMatch, Walk, SkipState, StateMatches, AddThread, PathEnds,
                AtThread, AtState, OnPath
  <2>3. ASSUME NEW threads \in Seq(Threads), NEW rc \in {"OK", "AGAIN", "DECLINED"},
               Return(rc, threads), rc = "AGAIN" => ~eof, rc = "DECLINED" => eof
        PROVE  Meant!Call
    BY <2>2, <2>3, ReturnAnswers
  <2>4. CASE Loop
    <3>1. CASE LoopEnd
      BY <2>1, <2>3, <3>1 DEF LoopEnd
    <3>2. CASE RunCurThreads
      BY <1>1, <3>2 DEF RunCurThreads
    <3>3. CASE RunThreadsDone
      BY <1>1, <2>1, <2>3, <3>3 DEF RunThreadsDone
    <3>. QED  BY <2>4, <3>1, <3>2, <3>3 DEF Loop
  <2>5. CASE Run
    <3>1. CASE CallMatch
      BY <2>1, <2>3, <3>1 DEF CallMatch
    <3>2. CASE RunNextThread \/ CallPath
      BY <1>1, <3>2 DEF RunNextThread, CallPath
    <3>. QED  BY <2>5, <3>1, <3>2 DEF Run
  <2>6. CASE Walk
    <3>1. CASE StateMatches
      BY <2>1, <2>3, <3>1 DEF StateMatches
    <3>2. CASE SkipState \/ AddThread \/ PathEnds
      BY <1>1, <3>2 DEF SkipState, AddThread, PathEnds
    <3>. QED  BY <2>6, <3>1, <3>2 DEF Walk
  <2>. QED  BY <1>5, <2>4, <2>5, <2>6 DEF Machine
<1>6. CASE UNCHANGED vars
  BY <1>1, <1>6 DEF vars
<1>. QED  BY <1>2, <1>3, <1>4, <1>5, <1>6 DEF Next, Caller

\* The machine code implements the recognizer of what the program means, over every
\* length of stream, way of cutting it into chunks and number of contexts, in every
\* program that its paths tell all of and that is Precise.  Each condition is needed: a
\* path may leave out a way on (run jit_pruned), the handler leaves \B out when \b is
\* there, and for $ beside \z it compares a register that no byte was read into.
THEOREM AnswersAreMeant == Spec /\ Precise(prog) => AnswersAsMeant
<1>. DEFINE Inv == IInv /\ Right /\ Whole /\ Precise(prog)
<1>1. Init /\ Precise(prog) => Inv
  BY InitIInv, RightInit, WholeInit
<1>2. Inv /\ [Next]_vars => Inv'
  <2>. SUFFICES ASSUME Inv, [Next]_vars PROVE Inv'
    OBVIOUS
  <2>1. Precise(prog)'
    BY ProgKept DEF Precise, Easy
  <2>. QED  BY <2>1, Step, RightStep, WholeStep DEF Precise
<1>3. Init => Meant!Init
  BY DEF Init, Meant!Init, Fed
<1>4. Inv /\ Inv' /\ [Next]_vars => [Meant!Open \/ Meant!Call]_<<prog, Fed>>
  BY StepIsMeant
<1>. QED  BY <1>1, <1>2, <1>3, <1>4, PTL DEF Spec, AnswersAsMeant, Meant!Spec, Meant!vars
=============================================================================
