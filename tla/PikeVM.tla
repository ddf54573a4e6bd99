------------------------------- MODULE PikeVM -------------------------------
(***************************************************************************)
(* The Pike VM of sregex (sre_vm_pike.c): sre_vm_pike_exec run over the    *)
(* chunks of one data stream, with one action per step of the virtual      *)
(* machine.  C recursion of sre_vm_pike_add_thread is tail recursion but   *)
(* for the first branch of a SPLIT; the frames of those calls are the      *)
(* variable "stack" and the innermost call is "call".                      *)
(*                                                                         *)
(* A position in a stream is the number of bytes before it, and "sp" is a  *)
(* position in the current chunk, whose first byte is at stream position   *)
(* "base".                                                                 *)
(***************************************************************************)
EXTENDS SreCapture, Bytecode, Functions

CONSTANTS
    Programs,    \* The compiled programs a behaviour may run (sre_program_t).
    Streams,     \* The byte sequences the caller may feed.
    ChunkKinds,  \* What the caller feeds: "last" (the rest, with eof), "data"
                 \* (a non-empty chunk), "empty" (an empty one without eof).
    Pointers,    \* Whether the caller passes pending_matched: FALSE is NULL.
    PoolMayFail, \* TRUE if the pool may run out of memory.
    TagModulus,  \* 2^w for the width w of the unsigned tags.
    TagLimit     \* Bound: the caller stops once prog->tag has come this far.

ASSUME ConstantsAssumption ==
    /\ \A p \in Programs : WellFormed(p)
    /\ Streams \subseteq Seq(Byte)
    /\ WordByte \subseteq Byte /\ Newline \in Byte
    /\ ChunkKinds \subseteq {"last", "data", "empty"}
    /\ Pointers \subseteq BOOLEAN
    /\ PoolMayFail \in BOOLEAN
    /\ TagModulus \in Nat \ {0} /\ TagLimit \in Nat

VARIABLES
    prog, stream,      \* chosen at the start
    \* What the caller knows: where the next chunk begins, where the search in
    \* progress began, whether it has come to the last chunk, and what the last
    \* call returned.
    base, from, lastChunk, out,
    ovector,           \* the caller's array
    \* sre_program_t: the tags of its instructions and its own
    marks, progTag,
    \* memory: captures, thread cells [cell, free] and the pending_ovector
    heap, pool, pending,
    \* sre_vm_pike_ctx_t
    tag, processed, matched, clist, nlist, lastMatched, initial,
    firstBuf, seenStart, ctxEof, emptyCapture, seenNewline, seenWord,
    \* locals of sre_vm_pike_exec: the step it is at, its arguments, the
    \* running thread t, and the temporary list of an assertion
    at, sp, size, eof, wanted, t, temp,
    \* sre_vm_pike_add_thread: its call site, call, frames and result
    site, call, stack, rc

program == <<prog, stream>>
caller  == <<base, from, lastChunk, out, ovector>>
tags    == <<marks, progTag, tag>>
memory  == <<heap, pool, pending>>
lists   == <<clist, nlist, temp>>
flags   == <<firstBuf, seenStart, ctxEof, emptyCapture, seenNewline, seenWord>>
context == <<processed, matched, lastMatched, initial>>
exec    == <<at, sp, size, eof, wanted, t>>
adding  == <<site, call, stack, rc>>

vars == <<program, caller, tags, memory, lists, flags, context, exec, adding>>

-----------------------------------------------------------------------------
NoThread == 0
NoCall   == [pc |-> 0, cap |-> NoCapture]
NoOut    == [rc |-> "none", id |-> -1, pend |-> <<>>]

\* A thread list: the threads in order, the thread whose next field the tail
\* pointer l->next addresses (NoThread for &l->head), and its count.
EmptyList == [ids |-> <<>>, tail |-> NoThread, count |-> 0]

Thread(i) == pool.cell[i]
Ins(pc)   == prog.code[pc]

ByteAt(k) == stream[base + k + 1]

IsWord(k) == k < size /\ ByteAt(k) \in WordByte

NextTag(n) == (n + 1) % TagModulus
PrevTag(n) == (n - 1) % TagModulus

\* sre_vm_pike_free_thread
FreeThread(p, i) == [p EXCEPT !.free = <<i>> \o @]

\* A slip on TakeThread: a recycled cell stays on the free list.
TakeThreadTwice(thread) == [Allocate(pool, thread) EXCEPT !.free = pool.free]

\* add_thread takes a free thread, or a new one from the pool.
TakeThread(thread) == Allocate(pool, thread)

\* The outcomes of an allocation: with a recycled cell it cannot fail.
Allocation(recycled) == IF PoolMayFail /\ ~recycled THEN BOOLEAN ELSE {TRUE}

\* The condition of the loop: at the end of the stream there is one more step, for
\* the look-aheads.
MoreInput == sp < size \/ (eof /\ sp = size)

-----------------------------------------------------------------------------
(***************************************************************************)
(* Return from sre_vm_pike_exec.  A search that ends with a match leaves   *)
(* the caller at the end of the match; after an empty one the next search  *)
(* begins one byte further.                                                *)
(***************************************************************************)
Return(result) ==
    /\ at' = "idle"
    /\ out' = result
    /\ sp' = 0 /\ size' = 0 /\ eof' = FALSE /\ wanted' = FALSE
    /\ t' = NoThread

NoRc(code) == [rc |-> code, id |-> -1, pend |-> <<>>]

\* "return SRE_ERROR" from inside: ctx and program keep what they had.
Fail ==
    /\ Return(NoRc("ERROR"))
    /\ site' = "none" /\ call' = NoCall /\ stack' = <<>> /\ rc' = "OK"
    /\ UNCHANGED <<program, base, from, lastChunk, ovector, lists, flags, context>>

\* Calls sre_vm_pike_add_thread(ctx, l, pc, cap, ...) from call site s.
AddFrom(s, pc, cap) ==
    /\ at' = "add"
    /\ site' = s
    /\ call' = [pc |-> pc, cap |-> cap]
    /\ stack' = <<>> /\ rc' = "OK"

\* ctx->tag++ and the run_cur_threads label.
RunThreads ==
    /\ at' = "threads"
    /\ tag' = NextTag(tag)

-----------------------------------------------------------------------------
(* The caller, and the entry of sre_vm_pike_exec.  What the caller feeds after *)
(* a match is the rest of the stream, with eof if that has been signalled.     *)

Chunks ==
    {c \in [size : 0 .. Len(stream) - base, eof : BOOLEAN, wanted : Pointers] :
      /\ lastChunk => c.eof
      /\ \/ "last" \in ChunkKinds /\ c.eof /\ c.size = Len(stream) - base
         \/ "data" \in ChunkKinds /\ ~c.eof /\ c.size > 0
         \/ "empty" \in ChunkKinds /\ ~c.eof /\ c.size = 0}

\* ctx->eof is set: the stream has been declined already.
ExecAfterEof ==
    /\ at = "idle" /\ out.rc # "ERROR" /\ ctxEof
    /\ out' = NoRc("ERROR")
    /\ UNCHANGED <<program, base, from, lastChunk, ovector, tags, memory, lists, flags,
                   context, exec, adding>>

CallerReady == at = "idle" /\ out.rc # "ERROR" /\ ~ctxEof /\ progTag < TagLimit

\* The previous match was empty and the chunk is too: nothing to search.
ExecEmptyChunk ==
    /\ CallerReady
    /\ emptyCapture
    /\ \E c \in Chunks :
        /\ c.size = 0
        /\ out' = NoRc(IF c.eof THEN "DECLINED" ELSE "AGAIN")
        /\ ctxEof' = c.eof /\ lastChunk' = c.eof
    /\ lastMatched' = -1
    /\ emptyCapture' = FALSE
    /\ UNCHANGED <<program, base, from, ovector, tags, memory, lists, firstBuf,
                   seenStart, seenNewline, seenWord, processed, matched, initial,
                   exec, adding>>

\* Where the search of a chunk starts: an empty match is not found again.
SkipAfterEmpty == IF emptyCapture THEN 1 ELSE 0

Enter(c) ==
    /\ ~(emptyCapture /\ c.size = 0)
    /\ sp' = SkipAfterEmpty
    /\ size' = c.size /\ eof' = c.eof /\ lastChunk' = c.eof /\ wanted' = c.wanted
    /\ lastMatched' = -1
    /\ emptyCapture' = FALSE

\* The first buffer of a search: seed clist from the start of the program.
ExecFirstBuffer ==
    /\ CallerReady
    /\ firstBuf
    /\ \E c \in Chunks, ok \in Allocation(~FromPool(heap)) :
        /\ Enter(c)
        /\ firstBuf' = FALSE
        /\ IF ok
           THEN /\ heap' = CaptureCreate(heap, prog.slots)
                /\ tag' = NextTag(progTag)
                /\ AddFrom("first", 0, Fresh(heap))
                /\ UNCHANGED out
           ELSE /\ at' = "idle"
                /\ out' = NoRc("ERROR")
                /\ UNCHANGED <<heap, tag, adding>>
    /\ UNCHANGED <<program, base, from, ovector, marks, progTag, pool, pending,
                   lists, seenStart, ctxEof, seenNewline, seenWord, processed,
                   matched, initial, t>>

ExecResume ==
    /\ CallerReady
    /\ ~firstBuf
    /\ \E c \in Chunks : Enter(c)
    /\ tag' = progTag
    /\ at' = "loop"
    /\ UNCHANGED <<program, base, from, out, ovector, marks, progTag, memory, lists,
                   firstBuf, seenStart, ctxEof, seenNewline, seenWord, processed, matched,
                   initial, t, adding>>

-----------------------------------------------------------------------------
(* The loop over the bytes of the chunk. *)

\* clist holds the states a search starts with, so that no thread of it can
\* go on before a leading byte ("we skip the last thread").
AtInitialStates ==
    /\ clist.count = initial.count
    /\ \A i \in 1 .. Len(clist.ids) - 1 : Thread(clist.ids[i]).pc = initial.pcs[i]

\* sre_vm_pike_find_first_byte(sp, last, ...) finds k: a byte that a match may
\* start with, or the end of the chunk.
Leading(k) == \E i \in prog.lead : Accepts(Ins(i), ByteAt(k))

FirstByte(k) ==
    /\ \A j \in sp .. k - 1 : ~Leading(j)
    /\ k < size => Leading(k)

\* Bytes are skipped by restarting the search at the first leading byte.
CanSkip ==
    /\ prog.lead # {} /\ seenStart
    /\ sp # size
    /\ AtInitialStates
    /\ ~FirstByte(sp)

LoopEnd ==
    /\ at = "loop"
    /\ ~MoreInput \/ clist.ids = <<>>
    /\ at' = "finish"
    /\ UNCHANGED <<program, caller, tags, memory, lists, flags, context, sp, size,
                   eof, wanted, t, adding>>

LoopStep ==
    /\ at = "loop"
    /\ MoreInput /\ clist.ids # <<>>
    /\ ~CanSkip
    /\ seenStart' = (seenStart /\ prog.lead = {})
    /\ RunThreads
    /\ UNCHANGED <<program, caller, marks, progTag, memory, lists, firstBuf, ctxEof,
                   emptyCapture, seenNewline, seenWord, context, sp, size, eof,
                   wanted, t, adding>>

LoopSkip ==
    /\ at = "loop"
    /\ MoreInput /\ clist.ids # <<>>
    /\ CanSkip
    /\ seenStart' = FALSE
    /\ \E k \in sp + 1 .. size : FirstByte(k) /\ sp' = k
    /\ at' = "clear-skipped"
    /\ UNCHANGED <<program, caller, tags, memory, lists, firstBuf, ctxEof,
                   emptyCapture, seenNewline, seenWord, context, size, eof,
                   wanted, t, adding>>

Skipped ==
    /\ at = "skipped"
    /\ \E ok \in Allocation(~FromPool(heap)) :
        IF ok
        THEN /\ heap' = CaptureCreate(heap, prog.slots)
             /\ tag' = NextTag(tag)
             /\ AddFrom("skip", 0, Fresh(heap))
             /\ UNCHANGED <<program, caller, marks, progTag, pool, pending, lists,
                            flags, context, sp, size, eof, wanted, t>>
        ELSE Fail /\ UNCHANGED <<tags, memory>>

\* A slip on PopHead: the count is not kept.
PopHeadOnly(l) == [l EXCEPT !.ids = Tail(@)]

PopHead(l) == [ids |-> Tail(l.ids), tail |-> l.tail, count |-> l.count - 1]

\* sre_vm_pike_clear_thread_list, one thread at a time: clist, but for the
\* leftovers of a step, which are in the list that has just become nlist.
ClearThread ==
    LET l == IF at = "clear-leftover" THEN nlist ELSE clist
        i == Head(l.ids)
    IN  /\ at \in {"clear-skipped", "clear-matched", "clear-leftover"}
        /\ l.ids # <<>>
        /\ heap' = DecrRef(heap, Thread(i).cap)
        /\ pool' = FreeThread(pool, i)
        /\ IF at = "clear-leftover"
           THEN nlist' = PopHead(nlist) /\ UNCHANGED clist
           ELSE clist' = PopHead(clist) /\ UNCHANGED nlist
        /\ UNCHANGED <<program, caller, tags, pending, temp, flags, context, exec,
                       adding>>

ClearedSkipped ==
    /\ at = "clear-skipped" /\ clist.ids = <<>>
    /\ at' = "skipped"
    /\ UNCHANGED <<program, caller, tags, memory, lists, flags, context, sp, size,
                   eof, wanted, t, adding>>

\* step_done: swap the lists.
StepDone ==
    /\ at \in {"threads", "clear-matched"} /\ clist.ids = <<>>
    /\ clist' = nlist /\ nlist' = clist
    /\ at' = "clear-leftover"
    /\ UNCHANGED <<program, caller, tags, memory, temp, flags, context, sp, size,
                   eof, wanted, t, adding>>

StepNext ==
    /\ at = "clear-leftover" /\ nlist.ids = <<>>
    /\ IF sp = size
       THEN at' = "finish" /\ UNCHANGED sp
       ELSE at' = "loop" /\ sp' = sp + 1
    /\ UNCHANGED <<program, caller, tags, memory, lists, flags, context, size, eof,
                   wanted, t, adding>>

-----------------------------------------------------------------------------
(* Running the threads of clist at position sp. *)

\* The head of clist, and the instruction it waits at.
Current  == Head(clist.ids)
Waiting  == Ins(Thread(Current).pc)

Dispatch == at = "threads" /\ clist.ids # <<>>

CanConsume == sp # size /\ Accepts(Waiting, ByteAt(sp))

\* A slip on SeenWord: the byte before sp is looked up in the chunk.
SeenWordInChunk == sp > 0 /\ ByteAt(sp - 1) \in WordByte

\* seen_word in the \B and \b cases.
SeenWord == Thread(Current).sw \/ (sp = 0 /\ seenWord)

AssertionHolds ==
    CASE Waiting.look = "\\z" -> sp = size
      [] Waiting.look = "$"   -> sp # size => ByteAt(sp) = Newline
      [] Waiting.look = "\\B" -> SeenWord = IsWord(sp)
      [] Waiting.look = "\\b" -> SeenWord # IsWord(sp)
      [] OTHER               -> FALSE

\* CHAR, IN, NOTIN or ANY that the byte at sp does not satisfy.
ThreadDies ==
    /\ Dispatch
    /\ Waiting.op \in {"char", "in", "notin", "any"} /\ ~CanConsume
    /\ heap' = DecrRef(heap, Thread(Current).cap)
    /\ pool' = FreeThread(pool, Current)
    /\ clist' = PopHead(clist)
    /\ UNCHANGED <<program, caller, tags, pending, nlist, temp, flags, context, exec,
                   adding>>

ThreadConsumes ==
    /\ Dispatch
    /\ CanConsume
    /\ clist' = PopHead(clist)
    /\ t' = Current
    /\ AddFrom("byte", Thread(Current).pc + 1, Thread(Current).cap)
    /\ UNCHANGED <<program, caller, tags, memory, nlist, temp, flags, context, sp,
                   size, eof, wanted>>

\* A look-ahead assertion that does not hold: the thread is freed, its capture
\* keeps the reference.
AssertionFails ==
    /\ Dispatch
    /\ Waiting.op = "assert" /\ ~AssertionHolds
    /\ pool' = FreeThread(pool, Current)
    /\ clist' = PopHead(clist)
    /\ UNCHANGED <<program, caller, tags, heap, pending, nlist, temp, flags, context,
                   exec, adding>>

AssertionHold ==
    /\ Dispatch
    /\ Waiting.op = "assert" /\ AssertionHolds
    /\ clist' = PopHead(clist)
    /\ t' = Current
    /\ tag' = PrevTag(tag)
    /\ temp' = EmptyList
    /\ AddFrom("assert", Thread(Current).pc + 1, Thread(Current).cap)
    /\ UNCHANGED <<program, caller, marks, progTag, memory, nlist, flags, context, sp,
                   size, eof, wanted>>

\* A slip on Matched: the threads of a lower priority run on.
MatchedRunsOn(h, cap, i) ==
    /\ heap' = IF matched = NoCapture THEN h ELSE DecrRef(h, matched)
    /\ matched' = cap
    /\ pool' = FreeThread(pool, i)
    /\ at' = "threads"
    /\ t' = NoThread

\* The matched label, with capture cap of thread i: it replaces the match so
\* far (whose reference is dropped) and cuts off the rest of clist.
Matched(h, cap, i) ==
    /\ heap' = IF matched = NoCapture THEN h ELSE DecrRef(h, matched)
    /\ matched' = cap
    /\ pool' = FreeThread(pool, i)
    /\ at' = "clear-matched"
    /\ t' = NoThread

ThreadMatches ==
    LET cap == Thread(Current).cap
    IN  /\ Dispatch
        /\ Waiting.op = "match"
        /\ lastMatched' = heap.cell[cap].vector[1]
        /\ Matched(WithId(heap, cap, Waiting.n), cap, Current)
        /\ clist' = PopHead(clist)
        /\ UNCHANGED <<program, caller, tags, pending, nlist, temp, flags, processed,
                       initial, sp, size, eof, wanted, adding>>

-----------------------------------------------------------------------------
(* sre_vm_pike_add_thread(ctx, l, pc, capture, pos, pcap). *)

\* Arguments that the call site fixes.
Pos == IF site = "byte" THEN sp + 1 ELSE sp

Target ==
    CASE site = "byte"   -> nlist
      [] site = "assert" -> temp
      [] OTHER           -> clist

SetTarget(l) ==
    /\ nlist' = IF site = "byte" THEN l ELSE nlist
    /\ temp' = IF site = "assert" THEN l ELSE temp
    /\ clist' = IF site \in {"first", "skip"} THEN l ELSE clist

Callee == Ins(call.pc)
Marked(pc) == marks[pc] = tag

Calling == at = "add"
NewPc   == Calling /\ ~Marked(call.pc)

\* A slip on Mark: only the instructions that add_thread goes through are marked.
MarkUnlessWaiting ==
    marks' = IF Callee.op \in {"jmp", "split", "save"}
             THEN [marks EXCEPT ![call.pc] = tag] ELSE marks

Mark == marks' = [marks EXCEPT ![call.pc] = tag]

\* A tail call, and the return of the innermost call.
Continue(pc, cap) == at' = "add" /\ call' = [pc |-> pc, cap |-> cap] /\ UNCHANGED rc

Result(code) == at' = "return" /\ rc' = code /\ UNCHANGED call

\* The program starts a search when it passes its first instruction.
PassStart == seenStart' = (seenStart \/ call.pc = 0)

addFrame == <<program, caller, progTag, tag, pending, context, sp, size, eof, wanted,
              t, site, firstBuf, ctxEof, emptyCapture, seenNewline, seenWord>>

\* A slip on SecondBranchOpen: the tag of the second branch is not looked at.
SecondBranchOpenAlways == Callee.op = "split"

SecondBranchOpen == Callee.op = "split" /\ ~Marked(Callee.y)

\* Already on the list; but the second branch of a SPLIT may not be yet.
AddMarked ==
    /\ Calling /\ Marked(call.pc)
    /\ IF SecondBranchOpen
       THEN PassStart /\ Continue(Callee.y, call.cap)
       ELSE UNCHANGED seenStart /\ Result("OK")
    /\ UNCHANGED <<addFrame, marks, heap, pool, lists, stack>>

AddJmp ==
    /\ NewPc /\ Callee.op = "jmp"
    /\ Mark
    /\ Continue(Callee.x, call.cap)
    /\ UNCHANGED <<addFrame, heap, pool, lists, stack, seenStart>>

AddSplit ==
    /\ NewPc /\ Callee.op = "split"
    /\ Mark
    /\ PassStart
    /\ heap' = AddRef(heap, call.cap)
    /\ stack' = Append(stack, [pc |-> Callee.y, cap |-> call.cap])
    /\ Continue(Callee.x, call.cap)
    /\ UNCHANGED <<addFrame, pool, lists>>

AddSave ==
    /\ NewPc /\ Callee.op = "save"
    /\ Mark
    /\ \E ok \in Allocation(~(Shared(heap, call.cap) /\ FromPool(heap))) :
        IF ok
        THEN /\ heap' = CaptureUpdate(heap, call.cap, Callee.n, processed + Pos)
             /\ Continue(call.pc + 1, UpdateTarget(heap, call.cap))
        ELSE /\ Result("ERROR")
             /\ UNCHANGED heap
    /\ UNCHANGED <<addFrame, pool, lists, stack, seenStart>>

\* \A and ^ are decided here.
LookBehind(look) == look \in {"\\A", "^"}

LookBehindHolds ==
    CASE Callee.look = "\\A" -> Pos = 0 /\ processed = 0
      [] Callee.look = "^"   -> IF Pos = 0
                                THEN processed = 0 \/ seenNewline
                                ELSE ByteAt(Pos - 1) = Newline
      [] OTHER               -> FALSE

AddLookBehind ==
    /\ NewPc /\ Callee.op = "assert" /\ LookBehind(Callee.look)
    /\ Mark
    /\ IF LookBehindHolds
       THEN Continue(call.pc + 1, call.cap)
       ELSE Result("OK")
    /\ UNCHANGED <<addFrame, heap, pool, lists, stack, seenStart>>

\* With a pcap, reaching MATCH ends the whole recursion with SRE_DONE.
AddMatchDone ==
    /\ NewPc /\ Callee.op = "match" /\ site = "byte"
    /\ Mark
    /\ lastMatched' = heap.cell[call.cap].vector[1]
    /\ heap' = WithId(heap, call.cap, Callee.n)
    /\ Result("DONE")
    /\ UNCHANGED <<program, caller, progTag, tag, pool, pending, lists, flags,
                   processed, matched, initial, sp, size, eof, wanted, t, site, stack>>

\* A thread remembers the byte before it for \b and \B.
SeenWordBefore ==
    /\ Callee.op = "assert" /\ Callee.look \in {"\\b", "\\B"}
    /\ Pos > 0
    /\ ByteAt(Pos - 1) \in WordByte

Enlist(l, i) == [ids |-> Append(l.ids, i), tail |-> i, count |-> l.count + 1]

ThreadOf(c) == [pc |-> c.pc, cap |-> c.cap, sw |-> SeenWordBefore]

\* The rest waits for a byte, a look-ahead or its turn to match.
WaitsInList(ins) ==
    \/ ins.op \in {"char", "in", "notin", "any"}
    \/ ins.op = "assert" /\ ~LookBehind(ins.look)
    \/ ins.op = "match" /\ site # "byte"

AddWaiting ==
    /\ NewPc /\ WaitsInList(Callee)
    /\ Mark
    /\ IF Callee.op = "match"
       THEN /\ lastMatched' = heap.cell[call.cap].vector[1]
            /\ heap' = WithId(heap, call.cap, Callee.n)
       ELSE UNCHANGED <<lastMatched, heap>>
    /\ \E ok \in Allocation(~FromPool(pool)) :
        IF ok
        THEN /\ pool' = TakeThread(ThreadOf(call))
             /\ SetTarget(Enlist(Target, Fresh(pool)))
             /\ Result("OK")
        ELSE Result("ERROR") /\ UNCHANGED <<pool, lists>>
    /\ UNCHANGED <<program, caller, progTag, tag, pending, flags, processed, matched,
                   initial, sp, size, eof, wanted, t, site, stack>>

Top == stack[Len(stack)]

\* The first branch of a SPLIT returns: to its second branch, or it unwinds.
AddReturn ==
    /\ at = "return" /\ stack # <<>>
    /\ IF rc = "OK"
       THEN /\ at' = "add"
            /\ call' = Top
            /\ UNCHANGED heap
       ELSE /\ heap' = DropRef(heap, Top.cap)
            /\ UNCHANGED <<at, call>>
    /\ stack' = SubSeq(stack, 1, Len(stack) - 1)
    /\ UNCHANGED <<addFrame, marks, pool, lists, rc, seenStart>>

-----------------------------------------------------------------------------
(* What the call sites do with the result of sre_vm_pike_add_thread. *)

Returned(s, code) == at = "return" /\ stack = <<>> /\ site = s /\ rc = code

Called == site' = "none" /\ call' = NoCall /\ stack' = <<>> /\ rc' = "OK"

\* The first buffer: remember the states a search starts with.
Seeded ==
    /\ Returned("first", "OK")
    /\ \E ok \in Allocation(FALSE) :
        IF ok
        THEN /\ at' = "loop"
             /\ initial' = [count |-> clist.count,
                            pcs |-> [i \in 1 .. Len(clist.ids) - 1 |->
                                        Thread(clist.ids[i]).pc]]
             /\ Called
             /\ UNCHANGED <<program, caller, lists, flags, processed, matched,
                            lastMatched, sp, size, eof, wanted, t>>
        ELSE Fail
    /\ UNCHANGED <<tags, memory>>

Restarted ==
    /\ Returned("skip", "OK")
    /\ IF sp = size
       THEN at' = "finish" /\ UNCHANGED tag
       ELSE RunThreads
    /\ Called
    /\ UNCHANGED <<program, caller, marks, progTag, memory, lists, flags, context, sp,
                   size, eof, wanted, t>>

Consumed ==
    /\ Returned("byte", "OK")
    /\ pool' = FreeThread(pool, t)
    /\ t' = NoThread
    /\ at' = "threads"
    /\ Called
    /\ UNCHANGED <<program, caller, tags, heap, pending, lists, flags, context, sp,
                   size, eof, wanted>>

ConsumedToMatch ==
    /\ Returned("byte", "DONE")
    /\ Matched(heap, call.cap, t)
    /\ Called
    /\ UNCHANGED <<program, caller, tags, pending, lists, flags, processed,
                   lastMatched, initial, sp, size, eof, wanted>>

\* The list l put in front of list m, whose tail pointer stays.
Spliced(l, m) == [ids |-> l.ids \o m.ids, tail |-> m.tail, count |-> l.count + m.count]

\* The threads behind an assertion run next, before the rest of clist.
Asserted ==
    /\ Returned("assert", "OK")
    /\ tag' = NextTag(tag)
    /\ pool' = FreeThread(pool, t)
    /\ t' = NoThread
    /\ clist' = Spliced(temp, clist)
    /\ temp' = EmptyList
    /\ at' = "threads"
    /\ Called
    /\ UNCHANGED <<program, caller, marks, progTag, heap, pending, nlist, flags,
                   context, sp, size, eof, wanted>>

AddFails ==
    /\ at = "return" /\ stack = <<>> /\ rc = "ERROR"
    /\ progTag' = IF site = "assert" THEN NextTag(tag) ELSE tag
    /\ Fail
    /\ UNCHANGED <<marks, tag, memory>>

-----------------------------------------------------------------------------
(* The end of sre_vm_pike_exec. *)

\* The end of the last match as an offset into the chunk.
MatchEnd == lastMatched - processed

\* A slip on SaveContext: the program does not learn the tag.
SaveContextNoTag ==
    /\ IF lastMatched >= 0 /\ MatchEnd > 0
       THEN /\ seenNewline' = (ByteAt(MatchEnd - 1) = Newline)
            /\ seenWord' = (ByteAt(MatchEnd - 1) \in WordByte)
       ELSE UNCHANGED <<seenNewline, seenWord>>
    /\ lastMatched' = -1
    /\ UNCHANGED progTag

\* Look-behind context for the next search, from the byte before the end of the
\* last match; it is not set if that is the chunk's beginning.
SaveContext ==
    /\ IF lastMatched >= 0 /\ MatchEnd > 0
       THEN /\ seenNewline' = (ByteAt(MatchEnd - 1) = Newline)
            /\ seenWord' = (ByteAt(MatchEnd - 1) \in WordByte)
       ELSE UNCHANGED <<seenNewline, seenWord>>
    /\ lastMatched' = -1
    /\ progTag' = tag

\* sre_vm_pike_prepare_matched_captures(ctx, matched, ovector, 1)
MatchedCaptures ==
    LET r   == heap.cell[matched].regex_id + 1
        len == 2 * (prog.ncaps[r] + 1)
    IN  [i \in DOMAIN ovector |->
            IF i < len THEN heap.cell[matched].vector[prog.offset[r] + i] ELSE -1]

\* The same with complete = 0, into the pending_ovector.
PendingCapture ==
    LET c == heap.cell[matched]
        o == prog.offset[c.regex_id + 1]
    IN  <<c.vector[o], c.vector[o + 1]>>

Least(S)    == IF S = {} THEN {-1} ELSE {a \in S : \A b \in S : a <= b}
Greatest(S) == IF S = {} THEN {-1} ELSE {a \in S : \A b \in S : b <= a}

\* A slip on TempCaptures: only the first thread counts.
TempCapturesOfHead ==
    LET v == heap.cell[Thread(Head(clist.ids)).cap].vector
    IN  IF clist.ids = <<>> THEN {ovector}
        ELSE {[ovector EXCEPT ![0] = v[prog.offset[1]], ![1] = v[1]]}

\* What sre_vm_pike_prepare_temp_captures leaves: over the threads left, the least
\* start of any regex's $& and the greatest value of slot 1.
TempCaptures ==
    LET vectors == {heap.cell[Thread(i).cap].vector : i \in Range(clist.ids)}
        starts  == {v[prog.offset[r]] : v \in vectors, r \in Regexes(prog)} \ {-1}
        ends    == {v[1] : v \in vectors} \ {-1}
    IN  {[ovector EXCEPT ![0] = a, ![1] = b] : a \in Least(starts), b \in Greatest(ends)}

Finished == at = "finish"

\* The "eof" branch frees the threads of l all at once.
Emptied(l) == IF l.ids = <<>> THEN l ELSE [ids |-> <<>>, tail |-> l.tail, count |-> 0]

\* A match nothing can replace any more.
FinishMatch ==
    /\ Finished /\ matched # NoCapture
    /\ eof \/ clist.ids = <<>>
    /\ SaveContext
    /\ ovector' = MatchedCaptures
    /\ pool' = [pool EXCEPT !.free = clist.ids \o @]
    /\ clist' = Emptied(clist)
    /\ ctxEof' = (ctxEof \/ clist.ids # <<>>)
    /\ processed' = ovector'[1]
    /\ emptyCapture' = (ovector'[0] = ovector'[1])
    /\ matched' = NoCapture
    /\ firstBuf' = TRUE
    /\ heap' = DecrRef(heap, matched)
    /\ base' = ovector'[1]
    /\ from' = IF emptyCapture' THEN ovector'[1] + 1 ELSE ovector'[1]
    /\ Return([rc |-> "MATCH", id |-> heap.cell[matched].regex_id, pend |-> <<>>])
    /\ UNCHANGED <<program, lastChunk, marks, tag, pending, nlist, temp, seenStart, initial,
                   adding>>

FinishDeclined ==
    /\ Finished /\ matched = NoCapture
    /\ eof
    /\ SaveContext
    /\ ctxEof' = TRUE
    /\ Return(NoRc("DECLINED"))
    /\ UNCHANGED <<program, base, from, lastChunk, ovector, marks, tag, memory, lists, firstBuf,
                   seenStart, emptyCapture, processed, matched, initial, adding>>

\* Whether pending_ovector has to be allocated before SRE_AGAIN.
NeedsPending == wanted /\ matched # NoCapture /\ ~pending

FinishAgain ==
    /\ Finished /\ ~eof
    /\ matched = NoCapture \/ clist.ids # <<>>
    /\ SaveContext
    /\ \E ok \in Allocation(~NeedsPending) :
        IF ok
        THEN /\ pending' = (pending \/ NeedsPending)
             /\ processed' = processed + sp
             /\ base' = base + size
             /\ ovector' \in TempCaptures
             /\ Return([rc |-> "AGAIN", id |-> -1,
                        pend |-> IF wanted /\ matched # NoCapture
                                 THEN PendingCapture ELSE <<>>])
        ELSE /\ Return(NoRc("ERROR"))
             /\ UNCHANGED <<pending, processed, base, ovector>>
    /\ UNCHANGED <<program, from, lastChunk, marks, tag, heap, pool, lists, firstBuf, seenStart,
                   ctxEof, emptyCapture, matched, initial, adding>>

-----------------------------------------------------------------------------
\* sre_vm_pike_create_ctx; the compiler has left tag 1 in the instructions that
\* its search for the leading bytes visited, and in the program.
Init ==
    /\ prog \in Programs /\ stream \in Streams
    /\ base = 0 /\ from = 0 /\ lastChunk = FALSE /\ out = NoOut
    /\ ovector = [i \in 0 .. prog.slots - 1 |-> -1]
    /\ marks = [i \in Pcs(prog) |-> IF i \in prog.visited THEN 1 ELSE 0]
    /\ progTag = 1
    /\ heap = EmptyHeap /\ pool = EmptyHeap /\ pending = FALSE
    /\ tag = 0 /\ processed = 0 /\ matched = NoCapture
    /\ clist = EmptyList /\ nlist = EmptyList /\ temp = EmptyList
    /\ lastMatched = -1 /\ initial = [count |-> 0, pcs |-> <<>>]
    /\ firstBuf = TRUE /\ seenStart = FALSE /\ ctxEof = FALSE
    /\ emptyCapture = FALSE /\ seenNewline = FALSE /\ seenWord = FALSE
    /\ at = "idle" /\ sp = 0 /\ size = 0 /\ eof = FALSE /\ wanted = FALSE
    /\ t = NoThread
    /\ site = "none" /\ call = NoCall /\ stack = <<>> /\ rc = "OK"

Call == ExecAfterEof \/ ExecEmptyChunk \/ ExecFirstBuffer \/ ExecResume

Loop == LoopEnd \/ LoopStep \/ LoopSkip \/ Skipped \/ ClearThread \/ ClearedSkipped
        \/ StepDone \/ StepNext

Run == ThreadDies \/ ThreadConsumes \/ AssertionFails \/ AssertionHold \/ ThreadMatches

AddThread == AddMarked \/ AddJmp \/ AddSplit \/ AddSave \/ AddLookBehind
             \/ AddMatchDone \/ AddWaiting \/ AddReturn

AddDone == Seeded \/ Restarted \/ Consumed \/ ConsumedToMatch \/ Asserted \/ AddFails

Finish == FinishMatch \/ FinishDeclined \/ FinishAgain

Machine == Loop \/ Run \/ AddThread \/ AddDone \/ Finish

Next == Call \/ Machine

\* A call, once made, runs to its return; the caller owes nothing.
Spec == Init /\ [][Next]_vars /\ WF_vars(Machine)

-----------------------------------------------------------------------------
Labels == {"idle", "loop", "threads", "add", "return", "finish", "clear-skipped",
           "skipped", "clear-matched", "clear-leftover"}

Vectors(p) == [0 .. p.slots - 1 -> Int]

RegexIds(p) == 0 .. Len(p.ncaps) - 1

Frames(p, n) == [pc : Live(p), cap : 1 .. n]

Threads(p, n) == [pc : Live(p), cap : 1 .. n, sw : BOOLEAN]

ThreadLists(n) == [ids : Seq(1 .. n), tail : 0 .. n, count : Int]

\* The innermost call holds its capture until it has put it into a list or, as
\* the result of SRE_DONE, handed it to the running thread.
CallHolds == at = "add" \/ (at = "return" /\ rc = "DONE")

TypeOfProgram ==
    /\ prog \in Programs /\ stream \in Streams
    /\ marks \in [Pcs(prog) -> Nat] /\ progTag \in Nat /\ tag \in Nat

TypeOfCaller ==
    /\ base \in Int /\ from \in Int /\ lastChunk \in BOOLEAN
    /\ out.rc \in {"none", "MATCH", "AGAIN", "DECLINED", "ERROR"}
    /\ ovector \in Vectors(prog)

TypeOfMemory ==
    /\ heap \in Pools(Cells(RegexIds(prog), Vectors(prog)))
    /\ pool \in Pools(Threads(prog, Len(heap.cell)))
    /\ pending \in BOOLEAN

TypeOfContext ==
    /\ processed \in Int /\ lastMatched \in Int
    /\ matched \in Captures(heap) \cup {NoCapture}
    /\ clist \in ThreadLists(Len(pool.cell))
    /\ nlist \in ThreadLists(Len(pool.cell))
    /\ initial \in [count : Int, pcs : Seq(Live(prog))]
    /\ firstBuf \in BOOLEAN /\ seenStart \in BOOLEAN /\ ctxEof \in BOOLEAN
    /\ emptyCapture \in BOOLEAN /\ seenNewline \in BOOLEAN /\ seenWord \in BOOLEAN

TypeOfLocals ==
    /\ at \in Labels
    /\ sp \in Nat /\ size \in Nat /\ eof \in BOOLEAN /\ wanted \in BOOLEAN
    /\ t \in 0 .. Len(pool.cell)
    /\ temp \in ThreadLists(Len(pool.cell))

TypeOfCalls ==
    /\ site \in {"none", "first", "skip", "byte", "assert"}
    /\ site = "none" <=> at \notin {"add", "return"}
    /\ site \in {"byte", "assert"} => t # NoThread
    /\ call.pc \in Live(prog) /\ call.cap \in 0 .. Len(heap.cell)
    /\ CallHolds => call.cap # NoCapture
    /\ stack \in Seq(Frames(prog, Len(heap.cell)))
    /\ rc \in {"OK", "DONE", "ERROR"}

\* Every variable has its type, and every pointer leads somewhere: a call, a frame
\* and a thread to an instruction that is executed and to a capture, a list to
\* threads, a call site to its running thread, and a regex id to a regex, so that
\* sre_vm_pike_prepare_matched_captures never returns SRE_ERROR.
TypeOK ==
    /\ TypeOfProgram
    /\ TypeOfCaller
    /\ TypeOfMemory
    /\ TypeOfContext
    /\ TypeOfLocals
    /\ TypeOfCalls

-----------------------------------------------------------------------------
(* Ownership of captures and of threads. *)

Listed == Range(clist.ids) \cup Range(nlist.ids) \cup Range(temp.ids)

Holders(c) ==
    {<<"thread", i>> : i \in {j \in Listed : Thread(j).cap = c}}
      \cup {<<"frame", k>> : k \in {j \in DOMAIN stack : stack[j].cap = c}}
      \cup (IF CallHolds /\ call.cap = c THEN {<<"call", 0>>} ELSE {})
      \cup (IF matched = c THEN {<<"matched", 0>>} ELSE {})

\* A capture has at least one reference for every thread, every pending call and
\* the match that hold it, so none of them sees it recycled or written under it
\* (more references than holders only keep a cell from being recycled).
RefsCoverHolders ==
    \A c \in Captures(heap) : Cardinality(Holders(c)) <= heap.cell[c].ref

\* A recycled capture has no reference left and is on the free list once.
FreeCapturesUnused ==
    /\ \A c \in Range(heap.free) : heap.cell[c].ref = 0
    /\ IsInjective(heap.free)

Running == IF t = NoThread THEN {} ELSE {t}

\* The sets of threads a cell is in one of.
Whereabouts == <<Range(clist.ids), Range(nlist.ids), Range(temp.ids),
                 Range(pool.free), Running>>

\* A thread is in one list, or free, or running, and there once: the lists share
\* no cell, no cell is freed twice and none that is freed is still linked.
ThreadsOwnedOnce ==
    /\ IsInjective(clist.ids) /\ IsInjective(nlist.ids)
    /\ IsInjective(temp.ids) /\ IsInjective(pool.free)
    /\ \A i, j \in 1 .. 5 : i # j => Whereabouts[i] \cap Whereabouts[j] = {}

\* The tail pointer of a list is stale after its head has been popped or a
\* list has been put in front of it; where it is used (to append a thread, to
\* splice the threads of an assertion, to free what an eof leaves) it is the
\* last thread's, and the count that decides on skipping is right.
TailIsLast(l) == l.ids # <<>> => l.tail = l.ids[Len(l.ids)]

AppendsAtTail ==
    /\ at \in {"add", "return"} => TailIsLast(Target)
    /\ at = "finish" /\ eof => TailIsLast(clist)
    /\ \A l \in {clist, nlist, temp} : l.count = Len(l.ids)

\* A thread list is no longer than the program: no two of its threads wait at
\* the same instruction.
OneThreadPerPc ==
    \A l \in {clist, nlist} : \A i, j \in DOMAIN l.ids :
        Thread(l.ids[i]).pc = Thread(l.ids[j]).pc => i = j

\* Copy on write: a step changes the positions in a capture only if one holder
\* is left, or if the capture was free.
WritesAreUnshared ==
    [][\A c \in Captures(heap) :
          heap'.cell[c].vector # heap.cell[c].vector => Cardinality(Holders(c)) <= 1]_vars

\* A round of add_thread calls begins: that of a new search, or of a new byte (the
\* assertions within a round go back a tag and forth).
RoundBegins ==
    \/ site = "none" /\ site' \in {"first", "skip"}
    \/ site \in {"none", "skip"} /\ at # "threads" /\ at' = "threads"

\* The visits of a round must not be cut short by those of an earlier one: it
\* begins with a tag that no instruction carries, whatever the tags that the
\* compiler, an earlier search or an earlier call have left in the program.
RoundsAreFresh ==
    [][RoundBegins => \A i \in Pcs(prog) : marks[i] # tag']_vars

\* A call that has been made returns.
CallsReturn == at # "idle" ~> at = "idle"
=============================================================================
