----------------------------- MODULE ThompsonVM -----------------------------
(***************************************************************************)
(* The Thompson VM of sregex (sre_vm_thompson.c): contexts over one        *)
(* program, each of them for one data stream that comes in chunks, with    *)
(* one action per step of sre_vm_thompson_exec.                            *)
(*                                                                         *)
(* sre_vm_thompson_add_thread is recursive; the calls that are still to be *)
(* made are the variable "todo", a stack of program counters.  The visit   *)
(* tags are in the program, which the contexts share.                      *)
(***************************************************************************)
EXTENDS Acceptance

CONSTANTS
    Programs,     \* The compiled programs a behaviour may run (sre_program_t).
    Streams,      \* The byte sequences the caller may feed.
    ChunkKinds,   \* What it feeds: "last" (the rest, with eof), "data" (a
                  \* non-empty chunk), "empty" (an empty one without eof).
    Together,     \* Whether the caller feeds an older context when there is a
                  \* newer one: FALSE is one stream after the other.
    MaxContexts,  \* Bound: the number of contexts created.
    TagModulus    \* 2^w for the width w of the unsigned tags.

ASSUME ConstantsAssumption ==
    /\ \A p \in Programs : WellFormed(p)
    /\ Streams \subseteq Seq(Byte)
    /\ WordByte \subseteq Byte /\ Newline \in Byte
    /\ ChunkKinds \subseteq {"last", "data", "empty"}
    /\ Together \in BOOLEAN
    /\ MaxContexts \in Nat /\ TagModulus \in Nat \ {0}

VARIABLES
    prog,           \* chosen at the start
    marks, progTag, \* sre_program_t: the tags of its instructions and its own
    contexts,       \* sre_vm_thompson_ctx_t, in the order of their creation
    \* locals of sre_vm_thompson_exec: the step it is at, the context it runs
    \* on, its arguments and its two lists
    at, self, sp, size, eof, i, clist, nlist,
    todo            \* sre_vm_thompson_add_thread

program == <<prog, marks, progTag>>
exec    == <<self, sp, size, eof>>
lists   == <<i, clist, nlist>>

vars == <<program, contexts, at, exec, lists, todo>>

-----------------------------------------------------------------------------
NoContext == 0

Ins(pc) == prog.code[pc]

This == contexts[self]

ByteAt(k) == This.stream[This.base + k + 1]

IsWord(k) == k < size /\ ByteAt(k) \in WordByte

\* A slip on PrevTag: what is behind an assertion is walked under the tag of the next list.
PrevTagSame(n) == n

NextTag(n) == (n + 1) % TagModulus
PrevTag(n) == (n - 1) % TagModulus

SetTag(n) == contexts' = [contexts EXCEPT ![self].tag = n]

\* A slip on ArrayLen: only what consumes a byte has an entry.
ArrayLenOfBytes == Cardinality({pc \in Pcs(prog) : Ins(pc).op \in Consumers})

\* How long the thread arrays are made.
ArrayLen == Cardinality(Pcs(prog))

\* sre_vm_thompson_create_ctx, with a new stream for the new context.  The rest of
\* the record is what the caller knows: the stream, where its next chunk
\* begins, and what the last call returned.
Create ==
    /\ at = "idle"
    /\ Len(contexts) < MaxContexts
    /\ \E s \in Streams :
        contexts' = Append(contexts, [stream |-> s, base |-> 0, out |-> "none",
                                      tag |-> NextTag(progTag), firstBuf |-> TRUE,
                                      threads |-> <<>>])
    /\ UNCHANGED <<program, at, exec, lists, todo>>

\* A context is discarded when its stream is matched or has ended.
InUse(c) ==
    /\ contexts[c].out \in {"none", "AGAIN"}
    /\ Together \/ c = Len(contexts)

Chunks(c) ==
    LET rest == Len(contexts[c].stream) - contexts[c].base
    IN  {k \in [size : 0 .. rest, eof : BOOLEAN] :
          \/ "last" \in ChunkKinds /\ k.eof /\ k.size = rest
          \/ "data" \in ChunkKinds /\ ~k.eof /\ k.size > 0
          \/ "empty" \in ChunkKinds /\ ~k.eof /\ k.size = 0}

\* The entry of sre_vm_thompson_exec: the first buffer of a stream starts a walk
\* from the first instruction.
Exec ==
    /\ at = "idle"
    /\ \E c \in DOMAIN contexts :
        /\ InUse(c)
        /\ \E k \in Chunks(c) : size' = k.size /\ eof' = k.eof
        /\ self' = c
        /\ clist' = contexts[c].threads
        /\ at' = IF contexts[c].firstBuf THEN "seed" ELSE "loop"
        /\ todo' = IF contexts[c].firstBuf THEN <<0>> ELSE <<>>
        /\ contexts' = [contexts EXCEPT ![c].firstBuf = FALSE]
    /\ sp' = 0 /\ nlist' = <<>> /\ i' = 1
    /\ UNCHANGED program

-----------------------------------------------------------------------------
(* The loop over the bytes of the chunk. *)

\* A slip on MoreInput: no step at the end of the stream.
MoreInputBytes == sp < size

\* The condition of the loop: at the end of the stream there is one more step, for
\* the look-aheads.
MoreInput == sp < size \/ (eof /\ sp = size)

LoopEnd ==
    /\ at = "loop"
    /\ ~MoreInput \/ clist = <<>>
    /\ at' = "finish"
    /\ UNCHANGED <<program, contexts, exec, lists, todo>>

LoopStep ==
    /\ at = "loop"
    /\ MoreInput /\ clist # <<>>
    /\ SetTag(NextTag(This.tag))
    /\ at' = "threads"
    /\ i' = 1
    /\ UNCHANGED <<program, exec, clist, nlist, todo>>

\* A slip on AtLast: the loop goes on after the step at the end of the chunk.
AtLastNever == FALSE

AtLast == sp = size

\* The lists are swapped and the new next one is emptied.
StepDone ==
    /\ at = "threads" /\ i > Len(clist)
    /\ clist' = nlist /\ nlist' = <<>>
    /\ IF AtLast
       THEN at' = "finish" /\ UNCHANGED sp
       ELSE at' = "loop" /\ sp' = sp + 1
    /\ UNCHANGED <<program, contexts, self, size, eof, i, todo>>

-----------------------------------------------------------------------------
(* One thread of clist: the switch on its opcode. *)

Waiting(ops) == at = "threads" /\ i <= Len(clist) /\ Ins(clist[i].pc).op \in ops

CanConsume == sp < size /\ Accepts(Ins(clist[i].pc), ByteAt(sp))

\* Where the next byte decides; \z and $ hold at the end of the input.
AssertionHolds ==
    LET look == Ins(clist[i].pc).look
    IN  \/ look = "\\z" /\ sp = size
        \/ look = "$" /\ (sp < size => ByteAt(sp) = Newline)
        \/ look = "\\B" /\ clist[i].seenWord = IsWord(sp)
        \/ look = "\\b" /\ clist[i].seenWord # IsWord(sp)

AddFrom(place) ==
    /\ at' = place
    /\ todo' = <<clist[i].pc + 1>>

ThreadConsumes ==
    /\ Waiting({"char", "in", "notin", "any"})
    /\ CanConsume
    /\ AddFrom("byte")
    /\ UNCHANGED <<program, contexts, exec, lists>>

\* A slip on NextThread: an assertion that holds is run again.
NextThreadAgain == IF at = "assert" THEN i ELSE i + 1

NextThread == i + 1

\* The thread is passed over.
ThreadDies ==
    /\ \/ Waiting({"char", "in", "notin", "any"}) /\ ~CanConsume
       \/ Waiting({"assert"}) /\ ~AssertionHolds
    /\ i' = NextThread
    /\ UNCHANGED <<program, contexts, at, exec, clist, nlist, todo>>

\* What is behind the assertion is added to the list being run, under its tag.
AssertionHold ==
    /\ Waiting({"assert"})
    /\ AssertionHolds
    /\ SetTag(PrevTag(This.tag))
    /\ AddFrom("assert")
    /\ UNCHANGED <<program, exec, lists>>

\* Return from sre_vm_thompson_exec.
Return(code, threads) ==
    /\ at' = "idle" /\ self' = NoContext
    /\ sp' = 0 /\ size' = 0 /\ eof' = FALSE
    /\ i' = 1 /\ clist' = <<>> /\ nlist' = <<>>
    /\ contexts' = [contexts EXCEPT ![self] =
                       [@ EXCEPT !.out = code, !.threads = threads,
                                 !.base = This.base + size]]
    /\ UNCHANGED <<prog, marks, todo>>

\* The context keeps the list it began with, and is not used again.
ThreadMatches ==
    /\ Waiting({"match"})
    /\ progTag' = This.tag
    /\ Return("OK", This.threads)

-----------------------------------------------------------------------------
(* sre_vm_thompson_add_thread. *)

Adding == at \in {"seed", "byte", "assert"} /\ todo # <<>>

\* A slip on Pos: what the byte leads to is walked at the byte, not behind it.
PosOfByte == sp

\* The position the walk is at, from the beginning of the chunk.
Pos == IF at = "byte" THEN sp + 1 ELSE sp

LookBehind == {"\\A", "^"}

LookBehindHolds(look) ==
    \/ Pos = 0
    \/ look = "^" /\ ByteAt(Pos - 1) = Newline

SeenWord(ins) ==
    ins.op = "assert" /\ ins.look \in {"\\b", "\\B"} /\ Pos # 0 /\ IsWord(Pos - 1)

\* The instructions the walk goes on to from ins, which is at pc.
Follow(ins, pc) ==
    CASE ins.op = "jmp"   -> <<ins.x>>
      [] ins.op = "split" -> <<ins.x, ins.y>>
      [] ins.op = "save"  -> <<pc + 1>>
      [] OTHER -> IF LookBehindHolds(ins.look) THEN <<pc + 1>> ELSE <<>>

Passes(ins) ==
    ins.op \in {"jmp", "split", "save"} \/ (ins.op = "assert" /\ ins.look \in LookBehind)

AddVisited ==
    /\ Adding
    /\ marks[Head(todo)] = This.tag
    /\ todo' = Tail(todo)
    /\ UNCHANGED <<program, contexts, at, exec, lists>>

Mark(pc) == marks' = [marks EXCEPT ![pc] = This.tag]

AddPasses ==
    /\ Adding
    /\ LET pc == Head(todo)
       IN  /\ marks[pc] # This.tag
           /\ Passes(Ins(pc))
           /\ Mark(pc)
           /\ todo' = Follow(Ins(pc), pc) \o Tail(todo)
    /\ UNCHANGED <<prog, progTag, contexts, at, exec, lists>>

\* A byte's threads go to the next list, those of an assertion to the end of
\* the list being run.
AddWaits ==
    /\ Adding
    /\ LET pc == Head(todo)
           thread == [pc |-> pc, seenWord |-> SeenWord(Ins(pc))]
       IN  /\ marks[pc] # This.tag
           /\ ~Passes(Ins(pc))
           /\ Mark(pc)
           /\ IF at = "byte"
              THEN nlist' = Append(nlist, thread) /\ UNCHANGED clist
              ELSE clist' = Append(clist, thread) /\ UNCHANGED nlist
    /\ todo' = Tail(todo)
    /\ UNCHANGED <<prog, progTag, contexts, at, exec, i>>

\* The outermost call of add_thread returns to where it was made.
Seeded ==
    /\ at = "seed" /\ todo = <<>>
    /\ at' = "loop"
    /\ UNCHANGED <<program, contexts, exec, lists, todo>>

Consumed ==
    /\ at = "byte" /\ todo = <<>>
    /\ at' = "threads"
    /\ i' = NextThread
    /\ UNCHANGED <<program, contexts, exec, clist, nlist, todo>>

Asserted ==
    /\ at = "assert" /\ todo = <<>>
    /\ SetTag(NextTag(This.tag))
    /\ at' = "threads"
    /\ i' = NextThread
    /\ UNCHANGED <<program, exec, clist, nlist, todo>>

-----------------------------------------------------------------------------
\* A slip on SaveTag: the program does not learn the tag.
SaveNoTag == UNCHANGED progTag

SaveTag == progTag' = This.tag

Finish ==
    /\ at = "finish"
    /\ SaveTag
    /\ Return(IF eof THEN "DECLINED" ELSE "AGAIN", clist)

-----------------------------------------------------------------------------
\* The compiler has left tag 1 in the instructions that its search for the leading
\* bytes visited, and in the program.
Init ==
    /\ prog \in Programs
    /\ marks = [pc \in Pcs(prog) |-> IF pc \in prog.visited THEN 1 ELSE 0]
    /\ progTag = 1
    /\ contexts = <<>>
    /\ at = "idle" /\ self = NoContext /\ sp = 0 /\ size = 0 /\ eof = FALSE
    /\ i = 1 /\ clist = <<>> /\ nlist = <<>> /\ todo = <<>>

Loop == LoopEnd \/ LoopStep \/ StepDone

Run == ThreadConsumes \/ ThreadDies \/ AssertionHold \/ ThreadMatches

AddThread == AddVisited \/ AddPasses \/ AddWaits \/ Seeded \/ Consumed \/ Asserted

Machine == Loop \/ Run \/ AddThread \/ Finish

Next == Create \/ Exec \/ Machine

\* A call, once made, runs to its return; the caller owes nothing.
Spec == Init /\ [][Next]_vars /\ WF_vars(Machine)

-----------------------------------------------------------------------------
Threads == [pc : Live(prog), seenWord : BOOLEAN]

Contexts ==
    [stream : Streams, base : Nat, out : {"none", "OK", "AGAIN", "DECLINED"},
     tag : Int, firstBuf : BOOLEAN, threads : Seq(Threads)]

\* Every variable has its type; a thread and a walk are at an instruction that is
\* executed, and the byte that a look-ahead reads is in the chunk.
TypeOK ==
    /\ prog \in Programs
    /\ marks \in [Pcs(prog) -> Int] /\ progTag \in Int
    /\ contexts \in Seq(Contexts)
    /\ \A c \in DOMAIN contexts : contexts[c].base <= Len(contexts[c].stream)
    /\ at \in {"idle", "seed", "loop", "threads", "byte", "assert", "finish"}
    /\ at = "idle" \/ self \in DOMAIN contexts
    /\ sp \in Nat /\ size \in Nat /\ eof \in BOOLEAN
    /\ at # "idle" =>
        /\ This.base + size <= Len(This.stream)
        /\ sp <= size
        /\ at = "byte" => sp < size
    /\ i \in Nat \ {0}
    /\ clist \in Seq(Threads) /\ nlist \in Seq(Threads)
    /\ at \in {"byte", "assert"} => i <= Len(clist)
    /\ todo \in Seq(Live(prog))

\* A walk begins: that of a new stream, or of a new byte (the assertions within a
\* step go back a tag and forth).
WalkBegins == at \in {"idle", "loop"} /\ at' \in {"seed", "threads"}

\* The visits of a walk must not be cut short by those of an earlier one: it begins
\* with a tag that no instruction carries, whatever the tags that the compiler
\* or an earlier stream have left in the program.
WalksAreFresh ==
    [][WalkBegins => \A pc \in Pcs(prog) : marks[pc] # contexts'[self'].tag]_vars

\* The thread arrays of a context have an entry for each of the prog->len
\* instructions, and sre_vm_thompson_add_thread does not check: no list grows longer.
\* What keeps it from that is the tags, which the walk behind a look-ahead puts back.
ThreadsFit == \A l \in {clist, nlist} : Len(l) <= ArrayLen

AcceptedStreams == [p \in Programs |-> {s \in Streams : Accepted(p, s)}]

\* SRE_OK is returned only for a stream in which the program finds a match, although
\* the machine has followed all threads at once, and has seen the stream in chunks
\* that begin anywhere.
MatchesAreReal ==
    \A c \in DOMAIN contexts :
        contexts[c].out = "OK" => contexts[c].stream \in AcceptedStreams[prog]

\* SRE_DECLINED is returned only for a stream in which the program finds none: the
\* tags cut short a walk only where another one has been, no thread is lost at the
\* end of a chunk, and none is left when the stream ends.
NoMatchIsMissed ==
    \A c \in DOMAIN contexts :
        contexts[c].out = "DECLINED" => contexts[c].stream \notin AcceptedStreams[prog]

\* A call that has been made returns.
CallsReturn == at # "idle" ~> at = "idle"
=============================================================================
