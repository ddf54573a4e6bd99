----------------------------- MODULE ThompsonJIT -----------------------------
(***************************************************************************)
(* The Thompson VM as machine code (sre_vm_thompson_jit.c and what         *)
(* sre_vm_thompson_x64.dasc emits): a program is compiled, contexts are    *)
(* created for it, each of them for one data stream that comes in chunks,  *)
(* and the code runs on them, with one action per step of its own.         *)
(*                                                                         *)
(* The threads added are recorded in the register ADDED, as they are when  *)
(* no more than 64 of them can be added twice.                             *)
(***************************************************************************)
EXTENDS JITImage

CONSTANTS
    Images,       \* What the compiler makes of the programs a behaviour may run.
    Streams,      \* The byte sequences the caller may feed.
    ChunkKinds,   \* What it feeds: "last" (the rest, with eof), "data" (a
                  \* non-empty chunk), "empty" (an empty one without eof).
    MaxContexts,  \* Bound: the number of contexts created,
    MaxCounts     \*   and how often the compiler counts the threads.

ASSUME ImagesAssumption == \A image \in Images : WellFormedImage(image)

ASSUME JITAssumption ==
    /\ Streams \subseteq Seq(Byte)
    /\ WordByte \subseteq Byte /\ Newline \in Byte
    /\ ChunkKinds \subseteq {"last", "data", "empty"}
    /\ MaxContexts \in Nat /\ MaxCounts \in Nat

VARIABLES
    prog,         \* chosen at the start
    pcode,        \* whether there is machine code: "none" or "mapped"
    uniqThreads,  \* prog->uniq_threads
    contexts,     \* sre_vm_thompson_ctx_t, in the order of their creation
    \* registers: the step the code is at, its arguments, the thread and the state
    \* of its path, the lists CTL and TL, and ADDED
    at, self, sp, size, eof, ct, st, clist, nlist, added

native == <<pcode, uniqThreads>>
exec   == <<self, sp, size, eof>>
lists  == <<clist, nlist, added>>

vars == <<prog, native, contexts, at, exec, ct, st, lists>>

-----------------------------------------------------------------------------
NoContext == 0

This == contexts[self]

ByteAt(n) == This.stream[This.base + n + 1]

\* LB, the last step: there is no byte any more.
LastByte == sp = size

IsWord == ~LastByte /\ ByteAt(sp) \in WordByte

\* What the register C may hold: at the end of the stream it is the byte before, or
\* what the caller left in it.
Current ==
    IF ~LastByte THEN {ByteAt(sp)}
    ELSE IF size > 0 THEN {ByteAt(size - 1)}
    ELSE Byte

-----------------------------------------------------------------------------
(* Machine code and contexts. *)

\* sre_vm_thompson_jit_compile: it may fail before the threads are counted, or after.
JitCompile ==
    /\ at = "idle" /\ pcode = "none"
    /\ uniqThreads < MaxCounts * prog.uniq
    /\ \E result \in {"mapped", "none"}, counted \in BOOLEAN :
        /\ result = "mapped" => counted
        /\ pcode' = result
        /\ uniqThreads' = uniqThreads + IF counted THEN prog.uniq ELSE 0
    /\ UNCHANGED <<prog, contexts, at, exec, ct, st, lists>>

\* sre_vm_thompson_jit_free
JitFree ==
    /\ at = "idle" /\ pcode = "mapped"
    /\ pcode' = "none"
    /\ UNCHANGED <<prog, uniqThreads, contexts, at, exec, ct, st, lists>>

\* A slip on Capacity: the lists have no entry for a thread that a look-ahead holds.
CapacityOfPcs == Cardinality(DOMAIN prog.paths) - 1

Capacity == uniqThreads

\* sre_vm_thompson_jit_create_ctx, with a new stream for the new context.
CreateCtx ==
    /\ at = "idle" /\ pcode = "mapped"
    /\ Len(contexts) < MaxContexts
    /\ \E s \in Streams :
        contexts' = Append(contexts, [stream |-> s, base |-> 0, out |-> "none",
                                      firstBuf |-> TRUE, capacity |-> Capacity,
                                      threads |-> <<>>])
    /\ UNCHANGED <<prog, native, at, exec, ct, st, lists>>

Chunks(c) ==
    LET rest == Len(contexts[c].stream) - contexts[c].base
    IN  {chunk \in [size : 0 .. rest, eof : BOOLEAN] :
          \/ "last" \in ChunkKinds /\ chunk.eof /\ chunk.size = rest
          \/ "data" \in ChunkKinds /\ ~chunk.eof /\ chunk.size > 0
          \/ "empty" \in ChunkKinds /\ ~chunk.eof /\ chunk.size = 0}

\* The code is called; on the first buffer of a stream it takes the path from the start,
\* whose states go to the current list.
Exec ==
    /\ at = "idle" /\ pcode = "mapped"
    /\ \E c \in DOMAIN contexts :
        /\ contexts[c].out \in {"none", "AGAIN"}
        /\ \E chunk \in Chunks(c) : size' = chunk.size /\ eof' = chunk.eof
        /\ self' = c
        /\ at' = IF contexts[c].firstBuf THEN "first_buf" ELSE "sp_loop"
        /\ clist' = contexts[c].threads
        /\ contexts' = [contexts EXCEPT ![c].firstBuf = FALSE]
    /\ sp' = 0 /\ ct' = 1 /\ st' = 1 /\ nlist' = <<>> /\ added' = {}
    /\ UNCHANGED <<prog, native>>

Return(rc, threads) ==
    /\ at' = "idle" /\ self' = NoContext
    /\ sp' = 0 /\ size' = 0 /\ eof' = FALSE
    /\ ct' = 1 /\ st' = 1 /\ clist' = <<>> /\ nlist' = <<>> /\ added' = {}
    /\ contexts' = [contexts EXCEPT ![self] =
                       [@ EXCEPT !.out = rc, !.threads = threads,
                                 !.base = This.base + size]]
    /\ UNCHANGED <<prog, native>>

-----------------------------------------------------------------------------
(* The loop over the bytes (sre_vm_thompson_jit_prologue). *)

\* Nothing to do: the buffer is consumed and is not the last, or no thread is left.
Done == (LastByte /\ ~eof) \/ clist = <<>>

LoopEnd ==
    /\ at = "sp_loop"
    /\ Done
    /\ Return(IF eof THEN "DECLINED" ELSE "AGAIN", clist)

RunCurThreads ==
    /\ at = "sp_loop"
    /\ ~Done
    /\ at' = "run_thread" /\ ct' = 1
    /\ added' = {}
    /\ UNCHANGED <<prog, native, contexts, exec, st, clist, nlist>>

\* The lists change places; the step after the last byte is the last.
RunThreadsDone ==
    /\ at = "run_thread" /\ ct > Len(clist)
    /\ IF LastByte
       THEN Return(IF eof THEN "DECLINED" ELSE "AGAIN", nlist)
       ELSE /\ clist' = nlist /\ nlist' = <<>>
            /\ at' = "sp_loop" /\ sp' = sp + 1
            /\ UNCHANGED <<prog, native, contexts, self, size, eof, ct, st, added>>

-----------------------------------------------------------------------------
(* A thread: the handler of its assertions (sre_vm_thompson_jit_epilogue), *)
(* and the test at the beginning of its path.                              *)

\* A slip on HandlerPasses: LB is not tested for $.
HandlerPassesByC(t, c) ==
    /\ "\\z" \in t.asserts => LastByte
    /\ "$" \in t.asserts => c = Newline
    /\ "\\b" \in t.asserts => t.seenWord # IsWord
    /\ "\\B" \in t.asserts /\ "\\b" \notin t.asserts => t.seenWord = IsWord

\* c is what the register C holds.
HandlerPasses(t, c) ==
    /\ "\\z" \in t.asserts => LastByte
    /\ "$" \in t.asserts => (LastByte /\ "\\z" \notin t.asserts) \/ c = Newline
    /\ "\\b" \in t.asserts => t.seenWord # IsWord
    /\ "\\B" \in t.asserts /\ "\\b" \notin t.asserts => t.seenWord = IsWord

\* A slip on Consumes: LB is not tested.
ConsumesAnything(pc) == \E c \in Current : Accepts(prog.code[pc], c)

Consumes(pc) == ~LastByte /\ Accepts(prog.code[pc], ByteAt(sp))

\* A slip on NextThread: a thread that does not run its path is not passed over.
NextThreadOfPath == IF at = "path" THEN ct + 1 ELSE ct

NextThread == ct + 1

AtThread == at = "run_thread" /\ ct <= Len(clist)

RunNextThread ==
    /\ AtThread
    /\ LET t == clist[ct]
       IN  \/ \E c \in Current : ~HandlerPasses(t, c)
           \/ prog.code[t.pc].op # "match" /\ ~Consumes(t.pc)
    /\ ct' = NextThread
    /\ UNCHANGED <<prog, native, contexts, at, exec, st, lists>>

CallPath ==
    /\ AtThread
    /\ LET t == clist[ct]
       IN  /\ \E c \in Current : HandlerPasses(t, c)
           /\ prog.code[t.pc].op # "match" /\ Consumes(t.pc)
    /\ at' = "path" /\ st' = 1
    /\ UNCHANGED <<prog, native, contexts, exec, ct, lists>>

\* The path of a thread that matches is no more than "return SRE_OK".
CallMatch ==
    /\ AtThread
    /\ prog.code[clist[ct].pc].op = "match"
    /\ \E c \in Current : HandlerPasses(clist[ct], c)
    /\ Return("OK", nlist)

-----------------------------------------------------------------------------
(* A path (sre_vm_thompson_jit_compile_path), state by state.              *)

OnPath == at \in {"first_buf", "path"}

From == IF at = "first_buf" THEN 0 ELSE clist[ct].pc

Path == prog.paths[From]

AtStart == at = "first_buf"

\* A slip on BehindHolds: the first byte of a chunk is taken for that of the stream.
BehindHoldsInChunk(state) ==
    sp > 0 => /\ "\\A" \notin state.asserts
              /\ "^" \in state.asserts => ByteAt(sp) = Newline

\* \A and ^, after the byte of the path.
BehindHolds(state) ==
    ~AtStart => /\ "\\A" \notin state.asserts
                /\ "^" \in state.asserts => ByteAt(sp) = Newline

Matched(state) == ~IsThread(prog.code, state)

\* A slip on AddedBefore: the look-aheads of a thread are left out.
AddedBeforeByPc(state) == ~AtStart /\ \E n \in added : n[1] = state.pc

AddedBefore(state) == ~AtStart /\ ThreadIndex(state) \in added

\* The thread that waits at a state; seen_word is set for \b and \B.
Thread(state) ==
    [pc |-> state.pc, asserts |-> state.asserts \cap LookAhead,
     seenWord |-> state.asserts \cap WordBoundary # {} /\ ~AtStart /\ IsWord]

AtState == OnPath /\ st <= Len(Path)

SkipState ==
    /\ AtState
    /\ \/ ~BehindHolds(Path[st])
       \/ ~Matched(Path[st]) /\ AddedBefore(Path[st])
    /\ st' = st + 1
    /\ UNCHANGED <<prog, native, contexts, at, exec, ct, lists>>

StateMatches ==
    /\ AtState
    /\ BehindHolds(Path[st]) /\ Matched(Path[st])
    /\ Return("OK", IF AtStart THEN clist ELSE nlist)

AddThread ==
    /\ AtState
    /\ BehindHolds(Path[st]) /\ ~Matched(Path[st]) /\ ~AddedBefore(Path[st])
    /\ IF AtStart
       THEN clist' = Append(clist, Thread(Path[st])) /\ UNCHANGED <<nlist, added>>
       ELSE /\ nlist' = Append(nlist, Thread(Path[st]))
            /\ added' = added \cup ({ThreadIndex(Path[st])} \cap prog.dups)
            /\ UNCHANGED clist
    /\ st' = st + 1
    /\ UNCHANGED <<prog, native, contexts, at, exec, ct>>

PathEnds ==
    /\ OnPath /\ st > Len(Path)
    /\ IF AtStart THEN at' = "sp_loop" /\ UNCHANGED ct
                  ELSE at' = "run_thread" /\ ct' = NextThread
    /\ st' = 1
    /\ UNCHANGED <<prog, native, contexts, exec, lists>>

-----------------------------------------------------------------------------
Init ==
    /\ prog \in Images
    /\ pcode = "none" /\ uniqThreads = 0
    /\ contexts = <<>>
    /\ at = "idle" /\ self = NoContext /\ sp = 0 /\ size = 0 /\ eof = FALSE
    /\ ct = 1 /\ st = 1 /\ clist = <<>> /\ nlist = <<>> /\ added = {}

Loop == LoopEnd \/ RunCurThreads \/ RunThreadsDone

Run == RunNextThread \/ CallPath \/ CallMatch

Walk == SkipState \/ StateMatches \/ AddThread \/ PathEnds

Machine == Loop \/ Run \/ Walk

Caller == JitCompile \/ JitFree \/ CreateCtx \/ Exec

Next == Caller \/ Machine

\* A call, once made, runs to its return; the caller owes nothing.
Spec == Init /\ [][Next]_vars /\ WF_vars(Machine)

-----------------------------------------------------------------------------
Threads == [pc : DOMAIN prog.code, asserts : SUBSET LookAhead, seenWord : BOOLEAN]

Contexts ==
    [stream : Streams, base : Nat, out : {"none", "OK", "AGAIN", "DECLINED"},
     firstBuf : BOOLEAN, capacity : Nat, threads : Seq(Threads)]

\* A thread runs a path there is, or the shared code of a match.
HasCode(list) ==
    \A t \in DOMAIN list :
        \/ prog.code[list[t].pc].op = "match"
        \/ list[t].pc \in DOMAIN prog.paths

\* Every variable has its type, a thread is where there is code for it, the code runs
\* only while it is mapped, and the byte it reads is in the chunk.
TypeOK ==
    /\ pcode \in {"none", "mapped"} /\ uniqThreads \in Nat
    /\ contexts \in Seq(Contexts)
    /\ \A c \in DOMAIN contexts :
        contexts[c].base <= Len(contexts[c].stream) /\ HasCode(contexts[c].threads)
    /\ at \in {"idle", "first_buf", "sp_loop", "run_thread", "path"}
    /\ sp \in Nat /\ size \in Nat /\ eof \in BOOLEAN
    /\ at # "idle" =>
        /\ pcode = "mapped"
        /\ self \in DOMAIN contexts
        /\ This.base + size <= Len(This.stream)
        /\ sp <= size
    /\ ct \in Nat \ {0} /\ st \in Nat \ {0}
    /\ clist \in Seq(Threads) /\ nlist \in Seq(Threads)
    /\ HasCode(clist) /\ HasCode(nlist)
    /\ at = "path" =>
        ct <= Len(clist) /\ sp < size /\ prog.code[clist[ct].pc].op # "match"
    /\ added \subseteq prog.dups

\* The lists of a context have an entry for each of the threads that jit_compile
\* counted, and the code that appends to them does not look: no list grows longer.
ListsFit ==
    at # "idle" => Len(clist) <= This.capacity /\ Len(nlist) <= This.capacity

\* The programs and the streams, with how a search ends by the meaning of the code.
Meanings ==
    {<<image, s, IF Accepted(image, s) THEN "OK" ELSE "DECLINED">> :
        image \in Images, s \in Streams}

IsAccepted(image, s) == <<image, s, "OK">> \in Meanings

\* A call says SRE_OK only for a stream that has a match, whatever the chunks it came in,
\* however the calls for other streams alternate with its own and whatever is compiled
\* in between.
MatchesAreReal ==
    \A c \in DOMAIN contexts :
        contexts[c].out = "OK" => IsAccepted(prog, contexts[c].stream)

\* What a caller has fed, by context, and the last answer.
Fed == [c \in DOMAIN contexts |->
           [stream |-> contexts[c].stream, n |-> contexts[c].base, out |-> contexts[c].out]]

Meant == INSTANCE Recognizer
             WITH Programs <- Images, IsMatch <- IsAccepted, fed <- Fed

\* The machine code implements the recognizer of what the code of the program means: no
\* call says SRE_OK without a match, nor SRE_DECLINED before the end or with one.
AnswersAsMeant == Meant!Spec

\* A call that has been made returns.
CallsReturn == at # "idle" ~> at = "idle"
=============================================================================
