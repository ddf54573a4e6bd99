--------------------------- MODULE ThompsonVMProofs ---------------------------
(***************************************************************************)
(* Theorems about ThompsonVM for every program, set of streams and caller. *)
(***************************************************************************)
EXTENDS ThompsonVM, AcceptanceProofs, SequenceTheorems, FunctionTheorems

\* What the machine finds at a live instruction, and where it goes from there.
LEMMA InstructionParts ==
    ASSUME NEW p \in Programs, NEW pc \in Live(p)
    PROVE  /\ pc \in Pcs(p) /\ pc \in Nat /\ 0 \in Live(p)
           /\ p.code[pc].op \in Opcodes /\ p.code[pc].look \in Assertions
           /\ p.code[pc].op = "jmp" => p.code[pc].x \in Live(p)
           /\ p.code[pc].op = "split" => p.code[pc].x \in Live(p) /\ p.code[pc].y \in Live(p)
           /\ p.code[pc].op \notin {"jmp", "split", "match"} => pc + 1 \in Live(p)
<1>1. WellFormed(p)
  BY ConstantsAssumption
<1>2. pc \in Pcs(p)
  BY DEF Live
<1>3. pc \in Nat /\ 0 \in Live(p)
  BY <1>1, <1>2 DEF WellFormed, WellFormedCode
<1>4. p.code[pc] \in Instructions(p)
  BY <1>1, <1>2 DEF WellFormed, WellFormedCode
<1>5. p.code[pc].op \in Opcodes /\ p.code[pc].look \in Assertions
  BY <1>4 DEF Instructions
<1>6. Leads(p.code[pc], pc) \subseteq Live(p)
  BY <1>1 DEF WellFormed, WellFormedCode
<1>7. p.code[pc].op = "jmp" => p.code[pc].x \in Live(p)
  BY <1>6 DEF Leads
<1>8. p.code[pc].op = "split" => p.code[pc].x \in Live(p) /\ p.code[pc].y \in Live(p)
  BY <1>6 DEF Leads
<1>9. p.code[pc].op \notin {"jmp", "split", "match"} => pc + 1 \in Live(p)
  BY <1>6 DEF Leads
<1> QED BY <1>2, <1>3, <1>5, <1>7, <1>8, <1>9

\* Tags stay integers.
LEMMA TagType ==
    ASSUME NEW n \in Int
    PROVE  NextTag(n) \in Int /\ PrevTag(n) \in Int
BY ConstantsAssumption DEF NextTag, PrevTag

\* One element of a sequence replaced.
LEMMA ReplacedInSeq ==
    ASSUME NEW S, NEW s \in Seq(S), NEW c \in DOMAIN s, NEW e \in S
    PROVE  /\ [s EXCEPT ![c] = e] \in Seq(S)
           /\ Len([s EXCEPT ![c] = e]) = Len(s)
           /\ DOMAIN [s EXCEPT ![c] = e] = DOMAIN s
           /\ [s EXCEPT ![c] = e][c] = e
           /\ \A d \in DOMAIN s : d # c => [s EXCEPT ![c] = e][d] = s[d]
<1>1. c \in 1 .. Len(s)
  BY LenProperties
<1> QED BY <1>1, ExceptSeq

-----------------------------------------------------------------------------
\* A context of an exec changed to k, which keeps its stream and has not read more
\* of it than there is.
LEMMA ContextsKept ==
    ASSUME TypeOK, NEW c \in DOMAIN contexts, NEW k \in Contexts,
           k.stream = contexts[c].stream, k.base <= Len(k.stream), prog' = prog,
           contexts' = [contexts EXCEPT ![c] = k]
    PROVE  /\ contexts' \in Seq(Contexts')
           /\ DOMAIN contexts' = DOMAIN contexts
           /\ contexts'[c] = k
           /\ \A d \in DOMAIN contexts' : contexts'[d].base <= Len(contexts'[d].stream)
<1>1. contexts \in Seq(Contexts) /\ Contexts' = Contexts
  BY DEF TypeOK, Contexts, Threads
<1>2. /\ contexts' \in Seq(Contexts) /\ DOMAIN contexts' = DOMAIN contexts
      /\ contexts'[c] = k
      /\ \A d \in DOMAIN contexts : d # c => contexts'[d] = contexts[d]
  <2> HIDE DEF Contexts
  <2> QED BY <1>1, ReplacedInSeq
<1>3. \A d \in DOMAIN contexts : contexts[d].base <= Len(contexts[d].stream)
  BY DEF TypeOK
<1> QED BY <1>1, <1>2, <1>3

\* What the running call works on.
LEMMA ThisType ==
    ASSUME TypeOK, at # "idle"
    PROVE  /\ self \in DOMAIN contexts /\ This \in Contexts
           /\ This.stream \in Streams /\ This.base \in Nat /\ This.tag \in Int
           /\ Len(This.stream) \in Nat
           /\ This.base + size <= Len(This.stream)
<1>1. self \in DOMAIN contexts /\ contexts \in Seq(Contexts)
  BY DEF TypeOK
<1>2. This \in Contexts
  BY <1>1, ElementOfSeq, LenProperties DEF This
<1>3. This.stream \in Streams /\ This.base \in Nat /\ This.tag \in Int
  BY <1>2 DEF Contexts
<1>4. Len(This.stream) \in Nat
  BY <1>3, ConstantsAssumption, LenProperties
<1> QED BY <1>1, <1>2, <1>3, <1>4 DEF TypeOK

\* The tag of the running context changes and nothing else of the contexts.
LEMMA SetTagType ==
    ASSUME TypeOK, at # "idle", NEW n \in Int, SetTag(n), prog' = prog,
           UNCHANGED <<self, size>>
    PROVE  /\ contexts' \in Seq(Contexts')
           /\ DOMAIN contexts' = DOMAIN contexts
           /\ \A d \in DOMAIN contexts' : contexts'[d].base <= Len(contexts'[d].stream)
           /\ This'.base + size' <= Len(This'.stream)
<1> DEFINE k == [This EXCEPT !.tag = n]
<1>1. self \in DOMAIN contexts /\ This \in Contexts /\ This.base + size <= Len(This.stream)
  BY ThisType
<1>2. k \in Contexts /\ k.stream = This.stream /\ k.base = This.base
  BY <1>1 DEF Contexts
<1>3. contexts' = [contexts EXCEPT ![self] = k]
  BY DEF SetTag, This
<1>4. This.base <= Len(This.stream)
  BY <1>1 DEF TypeOK, This
<1> HIDE DEF k
<1>5. /\ contexts' \in Seq(Contexts') /\ DOMAIN contexts' = DOMAIN contexts
      /\ contexts'[self] = k
      /\ \A d \in DOMAIN contexts' : contexts'[d].base <= Len(contexts'[d].stream)
  BY <1>1, <1>2, <1>3, <1>4, ContextsKept DEF This
<1> QED BY <1>1, <1>2, <1>5 DEF This

\* The thread the switch is at, and the instruction it waits at.
LEMMA CurrentType ==
    ASSUME TypeOK, NEW ops, Waiting(ops)
    PROVE  /\ at = "threads" /\ i \in 1 .. Len(clist)
           /\ clist[i].pc \in Live(prog)
           /\ Ins(clist[i].pc).op \in ops
           /\ "match" \notin ops /\ "jmp" \notin ops /\ "split" \notin ops
                => <<clist[i].pc + 1>> \in Seq(Live(prog))
<1>1. at = "threads" /\ i \in 1 .. Len(clist) /\ Ins(clist[i].pc).op \in ops
  BY LenProperties DEF Waiting, TypeOK
<1>2. clist[i] \in Threads
  BY <1>1, ElementOfSeq DEF TypeOK
<1>3. clist[i].pc \in Live(prog)
  BY <1>2 DEF Threads
<1>4. prog \in Programs
  BY DEF TypeOK
<1>5. ASSUME "match" \notin ops, "jmp" \notin ops, "split" \notin ops
      PROVE  <<clist[i].pc + 1>> \in Seq(Live(prog))
  <2>1. clist[i].pc + 1 \in Live(prog)
    BY <1>1, <1>3, <1>4, <1>5, InstructionParts DEF Ins
  <2> QED BY <2>1
<1> QED BY <1>1, <1>3, <1>5

-----------------------------------------------------------------------------
\* The initial states.
LEMMA InitType == Init => TypeOK
<1> SUFFICES ASSUME Init PROVE TypeOK
  OBVIOUS
<1>1. contexts \in Seq(Contexts) /\ DOMAIN contexts = {}
  BY EmptySeq DEF Init
<1>2. clist \in Seq(Threads) /\ nlist \in Seq(Threads) /\ todo \in Seq(Live(prog))
  BY EmptySeq DEF Init
<1>3. marks \in [Pcs(prog) -> Int]
  BY DEF Init
<1>4. \A c \in DOMAIN contexts : contexts[c].base <= Len(contexts[c].stream)
  BY <1>1
<1>5. /\ prog \in Programs /\ progTag \in Int /\ at = "idle"
      /\ sp \in Nat /\ size \in Nat /\ i \in Nat \ {0}
  BY DEF Init
<1>6. eof \in BOOLEAN
  BY Zenon DEF Init
<1> QED BY <1>1, <1>2, <1>3, <1>4, <1>5, <1>6 DEF TypeOK

\* A new context begins at the beginning of its stream.
LEMMA CreateType ==
    ASSUME TypeOK, Create
    PROVE  TypeOK'
<1> USE DEF program, exec, lists
<1>1. PICK s \in Streams :
        contexts' = Append(contexts, [stream |-> s, base |-> 0, out |-> "none",
                                      tag |-> NextTag(progTag), firstBuf |-> TRUE,
                                      threads |-> <<>>])
  BY DEF Create
<1> DEFINE k == [stream |-> s, base |-> 0, out |-> "none", tag |-> NextTag(progTag),
                 firstBuf |-> TRUE, threads |-> <<>>]
<1>2. k \in Contexts
  <2>1. NextTag(progTag) \in Int
    BY TagType DEF TypeOK
  <2>2. <<>> \in Seq(Threads)
    BY EmptySeq
  <2> QED BY <2>1, <2>2 DEF Contexts
<1>3. k.base = 0 /\ k.stream = s /\ Len(s) \in Nat
  BY ConstantsAssumption, LenProperties
<1> HIDE DEF k
<1>4. contexts' = Append(contexts, k)
  BY <1>1 DEF k
<1>5. at = "idle" /\ UNCHANGED <<program, at, exec, lists, todo>>
  BY DEF Create
<1>6. contexts \in Seq(Contexts) /\ Threads' = Threads /\ Contexts' = Contexts
  BY <1>5 DEF TypeOK, Threads, Contexts
<1>7. /\ contexts' \in Seq(Contexts)
      /\ Len(contexts') = Len(contexts) + 1
      /\ \A d \in 1 .. Len(contexts) : contexts'[d] = contexts[d]
      /\ contexts'[Len(contexts) + 1] = k
  <2> HIDE DEF Contexts
  <2> QED BY <1>2, <1>4, <1>6, AppendProperties
<1>8. \A d \in DOMAIN contexts' : contexts'[d].base <= Len(contexts'[d].stream)
  <2>1. DOMAIN contexts' = 1 .. Len(contexts) + 1 /\ DOMAIN contexts = 1 .. Len(contexts)
        /\ Len(contexts) \in Nat
    BY <1>6, <1>7, LenProperties
  <2>2. \A d \in 1 .. Len(contexts) : contexts[d].base <= Len(contexts[d].stream)
    BY <2>1 DEF TypeOK
  <2> QED BY <1>3, <1>7, <2>1, <2>2
<1> QED BY <1>5, <1>6, <1>7, <1>8 DEF TypeOK

\* A call begins: a chunk of the stream's rest, and the threads of the context.
LEMMA ExecType ==
    ASSUME TypeOK, Exec
    PROVE  TypeOK'
<1> USE DEF program, exec, lists
<1>1. PICK c \in DOMAIN contexts :
        /\ \E k \in Chunks(c) : size' = k.size /\ eof' = k.eof
        /\ self' = c
        /\ clist' = contexts[c].threads
        /\ at' = IF contexts[c].firstBuf THEN "seed" ELSE "loop"
        /\ todo' = IF contexts[c].firstBuf THEN <<0>> ELSE <<>>
        /\ contexts' = [contexts EXCEPT ![c].firstBuf = FALSE]
  BY DEF Exec
<1>2. sp' = 0 /\ nlist' = <<>> /\ i' = 1 /\ UNCHANGED program
  BY DEF Exec
<1>3. contexts[c] \in Contexts
  BY ElementOfSeq, LenProperties DEF TypeOK
<1>4. /\ contexts[c].base \in Nat /\ Len(contexts[c].stream) \in Nat
      /\ contexts[c].threads \in Seq(Threads)
      /\ contexts[c].base <= Len(contexts[c].stream)
  BY <1>3, ConstantsAssumption, LenProperties DEF Contexts, TypeOK
<1> DEFINE k == [contexts[c] EXCEPT !.firstBuf = FALSE]
<1>5. k \in Contexts /\ k.stream = contexts[c].stream /\ k.base = contexts[c].base
  BY <1>3 DEF Contexts
<1> HIDE DEF k
<1>6. contexts' = [contexts EXCEPT ![c] = k]
  BY <1>1 DEF k
<1>7. /\ contexts' \in Seq(Contexts') /\ DOMAIN contexts' = DOMAIN contexts
      /\ contexts'[c] = k
      /\ \A d \in DOMAIN contexts' : contexts'[d].base <= Len(contexts'[d].stream)
  BY <1>2, <1>4, <1>5, <1>6, ContextsKept
<1>8. /\ size' \in 0 .. Len(contexts[c].stream) - contexts[c].base
      /\ eof' \in BOOLEAN
  BY <1>1 DEF Chunks
<1>9. self' \in DOMAIN contexts' /\ This'.base + size' <= Len(This'.stream) /\ 0 <= size'
  <2>1. self' \in DOMAIN contexts' /\ This' = k
    BY <1>1, <1>7 DEF This
  <2> QED BY <1>4, <1>5, <1>8, <2>1
<1>10. todo' \in Seq(Live(prog)) /\ clist' \in Seq(Threads) /\ nlist' \in Seq(Threads)
  <2>1. 0 \in Live(prog)
    BY ConstantsAssumption DEF TypeOK, WellFormed, WellFormedCode
  <2> QED BY <1>1, <1>2, <1>4, <2>1, EmptySeq
<1>11. Threads' = Threads /\ at' \in {"seed", "loop"}
  BY <1>1, <1>2 DEF Threads
<1> QED BY <1>2, <1>7, <1>8, <1>9, <1>10, <1>11 DEF TypeOK

-----------------------------------------------------------------------------
\* The loop over the bytes.
LEMMA LoopType ==
    ASSUME TypeOK, Loop
    PROVE  TypeOK'
<1> USE DEF program, exec, lists
<1>1. CASE LoopEnd
  BY <1>1 DEF LoopEnd, TypeOK, Threads, Contexts, This
<1>2. CASE LoopStep
  <2>1. /\ at = "loop" /\ at' = "threads" /\ i' = 1
        /\ SetTag(NextTag(This.tag))
        /\ UNCHANGED <<program, exec, clist, nlist, todo>>
    BY <1>2 DEF LoopStep
  <2>2. NextTag(This.tag) \in Int
    BY <2>1, ThisType, TagType
  <2>3. /\ contexts' \in Seq(Contexts')
        /\ DOMAIN contexts' = DOMAIN contexts
        /\ \A d \in DOMAIN contexts' : contexts'[d].base <= Len(contexts'[d].stream)
        /\ This'.base + size' <= Len(This'.stream)
    BY <2>1, <2>2, SetTagType
  <2> QED BY <2>1, <2>3 DEF TypeOK, Threads
<1>3. CASE StepDone
  <2>1. /\ at = "threads" /\ clist' = nlist /\ nlist' = <<>>
        /\ at' \in {"finish", "loop"}
        /\ sp' = sp \/ (sp # size /\ sp' = sp + 1)
        /\ UNCHANGED <<program, contexts, self, size, eof, i, todo>>
    BY <1>3 DEF StepDone, AtLast
  <2>2. sp' \in Nat /\ sp' <= size
    BY <2>1 DEF TypeOK
  <2>3. This' = This /\ Threads' = Threads /\ Contexts' = Contexts
    BY <2>1 DEF This, Threads, Contexts
  <2>4. nlist' \in Seq(Threads)
    BY <2>1, EmptySeq
  <2> QED BY <2>1, <2>2, <2>3, <2>4 DEF TypeOK
<1> QED BY <1>1, <1>2, <1>3 DEF Loop

\* A call returns: the context is past the chunk.
LEMMA ReturnType ==
    ASSUME TypeOK, at # "idle", progTag' \in Int, NEW code \in {"OK", "AGAIN", "DECLINED"},
           NEW threads \in Seq(Threads), Return(code, threads)
    PROVE  TypeOK'
<1>1. /\ self \in DOMAIN contexts /\ This \in Contexts
      /\ This.base \in Nat /\ This.base + size <= Len(This.stream)
      /\ size \in Nat
  BY ThisType DEF TypeOK
<1> DEFINE base == This.base + size
           k == [This EXCEPT !.out = code, !.threads = threads, !.base = base]
<1>2. base \in Nat /\ base <= Len(This.stream)
  BY <1>1
<1>3. k \in Contexts /\ k.stream = This.stream /\ k.base = base
  <2> HIDE DEF base
  <2> QED BY <1>1, <1>2 DEF Contexts
<1>4. contexts' = [contexts EXCEPT ![self] = k] /\ UNCHANGED <<prog, marks, todo>>
  BY DEF Return, This
<1> HIDE DEF k, base
<1>5. /\ contexts' \in Seq(Contexts')
      /\ \A d \in DOMAIN contexts' : contexts'[d].base <= Len(contexts'[d].stream)
  BY <1>1, <1>2, <1>3, <1>4, ContextsKept DEF This
<1>6. /\ at' = "idle" /\ sp' \in Nat /\ size' \in Nat /\ i' \in Nat \ {0}
      /\ clist' = <<>> /\ nlist' = <<>>
  BY DEF Return
<1>7. clist' \in Seq(Threads') /\ nlist' \in Seq(Threads')
  BY <1>6, EmptySeq
<1>8. prog' \in Programs /\ marks' \in [Pcs(prog') -> Int] /\ todo' \in Seq(Live(prog'))
  BY <1>4 DEF TypeOK
<1>9. eof' \in BOOLEAN
  BY Zenon DEF Return
<1> QED BY <1>5, <1>6, <1>7, <1>8, <1>9 DEF TypeOK

\* The steps of the switch.
LEMMA RunType ==
    ASSUME TypeOK, Run
    PROVE  TypeOK'
<1> USE DEF program, exec, lists
<1>1. CASE ThreadConsumes
  <2>1. /\ Waiting({"char", "in", "notin", "any"}) /\ sp < size
        /\ at' = "byte" /\ todo' = <<clist[i].pc + 1>>
        /\ UNCHANGED <<program, contexts, exec, lists>>
    BY <1>1 DEF ThreadConsumes, CanConsume, AddFrom
  <2>2. at = "threads" /\ i \in 1 .. Len(clist) /\ todo' \in Seq(Live(prog))
    BY <2>1, CurrentType
  <2>3. This' = This /\ Threads' = Threads /\ Contexts' = Contexts
    BY <2>1 DEF This, Threads, Contexts
  <2> QED BY <2>1, <2>2, <2>3 DEF TypeOK
<1>2. CASE ThreadDies
  <2>1. at = "threads"
    BY <1>2 DEF ThreadDies, Waiting
  <2>2. i' \in Nat \ {0} /\ UNCHANGED <<program, contexts, at, exec, clist, nlist, todo>>
    BY <1>2 DEF ThreadDies, NextThread, TypeOK
  <2>3. This' = This /\ Threads' = Threads /\ Contexts' = Contexts
    BY <2>2 DEF This, Threads, Contexts
  <2> QED BY <2>1, <2>2, <2>3 DEF TypeOK
<1>3. CASE AssertionHold
  <2>1. /\ Waiting({"assert"})
        /\ SetTag(PrevTag(This.tag))
        /\ at' = "assert" /\ todo' = <<clist[i].pc + 1>>
        /\ UNCHANGED <<program, exec, lists>>
    BY <1>3 DEF AssertionHold, AddFrom
  <2>2. at = "threads" /\ i \in 1 .. Len(clist) /\ todo' \in Seq(Live(prog))
    BY <2>1, CurrentType
  <2>3. PrevTag(This.tag) \in Int
    BY <2>2, ThisType, TagType
  <2>4. /\ contexts' \in Seq(Contexts')
        /\ DOMAIN contexts' = DOMAIN contexts
        /\ \A d \in DOMAIN contexts' : contexts'[d].base <= Len(contexts'[d].stream)
        /\ This'.base + size' <= Len(This'.stream)
    BY <2>1, <2>2, <2>3, SetTagType
  <2> QED BY <2>1, <2>2, <2>4 DEF TypeOK, Threads
<1>4. CASE ThreadMatches
  <2>1. at = "threads" /\ progTag' = This.tag /\ Return("OK", This.threads)
    BY <1>4 DEF ThreadMatches, Waiting
  <2>2. progTag' \in Int /\ This.threads \in Seq(Threads)
    BY <2>1, ThisType DEF Contexts
  <2> QED BY <2>1, <2>2, ReturnType
<1> QED BY <1>1, <1>2, <1>3, <1>4 DEF Run

-----------------------------------------------------------------------------
\* The walk goes on from a live instruction to live ones.
LEMMA FollowType ==
    ASSUME TypeOK, NEW pc \in Live(prog), Passes(Ins(pc))
    PROVE  Follow(Ins(pc), pc) \in Seq(Live(prog))
<1>1. /\ Ins(pc).op = "jmp" => Ins(pc).x \in Live(prog)
      /\ Ins(pc).op = "split" => Ins(pc).x \in Live(prog) /\ Ins(pc).y \in Live(prog)
      /\ Ins(pc).op \notin {"jmp", "split", "match"} => pc + 1 \in Live(prog)
  BY InstructionParts DEF TypeOK, Ins
<1>2. CASE Ins(pc).op = "jmp"
  BY <1>1, <1>2 DEF Follow
<1>3. CASE Ins(pc).op = "split"
  BY <1>1, <1>3 DEF Follow
<1>4. CASE Ins(pc).op \in {"save", "assert"}
  <2>1. pc + 1 \in Live(prog)
    BY <1>1, <1>4
  <2>2. <<pc + 1>> \in Seq(Live(prog)) /\ <<>> \in Seq(Live(prog))
    BY <2>1
  <2> QED BY <1>4, <2>2 DEF Follow
<1> QED BY <1>2, <1>3, <1>4 DEF Passes

\* The next call of add_thread: at a live instruction, with the rest still to do.
LEMMA TodoType ==
    ASSUME TypeOK, Adding
    PROVE  /\ at \in {"seed", "byte", "assert"}
           /\ Head(todo) \in Live(prog) /\ Tail(todo) \in Seq(Live(prog))
           /\ Head(todo) \in Pcs(prog)
<1>1. Head(todo) \in Live(prog) /\ Tail(todo) \in Seq(Live(prog))
  BY HeadTailProperties DEF TypeOK, Adding
<1> QED BY <1>1 DEF Adding, Live

\* A step of add_thread that marks an instruction and changes nothing but the
\* lists and what is to do.
LEMMA WalkType ==
    ASSUME TypeOK, at \in {"seed", "byte", "assert"},
           marks' \in [Pcs(prog) -> Int], UNCHANGED <<prog, progTag, contexts, at, exec, i>>,
           clist' \in Seq(Threads), nlist' \in Seq(Threads), Len(clist) <= Len(clist'),
           todo' \in Seq(Live(prog))
    PROVE  TypeOK'
<1>1. This' = This /\ Threads' = Threads /\ Contexts' = Contexts
  BY DEF This, Threads, Contexts, exec
<1>2. Len(clist) \in Nat /\ Len(clist') \in Nat
  BY LenProperties DEF TypeOK
<1>3. at \in {"byte", "assert"} => i <= Len(clist')
  BY <1>2 DEF TypeOK
<1> QED BY <1>1, <1>3 DEF TypeOK, exec

\* The steps of add_thread, and the returns to its call sites.
LEMMA AddThreadType ==
    ASSUME TypeOK, AddThread
    PROVE  TypeOK'
<1> USE DEF program, exec, lists
<1>1. CASE AddVisited
  <2>1. Adding /\ todo' = Tail(todo) /\ UNCHANGED <<program, contexts, at, exec, lists>>
    BY <1>1 DEF AddVisited
  <2>2. at \in {"seed", "byte", "assert"} /\ todo' \in Seq(Live(prog))
    BY <2>1, TodoType
  <2>3. /\ marks' \in [Pcs(prog) -> Int] /\ clist' \in Seq(Threads)
        /\ nlist' \in Seq(Threads) /\ Len(clist) <= Len(clist')
    BY <2>1, LenProperties DEF TypeOK
  <2> QED BY <2>1, <2>2, <2>3, WalkType
<1>2. CASE AddPasses
  <2> DEFINE pc == Head(todo)
  <2>1. /\ Adding /\ Passes(Ins(pc)) /\ Mark(pc)
        /\ todo' = Follow(Ins(pc), pc) \o Tail(todo)
        /\ UNCHANGED <<prog, progTag, contexts, at, exec, lists>>
    BY <1>2 DEF AddPasses
  <2>2. at \in {"seed", "byte", "assert"} /\ pc \in Live(prog) /\ pc \in Pcs(prog)
        /\ Tail(todo) \in Seq(Live(prog))
    BY <2>1, TodoType
  <2> HIDE DEF pc
  <2>3. marks' \in [Pcs(prog) -> Int]
    <3>1. This.tag \in Int
      BY <2>2, ThisType
    <3> QED BY <2>1, <2>2, <3>1 DEF Mark, TypeOK
  <2>4. todo' \in Seq(Live(prog))
    BY <2>1, <2>2, FollowType, ConcatProperties
  <2>5. clist' \in Seq(Threads) /\ nlist' \in Seq(Threads) /\ Len(clist) <= Len(clist')
    BY <2>1, LenProperties DEF TypeOK
  <2> QED BY <2>1, <2>2, <2>3, <2>4, <2>5, WalkType
<1>3. CASE AddWaits
  <2> DEFINE pc == Head(todo)
             thread == [pc |-> pc, seenWord |-> SeenWord(Ins(pc))]
  <2>1. /\ Adding /\ Mark(pc)
        /\ \/ nlist' = Append(nlist, thread) /\ UNCHANGED clist
           \/ clist' = Append(clist, thread) /\ UNCHANGED nlist
        /\ todo' = Tail(todo)
        /\ UNCHANGED <<prog, progTag, contexts, at, exec, i>>
    BY <1>3 DEF AddWaits
  <2>2. at \in {"seed", "byte", "assert"} /\ pc \in Live(prog) /\ pc \in Pcs(prog)
        /\ todo' \in Seq(Live(prog))
    BY <2>1, TodoType
  <2>3. thread \in Threads
    <3>1. SeenWord(Ins(pc)) \in BOOLEAN
      BY DEF SeenWord
    <3> QED BY <2>2, <3>1 DEF Threads
  <2> HIDE DEF pc, thread
  <2>4. marks' \in [Pcs(prog) -> Int]
    <3>1. This.tag \in Int
      BY <2>2, ThisType
    <3> QED BY <2>1, <2>2, <3>1 DEF Mark, TypeOK
  <2>5. clist' \in Seq(Threads) /\ nlist' \in Seq(Threads) /\ Len(clist) <= Len(clist')
    <3>1. clist \in Seq(Threads) /\ nlist \in Seq(Threads) /\ Len(clist) \in Nat
      BY LenProperties DEF TypeOK
    <3> HIDE DEF Threads
    <3>2. CASE nlist' = Append(nlist, thread) /\ UNCHANGED clist
      BY <2>3, <3>1, <3>2, AppendProperties
    <3>3. CASE clist' = Append(clist, thread) /\ UNCHANGED nlist
      <4>1. clist' \in Seq(Threads) /\ Len(clist') = Len(clist) + 1
        BY <2>3, <3>1, <3>3, AppendProperties
      <4> QED BY <3>1, <3>3, <4>1
    <3> QED BY <2>1, <3>2, <3>3
  <2> QED BY <2>1, <2>2, <2>4, <2>5, WalkType
<1>4. CASE Seeded
  BY <1>4 DEF Seeded, TypeOK, Threads, Contexts, This
<1>5. CASE Consumed
  <2>1. /\ at = "byte" /\ at' = "threads" /\ i' \in Nat \ {0}
        /\ UNCHANGED <<program, contexts, exec, clist, nlist, todo>>
    BY <1>5 DEF Consumed, NextThread, TypeOK
  <2>2. This' = This /\ Threads' = Threads /\ Contexts' = Contexts
    BY <2>1 DEF This, Threads, Contexts
  <2> QED BY <2>1, <2>2 DEF TypeOK
<1>6. CASE Asserted
  <2>1. /\ at = "assert" /\ at' = "threads" /\ i' \in Nat \ {0}
        /\ SetTag(NextTag(This.tag))
        /\ UNCHANGED <<program, exec, clist, nlist, todo>>
    BY <1>6 DEF Asserted, NextThread, TypeOK
  <2>2. NextTag(This.tag) \in Int
    BY <2>1, ThisType, TagType
  <2>3. /\ contexts' \in Seq(Contexts')
        /\ DOMAIN contexts' = DOMAIN contexts
        /\ \A d \in DOMAIN contexts' : contexts'[d].base <= Len(contexts'[d].stream)
        /\ This'.base + size' <= Len(This'.stream)
    BY <2>1, <2>2, SetTagType
  <2> QED BY <2>1, <2>3 DEF TypeOK, Threads
<1> QED BY <1>1, <1>2, <1>3, <1>4, <1>5, <1>6 DEF AddThread

\* The end of a call.
LEMMA FinishType ==
    ASSUME TypeOK, Finish
    PROVE  TypeOK'
<1>1. /\ at = "finish" /\ progTag' = This.tag
      /\ \E code \in {"OK", "AGAIN", "DECLINED"} : Return(code, clist)
  BY DEF Finish, SaveTag
<1>2. progTag' \in Int
  BY <1>1, ThisType
<1>3. clist \in Seq(Threads)
  BY DEF TypeOK
<1> QED BY <1>1, <1>2, <1>3, ReturnType

\* Every step.
LEMMA TypeStep == TypeOK /\ [Next]_vars => TypeOK'
<1> SUFFICES ASSUME TypeOK, [Next]_vars PROVE TypeOK'
  OBVIOUS
<1>1. CASE Create
  BY <1>1, CreateType
<1>2. CASE Exec
  BY <1>2, ExecType
<1>3. CASE Machine
  BY <1>3, LoopType, RunType, AddThreadType, FinishType DEF Machine
<1>4. CASE UNCHANGED vars
  BY <1>4 DEF vars, program, exec, lists, TypeOK, Threads, Contexts, This
<1> QED BY <1>1, <1>2, <1>3, <1>4 DEF Next

\* Whatever the programs, the streams, their chunks and the contexts over one
\* program, sre_vm_thompson_exec and sre_vm_thompson_add_thread go only to
\* instructions of the program that are executed, and no context reads past
\* the chunk it was given: the byte a thread consumes is before its end, and so is
\* the one a look-ahead reads.
THEOREM TypeCorrect == Spec => []TypeOK
BY InitType, TypeStep, PTL DEF Spec

(***************************************************************************)
(* The tags.  No instruction carries a later tag than the last walk gave,  *)
(* as long as the tags do not wrap and only the newest context is fed: an  *)
(* older one would go on from a tag that others have overtaken.  While the *)
(* threads behind an assertion are added, in the walk before, the last     *)
(* tag is the one after the context's.                                     *)
(***************************************************************************)
TagsDoNotWrap ==
    /\ progTag + 1 < TagModulus
    /\ \A c \in DOMAIN contexts : contexts[c].tag + 1 < TagModulus

Latest == contexts[Len(contexts)]

LastTag ==
    IF at = "idle" THEN progTag ELSE IF at = "assert" THEN This.tag + 1 ELSE This.tag

FreshTags ==
    /\ LastTag \in Nat \ {0}
    /\ \A pc \in Pcs(prog) : marks[pc] <= LastTag
    /\ at # "idle" => self = Len(contexts) /\ ~This.firstBuf
    /\ at = "idle" /\ contexts # <<>> =>
          Latest.tag = IF Latest.firstBuf THEN progTag + 1 ELSE progTag

\* Without a wrap the tags count up, and down.
LEMMA TagSteps ==
    ASSUME NEW n \in Nat, n + 1 < TagModulus
    PROVE  NextTag(n) = n + 1 /\ (n >= 1 => PrevTag(n) = n - 1)
<1>1. TagModulus \in Nat
  BY ConstantsAssumption
<1>2. (n + 1) % TagModulus = n + 1
  BY <1>1
<1>3. n >= 1 => (n - 1) % TagModulus = n - 1
  BY <1>1
<1> QED BY <1>2, <1>3 DEF NextTag, PrevTag

\* What the parts of FreshTags come to after a step.
LEMMA FreshNext ==
    ASSUME TypeOK, FreshTags, prog' = prog, marks' = marks,
           LastTag' = LastTag \/ LastTag' = LastTag + 1,
           at' # "idle" => self' = Len(contexts') /\ ~This'.firstBuf,
           at' = "idle" /\ contexts' # <<>> =>
               Latest'.tag = IF Latest'.firstBuf THEN progTag' + 1 ELSE progTag'
    PROVE  FreshTags'
<1>1. LastTag \in Nat \ {0} /\ \A pc \in Pcs(prog) : marks[pc] \in Int /\ marks[pc] <= LastTag
  BY DEF FreshTags, TypeOK
<1>2. LastTag' \in Nat \ {0} /\ LastTag <= LastTag'
  BY <1>1
<1>3. ASSUME NEW pc \in Pcs(prog) PROVE marks[pc] <= LastTag'
  BY <1>1, <1>2
<1> QED BY <1>2, <1>3 DEF FreshTags

\* What changing the tag of the running context changes.
LEMMA SetTagEffect ==
    ASSUME TypeOK, at # "idle", NEW n \in Int, SetTag(n), self' = self
    PROVE  /\ This' = [This EXCEPT !.tag = n] /\ This'.tag = n
           /\ This'.firstBuf = This.firstBuf /\ This'.threads = This.threads
           /\ Len(contexts') = Len(contexts) /\ DOMAIN contexts' = DOMAIN contexts
           /\ \A c \in DOMAIN contexts : c # self => contexts'[c] = contexts[c]
<1> DEFINE k == [This EXCEPT !.tag = n]
<1>1. self \in DOMAIN contexts /\ This \in Contexts /\ contexts \in Seq(Contexts)
  BY ThisType DEF TypeOK
<1>2. /\ k \in Contexts /\ k.tag = n /\ k.firstBuf = This.firstBuf
      /\ k.threads = This.threads
  BY <1>1 DEF Contexts
<1>3. contexts' = [contexts EXCEPT ![self] = k]
  BY DEF SetTag, This
<1> HIDE DEF k
<1>4. /\ Len(contexts') = Len(contexts) /\ DOMAIN contexts' = DOMAIN contexts
      /\ contexts'[self] = k
      /\ \A c \in DOMAIN contexts : c # self => contexts'[c] = contexts[c]
  <2> HIDE DEF Contexts
  <2> QED BY <1>1, <1>2, <1>3, ReplacedInSeq
<1>5. This' = k
  BY <1>4 DEF This
<1> QED BY <1>2, <1>4, <1>5 DEF k

\* A new context gets a tag of its own, and a call begins with it or goes on.
LEMMA EnterFresh ==
    ASSUME TypeOK, FreshTags, TagsDoNotWrap, ~Together, Create \/ Exec
    PROVE  FreshTags'
<1>1. /\ at = "idle" /\ LastTag = progTag /\ progTag \in Nat \ {0}
      /\ UNCHANGED <<prog, marks, progTag>>
  BY DEF Create, Exec, program, FreshTags, LastTag
<1>2. CASE Create
  <2>1. PICK s \in Streams :
          contexts' = Append(contexts, [stream |-> s, base |-> 0, out |-> "none",
                                        tag |-> NextTag(progTag), firstBuf |-> TRUE,
                                        threads |-> <<>>])
    BY <1>2 DEF Create
  <2>2. NextTag(progTag) = progTag + 1
    BY <1>1, TagSteps DEF TagsDoNotWrap
  <2>3. contexts \in Seq(Contexts)
    BY DEF TypeOK
  <2> DEFINE k == [stream |-> s, base |-> 0, out |-> "none", tag |-> NextTag(progTag),
                   firstBuf |-> TRUE, threads |-> <<>>]
  <2>4. k.tag = progTag + 1 /\ k.firstBuf = TRUE
    BY <2>2
  <2> HIDE DEF k
  <2>5. contexts' = Append(contexts, k)
    BY <2>1 DEF k
  <2>6. contexts'[Len(contexts')] = k
    <3>1. /\ Len(Append(contexts, k)) = Len(contexts) + 1
          /\ Append(contexts, k)[Len(contexts) + 1] = k
      BY <2>3
    <3> QED BY <2>5, <3>1
  <2>7. Latest' = k
    BY <2>6 DEF Latest
  <2>8. at' = "idle" /\ LastTag' = LastTag
    BY <1>1, <1>2 DEF Create, LastTag
  <2> QED BY <1>1, <2>4, <2>7, <2>8, FreshNext
<1>3. CASE Exec
  <2>1. PICK c \in DOMAIN contexts :
          /\ InUse(c) /\ self' = c
          /\ at' = IF contexts[c].firstBuf THEN "seed" ELSE "loop"
          /\ contexts' = [contexts EXCEPT ![c].firstBuf = FALSE]
    BY <1>3 DEF Exec
  <2>2. c = Len(contexts) /\ contexts[c] = Latest /\ contexts \in Seq(Contexts)
        /\ contexts[c] \in Contexts /\ contexts # <<>>
    BY <2>1, ElementOfSeq, LenProperties, EmptySeq DEF InUse, Latest, TypeOK
  <2> DEFINE k == [contexts[c] EXCEPT !.firstBuf = FALSE]
  <2>3. k \in Contexts /\ k.tag = Latest.tag /\ k.firstBuf = FALSE
    BY <2>2 DEF Contexts
  <2>4. contexts' = [contexts EXCEPT ![c] = k]
    BY <2>1
  <2> HIDE DEF k
  <2>5. contexts'[c] = k /\ Len(contexts') = Len(contexts)
    <3> HIDE DEF Contexts
    <3> QED BY <2>2, <2>3, <2>4, ReplacedInSeq
  <2>6. This' = k /\ self' = Len(contexts')
    BY <2>1, <2>2, <2>5 DEF This
  <2>7. at' \in {"seed", "loop"}
    BY <2>1
  <2>8. Latest.tag = progTag \/ Latest.tag = progTag + 1
    BY <1>1, <2>2 DEF FreshTags
  <2>9. LastTag' = Latest.tag
    BY <2>3, <2>6, <2>7 DEF LastTag
  <2> QED BY <1>1, <2>3, <2>6, <2>7, <2>8, <2>9, FreshNext
<1> QED BY <1>2, <1>3

\* The end of a call: the program learns the tag of the newest context.
LEMMA ReturnFresh ==
    ASSUME TypeOK, FreshTags, at \notin {"idle", "assert"}, progTag' = This.tag,
           NEW code \in {"OK", "AGAIN", "DECLINED"}, NEW threads \in Seq(Threads),
           Return(code, threads)
    PROVE  FreshTags'
<1> DEFINE base == This.base + size
           k == [This EXCEPT !.out = code, !.threads = threads, !.base = base]
<1>1. /\ self \in DOMAIN contexts /\ This \in Contexts /\ contexts \in Seq(Contexts)
      /\ This.base \in Nat /\ size \in Nat
  BY ThisType DEF TypeOK
<1>2. base \in Nat
  BY <1>1
<1>3. k \in Contexts /\ k.tag = This.tag /\ k.firstBuf = This.firstBuf
  <2> HIDE DEF base
  <2> QED BY <1>1, <1>2 DEF Contexts
<1>4. contexts' = [contexts EXCEPT ![self] = k] /\ UNCHANGED <<prog, marks>> /\ at' = "idle"
  BY DEF Return, This
<1> HIDE DEF k, base
<1>5. contexts'[self] = k /\ Len(contexts') = Len(contexts)
  <2> HIDE DEF Contexts
  <2> QED BY <1>1, <1>3, <1>4, ReplacedInSeq
<1>6. self = Len(contexts) /\ ~This.firstBuf
  BY DEF FreshTags
<1>7. Latest'.tag = This.tag /\ ~Latest'.firstBuf
  BY <1>3, <1>5, <1>6 DEF Latest
<1>8. LastTag' = LastTag
  BY <1>4 DEF LastTag
<1> QED BY <1>4, <1>7, <1>8, FreshNext

\* A step of the loop counts up the tag of the context, an assertion goes back and forth.
LEMMA CallTag ==
    ASSUME TypeOK, FreshTags, TagsDoNotWrap, LoopStep \/ AssertionHold \/ Asserted
    PROVE  /\ LoopStep => LastTag' = LastTag + 1
           /\ AssertionHold \/ Asserted => LastTag' = LastTag
           /\ This'.firstBuf = This.firstBuf /\ Len(contexts') = Len(contexts)
<1>1. at \in {"loop", "threads", "assert"} /\ self' = self
  BY DEF LoopStep, AssertionHold, Asserted, Waiting, exec
<1>2. /\ This.tag \in Int /\ self \in DOMAIN contexts /\ LastTag \in Nat \ {0}
      /\ This.tag + 1 < TagModulus
  BY <1>1, ThisType DEF FreshTags, TagsDoNotWrap, This
<1>3. CASE LoopStep
  <2>1. at = "loop" /\ at' = "threads" /\ SetTag(NextTag(This.tag))
    BY <1>3 DEF LoopStep
  <2>2. LastTag = This.tag
    BY <2>1 DEF LastTag
  <2>3. NextTag(This.tag) = This.tag + 1 /\ This.tag + 1 \in Int
    BY <1>2, <2>2, TagSteps
  <2>4. This'.tag = This.tag + 1 /\ This'.firstBuf = This.firstBuf
        /\ Len(contexts') = Len(contexts)
    BY <1>1, <2>1, <2>3, SetTagEffect
  <2> QED BY <2>1, <2>2, <2>4 DEF LastTag, AssertionHold, Asserted, Waiting
<1>4. CASE AssertionHold
  <2>1. at = "threads" /\ at' = "assert" /\ SetTag(PrevTag(This.tag))
    BY <1>4 DEF AssertionHold, Waiting, AddFrom
  <2>2. LastTag = This.tag
    BY <2>1 DEF LastTag
  <2>3. PrevTag(This.tag) = This.tag - 1 /\ This.tag - 1 \in Int
    BY <1>2, <2>2, TagSteps
  <2>4. This'.tag = This.tag - 1 /\ This'.firstBuf = This.firstBuf
        /\ Len(contexts') = Len(contexts)
    BY <1>1, <2>1, <2>3, SetTagEffect
  <2>5. LastTag' = LastTag
    BY <1>2, <2>1, <2>2, <2>4 DEF LastTag
  <2> QED BY <2>1, <2>4, <2>5 DEF LoopStep
<1>5. CASE Asserted
  <2>1. at = "assert" /\ at' = "threads" /\ SetTag(NextTag(This.tag))
    BY <1>5 DEF Asserted
  <2>2. LastTag = This.tag + 1
    BY <2>1 DEF LastTag
  <2>3. This.tag \in Nat
    BY <1>2, <2>2
  <2>4. NextTag(This.tag) = This.tag + 1 /\ This.tag + 1 \in Int
    BY <1>2, <2>3, TagSteps
  <2>5. This'.tag = This.tag + 1 /\ This'.firstBuf = This.firstBuf
        /\ Len(contexts') = Len(contexts)
    BY <1>1, <2>1, <2>4, SetTagEffect
  <2>6. LastTag' = LastTag
    BY <2>1, <2>2, <2>5 DEF LastTag
  <2> QED BY <2>1, <2>5, <2>6 DEF LoopStep
<1> QED BY <1>3, <1>4, <1>5

\* A step of the running call: its tag stays, counts up, or goes back for an assertion
\* and forth.
LEMMA InCallFresh ==
    ASSUME TypeOK, FreshTags, TagsDoNotWrap,
           LoopEnd \/ LoopStep \/ StepDone \/ ThreadConsumes \/ ThreadDies \/ AssertionHold
             \/ AddVisited \/ Seeded \/ Consumed \/ Asserted
    PROVE  FreshTags'
<1>1. /\ at # "idle" /\ at' # "idle" /\ UNCHANGED <<prog, marks, progTag, self>>
  BY DEF LoopEnd, LoopStep, StepDone, ThreadConsumes, ThreadDies, AssertionHold, AddVisited,
         Seeded, Consumed, Asserted, Adding, Waiting, AddFrom, program, exec
<1>2. self = Len(contexts) /\ ~This.firstBuf
  BY <1>1 DEF FreshTags
<1>3. CASE LoopEnd \/ StepDone \/ ThreadConsumes \/ ThreadDies \/ AddVisited \/ Seeded \/ Consumed
  <2>1. contexts' = contexts /\ (at = "assert" <=> at' = "assert")
    BY <1>3 DEF LoopEnd, StepDone, ThreadConsumes, ThreadDies, AddVisited, Seeded, Consumed,
                AddFrom, Waiting
  <2>2. This' = This /\ LastTag' = LastTag
    BY <1>1, <2>1 DEF This, LastTag
  <2> QED BY <1>1, <1>2, <2>1, <2>2, FreshNext
<1>4. CASE LoopStep \/ AssertionHold \/ Asserted
  <2>1. LastTag' = LastTag \/ LastTag' = LastTag + 1
    BY <1>4, CallTag
  <2>2. This'.firstBuf = This.firstBuf /\ Len(contexts') = Len(contexts)
    BY <1>4, CallTag
  <2> QED BY <1>1, <1>2, <2>1, <2>2, FreshNext
<1> QED BY <1>3, <1>4

\* A visit leaves the tag of its walk.
LEMMA VisitFresh ==
    ASSUME TypeOK, FreshTags, AddPasses \/ AddWaits
    PROVE  FreshTags'
<1>1. /\ Adding /\ Mark(Head(todo))
      /\ UNCHANGED <<prog, progTag, contexts, at, exec>>
  BY DEF AddPasses, AddWaits
<1>2. /\ at # "idle" /\ This.tag \in Int /\ LastTag \in Nat
      /\ marks \in [Pcs(prog) -> Int] /\ self' = self
  BY <1>1, ThisType DEF FreshTags, TypeOK, Adding, exec
<1>3. This' = This /\ LastTag' = LastTag /\ Latest' = Latest
  BY <1>1, <1>2 DEF This, LastTag, Latest
<1>4. This.tag <= LastTag
  BY <1>2 DEF LastTag
<1>5. ASSUME NEW pc \in Pcs(prog) PROVE marks'[pc] <= LastTag
  <2>1. marks[pc] <= LastTag
    BY DEF FreshTags
  <2>2. marks'[pc] \in {marks[pc], This.tag}
    BY <1>1, <1>2 DEF Mark
  <2> QED BY <1>4, <2>1, <2>2
<1> QED BY <1>1, <1>2, <1>3, <1>5 DEF FreshTags

\* Every step keeps the tags in the order of the walks.
LEMMA FreshStep ==
    ~Together /\ TypeOK /\ FreshTags /\ TagsDoNotWrap /\ [Next]_vars => FreshTags'
<1> SUFFICES ASSUME ~Together, TypeOK, FreshTags, TagsDoNotWrap, [Next]_vars PROVE FreshTags'
  OBVIOUS
<1>1. CASE Create \/ Exec
  BY <1>1, EnterFresh
<1>2. CASE UNCHANGED vars
  BY <1>2 DEF vars, program, exec, FreshTags, LastTag, This, Latest
<1>3. CASE ThreadMatches
  <2>1. at = "threads" /\ progTag' = This.tag /\ Return("OK", This.threads)
    BY <1>3 DEF ThreadMatches, Waiting
  <2>2. This.threads \in Seq(Threads)
    BY <2>1, ThisType DEF Contexts
  <2> QED BY <2>1, <2>2, ReturnFresh
<1>4. CASE Finish
  <2>1. /\ at = "finish" /\ progTag' = This.tag
        /\ \E code \in {"OK", "AGAIN", "DECLINED"} : Return(code, clist)
    BY <1>4 DEF Finish, SaveTag
  <2>2. clist \in Seq(Threads)
    BY DEF TypeOK
  <2> QED BY <2>1, <2>2, ReturnFresh
<1> QED BY <1>1, <1>2, <1>3, <1>4, InCallFresh, VisitFresh DEF Next, Machine, Loop, Run, AddThread

\* There is no context at first, and what the compiler has marked has its tag.
LEMMA FreshInit == Init => FreshTags
<1> SUFFICES ASSUME Init PROVE FreshTags
  OBVIOUS
<1>1. at = "idle" /\ progTag = 1 /\ contexts = <<>> /\ LastTag = 1
  BY DEF Init, LastTag
<1>2. \A pc \in Pcs(prog) : marks[pc] \in {0, 1}
  BY DEF Init
<1> QED BY <1>1, <1>2 DEF FreshTags

\* A walk begins with a tag that is later than any before it.
LEMMA WalkStep ==
    ASSUME ~Together, TypeOK, FreshTags, TagsDoNotWrap, [Next]_vars, WalkBegins,
           NEW pc \in Pcs(prog)
    PROVE  marks[pc] # contexts'[self'].tag
<1>1. marks[pc] \in Int /\ marks[pc] <= LastTag /\ LastTag \in Nat
  BY DEF FreshTags, TypeOK
<1>2. CASE Exec
  <2>1. /\ at = "idle" /\ LastTag = progTag
    BY <1>2 DEF Exec, LastTag
  <2>2. PICK c \in DOMAIN contexts :
          /\ InUse(c) /\ self' = c
          /\ at' = IF contexts[c].firstBuf THEN "seed" ELSE "loop"
          /\ contexts' = [contexts EXCEPT ![c].firstBuf = FALSE]
    BY <1>2 DEF Exec
  <2>3. c = Len(contexts) /\ contexts[c] = Latest /\ contexts # <<>> /\ contexts[c] \in Contexts
        /\ contexts \in Seq(Contexts)
    BY <2>2, ElementOfSeq, LenProperties, EmptySeq DEF InUse, Latest, TypeOK
  <2>4. Latest.firstBuf
    BY <2>1, <2>2, <2>3 DEF WalkBegins
  <2>5. Latest.tag = progTag + 1
    BY <2>1, <2>3, <2>4 DEF FreshTags
  <2>6. contexts'[self'].tag = Latest.tag
    BY <2>2, <2>3 DEF Contexts
  <2> QED BY <1>1, <2>1, <2>5, <2>6
<1>3. CASE LoopStep
  <2>1. at = "loop" /\ SetTag(NextTag(This.tag)) /\ self' = self
    BY <1>3 DEF LoopStep, exec
  <2>2. LastTag = This.tag /\ self \in DOMAIN contexts
    BY <2>1, ThisType DEF LastTag
  <2>3. NextTag(This.tag) = This.tag + 1 /\ This.tag + 1 \in Int
    BY <1>1, <2>2, TagSteps DEF TagsDoNotWrap, This
  <2>4. This'.tag = LastTag + 1
    BY <2>1, <2>2, <2>3, SetTagEffect
  <2> QED BY <1>1, <2>4 DEF This
<1>4. Exec \/ LoopStep
  BY DEF WalkBegins, Next, Create, Machine, Loop, LoopEnd, StepDone, Run, ThreadConsumes,
         ThreadDies, AssertionHold, ThreadMatches, AddThread, AddVisited, AddPasses, AddWaits,
         Seeded, Consumed, Asserted, Adding, Waiting, Finish, Return, vars
<1> QED BY <1>2, <1>3, <1>4

\* Every walk of sre_vm_thompson_add_thread, that of a new stream and that of a new byte,
\* begins with a tag that no instruction carries, over all the contexts of a program, as
\* long as the caller feeds the newest one only and no tag reaches the width of the
\* unsigned.
THEOREM WalksBeginFresh == ~Together /\ Spec /\ []TagsDoNotWrap => WalksAreFresh
<1> DEFINE Fresh1 == WalkBegins => \A pc \in Pcs(prog) : marks[pc] # contexts'[self'].tag
<1> SUFFICES ASSUME ~Together PROVE Spec /\ []TagsDoNotWrap => WalksAreFresh
  OBVIOUS
<1>1. Init => TypeOK /\ FreshTags
  BY InitType, FreshInit
<1>2. TypeOK /\ FreshTags /\ TagsDoNotWrap /\ [Next]_vars => (TypeOK /\ FreshTags)'
  BY TypeStep, FreshStep
<1>3. TypeOK /\ FreshTags /\ TagsDoNotWrap /\ [Next]_vars => [Fresh1]_vars
  BY WalkStep
<1> QED BY <1>1, <1>2, <1>3, PTL DEF Spec, WalksAreFresh

(***************************************************************************)
(* One thread for each instruction, if the program looks ahead nowhere:    *)
(* then only the calls of one walk fill a list, and each of them marks     *)
(* the instruction whose thread it appends with the tag of that walk.      *)
(* Nothing is asked of the tags of other walks, nor of other contexts.     *)
(***************************************************************************)
NoLookAheads(p) == \A pc \in Pcs(p) : p.code[pc].op = "assert" => p.code[pc].look \in LookBehind

OnePcIn(l) == \A j, k \in DOMAIN l : l[j].pc = l[k].pc => j = k

MarkedIn(l, m, n) == \A j \in DOMAIN l : m[l[j].pc] = n

\* A byte's walk fills the next list, that of a new stream the current one; between
\* the walks the next list is empty.
InWalk == at \in {"threads", "byte"}

OneEach ==
    /\ OnePcIn(clist) /\ OnePcIn(nlist)
    /\ at # "assert"
    /\ InWalk => MarkedIn(nlist, marks, This.tag)
    /\ at = "seed" => MarkedIn(clist, marks, This.tag)
    /\ ~InWalk => nlist = <<>>
    /\ \A c \in DOMAIN contexts :
        /\ OnePcIn(contexts[c].threads)
        /\ contexts[c].firstBuf => contexts[c].threads = <<>>
    /\ at # "idle" => ~This.firstBuf

\* No thread of an empty list waits anywhere.
LEMMA NoneEach == OnePcIn(<<>>) /\ \A m, n : MarkedIn(<<>>, m, n)
BY DEF OnePcIn, MarkedIn

\* A thread is appended that waits where no instruction was marked.
LEMMA AppendEach ==
    ASSUME NEW p, NEW l \in Seq([pc : Live(p), seenWord : BOOLEAN]), NEW m \in [Pcs(p) -> Int],
           NEW n \in Int, NEW pc \in Pcs(p), NEW thread, thread.pc = pc, m[pc] # n,
           OnePcIn(l), MarkedIn(l, m, n)
    PROVE  /\ OnePcIn(Append(l, thread))
           /\ MarkedIn(Append(l, thread), [m EXCEPT ![pc] = n], n)
<1> DEFINE S == [pc : Live(p), seenWord : BOOLEAN]
           more == Append(l, thread)
           m1 == [m EXCEPT ![pc] = n]
<1>1. Len(l) \in Nat /\ DOMAIN l = 1 .. Len(l)
  BY LenProperties
<1>2. /\ DOMAIN more = 1 .. Len(l) + 1
      /\ \A j \in 1 .. Len(l) : more[j] = l[j]
      /\ more[Len(l) + 1] = thread
  OBVIOUS
<1>3. ASSUME NEW j \in 1 .. Len(l) PROVE l[j].pc \in Pcs(p) /\ m[l[j].pc] = n /\ l[j].pc # pc
  <2>1. l[j] \in S
    BY <1>1, ElementOfSeq
  <2>2. l[j].pc \in Pcs(p)
    BY <2>1 DEF Live
  <2>3. m[l[j].pc] = n
    BY <1>1 DEF MarkedIn
  <2> QED BY <2>2, <2>3
<1> HIDE DEF more
<1>4. ASSUME NEW j \in 1 .. Len(l) + 1
      PROVE  (j \in 1 .. Len(l) /\ more[j] = l[j]) \/ (j = Len(l) + 1 /\ more[j].pc = pc)
  BY <1>1, <1>2
<1>5. ASSUME NEW j \in 1 .. Len(l) + 1, NEW k \in 1 .. Len(l) + 1, more[j].pc = more[k].pc
      PROVE  j = k
  <2>1. CASE j \in 1 .. Len(l) /\ k \in 1 .. Len(l)
    BY <1>1, <1>2, <1>5, <2>1 DEF OnePcIn
  <2>2. CASE j \in 1 .. Len(l) /\ k \notin 1 .. Len(l)
    BY <1>3, <1>4, <1>5, <2>2
  <2>3. CASE j \notin 1 .. Len(l) /\ k \in 1 .. Len(l)
    BY <1>3, <1>4, <1>5, <2>3
  <2>4. CASE j \notin 1 .. Len(l) /\ k \notin 1 .. Len(l)
    BY <1>4, <2>4
  <2> QED BY <2>1, <2>2, <2>3, <2>4
<1>6. ASSUME NEW j \in 1 .. Len(l) + 1 PROVE m1[more[j].pc] = n
  <2>1. m1[pc] = n
    OBVIOUS
  <2>2. CASE j \in 1 .. Len(l) /\ more[j] = l[j]
    BY <1>3, <2>2
  <2> QED BY <1>4, <2>1, <2>2
<1> QED BY <1>2, <1>5, <1>6 DEF OnePcIn, MarkedIn, more

\* A visit marks one instruction more.
LEMMA MarkEach ==
    ASSUME TypeOK, NEW l \in Seq(Threads), NEW n, NEW pc, MarkedIn(l, marks, n),
           marks' = [marks EXCEPT ![pc] = n]
    PROVE  MarkedIn(l, marks', n)
<1>1. marks \in [Pcs(prog) -> Int]
  BY DEF TypeOK
<1>2. ASSUME NEW j \in DOMAIN l PROVE marks'[l[j].pc] = n
  <2>1. l[j] \in Threads
    BY ElementOfSeq, LenProperties
  <2>2. l[j].pc \in Pcs(prog)
    BY <2>1 DEF Threads, Live
  <2>3. marks[l[j].pc] = n
    BY DEF MarkedIn
  <2> QED BY <1>1, <2>2, <2>3
<1> QED BY <1>2 DEF MarkedIn

\* What the contexts keep, said of the contexts cs.
Kept(cs) ==
    \A c \in DOMAIN cs :
        OnePcIn(cs[c].threads) /\ (cs[c].firstBuf => cs[c].threads = <<>>)

\* What the parts of OneEach come to after a step.
LEMMA EachNext ==
    ASSUME OnePcIn(clist'), OnePcIn(nlist'), at' # "assert",
           InWalk' => MarkedIn(nlist', marks', This'.tag),
           at' = "seed" => MarkedIn(clist', marks', This'.tag),
           ~InWalk' => nlist' = <<>>,
           Kept(contexts'),
           at' # "idle" => ~This'.firstBuf
    PROVE  OneEach'
BY DEF OneEach, OnePcIn, MarkedIn, Kept

\* The contexts after one of them has been replaced.
LEMMA KeptNext ==
    ASSUME TypeOK, OneEach, NEW c \in DOMAIN contexts, NEW k \in Contexts,
           contexts' = [contexts EXCEPT ![c] = k],
           OnePcIn(k.threads), k.firstBuf => k.threads = <<>>
    PROVE  Kept(contexts') /\ contexts'[c] = k /\ DOMAIN contexts' = DOMAIN contexts
<1>1. contexts \in Seq(Contexts)
  BY DEF TypeOK
<1>2. /\ DOMAIN contexts' = DOMAIN contexts /\ contexts'[c] = k
      /\ \A d \in DOMAIN contexts : d # c => contexts'[d] = contexts[d]
  <2> HIDE DEF Contexts
  <2> QED BY <1>1, ReplacedInSeq
<1>3. \A d \in DOMAIN contexts :
        OnePcIn(contexts[d].threads) /\ (contexts[d].firstBuf => contexts[d].threads = <<>>)
  BY DEF OneEach
<1> QED BY <1>2, <1>3 DEF Kept

\* The tag of the running context is none of what they keep.
LEMMA KeptTag ==
    ASSUME TypeOK, OneEach, at # "idle", NEW n \in Int, SetTag(n), self' = self
    PROVE  Kept(contexts') /\ This'.tag = n /\ ~This'.firstBuf
<1> DEFINE k == [This EXCEPT !.tag = n]
<1>1. self \in DOMAIN contexts /\ This \in Contexts
  BY ThisType
<1>2. k \in Contexts /\ k.threads = This.threads /\ k.firstBuf = This.firstBuf
  BY <1>1 DEF Contexts
<1>3. contexts' = [contexts EXCEPT ![self] = k]
  BY DEF SetTag, This
<1> HIDE DEF k
<1>4. OnePcIn(k.threads) /\ (k.firstBuf => k.threads = <<>>) /\ ~This.firstBuf
  BY <1>1, <1>2 DEF OneEach, This
<1>5. Kept(contexts')
  BY <1>1, <1>2, <1>3, <1>4, KeptNext
<1> QED BY <1>4, <1>5, SetTagEffect

\* A new context has no threads, and a call takes those of its context.
LEMMA EnterEach ==
    ASSUME TypeOK, OneEach, Create \/ Exec
    PROVE  OneEach'
<1>1. CASE Create
  <2>1. PICK s \in Streams :
          contexts' = Append(contexts, [stream |-> s, base |-> 0, out |-> "none",
                                        tag |-> NextTag(progTag), firstBuf |-> TRUE,
                                        threads |-> <<>>])
    BY <1>1 DEF Create
  <2> DEFINE k == [stream |-> s, base |-> 0, out |-> "none", tag |-> NextTag(progTag),
                   firstBuf |-> TRUE, threads |-> <<>>]
  <2>2. k.threads = <<>>
    OBVIOUS
  <2> HIDE DEF k
  <2>3. contexts' = Append(contexts, k) /\ contexts \in Seq(Contexts)
    BY <2>1 DEF k, TypeOK
  <2>4. /\ DOMAIN contexts' = 1 .. Len(contexts) + 1 /\ DOMAIN contexts = 1 .. Len(contexts)
        /\ \A d \in 1 .. Len(contexts) : contexts'[d] = contexts[d]
        /\ contexts'[Len(contexts) + 1] = k
        /\ Len(contexts) \in Nat
    <3> HIDE DEF Contexts
    <3> QED BY <2>3, LenProperties
  <2>5. Kept(contexts)
    BY DEF OneEach, Kept
  <2>6. Kept(contexts')
    <3> SUFFICES ASSUME NEW d \in DOMAIN contexts'
                 PROVE  /\ OnePcIn(contexts'[d].threads)
                        /\ contexts'[d].firstBuf => contexts'[d].threads = <<>>
      BY DEF Kept
    <3>1. CASE d \in 1 .. Len(contexts)
      BY <2>4, <2>5, <3>1 DEF Kept
    <3>2. CASE d \notin 1 .. Len(contexts)
      <4>1. contexts'[d] = k
        BY <2>4, <3>2
      <4> QED BY <2>2, <4>1, NoneEach
    <3> QED BY <3>1, <3>2
  <2>7. at = "idle" /\ at' = "idle" /\ UNCHANGED <<clist, nlist>>
    BY <1>1 DEF Create, lists
  <2> QED BY <2>6, <2>7, EachNext DEF OneEach, InWalk
<1>2. CASE Exec
  <2>1. PICK c \in DOMAIN contexts :
          /\ self' = c /\ clist' = contexts[c].threads
          /\ at' = IF contexts[c].firstBuf THEN "seed" ELSE "loop"
          /\ contexts' = [contexts EXCEPT ![c].firstBuf = FALSE]
    BY <1>2 DEF Exec
  <2> DEFINE k == [contexts[c] EXCEPT !.firstBuf = FALSE]
  <2>2. contexts[c] \in Contexts
    BY ElementOfSeq, LenProperties DEF TypeOK
  <2>3. k \in Contexts /\ k.threads = contexts[c].threads /\ k.firstBuf = FALSE
    BY <2>2 DEF Contexts
  <2>4. contexts' = [contexts EXCEPT ![c] = k]
    BY <2>1
  <2> HIDE DEF k
  <2>5. OnePcIn(contexts[c].threads)
        /\ (contexts[c].firstBuf => contexts[c].threads = <<>>)
    BY DEF OneEach
  <2>6. Kept(contexts') /\ contexts'[c] = k
    BY <2>3, <2>4, <2>5, KeptNext
  <2>7. ~This'.firstBuf
    BY <2>1, <2>3, <2>6 DEF This
  <2>8. nlist' = <<>> /\ at' \in {"seed", "loop"}
    BY <1>2, <2>1 DEF Exec
  <2>9. at' = "seed" => MarkedIn(clist', marks', This'.tag)
    BY <2>1, <2>5, NoneEach
  <2>10. OnePcIn(clist') /\ OnePcIn(nlist')
    BY <2>1, <2>5, <2>8, NoneEach
  <2> QED BY <2>6, <2>7, <2>8, <2>9, <2>10, EachNext DEF InWalk
<1> QED BY <1>1, <1>2

\* The end of a call.
LEMMA ReturnEach ==
    ASSUME TypeOK, OneEach, at # "idle",
           NEW code \in {"OK", "AGAIN", "DECLINED"}, NEW threads \in Seq(Threads),
           OnePcIn(threads), Return(code, threads)
    PROVE  OneEach'
<1> DEFINE base == This.base + size
           k == [This EXCEPT !.out = code, !.threads = threads, !.base = base]
<1>1. /\ self \in DOMAIN contexts /\ This \in Contexts
      /\ This.base \in Nat /\ size \in Nat /\ ~This.firstBuf
  BY ThisType DEF TypeOK, OneEach
<1>2. base \in Nat
  BY <1>1
<1>3. k \in Contexts /\ k.threads = threads /\ ~k.firstBuf
  <2> HIDE DEF base
  <2> QED BY <1>1, <1>2 DEF Contexts
<1>4. contexts' = [contexts EXCEPT ![self] = k]
  BY DEF Return, This
<1> HIDE DEF k, base
<1>5. Kept(contexts')
  BY <1>1, <1>3, <1>4, KeptNext
<1>6. at' = "idle" /\ clist' = <<>> /\ nlist' = <<>>
  BY DEF Return
<1> QED BY <1>5, <1>6, NoneEach, EachNext DEF InWalk

\* The steps of the loop and of the switch, and the returns to where a walk was started.
LEMMA InCallEach ==
    ASSUME TypeOK, OneEach, at # "assert",
           LoopEnd \/ LoopStep \/ StepDone \/ ThreadConsumes \/ ThreadDies
             \/ AddVisited \/ Seeded \/ Consumed
    PROVE  OneEach'
<1>1. /\ at # "idle" /\ at' # "idle" /\ UNCHANGED <<prog, marks, self>>
  BY DEF LoopEnd, LoopStep, StepDone, ThreadConsumes, ThreadDies, AddVisited,
         Seeded, Consumed, Adding, Waiting, AddFrom, program, exec
<1>2. OnePcIn(clist) /\ OnePcIn(nlist) /\ Kept(contexts) /\ ~This.firstBuf
  BY <1>1 DEF OneEach, Kept
<1>3. CASE LoopStep
  <2>1. /\ at = "loop" /\ at' = "threads" /\ SetTag(NextTag(This.tag))
        /\ UNCHANGED <<clist, nlist>>
    BY <1>3 DEF LoopStep
  <2>2. NextTag(This.tag) \in Int
    BY <1>1, ThisType, TagType
  <2>3. Kept(contexts') /\ ~This'.firstBuf
    BY <1>1, <2>1, <2>2, KeptTag
  <2>4. nlist = <<>>
    BY <2>1 DEF OneEach, InWalk
  <2> QED BY <1>2, <2>1, <2>3, <2>4, NoneEach, EachNext
<1>4. CASE StepDone
  <2>1. /\ clist' = nlist /\ nlist' = <<>> /\ at' \in {"finish", "loop"} /\ contexts' = contexts
    BY <1>4 DEF StepDone, AtLast
  <2>2. This' = This
    BY <1>1, <2>1 DEF This
  <2> QED BY <1>2, <2>1, <2>2, NoneEach, EachNext DEF InWalk
<1>5. CASE LoopEnd \/ ThreadConsumes \/ ThreadDies \/ AddVisited \/ Seeded \/ Consumed
  <2>1. /\ UNCHANGED <<contexts, clist, nlist>>
        /\ InWalk' <=> InWalk
        /\ at' = "seed" => at = "seed"
        /\ at' # "assert"
    BY <1>5 DEF LoopEnd, ThreadConsumes, ThreadDies, AddVisited, Seeded, Consumed,
                Adding, Waiting, AddFrom, lists, InWalk, OneEach
  <2>2. This' = This
    BY <1>1, <2>1 DEF This
  <2>3. /\ InWalk' => MarkedIn(nlist', marks', This'.tag)
        /\ at' = "seed" => MarkedIn(clist', marks', This'.tag)
        /\ ~InWalk' => nlist' = <<>>
    BY <1>1, <2>1, <2>2 DEF OneEach
  <2> QED BY <1>2, <2>1, <2>2, <2>3, EachNext
<1> QED BY <1>3, <1>4, <1>5

\* The walk marks what it passes.
LEMMA PassEach ==
    ASSUME TypeOK, OneEach, AddPasses
    PROVE  OneEach'
<1>1. /\ Adding /\ Mark(Head(todo)) /\ UNCHANGED <<contexts, at, exec, lists>>
  BY DEF AddPasses
<1>2. This' = This /\ at \in {"seed", "byte"}
  BY <1>1 DEF This, exec, Adding, OneEach
<1>3. /\ OnePcIn(clist) /\ OnePcIn(nlist) /\ Kept(contexts) /\ ~This.firstBuf
      /\ InWalk => MarkedIn(nlist, marks, This.tag)
      /\ at = "seed" => MarkedIn(clist, marks, This.tag)
      /\ ~InWalk => nlist = <<>>
  BY <1>2 DEF OneEach, Kept
<1>4. clist \in Seq(Threads) /\ nlist \in Seq(Threads)
  BY DEF TypeOK
<1> HIDE DEF Threads
<1>5. /\ InWalk => MarkedIn(nlist, marks', This.tag)
      /\ at = "seed" => MarkedIn(clist, marks', This.tag)
  BY <1>1, <1>3, <1>4, MarkEach DEF Mark
<1> QED BY <1>1, <1>2, <1>3, <1>5, EachNext DEF lists, InWalk

\* The thread of an instruction that waits: no other one of the list waits there.
LEMMA WaitEach ==
    ASSUME TypeOK, OneEach, AddWaits
    PROVE  OneEach'
<1> PICK pc, n : pc = Head(todo) /\ n = This.tag
  OBVIOUS
<1> DEFINE thread == [pc |-> pc, seenWord |-> SeenWord(Ins(pc))]
<1>1. /\ Adding /\ marks' = [marks EXCEPT ![pc] = n] /\ marks[pc] # n
      /\ IF at = "byte"
         THEN nlist' = Append(nlist, thread) /\ UNCHANGED clist
         ELSE clist' = Append(clist, thread) /\ UNCHANGED nlist
      /\ UNCHANGED <<contexts, at, exec>>
  BY DEF AddWaits, Mark
<1>2. thread.pc = pc
  OBVIOUS
<1> HIDE DEF thread
<1>3. This' = This /\ at \in {"seed", "byte"} /\ n \in Int
  BY <1>1, ThisType DEF This, exec, Adding, OneEach
<1>4. /\ OnePcIn(clist) /\ OnePcIn(nlist) /\ Kept(contexts) /\ ~This.firstBuf
      /\ at = "byte" => MarkedIn(nlist, marks, n)
      /\ at = "seed" => MarkedIn(clist, marks, n) /\ nlist = <<>>
  BY <1>3 DEF OneEach, Kept, InWalk
<1>5. /\ clist \in Seq(Threads) /\ nlist \in Seq(Threads)
      /\ marks \in [Pcs(prog) -> Int] /\ pc \in Pcs(prog)
  BY <1>1, TodoType DEF TypeOK
<1>6. ASSUME NEW l \in Seq(Threads), OnePcIn(l), MarkedIn(l, marks, n)
      PROVE  OnePcIn(Append(l, thread)) /\ MarkedIn(Append(l, thread), marks', n)
  <2>1. l \in Seq([pc : Live(prog), seenWord : BOOLEAN])
    BY DEF Threads
  <2> QED BY <1>1, <1>2, <1>3, <1>5, <1>6, <2>1, AppendEach
<1>7. CASE at = "byte"
  <2>1. nlist' = Append(nlist, thread) /\ clist' = clist
    BY <1>1, <1>7
  <2>2. OnePcIn(nlist') /\ MarkedIn(nlist', marks', n)
    BY <1>4, <1>5, <1>6, <1>7, <2>1
  <2> QED BY <1>1, <1>3, <1>4, <1>7, <2>1, <2>2, EachNext DEF InWalk
<1>8. CASE at = "seed"
  <2>1. clist' = Append(clist, thread) /\ nlist' = nlist
    BY <1>1, <1>8
  <2>2. OnePcIn(clist') /\ MarkedIn(clist', marks', n)
    BY <1>4, <1>5, <1>6, <1>8, <2>1
  <2> QED BY <1>1, <1>3, <1>4, <1>8, <2>1, <2>2, EachNext DEF InWalk
<1> QED BY <1>3, <1>7, <1>8

\* Every step of a program that looks ahead nowhere.
LEMMA EachStep ==
    TypeOK /\ (NoLookAheads(prog) => OneEach) /\ [Next]_vars
        => (NoLookAheads(prog) => OneEach)'
<1> SUFFICES ASSUME TypeOK, NoLookAheads(prog) => OneEach, [Next]_vars
             PROVE  (NoLookAheads(prog) => OneEach)'
  OBVIOUS
<1>1. prog' = prog
  BY DEF Next, Create, Exec, Machine, Loop, LoopEnd, LoopStep, StepDone, Run, ThreadConsumes,
         ThreadDies, AssertionHold, ThreadMatches, AddThread, AddVisited, AddPasses, AddWaits,
         Seeded, Consumed, Asserted, Finish, Return, vars, program
<1> SUFFICES ASSUME NoLookAheads(prog) PROVE OneEach'
  BY <1>1 DEF NoLookAheads, Pcs
<1>2. OneEach
  OBVIOUS
<1>3. at # "assert"
  BY <1>2 DEF OneEach
<1>4. ~AssertionHold
  <2> SUFFICES ASSUME AssertionHold PROVE FALSE
    OBVIOUS
  <2>1. clist[i].pc \in Live(prog) /\ Ins(clist[i].pc).op = "assert"
    <3>1. Waiting({"assert"})
      BY DEF AssertionHold
    <3> QED BY <3>1, CurrentType
  <2>2. Ins(clist[i].pc).look \in LookBehind
    BY <2>1 DEF NoLookAheads, Live, Ins
  <2> QED BY <2>2 DEF AssertionHold, AssertionHolds, LookBehind
<1>5. CASE Create \/ Exec
  BY <1>2, <1>5, EnterEach
<1>6. CASE UNCHANGED vars
  BY <1>2, <1>6 DEF vars, program, exec, lists, OneEach, OnePcIn, MarkedIn, InWalk, This
<1>7. CASE ThreadMatches
  <2>1. at = "threads" /\ Return("OK", This.threads)
    BY <1>7 DEF ThreadMatches, Waiting
  <2>2. This.threads \in Seq(Threads) /\ OnePcIn(This.threads)
    <3>1. self \in DOMAIN contexts /\ This \in Contexts
      BY <2>1, ThisType
    <3> QED BY <1>2, <3>1 DEF Contexts, OneEach, This
  <2> QED BY <1>2, <2>1, <2>2, ReturnEach
<1>8. CASE Finish
  <2>1. /\ at = "finish" /\ \E code \in {"OK", "AGAIN", "DECLINED"} : Return(code, clist)
    BY <1>8 DEF Finish
  <2>2. clist \in Seq(Threads) /\ OnePcIn(clist)
    BY <1>2 DEF TypeOK, OneEach
  <2> QED BY <1>2, <2>1, <2>2, ReturnEach
<1>9. CASE AddPasses
  BY <1>2, <1>9, PassEach
<1>10. CASE AddWaits
  BY <1>2, <1>10, WaitEach
<1>11. ~Asserted
  BY <1>3 DEF Asserted
<1> QED BY <1>2, <1>3, <1>4, <1>5, <1>6, <1>7, <1>8, <1>9, <1>10, <1>11, InCallEach
        DEF Next, Machine, Loop, Run, AddThread

\* There are no threads at first.
LEMMA EachInit == Init => OneEach
<1> SUFFICES ASSUME Init PROVE OneEach
  OBVIOUS
<1>1. at = "idle" /\ clist = <<>> /\ nlist = <<>> /\ DOMAIN contexts = {}
  BY DEF Init
<1> QED BY <1>1, NoneEach DEF OneEach, InWalk

\* A list with one thread at an instruction is no longer than there are instructions.
LEMMA OneEachFits ==
    ASSUME TypeOK, NEW l \in Seq(Threads), OnePcIn(l)
    PROVE  Len(l) <= ArrayLen
<1> DEFINE all == Pcs(prog)
           f   == [n \in 1 .. Len(l) |-> l[n].pc]
<1>1. DOMAIN l = 1 .. Len(l) /\ Len(l) \in Nat
  BY LenProperties
<1>2. IsFiniteSet(all)
  BY ConstantsAssumption DEF TypeOK, WellFormed, WellFormedCode
<1>3. ASSUME NEW n \in 1 .. Len(l) PROVE f[n] \in all
  <2>1. l[n] \in Threads
    BY <1>1, ElementOfSeq
  <2> QED BY <2>1 DEF Threads, Live
<1>4. \A m, n \in 1 .. Len(l) : f[m] = f[n] => m = n
  BY <1>1 DEF OnePcIn
<1>5. f \in Injection(1 .. Len(l), all)
  <2> HIDE DEF all
  <2>1. f \in [1 .. Len(l) -> all]
    BY <1>3
  <2> HIDE DEF f
  <2> QED BY <1>4, <2>1, Fun_IsInj
<1>6. IsFiniteSet(1 .. Len(l)) /\ Cardinality(1 .. Len(l)) = Len(l)
  <2>1. 1 \in Int /\ Len(l) \in Int /\ Len(l) >= 0
    BY <1>1
  <2>2. /\ IsFiniteSet(1 .. Len(l))
        /\ Cardinality(1 .. Len(l)) = IF 1 > Len(l) THEN 0 ELSE Len(l) - 1 + 1
    BY <2>1, FS_Interval
  <2> QED BY <2>1, <2>2
<1>7. Cardinality(1 .. Len(l)) <= Cardinality(all)
  <2> HIDE DEF all, f
  <2> QED BY <1>2, <1>5, FS_Injection
<1> QED BY <1>6, <1>7 DEF ArrayLen

\* The thread arrays of a context, which have an entry for each instruction and are not
\* checked by sre_vm_thompson_add_thread, never overflow if the program has no assertion
\* that looks ahead, however many contexts share its tags and even if those wrap.
THEOREM ThreadsAlwaysFit == Spec => [](NoLookAheads(prog) => ThreadsFit)
<1>1. TypeOK /\ (NoLookAheads(prog) => OneEach) => (NoLookAheads(prog) => ThreadsFit)
  BY OneEachFits DEF OneEach, ThreadsFit, TypeOK
<1>2. Init => (NoLookAheads(prog) => OneEach)
  BY EachInit
<1> QED BY <1>1, <1>2, EachStep, InitType, TypeStep, PTL DEF Spec

-----------------------------------------------------------------------------
(***************************************************************************)
(* What sre_vm_thompson_exec answers is right, for every program, set of   *)
(* streams and way to cut them into chunks: SRE_OK means that the program  *)
(* finds a match, as Acceptance says it, and SRE_DECLINED that it does     *)
(* not.                                                                    *)
(***************************************************************************)

(* What a thread, and a walk, sees behind it. *)

LooksAhead(ins) == ins.op = "assert" /\ ins.look \notin LookBehind

LooksBack(ins) == ins.op = "assert" /\ ins.look \in {"\\A", "^", "\\b", "\\B"}

\* Some instructions that a walk from a look-ahead does not leave, none of which looks
\* back: that byte may be in the chunk before.
Apart(p, set) ==
    /\ \A pc \in Live(p) : LooksAhead(p.code[pc]) => pc + 1 \in set
    /\ \A pc \in set : /\ ~LooksBack(p.code[pc])
                       /\ Passes(p.code[pc]) => Leads(p.code[pc], pc) \subseteq set

NoChains(p) == \E set \in SUBSET Live(p) : Apart(p, set)

Behind(p) == CHOOSE set \in SUBSET Live(p) : Apart(p, set)

\* What a program looks back at is in the chunk, which is all that add_thread has: no
\* look-behind follows a look-ahead with no byte in between, or the streams come whole.
SeesBack == NoChains(prog) \/ "data" \notin ChunkKinds

Front == This.base + sp

\* Where the walk is in the stream.
Spot == This.base + Pos

\* A thread waits at a place the search comes to, and knows the byte behind it.
SeenRight(p, s, t, n) ==
    p.code[t.pc].op = "assert" /\ p.code[t.pc].look \in {"\\b", "\\B"} =>
        (t.seenWord <=> WordAt(s, n))

ThreadRight(p, s, t, n) ==
    <<t.pc, n>> \in Reachable(p, s) /\ ~Passes(p.code[t.pc]) /\ SeenRight(p, s, t, n)

AllRight(p, s, l, n) == \A j \in DOMAIN l : ThreadRight(p, s, l[j], n)

\* A context between its calls.
KeptRight(p, k) ==
    /\ k.firstBuf => k.base = 0 /\ k.threads = <<>>
    /\ k.out \in {"none", "AGAIN"} =>
         AllRight(p, k.stream, k.threads, k.base) /\ ("data" \notin ChunkKinds => k.base = 0)
    /\ k.out = "OK" => Accepted(p, k.stream)

\* The chunk is the one the stream has at base, and its end is met with empty lists.
ChunkRight ==
    /\ ~This.firstBuf
    /\ eof => This.base + size = Len(This.stream)
    /\ "data" \notin ChunkKinds => This.base = 0 /\ (~eof => size = 0)
    /\ at = "seed" => This.base = 0
    /\ at \in {"seed", "loop", "finish"} \/ sp = size => nlist = <<>>
    /\ at \in {"threads", "assert"} /\ sp = size => eof
    /\ at = "finish" => clist = <<>> \/ (sp = size /\ ~eof)

\* The calls of add_thread that are still to be made.
WalkRight ==
    /\ \A pc \in Range(todo) : <<pc, Spot>> \in Reachable(prog, This.stream)
    /\ at = "assert" /\ This.base # 0 => Range(todo) \subseteq Behind(prog)

Real ==
    /\ at # "idle" =>
        /\ ChunkRight /\ WalkRight
        /\ AllRight(prog, This.stream, clist, Front)
        /\ AllRight(prog, This.stream, nlist, Front + 1)
    /\ at \notin {"seed", "byte", "assert"} => todo = <<>>
    /\ \A c \in DOMAIN contexts : KeptRight(prog, contexts[c])

\* What a program that looks back through no look-ahead has behind its look-aheads.
LEMMA BehindApart ==
    ASSUME NEW p, NoChains(p)
    PROVE  Behind(p) \subseteq Live(p) /\ Apart(p, Behind(p))
BY DEF NoChains, Behind

\* The bytes of the chunk in the stream.
LEMMA ChunkBytes ==
    ASSUME TypeOK, at # "idle"
    PROVE  /\ This.stream \in Seq(Byte) /\ WellFormed(prog)
           /\ This.base \in Nat /\ sp \in Nat /\ size \in Nat /\ sp <= size
           /\ Len(This.stream) \in Nat /\ Front \in Nat
           /\ This.base + size <= Len(This.stream)
           /\ \A k \in 0 .. size - 1 :
                /\ ByteAt(k) = This.stream[This.base + k + 1]
                /\ This.base + k + 1 \in 1 .. Len(This.stream)
                /\ IsWord(k) <=> WordAt(This.stream, This.base + k + 1)
<1>1. /\ This.stream \in Streams /\ This.base \in Nat /\ Len(This.stream) \in Nat
      /\ This.base + size <= Len(This.stream)
  BY ThisType
<1>2. sp \in Nat /\ size \in Nat /\ sp <= size /\ prog \in Programs
  BY DEF TypeOK
<1>3. This.stream \in Seq(Byte) /\ WellFormed(prog)
  BY <1>1, <1>2, ConstantsAssumption
<1>4. ASSUME NEW k \in 0 .. size - 1
      PROVE  /\ ByteAt(k) = This.stream[This.base + k + 1]
             /\ This.base + k + 1 \in 1 .. Len(This.stream)
             /\ IsWord(k) <=> WordAt(This.stream, This.base + k + 1)
  <2>1. This.base + k + 1 \in 1 .. Len(This.stream) /\ k < size
    BY <1>1, <1>2
  <2>2. ByteAt(k) = This.stream[This.base + k + 1]
    BY DEF ByteAt
  <2> QED BY <2>1, <2>2 DEF IsWord, WordAt
<1> QED BY <1>1, <1>2, <1>3, <1>4 DEF Front

\* What a look-ahead decides is what the stream has there.
LEMMA AheadRight ==
    ASSUME TypeOK, at = "threads", ChunkRight, Waiting({"assert"}),
           ThreadRight(prog, This.stream, clist[i], Front)
    PROVE  AssertionHolds <=> HoldsAt(Ins(clist[i].pc).look, This.stream, Front)
<1> DEFINE t == clist[i]
           s == This.stream
           look == Ins(t.pc).look
<1>1. /\ Ins(t.pc).op = "assert" /\ t.pc \in Live(prog)
  BY CurrentType
<1>2. look \in {"\\z", "$", "\\b", "\\B"}
  <2>1. look \in Assertions
    BY <1>1, InstructionParts DEF TypeOK, Ins
  <2>2. look \notin LookBehind
    BY <1>1 DEF ThreadRight, Passes, Ins
  <2> QED BY <2>1, <2>2 DEF Assertions, LookBehind
<1>3. /\ sp \in Nat /\ size \in Nat /\ sp <= size /\ This.base \in Nat /\ Front = This.base + sp
      /\ Len(s) \in Nat /\ This.base + size <= Len(s)
  BY ChunkBytes DEF Front
<1> DEFINE SameLook(l) == look = l => (AssertionHolds <=> HoldsAt(look, s, Front))
<1>4. ASSUME IsWord(sp) = WordAt(s, Front + 1), t.seenWord = WordAt(s, Front)
      PROVE  SameLook("\\b") /\ SameLook("\\B")
  <2>1. look = "\\b" => (AssertionHolds <=> t.seenWord # IsWord(sp))
    BY DEF AssertionHolds
  <2>2. look = "\\B" => (AssertionHolds <=> t.seenWord = IsWord(sp))
    BY DEF AssertionHolds
  <2>3. look = "\\b" => (HoldsAt(look, s, Front) <=> WordAt(s, Front) # WordAt(s, Front + 1))
    BY DEF HoldsAt
  <2>4. look = "\\B" => (HoldsAt(look, s, Front) <=> WordAt(s, Front) = WordAt(s, Front + 1))
    BY DEF HoldsAt
  <2> QED BY <1>4, <2>1, <2>2, <2>3, <2>4, Zenon
<1>5. CASE sp = size
  <2>1. Front = Len(s) /\ ~IsWord(sp)
    BY <1>3, <1>5 DEF ChunkRight, IsWord
  <2>2. ~WordAt(s, Front + 1)
    BY <1>3, <2>1 DEF WordAt
  <2>3. look \in {"\\b", "\\B"} => (t.seenWord <=> WordAt(s, Front)) /\ t.seenWord \in BOOLEAN
    <3>1. t \in Threads
      BY CurrentType, ElementOfSeq DEF TypeOK
    <3> QED BY <1>1, <3>1 DEF ThreadRight, SeenRight, Ins, Threads
  <2>4. CASE look = "\\z"
    BY <1>5, <2>1, <2>4 DEF AssertionHolds, HoldsAt
  <2>5. CASE look = "$"
    BY <1>3, <1>5, <2>1, <2>5 DEF AssertionHolds, HoldsAt
  <2>6. CASE look \in {"\\b", "\\B"}
    <3>1. /\ IsWord(sp) \in BOOLEAN /\ IsWord(sp) = WordAt(s, Front + 1)
          /\ t.seenWord = WordAt(s, Front)
      BY <2>1, <2>2, <2>3, <2>6, Zenon DEF IsWord, WordAt
    <3> QED BY <1>4, <2>6, <3>1
  <2> QED BY <1>2, <2>4, <2>5, <2>6
<1>6. CASE sp < size
  <2>1. /\ Front < Len(s)
        /\ ByteAt(sp) = s[Front + 1]
        /\ IsWord(sp) <=> WordAt(s, Front + 1)
    <3>1. sp \in 0 .. size - 1 /\ Front + 1 = This.base + sp + 1
      BY <1>3, <1>6
    <3> QED BY <1>3, <3>1, ChunkBytes
  <2>2. look \in {"\\b", "\\B"} => (t.seenWord <=> WordAt(s, Front)) /\ t.seenWord \in BOOLEAN
    <3>1. t \in Threads
      BY CurrentType, ElementOfSeq DEF TypeOK
    <3> QED BY <1>1, <3>1 DEF ThreadRight, SeenRight, Ins, Threads
  <2>3. sp # size /\ Front # Len(s)
    BY <1>3, <1>6, <2>1
  <2>4. CASE look = "\\z"
    BY <2>3, <2>4 DEF AssertionHolds, HoldsAt
  <2>5. CASE look = "$"
    BY <1>6, <2>1, <2>3, <2>5 DEF AssertionHolds, HoldsAt
  <2>6. CASE look \in {"\\b", "\\B"}
    <3>1. IsWord(sp) = WordAt(s, Front + 1) /\ t.seenWord = WordAt(s, Front)
      BY <2>1, <2>2, <2>6, Zenon DEF IsWord, WordAt
    <3> QED BY <1>4, <2>6, <3>1
  <2> QED BY <1>2, <2>4, <2>5, <2>6
<1> QED BY <1>3, <1>5, <1>6

\* The place of the running thread, and where it leads.
LEMMA ThreadSteps ==
    ASSUME TypeOK, ChunkRight, NEW ops, Waiting(ops),
           ThreadRight(prog, This.stream, clist[i], Front)
    PROVE  LET pc == clist[i].pc
               next == Steps(prog, This.stream, <<pc, Front>>)
           IN  /\ ops = Consumers  => next = IF CanConsume THEN {<<pc + 1, Front + 1>>} ELSE {}
               /\ ops = {"assert"} => next = IF AssertionHolds THEN {<<pc + 1, Front>>} ELSE {}
<1> DEFINE pc == clist[i].pc
           s == This.stream
           next == Steps(prog, s, <<pc, Front>>)
<1>1. at = "threads" /\ Ins(pc).op \in ops /\ Ins(pc) = prog.code[pc]
  BY CurrentType DEF Ins
<1>2. /\ sp \in Nat /\ size \in Nat /\ sp <= size /\ This.base \in Nat /\ Front = This.base + sp
      /\ Len(s) \in Nat /\ This.base + size <= Len(s)
  BY <1>1, ChunkBytes DEF Front
<1>3. CASE ops = Consumers
  <2>1. CanConsume <=> Permits(Ins(pc), s, Front)
    <3>1. CASE sp < size
      <4>1. sp \in 0 .. size - 1 /\ Front + 1 = This.base + sp + 1 /\ Front < Len(s)
        BY <1>2, <3>1
      <4>2. ByteAt(sp) = s[Front + 1]
        BY <1>1, <4>1, ChunkBytes
      <4> QED BY <1>1, <1>3, <3>1, <4>1, <4>2 DEF CanConsume, Permits, Consumers
    <3>2. CASE sp = size
      <4>1. Front = Len(s)
        BY <1>1, <1>2, <3>2 DEF ChunkRight
      <4> QED BY <1>1, <1>2, <1>3, <3>2, <4>1 DEF CanConsume, Permits, Consumers
    <3> QED BY <1>2, <3>1, <3>2
  <2>2. Leads(Ins(pc), pc) = {pc + 1} /\ Ins(pc).op \in Consumers
    BY <1>1, <1>3 DEF Leads, Consumers
  <2>3. next = IF CanConsume THEN {pc + 1} \X {Front + 1} ELSE {}
    BY <1>1, <2>1, <2>2 DEF Steps
  <2>4. next = IF CanConsume THEN {<<pc + 1, Front + 1>>} ELSE {}
    BY <2>3
  <2> QED BY <1>3, <2>4 DEF Consumers
<1>4. CASE ops = {"assert"}
  <2>1. AssertionHolds <=> HoldsAt(Ins(pc).look, s, Front)
    BY <1>1, <1>4, AheadRight
  <2>2. Permits(Ins(pc), s, Front) <=> HoldsAt(Ins(pc).look, s, Front)
    BY <1>1, <1>4 DEF Permits, Consumers
  <2>3. Leads(Ins(pc), pc) = {pc + 1} /\ Ins(pc).op \notin Consumers
    BY <1>1, <1>4 DEF Leads, Consumers
  <2>4. next = IF AssertionHolds THEN {pc + 1} \X {Front} ELSE {}
    BY <1>1, <2>1, <2>2, <2>3 DEF Steps
  <2>5. next = IF AssertionHolds THEN {<<pc + 1, Front>>} ELSE {}
    BY <2>4
  <2> QED BY <1>4, <2>5 DEF Consumers
<1> QED BY <1>3, <1>4

\* What a walk sees behind it is what the stream has there, and so it goes on to where
\* its place leads.
LEMMA WalkSteps ==
    ASSUME TypeOK, SeesBack, Real, Adding, NEW pc, pc = Head(todo)
    PROVE  /\ Spot \in Nat
           /\ <<pc, Spot>> \in Reachable(prog, This.stream)
           /\ at = "assert" /\ This.base # 0 =>
                pc \in Behind(prog) /\ Apart(prog, Behind(prog))
           /\ Ins(pc).op = "assert" /\ Ins(pc).look \in {"\\b", "\\B"} =>
                (SeenWord(Ins(pc)) <=> WordAt(This.stream, Spot))
           /\ Passes(Ins(pc)) =>
                Steps(prog, This.stream, <<pc, Spot>>) = Range(Follow(Ins(pc), pc)) \X {Spot}
<1> DEFINE s == This.stream
           ins == Ins(pc)
<1>1. /\ at \in {"seed", "byte", "assert"} /\ pc \in Live(prog) /\ todo # <<>>
      /\ at # "idle"
  BY TodoType DEF Adding
<1>2. /\ sp \in Nat /\ size \in Nat /\ sp <= size /\ This.base \in Nat
      /\ at = "byte" => sp < size
      /\ Len(s) \in Nat /\ This.base + size <= Len(s)
  BY <1>1, ChunkBytes DEF TypeOK
<1>3. Pos \in Nat /\ Pos <= size /\ Spot = This.base + Pos /\ Spot \in Nat
  BY <1>2 DEF Pos, Spot
<1>4. pc \in Range(todo)
  <2>1. 1 \in DOMAIN todo /\ pc = todo[1]
    BY <1>1 DEF TypeOK
  <2> QED BY <2>1 DEF Range
<1>5. /\ <<pc, Spot>> \in Reachable(prog, s)
      /\ at = "assert" /\ This.base # 0 => pc \in Behind(prog)
  BY <1>1, <1>4 DEF Real, WalkRight
<1>6. at = "assert" /\ This.base # 0 => pc \in Behind(prog) /\ Apart(prog, Behind(prog))
  BY <1>1, <1>5, BehindApart DEF SeesBack, Real, ChunkRight
<1>7. Pos = 0 /\ LooksBack(ins) => Spot = 0
  <2>1. at = "byte" => Pos # 0
    BY <1>2 DEF Pos
  <2>2. at = "seed" => This.base = 0
    BY <1>1 DEF Real, ChunkRight
  <2>3. at = "assert" /\ LooksBack(ins) => This.base = 0
    BY <1>6 DEF Apart, Ins
  <2> QED BY <1>1, <1>2, <1>3, <2>1, <2>2, <2>3
<1>8. Pos # 0 => /\ ByteAt(Pos - 1) = s[Spot] /\ Spot # 0
                 /\ IsWord(Pos - 1) <=> WordAt(s, Spot)
  <2>1. Pos # 0 => Pos - 1 \in 0 .. size - 1 /\ This.base + (Pos - 1) + 1 = Spot /\ Spot # 0
    BY <1>2, <1>3
  <2> QED BY <1>1, <2>1, ChunkBytes
<1>9. ins.op = "assert" /\ ins.look \in {"\\b", "\\B"} => (SeenWord(ins) <=> WordAt(s, Spot))
  <2>1. ~WordAt(s, 0)
    BY DEF WordAt
  <2> QED BY <1>7, <1>8, <2>1 DEF SeenWord, LooksBack
<1>10. ins.op = "assert" /\ ins.look \in LookBehind =>
         (LookBehindHolds(ins.look) <=> HoldsAt(ins.look, s, Spot))
  <2>1. CASE ins.op = "assert" /\ ins.look \in LookBehind /\ Pos = 0
    <3>1. Spot = 0
      BY <1>7, <2>1 DEF LooksBack, LookBehind
    <3> QED BY <2>1, <3>1 DEF LookBehindHolds, HoldsAt, LookBehind
  <2>2. CASE ins.op = "assert" /\ ins.look \in LookBehind /\ Pos # 0
    BY <1>8, <2>2 DEF LookBehindHolds, HoldsAt, LookBehind
  <2> QED BY <2>1, <2>2
<1>11. ASSUME Passes(ins)
       PROVE  Steps(prog, s, <<pc, Spot>>) = Range(Follow(ins, pc)) \X {Spot}
  <2>1. ins = prog.code[pc] /\ ins.op \notin Consumers
    BY <1>11 DEF Ins, Passes, Consumers
  <2>2. Steps(prog, s, <<pc, Spot>>)
          = IF Permits(ins, s, Spot) THEN Leads(ins, pc) \X {Spot} ELSE {}
    BY <2>1 DEF Steps
  <2>3. (Permits(ins, s, Spot) => Range(Follow(ins, pc)) = Leads(ins, pc))
        /\ (~Permits(ins, s, Spot) => Range(Follow(ins, pc)) = {})
    <3>1. CASE ins.op = "jmp"
      BY <2>1, <3>1 DEF Permits, Leads, Follow, Range
    <3>2. CASE ins.op = "split"
      <4>1. Follow(ins, pc) = <<ins.x, ins.y>> /\ Leads(ins, pc) = {ins.x, ins.y}
        BY <3>2 DEF Follow, Leads
      <4>2. Permits(ins, s, Spot)
        BY <2>1, <3>2 DEF Permits
      <4> QED BY <4>1, <4>2 DEF Range
    <3>3. CASE ins.op = "save"
      BY <2>1, <3>3 DEF Permits, Leads, Follow, Range
    <3>4. CASE ins.op = "assert"
      <4>1. ins.look \in LookBehind
        BY <1>11, <3>4 DEF Passes
      <4>2. Permits(ins, s, Spot) <=> LookBehindHolds(ins.look)
        BY <1>10, <2>1, <3>4, <4>1 DEF Permits
      <4>3. Follow(ins, pc) = IF LookBehindHolds(ins.look) THEN <<pc + 1>> ELSE <<>>
        BY <3>4 DEF Follow
      <4>4. Leads(ins, pc) = {pc + 1}
        BY <3>4 DEF Leads
      <4> QED BY <4>2, <4>3, <4>4 DEF Range
    <3> QED BY <1>11, <3>1, <3>2, <3>3, <3>4 DEF Passes
  <2> QED BY <2>2, <2>3
<1> QED BY <1>3, <1>5, <1>6, <1>9, <1>11

-----------------------------------------------------------------------------
(* Every step keeps the threads right. *)

\* A thread more.
LEMMA RightMore ==
    ASSUME NEW p, NEW s, NEW n, NEW S, NEW l \in Seq(S), NEW t \in S, AllRight(p, s, l, n),
           ThreadRight(p, s, t, n)
    PROVE  AllRight(p, s, Append(l, t), n)
<1>1. /\ DOMAIN Append(l, t) = 1 .. Len(l) + 1 /\ DOMAIN l = 1 .. Len(l) /\ Len(l) \in Nat
      /\ \A j \in 1 .. Len(l) : Append(l, t)[j] = l[j]
      /\ Append(l, t)[Len(l) + 1] = t
  BY LenProperties
<1>2. ASSUME NEW j \in 1 .. Len(l) + 1 PROVE ThreadRight(p, s, Append(l, t)[j], n)
  <2>1. CASE j \in 1 .. Len(l)
    BY <1>1, <2>1 DEF AllRight
  <2>2. CASE j = Len(l) + 1
    BY <1>1, <2>2
  <2> QED BY <1>1, <2>1, <2>2
<1> QED BY <1>1, <1>2 DEF AllRight

\* No threads are right.
LEMMA NoneRight == \A p, s, n : AllRight(p, s, <<>>, n)
BY DEF AllRight

\* Within a call the contexts do not change, or the tag of the running one does.
LEMMA CallKeeps ==
    ASSUME TypeOK, Real, at # "idle", self' = self, prog' = prog,
           contexts' = contexts \/ \E n \in Int : SetTag(n)
    PROVE  /\ This'.stream = This.stream /\ This'.base = This.base
           /\ ~This'.firstBuf
           /\ \A c \in DOMAIN contexts' : KeptRight(prog, contexts'[c])
<1>1. self \in DOMAIN contexts /\ This \in Contexts /\ ~This.firstBuf
      /\ \A c \in DOMAIN contexts : KeptRight(prog, contexts[c])
  BY ThisType DEF Real, ChunkRight
<1>2. CASE contexts' = contexts
  BY <1>1, <1>2 DEF This
<1>3. ASSUME NEW n \in Int, SetTag(n)
      PROVE  /\ This'.stream = This.stream /\ This'.base = This.base
             /\ ~This'.firstBuf
             /\ \A c \in DOMAIN contexts' : KeptRight(prog, contexts'[c])
  <2> DEFINE k == [This EXCEPT !.tag = n]
  <2>1. /\ This' = k /\ DOMAIN contexts' = DOMAIN contexts
        /\ \A c \in DOMAIN contexts : c # self => contexts'[c] = contexts[c]
    BY <1>3, SetTagEffect
  <2>2. /\ k.stream = This.stream /\ k.base = This.base /\ k.firstBuf = This.firstBuf
        /\ k.threads = This.threads /\ k.out = This.out
    BY <1>1 DEF Contexts
  <2> HIDE DEF k
  <2>3. KeptRight(prog, k)
    BY <1>1, <2>2 DEF KeptRight, This
  <2> QED BY <1>1, <2>1, <2>2, <2>3 DEF This
<1> QED BY <1>2, <1>3

\* A step within a call, from its parts.
LEMMA RealInCall ==
    ASSUME TypeOK, Real, at # "idle", at' # "idle", self' = self, prog' = prog,
           contexts' = contexts \/ \E n \in Int : SetTag(n),
           UNCHANGED <<size, eof>>,
           at' = "seed" => at = "seed",
           at' \in {"seed", "loop", "finish"} \/ sp' = size => nlist' = <<>>,
           at' \in {"threads", "assert"} /\ sp' = size => eof,
           at' = "finish" => clist' = <<>> \/ (sp' = size /\ ~eof),
           WalkRight', at' \notin {"seed", "byte", "assert"} => todo' = <<>>,
           AllRight(prog, This.stream, clist', This.base + sp'),
           AllRight(prog, This.stream, nlist', This.base + sp' + 1)
    PROVE  Real'
<1>1. /\ This'.stream = This.stream /\ This'.base = This.base
      /\ ~This'.firstBuf
      /\ \A c \in DOMAIN contexts' : KeptRight(prog, contexts'[c])
  BY CallKeeps
<1>2. ChunkRight'
  BY <1>1 DEF Real, ChunkRight
<1>3. Front' = This.base + sp'
  BY <1>1 DEF Front
<1> QED BY <1>1, <1>2, <1>3 DEF Real

\* The steps that make no call of add_thread.
LEMMA RealSteps ==
    ASSUME TypeOK, Real,
           LoopEnd \/ LoopStep \/ StepDone \/ ThreadDies \/ Seeded \/ Consumed \/ Asserted
    PROVE  Real'
<1> USE DEF program, exec, lists
<1>1. /\ at # "idle" /\ at' # "idle" /\ self' = self /\ prog' = prog /\ UNCHANGED <<size, eof>>
      /\ at' \notin {"seed", "byte", "assert"} /\ todo' = <<>>
  BY DEF LoopEnd, LoopStep, StepDone, ThreadDies, Seeded, Consumed, Asserted, Waiting, Real
<1>2. contexts' = contexts \/ \E n \in Int : SetTag(n)
  BY <1>1, ThisType, TagType
     DEF LoopEnd, LoopStep, StepDone, ThreadDies, Seeded, Consumed, Asserted
<1>3. /\ This.base \in Nat /\ sp \in Nat /\ size \in Nat /\ sp <= size /\ eof \in BOOLEAN
      /\ at = "byte" => sp < size
  BY <1>1, ThisType DEF TypeOK
<1>4. /\ ChunkRight
      /\ AllRight(prog, This.stream, clist, This.base + sp)
      /\ AllRight(prog, This.stream, nlist, This.base + sp + 1)
  BY <1>1 DEF Real, Front
<1>5. WalkRight'
  BY <1>1 DEF WalkRight, Range
<1>6. CASE LoopEnd
  <2>1. /\ at = "loop" /\ at' = "finish" /\ sp' = sp /\ UNCHANGED <<clist, nlist>>
        /\ ~MoreInput \/ clist = <<>>
    BY <1>6 DEF LoopEnd
  <2>2. ~MoreInput => sp = size /\ ~eof
    BY <1>3 DEF MoreInput
  <2>3. nlist = <<>>
    BY <1>4, <2>1 DEF ChunkRight
  <2> QED BY <1>1, <1>2, <1>4, <1>5, <2>1, <2>2, <2>3, RealInCall
<1>7. CASE LoopStep
  <2>1. /\ at = "loop" /\ at' = "threads" /\ sp' = sp /\ UNCHANGED <<clist, nlist>> /\ MoreInput
    BY <1>7 DEF LoopStep
  <2>2. nlist = <<>> /\ (sp = size => eof)
    BY <1>3, <1>4, <2>1 DEF ChunkRight, MoreInput
  <2> QED BY <1>1, <1>2, <1>4, <1>5, <2>1, <2>2, RealInCall
<1>8. CASE StepDone
  <2>1. at = "threads" /\ clist' = nlist /\ nlist' = <<>>
        /\ IF sp = size THEN at' = "finish" /\ sp' = sp ELSE at' = "loop" /\ sp' = sp + 1
    BY <1>8 DEF StepDone, AtLast
  <2>2. CASE sp = size
    <3>1. nlist = <<>>
      BY <1>4, <2>2 DEF ChunkRight
    <3> QED BY <1>1, <1>2, <1>5, <2>1, <2>2, <3>1, NoneRight, RealInCall
  <2>3. CASE sp # size
    <3>1. at' = "loop" /\ sp' = sp + 1 /\ This.base + sp' = This.base + sp + 1
      BY <1>3, <2>1, <2>3
    <3> QED BY <1>1, <1>2, <1>4, <1>5, <2>1, <3>1, NoneRight, RealInCall
  <2> QED BY <2>2, <2>3
<1>9. CASE ThreadDies \/ Seeded \/ Consumed \/ Asserted
  <2>1. /\ sp' = sp /\ UNCHANGED <<clist, nlist>> /\ at' \in {"loop", "threads"}
        /\ at' = "loop" => at = "seed"
        /\ at' = "threads" => at \in {"threads", "byte", "assert"}
    BY <1>9 DEF ThreadDies, Seeded, Consumed, Asserted, Waiting
  <2>2. /\ at' = "loop" \/ sp' = size => nlist' = <<>>
        /\ at' = "threads" /\ sp' = size => eof
    BY <1>3, <1>4, <2>1 DEF ChunkRight
  <2> QED BY <1>1, <1>2, <1>4, <1>5, <2>1, <2>2, RealInCall
<1> QED BY <1>6, <1>7, <1>8, <1>9

\* A thread that goes on comes to where its place leads.
LEMMA RealCalls ==
    ASSUME TypeOK, SeesBack, Real, ThreadConsumes \/ AssertionHold
    PROVE  Real'
<1> DEFINE pc == clist[i].pc
<1>1. /\ at = "threads" /\ at' \in {"byte", "assert"} /\ todo' = <<pc + 1>>
      /\ UNCHANGED <<self, prog, size, eof, sp, clist, nlist>>
  BY DEF ThreadConsumes, AssertionHold, AddFrom, Waiting, program, exec, lists
<1>2. contexts' = contexts \/ \E n \in Int : SetTag(n)
  BY <1>1, ThisType, TagType DEF ThreadConsumes, AssertionHold
<1>3. /\ ChunkRight /\ i \in DOMAIN clist
      /\ AllRight(prog, This.stream, clist, Front)
      /\ AllRight(prog, This.stream, nlist, Front + 1)
  <2>1. \E ops : Waiting(ops)
    BY DEF ThreadConsumes, AssertionHold
  <2> QED BY <1>1, <2>1, CurrentType, LenProperties DEF Real, TypeOK
<1>4. ThreadRight(prog, This.stream, clist[i], Front)
  BY <1>3 DEF AllRight
<1>5. /\ This.stream \in Seq(Byte) /\ WellFormed(prog)
      /\ This.base \in Nat /\ sp \in Nat /\ size \in Nat /\ sp <= size
      /\ Front = This.base + sp /\ Front + 1 = This.base + sp + 1
  BY <1>1, ChunkBytes DEF Front
<1>6. \A next \in Steps(prog, This.stream, <<pc, Front>>) :
          next \in Reachable(prog, This.stream)
  BY <1>4, <1>5, ReachableLeast DEF ThreadRight
<1>7. This'.stream = This.stream /\ This'.base = This.base
  BY <1>1, <1>2, CallKeeps
<1>8. CASE ThreadConsumes
  <2>1. Waiting(Consumers) /\ CanConsume /\ at' = "byte"
    BY <1>8 DEF ThreadConsumes, Consumers, AddFrom
  <2>2. <<pc + 1, Front + 1>> \in Reachable(prog, This.stream)
    BY <1>3, <1>4, <1>6, <2>1, ThreadSteps
  <2>3. Spot' = Front + 1
    <3>1. Pos' = sp + 1
      BY <1>1, <2>1 DEF Pos
    <3> QED BY <1>5, <1>7, <3>1 DEF Spot
  <2>4. WalkRight'
    BY <1>1, <1>7, <2>1, <2>2, <2>3 DEF WalkRight, Range
  <2>5. sp < size
    BY <2>1 DEF CanConsume
  <2> QED BY <1>1, <1>2, <1>3, <1>5, <2>1, <2>4, <2>5, RealInCall
<1>9. CASE AssertionHold
  <2>1. Waiting({"assert"}) /\ AssertionHolds /\ at' = "assert"
    BY <1>9 DEF AssertionHold, AddFrom
  <2>2. <<pc + 1, Front>> \in Reachable(prog, This.stream)
    BY <1>3, <1>4, <1>6, <2>1, ThreadSteps
  <2>3. Spot' = Front
    BY <1>1, <1>5, <1>7, <2>1 DEF Spot, Pos
  <2>4. This.base # 0 => pc + 1 \in Behind(prog)
    <3> SUFFICES ASSUME This.base # 0 PROVE pc + 1 \in Behind(prog)
      OBVIOUS
    <3>1. NoChains(prog)
      BY <1>3 DEF SeesBack, ChunkRight
    <3>2. pc \in Live(prog) /\ prog.code[pc].op = "assert"
      BY <2>1, CurrentType DEF Ins
    <3>3. LooksAhead(prog.code[pc])
      BY <1>4, <3>2 DEF LooksAhead, ThreadRight, Passes
    <3> QED BY <3>1, <3>2, <3>3, BehindApart DEF Apart
  <2>5. WalkRight'
    BY <1>1, <1>7, <2>2, <2>3, <2>4 DEF WalkRight, Range
  <2>6. /\ sp' = size => nlist' = <<>> /\ eof
    BY <1>1, <1>3 DEF ChunkRight
  <2> QED BY <1>1, <1>2, <1>3, <1>5, <2>1, <2>5, <2>6, RealInCall
<1> QED BY <1>8, <1>9

-----------------------------------------------------------------------------
\* What a list has is its head and what its tail has.
LEMMA RangeHeadTail ==
    ASSUME NEW S, NEW l \in Seq(S), l # <<>>
    PROVE  Range(l) = {Head(l)} \cup Range(Tail(l))
<1>1. /\ Len(l) \in Nat /\ Len(l) # 0 /\ DOMAIN l = 1 .. Len(l) /\ Head(l) = l[1]
      /\ DOMAIN Tail(l) = 1 .. Len(l) - 1
      /\ \A j \in 1 .. Len(l) - 1 : Tail(l)[j] = l[j + 1]
  BY LenProperties
<1>2. ASSUME NEW x \in Range(l) PROVE x \in {Head(l)} \cup Range(Tail(l))
  <2>1. PICK j \in 1 .. Len(l) : x = l[j]
    BY <1>1 DEF Range
  <2>2. CASE j = 1
    BY <1>1, <2>1, <2>2
  <2>3. CASE j # 1
    <3>1. j - 1 \in 1 .. Len(l) - 1 /\ (j - 1) + 1 = j
      BY <1>1, <2>3
    <3>2. x = Tail(l)[j - 1]
      BY <1>1, <2>1, <3>1
    <3> QED BY <1>1, <3>1, <3>2 DEF Range
  <2> QED BY <2>2, <2>3
<1>3. ASSUME NEW x \in Range(Tail(l)) PROVE x \in Range(l)
  <2>1. PICK j \in 1 .. Len(l) - 1 : x = Tail(l)[j]
    BY <1>1 DEF Range
  <2>2. j + 1 \in 1 .. Len(l) /\ x = l[j + 1]
    BY <1>1, <2>1
  <2> QED BY <1>1, <2>2 DEF Range
<1>4. Head(l) \in Range(l)
  <2>1. 1 \in 1 .. Len(l)
    BY <1>1
  <2> QED BY <1>1, <2>1 DEF Range
<1> QED BY <1>2, <1>3, <1>4

\* The walk goes on to where the instruction leads, if anywhere.
LEMMA FollowLeads ==
    ASSUME NEW pc, Passes(Ins(pc))
    PROVE  Range(Follow(Ins(pc), pc)) \subseteq Leads(Ins(pc), pc)
<1>1. CASE Ins(pc).op = "jmp"
  BY <1>1 DEF Follow, Leads, Range
<1>2. CASE Ins(pc).op = "split"
  BY <1>2 DEF Follow, Leads, Range
<1>3. CASE Ins(pc).op \in {"save", "assert"}
  <2>1. Follow(Ins(pc), pc) \in {<<pc + 1>>, <<>>} /\ Leads(Ins(pc), pc) = {pc + 1}
    BY <1>3 DEF Follow, Leads
  <2> QED BY <2>1 DEF Range
<1> QED BY <1>1, <1>2, <1>3 DEF Passes

\* A call of add_thread, from its parts.
LEMMA RealWalk ==
    ASSUME TypeOK, Real, Adding, UNCHANGED <<prog, contexts, at, exec>>,
           \A pc \in Range(todo') : <<pc, Spot>> \in Reachable(prog, This.stream),
           at = "assert" /\ This.base # 0 => Range(todo') \subseteq Behind(prog),
           AllRight(prog, This.stream, clist', Front),
           AllRight(prog, This.stream, nlist', Front + 1),
           at # "byte" => nlist' = nlist
    PROVE  Real'
<1>1. /\ at \in {"seed", "byte", "assert"} /\ at' = at
      /\ UNCHANGED <<self, prog, size, eof, sp, contexts>>
  BY DEF Adding, exec
<1>2. This' = This /\ Pos' = Pos /\ Spot' = Spot
  BY <1>1 DEF This, Pos, Spot
<1>3. WalkRight'
  BY <1>1, <1>2 DEF WalkRight
<1>4. at = "byte" => sp # size
  BY DEF TypeOK
<1>5. ChunkRight
  BY <1>1 DEF Real
<1>6. /\ at' \in {"seed", "loop", "finish"} \/ sp' = size => nlist' = <<>>
      /\ at' \in {"threads", "assert"} /\ sp' = size => eof
  BY <1>1, <1>4, <1>5 DEF ChunkRight
<1> QED BY <1>1, <1>3, <1>6, RealInCall DEF Front

\* The calls of add_thread.
LEMMA RealAdds ==
    ASSUME TypeOK, SeesBack, Real, AddVisited \/ AddPasses \/ AddWaits
    PROVE  Real'
<1> PICK pc, thread : pc = Head(todo) /\ thread = [pc |-> pc, seenWord |-> SeenWord(Ins(pc))]
  OBVIOUS
<1> DEFINE s == This.stream
<1>1. Adding /\ UNCHANGED <<prog, contexts, at, exec>>
  BY DEF AddVisited, AddPasses, AddWaits, program
<1>2. /\ at \in {"seed", "byte", "assert"} /\ at # "idle" /\ pc \in Live(prog)
      /\ Tail(todo) \in Seq(Live(prog))
  BY <1>1, TodoType
<1>3. Range(todo) = {pc} \cup Range(Tail(todo))
  <2>1. todo \in Seq(Live(prog)) /\ todo # <<>>
    BY <1>1 DEF TypeOK, Adding
  <2> QED BY <2>1, RangeHeadTail
<1>4. /\ \A next \in Range(Tail(todo)) : <<next, Spot>> \in Reachable(prog, s)
      /\ at = "assert" /\ This.base # 0 => Range(Tail(todo)) \subseteq Behind(prog)
      /\ AllRight(prog, s, clist, Front) /\ AllRight(prog, s, nlist, Front + 1)
  BY <1>2, <1>3 DEF Real, WalkRight
<1>5. /\ <<pc, Spot>> \in Reachable(prog, s)
      /\ at = "assert" /\ This.base # 0 => pc \in Behind(prog) /\ Apart(prog, Behind(prog))
      /\ Ins(pc).op = "assert" /\ Ins(pc).look \in {"\\b", "\\B"} =>
           (SeenWord(Ins(pc)) <=> WordAt(s, Spot))
      /\ Passes(Ins(pc)) =>
           Steps(prog, s, <<pc, Spot>>) = Range(Follow(Ins(pc), pc)) \X {Spot}
  BY <1>1, WalkSteps
<1>6. CASE AddVisited
  <2>1. todo' = Tail(todo) /\ UNCHANGED <<clist, nlist>>
    BY <1>6 DEF AddVisited, lists
  <2> QED BY <1>1, <1>4, <2>1, RealWalk
<1>7. CASE AddPasses
  <2>1. /\ Passes(Ins(pc)) /\ todo' = Follow(Ins(pc), pc) \o Tail(todo)
        /\ UNCHANGED <<clist, nlist>>
    BY <1>7 DEF AddPasses, lists
  <2>2. Range(todo') = Range(Follow(Ins(pc), pc)) \cup Range(Tail(todo))
    <3>1. Follow(Ins(pc), pc) \in Seq(Live(prog))
      BY <1>2, <2>1, FollowType
    <3> DEFINE onward == Follow(Ins(pc), pc)
               rest == Tail(todo)
    <3>2. onward \in Seq(Live(prog)) /\ rest \in Seq(Live(prog)) /\ todo' = onward \o rest
      BY <1>2, <2>1, <3>1
    <3> HIDE DEF onward, rest
    <3>3. Range(todo') = Range(onward) \cup Range(rest)
      BY <3>2, RangeConcatenation
    <3> QED BY <3>3 DEF onward, rest
  <2>3. ASSUME NEW next \in Range(Follow(Ins(pc), pc))
        PROVE  <<next, Spot>> \in Reachable(prog, s)
    <3>1. <<next, Spot>> \in Steps(prog, s, <<pc, Spot>>)
      BY <1>5, <2>1
    <3>2. s \in Seq(Byte) /\ WellFormed(prog)
      BY <1>2, ChunkBytes
    <3> QED BY <1>5, <3>1, <3>2, ReachableLeast
  <2>4. at = "assert" /\ This.base # 0 => Range(Follow(Ins(pc), pc)) \subseteq Behind(prog)
    BY <1>5, <2>1, FollowLeads DEF Apart, Ins
  <2>5. \A next \in Range(todo') : <<next, Spot>> \in Reachable(prog, s)
    BY <1>4, <2>2, <2>3
  <2>6. at = "assert" /\ This.base # 0 => Range(todo') \subseteq Behind(prog)
    BY <1>4, <2>2, <2>4
  <2> QED BY <1>1, <1>4, <2>1, <2>5, <2>6, RealWalk
<1>8. CASE AddWaits
  <2>1. /\ ~Passes(Ins(pc)) /\ todo' = Tail(todo)
        /\ IF at = "byte"
           THEN nlist' = Append(nlist, thread) /\ UNCHANGED clist
           ELSE clist' = Append(clist, thread) /\ UNCHANGED nlist
    BY <1>8 DEF AddWaits
  <2>2. ThreadRight(prog, s, thread, Spot) /\ thread \in Threads
    <3>1. SeenWord(Ins(pc)) \in BOOLEAN
      BY DEF SeenWord
    <3> QED BY <1>2, <1>5, <2>1, <3>1 DEF ThreadRight, SeenRight, Ins, Threads
  <2>3. clist \in Seq(Threads) /\ nlist \in Seq(Threads)
    BY DEF TypeOK
  <2>4. sp \in Nat /\ This.base \in Nat /\ size \in Nat
    BY <1>2, ChunkBytes
  <2>5. CASE at = "byte"
    <3>1. Spot = Front + 1
      BY <2>4, <2>5 DEF Spot, Front, Pos
    <3>2. AllRight(prog, s, nlist', Front + 1)
      <4> HIDE DEF Threads
      <4> QED BY <1>4, <2>1, <2>2, <2>3, <2>5, <3>1, RightMore
    <3> QED BY <1>1, <1>4, <2>1, <2>5, <3>2, RealWalk
  <2>6. CASE at # "byte"
    <3>1. Spot = Front
      BY <2>6 DEF Spot, Front, Pos
    <3>2. AllRight(prog, s, clist', Front)
      <4> HIDE DEF Threads
      <4> QED BY <1>4, <2>1, <2>2, <2>3, <2>6, <3>1, RightMore
    <3> QED BY <1>1, <1>4, <2>1, <2>6, <3>2, RealWalk
  <2> QED BY <2>5, <2>6
<1> QED BY <1>6, <1>7, <1>8

-----------------------------------------------------------------------------
\* A new context is right, and a call begins with what its context has kept.
LEMMA RealEnter ==
    ASSUME TypeOK, Real, Create \/ Exec
    PROVE  Real'
<1>1. at = "idle" /\ prog' = prog /\ todo = <<>> /\ contexts \in Seq(Contexts)
      /\ \A c \in DOMAIN contexts : KeptRight(prog, contexts[c])
  BY DEF Create, Exec, program, Real, TypeOK
<1>2. CASE Create
  <2>1. PICK k \in Contexts :
          /\ contexts' = Append(contexts, k)
          /\ k.firstBuf /\ k.base = 0 /\ k.threads = <<>> /\ k.out = "none"
    <3>1. PICK s \in Streams :
            contexts' = Append(contexts, [stream |-> s, base |-> 0, out |-> "none",
                                          tag |-> NextTag(progTag), firstBuf |-> TRUE,
                                          threads |-> <<>>])
      BY <1>2 DEF Create
    <3>2. NextTag(progTag) \in Int /\ <<>> \in Seq(Threads)
      BY TagType, EmptySeq DEF TypeOK
    <3> DEFINE new == [stream |-> s, base |-> 0, out |-> "none", tag |-> NextTag(progTag),
                       firstBuf |-> TRUE, threads |-> <<>>]
    <3>3. new \in Contexts
      BY <3>2 DEF Contexts
    <3>4. new.firstBuf /\ new.base = 0 /\ new.threads = <<>> /\ new.out = "none"
      OBVIOUS
    <3>5. contexts' = Append(contexts, new)
      BY <3>1
    <3> HIDE DEF new, Contexts
    <3> QED BY <3>3, <3>4, <3>5
  <2>2. KeptRight(prog, k)
    BY <2>1, NoneRight DEF KeptRight
  <2>3. /\ DOMAIN contexts' = 1 .. Len(contexts) + 1 /\ DOMAIN contexts = 1 .. Len(contexts)
        /\ \A d \in 1 .. Len(contexts) : contexts'[d] = contexts[d]
        /\ contexts'[Len(contexts) + 1] = k
        /\ Len(contexts) \in Nat
    <3> HIDE DEF Contexts
    <3> QED BY <1>1, <2>1, LenProperties
  <2>4. ASSUME NEW c \in DOMAIN contexts' PROVE KeptRight(prog, contexts'[c])
    <3>1. CASE c \in 1 .. Len(contexts)
      BY <1>1, <2>3, <3>1
    <3>2. CASE c = Len(contexts) + 1
      BY <2>2, <2>3, <3>2
    <3> QED BY <2>3, <3>1, <3>2
  <2>5. at' = "idle" /\ todo' = <<>>
    BY <1>1, <1>2 DEF Create
  <2> QED BY <1>1, <2>4, <2>5 DEF Real
<1>3. CASE Exec
  <2>1. PICK c \in DOMAIN contexts :
          /\ InUse(c)
          /\ \E chunk \in Chunks(c) : size' = chunk.size /\ eof' = chunk.eof
          /\ self' = c
          /\ clist' = contexts[c].threads
          /\ at' = IF contexts[c].firstBuf THEN "seed" ELSE "loop"
          /\ todo' = IF contexts[c].firstBuf THEN <<0>> ELSE <<>>
          /\ contexts' = [contexts EXCEPT ![c].firstBuf = FALSE]
    BY <1>3 DEF Exec
  <2>2. sp' = 0 /\ nlist' = <<>>
    BY <1>3 DEF Exec
  <2> DEFINE k == [contexts[c] EXCEPT !.firstBuf = FALSE]
  <2>3. /\ contexts[c] \in Contexts /\ contexts[c].out \in {"none", "AGAIN"}
        /\ KeptRight(prog, contexts[c])
    BY <1>1, <2>1, ElementOfSeq, LenProperties DEF InUse
  <2>4. /\ k \in Contexts /\ k.stream = contexts[c].stream /\ k.base = contexts[c].base
        /\ k.out = contexts[c].out /\ k.threads = contexts[c].threads /\ ~k.firstBuf
    BY <2>3 DEF Contexts
  <2>5. contexts' = [contexts EXCEPT ![c] = k]
    BY <2>1
  <2> HIDE DEF k
  <2>6. KeptRight(prog, k)
    BY <2>3, <2>4 DEF KeptRight
  <2>7. /\ DOMAIN contexts' = DOMAIN contexts /\ contexts'[c] = k
        /\ \A d \in DOMAIN contexts : d # c => contexts'[d] = contexts[d]
    <3> HIDE DEF Contexts
    <3> QED BY <1>1, <2>4, <2>5, ReplacedInSeq
  <2>8. This' = k /\ Front' = k.base + 0 /\ k.base \in Nat /\ k.stream \in Seq(Byte)
    <3>1. k.base \in Nat /\ k.stream \in Seq(Byte)
      BY <2>4, ConstantsAssumption DEF Contexts
    <3> QED BY <2>1, <2>2, <2>7, <3>1 DEF This, Front
  <2>9. AllRight(prog, k.stream, k.threads, k.base)
        /\ ("data" \notin ChunkKinds => k.base = 0)
    BY <2>3, <2>4, <2>6 DEF KeptRight
  <2>10. contexts[c].firstBuf => k.base = 0
    BY <2>3, <2>4 DEF KeptRight
  <2>11. /\ eof' => k.base + size' = Len(k.stream)
         /\ "data" \notin ChunkKinds /\ ~eof' => size' = 0
    <3>1. PICK chunk \in Chunks(c) : size' = chunk.size /\ eof' = chunk.eof
      BY <2>1
    <3>2. chunk.size \in Nat /\ Len(k.stream) \in Nat
      BY <2>8, LenProperties DEF Chunks
    <3>3. chunk.eof => chunk.size = Len(k.stream) - k.base
      BY <2>4 DEF Chunks
    <3>4. "data" \notin ChunkKinds /\ ~chunk.eof => chunk.size = 0
      BY DEF Chunks
    <3> QED BY <2>8, <3>1, <3>2, <3>3, <3>4
  <2>12. ChunkRight'
    BY <2>1, <2>2, <2>4, <2>8, <2>9, <2>10, <2>11 DEF ChunkRight
  <2>13. WalkRight'
    <3>1. CASE contexts[c].firstBuf
      <4>1. at' = "seed" /\ Spot' = 0 /\ todo' = <<0>>
        <5>1. at' = "seed" /\ todo' = <<0>> /\ k.base = 0
          BY <2>1, <2>10, <3>1
        <5>2. Pos' = 0
          BY <2>2, <5>1 DEF Pos
        <5> QED BY <2>8, <5>1, <5>2 DEF Spot
      <4>2. <<0, 0>> \in Reachable(prog, k.stream)
        <5>1. WellFormed(prog)
          BY ConstantsAssumption DEF TypeOK
        <5> QED BY <2>8, <5>1, ReachableLeast
      <4>3. \A pc \in Range(todo)' : <<pc, Spot'>> \in Reachable(prog', This'.stream)
        <5>1. Range(todo)' = {0} /\ prog' = prog
          BY <1>1, <2>1, <4>1 DEF Range
        <5> QED BY <2>8, <4>1, <4>2, <5>1
      <4> QED BY <4>1, <4>3 DEF WalkRight
    <3>2. CASE ~contexts[c].firstBuf
      <4>1. at' = "loop" /\ todo' = <<>>
        BY <2>1, <3>2
      <4> QED BY <4>1 DEF WalkRight, Range
    <3> QED BY <3>1, <3>2
  <2>14. /\ AllRight(prog, k.stream, clist', Front')
         /\ AllRight(prog, k.stream, nlist', Front' + 1)
    <3>1. Front' = k.base /\ clist' = k.threads
      BY <2>1, <2>4, <2>8
    <3> QED BY <2>2, <2>9, <3>1, NoneRight
  <2>15. \A d \in DOMAIN contexts' : KeptRight(prog, contexts'[d])
    BY <1>1, <2>6, <2>7
  <2>16. at' \notin {"seed", "byte", "assert"} => todo' = <<>>
    BY <2>1
  <2> QED BY <1>1, <2>8, <2>12, <2>13, <2>14, <2>15, <2>16 DEF Real
<1> QED BY <1>2, <1>3

\* The end of a call: what it answers, and what the context keeps, is right.
LEMMA RealReturn ==
    ASSUME TypeOK, Real, at # "idle", todo = <<>>,
           NEW code \in {"OK", "AGAIN", "DECLINED"}, NEW threads \in Seq(Threads),
           Return(code, threads),
           code = "OK" => Accepted(prog, This.stream),
           code = "AGAIN" => /\ AllRight(prog, This.stream, threads, This.base + size)
                             /\ "data" \notin ChunkKinds => This.base + size = 0
    PROVE  Real'
<1> DEFINE base == This.base + size
           k == [This EXCEPT !.out = code, !.threads = threads, !.base = base]
<1>1. /\ self \in DOMAIN contexts /\ This \in Contexts /\ contexts \in Seq(Contexts)
      /\ This.base \in Nat /\ size \in Nat /\ ~This.firstBuf
      /\ \A c \in DOMAIN contexts : KeptRight(prog, contexts[c])
  BY ThisType DEF TypeOK, Real, ChunkRight
<1>2. base \in Nat
  BY <1>1
<1>3. /\ k \in Contexts /\ k.out = code /\ k.threads = threads /\ k.base = base
      /\ k.stream = This.stream /\ k.firstBuf = This.firstBuf
  <2> HIDE DEF base
  <2> QED BY <1>1, <1>2 DEF Contexts
<1>4. contexts' = [contexts EXCEPT ![self] = k]
  BY DEF Return, This
<1>5. KeptRight(prog, k)
  <2> HIDE DEF k
  <2> QED BY <1>1, <1>3 DEF KeptRight
<1> HIDE DEF k, base
<1>6. /\ DOMAIN contexts' = DOMAIN contexts /\ contexts'[self] = k
      /\ \A d \in DOMAIN contexts : d # self => contexts'[d] = contexts[d]
  <2> HIDE DEF Contexts
  <2> QED BY <1>1, <1>3, <1>4, ReplacedInSeq
<1>7. at' = "idle" /\ prog' = prog /\ todo' = <<>>
  BY DEF Return
<1> QED BY <1>1, <1>5, <1>6, <1>7 DEF Real

\* The threads that match, and those that are left, are right.
LEMMA RealEnds ==
    ASSUME TypeOK, Real, ThreadMatches \/ Finish
    PROVE  Real'
<1>1. CASE ThreadMatches
  <2>1. Waiting({"match"}) /\ Return("OK", This.threads)
    BY <1>1 DEF ThreadMatches
  <2>2. /\ at = "threads" /\ i \in DOMAIN clist /\ Ins(clist[i].pc).op = "match"
    BY <2>1, CurrentType, LenProperties DEF TypeOK
  <2>3. ThreadRight(prog, This.stream, clist[i], Front)
    BY <2>2 DEF Real, AllRight
  <2>4. Accepted(prog, This.stream)
    <3>1. <<clist[i].pc, Front>> \in Reachable(prog, This.stream)
      BY <2>3 DEF ThreadRight
    <3>2. prog.code[<<clist[i].pc, Front>>[1]].op = "match"
      BY <2>2 DEF Ins
    <3> QED BY <3>1, <3>2 DEF Accepted
  <2>5. This.threads \in Seq(Threads) /\ todo = <<>>
    BY <2>2, ThisType DEF Contexts, Real
  <2> QED BY <2>1, <2>2, <2>4, <2>5, RealReturn
<1>2. CASE Finish
  <2>1. at = "finish" /\ Return(IF eof THEN "DECLINED" ELSE "AGAIN", clist)
    BY <1>2 DEF Finish
  <2>2. /\ ChunkRight /\ AllRight(prog, This.stream, clist, Front) /\ todo = <<>>
        /\ clist \in Seq(Threads)
    BY <2>1 DEF Real, TypeOK
  <2>3. ~eof => /\ AllRight(prog, This.stream, clist, This.base + size)
                /\ "data" \notin ChunkKinds => This.base + size = 0
    <3>1. clist = <<>> \/ Front = This.base + size
      BY <2>1, <2>2 DEF ChunkRight, Front
    <3> QED BY <2>2, <3>1, NoneRight DEF ChunkRight
  <2>4. CASE eof
    BY <2>1, <2>2, <2>4, RealReturn
  <2>5. CASE ~eof
    BY <2>1, <2>2, <2>3, <2>5, RealReturn
  <2> QED BY <2>4, <2>5
<1> QED BY <1>1, <1>2

\* Every step.
LEMMA RealStep == TypeOK /\ (SeesBack => Real) /\ [Next]_vars => (SeesBack => Real)'
<1> SUFFICES ASSUME TypeOK, SeesBack => Real, [Next]_vars, SeesBack'
             PROVE  Real'
  OBVIOUS
<1>1. prog' = prog
  BY DEF Next, Create, Exec, Machine, Loop, LoopEnd, LoopStep, StepDone, Run, ThreadConsumes,
         ThreadDies, AssertionHold, ThreadMatches, AddThread, AddVisited, AddPasses, AddWaits,
         Seeded, Consumed, Asserted, Finish, Return, vars, program
<1>2. SeesBack /\ Real
  BY <1>1 DEF SeesBack
<1>3. CASE UNCHANGED vars
  BY <1>2, <1>3 DEF vars, program, exec, lists, Real, ChunkRight, WalkRight, Front, Spot, Pos,
                    This
<1> QED BY <1>2, <1>3, RealEnter, RealEnds, RealSteps, RealCalls, RealAdds
        DEF Next, Machine, Loop, Run, AddThread

\* At first there is nothing that could be wrong.
LEMMA RealInit == Init => Real
<1> SUFFICES ASSUME Init PROVE Real
  OBVIOUS
<1>1. at = "idle" /\ todo = <<>> /\ DOMAIN contexts = {}
  BY DEF Init
<1> QED BY <1>1 DEF Real

\* sre_vm_thompson_exec returns SRE_OK only for a stream in which the program finds a
\* match, whatever the streams, where their chunks begin, and however many contexts
\* share the tags, wrapped or not.  What the program looks back at must be in the chunk:
\* no look-behind follows a look-ahead without a byte in between, or the streams come
\* whole.
THEOREM MatchesAreFound == Spec => [](SeesBack => MatchesAreReal)
<1>1. TypeOK /\ (SeesBack => Real) => (SeesBack => MatchesAreReal)
  <2> SUFFICES ASSUME TypeOK, Real PROVE MatchesAreReal
    OBVIOUS
  <2>1. ASSUME NEW c \in DOMAIN contexts, contexts[c].out = "OK"
        PROVE  contexts[c].stream \in AcceptedStreams[prog]
    <3>1. contexts[c] \in Contexts /\ prog \in Programs
      BY ElementOfSeq, LenProperties DEF TypeOK
    <3>2. Accepted(prog, contexts[c].stream)
      BY <2>1 DEF Real, KeptRight
    <3> QED BY <3>1, <3>2 DEF AcceptedStreams, Contexts
  <2> QED BY <2>1 DEF MatchesAreReal
<1>2. Init => TypeOK /\ (SeesBack => Real)
  BY InitType, RealInit
<1> QED BY <1>1, <1>2, RealStep, TypeStep, PTL DEF Spec

(***************************************************************************)
(* No match is missed.  There is a set of places that the search has been  *)
(* through: it has the beginning, and where its places lead it has too,    *)
(* but for those whose threads wait and those that add_thread is still to  *)
(* be called with.  A tag that a walk meets is of a place in that set.     *)
(***************************************************************************)
Waits(l, n, from) == {<<l[j].pc, n>> : j \in {k \in DOMAIN l : k >= from}}

Covers(p, s, R, pend, waiting) ==
    /\ <<0, 0>> \in R \cup pend
    /\ \A place \in R :
        \/ place \in waiting
        \/ Steps(p, s, place) \subseteq R \cup pend /\ p.code[place[1]].op # "match"

\* The threads of clist before this one have been run.
FirstLeft ==
    IF at \in {"byte", "assert"} THEN i + 1 ELSE IF at = "threads" THEN i ELSE 1

Left == Waits(clist, Front, FirstLeft) \cup Waits(nlist, Front + 1, 1)

Pend == Range(todo) \X {Spot}

\* What the tags of the last walk, and of that before, say.  Nothing is said of those
\* that a stream without threads leaves.
Tagged(R, tag, n) == \A pc \in Pcs(prog) : marks[pc] = tag => <<pc, n>> \in R

TagsTell(R) ==
    IF at \in {"threads", "byte", "assert"}
    THEN Tagged(R, LastTag, Front + 1) /\ Tagged(R, LastTag - 1, Front)
    ELSE at = "seed" \/ clist # <<>> => Tagged(R, LastTag, Front)

CallWhole(R) == Covers(prog, This.stream, R, Pend, Left) /\ TagsTell(R)

KeptWhole(R) ==
    /\ Covers(prog, Latest.stream, R, {}, Waits(Latest.threads, Latest.base, 1))
    /\ Latest.threads # <<>> => Tagged(R, progTag, Latest.base)

GoesOn == contexts # <<>> /\ Latest.out \in {"none", "AGAIN"} /\ ~Latest.firstBuf

Whole ==
    /\ at # "idle" => \E R : CallWhole(R)
    /\ at = "idle" /\ GoesOn => \E R : KeptWhole(R)
    /\ \A c \in DOMAIN contexts :
        contexts[c].out = "DECLINED" => ~Accepted(prog, contexts[c].stream)

\* The search has been through more, R2: what was to be done is done or still to be done.
LEMMA CoverNext ==
    ASSUME NEW p, NEW s, NEW R, NEW R2, NEW pend, NEW pend2, NEW waiting, NEW waiting2,
           Covers(p, s, R, pend, waiting), R \subseteq R2, pend \subseteq R2 \cup pend2,
           \A place \in (R2 \ R) \cup waiting :
               \/ place \in waiting2
               \/ Steps(p, s, place) \subseteq R2 \cup pend2 /\ p.code[place[1]].op # "match"
    PROVE  Covers(p, s, R2, pend2, waiting2)
BY DEF Covers

\* When nothing waits and nothing is to be done, there is no match.
LEMMA CoverEnds ==
    ASSUME NEW p, WellFormed(p), NEW s \in Seq(Byte), NEW R, Covers(p, s, R, {}, {})
    PROVE  ~Accepted(p, s)
<1>1. <<0, 0>> \in R /\ \A place \in R : Steps(p, s, place) \subseteq R
  BY DEF Covers
<1>2. Reachable(p, s) \subseteq R
  BY <1>1, ReachableLeast
<1> QED BY <1>2 DEF Covers, Accepted

\* The threads that wait: in no list, in one with a thread more, after the first of them.
LEMMA WaitsNone == \A n, from : Waits(<<>>, n, from) = {}
BY DEF Waits

LEMMA WaitsMore ==
    ASSUME NEW S, NEW l \in Seq(S), NEW t \in S, NEW n, NEW from \in Nat, from <= Len(l) + 1
    PROVE  Waits(Append(l, t), n, from) = Waits(l, n, from) \cup {<<t.pc, n>>}
<1>1. /\ DOMAIN Append(l, t) = 1 .. Len(l) + 1 /\ DOMAIN l = 1 .. Len(l) /\ Len(l) \in Nat
      /\ \A j \in 1 .. Len(l) : Append(l, t)[j] = l[j]
      /\ Append(l, t)[Len(l) + 1] = t
  BY LenProperties
<1> DEFINE more == Append(l, t)
<1> HIDE DEF more
<1>2. Waits(more, n, from) \subseteq Waits(l, n, from) \cup {<<t.pc, n>>}
  BY <1>1 DEF Waits, more
<1>3. Waits(l, n, from) \subseteq Waits(more, n, from)
  BY <1>1 DEF Waits, more
<1>4. <<t.pc, n>> \in Waits(more, n, from)
  <2>1. Len(l) + 1 \in {k \in DOMAIN more : k >= from} /\ more[Len(l) + 1] = t
    BY <1>1 DEF more
  <2> QED BY <2>1 DEF Waits
<1> QED BY <1>2, <1>3, <1>4 DEF more

LEMMA WaitsFewer ==
    ASSUME NEW S, NEW l \in Seq(S), NEW n, NEW from \in 1 .. Len(l)
    PROVE  Waits(l, n, from) \subseteq Waits(l, n, from + 1) \cup {<<l[from].pc, n>>}
<1>1. ASSUME NEW j \in DOMAIN l, j >= from
      PROVE  <<l[j].pc, n>> \in Waits(l, n, from + 1) \cup {<<l[from].pc, n>>}
  <2>1. j \in 1 .. Len(l) /\ Len(l) \in Nat
    BY LenProperties
  <2>2. CASE j >= from + 1
    BY <2>2 DEF Waits
  <2>3. CASE ~ (j >= from + 1)
    <3>1. j = from
      BY <1>1, <2>1, <2>3
    <3> QED BY <3>1
  <2> QED BY <2>2, <2>3
<1> QED BY <1>1 DEF Waits

\* A tag that has not been given yet says nothing.
LEMMA TaggedLater ==
    ASSUME TypeOK, FreshTags, NEW R, NEW n, NEW tag \in Int, tag > LastTag
    PROVE  Tagged(R, tag, n)
<1>1. \A pc \in Pcs(prog) : marks[pc] \in Int /\ marks[pc] <= LastTag /\ LastTag \in Int
  BY DEF TypeOK, FreshTags
<1> QED BY <1>1 DEF Tagged

-----------------------------------------------------------------------------
\* Within a call nothing that was answered changes, nor the streams.
LEMMA CallSame ==
    ASSUME TypeOK, at # "idle", self' = self,
           contexts' = contexts \/ \E n \in Int : SetTag(n)
    PROVE  /\ This'.stream = This.stream /\ This'.base = This.base
           /\ \A c \in DOMAIN contexts' :
                /\ c \in DOMAIN contexts
                /\ contexts'[c].out = contexts[c].out
                /\ contexts'[c].stream = contexts[c].stream
<1>1. self \in DOMAIN contexts /\ This \in Contexts
  BY ThisType
<1>2. CASE contexts' = contexts
  BY <1>1, <1>2 DEF This
<1>3. ASSUME NEW n \in Int, SetTag(n)
      PROVE  /\ This'.stream = This.stream /\ This'.base = This.base
             /\ \A c \in DOMAIN contexts' :
                  /\ c \in DOMAIN contexts
                  /\ contexts'[c].out = contexts[c].out
                  /\ contexts'[c].stream = contexts[c].stream
  <2> DEFINE k == [This EXCEPT !.tag = n]
  <2>1. /\ This' = k /\ DOMAIN contexts' = DOMAIN contexts
        /\ \A c \in DOMAIN contexts : c # self => contexts'[c] = contexts[c]
    BY <1>3, SetTagEffect
  <2>2. k.stream = This.stream /\ k.base = This.base /\ k.out = This.out
    BY <1>1 DEF Contexts
  <2> HIDE DEF k
  <2> QED BY <1>1, <2>1, <2>2 DEF This
<1> QED BY <1>2, <1>3

\* A step within a call, from its parts.
LEMMA WholeInCall ==
    ASSUME TypeOK, Whole, at # "idle", at' # "idle", self' = self, prog' = prog,
           contexts' = contexts \/ \E n \in Int : SetTag(n),
           NEW R, Covers(prog, This.stream, R, Pend', Left'), TagsTell(R)'
    PROVE  Whole'
<1>1. /\ This'.stream = This.stream
      /\ \A c \in DOMAIN contexts' :
           /\ c \in DOMAIN contexts
           /\ contexts'[c].out = contexts[c].out /\ contexts'[c].stream = contexts[c].stream
  BY CallSame
<1>2. CallWhole(R)'
  BY <1>1 DEF CallWhole
<1> QED BY <1>1, <1>2 DEF Whole

\* The tags tell the same after a step that marks nothing and stays at its byte.
LEMMA TagsStay ==
    ASSUME NEW R, TagsTell(R), prog' = prog, marks' = marks, LastTag' = LastTag,
           Front' = Front,
           \/ at \in {"threads", "byte", "assert"} /\ at' \in {"threads", "byte", "assert"}
           \/ at \in {"seed", "loop"} /\ at' \in {"loop", "finish"} /\ clist' = clist
    PROVE  TagsTell(R)'
BY DEF TagsTell, Tagged

\* The steps of the loop.
LEMMA WholeLoop ==
    ASSUME TypeOK, FreshTags, TagsDoNotWrap, Real, Whole, Loop
    PROVE  Whole'
<1> USE DEF program, exec, lists
<1>1. /\ at \in {"loop", "threads"} /\ at' \in {"loop", "threads", "finish"}
      /\ at # "idle" /\ at' # "idle"
      /\ self' = self /\ prog' = prog /\ marks' = marks /\ todo' = todo /\ todo = <<>>
  BY DEF Loop, LoopEnd, LoopStep, StepDone, AtLast, Real
<1>2. contexts' = contexts \/ \E n \in Int : SetTag(n)
  BY <1>1, ThisType, TagType DEF Loop, LoopEnd, LoopStep, StepDone
<1>3. /\ This'.stream = This.stream /\ This'.base = This.base /\ Front \in Nat /\ sp \in Nat
      /\ This.base \in Nat
  BY <1>1, <1>2, CallSame, ChunkBytes
<1>4. PICK R : CallWhole(R)
  BY <1>1 DEF Whole
<1>5. Covers(prog, This.stream, R, {}, Left) /\ TagsTell(R) /\ Pend' = {}
  BY <1>1, <1>4 DEF CallWhole, Pend, Range
<1>6. CASE LoopEnd
  <2>1. /\ at = "loop" /\ at' = "finish" /\ UNCHANGED <<sp, clist, nlist, contexts>>
    BY <1>6 DEF LoopEnd
  <2>2. Front' = Front /\ LastTag' = LastTag /\ Left' = Left
    BY <1>1, <2>1 DEF Front, This, LastTag, Left, FirstLeft
  <2>3. TagsTell(R)'
    BY <1>1, <1>5, <2>1, <2>2, TagsStay
  <2> QED BY <1>1, <1>2, <1>5, <2>2, <2>3, WholeInCall
<1>7. CASE LoopStep
  <2>1. /\ at = "loop" /\ at' = "threads" /\ UNCHANGED <<sp, clist, nlist>> /\ i' = 1
        /\ clist # <<>>
    BY <1>7 DEF LoopStep
  <2>2. LastTag' = LastTag + 1 /\ LastTag \in Nat
    BY <1>7, CallTag DEF FreshTags
  <2>3. Front' = Front /\ Left' = Left
    BY <1>3, <2>1 DEF Front, Left, FirstLeft
  <2>4. Tagged(R, LastTag, Front)
    BY <1>5, <2>1 DEF TagsTell
  <2>5. Tagged(R, LastTag + 1, Front + 1)
    BY <2>2, TaggedLater
  <2>6. TagsTell(R)'
    <3>1. LastTag' - 1 = LastTag
      BY <2>2
    <3> QED BY <1>1, <2>1, <2>2, <2>3, <2>4, <2>5, <3>1 DEF TagsTell, Tagged
  <2> QED BY <1>1, <1>2, <1>5, <2>3, <2>6, WholeInCall
<1>8. CASE StepDone
  <2>1. /\ at = "threads" /\ i > Len(clist) /\ clist' = nlist /\ nlist' = <<>>
        /\ contexts' = contexts
        /\ IF sp = size THEN at' = "finish" /\ sp' = sp ELSE at' = "loop" /\ sp' = sp + 1
    BY <1>8 DEF StepDone, AtLast
  <2>2. Waits(clist, Front, FirstLeft) = {}
    <3>1. FirstLeft = i /\ DOMAIN clist = 1 .. Len(clist) /\ Len(clist) \in Nat /\ i \in Nat
      BY <2>1, LenProperties DEF FirstLeft, TypeOK
    <3> QED BY <2>1, <3>1 DEF Waits
  <2>3. /\ Left = Waits(nlist, Front + 1, 1)
        /\ Left' = Waits(nlist, Front', 1)
    <3>1. FirstLeft' = 1
      BY <2>1 DEF FirstLeft
    <3> QED BY <2>1, <2>2, <3>1, WaitsNone DEF Left
  <2>4. Tagged(R, LastTag, Front + 1) /\ LastTag' = LastTag
    BY <1>1, <1>5, <2>1 DEF TagsTell, LastTag, This
  <2>5. CASE sp = size
    <3>1. nlist = <<>>
      BY <2>1, <2>5 DEF Real, ChunkRight
    <3>2. Left' = Left /\ clist' = <<>> /\ at' = "finish"
      BY <2>1, <2>3, <2>5, <3>1, WaitsNone
    <3>3. TagsTell(R)'
      BY <3>2 DEF TagsTell
    <3> QED BY <1>1, <1>2, <1>5, <3>2, <3>3, WholeInCall
  <2>6. CASE sp # size
    <3>1. Front' = Front + 1 /\ at' = "loop"
      <4>1. at' = "loop" /\ sp' = sp + 1
        BY <2>1, <2>6
      <4> QED BY <1>3, <4>1 DEF Front
    <3>2. TagsTell(R)'
      BY <1>1, <2>4, <3>1 DEF TagsTell, Tagged
    <3> QED BY <1>1, <1>2, <1>5, <2>3, <3>1, <3>2, WholeInCall
  <2> QED BY <2>5, <2>6
<1> QED BY <1>6, <1>7, <1>8 DEF Loop

\* A thread is run: it dies, or add_thread is called with what it leads to.
LEMMA WholeRun ==
    ASSUME TypeOK, FreshTags, TagsDoNotWrap, Real, Whole,
           ThreadDies \/ ThreadConsumes \/ AssertionHold
    PROVE  Whole'
<1> USE DEF program, exec, lists
<1> PICK pc : pc = clist[i].pc
  OBVIOUS
<1> DEFINE s == This.stream
<1>1. /\ at = "threads" /\ at' \in {"threads", "byte", "assert"} /\ at' # "idle"
      /\ UNCHANGED <<self, prog, marks, sp, clist, nlist>>
  BY DEF ThreadDies, ThreadConsumes, AssertionHold, AddFrom, Waiting
<1>2. contexts' = contexts \/ \E n \in Int : SetTag(n)
  BY <1>1, ThisType, TagType DEF ThreadDies, ThreadConsumes, AssertionHold
<1>3. /\ This'.stream = This.stream /\ This'.base = This.base /\ Front' = Front
      /\ sp \in Nat /\ This.base \in Nat /\ Front \in Nat
  BY <1>1, <1>2, CallSame, ChunkBytes DEF Front
<1>4. \/ Waiting(Consumers) /\ CanConsume /\ at' = "byte" /\ i' = i /\ todo' = <<pc + 1>>
      \/ Waiting({"assert"}) /\ AssertionHolds /\ at' = "assert" /\ i' = i /\ todo' = <<pc + 1>>
      \/ Waiting(Consumers) /\ ~CanConsume /\ at' = "threads" /\ i' = i + 1 /\ todo' = todo
      \/ Waiting({"assert"}) /\ ~AssertionHolds /\ at' = "threads" /\ i' = i + 1 /\ todo' = todo
  BY <1>1 DEF ThreadDies, ThreadConsumes, AssertionHold, AddFrom, Consumers, NextThread
<1>5. \E ops : Waiting(ops) /\ "match" \notin ops
  BY <1>4 DEF Consumers
<1>6. i \in 1 .. Len(clist) /\ i \in DOMAIN clist /\ clist \in Seq(Threads)
      /\ Ins(pc).op # "match" /\ i + 1 \in Nat
  <2>1. clist \in Seq(Threads) /\ i \in Nat
    BY DEF TypeOK
  <2> QED BY <1>5, <2>1, CurrentType, LenProperties
<1>7. ChunkRight /\ ThreadRight(prog, s, clist[i], Front) /\ todo = <<>>
  BY <1>1, <1>6 DEF Real, AllRight
<1>8. Steps(prog, s, <<pc, Front>>) \subseteq Pend'
  <2>1. /\ Waiting(Consumers) =>
             Steps(prog, s, <<pc, Front>>) = IF CanConsume THEN {<<pc + 1, Front + 1>>} ELSE {}
        /\ Waiting({"assert"}) =>
             Steps(prog, s, <<pc, Front>>) = IF AssertionHolds THEN {<<pc + 1, Front>>} ELSE {}
    BY <1>7, ThreadSteps
  <2>2. at' = "byte" => Spot' = Front + 1
    <3> SUFFICES ASSUME at' = "byte" PROVE Spot' = Front + 1
      OBVIOUS
    <3>1. Pos' = sp + 1
      BY <1>1 DEF Pos
    <3> QED BY <1>3, <3>1 DEF Spot, Front
  <2>3. at' = "assert" => Spot' = Front
    BY <1>1, <1>3 DEF Spot, Front, Pos
  <2>4. todo' = <<pc + 1>> => Pend' = {<<pc + 1, Spot'>>}
    BY DEF Pend, Range
  <2> QED BY <1>4, <2>1, <2>2, <2>3, <2>4
<1>9. Left \subseteq Left' \cup {<<pc, Front>>}
  <2>1. FirstLeft = i /\ FirstLeft' = i + 1
    BY <1>1, <1>4 DEF FirstLeft
  <2>2. Waits(clist, Front, i) \subseteq Waits(clist, Front, i + 1) \cup {<<pc, Front>>}
    <3> HIDE DEF Threads
    <3> QED BY <1>6, WaitsFewer
  <2>3. Left' = Waits(clist, Front, i + 1) \cup Waits(nlist, Front + 1, 1)
    BY <1>1, <1>3, <2>1 DEF Left
  <2> QED BY <2>1, <2>2, <2>3 DEF Left
<1>10. PICK R : CallWhole(R)
  BY <1>1 DEF Whole
<1>11. Covers(prog, s, R, {}, Left) /\ TagsTell(R)
  BY <1>7, <1>10 DEF CallWhole, Pend, Range
<1>12. Covers(prog, s, R, Pend', Left')
  <2>1. PICK pend, left : pend = Pend' /\ left = Left'
    OBVIOUS
  <2>2. \A place \in (R \ R) \cup Left :
          \/ place \in left
          \/ Steps(prog, s, place) \subseteq R \cup pend /\ prog.code[place[1]].op # "match"
    BY <1>6, <1>8, <1>9, <2>1 DEF Ins
  <2>3. Covers(prog, s, R, pend, left)
    <3> HIDE DEF s
    <3> QED BY <1>11, <2>2, CoverNext
  <2> QED BY <2>1, <2>3
<1>13. TagsTell(R)'
  <2>1. LastTag' = LastTag
    <3>1. CASE AssertionHold
      BY <3>1, CallTag
    <3>2. CASE ThreadDies \/ ThreadConsumes
      <4>1. contexts' = contexts /\ at' \in {"threads", "byte"}
        BY <1>1, <3>2 DEF ThreadDies, ThreadConsumes, AddFrom
      <4> QED BY <1>1, <4>1 DEF LastTag, This
    <3> QED BY <3>1, <3>2
  <2> QED BY <1>1, <1>3, <1>11, <2>1, TagsStay
<1> QED BY <1>1, <1>2, <1>12, <1>13, WholeInCall

-----------------------------------------------------------------------------
\* add_thread returns to where it was called.
LEMMA WholeWalked ==
    ASSUME TypeOK, FreshTags, TagsDoNotWrap, Real, Whole, Seeded \/ Consumed \/ Asserted
    PROVE  Whole'
<1> USE DEF program, exec, lists
<1>1. /\ at # "idle" /\ at' # "idle" /\ todo = <<>> /\ todo' = <<>>
      /\ UNCHANGED <<self, prog, marks, sp, clist, nlist>>
      /\ \/ at = "seed" /\ at' = "loop"
         \/ at \in {"byte", "assert"} /\ at' = "threads" /\ i' = i + 1
  BY DEF Seeded, Consumed, Asserted, NextThread
<1>2. contexts' = contexts \/ \E n \in Int : SetTag(n)
  BY <1>1, ThisType, TagType DEF Seeded, Consumed, Asserted
<1>3. This'.stream = This.stream /\ This'.base = This.base /\ Front' = Front
  BY <1>1, <1>2, CallSame DEF Front
<1>4. PICK R : CallWhole(R)
  BY <1>1 DEF Whole
<1>5. Covers(prog, This.stream, R, {}, Left) /\ TagsTell(R) /\ Pend' = {}
  <2>1. Range(<<>>) = {}
    BY DEF Range
  <2>2. Pend = {} /\ Pend' = {}
    BY <1>1, <2>1 DEF Pend
  <2> QED BY <1>4, <2>2 DEF CallWhole
<1>6. Left' = Left
  BY <1>1, <1>3 DEF Left, FirstLeft
<1>7. LastTag' = LastTag
  <2>1. CASE Asserted
    BY <2>1, CallTag
  <2>2. CASE Seeded \/ Consumed
    <3>1. contexts' = contexts /\ at \in {"seed", "byte"} /\ at' \in {"loop", "threads"}
      BY <2>2 DEF Seeded, Consumed
    <3> QED BY <1>1, <3>1 DEF LastTag, This
  <2> QED BY <2>1, <2>2
<1>8. TagsTell(R)'
  BY <1>1, <1>3, <1>5, <1>7, TagsStay
<1> QED BY <1>1, <1>2, <1>5, <1>6, <1>8, WholeInCall

\* What a walk has come to with its tag is where it is.
LEMMA TagHere ==
    ASSUME TypeOK, FreshTags, Adding, NEW R, TagsTell(R)
    PROVE  Tagged(R, This.tag, Spot)
<1>1. at \in {"seed", "byte", "assert"} /\ This.tag \in Int
  BY TodoType, ThisType DEF Adding
<1>2. sp \in Nat /\ This.base \in Nat
  BY <1>1, ChunkBytes
<1>3. CASE at = "byte"
  BY <1>2, <1>3 DEF TagsTell, LastTag, Spot, Front, Pos
<1>4. CASE at = "seed"
  BY <1>2, <1>4 DEF TagsTell, LastTag, Spot, Front, Pos
<1>5. CASE at = "assert"
  <2>1. LastTag - 1 = This.tag /\ Spot = Front
    BY <1>1, <1>5 DEF LastTag, Spot, Front, Pos
  <2> QED BY <1>5, <2>1 DEF TagsTell
<1> QED BY <1>1, <1>3, <1>4, <1>5

\* A visit tells of its place.
LEMMA TagMore ==
    ASSUME TypeOK, Adding, UNCHANGED <<prog, contexts, at, exec>>, NEW pc \in Pcs(prog),
           marks' = [marks EXCEPT ![pc] = This.tag], NEW R, TagsTell(R), NEW R2,
           R \subseteq R2, <<pc, Spot>> \in R2
    PROVE  TagsTell(R2)'
<1>1. at \in {"seed", "byte", "assert"} /\ This.tag \in Int /\ This' = This /\ at' = at
  BY TodoType, ThisType DEF Adding, exec, This
<1>2. sp \in Nat /\ This.base \in Nat /\ Front \in Nat
  BY <1>1, ChunkBytes
<1>3. Front' = Front /\ LastTag' = LastTag
  BY <1>1 DEF Front, LastTag, exec
<1>4. marks'[pc] = This.tag /\ \A q \in Pcs(prog) : q # pc => marks'[q] = marks[q]
  BY DEF TypeOK
<1>5. CASE at = "byte"
  <2>1. LastTag = This.tag /\ Spot = Front + 1 /\ LastTag # LastTag - 1
    BY <1>1, <1>2, <1>5 DEF LastTag, Spot, Front, Pos
  <2> QED BY <1>1, <1>3, <1>4, <1>5, <2>1 DEF TagsTell, Tagged
<1>6. CASE at = "assert"
  <2>1. LastTag - 1 = This.tag /\ Spot = Front /\ This.tag # LastTag
    BY <1>1, <1>6 DEF LastTag, Spot, Front, Pos
  <2> QED BY <1>1, <1>3, <1>4, <1>6, <2>1 DEF TagsTell, Tagged
<1>7. CASE at = "seed"
  <2>1. LastTag = This.tag /\ Spot = Front
    BY <1>7 DEF LastTag, Spot, Front, Pos
  <2> QED BY <1>1, <1>3, <1>4, <1>7, <2>1 DEF TagsTell, Tagged
<1> QED BY <1>1, <1>5, <1>6, <1>7

\* The calls of add_thread.
LEMMA WholeAdds ==
    ASSUME TypeOK, FreshTags, SeesBack, Real, Whole, AddVisited \/ AddPasses \/ AddWaits
    PROVE  Whole'
<1> PICK pc, spot, s, thread, rest :
        /\ pc = Head(todo) /\ spot = Spot /\ s = This.stream
        /\ rest = Range(Tail(todo)) \X {Spot}
        /\ thread = [pc |-> pc, seenWord |-> SeenWord(Ins(pc))]
  OBVIOUS
<1>1. Adding /\ UNCHANGED <<prog, contexts, at, exec, i>>
  BY DEF AddVisited, AddPasses, AddWaits, program, lists
<1>2. /\ at \in {"seed", "byte", "assert"} /\ at # "idle" /\ at' # "idle"
      /\ pc \in Live(prog) /\ pc \in Pcs(prog)
      /\ Tail(todo) \in Seq(Live(prog))
      /\ self' = self /\ sp' = sp
  BY <1>1, TodoType DEF exec
<1>3. /\ This' = This /\ Spot' = spot /\ Front' = Front /\ LastTag' = LastTag
      /\ FirstLeft' = FirstLeft
  BY <1>1, <1>2 DEF This, Spot, Pos, Front, LastTag, FirstLeft
<1>4. PICK R : CallWhole(R)
  BY <1>2 DEF Whole
<1>5. Covers(prog, s, R, {<<pc, spot>>} \cup rest, Left) /\ TagsTell(R)
  <2>1. Range(todo) = {pc} \cup Range(Tail(todo))
    <3>1. todo \in Seq(Live(prog)) /\ todo # <<>>
      BY <1>1 DEF TypeOK, Adding
    <3> QED BY <3>1, RangeHeadTail
  <2>2. Pend = {<<pc, spot>>} \cup rest
    BY <2>1 DEF Pend
  <2> QED BY <1>4, <2>2 DEF CallWhole
<1>6. Passes(Ins(pc)) => Steps(prog, s, <<pc, spot>>) = Range(Follow(Ins(pc), pc)) \X {spot}
  BY <1>1, WalkSteps
<1> PICK R2 : R2 = R \cup {<<pc, spot>>}
  OBVIOUS
<1>7. CASE AddVisited
  <2>1. marks[pc] = This.tag /\ todo' = Tail(todo) /\ UNCHANGED <<marks, clist, nlist>>
    BY <1>7 DEF AddVisited, program, lists
  <2>2. <<pc, spot>> \in R
    <3>1. Tagged(R, This.tag, Spot)
      BY <1>1, <1>5, TagHere
    <3> QED BY <1>2, <2>1, <3>1 DEF Tagged
  <2>3. Pend' = rest /\ Left' = Left
    BY <1>3, <2>1 DEF Pend, Left
  <2>4. Covers(prog, s, R, rest, Left)
    BY <1>5, <2>2 DEF Covers
  <2>5. TagsTell(R)'
    BY <1>1, <1>3, <1>5, <2>1 DEF TagsTell, Tagged
  <2> QED BY <1>1, <1>2, <2>3, <2>4, <2>5, WholeInCall
<1>8. CASE AddPasses
  <2>1. /\ Passes(Ins(pc)) /\ Mark(pc) /\ todo' = Follow(Ins(pc), pc) \o Tail(todo)
        /\ UNCHANGED <<clist, nlist>>
    BY <1>8 DEF AddPasses, lists
  <2>2. Pend' = Steps(prog, s, <<pc, spot>>) \cup rest
    <3> DEFINE onward == Follow(Ins(pc), pc)
               tail == Tail(todo)
    <3>1. onward \in Seq(Live(prog)) /\ tail \in Seq(Live(prog)) /\ todo' = onward \o tail
      BY <1>2, <2>1, FollowType
    <3> HIDE DEF onward, tail
    <3>2. Range(todo') = Range(onward) \cup Range(tail)
      BY <3>1, RangeConcatenation
    <3>3. Pend' = (Range(onward) \X {spot}) \cup (Range(tail) \X {spot})
      BY <1>3, <3>2 DEF Pend
    <3> QED BY <1>6, <2>1, <3>3 DEF onward, tail
  <2>3. Left' = Left
    BY <1>3, <2>1 DEF Left
  <2>4. Covers(prog, s, R2, Steps(prog, s, <<pc, spot>>) \cup rest, Left)
    <3>1. prog.code[<<pc, spot>>[1]].op # "match"
      BY <2>1 DEF Passes, Ins
    <3>2. \A place \in (R2 \ R) \cup Left :
            \/ place \in Left
            \/ /\ Steps(prog, s, place)
                     \subseteq R2 \cup (Steps(prog, s, <<pc, spot>>) \cup rest)
               /\ prog.code[place[1]].op # "match"
      BY <3>1
    <3> QED BY <1>5, <3>2, CoverNext
  <2>5. TagsTell(R2)'
    BY <1>1, <1>2, <1>5, <2>1, TagMore DEF Mark
  <2> QED BY <1>1, <1>2, <2>2, <2>3, <2>4, <2>5, WholeInCall
<1>9. CASE AddWaits
  <2>1. /\ Mark(pc) /\ todo' = Tail(todo)
        /\ IF at = "byte"
           THEN nlist' = Append(nlist, thread) /\ UNCHANGED clist
           ELSE clist' = Append(clist, thread) /\ UNCHANGED nlist
    BY <1>9 DEF AddWaits
  <2>2. Pend' = rest
    BY <1>3, <2>1 DEF Pend
  <2>3. thread \in Threads /\ thread.pc = pc /\ clist \in Seq(Threads) /\ nlist \in Seq(Threads)
        /\ Len(clist) \in Nat /\ Len(nlist) \in Nat
    <3>1. SeenWord(Ins(pc)) \in BOOLEAN
      BY DEF SeenWord
    <3>2. clist \in Seq(Threads) /\ nlist \in Seq(Threads)
      BY DEF TypeOK
    <3> QED BY <1>2, <3>1, <3>2, LenProperties DEF Threads
  <2>4. sp \in Nat /\ This.base \in Nat
    BY <1>2, ChunkBytes
  <2>5. Left' = Left \cup {<<pc, spot>>}
    <3>1. ASSUME NEW l \in Seq(Threads), NEW n, NEW from \in Nat, from <= Len(l) + 1
          PROVE  Waits(Append(l, thread), n, from) = Waits(l, n, from) \cup {<<pc, n>>}
      <4> HIDE DEF Threads
      <4>1. Waits(Append(l, thread), n, from) = Waits(l, n, from) \cup {<<thread.pc, n>>}
        BY <2>3, <3>1, WaitsMore
      <4> QED BY <2>3, <4>1
    <3>2. CASE at = "byte"
      <4>1. spot = Front + 1
        BY <2>4, <3>2 DEF Spot, Front, Pos
      <4>2. Waits(nlist', Front + 1, 1) = Waits(nlist, Front + 1, 1) \cup {<<pc, Front + 1>>}
        <5>1. 1 \in Nat /\ 1 <= Len(nlist) + 1
          BY <2>3
        <5>2. nlist' = Append(nlist, thread)
          BY <2>1, <3>2
        <5> HIDE DEF Threads
        <5> QED BY <2>3, <3>1, <5>1, <5>2
      <4> QED BY <1>3, <2>1, <3>2, <4>1, <4>2 DEF Left
    <3>3. CASE at # "byte"
      <4>1. spot = Front
        BY <3>3 DEF Spot, Front, Pos
      <4>2. FirstLeft \in Nat /\ FirstLeft <= Len(clist) + 1
        BY <1>2, <2>3, <3>3 DEF FirstLeft, TypeOK
      <4>3. Waits(clist', Front, FirstLeft)
              = Waits(clist, Front, FirstLeft) \cup {<<pc, Front>>}
        <5>1. clist' = Append(clist, thread)
          BY <2>1, <3>3
        <5> HIDE DEF Threads
        <5> QED BY <2>3, <3>1, <4>2, <5>1
      <4> QED BY <1>3, <2>1, <3>3, <4>1, <4>3 DEF Left
    <3> QED BY <3>2, <3>3
  <2>6. Covers(prog, s, R2, rest, Left \cup {<<pc, spot>>})
    <3>1. PICK left, left2 : left = Left /\ left2 = Left \cup {<<pc, spot>>}
      OBVIOUS
    <3>2. \A place \in (R2 \ R) \cup left :
            \/ place \in left2
            \/ Steps(prog, s, place) \subseteq R2 \cup rest /\ prog.code[place[1]].op # "match"
      BY <3>1
    <3>3. {<<pc, spot>>} \cup rest \subseteq R2 \cup rest
      OBVIOUS
    <3>4. Covers(prog, s, R2, rest, left2)
      BY <1>5, <3>1, <3>2, <3>3, CoverNext
    <3> QED BY <3>1, <3>4
  <2>7. TagsTell(R2)'
    BY <1>1, <1>2, <1>5, <2>1, TagMore DEF Mark
  <2> QED BY <1>1, <1>2, <2>2, <2>5, <2>6, <2>7, WholeInCall
<1> QED BY <1>7, <1>8, <1>9

-----------------------------------------------------------------------------
\* A new stream has been nowhere, another one goes on where it was.
LEMMA WholeEnter ==
    ASSUME TypeOK, FreshTags, ~Together, Real, Whole, Create \/ Exec
    PROVE  Whole'
<1>1. /\ at = "idle" /\ UNCHANGED <<prog, marks, progTag>> /\ contexts \in Seq(Contexts)
      /\ LastTag = progTag /\ progTag \in Nat
  BY DEF Create, Exec, program, TypeOK, FreshTags, LastTag
<1>2. CASE Create
  <2>1. PICK k :
          contexts' = Append(contexts, k) /\ k.firstBuf /\ k.out = "none"
    <3>1. PICK s \in Streams :
            contexts' = Append(contexts, [stream |-> s, base |-> 0, out |-> "none",
                                          tag |-> NextTag(progTag), firstBuf |-> TRUE,
                                          threads |-> <<>>])
      BY <1>2 DEF Create
    <3> DEFINE new == [stream |-> s, base |-> 0, out |-> "none", tag |-> NextTag(progTag),
                       firstBuf |-> TRUE, threads |-> <<>>]
    <3>2. new.firstBuf /\ new.out = "none" /\ contexts' = Append(contexts, new)
      BY <3>1
    <3> HIDE DEF new
    <3> QED BY <3>2
  <2>2. /\ Len(contexts') = Len(contexts) + 1
        /\ DOMAIN contexts' = 1 .. Len(contexts) + 1 /\ DOMAIN contexts = 1 .. Len(contexts)
        /\ \A d \in 1 .. Len(contexts) : contexts'[d] = contexts[d]
        /\ contexts'[Len(contexts) + 1] = k
        /\ Len(contexts) \in Nat
    <3> HIDE DEF Contexts
    <3> QED BY <1>1, <2>1, LenProperties
  <2>3. Latest'.firstBuf /\ at' = "idle"
    BY <1>1, <1>2, <2>1, <2>2 DEF Latest, Create
  <2>4. ASSUME NEW c \in DOMAIN contexts', contexts'[c].out = "DECLINED"
        PROVE  ~Accepted(prog, contexts'[c].stream)
    <3>1. c \in 1 .. Len(contexts)
      BY <2>1, <2>2, <2>4
    <3> QED BY <2>2, <2>4, <3>1 DEF Whole
  <2> QED BY <1>1, <2>3, <2>4 DEF Whole, GoesOn
<1>3. CASE Exec
  <2>1. PICK c \in DOMAIN contexts :
          /\ InUse(c) /\ self' = c
          /\ clist' = contexts[c].threads
          /\ at' = IF contexts[c].firstBuf THEN "seed" ELSE "loop"
          /\ todo' = IF contexts[c].firstBuf THEN <<0>> ELSE <<>>
          /\ contexts' = [contexts EXCEPT ![c].firstBuf = FALSE]
    BY <1>3 DEF Exec
  <2>2. sp' = 0 /\ nlist' = <<>>
    BY <1>3 DEF Exec
  <2>3. /\ c = Len(contexts) /\ contexts[c] = Latest /\ contexts # <<>>
        /\ Latest \in Contexts /\ Latest.out \in {"none", "AGAIN"}
    BY <1>1, <2>1, ElementOfSeq, LenProperties, EmptySeq DEF InUse, Latest
  <2> DEFINE k == [Latest EXCEPT !.firstBuf = FALSE]
  <2>4. /\ k \in Contexts /\ k.stream = Latest.stream /\ k.base = Latest.base
        /\ k.out = Latest.out /\ k.tag = Latest.tag /\ k.threads = Latest.threads
    BY <2>3 DEF Contexts
  <2>5. contexts' = [contexts EXCEPT ![c] = k]
    BY <2>1, <2>3
  <2> HIDE DEF k
  <2>6. /\ DOMAIN contexts' = DOMAIN contexts /\ contexts'[c] = k
        /\ \A d \in DOMAIN contexts : d # c => contexts'[d] = contexts[d]
    <3> HIDE DEF Contexts
    <3> QED BY <1>1, <2>4, <2>5, ReplacedInSeq
  <2>7. ASSUME NEW d \in DOMAIN contexts', contexts'[d].out = "DECLINED"
        PROVE  ~Accepted(prog, contexts'[d].stream)
    <3>1. d # c
      BY <2>3, <2>4, <2>6, <2>7
    <3> QED BY <2>6, <2>7, <3>1 DEF Whole
  <2>8. This' = k /\ k.base \in Nat /\ Front' = k.base
    <3>1. k.base \in Nat /\ k.base + 0 = k.base
      BY <2>4 DEF Contexts
    <3> QED BY <2>1, <2>2, <2>6, <3>1 DEF This, Front
  <2>9. LastTag' = Latest.tag
    BY <2>1, <2>4, <2>8 DEF LastTag
  <2>10. Left' = Waits(Latest.threads, Latest.base, 1)
    <3>1. FirstLeft' = 1
      BY <2>1 DEF FirstLeft
    <3> QED BY <2>1, <2>2, <2>3, <2>4, <2>8, <3>1, WaitsNone DEF Left
  <2>11. at' # "idle" /\ (at' = "seed" <=> contexts[c].firstBuf) /\ at' \in {"seed", "loop"}
    BY <2>1
  <2>12. \E R : CallWhole(R)'
    <3>1. CASE contexts[c].firstBuf
      <4>1. Pend' = {<<0, 0>>}
        <5>1. todo' = <<0>> /\ Range(<<0>>) = {0}
          BY <2>1, <3>1 DEF Range
        <5>2. Spot' = 0
          <6>1. This'.base = 0 /\ Pos' = 0
            <7>1. Latest.base = 0
              BY <2>3, <3>1 DEF Real, KeptRight
            <7> QED BY <2>2, <2>4, <2>8, <2>11, <3>1, <7>1 DEF Pos
          <6> QED BY <6>1 DEF Spot
        <5> QED BY <5>1, <5>2 DEF Pend
      <4>2. Latest.tag = progTag + 1
        BY <1>1, <2>3, <3>1 DEF FreshTags
      <4>3. Covers(prog', This'.stream, {}, Pend', Left')
        BY <4>1 DEF Covers
      <4>4. TagsTell({})'
        <5>1. Tagged({}, Latest.tag, Latest.base)
          BY <1>1, <4>2, TaggedLater
        <5> QED BY <1>1, <2>4, <2>8, <2>9, <2>11, <3>1, <5>1 DEF TagsTell, Tagged
      <4> QED BY <4>3, <4>4 DEF CallWhole
    <3>2. CASE ~contexts[c].firstBuf
      <4>1. PICK R : KeptWhole(R)
        BY <1>1, <2>3, <3>2 DEF Whole, GoesOn
      <4>2. Pend' = {} /\ at' = "loop"
        <5>1. todo' = <<>> /\ Range(<<>>) = {}
          BY <2>1, <3>2 DEF Range
        <5> QED BY <2>1, <3>2, <5>1 DEF Pend
      <4>3. Covers(prog', This'.stream, R, Pend', Left')
        BY <1>1, <2>4, <2>8, <2>10, <4>1, <4>2 DEF KeptWhole
      <4>4. Latest.tag = progTag
        BY <1>1, <2>3, <3>2 DEF FreshTags
      <4>5. TagsTell(R)'
        BY <1>1, <2>1, <2>3, <2>4, <2>8, <2>9, <4>1, <4>2, <4>4 DEF KeptWhole, TagsTell, Tagged
      <4> QED BY <4>3, <4>5 DEF CallWhole
    <3> QED BY <3>1, <3>2
  <2> QED BY <1>1, <2>7, <2>11, <2>12 DEF Whole
<1> QED BY <1>2, <1>3

\* The end of a call: if the stream is declined it has no match, and if it goes on the
\* context keeps what waits.
LEMMA WholeReturn ==
    ASSUME TypeOK, FreshTags, Whole, at # "idle",
           NEW code \in {"OK", "AGAIN", "DECLINED"}, NEW threads \in Seq(Threads),
           Return(code, threads),
           code = "DECLINED" => ~Accepted(prog, This.stream),
           code = "AGAIN" =>
               \E R : /\ Covers(prog, This.stream, R, {}, Waits(threads, This.base + size, 1))
                      /\ threads # <<>> => Tagged(R, progTag', This.base + size)
    PROVE  Whole'
<1> DEFINE base == This.base + size
           k == [This EXCEPT !.out = code, !.threads = threads, !.base = base]
<1>1. /\ self \in DOMAIN contexts /\ This \in Contexts /\ contexts \in Seq(Contexts)
      /\ This.base \in Nat /\ size \in Nat /\ self = Len(contexts)
  BY ThisType DEF TypeOK, FreshTags
<1>2. base \in Nat
  BY <1>1
<1>3. /\ k \in Contexts /\ k.out = code /\ k.threads = threads /\ k.base = base
      /\ k.stream = This.stream
  <2> HIDE DEF base
  <2> QED BY <1>1, <1>2 DEF Contexts
<1>4. contexts' = [contexts EXCEPT ![self] = k]
  BY DEF Return, This
<1>5. code = "AGAIN" =>
        \E R : /\ Covers(prog, This.stream, R, {}, Waits(threads, base, 1))
               /\ threads # <<>> => Tagged(R, progTag', base)
  OBVIOUS
<1> HIDE DEF k, base
<1>6. /\ DOMAIN contexts' = DOMAIN contexts /\ contexts'[self] = k
      /\ Len(contexts') = Len(contexts)
      /\ \A d \in DOMAIN contexts : d # self => contexts'[d] = contexts[d]
  <2> HIDE DEF Contexts
  <2> QED BY <1>1, <1>3, <1>4, ReplacedInSeq
<1>7. at' = "idle" /\ prog' = prog /\ marks' = marks
  BY DEF Return
<1>8. Latest' = k
  BY <1>1, <1>6 DEF Latest
<1>9. GoesOn' => \E R : KeptWhole(R)'
  <2> SUFFICES ASSUME GoesOn' PROVE \E R : KeptWhole(R)'
    OBVIOUS
  <2>1. code = "AGAIN"
    BY <1>3, <1>8 DEF GoesOn
  <2>2. PICK R : /\ Covers(prog, This.stream, R, {}, Waits(threads, base, 1))
                 /\ threads # <<>> => Tagged(R, progTag', base)
    BY <1>5, <2>1
  <2>3. KeptWhole(R)'
    BY <1>3, <1>7, <1>8, <2>2 DEF KeptWhole, Tagged
  <2> QED BY <2>3
<1>10. \A d \in DOMAIN contexts' :
         contexts'[d].out = "DECLINED" => ~Accepted(prog, contexts'[d].stream)
  BY <1>1, <1>3, <1>6 DEF Whole
<1> QED BY <1>7, <1>9, <1>10 DEF Whole

\* The last threads.
LEMMA WholeEnds ==
    ASSUME TypeOK, FreshTags, Real, Whole, ThreadMatches \/ Finish
    PROVE  Whole'
<1>1. CASE ThreadMatches
  <2>1. at = "threads" /\ Return("OK", This.threads)
    BY <1>1 DEF ThreadMatches, Waiting
  <2>2. This.threads \in Seq(Threads)
    BY <2>1, ThisType DEF Contexts
  <2> QED BY <2>1, <2>2, WholeReturn
<1>2. CASE Finish
  <2>1. /\ at = "finish" /\ progTag' = This.tag
        /\ Return(IF eof THEN "DECLINED" ELSE "AGAIN", clist)
    BY <1>2 DEF Finish, SaveTag
  <2>2. /\ ChunkRight /\ todo = <<>> /\ nlist = <<>> /\ clist \in Seq(Threads)
    BY <2>1 DEF Real, ChunkRight, TypeOK
  <2>3. clist = <<>> \/ Front = This.base + size
    BY <2>1, <2>2 DEF ChunkRight, Front
  <2>4. PICK R : CallWhole(R)
    BY <2>1 DEF Whole
  <2>5. Covers(prog, This.stream, R, {}, Waits(clist, Front, 1))
    <3>1. Pend = {}
      BY <2>2 DEF Pend, Range
    <3>2. Left = Waits(clist, Front, 1)
      BY <2>1, <2>2, WaitsNone DEF Left, FirstLeft
    <3> QED BY <2>4, <3>1, <3>2 DEF CallWhole
  <2>6. CASE eof
    <3>1. clist = <<>>
      BY <2>1, <2>2, <2>6 DEF ChunkRight
    <3>2. ~Accepted(prog, This.stream)
      <4>1. Covers(prog, This.stream, R, {}, {})
        BY <2>5, <3>1, WaitsNone
      <4>2. This.stream \in Seq(Byte) /\ WellFormed(prog)
        BY <2>1, ChunkBytes
      <4> QED BY <4>1, <4>2, CoverEnds
    <3> QED BY <2>1, <2>2, <2>6, <3>2, WholeReturn
  <2>7. CASE ~eof
    <3>1. Covers(prog, This.stream, R, {}, Waits(clist, This.base + size, 1))
      BY <2>3, <2>5, WaitsNone
    <3>2. clist # <<>> => Tagged(R, progTag', This.base + size)
      <4>1. clist # <<>> => Tagged(R, LastTag, Front)
        BY <2>1, <2>4 DEF CallWhole, TagsTell
      <4>2. LastTag = This.tag
        BY <2>1 DEF LastTag
      <4> QED BY <2>1, <2>3, <4>1, <4>2
    <3> QED BY <2>1, <2>2, <2>7, <3>1, <3>2, WholeReturn
  <2> QED BY <2>6, <2>7
<1> QED BY <1>1, <1>2

\* Every step.
LEMMA WholeStep ==
    ~Together /\ TypeOK /\ FreshTags /\ (SeesBack => Real /\ Whole) /\ TagsDoNotWrap
      /\ [Next]_vars => (SeesBack => Whole)'
<1> SUFFICES ASSUME ~Together, TypeOK, FreshTags, SeesBack => Real /\ Whole, TagsDoNotWrap,
                    [Next]_vars, SeesBack'
             PROVE  Whole'
  OBVIOUS
<1>1. prog' = prog
  BY DEF Next, Create, Exec, Machine, Loop, LoopEnd, LoopStep, StepDone, Run, ThreadConsumes,
         ThreadDies, AssertionHold, ThreadMatches, AddThread, AddVisited, AddPasses, AddWaits,
         Seeded, Consumed, Asserted, Finish, Return, vars, program
<1>2. SeesBack /\ Real /\ Whole
  BY <1>1 DEF SeesBack
<1>3. CASE UNCHANGED vars
  <2>1. UNCHANGED <<prog, marks, progTag, contexts, at, self, sp, size, eof, i, clist, nlist,
                    todo>>
    BY <1>3 DEF vars, program, exec, lists
  <2>2. /\ This' = This /\ Pend' = Pend /\ Left' = Left /\ Latest' = Latest
        /\ LastTag' = LastTag /\ Front' = Front
    BY <2>1 DEF This, Pend, Spot, Pos, Left, FirstLeft, Front, Latest, LastTag
  <2>3. /\ \A R : CallWhole(R)' <=> CallWhole(R)
        /\ \A R : KeptWhole(R)' <=> KeptWhole(R)
        /\ GoesOn' <=> GoesOn
    BY <2>1, <2>2 DEF CallWhole, KeptWhole, TagsTell, Tagged, GoesOn
  <2> QED BY <1>2, <2>1, <2>3 DEF Whole
<1> QED BY <1>2, <1>3, WholeEnter, WholeEnds, WholeLoop, WholeRun, WholeWalked, WholeAdds
        DEF Next, Machine, Loop, Run, AddThread

\* At first nothing has been answered.
LEMMA WholeInit == Init => Whole
<1> SUFFICES ASSUME Init PROVE Whole
  OBVIOUS
<1>1. at = "idle" /\ contexts = <<>> /\ DOMAIN contexts = {}
  BY DEF Init
<1> QED BY <1>1 DEF Whole, GoesOn

\* sre_vm_thompson_exec returns SRE_DECLINED only for a stream in which the program finds
\* no match, wherever its chunks begin: what the tags cut short has been searched, and no
\* thread is lost between two bytes or two chunks.  The tags must not have wrapped, the
\* caller must feed the newest context only, and what the program looks back at must be
\* in the chunk.
THEOREM MatchesAreNotMissed ==
    ~Together /\ Spec /\ []TagsDoNotWrap => [](SeesBack => NoMatchIsMissed)
<1> DEFINE Inv == TypeOK /\ FreshTags /\ (SeesBack => Real /\ Whole)
<1> SUFFICES ASSUME ~Together
             PROVE  Spec /\ []TagsDoNotWrap => [](SeesBack => NoMatchIsMissed)
  OBVIOUS
<1>1. Inv => (SeesBack => NoMatchIsMissed)
  <2> SUFFICES ASSUME TypeOK, Whole PROVE NoMatchIsMissed
    OBVIOUS
  <2>1. ASSUME NEW c \in DOMAIN contexts, contexts[c].out = "DECLINED"
        PROVE  contexts[c].stream \notin AcceptedStreams[prog]
    <3>1. ~Accepted(prog, contexts[c].stream)
      BY <2>1 DEF Whole
    <3>2. prog \in Programs
      BY DEF TypeOK
    <3> QED BY <3>1, <3>2 DEF AcceptedStreams
  <2> QED BY <2>1 DEF NoMatchIsMissed
<1>2. Init => Inv
  BY InitType, FreshInit, RealInit, WholeInit
<1>3. Inv /\ TagsDoNotWrap /\ [Next]_vars => Inv'
  BY TypeStep, FreshStep, RealStep, WholeStep
<1> HIDE DEF Inv
<1> QED BY <1>1, <1>2, <1>3, PTL DEF Spec
=============================================================================
