------------------------------ MODULE JITImage -------------------------------
(***************************************************************************)
(* The paths that the Just-in-Time compiler of the Thompson VM makes code  *)
(* of (sre_vm_thompson_x64.dasc and the .h generated from it).  A path is  *)
(* what one byte leads to: from an instruction that consumes it, or from   *)
(* the start of the program, to the states that wait for the next byte,    *)
(* each with the assertions on the way to it.                              *)
(***************************************************************************)
EXTENDS Acceptance

\* SRE_REGEX_ASSERT_LOOKAHEAD and SRE_REGEX_ASSERT_WORD_BOUNDARY
LookAhead     == {"\\z", "$", "\\B", "\\b"}
WordBoundary  == {"\\B", "\\b"}

\* sre_vm_thompson_state_t
State(pc, asserts) == [pc |-> pc, asserts |-> asserts]

\* sre_vm_thompson_jit_gen_thread_index: look-behinds are settled with the byte, the
\* others make another thread.
ThreadIndex(state) == <<state.pc, state.asserts \cap LookAhead>>

\* A match without look-ahead ends the run and is no thread.
IsThread(code, state) ==
    code[state.pc].op # "match" \/ state.asserts \cap LookAhead # {}

(***************************************************************************)
(* What is compiled of a program: the code, the path of each pc that has   *)
(* one, the thread indexes that several states share (dup_thread_ids) and  *)
(* how many there are of all thread indexes (uniq).  The indexes of dups   *)
(* have a bit each in the register ADDED.                                  *)
(***************************************************************************)
RegisterBits == 64

Image(code, paths, dups, uniq) ==
    [code |-> code, paths |-> paths, dups |-> dups, uniq |-> uniq]

\* Where the paths have a state that a thread waits in, and the index of that thread.
ThreadPlaces(code, paths) ==
    {place \in UNION {{pc} \X DOMAIN paths[pc] : pc \in DOMAIN paths} :
        IsThread(code, paths[place[1]][place[2]])}

IndexAt(paths, place) == ThreadIndex(paths[place[1]][place[2]])

Indexes(code, paths) == {IndexAt(paths, place) : place \in ThreadPlaces(code, paths)}

\* Where the walk of a path begins: behind the instruction that consumes the byte.
Start(pc) == IF pc = 0 THEN 0 ELSE pc + 1

Looks(image) == {image.code[pc].look : pc \in DOMAIN image.code}

\* What one instruction of a walk between two bytes leads to: a pc, with the assertions
\* met so far.
Onward(code, way) ==
    LET ins == code[way[1]]
        met == IF ins.op = "assert" THEN way[2] \cup {ins.look} ELSE way[2]
    IN  IF ins.op \in Consumers THEN {} ELSE Leads(ins, way[1]) \X {met}

\* All there is between a byte that pc consumes and the next one: each pc, with each set
\* of assertions that a way to it meets.
Ways(image, pc) ==
    Closure(<<Start(pc), {}>>,
            [way \in Live(image) \X SUBSET Looks(image) |-> Onward(image.code, way)])

\* What a path says of a state is so: one way there meets just its assertions.
TruePaths(image) ==
    \A pc \in DOMAIN image.paths : \A k \in DOMAIN image.paths[pc] :
        <<image.paths[pc][k].pc, image.paths[pc][k].asserts>> \in Ways(image, pc)

\* A path is not empty, sees an instruction once, and leads to states that have a path
\* or match.  Every thread index is counted, and one that two states share is in dups.
WellFormedImage(image) ==
    /\ WellFormedCode(image) /\ image.code[0].op \notin Consumers
    /\ TruePaths(image)
    /\ 0 \in DOMAIN image.paths /\ DOMAIN image.paths \subseteq DOMAIN image.code
    /\ \A pc \in DOMAIN image.paths :
        /\ pc = 0 \/ image.code[pc].op \in Consumers
        /\ image.paths[pc] \in
               Seq([pc : DOMAIN image.code, asserts : SUBSET Assertions]) \ {<<>>}
        /\ \A k \in DOMAIN image.paths[pc] :
            LET to == image.paths[pc][k].pc
            IN  \/ image.code[to].op = "match"
                \/ image.code[to].op \in Consumers /\ to \in DOMAIN image.paths
        /\ \A k, n \in DOMAIN image.paths[pc] :
            image.paths[pc][k].pc = image.paths[pc][n].pc => k = n
    /\ IsFiniteSet(image.dups) /\ Cardinality(image.dups) <= RegisterBits
    /\ \A p, q \in ThreadPlaces(image.code, image.paths) :
        IndexAt(image.paths, p) = IndexAt(image.paths, q)
            => p = q \/ IndexAt(image.paths, p) \in image.dups
    /\ IsFiniteSet(Indexes(image.code, image.paths))
    /\ image.uniq = Cardinality(Indexes(image.code, image.paths))

\* A path has a state for each way to a byte or a match, with no assertion that the way
\* does not meet.  A walk that visits an instruction once may leave the easier way out.
WholePaths(image) ==
    \A pc \in DOMAIN image.paths : \A way \in Ways(image, pc) :
        image.code[way[1]].op \in Consumers \cup {"match"} =>
            \E k \in DOMAIN image.paths[pc] :
                /\ image.paths[pc][k].pc = way[1]
                /\ image.paths[pc][k].asserts \subseteq way[2]

\* Some state asks for all of these assertions at once.
Asks(image, looks) ==
    \E pc \in DOMAIN image.paths : \E k \in DOMAIN image.paths[pc] :
        looks \subseteq image.paths[pc][k].asserts

\* A pc that threads of two indexes wait at has its path run twice in a step, when both
\* are there: what that path adds must have bits.
RepeatsHaveBits(image) ==
    \A p, q, r \in ThreadPlaces(image.code, image.paths) :
        LET pc == image.paths[p[1]][p[2]].pc
        IN  /\ pc = image.paths[q[1]][q[2]].pc /\ pc = r[1]
            /\ IndexAt(image.paths, p) # IndexAt(image.paths, q)
            => IndexAt(image.paths, r) \in image.dups
=============================================================================
