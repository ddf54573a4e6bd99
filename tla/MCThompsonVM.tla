---------------------------- MODULE MCThompsonVM ----------------------------
(***************************************************************************)
(* Instances of ThompsonVM for TLC, and the property that compares its     *)
(* answers with the reference semantics of Regex.                          *)
(***************************************************************************)
EXTENDS ThompsonVM, Samples

Table == [p \in Programs |-> [s \in Streams |->
             RC!Search(Sources[p], p.slots, s, 0).id >= 0]]

IsMatched(p, s) == Table[p][s]

\* Whatever the chunks, SRE_OK means that the stream has a match and SRE_DECLINED that
\* it has none.
AnswersAreRight ==
    \A c \in DOMAIN contexts :
        /\ contexts[c].out = "OK" => IsMatched(prog, contexts[c].stream)
        /\ contexts[c].out = "DECLINED" => ~IsMatched(prog, contexts[c].stream)
=============================================================================
