---------------------------- MODULE StreamMatcher ----------------------------
(***************************************************************************)
(* What sre_vm_pike_exec promises its caller (README.markdown, "Pike VM"): *)
(* whatever the chunks a stream is cut into, a call returns the match of   *)
(* the whole stream, SRE_AGAIN if there may be more input, or, at the end  *)
(* of the stream only, SRE_DECLINED when there is no match.                *)
(*                                                                         *)
(* Best(prog, stream, from) is the match of a search from position "from", *)
(* a record of the regex id (-1 if there is none) and the ovector.         *)
(***************************************************************************)
EXTENDS Integers, Sequences

CONSTANTS Programs, Streams, Best(_, _, _)

VARIABLES prog, stream, base, from, out, ovector

vars == <<prog, stream, base, from, out, ovector>>

Outcome(rc, id, pend) == [rc |-> rc, id |-> id, pend |-> pend]

Init ==
    /\ prog \in Programs /\ stream \in Streams
    /\ base = 0 /\ from = 0
    /\ out = Outcome("none", -1, <<>>)
    /\ ovector = [i \in 0 .. prog.slots - 1 |-> -1]

\* n more bytes are fed, and no more will come if e.
Chunk(n, e) == base + n <= Len(stream) /\ (e => base + n = Len(stream))

\* The match, once all of it has been fed.  The caller goes on at its end, and
\* the next match is another one even when this one is empty.
Match(n) ==
    LET best == Best(prog, stream, from)
    IN  /\ best.id >= 0
        /\ best.v[1] <= base + n
        /\ out' = Outcome("MATCH", best.id, <<>>)
        /\ ovector' = best.v
        /\ base' = best.v[1]
        /\ from' = IF best.v[0] = best.v[1] THEN best.v[1] + 1 ELSE best.v[1]

\* A provisional ovector and pending match are all that SRE_AGAIN says.
Again(n, e) ==
    /\ ~e
    /\ base' = base + n
    /\ out'.rc = "AGAIN" /\ out'.id = -1
    /\ UNCHANGED from

Declined(e) ==
    /\ e
    /\ Best(prog, stream, from).id = -1
    /\ out' = Outcome("DECLINED", -1, <<>>)
    /\ UNCHANGED <<base, from, ovector>>

\* Out of memory, or a call after the end of the stream.
Error ==
    /\ out' = Outcome("ERROR", -1, <<>>)
    /\ UNCHANGED <<base, from, ovector>>

Next ==
    /\ out.rc # "ERROR"
    /\ \/ out.rc = "DECLINED" /\ Error
       \/ /\ out.rc # "DECLINED"
          /\ \E n \in 0 .. Len(stream), e \in BOOLEAN :
                /\ Chunk(n, e)
                /\ Match(n) \/ Again(n, e) \/ Declined(e) \/ Error
    /\ UNCHANGED <<prog, stream>>

Spec == Init /\ [][Next]_vars
=============================================================================
