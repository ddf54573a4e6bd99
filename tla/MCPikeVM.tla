------------------------------ MODULE MCPikeVM ------------------------------
(***************************************************************************)
(* Instances of PikeVM for TLC: programs compiled from small regexes, all  *)
(* streams up to a length, and the properties that compare a run with the  *)
(* reference semantics of Regex.                                           *)
(***************************************************************************)
EXTENDS PikeVM, Samples

\* The match of the reference semantics, laid out as sre_vm_pike_exec does: the
\* slots of the regex that matches come first.
Found(p, s, i) ==
    LET m == RC!Search(Sources[p], p.slots, s, i)
        o == p.offset[m.id + 1]
        n == 2 * (p.ncaps[m.id + 1] + 1)
    IN  IF m.id = -1 THEN m
        ELSE [m EXCEPT !.v = [k \in DOMAIN m.v |-> IF k < n THEN m.v[o + k] ELSE -1]]

Table == [p \in Programs |-> [s \in Streams |-> [i \in 0 .. MaxLen + 1 |-> Found(p, s, i)]]]

Best(p, s, i) == Table[p][s][i]

Matcher == INSTANCE StreamMatcher

\* Streaming matching is matching: whatever the chunks, every call returns what
\* StreamMatcher allows it to, so that the matches, their regexes and all their
\* groups are those of a backtracking search of the whole stream.
MatchesReference == Matcher!Spec

LooksForWords(p) ==
    \E i \in Pcs(p) : p.code[i].op = "assert" /\ p.code[i].look \in {"\\b", "\\B"}

\* A search after a match that looks for word boundaries goes by the look-behind
\* context an earlier search has left, which may be stale.
KnowsContext == from = 0 \/ ~LooksForWords(prog)

\* The same step by step, for the searches that know their context.
StreamingMatches == [][KnowsContext => Matcher!Next \/ UNCHANGED Matcher!vars]_vars

\* What the caller may discard after SRE_AGAIN: every byte before the least start
\* in ovector or pending_matched.  A match found later begins no earlier.
DiscardIsSafe ==
    out.rc = "AGAIN" /\ at = "idle" /\ KnowsContext =>
        LET best == Best(prog, stream, from)
            kept == {k \in {ovector[0]} \cup Range(out.pend) : k >= 0}
        IN  best.id >= 0 => best.v[0] >= base \/ \E k \in kept : k <= best.v[0]

\* "No pathological regexes exist": a step costs no more than the program is long,
\* because no list has more threads than the program has instructions.
ListsAreBounded ==
    \A l \in {clist, nlist} : Len(l.ids) <= Cardinality(Pcs(prog))
=============================================================================
