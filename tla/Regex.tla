------------------------------- MODULE Regex --------------------------------
(***************************************************************************)
(* The regexes of sregex as syntax trees (sre_regex.h), the tree that      *)
(* sre_regex_parse_multi assembles from them, and what they match by       *)
(* backtracking: the meaning the virtual machines have to agree with.      *)
(* RECURSIVE operators: for model checking only.                           *)
(***************************************************************************)
EXTENDS RegexTree, SequencesExt

CONSTANTS WordByte, Newline

Leaves == {"nil", "dot", "lit", "class", "nclass", "assert"}

RECURSIVE NumCaptures(_)
NumCaptures(r) ==
    CASE r.type \in Leaves         -> 0
      [] r.type \in {"cat", "alt"} -> NumCaptures(r.left) + NumCaptures(r.right)
      [] r.type = "paren"          -> 1 + NumCaptures(r.left)
      [] OTHER                     -> NumCaptures(r.left)

\* multi_ncaps, and the group number that is $0 of each regex.
MultiNcaps(regexes) == [i \in DOMAIN regexes |-> NumCaptures(regexes[i])]

RECURSIVE FirstGroup(_, _)
FirstGroup(regexes, i) ==
    IF i = 1 THEN 0 ELSE FirstGroup(regexes, i - 1) + NumCaptures(regexes[i - 1]) + 1

\* sre_regex_parse_multi: .*? and then the alternatives, each with its $0.
Branch(regexes, i) ==
    Toplevel(i - 1, Paren(FirstGroup(regexes, i), regexes[i]))

RECURSIVE Branches(_, _)
Branches(regexes, i) ==
    IF i = 1 THEN Branch(regexes, 1)
             ELSE Alt(Branches(regexes, i - 1), Branch(regexes, i))

Assemble(regexes) ==
    Cat(Star(Dot, FALSE), Branches(regexes, Len(regexes)))

-----------------------------------------------------------------------------
(* Reference semantics of README.markdown, "Syntax Supported". *)

WordAt(s, i) == i \in 1 .. Len(s) /\ s[i] \in WordByte

\* Whether an assertion holds between the first i bytes of s and the rest.
Holds(a, s, i) ==
    CASE a = "\\A" -> i = 0
      [] a = "\\z" -> i = Len(s)
      [] a = "^"   -> i = 0 \/ s[i] = Newline
      [] a = "$"   -> i = Len(s) \/ s[i + 1] = Newline
      [] a = "\\b" -> WordAt(s, i) # WordAt(s, i + 1)
      [] a = "\\B" -> WordAt(s, i) = WordAt(s, i + 1)

Eats(r, b) ==
    CASE r.type = "lit"    -> b = r.ch
      [] r.type = "class"  -> b \in r.range
      [] r.type = "nclass" -> b \notin r.range
      [] r.type = "dot"    -> TRUE

\* r between min and max times, where -1 is no limit: what counts stand for.
Times(l, min, max, g) ==
    [type |-> "times", left |-> l, min |-> min, max |-> max, greedy |-> g]

\* The ways a backtracker matches r in s from a state [pos, v], best first: v maps
\* slots to positions, and slot -1, if it is there, is the regex.  An iteration that
\* matches nothing ends a loop.
RECURSIVE Ways(_, _, _)
Ways(r, s, st) ==
    LET Then(states, q) == FlattenSeq([k \in DOMAIN states |-> Ways(q, s, states[k])])
        Order(more, none) == IF r.greedy THEN more \o none ELSE none \o more
        Again(states, rest) ==
            FlattenSeq([k \in DOMAIN states |->
                           IF states[k].pos = st.pos
                           THEN <<states[k]>>
                           ELSE Ways(rest, s, states[k])])
        star == [r EXCEPT !.type = "star"]
        Set(state, slot) == [state EXCEPT !.v[slot] = state.pos]
    IN  CASE r.type = "nil"    -> <<st>>
          [] r.type = "assert" -> IF Holds(r.assertion, s, st.pos) THEN <<st>> ELSE <<>>
          [] r.type = "cat"    -> Then(Ways(r.left, s, st), r.right)
          [] r.type = "alt"    -> Ways(r.left, s, st) \o Ways(r.right, s, st)
          [] r.type = "quest"  -> Order(Ways(r.left, s, st), <<st>>)
          [] r.type = "star"   -> Order(Again(Ways(r.left, s, st), star), <<st>>)
          [] r.type = "plus"   -> Again(Ways(r.left, s, st), star)
          [] r.type = "times"  ->
                LET rest == [r EXCEPT !.min = Greatest(@ - 1, 0),
                                      !.max = IF @ = -1 THEN -1 ELSE @ - 1]
                IN  IF r.max = 0 THEN <<st>>
                    ELSE IF r.min > 0 THEN Then(Ways(r.left, s, st), rest)
                    ELSE Order(Again(Ways(r.left, s, st), rest), <<st>>)
          [] r.type = "toplevel" ->
                LET inner == Ways(r.left, s, st)
                IN  [k \in DOMAIN inner |-> [inner[k] EXCEPT !.v[-1] = r.regex_id]]
          [] r.type = "paren"  ->
                LET inner == Ways(r.left, s, Set(st, 2 * r.group))
                IN  [k \in DOMAIN inner |-> Set(inner[k], 2 * r.group + 1)]
          [] OTHER -> IF st.pos < Len(s) /\ Eats(r, s[st.pos + 1])
                      THEN <<[st EXCEPT !.pos = @ + 1]>> ELSE <<>>

NoMatch == [id |-> -1, v |-> <<>>]

\* The match of a search that begins at position i: the leftmost start, then
\* the first regex, then the best way.
RECURSIVE Search(_, _, _, _)
Search(regexes, slots, s, i) ==
    LET start == [pos |-> i, v |-> [k \in 0 .. slots - 1 |-> -1]]
        ways(k) == Ways(Branch(regexes, k).left, s, start)
        hits == {k \in DOMAIN regexes : ways(k) # <<>>}
        best == CHOOSE k \in hits : \A j \in hits : k <= j
    IN  IF i > Len(s) THEN NoMatch
        ELSE IF hits # {} THEN [id |-> best - 1, v |-> ways(best)[1].v]
        ELSE Search(regexes, slots, s, i + 1)
=============================================================================
