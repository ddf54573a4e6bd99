----------------------------- MODULE Acceptance -----------------------------
(***************************************************************************)
(* What a program means, apart from the machines that run it: from which   *)
(* places a match is found.  A place is a program counter and how many     *)
(* bytes of the stream have been read when it is come to.                  *)
(***************************************************************************)
EXTENDS Bytecode

WordAt(s, k) == k \in 1 .. Len(s) /\ s[k] \in WordByte

\* README.markdown, "Syntax Supported": an assertion between the first n bytes of s and
\* the rest.
HoldsAt(look, s, n) ==
    CASE look = "\\A" -> n = 0
      [] look = "\\z" -> n = Len(s)
      [] look = "^"   -> n = 0 \/ s[n] = Newline
      [] look = "$"   -> n = Len(s) \/ s[n + 1] = Newline
      [] look = "\\b" -> WordAt(s, n) # WordAt(s, n + 1)
      [] look = "\\B" -> WordAt(s, n) = WordAt(s, n + 1)

Consumers == {"char", "in", "notin", "any"}

Permits(ins, s, n) ==
    CASE ins.op \in Consumers -> n < Len(s) /\ Accepts(ins, s[n + 1])
      [] ins.op = "assert"    -> HoldsAt(ins.look, s, n)
      [] OTHER                -> TRUE

\* The places that a place leads to: every branch is taken.
Steps(p, s, place) ==
    LET ins  == p.code[place[1]]
        read == IF ins.op \in Consumers THEN place[2] + 1 ELSE place[2]
    IN  IF Permits(ins, s, place[2]) THEN {<<pc, read>> : pc \in Leads(ins, place[1])} ELSE {}

Places(p, s) == Live(p) \X (0 .. Len(s))

\* What comes of a when F says what comes of each element: no more rounds than there are
\* elements add a new one.
More(F, R) == R \cup UNION {F[e] : e \in R}

Closure(a, F) ==
    LET within[n \in Nat] == IF n = 0 THEN {a} ELSE More(F, within[n - 1])
    IN  within[Cardinality(DOMAIN F)]

\* The places a search comes to from the beginning.
Reachable(p, s) == Closure(<<0, 0>>, [place \in Places(p, s) |-> Steps(p, s, place)])

\* The program finds a match in the stream s, wherever that ends.
Accepted(p, s) == \E place \in Reachable(p, s) : p.code[place[1]].op = "match"
=============================================================================
