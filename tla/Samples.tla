------------------------------ MODULE Samples -------------------------------
(***************************************************************************)
(* What TLC runs the virtual machines on: programs compiled from small     *)
(* regexes, and all the streams up to a length.                            *)
(***************************************************************************)
EXTENDS Bytecode

CONSTANTS MaxLen   \* Bound: no stream is longer.

RC == INSTANCE RegexCompiler

MCByte == {"a", "b", "nl"}
MCWord == {"a", "b"}

MCStreams == UNION {[1 .. n -> MCByte] : n \in 0 .. MaxLen}

A   == RC!Lit("a")
B   == RC!Lit("b")
NL  == RC!Lit("nl")
Bol == RC!Assertion("^")
Eol == RC!Assertion("$")
Wb  == RC!Assertion("\\b")
Nwb == RC!Assertion("\\B")

Or(l, r)    == RC!Alt(l, r)
Then(l, r)  == RC!Cat(l, r)
Group(i, r) == RC!Paren(i, r)
Many(r)     == RC!Star(r, TRUE)
Few(r)      == RC!Star(r, FALSE)

\* Regexes without \b and \B: priorities, greedy and lazy loops, groups, classes,
\* two regexes at once, look-behinds, look-aheads and empty matches.
Splittable == {
    <<Or(A, Then(A, B))>>,
    <<Then(Many(A), B)>>,
    <<Then(Group(1, RC!Plus(A, TRUE)), Group(2, Few(B)))>>,
    <<RC!Quest(B, TRUE)>>,
    <<Then(A, B), Then(Group(2, RC!Dot), RC!Class({"a", "b"}))>>,
    <<Then(Bol, A)>>,
    <<Then(RC!Assertion("\\A"), Many(RC!NClass({"b"})))>>,
    <<Then(Many(NL), Then(Bol, RC!Quest(B, FALSE)))>>,
    <<Then(RC!Plus(A, TRUE), Eol)>>,
    <<Then(Few(A), RC!Assertion("\\z"))>>,
    <<Then(A, Then(Eol, NL))>>,
    <<RC!Nil>>,
    <<Then(Group(1, Many(Many(A))), B)>>,
    <<RC!Plus(Or(A, RC!Nil), TRUE)>>,
    <<Then(RC!Plus(RC!Nil, FALSE), A)>>
  }

\* \b or \B with a byte to consume before the next assertion.
Boundaries == {
    <<Then(Wb, Few(A))>>,
    <<Then(Nwb, Or(B, NL))>>,
    <<Or(A, Then(Wb, B))>>,
    <<Then(Wb, Then(A, Wb))>>,
    <<Then(Or(A, Wb), Then(A, B))>>
  }

\* An assertion behind a look-ahead.
Chained == {
    <<Then(Wb, Then(Bol, B))>>,
    <<Then(A, Then(Wb, Then(Wb, NL)))>>,
    <<Then(A, Then(Eol, Then(Bol, NL)))>>
  }

\* Several look-aheads that lead to one byte, and loops over them.
Mixed == {
    <<Or(Then(A, Then(Wb, NL)), Then(A, Then(Eol, NL)))>>,
    <<Then(Many(Or(A, Then(Eol, NL))), Then(Bol, B))>>,
    <<Then(Many(Or(A, B)), Then(Wb, Eol))>>,
    <<Then(Or(Or(Then(A, Wb), Then(RC!Dot, Wb)), Then(A, Nwb)), B)>>
  }

\* Two ways to one byte: past ^, and past nothing.
Pruned == {<<Then(RC!Quest(Bol, TRUE), A)>>}

\* A loop over \B or, before it, something that may be empty.
Looping == {<<Then(Many(Or(RC!Quest(A, TRUE), Nwb)), B)>>}

\* No assertion and no choice: a byte, and two.
Plain == {<<A>>, <<Then(A, B)>>}

Native == UNION {Splittable, Boundaries, Chained, Looping, Mixed}

Compiled(set) == {RC!Compile(r) : r \in set}

SplittablePrograms == Compiled(Splittable)
BoundaryPrograms   == Compiled(Boundaries)
ChainedPrograms    == Compiled(Chained)
AllPrograms        == SplittablePrograms \cup BoundaryPrograms \cup ChainedPrograms
SplitPrograms      == SplittablePrograms \cup BoundaryPrograms
LoopingPrograms    == Compiled(Looping)
PlainPrograms      == Compiled(Plain)

\* The regexes a program is compiled from.
Sources ==
    LET sampled == Splittable \cup Boundaries \cup Chained \cup Plain
    IN  [p \in Compiled(sampled) |-> CHOOSE r \in sampled : RC!Compile(r) = p]
=============================================================================
