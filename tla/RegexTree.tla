----------------------------- MODULE RegexTree ------------------------------
(***************************************************************************)
(* The nodes of a syntax tree (sre_regex.h, sre_regex.c), a bracketed      *)
(* class being the set of bytes that its list of ranges covers.            *)
(***************************************************************************)
EXTENDS Integers, Sequences

(* sre_regex_create, by type of node. *)
Nil            == [type |-> "nil"]
Dot            == [type |-> "dot"]
Lit(ch)        == [type |-> "lit", ch |-> ch]
Class(set)     == [type |-> "class", range |-> set]
NClass(set)    == [type |-> "nclass", range |-> set]
Cat(l, r)      == [type |-> "cat", left |-> l, right |-> r]
Alt(l, r)      == [type |-> "alt", left |-> l, right |-> r]
Paren(g, l)    == [type |-> "paren", group |-> g, left |-> l]
Assertion(a)   == [type |-> "assert", assertion |-> a]
Quest(l, g)    == [type |-> "quest", left |-> l, greedy |-> g]
Star(l, g)     == [type |-> "star", left |-> l, greedy |-> g]
Plus(l, g)     == [type |-> "plus", left |-> l, greedy |-> g]
Toplevel(i, l) == [type |-> "toplevel", regex_id |-> i, left |-> l]

-----------------------------------------------------------------------------
(* Ranges of bytes. *)

Between(from, to) == [from |-> from, to |-> to]

\* What a list of ranges stands for.
Covered(ranges) == UNION {ranges[k].from .. ranges[k].to : k \in DOMAIN ranges}

Least(a, b)    == IF a <= b THEN a ELSE b
Greatest(a, b) == IF a >= b THEN a ELSE b

Upper == Between(65, 90)   \* A-Z, and a-z 32 further up.
Lower == Between(97, 122)

\* The part of range r in letters, moved by shift: nothing if they do not overlap.
Moved(r, letters, shift) ==
    IF r.to >= letters.from /\ r.from <= letters.to
    THEN {Greatest(r.from, letters.from) + shift .. Least(r.to, letters.to) + shift}
    ELSE {}

HasLetters(ranges) ==
    \E k \in DOMAIN ranges :
        Moved(ranges[k], Upper, 32) # {} \/ Moved(ranges[k], Lower, -32) # {}

\* sre_regex_turn_char_class_caseless
TurnCaseless(ranges) ==
    Covered(ranges) \cup
        UNION UNION {Moved(ranges[k], Upper, 32) \cup Moved(ranges[k], Lower, -32) :
                         k \in DOMAIN ranges}
=============================================================================
