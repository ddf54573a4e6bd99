---------------------------- MODULE RegexSyntax ----------------------------
(***************************************************************************)
(* What sre_regex_parse and sre_regex_parse_multi promise (README.markdown,*)
(* "Syntax Supported" and "sre_regex_parse_multi"), over the tokens of a   *)
(* regex: which regexes they accept, what those match, how groups are      *)
(* numbered and where a regex goes wrong.  Written as a grammar read from  *)
(* the left, without tables or stacks.                                     *)
(* RECURSIVE operators: for model checking only.                           *)
(***************************************************************************)
EXTENDS Lexer

CONSTANTS WordByte, Newline

Re == INSTANCE Regex

\* The tokens of a regex from t on, up to its end or the first bad one.
RECURSIVE TokensFrom(_, _)
TokensFrom(s, t) ==
    IF t.token \in {EOF, BAD} THEN <<t>>
    ELSE <<t>> \o TokensFrom(s, NextToken(s, t.next))

\* What has been read of tokens ts: a tree, where it goes on, the groups so far and
\* whether the token there is one that nothing can continue with.
Read(tree, i, n) == [tree |-> tree, i |-> i, n |-> n, wrong |-> FALSE]
Wrong(i)         == [tree |-> Nil, i |-> i, n |-> 0, wrong |-> TRUE]

Is(ts, i, t) == ts[i].token = t

BeginsAtom(ts, i) ==
    ts[i].token \in {CHAR, CLASS, ASSERTION, COLON, DOT, CARET, DOLLAR, OPEN}

\* How often an atom is wanted, by the quantifier at i.
Bounds(t) ==
    CASE t.token = STAR   -> <<0, -1>>
      [] t.token = PLUS   -> <<1, -1>>
      [] t.token = QUEST  -> <<0, 1>>
      [] t.token = CQUANT -> <<t.value.from, t.value.to>>

RECURSIVE ReadAlt(_, _, _, _), ReadConcat(_, _, _, _), ReadRepeat(_, _, _, _),
          ReadAtom(_, _, _, _), MoreAlt(_, _, _), MoreConcat(_, _, _)

\* ab|c
ReadAlt(ts, i, n, caseless) == MoreAlt(ts, ReadConcat(ts, i, n, caseless), caseless)

MoreAlt(ts, left, caseless) ==
    IF left.wrong \/ ~Is(ts, left.i, BAR) THEN left
    ELSE LET right == ReadConcat(ts, left.i + 1, left.n, caseless)
         IN  IF right.wrong THEN right
             ELSE MoreAlt(ts, Read(Alt(left.tree, right.tree), right.i, right.n), caseless)

\* ab, and what is empty.
ReadConcat(ts, i, n, caseless) ==
    IF BeginsAtom(ts, i) THEN MoreConcat(ts, ReadRepeat(ts, i, n, caseless), caseless)
    ELSE Read(Nil, i, n)

MoreConcat(ts, left, caseless) ==
    IF left.wrong \/ ~BeginsAtom(ts, left.i) THEN left
    ELSE LET right == ReadRepeat(ts, left.i, left.n, caseless)
         IN  IF right.wrong THEN right
             ELSE MoreConcat(ts, Read(Cat(left.tree, right.tree), right.i, right.n), caseless)

\* a{1,2} and a{1,2}?
ReadRepeat(ts, i, n, caseless) ==
    LET atom   == ReadAtom(ts, i, n, caseless)
        lazy   == Is(ts, atom.i + 1, QUEST)
        bounds == Bounds(ts[atom.i])
    IN  IF atom.wrong \/ ts[atom.i].token \notin {STAR, PLUS, QUEST, CQUANT} THEN atom
        ELSE Read(Re!Times(atom.tree, bounds[1], bounds[2], ~lazy),
                  atom.i + (IF lazy THEN 2 ELSE 1), atom.n)

\* The bytes of a node, in either case.
EitherCase(set) ==
    set \cup {c + 32 : c \in set \cap 65 .. 90} \cup {c - 32 : c \in set \cap 97 .. 122}

SetNode(type, set, caseless) ==
    [type |-> type, range |-> IF caseless THEN EitherCase(set) ELSE set]

\* (a), (?:a) and what stands for one byte or none.
ReadAtom(ts, i, n, caseless) ==
    LET t      == ts[i]
        silent == Is(ts, i, OPEN) /\ Is(ts, i + 1, QUEST)
        inner  == ReadAlt(ts, IF silent THEN i + 3 ELSE i + 1,
                              IF silent THEN n ELSE n + 1, caseless)
    IN  CASE t.token = OPEN ->
                IF silent /\ ~Is(ts, i + 2, COLON) THEN Wrong(i + 2)
                ELSE IF inner.wrong THEN inner
                ELSE IF ~Is(ts, inner.i, CLOSE) THEN Wrong(inner.i)
                ELSE Read(IF silent THEN inner.tree ELSE Paren(n + 1, inner.tree),
                          inner.i + 1, inner.n)
          [] t.token = ASSERTION -> Read(t.value.re, i + 1, n)
          [] t.token = CARET     -> Read(Assertion("^"), i + 1, n)
          [] t.token = DOLLAR    -> Read(Assertion("$"), i + 1, n)
          [] t.token = DOT       -> Read(Dot, i + 1, n)
          [] t.token = COLON     -> Read(Lit(58), i + 1, n)
          [] t.token = CHAR      -> Read(SetNode("class", {t.value.ch}, caseless), i + 1, n)
          [] t.token = CLASS     ->
                Read(IF t.value.re.type = "dot" THEN Dot
                     ELSE SetNode(t.value.re.type, Covered(t.value.re.ranges), caseless),
                     i + 1, n)

\* A whole regex.
Whole(ts, read) ==
    IF read.wrong \/ ~Is(ts, read.i, EOF)
    THEN [wrong |-> TRUE, offset |-> ts[read.i].pos]
    ELSE [wrong |-> FALSE, tree |-> read.tree]

TokensOf(regex) == TokensFrom(regex.src, NextToken(regex.src, 0))

WholeFrom(ts, n, caseless) == Whole(ts, ReadAlt(ts, 1, n, caseless))

WholeOf(regex, n) == WholeFrom(TokensOf(regex), n, regex.caseless)

\* The group number after those of a regex: its $0 is a group, too.
After(n, whole) == IF whole.wrong THEN n ELSE n + Re!NumCaptures(whole.tree) + 1

\* The regexes of a call, up to the first that is wrong.
RECURSIVE Wholes(_, _, _)
Wholes(regexes, n, whole) ==
    IF whole.wrong \/ Len(regexes) = 1 THEN <<whole>>
    ELSE <<whole>> \o Wholes(Tail(regexes), After(n, whole),
                            WholeOf(regexes[2], After(n, whole)))

\* The trees of a call, or the first regex that is wrong and where it is.
PromisedBy(wholes) ==
    IF Last(wholes).wrong
    THEN [wrong |-> TRUE, offset |-> Last(wholes).offset, id |-> Len(wholes) - 1]
    ELSE [wrong |-> FALSE, trees |-> [k \in DOMAIN wholes |-> wholes[k].tree]]

Promised(c) ==
    IF c.regexes = <<>> THEN [wrong |-> TRUE, offset |-> -1, id |-> -1]
    ELSE PromisedBy(Wholes(c.regexes, 0, WholeOf(c.regexes[1], 0)))

\* The match of a tree that sre_regex_parse returns in w, if its groups need slots.
MatchBy(ways) == IF ways = <<>> THEN Re!NoMatch ELSE [id |-> ways[1].v[-1], v |-> ways[1].v]

MatchOf(tree, slots, w) ==
    MatchBy(Re!Ways(tree, w, [pos |-> 0, v |-> [k \in -1 .. slots - 1 |-> -1]]))

-----------------------------------------------------------------------------
(* Classes, by their elements instead of by a state. *)

AllBytes == 0 .. 255

\* "Syntax Supported": a capital letter is what its small letter is not.
Listed == Table("dwshv", <<48 .. 57, 48 .. 57 \cup 65 .. 90 \cup {95} \cup 97 .. 122,
                           {9, 10, 12, 13, 32}, {9, 32, 160}, 10 .. 13 \cup {133}>>)

SetOf(letter) ==
    CASE letter \in ClassLetters   -> Listed[letter]
      [] letter \in NegatedLetters -> AllBytes \ Listed[letter + 32]
      [] letter = Code["N"]        -> AllBytes \ {10}
      [] letter = Code["C"]        -> AllBytes
      [] OTHER                     -> {}

\* An element is a byte, which may be a bare dash, or a set, which no byte is; a "]"
\* is a byte when it comes first.
Element(s, p, item) ==
    CASE item.is = "char"  -> [ch |-> item.ch, dash |-> FALSE]
      [] item.is = "dash"  -> [ch |-> Hyphen, dash |-> TRUE]
      [] item.is = "close" -> [ch |-> CloseBracket, dash |-> FALSE]
      [] item.is = "set"   -> [ch |-> Invalid, set |-> SetOf(At(s, p + 1)), dash |-> FALSE]

RECURSIVE Elements(_, _, _, _)
Elements(s, p, item, read) ==
    IF item.is = "bad" THEN <<>>
    ELSE IF item.is = "close" /\ read # <<>> THEN read
    ELSE Elements(s, item.next, ClassItem(s, item.next), Append(read, Element(s, p, item)))

Reversed == {-1}

\* A dash between two bytes that are no ends of other ranges makes a range of them.
RECURSIVE Denoted(_)
Denoted(es) ==
    IF es = <<>> THEN {}
    ELSE IF Len(es) >= 3 /\ es[1].ch # Invalid /\ es[2].dash /\ es[3].ch # Invalid
    THEN (IF es[1].ch <= es[3].ch THEN es[1].ch .. es[3].ch ELSE Reversed)
             \cup Denoted(SubSeq(es, 4, Len(es)))
    ELSE (IF es[1].ch = Invalid THEN es[1].set ELSE {es[1].ch}) \cup Denoted(Tail(es))

\* The bytes that the class at p stands for: none if it is no class.
Denotation(set, negated) ==
    IF set = {} \/ -1 \in set THEN {} ELSE IF negated THEN AllBytes \ set ELSE set

ClassFrom(s, p, negated) == Denotation(Denoted(Elements(s, p, ClassItem(s, p), <<>>)), negated)

ClassAt(s, p) ==
    CASE At(s, p) = OpenBracket /\ At(s, p + 1) = Circumflex -> ClassFrom(s, p + 2, TRUE)
      [] At(s, p) = OpenBracket /\ At(s, p + 1) # Circumflex -> ClassFrom(s, p + 1, FALSE)
      [] At(s, p) = Backslash   -> SetOf(At(s, p + 1))
      [] OTHER -> {}
=============================================================================
