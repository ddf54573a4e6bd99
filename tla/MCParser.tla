------------------------------ MODULE MCParser ------------------------------
(***************************************************************************)
(* Instances of Parser for TLC: regexes put together from a few pieces,    *)
(* and the properties that compare what is parsed with RegexSyntax.        *)
(***************************************************************************)
EXTENDS Parser, RegexSyntax, FiniteSetsExt

CONSTANTS
    MaxPieces,    \* Bound: no regex has more pieces,
    MaxItems,     \*   and no bracketed class more items.
    Counts        \* Which counted repetitions there are.

\* All the ways to put up to n pieces together.
Joins(pieces, n) ==
    {FlattenSeq(w) : w \in UNION {[1 .. k -> {Bytes(p) : p \in pieces}] : k \in 0 .. n}}

Pieces == {"a", "(", ")", "(?:", "|", "*", "?"} \cup Counts

ClassItems == {"a", "a-b", "b", "-", "]", "^", "\\d", "\\-"}

Regexes  == Joins(Pieces, MaxPieces)
Brackets == {Bytes("[") \o body \o Bytes("]") : body \in Joins(ClassItems, MaxItems)}

\* Escapes, whole and cut short, outside of brackets and in them.
Escapes == {"\\d", "\\D", "\\w", "\\W", "\\s", "\\S", "\\h", "\\H", "\\v", "\\V", "\\N", "\\C",
            "\\x61", "\\x{61}", "\\x6", "\\x{6", "\\x{", "\\141", "\\14", "\\1", "\\0",
            "\\o{141}", "\\o{141", "\\o{1", "\\o", "\\cA", "\\c", "\\e", "\\", "\\q", "\\400"}
Escaping == {Bytes(e) : e \in Escapes} \cup {Bytes("[b") \o Bytes(e) : e \in Escapes}
              \cup {Bytes("[") \o Bytes(e) \o Bytes("-z]") : e \in Escapes}

Alone(s, caseless, scarce) ==
    [multi |-> FALSE, regexes |-> <<[src |-> s, caseless |-> caseless]>>, scarce |-> scarce]

Some(srcs, scarce) ==
    [multi |-> TRUE, scarce |-> scarce,
     regexes |-> [k \in DOMAIN srcs |-> [src |-> Bytes(srcs[k]), caseless |-> FALSE]]]

\* Regexes with more to them, and one that nests too deep for the stack.
Longer == {"(a|b)*?b{0,2}", "((a)|b)+a?", "(?:a|(b)){2}?a*?", "(?:|a|b){2,}", "(ab??|(?:a))(b+?)",
           "(a(b(a)?)*){0,2}b", "^(?:\\ba|$)|\\Bb\\z", "a**", "(a|b))", "(?:(a)|?)", "((((((a))))))"}

\* Regexes one by one, classes without regard to case, several regexes at once, and the
\* same with little memory.
MCCalls ==
    {Alone(s, FALSE, FALSE) : s \in Regexes \cup Escaping \cup {Bytes(r) : r \in Longer}}
    \cup {Alone(s, c, FALSE) : s \in Brackets, c \in BOOLEAN}
    \cup {Alone(Bytes(s), TRUE, FALSE) : s \in {"A|b", "[Z-b]b", "\\W", "[^a-c]", "\\C"}}
    \cup {Alone(Bytes(s), FALSE, TRUE) : s \in {"(a|:)\\b[ab]?", "(?:^|a{1})b{2}?$", "a{2,}.+"}}
    \cup {Alone(Bytes("b[a]{0}"), TRUE, TRUE)}
    \cup {Some(srcs, scarce) : srcs \in {<<>>, <<"a">>, <<"(a)b", "((a))", "b">>, <<"a", "(">>,
                                       <<"a?b", "a">>}, scarce \in BOOLEAN}

Sources == UNION {{c.regexes[k].src : k \in DOMAIN c.regexes} : c \in Calls}

\* yylex, with the token of each offset worked out once.
TokenTable == [s \in Sources |-> [p \in 0 .. Len(s) |-> NextToken(s, p)]]

MCLex(s, p) == TokenTable[s][p]

Words == UNION {[1 .. n -> {97, 98}] : n \in 0 .. 3} \cup {<<66>>, <<66, 66>>}

Promise == [c \in Calls |-> Promised(c)]

Slots(trees) == 2 * (Len(trees) + MapThenSumSet(
                    LAMBDA k : Re!NumCaptures(trees[k]), DOMAIN trees))

\* The tree that a call returns matches what its regexes do, in the same way, and has
\* their groups; a call that returns none blames the first regex that is wrong and the
\* first token there that nothing can continue with, or else memory has run out or the
\* stack may not grow any more.
AnswersAreRight ==
    answer # NoAnswer =>
        \E promise \in {Promise[call]} :
            IF answer.tree = NoTree
            THEN \/ call.scarce \/ (Full /\ yystacksize = MaxDepth)
                 \/ /\ promise.wrong /\ answer.err_offset = promise.offset
                    /\ call.multi => answer.err_regex_id = promise.id
            ELSE /\ ~promise.wrong
                 /\ answer.counts = Re!MultiNcaps(promise.trees)
                 /\ \A w \in Words :
                        MatchOf(answer.tree, Slots(promise.trees), w)
                            = MatchOf(Re!Assemble(promise.trees), Slots(promise.trees), w)

\* What the automaton makes of a class token.
Meant(re) ==
    CASE re.type = "class"  -> Covered(re.ranges)
      [] re.type = "nclass" -> AllBytes \ Covered(re.ranges)
      [] OTHER              -> AllBytes

Classes == [s \in Sources |-> [p \in 0 .. Len(s) - 1 |-> ClassAt(s, p)]]

\* A class token stands for the bytes that its elements do, however they are written,
\* and a bracket that is no class is a bad token.
ClassesAreRight ==
    /\ yychar.token = CLASS =>
        Meant(yychar.value.re) = Classes[Regex.src][yychar.pos]
    /\ (yychar.token = BAD /\ ~call.scarce) => Classes[Regex.src][yychar.pos] = {}
=============================================================================
