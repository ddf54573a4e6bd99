------------------------------- MODULE Tokens -------------------------------
(***************************************************************************)
(* What yylex returns and yyparse reads (sre_yyparser.c): the tokens by    *)
(* the numbers that yytranslate gives them, and the values that come with  *)
(* them in yylval.                                                         *)
(***************************************************************************)
EXTENDS Integers, Sequences

CHAR == 3
EOF == 4
BAD == 5
CQUANT == 6
CLASS == 7
ASSERTION == 8
BAR == 9
STAR == 10
QUEST == 11
PLUS == 12
OPEN == 13
CLOSE == 14
COLON == 15
DOT == 16
CARET == 17
DOLLAR == 18

TokenNumbers == CHAR .. DOLLAR

\* The members of YYSTYPE; a token without a value leaves what was there.
Stale            == [kind |-> "stale"]
CharValue(c)     == [kind |-> "ch", ch |-> c]
TreeValue(re)    == [kind |-> "re", re |-> re]
ClassValue(type, ranges) == [kind |-> "re", re |-> [type |-> type, ranges |-> ranges]]
CountValue(from, to)     == [kind |-> "cquant", from |-> from, to |-> to]
GroupValue(n)            == [kind |-> "group", group |-> n]

Kinds == {"stale", "ch", "re", "cquant", "group"}

\* The member of YYSTYPE that a token sets.
TokenKind(t) ==
    CASE t = CHAR                  -> "ch"
      [] t \in {CLASS, ASSERTION}  -> "re"
      [] t = CQUANT                -> "cquant"
      [] OTHER                     -> "stale"

\* A token, where it begins (yylloc.pos) and where the next one does.
Token(t, value, pos, next) == [token |-> t, value |-> value, pos |-> pos, next |-> next]
=============================================================================
