------------------------------- MODULE Parser -------------------------------
(***************************************************************************)
(* The parser (sre_yyparser.c): sre_regex_parse and sre_regex_parse_multi  *)
(* over yyparse, the LALR(1) automaton that bison has made of the grammar, *)
(* its tables, its stacks and its semantic actions.  Any allocation may be *)
(* refused.                                                                *)
(***************************************************************************)
EXTENDS RegexTree, Tokens

CONSTANTS
    Lex(_, _),    \* yylex: the token that begins at an offset of a regex.
    Calls,        \* The calls: of which function, with which regexes, and how much memory.
    InitDepth,    \* YYINITDEPTH, 200: the stack on the C stack,
    MaxDepth      \* YYMAXDEPTH, 10000: and what it may grow to.

ASSUME DepthAssumption == InitDepth \in Nat /\ InitDepth > 1 /\ MaxDepth \in Nat

\* A regex is what comes before its NUL, with or without SRE_REGEX_CASELESS.
ASSUME CallsAssumption ==
    \A c \in Calls : c.regexes \in Seq([src : Seq(1 .. 255), caseless : BOOLEAN])

\* yylex returns a token of the grammar and sets the member of YYSTYPE that goes with it;
\* it reads past the NUL only to find the token bad.
IsToken(t, s, p) ==
    /\ t = Token(t.token, t.value, t.pos, t.next)
    /\ t.token \in TokenNumbers
    /\ TokenKind(t.token) # "stale" => t.value.kind = TokenKind(t.token)
    /\ t.next \in p .. Len(s) + 1
    /\ t.next > Len(s) => t.token = BAD

ASSUME LexAssumption ==
    \A c \in Calls : \A k \in DOMAIN c.regexes :
        \A s \in {c.regexes[k].src} : \A p \in 0 .. Len(s) : IsToken(Lex(s, p), s, p)

-----------------------------------------------------------------------------
(* The tables, indexed from 0. *)

Indexed(entries) == [i \in 0 .. Len(entries) - 1 |-> entries[i + 1]]

None == -14   \* YYPACT_NINF

yypact == Indexed(<<
    -3, -14, -14, -14, -5, -14, -14, -14, -14, 7, -1, -3, -14, 11, -6, -3, -14,
    -14, -3, -14, 9, 15, 17, 18, -3, 10, -3, -14, -14, -14, -14, 16, -14, -14>>)

yydefact == Indexed(<<
    7, 20, 25, 24, 17, 26, 21, 22, 23, 0, 0, 3, 5, 8, 0, 7, 1,
    2, 7, 6, 15, 9, 13, 11, 7, 0, 4, 16, 10, 14, 12, 0, 18, 19>>)

yypgoto   == Indexed(<<-14, -14, -13, 0, -10, -14, -14>>)
yydefgoto == Indexed(<<-1, 9, 10, 11, 12, 15, 13>>)

yytable == Indexed(<<
    1, 19, 25, 17, 2, 3, 14, 16, 18, 24, 4, 31, 5, 6, 7, 8, 19, 20, 26, 18, 27,
    21, 22, 23, 32, 18, 28, 0, 29, 30, 33>>)

yycheck == Indexed(<<
    3, 11, 15, 4, 7, 8, 11, 0, 9, 15, 13, 24, 15, 16, 17, 18, 26, 6, 18, 9, 11,
    10, 11, 12, 14, 9, 11, -1, 11, 11, 14>>)

\* The symbol that leads to each state, and each rule's left and length.
yystos == Indexed(<<
    0, 3, 7, 8, 13, 15, 16, 17, 18, 20, 21, 22, 23, 25, 11, 24, 0,
    4, 9, 23, 6, 10, 11, 12, 15, 21, 22, 11, 11, 11, 11, 21, 14, 14>>)

yyr1 == Indexed(<<0, 19, 20, 21, 21, 22, 22, 22, 23, 23, 23, 23, 23, 23, 23, 23, 23, 24,
                25, 25, 25, 25, 25, 25, 25, 25, 25>>)
yyr2 == Indexed(<<0, 2, 2, 1, 3, 1, 2, 0, 1, 2, 3, 2, 3, 2, 3, 2, 3, 0, 4, 5,
                1, 1, 1, 1, 1, 1, 1>>)

YYNTOKENS == 19

States == DOMAIN yypact

\* What yytable has for a row and a column, and other where it belongs to another row.
Entry(row, column, mark, other) ==
    LET n == row + column
    IN  IF n \in DOMAIN yytable /\ yycheck[n] = mark THEN yytable[n] ELSE other

\* Whether the state is enough to know what to do.
NeedsNoToken(s) == yypact[s] = None

\* The state that a token is shifted to, or 0: yytable has no other entries here.
ShiftTo(s, t) == IF NeedsNoToken(s) THEN 0 ELSE Entry(yypact[s], t, t, 0)

\* The state after reducing to nonterminal left in state s.
GotoState(s, left) == Entry(yypgoto[left - YYNTOKENS], s, s, yydefgoto[left - YYNTOKENS])

-----------------------------------------------------------------------------
(* Semantic actions.  a[k] is $k. *)

\* base and n more of r.
Repeated(base, r, n) ==
    LET cat[k \in 0 .. n] == IF k = 0 THEN base ELSE Cat(cat[k - 1], r)
    IN  cat[n]

\* A slip on Desugar: one optional copy too many.
DesugarMore(r, from, to, greedy) ==
    LET least == IF from = 0 THEN Nil ELSE Repeated(r, r, Greatest(from - 1, 0))
        done  == IF from = 0 THEN 0 ELSE Greatest(from, 1)
    IN  CASE from = to -> least
          [] from # to /\ to = -1 -> Cat(least, Star(r, greedy))
          [] OTHER -> Repeated(least, Quest(r, greedy), Greatest(to - done, 0) + 1)

\* sre_regex_desugar_counted_repetition: to may be -1, and anything an int has wrapped to.
Desugar(r, from, to, greedy) ==
    LET least == IF from = 0 THEN Nil ELSE Repeated(r, r, Greatest(from - 1, 0))
        done  == IF from = 0 THEN 0 ELSE Greatest(from, 1)
    IN  CASE from = to -> least
          [] from # to /\ to = -1 -> Cat(least, Star(r, greedy))
          [] OTHER -> Repeated(least, Quest(r, greedy), Greatest(to - done, 0))

\* The other case of a letter, or the byte itself.
OtherCase(c) ==
    IF c \in Upper.from .. Upper.to THEN c + 32
    ELSE IF c \in Lower.from .. Lower.to THEN c - 32 ELSE c

LitNode(c, caseless) ==
    IF caseless /\ OtherCase(c) # c THEN Class({c, OtherCase(c)}) ELSE Lit(c)

\* The node of a class token, and what it is when its caseless ranges are refused: the
\* action tests the node instead of the ranges.
ClassNode(re, caseless) ==
    IF re.type = "dot" THEN Dot
    ELSE [type |-> re.type, range |-> IF caseless THEN TurnCaseless(re.ranges)
                                      ELSE Covered(re.ranges)]
ClassRefused(re) == [type |-> re.type, range |-> {}]

\* $$ of the rules but 1 and 2, with n groups so far.
Reduced(rule, a, n, caseless) ==
    CASE rule = 17 -> GroupValue(n + 1)
      [] rule # 17 -> TreeValue(
           CASE rule \in {3, 5, 8, 24} -> a[1].re
             [] rule = 4  -> Alt(a[1].re, a[3].re)
             [] rule = 6  -> Cat(a[1].re, a[2].re)
             [] rule = 7  -> Nil
             [] rule \in {9, 10}  -> Star(a[1].re, rule = 9)
             [] rule \in {11, 12} -> Plus(a[1].re, rule = 11)
             [] rule \in {13, 14} -> Quest(a[1].re, rule = 13)
             [] rule \in {15, 16} -> Desugar(a[1].re, a[2].from, a[2].to, rule = 15)
             [] rule = 18 -> Paren(a[2].group, a[3].re)
             [] rule = 19 -> a[4].re
             [] rule = 20 -> LitNode(a[1].ch, caseless)
             [] rule = 21 -> Dot
             [] rule = 22 -> Assertion("^")
             [] rule = 23 -> Assertion("$")
             [] rule = 25 -> ClassNode(a[1].re, caseless)
             [] rule = 26 -> Lit(58))

\* The rules that give up when there is no memory for a node.
Allocating == {4, 6, 7} \cup 9 .. 16 \cup {18} \cup 20 .. 23 \cup {26}

\* a{1} and a{1,1} are a itself.
Allocates(rule, a) ==
    rule \in Allocating /\ ~(rule \in {15, 16} /\ a[2].from = 1 /\ a[2].to = 1)

-----------------------------------------------------------------------------
VARIABLES
    call,         \* the call: [multi, regexes, scarce], a regex being [src, caseless],
    at,           \*   the regex being parsed, 0 before the first,
    answer,       \*   and what the call returns,
    src,          \* how far the regex has been read,
    yychar,       \* the lookahead token,
    yylloc,       \*   and where the last one read begins,
    yyss, yyvs,   \* the stacks, of states and of values,
    yystacksize,  \*   and how many fit,
    ncaps,        \* the groups so far,
    saved_ncaps,  \*   without those of this regex,
    multi_ncaps,  \*   and by regex,
    joined        \* the regexes before this one, joined by alternation.

stacks == <<yyss, yyvs, yystacksize>>
caller == <<call, at, ncaps, saved_ncaps, multi_ncaps, joined>>
vars   == <<call, at, answer, src, yychar, yylloc, yyss, yyvs, yystacksize, ncaps,
            saved_ncaps, multi_ncaps, joined>>

\* Memory may run out.
MayRefuse == call.scarce

NoToken  == [token |-> -2]
NoTree   == [type |-> "null"]
NoAnswer == [tree |-> [type |-> "pending"]]

\* The tree and the output parameters: multi_ncaps means nothing without a tree, and
\* max_ncaps is the greatest of it.
Answer(tree, offset, id, counts) ==
    [tree |-> tree, err_offset |-> offset, err_regex_id |-> id, counts |-> counts]

Regex     == call.regexes[at]
LastRegex == at = Len(call.regexes)
RegexId   == IF call.multi THEN at - 1 ELSE -1

Top == yyss[Len(yyss)]

EmptyStack == yyss' = <<0>> /\ yyvs' = <<Stale>> /\ yystacksize' = InitDepth

Init ==
    /\ call \in Calls /\ at = 0 /\ answer = NoAnswer
    /\ src = 0 /\ yychar = NoToken /\ yylloc = 0
    /\ yyss = <<0>> /\ yyvs = <<Stale>> /\ yystacksize = InitDepth
    /\ ncaps = 0 /\ saved_ncaps = 0 /\ multi_ncaps = <<>> /\ joined = NoTree

Parsing == answer = NoAnswer /\ at > 0

\* NULL, with the offset or -1.
Fail(offset) ==
    /\ answer' = Answer(NoTree, offset, RegexId, <<>>)
    /\ UNCHANGED <<caller, stacks, src, yychar, yylloc>>

\* The call begins; sre_regex_parse_multi needs regexes, and memory for multi_ncaps.
Begin ==
    /\ answer = NoAnswer /\ at = 0
    /\ call.regexes # <<>>
    /\ at' = 1
    /\ UNCHANGED <<call, answer, src, yychar, yylloc, stacks, ncaps, saved_ncaps,
                   multi_ncaps, joined>>

BeginFails ==
    /\ answer = NoAnswer /\ at = 0
    /\ call.regexes = <<>> \/ (MayRefuse /\ call.multi)
    /\ answer' = Answer(NoTree, -1, -1, <<>>)
    /\ UNCHANGED <<caller, stacks, src, yychar, yylloc>>

-----------------------------------------------------------------------------
(* yyparse *)

Full == Len(yyss) >= yystacksize

\* A slip on ExtendStack: the new stack is as large as the old one.
ExtendStackInVain ==
    /\ Parsing /\ Full /\ yystacksize < MaxDepth
    /\ yystacksize' = yystacksize
    /\ UNCHANGED <<caller, answer, src, yychar, yylloc, yyss, yyvs>>

\* yysetstate: a full stack is moved to one twice as large,
ExtendStack ==
    /\ Parsing /\ Full /\ yystacksize < MaxDepth
    /\ yystacksize' = Least(2 * yystacksize, MaxDepth)
    /\ UNCHANGED <<caller, answer, src, yychar, yylloc, yyss, yyvs>>

\* yyexhaustedlab: unless it may not grow, or malloc refuses.  The last token is blamed.
Exhausted ==
    /\ Parsing /\ Full
    /\ yystacksize >= MaxDepth \/ MayRefuse
    /\ Fail(yylloc)

Ready == Parsing /\ ~Full

\* yybackup: a token is read when the state does not settle what to do.
ReadToken ==
    /\ Ready /\ yychar = NoToken /\ ~NeedsNoToken(Top)
    /\ yychar' = Lex(Regex.src, src)
    /\ yylloc' = yychar'.pos /\ src' = yychar'.next
    /\ UNCHANGED <<caller, answer, stacks>>

\* A slip on ReadRefused: a node that could not be had is not noticed.
ReadRefusedUnnoticed ==
    /\ Ready /\ yychar = NoToken /\ ~NeedsNoToken(Top) /\ MayRefuse
    /\ \E read \in {Lex(Regex.src, src)} :
        /\ read.token \in {CLASS, ASSERTION}
        /\ yychar' = [read EXCEPT !.value = Stale]
    /\ yylloc' = yychar'.pos /\ src' = yychar'.next
    /\ UNCHANGED <<caller, answer, stacks>>

\* Without memory for a class or an assertion the lexer returns a bad token.
ReadRefused ==
    /\ Ready /\ yychar = NoToken /\ ~NeedsNoToken(Top) /\ MayRefuse
    /\ \E read \in {Lex(Regex.src, src)} :
        /\ read.token \in {CLASS, ASSERTION}
        /\ yychar' = [read EXCEPT !.token = BAD, !.value = Stale]
    /\ yylloc' = yychar'.pos /\ src' = yychar'.next
    /\ UNCHANGED <<caller, answer, stacks>>

\* A token is known, or none is needed.
Decided == Ready /\ (NeedsNoToken(Top) \/ yychar # NoToken)

ShiftsTo == IF NeedsNoToken(Top) THEN 0 ELSE ShiftTo(Top, yychar.token)

Shift ==
    /\ Decided /\ ShiftsTo # 0
    /\ yyss' = Append(yyss, ShiftsTo)
    /\ yyvs' = Append(yyvs, yychar.value)
    /\ yychar' = NoToken
    /\ UNCHANGED <<caller, answer, src, yylloc, yystacksize>>

\* yyerrlab: no rule mentions the error token, so every state is popped.
SyntaxError ==
    /\ Decided /\ ShiftsTo = 0 /\ yydefact[Top] = 0
    /\ Fail(yylloc)

\* yydefault: the rule, and its right-hand side.
Reducing == Decided /\ ShiftsTo = 0 /\ yydefact[Top] # 0

Rule == yydefact[Top]

Below == Len(yyss) - yyr2[Rule]

Args == SubSeq(yyvs, Below + 1, Len(yyvs))

\* yyreduce
ReduceTo(value) ==
    /\ yyss' = Append(SubSeq(yyss, 1, Below), GotoState(yyss[Below], yyr1[Rule]))
    /\ yyvs' = Append(SubSeq(yyvs, 1, Below), value)
    /\ ncaps' = IF Rule = 17 THEN ncaps + 1 ELSE ncaps
    /\ UNCHANGED <<call, at, answer, src, yychar, yylloc, yystacksize, saved_ncaps,
                   multi_ncaps, joined>>

Reduce ==
    /\ Reducing /\ Rule # 2
    /\ ReduceTo(Reduced(Rule, Args, ncaps, Regex.caseless))

\* YYABORT: an allocation is refused,
ReduceRefused ==
    /\ Reducing /\ MayRefuse
    /\ Allocates(Rule, Args)
    /\ Fail(-1)

\* but the ranges of a caseless class go missing unnoticed.
ReduceClassRefused ==
    /\ Reducing /\ MayRefuse /\ Rule = 25 /\ Regex.caseless
    /\ HasLetters(Args[1].re.ranges)
    /\ ReduceTo(TreeValue(ClassRefused(Args[1].re)))

-----------------------------------------------------------------------------
(* Rule 2 ends yyparse, and its caller goes on. *)

\* .*? and then the regex.
Floating(tree) == Cat(Star(Dot, FALSE), tree)

Branch == Toplevel(at - 1, Paren(saved_ncaps, Args[1].re))

Joined == IF joined = NoTree THEN Branch ELSE Alt(joined, Branch)

\* sre_regex_parse, and sre_regex_parse_multi after the last regex.
AcceptLast ==
    /\ Reducing /\ Rule = 2 /\ LastRegex
    /\ LET counts == Append(multi_ncaps, ncaps - saved_ncaps)
       IN  answer' = Answer(Floating(Joined), -1, RegexId, counts)
    /\ UNCHANGED <<caller, stacks, src, yychar, yylloc>>

\* A slip on AcceptOne: src stays where the regex before ended.
AcceptOneReadingOn ==
    /\ Reducing /\ Rule = 2 /\ ~LastRegex
    /\ joined' = Joined
    /\ multi_ncaps' = Append(multi_ncaps, ncaps - saved_ncaps)
    /\ ncaps' = ncaps + 1 /\ saved_ncaps' = ncaps + 1
    /\ at' = at + 1 /\ yychar' = NoToken
    /\ EmptyStack
    /\ UNCHANGED <<call, answer, src, yylloc>>

\* Another regex: it begins a stack and a range of groups of its own.
AcceptOne ==
    /\ Reducing /\ Rule = 2 /\ ~LastRegex
    /\ joined' = Joined
    /\ multi_ncaps' = Append(multi_ncaps, ncaps - saved_ncaps)
    /\ ncaps' = ncaps + 1 /\ saved_ncaps' = ncaps + 1
    /\ at' = at + 1 /\ src' = 0 /\ yychar' = NoToken
    /\ EmptyStack
    /\ UNCHANGED <<call, answer, yylloc>>

\* There is no memory for the nodes above the regexes.
AcceptRefused ==
    /\ Reducing /\ Rule = 2 /\ MayRefuse
    /\ Fail(-1)

Next ==
    \/ Begin \/ BeginFails
    \/ ExtendStack \/ Exhausted
    \/ ReadToken \/ ReadRefused
    \/ Shift \/ SyntaxError
    \/ Reduce \/ ReduceRefused \/ ReduceClassRefused
    \/ AcceptLast \/ AcceptOne \/ AcceptRefused

\* The call runs to its end.
Spec == Init /\ [][Next]_vars /\ WF_vars(Next)

-----------------------------------------------------------------------------
(* Properties. *)

\* The member of YYSTYPE that each symbol of the grammar has.
SymbolKind(s) == IF s \in TokenNumbers THEN TokenKind(s)
                 ELSE IF s = 24 THEN "group" ELSE "re"

\* The members of YYSTYPE that the action of a rule reads, by which $k it is.
MembersRead(rule) ==
    CASE rule \in {2, 3, 5, 8, 24, 25} \cup 9 .. 14 -> {<<1, "re">>}
      [] rule = 4          -> {<<1, "re">>, <<3, "re">>}
      [] rule = 6          -> {<<1, "re">>, <<2, "re">>}
      [] rule \in {15, 16} -> {<<1, "re">>, <<2, "cquant">>}
      [] rule = 18         -> {<<2, "group">>, <<3, "re">>}
      [] rule = 19         -> {<<4, "re">>}
      [] rule = 20         -> {<<1, "ch">>}
      [] OTHER             -> {}

\* The stacks go together: every value was written through the member of YYSTYPE that
\* the symbol of its state has, a reduction finds its right-hand side above the initial
\* state, and its action reads no member of a $k but the one that was written.
StackFits ==
    /\ Len(yyvs) = Len(yyss) /\ yyss[1] = 0
    /\ \A i \in 2 .. Len(yyss) :
        yyss[i] # 0 /\ (SymbolKind(yystos[yyss[i]]) # "stale" =>
                            yyvs[i].kind = SymbolKind(yystos[yyss[i]]))
    /\ Reducing => /\ Below >= 1
                   /\ \A m \in MembersRead(Rule) : Args[m[1]].kind = m[2]

\* The regex is read no further than its terminating NUL, and that is passed only by a
\* token that ends the parse.
ReadsStayInside ==
    at > 0 => /\ src <= Len(Regex.src) + 1
              /\ src > Len(Regex.src) => yychar # NoToken /\ yychar.token = BAD

\* Every call returns.
Answered == <>(answer # NoAnswer)
=============================================================================
