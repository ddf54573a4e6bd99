---------------------------- MODULE ParserProofs ----------------------------
(***************************************************************************)
(* Proofs about Parser, for all regexes, all depths of the stack and every *)
(* yylex that keeps LexAssumption: the stacks of yyparse go together, and  *)
(* no regex is read past its end.  The tables of the automaton are looked  *)
(* up entry by entry; what follows from them is stated by state and edge.  *)
(***************************************************************************)
EXTENDS Parser, SequenceTheorems, TLAPS

-----------------------------------------------------------------------------
(* The tables.  Every path of the automaton from state 0 to a state is at  *)
(* least as long as the state's depth, and a state that takes part in a    *)
(* right-hand side has few states beneath it.                              *)

Depth == Indexed(<<
    0, 1, 1, 1, 1, 1, 1, 1, 1, 1, 1, 1, 1, 1, 2, 2, 2,
    2, 2, 2, 2, 2, 2, 2, 3, 3, 3, 3, 3, 3, 3, 4, 4, 5>>)

\* State p may be just below state q on the stack.
Beneath(p, q) ==
    /\ q \in {14, 15} => p = 4
    /\ q = 17         => p = 10
    /\ q = 18         => p \in {10, 25, 31}
    /\ q = 19         => p \in {11, 26}
    /\ q \in 20 .. 23 => p = 13
    /\ q = 24         => p = 14
    /\ q = 25         => p = 15
    /\ q = 26         => p = 18
    /\ q \in 27 .. 30 => p = q - 7
    /\ q = 31         => p = 24
    /\ q = 32         => p = 25
    /\ q = 33         => p = 31

\* State q may be pushed above state p.
Edge(p, q) == q \in 1 .. 33 \ {9, 16} /\ q # 0 /\ Depth[q] <= Depth[p] + 1 /\ Beneath(p, q)

\* The rows of the tables are states, tokens and rules.
LEMMA Tables ==
    /\ States = 0 .. 33
    /\ \A s \in 0 .. 33 : yypact[s] \in Int /\ yydefact[s] \in 0 .. 26
    /\ \A s \in 0 .. 33 : Depth[s] \in Nat /\ yystos[s] \in Nat
    /\ \A r \in 0 .. 26 : yyr2[r] \in Nat
    /\ \A r \in 3 .. 26 : yyr1[r] \in {21, 22, 23, 24, 25}
<1>1. States = 0 .. 33
  BY DEF States, yypact, Indexed
<1>2. \A s \in 0 .. 33 : yypact[s] \in Int /\ yydefact[s] \in 0 .. 26
  BY DEF yypact, yydefact, Indexed
<1>3. \A s \in 0 .. 33 : Depth[s] \in Nat /\ yystos[s] \in Nat
  BY DEF Depth, yystos, Indexed
<1>4. \A r \in 0 .. 26 : yyr2[r] \in Nat
  BY DEF yyr2, Indexed
<1>5. \A r \in 3 .. 26 : yyr1[r] \in {21, 22, 23, 24, 25}
  BY DEF yyr1, Indexed
<1> QED BY <1>1, <1>2, <1>3, <1>4, <1>5

\* A rule is reduced in a state that is at least as deep as the rule is long, and the
\* only rule for group numbers in state 4.
LEMMA RulesFit ==
    ASSUME NEW s \in 0 .. 33
    PROVE  /\ yyr2[yydefact[s]] <= Depth[s]
           /\ yydefact[s] = 1 => s = 16
           /\ yydefact[s] = 17 <=> s = 4
           /\ yyr1[yydefact[s]] = 24 => s = 4
<1>1. yyr2[yydefact[s]] <= Depth[s]
  BY DEF yydefact, yyr2, Depth, Indexed
<1>2. yydefact[s] = 1 => s = 16
  BY DEF yydefact, Indexed
<1>3. yydefact[s] = 17 <=> s = 4
  BY DEF yydefact, Indexed
<1>4. yyr1[yydefact[s]] = 24 => s = 4
  BY DEF yydefact, yyr1, Indexed
<1> QED BY <1>1, <1>2, <1>3, <1>4

\* A token is shifted along an edge to a state of that token's, and a bad one never.
LEMMA ShiftEdge ==
    ASSUME NEW s \in 0 .. 33, NEW t \in TokenNumbers, ShiftTo(s, t) # 0
    PROVE  Edge(s, ShiftTo(s, t)) /\ yystos[ShiftTo(s, t)] = t /\ t # BAD
<1> DEFINE n == yypact[s] + t
<1>1. /\ n \in DOMAIN yytable /\ yycheck[n] = t /\ yypact[s] # -14
      /\ ShiftTo(s, t) = yytable[n] /\ t \in 3 .. 18
  BY DEF ShiftTo, Entry, NeedsNoToken, None, TokenNumbers, CHAR, DOLLAR
<1>2. n \in 0 .. 30
  BY <1>1 DEF yytable, Indexed
<1>3. yytable[n] # 0 /\ yypact[s] + yycheck[n] = n
  BY <1>1, Tables
<1>4. \A m \in 0 .. 30, p \in 0 .. 33 :
        yytable[m] # 0 /\ yypact[p] + yycheck[m] = m /\ yypact[p] # -14 /\ yycheck[m] \in 3 .. 18 =>
            yytable[m] \in 1 .. 33 \ {9, 16} /\ yystos[yytable[m]] = yycheck[m] /\ yycheck[m] # 5
  BY DEF yytable, yycheck, yypact, yystos, Indexed
<1>5. \A m \in 0 .. 30, p \in 0 .. 33 :
        yytable[m] # 0 /\ yypact[p] + yycheck[m] = m /\ yypact[p] # -14 /\ yycheck[m] \in 3 .. 18 =>
            Depth[yytable[m]] <= Depth[p] + 1
  BY DEF yytable, yycheck, yypact, Depth, Indexed
<1>6. \A m \in 0 .. 30, p \in 0 .. 33 :
        yytable[m] # 0 /\ yypact[p] + yycheck[m] = m /\ yypact[p] # -14 /\ yycheck[m] \in 3 .. 18 =>
            Beneath(p, yytable[m])
  BY DEF yytable, yycheck, yypact, Beneath, Indexed
<1> QED BY <1>1, <1>2, <1>3, <1>4, <1>5, <1>6 DEF Edge, BAD

\* Where a rule goes after its right-hand side is along an edge, to a state of its left.
LEMMA GotoEdge ==
    ASSUME NEW s \in 0 .. 33, NEW left \in {21, 22, 23, 24, 25}, left = 24 => s = 4
    PROVE  Edge(s, GotoState(s, left)) /\ yystos[GotoState(s, left)] = left
<1>1. /\ left = 21 => yypgoto[left - 19] = -13 /\ yydefgoto[left - 19] = 10
      /\ left = 22 => yypgoto[left - 19] = 0 /\ yydefgoto[left - 19] = 11
      /\ left = 23 => yypgoto[left - 19] = -10 /\ yydefgoto[left - 19] = 12
      /\ left = 24 => yypgoto[left - 19] = -14 /\ yydefgoto[left - 19] = 15
      /\ left = 25 => yypgoto[left - 19] = -14 /\ yydefgoto[left - 19] = 13
  BY DEF yypgoto, yydefgoto, Indexed
<1>2. DOMAIN yytable = 0 .. 30
  BY DEF yytable, Indexed
<1>3. GotoState(s, left) = IF yypgoto[left - 19] + s \in 0 .. 30 /\ yycheck[yypgoto[left - 19] + s] = s
                           THEN yytable[yypgoto[left - 19] + s] ELSE yydefgoto[left - 19]
  BY <1>2 DEF GotoState, Entry, YYNTOKENS
<1>4. CASE left = 21
  <2>1. GotoState(s, left) = IF s = 15 THEN 25 ELSE IF s = 24 THEN 31 ELSE 10
    BY <1>1, <1>3, <1>4 DEF yytable, yycheck, Indexed
  <2> QED BY <2>1, <1>4 DEF Edge, Beneath, Depth, yystos, Indexed
<1>5. CASE left = 22
  <2>1. GotoState(s, left) = IF s = 18 THEN 26 ELSE 11
    BY <1>1, <1>3, <1>5 DEF yytable, yycheck, Indexed
  <2> QED BY <2>1, <1>5 DEF Edge, Beneath, Depth, yystos, Indexed
<1>6. CASE left = 23
  <2>1. GotoState(s, left) = IF s \in {11, 26} THEN 19 ELSE 12
    BY <1>1, <1>3, <1>6 DEF yytable, yycheck, Indexed
  <2> QED BY <2>1, <1>6 DEF Edge, Beneath, Depth, yystos, Indexed
<1>7. CASE left = 24
  <2>1. GotoState(s, left) = 15
    BY <1>1, <1>3, <1>7 DEF yytable, yycheck, Indexed
  <2> QED BY <2>1, <1>7 DEF Edge, Beneath, Depth, yystos, Indexed
<1>8. CASE left = 25
  <2>1. GotoState(s, left) = 13
    BY <1>1, <1>3, <1>8 DEF yytable, yycheck, Indexed
  <2> QED BY <2>1, <1>8 DEF Edge, Beneath, Depth, yystos, Indexed
<1> QED BY <1>4, <1>5, <1>6, <1>7, <1>8

-----------------------------------------------------------------------------
(* The stacks, as the invariant knows them.                                *)

\* A value that state s may come with.
Fits(v, s) == SymbolKind(yystos[s]) # "stale" => v.kind = SymbolKind(yystos[s])

\* ss is a path of the automaton from state 0, and vs has a value for each of its states.
Paired(ss, vs) ==
    /\ ss \in Seq(0 .. 33) /\ vs \in Seq({vs[i] : i \in DOMAIN vs})
    /\ Len(ss) >= 1 /\ Len(vs) = Len(ss)
    /\ ss[1] = 0
    /\ \A i \in 2 .. Len(ss) : Edge(ss[i - 1], ss[i]) /\ Fits(vs[i], ss[i])
    /\ \A i \in 1 .. Len(ss) : Depth[ss[i]] <= i - 1

\* A sequence is one of its own elements.
LEMMA SeqOfItsOwn ==
    ASSUME NEW S, NEW s \in Seq(S)
    PROVE  s \in Seq({s[i] : i \in DOMAIN s})
<1>1. s \in [1 .. Len(s) -> {s[i] : i \in DOMAIN s}] /\ Len(s) \in Nat
  OBVIOUS
<1> QED BY <1>1

\* The first elements of a sequence.
LEMMA FrontOfSeq ==
    ASSUME NEW S, NEW s \in Seq(S), NEW n \in 0 .. Len(s)
    PROVE  /\ SubSeq(s, 1, n) \in Seq(S) /\ Len(SubSeq(s, 1, n)) = n
           /\ \A i \in 1 .. n : SubSeq(s, 1, n)[i] = s[i]
<1>1. \A i \in 1 .. n : s[i] \in S
  OBVIOUS
<1> QED BY <1>1, SubSeqProperties

\* An empty stack.
LEMMA EmptyPaired == Paired(<<0>>, <<Stale>>)
<1>1. Depth[0] = 0
  BY DEF Depth, Indexed
<1> QED BY <1>1 DEF Paired

\* A state and its value are pushed,
LEMMA PushPaired ==
    ASSUME NEW ss, NEW vs, NEW q, NEW v, Paired(ss, vs), Edge(ss[Len(ss)], q), Fits(v, q)
    PROVE  Paired(Append(ss, q), Append(vs, v))
<1> DEFINE n == Len(ss)
           V == {vs[i] : i \in DOMAIN vs} \cup {v}
           ss1 == Append(ss, q)
           vs1 == Append(vs, v)
<1>1. /\ ss \in Seq(0 .. 33) /\ vs \in Seq(V) /\ n \in Nat /\ n >= 1 /\ Len(vs) = n
      /\ q \in 0 .. 33 /\ q # 0 /\ v \in V
  BY DEF Paired, Edge
<1>2. /\ ss1 \in Seq(0 .. 33) /\ Len(ss1) = n + 1 /\ ss1[n + 1] = q
      /\ \A i \in 1 .. n : ss1[i] = ss[i]
  BY <1>1
<1>3. /\ vs1 \in Seq(V) /\ Len(vs1) = n + 1 /\ vs1[n + 1] = v
      /\ \A i \in 1 .. n : vs1[i] = vs[i]
  BY <1>1
<1>4. vs1 \in Seq({vs1[i] : i \in DOMAIN vs1})
  BY <1>3, SeqOfItsOwn
<1> HIDE DEF n, ss1, vs1, V
<1>5. ASSUME NEW i \in 2 .. n + 1
      PROVE  Edge(ss1[i - 1], ss1[i]) /\ Fits(vs1[i], ss1[i])
  <2>1. CASE i = n + 1
    BY <2>1, <1>1, <1>2, <1>3 DEF n
  <2>2. CASE i # n + 1
    <3>1. i \in 2 .. n /\ i \in 1 .. n /\ i - 1 \in 1 .. n
      BY <2>2, <1>1
    <3>2. ss1[i - 1] = ss[i - 1] /\ ss1[i] = ss[i] /\ vs1[i] = vs[i]
      BY <3>1, <1>2, <1>3
    <3>3. Edge(ss[i - 1], ss[i]) /\ Fits(vs[i], ss[i])
      BY <3>1 DEF Paired, n
    <3> QED BY <3>2, <3>3
  <2> QED BY <2>1, <2>2
<1>6. ASSUME NEW i \in 1 .. n + 1
      PROVE  Depth[ss1[i]] <= i - 1
  <2>1. CASE i = n + 1
    <3>1. Depth[q] <= Depth[ss[n]] + 1 /\ Depth[ss[n]] <= n - 1 /\ ss[n] \in 0 .. 33
      BY <1>1 DEF Edge, Paired, n
    <3>2. Depth[q] \in Nat /\ Depth[ss[n]] \in Nat
      BY <1>1, <3>1, Tables
    <3> QED BY <1>1, <1>2, <2>1, <3>1, <3>2
  <2>2. CASE i # n + 1
    <3>1. i \in 1 .. n
      BY <2>2, <1>1
    <3> QED BY <3>1, <1>1, <1>2 DEF Paired, n
  <2> QED BY <2>1, <2>2
<1>7. ss1[1] = 0
  BY <1>1, <1>2 DEF Paired
<1>8. Paired(ss1, vs1)
  BY <1>1, <1>2, <1>3, <1>4, <1>5, <1>6, <1>7 DEF Paired
<1> QED BY <1>8 DEF ss1, vs1

\* and the states above the n-th are popped with theirs.
LEMMA PopPaired ==
    ASSUME NEW ss, NEW vs, Paired(ss, vs), NEW n \in 1 .. Len(ss)
    PROVE  /\ Paired(SubSeq(ss, 1, n), SubSeq(vs, 1, n))
           /\ Len(SubSeq(ss, 1, n)) = n /\ SubSeq(ss, 1, n)[n] = ss[n]
<1> DEFINE ss1 == SubSeq(ss, 1, n)
           vs1 == SubSeq(vs, 1, n)
<1>0. PICK V : vs \in Seq(V)
  BY DEF Paired
<1>1. PICK S : S = 0 .. 33 /\ ss \in Seq(S) /\ Len(vs) = Len(ss) /\ n \in 0 .. Len(ss)
  BY DEF Paired
<1>2. /\ ss1 \in Seq(S) /\ Len(ss1) = n
      /\ \A i \in 1 .. n : ss1[i] = ss[i]
  BY <1>1, FrontOfSeq
<1>3. /\ vs1 \in Seq(V) /\ Len(vs1) = n
      /\ \A i \in 1 .. n : vs1[i] = vs[i]
  BY <1>0, <1>1, FrontOfSeq
<1>4. vs1 \in Seq({vs1[i] : i \in DOMAIN vs1})
  BY <1>3, SeqOfItsOwn
<1> HIDE DEF ss1, vs1
<1>5. ss1[1] = 0
  BY <1>1, <1>2 DEF Paired
<1>6. ASSUME NEW i \in 2 .. n
      PROVE  Edge(ss1[i - 1], ss1[i]) /\ Fits(vs1[i], ss1[i])
  <2>1. ss1[i - 1] = ss[i - 1] /\ ss1[i] = ss[i] /\ vs1[i] = vs[i]
    BY <1>2, <1>3
  <2>2. Edge(ss[i - 1], ss[i]) /\ Fits(vs[i], ss[i])
    BY <1>1 DEF Paired
  <2> QED BY <2>1, <2>2
<1>7. \A i \in 1 .. n : Depth[ss1[i]] <= i - 1
  BY <1>1, <1>2 DEF Paired
<1>8. Paired(ss1, vs1)
  BY <1>1, <1>2, <1>3, <1>4, <1>5, <1>6, <1>7 DEF Paired
<1> QED BY <1>2, <1>8 DEF ss1, vs1

\* The member of YYSTYPE that the symbols of these states have.
LEMMA KindsOfStates ==
    ASSUME NEW s \in 0 .. 33
    PROVE  /\ s \in {2, 3, 10, 11, 12, 13, 19, 25, 26, 31} => SymbolKind(yystos[s]) = "re"
           /\ s = 1  => SymbolKind(yystos[s]) = "ch"
           /\ s = 15 => SymbolKind(yystos[s]) = "group"
           /\ s = 20 => SymbolKind(yystos[s]) = "cquant"
<1>1. /\ s \in {2, 3, 10, 11, 12, 13, 19, 25, 26, 31} => yystos[s] \in {7, 8, 21, 22, 23, 25}
      /\ s = 1  => yystos[s] = 3
      /\ s = 15 => yystos[s] = 24
      /\ s = 20 => yystos[s] = 6
  BY DEF yystos, Indexed
<1> QED
  BY <1>1 DEF SymbolKind, TokenKind, TokenNumbers, CHAR, DOLLAR, CLASS, ASSERTION, CQUANT

\* The states that a rule is reduced in, and how long it is.
LEMMA StatesOfRules ==
    ASSUME NEW s \in 0 .. 33, NEW rule, rule = yydefact[s]
    PROVE  /\ rule \in {3, 5, 8, 24, 25} => s \in {2, 3, 11, 12, 13} /\ yyr2[rule] = 1
           /\ rule = 20 => s = 1 /\ yyr2[rule] = 1
           /\ rule = 2  => s = 17 /\ yyr2[rule] = 2
           /\ rule = 6  => s = 19 /\ yyr2[rule] = 2
           /\ rule \in {9, 11, 13} => s \in 21 .. 23 /\ yyr2[rule] = 2
           /\ rule \in {10, 12, 14} => s \in 28 .. 30 /\ yyr2[rule] = 3
           /\ rule = 15 => s = 20 /\ yyr2[rule] = 2
           /\ rule = 16 => s = 27 /\ yyr2[rule] = 3
           /\ rule = 4  => s = 26 /\ yyr2[rule] = 3
           /\ rule = 18 => s = 32 /\ yyr2[rule] = 4
           /\ rule = 19 => s = 33 /\ yyr2[rule] = 5
<1>1. \A r \in 0 .. 26 :
        /\ r \in {3, 5, 8, 20, 24, 25} => yyr2[r] = 1
        /\ r \in {2, 6, 9, 11, 13, 15} => yyr2[r] = 2
        /\ r \in {4, 10, 12, 14, 16}   => yyr2[r] = 3
        /\ r = 18 => yyr2[r] = 4
        /\ r = 19 => yyr2[r] = 5
  BY DEF yyr2, Indexed
<1>2. /\ yydefact[s] \in {3, 5, 8, 24, 25} => s \in {2, 3, 11, 12, 13}
      /\ yydefact[s] = 20 => s = 1
      /\ yydefact[s] = 2  => s = 17
      /\ yydefact[s] = 6  => s = 19
      /\ yydefact[s] \in {9, 11, 13} => s \in 21 .. 23
      /\ yydefact[s] \in {10, 12, 14} => s \in 28 .. 30
      /\ yydefact[s] = 15 => s = 20
      /\ yydefact[s] = 16 => s = 27
      /\ yydefact[s] = 4  => s = 26
      /\ yydefact[s] = 18 => s = 32
      /\ yydefact[s] = 19 => s = 33
  BY DEF yydefact, Indexed
<1> QED BY <1>1, <1>2

\* Of the top n states of a stack and their values: what the values are, and which state
\* is beneath which.
Piled(ss, vs, n) ==
    /\ \A i \in 1 .. n : ss[i] \in 0 .. 33
    /\ \A i \in 2 .. n :
        /\ ss[i] \in {2, 3, 10, 11, 12, 13, 19, 25, 26, 31} => vs[i].kind = "re"
        /\ ss[i] = 1  => vs[i].kind = "ch"
        /\ ss[i] = 15 => vs[i].kind = "group"
        /\ ss[i] = 20 => vs[i].kind = "cquant"
        /\ Beneath(ss[i - 1], ss[i])

\* The stacks pile up so.
LEMMA PairedPiles ==
    ASSUME NEW ss, NEW vs, Paired(ss, vs)
    PROVE  Piled(ss, vs, Len(ss))
<1>1. \A i \in 1 .. Len(ss) : ss[i] \in 0 .. 33
  <2>1. PICK S : S = 0 .. 33 /\ ss \in Seq(S)
    BY DEF Paired
  <2>2. \A i \in 1 .. Len(ss) : ss[i] \in S
    BY <2>1, ElementOfSeq
  <2> QED BY <2>1, <2>2
<1>2. ASSUME NEW i \in 2 .. Len(ss)
      PROVE  /\ ss[i] \in {2, 3, 10, 11, 12, 13, 19, 25, 26, 31} => vs[i].kind = "re"
             /\ ss[i] = 1  => vs[i].kind = "ch"
             /\ ss[i] = 15 => vs[i].kind = "group"
             /\ ss[i] = 20 => vs[i].kind = "cquant"
             /\ Beneath(ss[i - 1], ss[i])
  <2>1. Fits(vs[i], ss[i]) /\ Edge(ss[i - 1], ss[i])
    BY DEF Paired
  <2>2. Beneath(ss[i - 1], ss[i]) /\ ss[i] \in 0 .. 33
    BY <2>1 DEF Edge
  <2>3. SymbolKind(yystos[ss[i]]) # "stale" => vs[i].kind = SymbolKind(yystos[ss[i]])
    BY <2>1 DEF Fits
  <2>4. PICK k : k = SymbolKind(yystos[ss[i]])
    OBVIOUS
  <2>5. /\ ss[i] \in {2, 3, 10, 11, 12, 13, 19, 25, 26, 31} => k = "re"
        /\ ss[i] = 1  => k = "ch"
        /\ ss[i] = 15 => k = "group"
        /\ ss[i] = 20 => k = "cquant"
    BY <2>2, <2>4, KindsOfStates
  <2>6. k # "stale" => vs[i].kind = k
    BY <2>3, <2>4
  <2> QED BY <2>2, <2>5, <2>6
<1> QED BY <1>1, <1>2 DEF Piled

\* The members that a rule reads are those of the values above the first below ones.
Written(rule, vs, below) ==
    \A m \in MembersRead(rule) : m[1] \in 1 .. yyr2[rule] /\ vs[below + m[1]].kind = m[2]

\* A reduction has its right-hand side above the initial state,
LEMMA RightHandSide ==
    ASSUME NEW ss, NEW vs, Paired(ss, vs), NEW rule, rule = yydefact[ss[Len(ss)]]
    PROVE  /\ Len(ss) \in Nat /\ ss[Len(ss)] \in 0 .. 33 /\ rule \in 0 .. 26
           /\ yyr2[rule] \in Nat /\ yyr2[rule] < Len(ss)
<1>1. Len(ss) \in Nat /\ Len(ss) \in 1 .. Len(ss) /\ ss[Len(ss)] \in 0 .. 33
  BY DEF Paired
<1>2. PICK s \in 0 .. 33 : s = ss[Len(ss)] /\ rule = yydefact[s]
  BY <1>1
<1>3. Depth[s] <= Len(ss) - 1 /\ Depth[s] \in Nat
  BY <1>1, <1>2, Tables DEF Paired
<1>4. rule \in 0 .. 26
  BY <1>2, Tables
<1>5. yyr2[rule] \in Nat /\ yyr2[rule] <= Depth[s]
  BY <1>2, <1>4, Tables, RulesFit
<1> QED BY <1>1, <1>3, <1>4, <1>5

\* and its action reads the members of YYSTYPE that were written.
LEMMA MembersWritten ==
    ASSUME NEW n \in Nat, NEW ss, NEW vs, Piled(ss, vs, n), ss[n] \in 0 .. 33,
           NEW rule \in 0 .. 26, rule = yydefact[ss[n]], yyr2[rule] \in Nat, yyr2[rule] < n
    PROVE  Written(rule, vs, n - yyr2[rule])
<1> SUFFICES ASSUME NEW s \in 0 .. 33, s = ss[n], rule = yydefact[s],
                    NEW len \in Nat, len = yyr2[rule], len < n, NEW below, below = n - len
             PROVE  \A m \in MembersRead(rule) :
                        m[1] \in 1 .. len /\ vs[below + m[1]].kind = m[2]
  BY DEF Written
<1>0. /\ rule \in {3, 5, 8, 24, 25} => s \in {2, 3, 11, 12, 13}
      /\ rule = 20 => s = 1
      /\ rule = 4  => s = 26 /\ len = 3
      /\ rule = 6  => s = 19 /\ len = 2
      /\ rule = 15 => s = 20 /\ len = 2
      /\ rule = 16 => s = 27 /\ len = 3
      /\ rule = 18 => s = 32 /\ len = 4
      /\ rule = 19 => s = 33 /\ len = 5
  BY StatesOfRules
<1>1. ASSUME NEW i \in 2 .. n
      PROVE  /\ ss[i] \in {2, 3, 10, 11, 12, 13, 19, 25, 26, 31} => vs[i].kind = "re"
             /\ ss[i] = 1  => vs[i].kind = "ch"
             /\ ss[i] = 15 => vs[i].kind = "group"
             /\ ss[i] = 20 => vs[i].kind = "cquant"
  BY DEF Piled
<1>2. ASSUME NEW i \in 2 .. n, NEW j, j = i - 1
      PROVE  Beneath(ss[j], ss[i])
  <2>1. Beneath(ss[i - 1], ss[i])
    BY DEF Piled
  <2> QED BY <2>1, <1>2
<1>3. PICK a, b : a = n - 1 /\ b = n - 2
  OBVIOUS
<1>4. /\ n \in 2 .. n => Beneath(ss[a], s)
      /\ a \in 2 .. n => Beneath(ss[b], ss[a])
  BY <1>2, <1>3
<1>5. CASE rule \in {3, 5, 8, 20, 24, 25}
  <2>1. len = 1 /\ below + 1 = n /\ n \in 2 .. n
    BY <1>5, StatesOfRules
  <2>2. rule = 20 => vs[n].kind = "ch"
    BY <2>1, <1>0, <1>1
  <2>3. rule # 20 => vs[n].kind = "re"
    BY <2>1, <1>5, <1>0, <1>1
  <2>4. MembersRead(rule) = IF rule = 20 THEN {<<1, "ch">>} ELSE {<<1, "re">>}
    BY <1>5 DEF MembersRead
  <2> QED BY <2>1, <2>2, <2>3, <2>4
<1>6. CASE rule \in {2, 9, 11, 13}
  <2>1. len = 2 /\ below + 1 = a /\ a \in 2 .. n /\ (s = 17 \/ s \in 21 .. 23)
    BY <1>6, <1>3, StatesOfRules
  <2>2. ss[a] \in {10, 13}
    BY <2>1, <1>4 DEF Beneath
  <2>3. vs[a].kind = "re"
    BY <2>1, <2>2, <1>1
  <2>4. MembersRead(rule) = {<<1, "re">>}
    BY <1>6 DEF MembersRead
  <2> QED BY <2>1, <2>3, <2>4
<1>7. CASE rule \in {10, 12, 14}
  <2>1. len = 3 /\ below + 1 = b /\ a \in 2 .. n /\ b \in 2 .. n /\ s \in 28 .. 30
    BY <1>7, <1>3, StatesOfRules
  <2>2. ss[a] \in 21 .. 23
    BY <2>1, <1>4 DEF Beneath
  <2>3. ss[b] = 13
    BY <2>1, <2>2, <1>4 DEF Beneath
  <2>4. vs[b].kind = "re"
    BY <2>1, <2>3, <1>1
  <2>5. MembersRead(rule) = {<<1, "re">>}
    BY <1>7 DEF MembersRead
  <2> QED BY <2>1, <2>4, <2>5
<1>8. CASE rule = 6
  <2>0. s = 19 /\ len = 2
    BY <1>8, <1>0
  <2>1. /\ len = 2 /\ below + 1 = a /\ below + 2 = n
        /\ n \in 2 .. n /\ a \in 2 .. n /\ s = 19
    BY <2>0, <1>3
  <2>2. ss[a] \in {11, 26}
    BY <2>1, <1>4 DEF Beneath
  <2>3. vs[a].kind = "re" /\ vs[n].kind = "re"
    BY <2>1, <2>2, <1>1
  <2>4. MembersRead(rule) = {<<1, "re">>, <<2, "re">>}
    BY <1>8 DEF MembersRead
  <2> QED BY <2>1, <2>3, <2>4
<1>9. CASE rule = 4
  <2>0. s = 26 /\ len = 3
    BY <1>9, <1>0
  <2>1. /\ len = 3 /\ below + 1 = b /\ below + 3 = n
        /\ n \in 2 .. n /\ a \in 2 .. n /\ b \in 2 .. n /\ s = 26
    BY <2>0, <1>3
  <2>2. ss[a] = 18
    BY <2>1, <1>4 DEF Beneath
  <2>3. ss[b] \in {10, 25, 31}
    BY <2>1, <2>2, <1>4 DEF Beneath
  <2>4. vs[b].kind = "re" /\ vs[n].kind = "re"
    BY <2>1, <2>3, <1>1
  <2>5. MembersRead(rule) = {<<1, "re">>, <<3, "re">>}
    BY <1>9 DEF MembersRead
  <2> QED BY <2>1, <2>4, <2>5
<1>10. CASE rule = 15
  <2>0. s = 20 /\ len = 2
    BY <1>10, <1>0
  <2>1. /\ len = 2 /\ below + 1 = a /\ below + 2 = n
        /\ n \in 2 .. n /\ a \in 2 .. n /\ s = 20
    BY <2>0, <1>3
  <2>2. ss[a] = 13
    BY <2>1, <1>4 DEF Beneath
  <2>3. vs[a].kind = "re" /\ vs[n].kind = "cquant"
    BY <2>1, <2>2, <1>1
  <2>4. MembersRead(rule) = {<<1, "re">>, <<2, "cquant">>}
    BY <1>10 DEF MembersRead
  <2> QED BY <2>1, <2>3, <2>4
<1>11. CASE rule = 16
  <2>0. s = 27 /\ len = 3
    BY <1>11, <1>0
  <2>1. /\ len = 3 /\ below + 1 = b /\ below + 2 = a
        /\ a \in 2 .. n /\ b \in 2 .. n /\ s = 27
    BY <2>0, <1>3
  <2>2. ss[a] = 20
    BY <2>1, <1>4 DEF Beneath
  <2>3. ss[b] = 13
    BY <2>1, <2>2, <1>4 DEF Beneath
  <2>4. vs[b].kind = "re" /\ vs[a].kind = "cquant"
    BY <2>1, <2>2, <2>3, <1>1
  <2>5. MembersRead(rule) = {<<1, "re">>, <<2, "cquant">>}
    BY <1>11 DEF MembersRead
  <2> QED BY <2>1, <2>4, <2>5
<1>12. CASE rule = 18
  <2>0. s = 32 /\ len = 4
    BY <1>12, <1>0
  <2>1. /\ len = 4 /\ below + 2 = b /\ below + 3 = a
        /\ a \in 2 .. n /\ b \in 2 .. n /\ s = 32
    BY <2>0, <1>3
  <2>2. ss[a] = 25
    BY <2>1, <1>4 DEF Beneath
  <2>3. ss[b] = 15
    BY <2>1, <2>2, <1>4 DEF Beneath
  <2>4. vs[b].kind = "group" /\ vs[a].kind = "re"
    BY <2>1, <2>2, <2>3, <1>1
  <2>5. MembersRead(rule) = {<<2, "group">>, <<3, "re">>}
    BY <1>12 DEF MembersRead
  <2> QED BY <2>1, <2>4, <2>5
<1>13. CASE rule = 19
  <2>0. s = 33 /\ len = 5
    BY <1>13, <1>0
  <2>1. len = 5 /\ below + 4 = a /\ a \in 2 .. n /\ s = 33
    BY <2>0, <1>3
  <2>2. ss[a] = 31
    BY <2>1, <1>4 DEF Beneath
  <2>3. vs[a].kind = "re"
    BY <2>1, <2>2, <1>1
  <2>4. MembersRead(rule) = {<<4, "re">>}
    BY <1>13 DEF MembersRead
  <2> QED BY <2>1, <2>3, <2>4
<1>14. CASE rule \in {0, 1, 7, 17, 21, 22, 23, 26}
  <2>1. MembersRead(rule) = {}
    BY <1>14 DEF MembersRead
  <2> QED BY <2>1
<1> QED
  BY <1>5, <1>6, <1>7, <1>8, <1>9, <1>10, <1>11, <1>12, <1>13, <1>14

\* What the left side of a rule is: only rule 17 gives a group number.
LEMMA LeftSides ==
    ASSUME NEW rule \in 3 .. 26
    PROVE  /\ yyr1[rule] \in {21, 22, 23, 24, 25}
           /\ yyr1[rule] = 24 <=> rule = 17
           /\ rule = 17 => yyr2[rule] = 0
           /\ SymbolKind(yyr1[rule]) = IF rule = 17 THEN "group" ELSE "re"
<1>1. yyr1[rule] \in {21, 22, 23, 24, 25}
  BY Tables
<1>2. yyr1[rule] = 24 <=> rule = 17
  BY DEF yyr1, Indexed
<1>3. yyr2[17] = 0
  BY DEF yyr2, Indexed
<1>4. PICK left \in {21, 22, 23, 24, 25} : left = yyr1[rule]
  BY <1>1
<1>5. SymbolKind(left) = IF left = 24 THEN "group" ELSE "re"
  BY DEF SymbolKind, TokenNumbers, CHAR, DOLLAR
<1> QED BY <1>1, <1>2, <1>3, <1>4, <1>5

\* The action of a rule sets that member.
LEMMA ReducedKind ==
    ASSUME NEW rule \in 3 .. 26, NEW a, NEW n, NEW caseless
    PROVE  Reduced(rule, a, n, caseless).kind = IF rule = 17 THEN "group" ELSE "re"
<1>1. CASE rule = 17
  BY <1>1 DEF Reduced, GroupValue
<1>2. CASE rule # 17
  <2>1. \E re : Reduced(rule, a, n, caseless) = TreeValue(re)
    BY <1>2 DEF Reduced
  <2> QED BY <1>2, <2>1 DEF TreeValue
<1> QED BY <1>1, <1>2

\* No stack has a state that only the rule of $accept is reduced in at its top.
LEMMA RulesOfStacks ==
    ASSUME NEW ss, NEW vs, Paired(ss, vs), yydefact[ss[Len(ss)]] \notin {0, 2}
    PROVE  yydefact[ss[Len(ss)]] \in 3 .. 26
<1>0. PICK rule : rule = yydefact[ss[Len(ss)]]
  OBVIOUS
<1>1. Len(ss) \in Nat /\ Len(ss) >= 1 /\ ss[Len(ss)] \in 0 .. 33
  BY <1>0, RightHandSide DEF Paired
<1>2. ss[Len(ss)] # 16
  <2>1. CASE Len(ss) = 1
    BY <2>1 DEF Paired
  <2>2. CASE Len(ss) # 1
    <3>1. PICK n : n = Len(ss)
      OBVIOUS
    <3>2. n \in 2 .. Len(ss)
      BY <1>1, <2>2, <3>1
    <3>3. Edge(ss[n - 1], ss[n])
      BY <3>2 DEF Paired
    <3> QED BY <3>1, <3>3 DEF Edge
  <2> QED BY <2>1, <2>2
<1>3. PICK s \in 0 .. 33 : s = ss[Len(ss)]
  BY <1>1
<1>4. yydefact[s] \in 0 .. 26 /\ yydefact[s] # 1
  BY <1>2, <1>3, Tables, RulesFit
<1> QED BY <1>3, <1>4

-----------------------------------------------------------------------------
(* The inductive invariant.                                                *)

\* What the parser has of the call, its regex and its lookahead token.
TokensSound ==
    /\ call \in Calls /\ at \in 0 .. Len(call.regexes)
    /\ src \in Nat /\ (at = 0 => src = 0)
    /\ yychar # NoToken =>
        /\ yychar.token \in TokenNumbers
        /\ TokenKind(yychar.token) # "stale" => yychar.value.kind = TokenKind(yychar.token)
    /\ ReadsStayInside

IInv == Paired(yyss, yyvs) /\ TokensSound

\* A call has a list of regexes, each a string of bytes.
LEMMA CallShape ==
    ASSUME NEW c \in Calls
    PROVE  /\ Len(c.regexes) \in Nat /\ DOMAIN c.regexes = 1 .. Len(c.regexes)
           /\ \A k \in 1 .. Len(c.regexes) : Len(c.regexes[k].src) \in Nat
<1>1. PICK R : R = [src : Seq(1 .. 255), caseless : BOOLEAN] /\ c.regexes \in Seq(R)
  BY CallsAssumption
<1>2. \A r \in R : Len(r.src) \in Nat
  BY <1>1
<1> QED BY <1>1, <1>2

\* What yylex returns when the parser asks it.
LEMMA WhatIsRead ==
    ASSUME TokensSound, Parsing, yychar = NoToken
    PROVE  /\ IsToken(Lex(Regex.src, src), Regex.src, src)
           /\ Len(Regex.src) \in Nat /\ src \in 0 .. Len(Regex.src)
<1>1. /\ call \in Calls /\ at \in 1 .. Len(call.regexes)
      /\ Len(call.regexes) \in Nat /\ DOMAIN call.regexes = 1 .. Len(call.regexes)
      /\ Len(Regex.src) \in Nat
  BY CallShape DEF TokensSound, Parsing, Regex
<1>2. src \in 0 .. Len(Regex.src)
  BY <1>1 DEF TokensSound, ReadsStayInside, Parsing
<1>3. IsToken(Lex(Regex.src, src), Regex.src, src)
  BY <1>1, <1>2, LexAssumption DEF Regex
<1> QED BY <1>1, <1>2, <1>3

\* A call begins with an empty stack and nothing read.
LEMMA InitSound == Init => IInv
<1> SUFFICES ASSUME Init PROVE IInv
  OBVIOUS
<1>1. Paired(yyss, yyvs)
  BY EmptyPaired DEF Init
<1>2. TokensSound
  BY CallShape DEF Init, TokensSound, ReadsStayInside
<1> QED BY <1>1, <1>2 DEF IInv

\* Whether the token that is looked at is one that may be shifted.
LEMMA WhatIsShifted ==
    ASSUME IInv, Decided, ShiftsTo # 0
    PROVE  /\ yychar # NoToken /\ yychar.token \in TokenNumbers \ {BAD}
           /\ Edge(Top, ShiftsTo) /\ Fits(yychar.value, ShiftsTo)
           /\ at > 0 => src <= Len(Regex.src)
<1>1. ~NeedsNoToken(Top) /\ ShiftsTo = ShiftTo(Top, yychar.token) /\ yychar # NoToken
  BY DEF ShiftsTo, Decided
<1>2. /\ yychar.token \in TokenNumbers
      /\ TokenKind(yychar.token) # "stale" => yychar.value.kind = TokenKind(yychar.token)
  BY <1>1 DEF IInv, TokensSound
<1>3. PICK rule : rule = yydefact[yyss[Len(yyss)]]
  OBVIOUS
<1>4. Top \in 0 .. 33
  BY <1>3, RightHandSide DEF Top, IInv
<1>5. /\ Edge(Top, ShiftsTo) /\ yychar.token # BAD
      /\ yystos[ShiftsTo] = yychar.token
  BY <1>1, <1>2, <1>4, ShiftEdge
<1>6. SymbolKind(yystos[ShiftsTo]) = TokenKind(yychar.token)
  BY <1>2, <1>5 DEF SymbolKind
<1>7. Fits(yychar.value, ShiftsTo)
  BY <1>2, <1>6 DEF Fits
<1>8. at > 0 => src <= Len(Regex.src)
  <2>1. at > 0 => ~(src > Len(Regex.src))
    BY <1>5 DEF IInv, TokensSound, ReadsStayInside
  <2>2. at > 0 => Len(Regex.src) \in Nat
    BY CallShape DEF Regex, IInv, TokensSound
  <2> QED BY <2>1, <2>2 DEF IInv, TokensSound
<1> QED BY <1>1, <1>2, <1>5, <1>7, <1>8

\* Where a reduction leads, from the state beneath its right-hand side.
LEMMA WhereReduced ==
    ASSUME IInv, Reducing, Rule # 2, NEW value,
           value.kind = IF Rule = 17 THEN "group" ELSE "re"
    PROVE  Paired(Append(SubSeq(yyss, 1, Below), GotoState(yyss[Below], yyr1[Rule])),
                  Append(SubSeq(yyvs, 1, Below), value))
<1>1. PICK rule : rule = Rule /\ rule = yydefact[yyss[Len(yyss)]]
  BY DEF Rule, Top
<1>2. /\ Paired(yyss, yyvs) /\ rule # 0 /\ rule # 2
  BY <1>1 DEF IInv, Reducing, Rule
<1>3. rule \in 3 .. 26
  BY <1>1, <1>2, RulesOfStacks
<1>4. /\ Len(yyss) \in Nat /\ yyss[Len(yyss)] \in 0 .. 33
      /\ yyr2[rule] \in Nat /\ yyr2[rule] < Len(yyss)
  BY <1>1, <1>2, RightHandSide
<1>5. PICK below \in 1 .. Len(yyss) : below = Below /\ below = Len(yyss) - yyr2[rule]
  BY <1>1, <1>4 DEF Below
<1>6. PICK ss, vs : ss = SubSeq(yyss, 1, below) /\ vs = SubSeq(yyvs, 1, below)
  OBVIOUS
<1>7. Paired(ss, vs) /\ Len(ss) = below /\ ss[below] = yyss[below]
  BY <1>2, <1>5, <1>6, PopPaired
<1>8. PICK s \in 0 .. 33 : s = yyss[below]
  BY <1>2, <1>5, PairedPiles DEF Piled
<1>9. PICK left \in {21, 22, 23, 24, 25} : left = yyr1[rule]
  BY <1>3, LeftSides
<1>10. left = 24 => s = 4
  <2>1. left = 24 => rule = 17 /\ yyr2[rule] = 0
    BY <1>3, <1>9, LeftSides
  <2>2. PICK top \in 0 .. 33 : top = yyss[Len(yyss)]
    BY <1>4
  <2>3. rule = 17 => top = 4
    BY <1>1, <2>2, RulesFit
  <2>4. left = 24 => top = s
    BY <1>4, <1>5, <1>8, <2>1, <2>2
  <2> QED BY <2>1, <2>3, <2>4
<1>11. PICK q : q = GotoState(s, left)
  OBVIOUS
<1>12. Edge(s, q) /\ yystos[q] = left
  BY <1>10, <1>11, GotoEdge
<1>13. Fits(value, q)
  <2>1. SymbolKind(left) = value.kind
    BY <1>1, <1>3, <1>9, LeftSides
  <2> QED BY <1>12, <2>1 DEF Fits
<1>14. Paired(Append(ss, q), Append(vs, value))
  BY <1>7, <1>8, <1>12, <1>13, PushPaired
<1> QED BY <1>1, <1>5, <1>6, <1>8, <1>9, <1>11, <1>14

\* Every step keeps the invariant.
LEMMA StepSound == IInv /\ [Next]_vars => IInv'
<1> SUFFICES ASSUME IInv, [Next]_vars PROVE IInv'
  OBVIOUS
<1>1. Paired(yyss, yyvs) /\ TokensSound
  BY DEF IInv
<1>2. ASSUME UNCHANGED <<yyss, yyvs, call, at, src, yychar>>
      PROVE  IInv'
  <2>1. Paired(yyss, yyvs)'
    BY <1>1, <1>2
  <2>2. TokensSound'
    BY <1>1, <1>2 DEF TokensSound, ReadsStayInside, Regex
  <2> QED BY <2>1, <2>2 DEF IInv
<1>3. ASSUME UNCHANGED <<call, at, src, yychar>>, Paired(yyss, yyvs)'
      PROVE  IInv'
  BY <1>1, <1>3 DEF IInv, TokensSound, ReadsStayInside, Regex
<1>4. CASE Begin
  <2>1. Paired(yyss, yyvs)'
    BY <1>1, <1>4 DEF Begin, stacks
  <2>2. /\ call \in Calls /\ call' = call /\ src = 0 /\ src' = 0 /\ yychar' = yychar
        /\ at' = 1 /\ call.regexes # <<>>
    BY <1>1, <1>4 DEF Begin, TokensSound
  <2>3. Len(call.regexes) \in Nat /\ Len(call.regexes) >= 1
    <3>1. PICK R : call.regexes \in Seq(R)
      BY <2>2, CallsAssumption
    <3> QED BY <2>2, <3>1
  <2>4. Len(call.regexes[1].src) \in Nat
    BY <2>2, <2>3, CallShape
  <2>5. TokensSound'
    BY <1>1, <2>2, <2>3, <2>4 DEF TokensSound, ReadsStayInside, Regex
  <2> QED BY <2>1, <2>5 DEF IInv
<1>5. CASE ReadToken
  <2>1. /\ yychar = NoToken /\ Parsing /\ yychar' = Lex(Regex.src, src) /\ src' = yychar'.next
        /\ UNCHANGED <<call, at, yyss, yyvs>>
    BY <1>5 DEF ReadToken, Ready, caller, stacks
  <2>2. /\ IsToken(yychar', Regex.src, src)
        /\ Len(Regex.src) \in Nat /\ src \in 0 .. Len(Regex.src)
    BY <1>1, <2>1, WhatIsRead
  <2>3. /\ src' \in 0 .. Len(Regex.src) + 1 /\ yychar'.token \in TokenNumbers
        /\ TokenKind(yychar'.token) # "stale" => yychar'.value.kind = TokenKind(yychar'.token)
        /\ src' > Len(Regex.src) => yychar'.token = BAD
    BY <2>1, <2>2 DEF IsToken
  <2>4. Regex' = Regex /\ at > 0
    BY <2>1 DEF Regex, Parsing
  <2>5. TokensSound'
    BY <1>1, <2>1, <2>2, <2>3, <2>4 DEF TokensSound, ReadsStayInside, NoToken, BAD
  <2>6. Paired(yyss, yyvs)'
    BY <1>1, <2>1
  <2> QED BY <2>5, <2>6 DEF IInv
<1>6. CASE ReadRefused
  <2>1. /\ yychar = NoToken /\ Parsing /\ UNCHANGED <<call, at, yyss, yyvs>>
        /\ \E read \in {Lex(Regex.src, src)} :
              yychar' = [read EXCEPT !.token = BAD, !.value = Stale]
        /\ src' = yychar'.next
    BY <1>6 DEF ReadRefused, Ready, caller, stacks
  <2>2. PICK read : /\ read = Lex(Regex.src, src)
                    /\ yychar' = [read EXCEPT !.token = BAD, !.value = Stale]
    BY <2>1
  <2>3. /\ IsToken(read, Regex.src, src)
        /\ Len(Regex.src) \in Nat /\ src \in 0 .. Len(Regex.src)
    BY <1>1, <2>1, <2>2, WhatIsRead
  <2>4. yychar' = Token(BAD, Stale, read.pos, read.next)
    BY <2>2, <2>3 DEF IsToken, Token
  <2>5. src' \in 0 .. Len(Regex.src) + 1 /\ yychar'.token = BAD
    <3>1. yychar'.token = BAD /\ yychar'.next = read.next
      BY <2>4 DEF Token
    <3>2. read.next \in src .. Len(Regex.src) + 1
      BY <2>3 DEF IsToken
    <3> QED BY <2>1, <2>3, <3>1, <3>2
  <2>6. BAD \in TokenNumbers /\ TokenKind(BAD) = "stale" /\ yychar' # NoToken
    BY <2>5 DEF BAD, TokenNumbers, CHAR, DOLLAR, TokenKind, CLASS, ASSERTION, CQUANT, NoToken
  <2>7. Regex' = Regex /\ at > 0
    BY <2>1 DEF Regex, Parsing
  <2>8. TokensSound'
    BY <1>1, <2>1, <2>3, <2>5, <2>6, <2>7 DEF TokensSound, ReadsStayInside
  <2>9. Paired(yyss, yyvs)'
    BY <1>1, <2>1
  <2> QED BY <2>8, <2>9 DEF IInv
<1>7. CASE Shift
  <2>1. /\ Decided /\ ShiftsTo # 0 /\ yychar' = NoToken
        /\ yyss' = Append(yyss, ShiftsTo) /\ yyvs' = Append(yyvs, yychar.value)
        /\ UNCHANGED <<call, at, src>>
    BY <1>7 DEF Shift, caller
  <2>2. /\ Edge(yyss[Len(yyss)], ShiftsTo) /\ Fits(yychar.value, ShiftsTo)
        /\ at > 0 => src <= Len(Regex.src)
    BY <2>1, WhatIsShifted DEF Top
  <2>3. Paired(yyss', yyvs')
    <3>1. PICK q, v : q = ShiftsTo /\ v = yychar.value
      OBVIOUS
    <3>2. Paired(Append(yyss, q), Append(yyvs, v))
      BY <1>1, <2>2, <3>1, PushPaired
    <3> QED BY <2>1, <3>1, <3>2
  <2>4. Regex' = Regex /\ (at > 0 => Len(Regex.src) \in Nat)
    BY <1>1, <2>1, CallShape DEF Regex, TokensSound
  <2>5. TokensSound'
    BY <1>1, <2>1, <2>2, <2>4 DEF TokensSound, ReadsStayInside
  <2> QED BY <2>3, <2>5 DEF IInv
<1>8. ASSUME NEW value, Reducing, Rule # 2, ReduceTo(value),
             value.kind = IF Rule = 17 THEN "group" ELSE "re"
      PROVE  IInv'
  <2>1. Paired(yyss', yyvs') /\ UNCHANGED <<call, at, src, yychar>>
    BY <1>8, WhereReduced DEF ReduceTo
  <2> QED BY <1>3, <2>1
<1>9. CASE Reduce
  <2>1. PICK value : /\ value = Reduced(Rule, Args, ncaps, Regex.caseless)
                     /\ Reducing /\ Rule # 2 /\ ReduceTo(value)
    BY <1>9 DEF Reduce
  <2>2. Rule \in 3 .. 26
    BY <1>1, <2>1, RulesOfStacks DEF Reducing, Rule, Top
  <2>3. value.kind = IF Rule = 17 THEN "group" ELSE "re"
    BY <2>1, <2>2, ReducedKind
  <2> QED BY <1>8, <2>1, <2>3
<1>10. CASE ReduceClassRefused
  <2>1. PICK value : /\ value = TreeValue(ClassRefused(Args[1].re))
                     /\ Reducing /\ Rule = 25 /\ ReduceTo(value)
    BY <1>10 DEF ReduceClassRefused
  <2>2. value.kind = IF Rule = 17 THEN "group" ELSE "re"
    BY <2>1 DEF TreeValue
  <2> QED BY <1>8, <2>1, <2>2
<1>11. CASE AcceptOne
  <2>1. /\ call' = call /\ at' = at + 1 /\ src' = 0 /\ yychar' = NoToken
        /\ at > 0 /\ at # Len(call.regexes)
        /\ yyss' = <<0>> /\ yyvs' = <<Stale>>
    BY <1>11 DEF AcceptOne, EmptyStack, LastRegex, Reducing, Decided, Ready, Parsing
  <2>2. Paired(yyss, yyvs)'
    BY <2>1, EmptyPaired
  <2>3. /\ call \in Calls /\ Len(call.regexes) \in Nat
        /\ at' \in 1 .. Len(call.regexes) /\ Len(call.regexes[at'].src) \in Nat
    BY <1>1, <2>1, CallShape DEF TokensSound
  <2>4. TokensSound'
    BY <2>1, <2>3 DEF TokensSound, ReadsStayInside, Regex
  <2> QED BY <2>2, <2>4 DEF IInv
<1>12. CASE BeginFails \/ ExtendStack \/ Exhausted \/ SyntaxError
  BY <1>2, <1>12 DEF BeginFails, ExtendStack, Exhausted, SyntaxError, Fail, caller, stacks
<1>13. CASE ReduceRefused \/ AcceptLast \/ AcceptRefused
  BY <1>2, <1>13 DEF ReduceRefused, AcceptLast, AcceptRefused, Fail, caller, stacks
<1>14. CASE UNCHANGED vars
  BY <1>2, <1>14 DEF vars
<1> QED
  BY <1>4, <1>5, <1>6, <1>7, <1>9, <1>10, <1>11, <1>12, <1>13, <1>14 DEF Next

-----------------------------------------------------------------------------
(* The theorems.                                                           *)

\* The invariant is what StackFits says, and more.
LEMMA StacksFitTogether == IInv => StackFits
<1> SUFFICES ASSUME IInv PROVE StackFits
  OBVIOUS
<1>1. Paired(yyss, yyvs)
  BY DEF IInv
<1>2. Len(yyvs) = Len(yyss) /\ yyss[1] = 0
  BY <1>1 DEF Paired
<1>3. ASSUME NEW i \in 2 .. Len(yyss)
      PROVE  yyss[i] # 0 /\ Fits(yyvs[i], yyss[i])
  <2>1. Edge(yyss[i - 1], yyss[i]) /\ Fits(yyvs[i], yyss[i])
    BY <1>1 DEF Paired
  <2> QED BY <2>1 DEF Edge
<1>4. ASSUME Reducing
      PROVE  /\ Below >= 1
             /\ \A m \in MembersRead(Rule) : Args[m[1]].kind = m[2]
  <2>1. PICK rule : rule = Rule /\ rule = yydefact[yyss[Len(yyss)]]
    BY DEF Rule, Top
  <2>2. PICK n : n = Len(yyss)
    OBVIOUS
  <2>3. /\ n \in Nat /\ yyss[n] \in 0 .. 33 /\ rule \in 0 .. 26
        /\ yyr2[rule] \in Nat /\ yyr2[rule] < n
    BY <1>1, <2>1, <2>2, RightHandSide
  <2>4. PICK len \in Nat : len = yyr2[rule]
    BY <2>3
  <2>5. PICK below \in Nat : below = n - len
    BY <2>3, <2>4
  <2>6. below = Below /\ below >= 1
    <3>1. below = Below
      BY <2>1, <2>2, <2>4, <2>5 DEF Below
    <3>2. below >= 1
      BY <2>3, <2>4, <2>5
    <3> QED BY <3>1, <3>2
  <2>7. Piled(yyss, yyvs, n)
    BY <1>1, <2>2, PairedPiles
  <2>8. rule = yydefact[yyss[n]]
    BY <2>1, <2>2
  <2>9. Written(rule, yyvs, n - yyr2[rule])
    <3>1. PICK ss, vs : ss = yyss /\ vs = yyvs
      OBVIOUS
    <3>2. /\ Piled(ss, vs, n) /\ ss[n] \in 0 .. 33 /\ n \in Nat
          /\ rule \in 0 .. 26 /\ rule = yydefact[ss[n]]
          /\ yyr2[rule] \in Nat /\ yyr2[rule] < n
      BY <2>3, <2>7, <2>8, <3>1
    <3>3. Written(rule, vs, n - yyr2[rule])
      BY ONLY <3>2, MembersWritten
    <3> QED BY <3>1, <3>3
  <2>10. \A m \in MembersRead(rule) : m[1] \in 1 .. len /\ yyvs[below + m[1]].kind = m[2]
    BY <2>4, <2>5, <2>9 DEF Written
  <2>11. ASSUME NEW k \in 1 .. len
        PROVE  Args[k] = yyvs[below + k]
    <3>1. PICK V : yyvs \in Seq(V)
      BY <1>1 DEF Paired
    <3>2. \A i \in below + 1 .. n : yyvs[i] \in V
      BY <1>2, <2>2, <2>3, <2>5, <3>1
    <3>3. \A i \in 1 .. n - (below + 1) + 1 :
             SubSeq(yyvs, below + 1, n)[i] = yyvs[below + 1 + i - 1]
      BY <2>3, <2>5, <3>2, SubSeqProperties
    <3>4. SubSeq(yyvs, below + 1, n)[k] = yyvs[below + k]
      BY <2>3, <2>5, <3>3
    <3> QED BY <1>2, <2>2, <2>6, <3>4 DEF Args
  <2> QED BY <2>1, <2>6, <2>10, <2>11
<1> QED BY <1>2, <1>3, <1>4 DEF StackFits, Fits

\* Whatever the regexes are and however deep the stack may grow, yyparse never reduces a
\* rule whose right-hand side is not on its stack, and never reads a member of YYSTYPE that
\* was not the one written: for the tables that bison has made and the actions of the grammar.
THEOREM StacksFit == Spec => []StackFits
<1>1. IInv /\ [Next]_vars => IInv'
  BY StepSound
<1> QED BY <1>1, InitSound, StacksFitTogether, PTL DEF Spec

\* No regex is read beyond its NUL, and nothing is read after a token that passed it: the
\* automaton has no way on from a bad token.
THEOREM ReadsInside == Spec => []ReadsStayInside
<1>1. IInv /\ [Next]_vars => IInv'
  BY StepSound
<1>2. IInv => ReadsStayInside
  BY DEF IInv, TokensSound
<1> QED BY <1>1, <1>2, InitSound, PTL DEF Spec
=============================================================================
