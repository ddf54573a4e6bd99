------------------------------- MODULE Lexer --------------------------------
(***************************************************************************)
(* The lexer of regexes (yylex of sre_yyparser.c).  A regex is a sequence  *)
(* of bytes; NextToken(s, p) is the token that begins at offset p of s,    *)
(* when memory lasts.  A bad token says how far it has been read, too.     *)
(* RECURSIVE operators: for model checking only.                           *)
(***************************************************************************)
EXTENDS RegexTree, Tokens, SequencesExt

CONSTANTS
    IntWidth   \* 32: the bits of an int, which counts are read into.

-----------------------------------------------------------------------------
(* Bytes, by the characters of ASCII that can be printed. *)

\* The double quote and the back quote, where the tabs are, go by their numbers.
Printed == " !\t#$%&'()*+,-./0123456789:;<=>?@ABCDEFGHIJKLMNOPQRSTUVWXYZ[\\]^_\tabcdefghijklmnopqrstuvwxyz{|}~"

Code == [c \in {SubSeq(Printed, i, i) : i \in 1 .. Len(Printed)} |->
            31 + CHOOSE i \in 1 .. Len(Printed) : SubSeq(Printed, i, i) = c]

\* The bytes of a string, and the set of them.
Bytes(str) == [i \in 1 .. Len(str) |-> Code[SubSeq(str, i, i)]]
OneOf(str) == {Code[SubSeq(str, i, i)] : i \in 1 .. Len(str)}

\* A table by byte: the values that go with some characters.
Table(chars, values) ==
    [c \in OneOf(chars) |->
        values[CHOOSE i \in 1 .. Len(chars) : Code[SubSeq(chars, i, i)] = c]]

Nul == 0
Hyphen == 45
OpenBracket == 91
Backslash == 92
CloseBracket == 93
Circumflex == 94
OpenBrace == 123
CloseBrace == 125
Comma == 44

Digits == OneOf("01234567")
Decimals == Digits \cup OneOf("89")
HexDigits == Decimals \cup OneOf("abcdefABCDEF")
IsPrint(c) == c \in 32 .. 126

\* What **src is at offset p; the bytes end with a NUL.
At(s, p) == IF p < Len(s) THEN s[p + 1] ELSE Nul

DigitValue(c) ==
    IF c \in Decimals THEN c - 48 ELSE IF c >= 97 THEN c - 87 ELSE c - 55

\* How many of the bytes from p on, up to max of them, are in set,
Leading(s, p, set, max) ==
    CHOOSE n \in 0 .. max : /\ \A k \in 0 .. n - 1 : At(s, p + k) \in set
                            /\ n = max \/ At(s, p + n) \notin set

\* and the number that those digits are, what comes after them and where it is.
Numeral(s, p, set, max, base) ==
    LET n == Leading(s, p, set, max)
    IN  [n |-> n, stop |-> At(s, p + n), next |-> p + n,
         num |-> FoldLeft(LAMBDA v, c : base * v + DigitValue(c), 0, SubSeq(s, p + 1, p + n))]

\* The last digits of a number are what an int keeps of it.
Wrapped(v) == ((v + 2 ^ (IntWidth - 1)) % 2 ^ IntWidth) - 2 ^ (IntWidth - 1)

Counted(s, p, n) ==
    FoldLeft(LAMBDA v, c : Wrapped(10 * v + DigitValue(c)), 0, SubSeq(s, p + 1, p + n))

-----------------------------------------------------------------------------
(* Escapes that stand for a byte: [ch, next], or [ch |-> Invalid, next].   *)
(* p is the offset of what follows the letter; strict outside of brackets. *)

Invalid == -1

Byte(c, next)  == [ch |-> c, next |-> next]
NoByte(next)   == [ch |-> Invalid, next |-> next]

\* \1, \12 and \123.
Octal(s, p, strict) ==
    LET d == Numeral(s, p, Digits, 3, 8)
    IN  IF d.num > 255 \/ (strict /\ d.n = 1 /\ d.num # 0) THEN NoByte(d.next)
        ELSE Byte(d.num, d.next)

\* \cK
Control(s, p) ==
    LET c == IF At(s, p) \in 97 .. 122 THEN At(s, p) - 32 ELSE At(s, p)
    IN  IF c = Nul THEN NoByte(p + 1)
        ELSE Byte(IF (c \div 64) % 2 = 1 THEN c - 64 ELSE c + 64, p + 1)

\* \o{123}: anything but a digit or NUL ends the number too, outside of brackets.
BracedOctal(s, p, strict) ==
    LET d == Numeral(s, p + 1, Digits, 3, 8)
    IN  CASE At(s, p) # OpenBrace                    -> NoByte(p + 1)
          [] At(s, p) = OpenBrace /\ d.num > 255     -> NoByte(d.next + 1)
          [] At(s, p) = OpenBrace /\ d.num <= 255    ->
                IF d.stop = CloseBrace THEN Byte(d.num, d.next + 1)
                ELSE IF strict /\ d.n < 3 /\ d.stop # Nul THEN Byte(d.num, d.next)
                ELSE NoByte(d.next + 1)

\* \x{1f} and \x1f.
Hex(s, p, strict) ==
    IF At(s, p) = OpenBrace
    THEN LET d == Numeral(s, p + 1, HexDigits, 2, 16)
         IN  IF d.stop = CloseBrace THEN Byte(d.num, d.next + 1) ELSE NoByte(d.next + 1)
    ELSE LET d == Numeral(s, p, HexDigits, 2, 16)
         IN  IF d.n < 2 /\ d.stop = Nul /\ ~strict THEN NoByte(d.next + 1)
             ELSE Byte(d.num, d.next)

Mnemonics == Table("tnrfae", <<9, 10, 13, 12, 7, 27>>)

Escaped == {34} \cup OneOf("' iM%@!,_-|*+?():.^$&\\/[]{}#")

\* The escapes with a byte for a value that both dialects have: c is the letter.
ByteEscape(s, c, p, strict) ==
    CASE c \in Digits      -> Octal(s, p - 1, strict)
      [] c = Code["c"]     -> Control(s, p)
      [] c = Code["o"]     -> BracedOctal(s, p, strict)
      [] c = Code["x"]     -> Hex(s, p, strict)
      [] c \in DOMAIN Mnemonics -> Byte(Mnemonics[c], p)
      [] OTHER             -> Byte(c, p)

-----------------------------------------------------------------------------
(* Escapes that stand for a class, by their ranges. *)

One(c) == Between(c, c)

DigitRanges == <<Between(48, 57)>>
WordRanges  == <<Upper, Lower, Between(48, 57), One(95)>>
SpaceRanges == <<One(32), One(12), One(10), One(13), One(9)>>
HorizontalRanges == <<One(9), One(32), One(160)>>
VerticalRanges   == <<One(10), One(11), One(12), One(13), One(133)>>

NotDigitRanges == <<Between(0, 47), Between(58, 255)>>
NotWordRanges  == <<Between(0, 47), Between(58, 64), Between(91, 94), One(96),
                    Between(123, 255)>>
NotSpaceRanges == <<Between(0, 8), One(11), Between(14, 31), Between(33, 255)>>
NotHorizontalRanges == <<Between(0, 8), Between(10, 31), Between(33, 159), Between(161, 255)>>
NotVerticalRanges   == <<Between(0, 9), Between(14, 132), Between(134, 255)>>

\* The letters of classes, and of those that are negated.
ClassLetters == OneOf("dwshv")
NegatedLetters == OneOf("DWSHV")

\* What an escape means in brackets,
RangesInClass ==
    Table("dwshvDWSHV",
          <<DigitRanges, WordRanges, SpaceRanges, HorizontalRanges, VerticalRanges,
            NotDigitRanges, NotWordRanges, NotSpaceRanges, NotHorizontalRanges,
            NotVerticalRanges>>)

\* and by itself, as a node.
ClassEscape(c) ==
    CASE c \in ClassLetters   -> ClassValue("class", RangesInClass[c])
      [] c \in NegatedLetters -> ClassValue("nclass", RangesInClass[c + 32])
      [] c = Code["N"]        -> ClassValue("nclass", <<One(10)>>)
      [] c = Code["C"]        -> ClassValue("dot", <<>>)

-----------------------------------------------------------------------------
(* Bracketed classes.  A class being read is [ranges, dash, fixed]: dash   *)
(* says that a "-" waits for the end of the last range, fixed that the     *)
(* last range cannot get another end.                                      *)

EmptyClass == [ranges |-> <<>>, dash |-> FALSE, fixed |-> FALSE]

WithRange(w, range) == [w EXCEPT !.ranges = Append(@, range)]

\* process_char, and NoClass when the range runs backwards.
NoClass == [ranges |-> <<>>]

\* A slip on ProcessChar: a range that has its end may get another one.
ProcessCharAgain(w, c) ==
    LET last == Len(w.ranges)
    IN  IF ~w.dash THEN [WithRange(w, One(c)) EXCEPT !.fixed = FALSE]
        ELSE IF c < w.ranges[last].from THEN NoClass
        ELSE [ranges |-> [w.ranges EXCEPT ![last].to = c], dash |-> FALSE, fixed |-> FALSE]

ProcessChar(w, c) ==
    LET last == Len(w.ranges)
    IN  IF ~w.dash THEN [WithRange(w, One(c)) EXCEPT !.fixed = FALSE]
        ELSE IF c < w.ranges[last].from THEN NoClass
        ELSE [ranges |-> [w.ranges EXCEPT ![last].to = c], dash |-> FALSE, fixed |-> TRUE]

ProcessDash(w) ==
    IF ~w.dash /\ w.ranges # <<>> /\ ~w.fixed THEN [w EXCEPT !.dash = TRUE]
    ELSE ProcessChar(w, Hyphen)

\* A "-" that waits before a class or the closing bracket is itself.
LiteralDash(w) ==
    IF w.dash THEN [WithRange(w, One(Hyphen)) EXCEPT !.dash = FALSE] ELSE w

ProcessSet(w, ranges) ==
    [LiteralDash(w) EXCEPT !.ranges = @ \o ranges, !.fixed = TRUE]

\* What is next in brackets: [is, next], with ch or ranges.
Item(is, next)         == [is |-> is, next |-> next]
CharItem(b)            == [is |-> IF b.ch = Invalid THEN "bad" ELSE "char", ch |-> b.ch,
                           next |-> b.next]
SetItem(ranges, next)  == [is |-> "set", ranges |-> ranges, next |-> next]

EscapedItem(s, e, p) ==
    CASE e = Code["b"] -> CharItem(Byte(8, p))
      [] \/ e # Nul /\ ~IsPrint(e)
         \/ e \in Escaped \cup Digits \cup OneOf("coxzC") \cup DOMAIN Mnemonics ->
             CharItem(ByteEscape(s, e, p, FALSE))
      [] e \in DOMAIN RangesInClass -> SetItem(RangesInClass[e], p)
      [] OTHER -> Item("bad", p)

ClassItem(s, p) ==
    LET c == At(s, p)
    IN  CASE c = Nul          -> Item("bad", p + 1)
          [] c = CloseBracket -> Item("close", p + 1)
          [] c = Hyphen       -> Item("dash", p + 1)
          [] c = Backslash    -> EscapedItem(s, At(s, p + 1), p + 2)
          [] OTHER            -> CharItem(Byte(c, p + 1))

\* The class w with one more item, which a "]" is when it comes first.
WithItem(w, item) ==
    CASE item.is = "char"  -> ProcessChar(w, item.ch)
      [] item.is = "close" -> ProcessChar(w, CloseBracket)
      [] item.is = "dash"  -> ProcessDash(w)
      [] item.is = "set"   -> ProcessSet(w, item.ranges)
      [] item.is = "bad"   -> NoClass

\* The class that w is the beginning of, item comes next in, and where it ends.
RECURSIVE ReadClass(_, _, _)
ReadClass(s, w, item) ==
    IF item.is = "close" /\ w.ranges # <<>>
    THEN [ranges |-> LiteralDash(w).ranges, next |-> item.next]
    ELSE IF WithItem(w, item) = NoClass THEN [ranges |-> <<>>, next |-> item.next]
    ELSE ReadClass(s, WithItem(w, item), ClassItem(s, item.next))

Bad(start, next) == Token(BAD, Stale, start, next)

Closed(type, read, start) ==
    IF read.ranges = <<>> THEN Bad(start, read.next)
    ELSE Token(CLASS, ClassValue(type, read.ranges), start, read.next)

\* [^ab] and [ab].
Bracket(s, start) ==
    IF At(s, start + 1) = Circumflex
    THEN Closed("nclass", ReadClass(s, EmptyClass, ClassItem(s, start + 2)), start)
    ELSE Closed("class", ReadClass(s, EmptyClass, ClassItem(s, start + 1)), start)

-----------------------------------------------------------------------------
(* Counts. *)

MaxCount == 499

\* cquant_parsed: {0,1}, {0,} and {1,} are the tokens of ?, * and +.
CountToken(from, to, start, next) ==
    IF from > MaxCount \/ to > MaxCount \/ (to >= 0 /\ from > to) THEN Bad(start, next)
    ELSE LET short == CASE from = 0 /\ to = 1  -> QUEST
                        [] from = 0 /\ to = -1 -> STAR
                        [] from = 1 /\ to = -1 -> PLUS
                        [] OTHER               -> CQUANT
         IN  Token(short, IF short = CQUANT THEN CountValue(from, to) ELSE Stale, start, next)

\* {n}, {n,} or {n,m}, and a brace that begins none of them.
Brace(s, start) ==
    LET from == start + 1
        n    == Leading(s, from, Decimals, Len(s))
        to   == from + n + 1
        m    == Leading(s, to, Decimals, Len(s))
    IN  CASE n > 0 /\ At(s, from + n) = CloseBrace ->
                CountToken(Counted(s, from, n), Counted(s, from, n), start, to)
          [] n > 0 /\ At(s, from + n) = Comma /\ At(s, to + m) = CloseBrace ->
                CountToken(Counted(s, from, n), IF m = 0 THEN -1 ELSE Counted(s, to, m),
                           start, to + m + 1)
          [] OTHER -> Token(CHAR, CharValue(OpenBrace), start, from)

-----------------------------------------------------------------------------
(* Tokens. *)

Operators ==
    Table("|*+?():.^$", <<BAR, STAR, PLUS, QUEST, OPEN, CLOSE, COLON, DOT, CARET, DOLLAR>>)

LookArounds == Table("AbBz", <<"\\A", "\\b", "\\B", "\\z">>)

CharToken(b, start) ==
    IF b.ch = Invalid THEN Bad(start, b.next)
    ELSE Token(CHAR, CharValue(b.ch), start, b.next)

Escape(s, c, start) ==
    CASE c \in DOMAIN LookArounds ->
            Token(ASSERTION, TreeValue(Assertion(LookArounds[c])), start, start + 2)
      [] c \in DOMAIN RangesInClass \cup OneOf("NC") ->
            Token(CLASS, ClassEscape(c), start, start + 2)
      [] \/ c # Nul /\ ~IsPrint(c)
         \/ c \in Escaped \cup Digits \cup OneOf("cox") \cup DOMAIN Mnemonics ->
            CharToken(ByteEscape(s, c, start + 2, TRUE), start)
      [] OTHER -> Bad(start, start + 2)

\* yylex
NextToken(s, p) ==
    LET c == At(s, p)
    IN  CASE c = Nul                -> Token(EOF, Stale, p, p)
          [] c \in DOMAIN Operators -> Token(Operators[c], Stale, p, p + 1)
          [] c = Backslash          -> Escape(s, At(s, p + 1), p)
          [] c = OpenBracket        -> Bracket(s, p)
          [] c = OpenBrace          -> Brace(s, p)
          [] OTHER                  -> Token(CHAR, CharValue(c), p, p + 1)
=============================================================================
