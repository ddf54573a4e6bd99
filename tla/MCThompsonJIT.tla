---------------------------- MODULE MCThompsonJIT ----------------------------
(***************************************************************************)
(* Instances of ThompsonJIT for TLC: what the compiler makes of the sample *)
(* programs, and the abstract recognizer that the machine code implements. *)
(***************************************************************************)
EXTENDS ThompsonJIT, Samples, TLC

CONSTANTS Compilable   \* The regexes whose programs are compiled further.

JIT == INSTANCE JITCompiler

\* An image, with the regexes it is made of.
MCImages == {JIT!ImageOf(RC!Compile(r)) @@ ("regexes" :> r) : r \in Compilable}

Slots(image) == Cardinality({pc \in DOMAIN image.code : image.code[pc].op = "save"})

IsMatched(image, s) == RC!Search(image.regexes, Slots(image), s, 0).id >= 0

Promised == INSTANCE Recognizer
                WITH Programs <- Images, IsMatch <- IsMatched, fed <- Fed

\* The machine code implements the recognizer: whatever the chunks, however the calls
\* for several streams alternate and whatever is compiled in between, a call
\* answers SRE_OK only if its stream has a match, and SRE_DECLINED at the end of
\* the stream if it has none.
Recognizes == Promised!Spec
=============================================================================
