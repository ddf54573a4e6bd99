------------------------------ MODULE Bytecode ------------------------------
(***************************************************************************)
(* The programs of the virtual machines (sre_vm_bytecode.h).  A program    *)
(* counter is an offset from prog->start.                                  *)
(***************************************************************************)
EXTENDS Integers, Sequences, FiniteSets

CONSTANTS
    Byte,        \* The alphabet,
    WordByte,    \*   the members of it that sre_isword accepts,
    Newline      \*   and '\n'.

Assertions == {"\\A", "^", "\\b", "\\B", "\\z", "$"}

Opcodes == {"char", "in", "notin", "any", "jmp", "split", "save", "assert", "match"}

(***************************************************************************)
(* A program: code maps each pc to an instruction, lead is the set of the  *)
(* pcs in leading_bytes ({} for NULL), visited the set of those that       *)
(* looking for them has marked, ncaps[i+1] is multi_ncaps[i], slots is     *)
(* ovecsize in slots and offset[i+1] is where the slots of regex i begin.  *)
(* What an opcode does not use has the value the compiler's sre_memzero    *)
(* leaves in it.                                                           *)
(***************************************************************************)
Regexes(p) == 1 .. Len(p.ncaps)

Pcs(p) == DOMAIN p.code

Instructions(p) ==
    [op : Opcodes, bytes : SUBSET Byte, x : Nat, y : Nat, n : Nat, look : Assertions]

\* A JMP that follows a MATCH is what the alternation of two regexes leaves
\* behind: it is never executed and may lead past the end of the program.
Live(p) == {i \in Pcs(p) : ~(p.code[i].op = "jmp" /\ i > 0 /\ p.code[i - 1].op = "match")}

Leads(ins, i) ==
    CASE ins.op = "jmp"   -> {ins.x}
      [] ins.op = "split" -> {ins.x, ins.y}
      [] ins.op = "match" -> {}
      [] OTHER            -> {i + 1}

WellFormedCode(p) ==
    /\ p.code \in [Pcs(p) -> Instructions(p)]
    /\ Pcs(p) \subseteq Nat /\ IsFiniteSet(Pcs(p))
    /\ 0 \in Live(p)
    /\ \A i \in Live(p) : Leads(p.code[i], i) \subseteq Live(p)

WellFormed(p) ==
    /\ WellFormedCode(p)
    /\ p.lead \subseteq Pcs(p) /\ p.visited \subseteq Pcs(p)
    /\ p.slots \in Nat
    /\ p.ncaps \in Seq(Nat) /\ p.offset \in [Regexes(p) -> Nat] /\ p.ncaps # <<>>
    /\ \A r \in Regexes(p) : p.offset[r] + 2 * (p.ncaps[r] + 1) <= p.slots
    /\ \A i \in Pcs(p) :
        /\ p.code[i].op = "save" => p.code[i].n < p.slots
        /\ p.code[i].op = "match" => p.code[i].n + 1 \in Regexes(p)

\* Whether an instruction that consumes a byte consumes b.
Accepts(ins, b) ==
    CASE ins.op \in {"char", "in"} -> b \in ins.bytes
      [] ins.op = "notin"          -> b \notin ins.bytes
      [] ins.op = "any"            -> TRUE
      [] OTHER                     -> FALSE
=============================================================================
