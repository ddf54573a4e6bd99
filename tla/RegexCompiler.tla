---------------------------- MODULE RegexCompiler ----------------------------
(***************************************************************************)
(* The compiler (sre_regex_compiler.c): from a regex tree to a program of  *)
(* the Pike and Thompson virtual machines.  RECURSIVE operators: for model *)
(* checking only.                                                          *)
(***************************************************************************)
EXTENDS Regex

\* An instruction fresh from sre_memzero.
Zero == [op |-> "char", bytes |-> {}, x |-> 0, y |-> 0, n |-> 0, look |-> "\\A"]

Split(x, y) == <<[Zero EXCEPT !.op = "split", !.x = x, !.y = y]>>
Jmp(x)      == <<[Zero EXCEPT !.op = "jmp", !.x = x]>>
Save(n)     == <<[Zero EXCEPT !.op = "save", !.n = n]>>
Eat(op, b)  == <<[Zero EXCEPT !.op = op, !.bytes = b]>>

\* sre_program_len
RECURSIVE ProgramLen(_)
ProgramLen(r) ==
    CASE r.type = "nil"               -> 0
      [] r.type \in Leaves \ {"nil"}  -> 1
      [] r.type = "alt"               -> 2 + ProgramLen(r.left) + ProgramLen(r.right)
      [] r.type = "cat"               -> ProgramLen(r.left) + ProgramLen(r.right)
      [] r.type \in {"paren", "star"} -> 2 + ProgramLen(r.left)
      [] OTHER                        -> 1 + ProgramLen(r.left)

\* sre_regex_emit_bytecode: the instructions of r, the first one at pc.
RECURSIVE Emit(_, _)
Emit(r, pc) ==
    LET inner  == Emit(r.left, pc + 1)
        past   == pc + 1 + Len(inner)
        Loop(more, done) == IF r.greedy THEN Split(more, done) ELSE Split(done, more)
    IN  CASE r.type = "nil"    -> <<>>
          [] r.type = "lit"    -> Eat("char", {r.ch})
          [] r.type = "class"  -> Eat("in", r.range)
          [] r.type = "nclass" -> Eat("notin", r.range)
          [] r.type = "dot"    -> Eat("any", {})
          [] r.type = "assert" -> <<[Zero EXCEPT !.op = "assert", !.look = r.assertion]>>
          [] r.type = "cat"    ->
                LET left == Emit(r.left, pc)
                IN  left \o Emit(r.right, pc + Len(left))
          [] r.type = "alt"    ->
                LET right == Emit(r.right, past + 1)
                IN  Split(pc + 1, past + 1) \o inner \o Jmp(past + 1 + Len(right)) \o right
          [] r.type = "paren"  -> Save(2 * r.group) \o inner \o Save(2 * r.group + 1)
          [] r.type = "quest"  -> Loop(pc + 1, past) \o inner
          [] r.type = "star"   -> Loop(pc + 1, past + 1) \o inner \o Jmp(pc)
          [] r.type = "plus"   ->
                LET body == Emit(r.left, pc)
                    split == pc + Len(body)
                IN  body \o Loop(pc, split + 1)
          [] r.type = "toplevel" ->
                LET body == Emit(r.left, pc)
                IN  body \o <<[Zero EXCEPT !.op = "match", !.n = r.regex_id]>>

-----------------------------------------------------------------------------
\* sre_program_get_leading_bytes_helper: a walk [rc, found, visited, nullable]
\* over the code from pc, which stops at the first MATCH or ANY.
RECURSIVE LeadingFrom(_, _, _)
LeadingFrom(code, pc, w) ==
    LET ins == code[pc]
        v   == [w EXCEPT !.visited = @ \cup {pc}]
        known == \E i \in w.found : ins.op = "char" /\ code[i].op = "char"
                                     /\ code[i].bytes = ins.bytes
    IN  IF pc \in w.visited \/ pc = 1
        THEN w
        ELSE CASE ins.op = "split" ->
                    LET first == LeadingFrom(code, ins.x, v)
                    IN  IF first.rc # "OK" THEN first
                        ELSE LeadingFrom(code, ins.y, first)
               [] ins.op = "jmp"                -> LeadingFrom(code, ins.x, v)
               [] ins.op \in {"save", "assert"} -> LeadingFrom(code, pc + 1, v)
               [] ins.op = "match" -> [v EXCEPT !.rc = "DONE"]
               [] ins.op = "any"   -> [v EXCEPT !.rc = "DECLINED"]
               [] OTHER -> IF known THEN v ELSE [v EXCEPT !.found = @ \cup {pc}]

\* sre_regex_compile.
Compile(regexes) ==
    LET emitted == Emit(Assemble(regexes), 0)
        code    == [i \in 0 .. Len(emitted) - 1 |-> emitted[i + 1]]
        walk    == LeadingFrom(code, 0, [rc |-> "OK", found |-> {}, visited |-> {}])
        ncaps   == MultiNcaps(regexes)
        offset  == [i \in DOMAIN regexes |-> 2 * FirstGroup(regexes, i)]
        last    == Len(regexes)
    IN  [code    |-> code,
         lead    |-> IF walk.rc = "OK" THEN walk.found ELSE {},
         visited |-> walk.visited,
         ncaps   |-> ncaps,
         offset  |-> offset,
         slots   |-> offset[last] + 2 * (ncaps[last] + 1)]
=============================================================================
