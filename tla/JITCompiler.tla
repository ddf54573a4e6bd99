----------------------------- MODULE JITCompiler -----------------------------
(***************************************************************************)
(* How the Just-in-Time compiler of the Thompson VM walks a program: from  *)
(* each instruction that consumes a byte to the next ones.  RECURSIVE      *)
(* operators: for model checking only.                                     *)
(***************************************************************************)
EXTENDS JITImage, SequencesExt, FiniteSetsExt

\* sre_vm_thompson_jit_get_next_states, with the calls still to be made in todo.  An
\* instruction is visited once, with the assertions of the first way there.
RECURSIVE NextStates(_, _, _, _)
NextStates(code, todo, visited, states) ==
    LET here == Head(todo)
        ins  == code[here.pc]
        On(pcs, asserts) ==
            NextStates(code, [k \in DOMAIN pcs |-> State(pcs[k], asserts)] \o Tail(todo),
                       visited \cup {here.pc}, states)
    IN  IF todo = <<>> THEN states
        ELSE IF here.pc \in visited \/ here.pc \notin DOMAIN code
        THEN NextStates(code, Tail(todo), visited, states)
        ELSE CASE ins.op = "split"  -> On(<<ins.x, ins.y>>, here.asserts)
               [] ins.op = "jmp"    -> On(<<ins.x>>, here.asserts)
               [] ins.op = "save"   -> On(<<here.pc + 1>>, here.asserts)
               [] ins.op = "assert" -> On(<<here.pc + 1>>, here.asserts \cup {ins.look})
               [] OTHER -> NextStates(code, Tail(todo), visited \cup {here.pc},
                                      Append(states, here))

PathFrom(code, pc) ==
    NextStates(code, <<State(IF pc = 0 THEN 0 ELSE pc + 1, {})>>, {}, <<>>)

\* sre_vm_thompson_jit_build_paths: the paths from the pcs of todo on.
RECURSIVE BuildPaths(_, _, _)
BuildPaths(code, todo, paths) ==
    IF todo = <<>> THEN paths
    ELSE IF Head(todo) \in DOMAIN paths THEN BuildPaths(code, Tail(todo), paths)
    ELSE LET path == PathFrom(code, Head(todo))
             more == SelectSeq([k \in DOMAIN path |-> path[k].pc],
                               LAMBDA next : code[next].op # "match")
         IN  BuildPaths(code, more \o Tail(todo), (Head(todo) :> path) @@ paths)

\* sre_vm_thompson_jit_do_compile: threads that several states add must be added once;
\* the lists are made for one of each.
ImageOf(program) ==
    LET paths   == BuildPaths(program.code, <<0>>, <<>>)
        places  == ThreadPlaces(program.code, paths)
        indexes == Indexes(program.code, paths)
        Added(n) == {place \in places : IndexAt(paths, place) = n}
        dups    == {n \in indexes : Cardinality(Added(n)) > 1}
    IN  Image(program.code, paths, dups, Cardinality(indexes))
=============================================================================
