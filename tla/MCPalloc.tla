------------------------------ MODULE MCPalloc ------------------------------
(***************************************************************************)
(* An instance of Palloc for TLC: blocks that hold one or two pieces.      *)
(***************************************************************************)
EXTENDS Palloc

\* An odd size that need not be aligned, the largest that fits a block, and one more.
MCRequests == {[size |-> 33, aligned |-> FALSE], [size |-> 64, aligned |-> TRUE],
               [size |-> 65, aligned |-> TRUE]}
=============================================================================
