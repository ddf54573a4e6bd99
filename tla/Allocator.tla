------------------------------ MODULE Allocator ------------------------------
(***************************************************************************)
(* What a memory pool promises: no piece of memory is in use twice.  held  *)
(* is the set of the pieces in use, each with who uses it: the caller who  *)
(* asked for it, or the pool for a record of its own.                      *)
(***************************************************************************)
EXTENDS Integers

VARIABLE held

Apart(p, q) == p.region # q.region \/ p.to <= q.from \/ q.to <= p.from

Init == held = {}

\* Requests are served with memory nobody uses.
Give == /\ held \subseteq held'
        /\ \A new \in held' \ held : \A h \in held' : h # new => Apart(h.piece, new.piece)

\* One piece is given back, or all of them at once.
Free  == \E h \in held : held' = held \ {h}
Clear == held' = {}

Next == Give \/ Free \/ Clear

Spec == Init /\ [][Next]_held

\* No two users of memory share a byte of it.
Disjoint == \A h, k \in held : h # k => Apart(h.piece, k.piece)
=============================================================================
