----------------------------- MODULE SreCapture -----------------------------
(***************************************************************************)
(* Capture vectors of the Pike VM (sre_capture.c, sre_capture.h): cells    *)
(* with a reference count, shared between threads and copied when a shared *)
(* one is written, and the free list that recycles them.                   *)
(*                                                                         *)
(* A heap is [cell, free]: cell is the sequence of all the captures ever   *)
(* taken from the pool, a capture is an index into it, and free is the     *)
(* LIFO list ctx->free_capture.  NoCapture is the NULL pointer.            *)
(***************************************************************************)
EXTENDS Integers, Sequences

NoCapture == 0

EmptyHeap == [cell |-> <<>>, free |-> <<>>]

Captures(h) == 1 .. Len(h.cell)

\* The cells of a pool, each of them in use or on the list of free ones, and the
\* captures with regex ids from ids and vectors from vectors.
Pools(cell) == {h \in [cell : Seq(cell), free : Seq(Nat)] :
                  h.free \in Seq(1 .. Len(h.cell))}

Cells(ids, vectors) == [ref : Int, regex_id : ids, vector : vectors]

Cell(ref, id, vector) == [ref |-> ref, regex_id |-> id, vector |-> vector]

\* s with its i-th element set to v, where i may be the first index past the end.
Store(s, i, v) == IF i = Len(s) + 1 THEN Append(s, v) ELSE [s EXCEPT ![i] = v]

\* The capture sre_capture_create returns: the head of the free list if there
\* is one, a cell from the pool otherwise (only then can the pool be exhausted).
Fresh(h) == IF h.free = <<>> THEN Len(h.cell) + 1 ELSE Head(h.free)

FromPool(h) == h.free = <<>>

\* The pool afterwards, if new is what the cell is set to.
Allocate(h, new) ==
    [cell |-> Store(h.cell, Fresh(h), new),
     free |-> IF FromPool(h) THEN <<>> ELSE Tail(h.free)]

\* A capture from the pool has regex id 0; a recycled one keeps its own.
FreshId(h) == IF FromPool(h) THEN 0 ELSE h.cell[Fresh(h)].regex_id

Take(h, vector) == Allocate(h, Cell(1, FreshId(h), vector))

\* A slip on CaptureCreate: one slot is missing.
CaptureCreateShort(h, n) == Take(h, [i \in 0 .. n - 2 |-> -1])

\* sre_capture_create with clear = 1: n slots, all of them -1.
CaptureCreate(h, n) == Take(h, [i \in 0 .. n - 1 |-> -1])

Replaced(h, c, new) == [cell |-> [h.cell EXCEPT ![c] = new], free |-> h.free]

WithRef(h, c, ref) == Replaced(h, c, Cell(ref, h.cell[c].regex_id, h.cell[c].vector))

WithId(h, c, id) == Replaced(h, c, Cell(h.cell[c].ref, id, h.cell[c].vector))

WithVector(h, c, v) == Replaced(h, c, Cell(h.cell[c].ref, h.cell[c].regex_id, v))

\* A slip on AddRef: the new holder is not counted.
AddRefNot(h, c) == h

AddRef(h, c) == WithRef(h, c, h.cell[c].ref + 1)

\* ref-- alone, as add_thread does when it unwinds: the cell is not recycled.
DropRef(h, c) == WithRef(h, c, h.cell[c].ref - 1)

\* A slip on the guard of sre_capture_update: writes a capture that a second
\* holder shares.
SharedByThree(h, c) == h.cell[c].ref > 2

\* The guard of sre_capture_update: somebody else holds this capture.
Shared(h, c) == h.cell[c].ref > 1

\* The capture sre_capture_update returns, and what it does to the heap: a
\* shared capture is copied and loses one reference, any other is written.
UpdateTarget(h, c) == IF Shared(h, c) THEN Fresh(h) ELSE c

Written(vector, group, pos) == [vector EXCEPT ![group] = pos]

CaptureUpdate(h, c, group, pos) ==
    LET vector == Written(h.cell[c].vector, group, pos)
    IN  IF Shared(h, c) THEN DropRef(Take(h, vector), c) ELSE WithVector(h, c, vector)

\* A slip on DecrRef: the last but one reference recycles the cell.
DecrRefEarly(h, c) ==
    [cell |-> DropRef(h, c).cell,
     free |-> IF h.cell[c].ref = 2 THEN <<c>> \o h.free ELSE h.free]

\* sre_capture_decr_ref: the last reference puts the cell on the free list.
DecrRef(h, c) ==
    [cell |-> DropRef(h, c).cell,
     free |-> IF h.cell[c].ref = 1 THEN <<c>> \o h.free ELSE h.free]
=============================================================================
