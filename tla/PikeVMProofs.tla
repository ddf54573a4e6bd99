----------------------------- MODULE PikeVMProofs -----------------------------
(***************************************************************************)
(* Theorems about PikeVM for every program, stream and caller: every       *)
(* variable keeps its type and no pointer dangles.  They rest on facts     *)
(* about the operations of SreCapture, for captures of every kind.         *)
(***************************************************************************)
EXTENDS PikeVM, SequenceTheorems, TLAPS

(***************************************************************************)
(* What the operations of SreCapture return and preserve.                  *)
(***************************************************************************)
\* A sequence stays one of its kind when an element is stored in it, or after its
\* end, and never gets shorter.
LEMMA StoreType ==
    ASSUME NEW S, NEW s \in Seq(S), NEW i \in 1 .. Len(s) + 1, NEW v \in S
    PROVE  /\ Store(s, i, v) \in Seq(S)
           /\ Len(Store(s, i, v)) = IF i = Len(s) + 1 THEN Len(s) + 1 ELSE Len(s)
           /\ \A j \in 1 .. Len(Store(s, i, v)) :
                 Store(s, i, v)[j] = IF j = i THEN v ELSE s[j]
<1>1. CASE i = Len(s) + 1
  BY <1>1, AppendProperties DEF Store
<1>2. CASE i # Len(s) + 1
  <2>1. i \in 1 .. Len(s)
    BY <1>2, LenProperties
  <2> QED BY <1>2, <2>1, ExceptSeq DEF Store
<1> QED BY <1>1, <1>2

\* What an element of the heap is after Store.
LEMMA StoreElement ==
    ASSUME NEW S, NEW s \in Seq(S), NEW i \in 1 .. Len(s) + 1, NEW v \in S,
           NEW j \in 1 .. Len(Store(s, i, v))
    PROVE  Store(s, i, v)[j] = IF j = i THEN v ELSE s[j]
BY StoreType

\* The parts of a pool.
LEMMA PoolParts ==
    ASSUME NEW C, NEW h \in Pools(C)
    PROVE  /\ h.cell \in Seq(C) /\ Len(h.cell) \in Nat
           /\ h.free \in Seq(1 .. Len(h.cell))
           /\ \A c \in Captures(h) : h.cell[c] \in C
<1>1. h.cell \in Seq(C) /\ h.free \in Seq(1 .. Len(h.cell))
  BY DEF Pools
<1> QED BY <1>1, LenProperties, ElementOfSeq DEF Captures

\* The fields of a capture.
LEMMA CellParts ==
    ASSUME NEW Ids, NEW Vecs, NEW h \in Pools(Cells(Ids, Vecs)),
           NEW c \in Captures(h)
    PROVE  /\ h.cell[c].ref \in Int /\ h.cell[c].regex_id \in Ids
           /\ h.cell[c].vector \in Vecs
<1>1. h.cell[c] \in Cells(Ids, Vecs)
  BY PoolParts
<1> QED BY <1>1 DEF Cells

\* Pointers into the first m cells are pointers into the first n, if m <= n.
LEMMA SeqWiden ==
    ASSUME NEW m \in Nat, NEW n \in Nat, m <= n, NEW s \in Seq(1 .. m)
    PROVE  s \in Seq(1 .. n) /\ s \in Seq(Nat)
<1> DEFINE S == 1 .. m
           T == 1 .. n
<1>1. S \subseteq T /\ S \subseteq Nat
  OBVIOUS
<1>2. s \in Seq(S)
  OBVIOUS
<1> HIDE DEF S, T
<1>3. s \in Seq(T)
  BY <1>1, <1>2, SeqMonotonic
<1>4. s \in Seq(Nat)
  BY <1>1, <1>2, SeqMonotonic
<1> QED BY <1>3, <1>4 DEF T

\* What makes a pool.
LEMMA PoolMade ==
    ASSUME NEW C, NEW cells \in Seq(C), NEW free \in Seq(1 .. Len(cells))
    PROVE  [cell |-> cells, free |-> free] \in Pools(C)
<1>1. Len(cells) \in Nat
  BY LenProperties
<1>2. free \in Seq(Nat)
  BY <1>1, SeqWiden
<1> QED BY <1>2 DEF Pools

\* The effect of replacing one cell of a pool.
LEMMA CellReplaced ==
    ASSUME NEW C, NEW h \in Pools(C), NEW c \in Captures(h), NEW new \in C
    PROVE  /\ Replaced(h, c, new) \in Pools(C)
           /\ Len(Replaced(h, c, new).cell) = Len(h.cell)
           /\ Replaced(h, c, new).free = h.free
           /\ \A d \in Captures(h) :
                 Replaced(h, c, new).cell[d] = IF d = c THEN new ELSE h.cell[d]
<1> DEFINE cells == [h.cell EXCEPT ![c] = new]
<1>1. h.cell \in Seq(C) /\ h.free \in Seq(1 .. Len(h.cell))
  BY PoolParts
<1>2. Replaced(h, c, new) = [cell |-> cells, free |-> h.free]
  BY DEF Replaced
<1>3. /\ cells \in Seq(C)
      /\ Len(cells) = Len(h.cell)
      /\ \A d \in 1 .. Len(h.cell) : cells[d] = IF d = c THEN new ELSE h.cell[d]
  BY <1>1, ExceptSeq DEF Captures
<1> HIDE DEF cells
<1>4. Replaced(h, c, new).cell = cells /\ Replaced(h, c, new).free = h.free
  BY <1>2
<1>5. Replaced(h, c, new) \in Pools(C)
  BY <1>1, <1>2, <1>3, PoolMade
<1> QED BY <1>3, <1>4, <1>5 DEF Captures

\* The effect of changing the number of references of one capture.
LEMMA WithRefEffect ==
    ASSUME NEW Ids, NEW Vecs, NEW h \in Pools(Cells(Ids, Vecs)),
           NEW c \in Captures(h), NEW ref \in Int
    PROVE  /\ WithRef(h, c, ref) \in Pools(Cells(Ids, Vecs))
           /\ Len(WithRef(h, c, ref).cell) = Len(h.cell)
           /\ WithRef(h, c, ref).free = h.free
           /\ \A d \in Captures(h) :
                /\ WithRef(h, c, ref).cell[d].ref = IF d = c THEN ref ELSE h.cell[d].ref
                /\ WithRef(h, c, ref).cell[d].vector = h.cell[d].vector
<1> DEFINE C == Cells(Ids, Vecs)
           new == Cell(ref, h.cell[c].regex_id, h.cell[c].vector)
<1>1. h.cell[c] \in C
  BY PoolParts
<1>2. new \in C /\ new.ref = ref /\ new.vector = h.cell[c].vector
  BY <1>1 DEF Cells, Cell
<1>3. WithRef(h, c, ref) = Replaced(h, c, new)
  BY DEF WithRef
<1> HIDE DEF new, C
<1>4. h \in Pools(C)
  BY DEF C
<1>5. /\ Replaced(h, c, new) \in Pools(C)
      /\ Len(Replaced(h, c, new).cell) = Len(h.cell)
      /\ Replaced(h, c, new).free = h.free
  BY <1>2, <1>4, CellReplaced
<1>6. \A d \in Captures(h) : Replaced(h, c, new).cell[d] = IF d = c THEN new ELSE h.cell[d]
  BY <1>2, <1>4, CellReplaced
<1> QED BY <1>2, <1>3, <1>5, <1>6 DEF C

\* Adding a reference.
LEMMA AddRefEffect ==
    ASSUME NEW Ids, NEW Vecs, NEW h \in Pools(Cells(Ids, Vecs)),
           NEW c \in Captures(h)
    PROVE  /\ AddRef(h, c) \in Pools(Cells(Ids, Vecs))
           /\ Len(AddRef(h, c).cell) = Len(h.cell)
           /\ AddRef(h, c).free = h.free
           /\ \A d \in Captures(h) :
                /\ AddRef(h, c).cell[d].ref =
                     IF d = c THEN h.cell[d].ref + 1 ELSE h.cell[d].ref
                /\ AddRef(h, c).cell[d].vector = h.cell[d].vector
<1>1. h.cell[c].ref \in Int
  BY CellParts
<1>2. h.cell[c].ref + 1 \in Int
  BY <1>1
<1> QED BY <1>2, WithRefEffect DEF AddRef

\* capture->ref++ leaves a pool of the same cells but for one count.
LEMMA AddRefType ==
    ASSUME NEW Ids, NEW Vecs, NEW h \in Pools(Cells(Ids, Vecs)),
           NEW c \in Captures(h)
    PROVE  /\ AddRef(h, c) \in Pools(Cells(Ids, Vecs))
           /\ Len(AddRef(h, c).cell) = Len(h.cell)
<1>1. h.cell[c].ref + 1 \in Int
  BY CellParts
<1> QED BY <1>1, WithRefEffect DEF AddRef

\* Dropping a reference without recycling the capture.
LEMMA DropRefType ==
    ASSUME NEW Ids, NEW Vecs, NEW h \in Pools(Cells(Ids, Vecs)),
           NEW c \in Captures(h)
    PROVE  /\ DropRef(h, c) \in Pools(Cells(Ids, Vecs))
           /\ Len(DropRef(h, c).cell) = Len(h.cell)
<1>1. h.cell[c].ref - 1 \in Int
  BY CellParts
<1> QED BY <1>1, WithRefEffect DEF DropRef

\* capture->ref-- leaves a pool of the same cells but for one count.
LEMMA DropRefEffect ==
    ASSUME NEW Ids, NEW Vecs, NEW h \in Pools(Cells(Ids, Vecs)),
           NEW c \in Captures(h)
    PROVE  /\ DropRef(h, c) \in Pools(Cells(Ids, Vecs))
           /\ Len(DropRef(h, c).cell) = Len(h.cell)
           /\ DropRef(h, c).free = h.free
           /\ \A d \in Captures(h) :
                /\ DropRef(h, c).cell[d].ref =
                     IF d = c THEN h.cell[d].ref - 1 ELSE h.cell[d].ref
                /\ DropRef(h, c).cell[d].vector = h.cell[d].vector
<1>1. h.cell[c].ref \in Int
  BY CellParts
<1>2. h.cell[c].ref - 1 \in Int
  BY <1>1
<1> QED BY <1>2, WithRefEffect DEF DropRef

\* sre_capture_decr_ref: as DropRef, but the last reference recycles the capture.
LEMMA DecrRefType ==
    ASSUME NEW Ids, NEW Vecs, NEW h \in Pools(Cells(Ids, Vecs)),
           NEW c \in Captures(h)
    PROVE  /\ DecrRef(h, c) \in Pools(Cells(Ids, Vecs))
           /\ Len(DecrRef(h, c).cell) = Len(h.cell)
<1> DEFINE C == Cells(Ids, Vecs)
           dropped == DropRef(h, c)
           free == IF h.cell[c].ref = 1 THEN <<c>> \o h.free ELSE h.free
<1>1. DecrRef(h, c) = [cell |-> dropped.cell, free |-> free]
  BY DEF DecrRef
<1>2. free \in Seq(1 .. Len(h.cell))
  <2>1. h.free \in Seq(1 .. Len(h.cell))
    BY PoolParts
  <2>2. <<c>> \in Seq(1 .. Len(h.cell))
    BY DEF Captures
  <2> QED BY <2>1, <2>2, ConcatProperties
<1>3. dropped \in Pools(C) /\ Len(dropped.cell) = Len(h.cell)
  BY DropRefEffect
<1> HIDE DEF dropped, free, C
<1>4. dropped.cell \in Seq(C)
  BY <1>3, PoolParts
<1>5. DecrRef(h, c) \in Pools(C)
  BY <1>1, <1>2, <1>3, <1>4, PoolMade
<1> QED BY <1>1, <1>3, <1>5 DEF C

\* What sre_capture_decr_ref leaves of each capture, and when it recycles one.
LEMMA DecrRefEffect ==
    ASSUME NEW Ids, NEW Vecs, NEW h \in Pools(Cells(Ids, Vecs)),
           NEW c \in Captures(h), NEW d \in Captures(h)
    PROVE  /\ DecrRef(h, c).free = IF h.cell[c].ref = 1 THEN <<c>> \o h.free ELSE h.free
           /\ DecrRef(h, c).cell[d].ref =
                IF d = c THEN h.cell[d].ref - 1 ELSE h.cell[d].ref
           /\ DecrRef(h, c).cell[d].vector = h.cell[d].vector
<1> DEFINE dropped == DropRef(h, c)
           free == IF h.cell[c].ref = 1 THEN <<c>> \o h.free ELSE h.free
<1>1. DecrRef(h, c) = [cell |-> dropped.cell, free |-> free]
  BY DEF DecrRef
<1>2. /\ dropped.cell[d].ref = IF d = c THEN h.cell[d].ref - 1 ELSE h.cell[d].ref
      /\ dropped.cell[d].vector = h.cell[d].vector
  BY DropRefEffect
<1> HIDE DEF dropped
<1> QED BY <1>1, <1>2

\* Writing a regex id or a vector: nothing else changes.
LEMMA WithIdEffect ==
    ASSUME NEW Ids, NEW Vecs, NEW h \in Pools(Cells(Ids, Vecs)),
           NEW c \in Captures(h), NEW id \in Ids
    PROVE  /\ WithId(h, c, id) \in Pools(Cells(Ids, Vecs))
           /\ Len(WithId(h, c, id).cell) = Len(h.cell)
           /\ WithId(h, c, id).free = h.free
           /\ \A d \in Captures(h) :
                /\ WithId(h, c, id).cell[d].ref = h.cell[d].ref
                /\ WithId(h, c, id).cell[d].vector = h.cell[d].vector
<1> DEFINE C == Cells(Ids, Vecs)
           new == Cell(h.cell[c].ref, id, h.cell[c].vector)
<1>1. h.cell[c] \in C
  BY PoolParts
<1>2. new \in C /\ new.ref = h.cell[c].ref /\ new.vector = h.cell[c].vector
  BY <1>1 DEF Cells, Cell
<1>3. WithId(h, c, id) = Replaced(h, c, new)
  BY DEF WithId
<1> HIDE DEF new, C
<1>4. h \in Pools(C)
  BY DEF C
<1>5. /\ Replaced(h, c, new) \in Pools(C)
      /\ Len(Replaced(h, c, new).cell) = Len(h.cell)
      /\ Replaced(h, c, new).free = h.free
  BY <1>2, <1>4, CellReplaced
<1>6. \A d \in Captures(h) : Replaced(h, c, new).cell[d] = IF d = c THEN new ELSE h.cell[d]
  BY <1>2, <1>4, CellReplaced
<1> QED BY <1>2, <1>3, <1>5, <1>6 DEF C

\* A position written in place leaves a pool of the same type.
LEMMA WithVectorEffect ==
    ASSUME NEW Ids, NEW Vecs, NEW h \in Pools(Cells(Ids, Vecs)),
           NEW c \in Captures(h), NEW v \in Vecs
    PROVE  /\ WithVector(h, c, v) \in Pools(Cells(Ids, Vecs))
           /\ Len(WithVector(h, c, v).cell) = Len(h.cell)
           /\ WithVector(h, c, v).free = h.free
           /\ \A d \in Captures(h) :
                /\ WithVector(h, c, v).cell[d].ref = h.cell[d].ref
                /\ d # c => WithVector(h, c, v).cell[d].vector = h.cell[d].vector
<1> DEFINE C == Cells(Ids, Vecs)
           new == Cell(h.cell[c].ref, h.cell[c].regex_id, v)
<1>1. h.cell[c] \in C
  BY PoolParts
<1>2. new \in C /\ new.ref = h.cell[c].ref
  BY <1>1 DEF Cells, Cell
<1>3. WithVector(h, c, v) = Replaced(h, c, new)
  BY DEF WithVector
<1> HIDE DEF new, C
<1>4. h \in Pools(C)
  BY DEF C
<1>5. /\ Replaced(h, c, new) \in Pools(C)
      /\ Len(Replaced(h, c, new).cell) = Len(h.cell)
      /\ Replaced(h, c, new).free = h.free
  BY <1>2, <1>4, CellReplaced
<1>6. \A d \in Captures(h) : Replaced(h, c, new).cell[d] = IF d = c THEN new ELSE h.cell[d]
  BY <1>2, <1>4, CellReplaced
<1> QED BY <1>2, <1>3, <1>5, <1>6 DEF C

\* Taking a cell from the free list or from the pool: it is one of the cells
\* afterwards, and the others are as they were.
LEMMA AllocateEffect ==
    ASSUME NEW C, NEW h \in Pools(C), NEW new \in C
    PROVE  /\ Allocate(h, new) \in Pools(C)
           /\ Fresh(h) \in 1 .. Len(Allocate(h, new).cell)
           /\ Len(Allocate(h, new).cell) =
                IF FromPool(h) THEN Len(h.cell) + 1 ELSE Len(h.cell)
           /\ Allocate(h, new).free = IF FromPool(h) THEN <<>> ELSE Tail(h.free)
           /\ Allocate(h, new).cell[Fresh(h)] = new
           /\ \A d \in Captures(h) : d # Fresh(h) => Allocate(h, new).cell[d] = h.cell[d]
           /\ FromPool(h) => Fresh(h) = Len(h.cell) + 1
           /\ ~FromPool(h) => Fresh(h) \in Captures(h)
<1> DEFINE cells == Store(h.cell, Fresh(h), new)
           free == IF FromPool(h) THEN <<>> ELSE Tail(h.free)
<1>1. h.cell \in Seq(C) /\ h.free \in Seq(1 .. Len(h.cell)) /\ Len(h.cell) \in Nat
  BY PoolParts
<1>2. Fresh(h) \in 1 .. Len(h.cell) + 1 /\ (FromPool(h) <=> Fresh(h) = Len(h.cell) + 1)
  BY <1>1, HeadTailProperties DEF Fresh, FromPool
<1>3. Allocate(h, new) = [cell |-> cells, free |-> free]
  BY DEF Allocate
<1>4. free \in Seq(1 .. Len(h.cell))
  BY <1>1, HeadTailProperties, EmptySeq DEF FromPool
<1> HIDE DEF free
<1>5. /\ cells \in Seq(C)
      /\ Len(cells) = IF Fresh(h) = Len(h.cell) + 1 THEN Len(h.cell) + 1 ELSE Len(h.cell)
      /\ \A d \in 1 .. Len(cells) : cells[d] = IF d = Fresh(h) THEN new ELSE h.cell[d]
  <2>1. h.cell \in Seq(C) /\ Fresh(h) \in 1 .. Len(h.cell) + 1
    BY <1>1, <1>2
  <2>2. cells \in Seq(C)
    BY <2>1, StoreType
  <2>3. Len(cells) = IF Fresh(h) = Len(h.cell) + 1 THEN Len(h.cell) + 1 ELSE Len(h.cell)
    BY <2>1, StoreType
  <2>4. ASSUME NEW d \in 1 .. Len(cells)
        PROVE  cells[d] = IF d = Fresh(h) THEN new ELSE h.cell[d]
    BY <2>1, StoreElement
  <2> QED BY <2>2, <2>3, <2>4
<1> HIDE DEF cells
<1>6. Len(cells) = IF FromPool(h) THEN Len(h.cell) + 1 ELSE Len(h.cell)
  BY <1>2, <1>5
<1>7. Allocate(h, new).cell = cells /\ Allocate(h, new).free = free
  BY <1>3
<1>8. free \in Seq(1 .. Len(cells))
  <2>1. Len(cells) \in Nat /\ Len(h.cell) <= Len(cells)
    BY <1>1, <1>6
  <2> QED BY <1>1, <1>4, <2>1, SeqWiden
<1>9. Allocate(h, new) \in Pools(C)
  BY <1>3, <1>5, <1>8, PoolMade
<1>10. Fresh(h) \in 1 .. Len(cells) /\ Captures(h) \subseteq 1 .. Len(cells)
  BY <1>1, <1>2, <1>6 DEF Captures
<1>11. cells[Fresh(h)] = new /\ \A d \in Captures(h) : d # Fresh(h) => cells[d] = h.cell[d]
  BY <1>5, <1>10
<1> QED BY <1>1, <1>2, <1>6, <1>7, <1>9, <1>10, <1>11 DEF free, Captures

\* A cell taken, recycled or new, leaves a pool, and is one of its cells.
LEMMA AllocateType ==
    ASSUME NEW C, NEW h \in Pools(C), NEW new \in C
    PROVE  /\ Allocate(h, new) \in Pools(C)
           /\ Fresh(h) \in 1 .. Len(Allocate(h, new).cell)
           /\ Len(Allocate(h, new).cell) =
                IF FromPool(h) THEN Len(h.cell) + 1 ELSE Len(h.cell)
BY AllocateEffect

\* sre_capture_create: the capture taken has one reference.
LEMMA TakeEffect ==
    ASSUME NEW Ids, NEW Vecs, 0 \in Ids,
           NEW h \in Pools(Cells(Ids, Vecs)), NEW v \in Vecs
    PROVE  /\ Take(h, v) \in Pools(Cells(Ids, Vecs))
           /\ Fresh(h) \in 1 .. Len(Take(h, v).cell)
           /\ Len(Take(h, v).cell) = IF FromPool(h) THEN Len(h.cell) + 1 ELSE Len(h.cell)
           /\ Take(h, v).free = IF FromPool(h) THEN <<>> ELSE Tail(h.free)
           /\ Take(h, v).cell[Fresh(h)].ref = 1
           /\ \A d \in Captures(h) : d # Fresh(h) => Take(h, v).cell[d] = h.cell[d]
<1> DEFINE C == Cells(Ids, Vecs)
           new == Cell(1, FreshId(h), v)
<1>1. FreshId(h) \in Ids
  <2>1. CASE FromPool(h)
    BY <2>1 DEF FreshId
  <2>2. CASE ~FromPool(h)
    <3>1. Fresh(h) \in Captures(h)
      <4>1. h.free \in Seq(1 .. Len(h.cell))
        BY PoolParts
      <4> QED BY <2>2, <4>1, HeadTailProperties DEF Fresh, FromPool, Captures
    <3> QED BY <2>2, <3>1, CellParts DEF FreshId
  <2> QED BY <2>1, <2>2
<1>2. new \in C /\ new.ref = 1
  BY <1>1 DEF Cells, Cell
<1>3. Take(h, v) = Allocate(h, new)
  BY DEF Take
<1> HIDE DEF new, C
<1>4. h \in Pools(C)
  BY DEF C
<1> QED BY <1>2, <1>3, <1>4, AllocateEffect DEF C

\* sre_capture_update returns a capture.
LEMMA UpdateType ==
    ASSUME NEW Ids, NEW Vecs, 0 \in Ids,
           NEW h \in Pools(Cells(Ids, Vecs)), NEW c \in Captures(h),
           NEW group, NEW pos, Written(h.cell[c].vector, group, pos) \in Vecs
    PROVE  /\ CaptureUpdate(h, c, group, pos) \in Pools(Cells(Ids, Vecs))
           /\ UpdateTarget(h, c) \in Captures(CaptureUpdate(h, c, group, pos))
           /\ Len(CaptureUpdate(h, c, group, pos).cell) >= Len(h.cell)
<1> DEFINE vector == Written(h.cell[c].vector, group, pos)
           taken == Take(h, vector)
<1>1. Len(h.cell) \in Nat /\ vector \in Vecs
  BY PoolParts
<1>2. CASE Shared(h, c)
  <2>1. CaptureUpdate(h, c, group, pos) = DropRef(taken, c) /\ UpdateTarget(h, c) = Fresh(h)
    BY <1>2 DEF CaptureUpdate, UpdateTarget
  <2> HIDE DEF vector
  <2>2. taken \in Pools(Cells(Ids, Vecs)) /\ Fresh(h) \in 1 .. Len(taken.cell)
    BY <1>1, TakeEffect
  <2>3. Len(taken.cell) = IF FromPool(h) THEN Len(h.cell) + 1 ELSE Len(h.cell)
    BY <1>1, TakeEffect
  <2> HIDE DEF taken
  <2>4. Len(taken.cell) >= Len(h.cell) /\ c \in Captures(taken)
    BY <1>1, <2>3 DEF Captures
  <2>5. /\ DropRef(taken, c) \in Pools(Cells(Ids, Vecs))
        /\ Len(DropRef(taken, c).cell) = Len(taken.cell)
    BY <2>2, <2>4, DropRefEffect
  <2> QED BY <2>1, <2>2, <2>4, <2>5 DEF Captures
<1>3. CASE ~Shared(h, c)
  <2>1. CaptureUpdate(h, c, group, pos) = WithVector(h, c, vector) /\ UpdateTarget(h, c) = c
    BY <1>3 DEF CaptureUpdate, UpdateTarget
  <2> HIDE DEF vector
  <2>2. /\ WithVector(h, c, vector) \in Pools(Cells(Ids, Vecs))
        /\ Len(WithVector(h, c, vector).cell) = Len(h.cell)
    BY <1>1, WithVectorEffect
  <2> QED BY <1>1, <2>1, <2>2 DEF Captures
<1> QED BY <1>2, <1>3

(***************************************************************************)
(* What ConstantsAssumption says of a program.                             *)
(***************************************************************************)
LEMMA ProgramParts ==
    ASSUME NEW p \in Programs
    PROVE  /\ 0 \in Live(p) /\ Live(p) \subseteq Pcs(p) /\ Pcs(p) \subseteq Nat
           /\ p.slots \in Nat /\ 1 \in 0 .. p.slots - 1
           /\ Len(p.ncaps) \in Nat /\ 0 \in RegexIds(p)
           /\ \A r \in Regexes(p) : /\ p.offset[r] \in Nat /\ p.ncaps[r] \in Nat
                                    /\ p.offset[r] + 2 * (p.ncaps[r] + 1) <= p.slots
           /\ \A id \in RegexIds(p) : id + 1 \in Regexes(p)
<1>1. WellFormed(p)
  BY ConstantsAssumption
<1>2. 0 \in Live(p) /\ Pcs(p) \subseteq Nat /\ p.slots \in Nat
  BY <1>1 DEF WellFormed, WellFormedCode
<1>3. Live(p) \subseteq Pcs(p)
  BY DEF Live
<1>4. p.ncaps \in Seq(Nat) /\ p.ncaps # <<>> /\ p.offset \in [Regexes(p) -> Nat]
  BY <1>1 DEF WellFormed, WellFormedCode
<1>5. Len(p.ncaps) \in Nat /\ Len(p.ncaps) # 0
  BY <1>4, LenProperties, EmptySeq
<1>6. \A r \in Regexes(p) : p.offset[r] \in Nat /\ p.ncaps[r] \in Nat
  BY <1>4, ElementOfSeq DEF Regexes
<1>7. \A r \in Regexes(p) : p.offset[r] + 2 * (p.ncaps[r] + 1) <= p.slots
  BY <1>1 DEF WellFormed, WellFormedCode
<1>8. 1 \in Regexes(p)
  BY <1>5 DEF Regexes
<1>9. 1 \in 0 .. p.slots - 1
  <2>1. /\ p.offset[1] \in Nat /\ p.ncaps[1] \in Nat
        /\ p.offset[1] + 2 * (p.ncaps[1] + 1) <= p.slots
    BY <1>6, <1>7, <1>8
  <2> QED BY <1>2, <2>1
<1>10. 0 \in RegexIds(p) /\ \A id \in RegexIds(p) : id + 1 \in Regexes(p)
  BY <1>5 DEF RegexIds, Regexes
<1> QED BY <1>2, <1>3, <1>5, <1>6, <1>7, <1>9, <1>10

\* Execution goes from a live instruction to a live one.
LEMMA InstructionParts ==
    ASSUME NEW p \in Programs, NEW i \in Live(p)
    PROVE  /\ p.code[i].op = "jmp" => p.code[i].x \in Live(p)
           /\ p.code[i].op = "split" => p.code[i].x \in Live(p) /\ p.code[i].y \in Live(p)
           /\ p.code[i].op \notin {"jmp", "split", "match"} => i + 1 \in Live(p)
           /\ p.code[i].op = "save" => p.code[i].n \in 0 .. p.slots - 1
           /\ p.code[i].op = "match" => p.code[i].n \in RegexIds(p)
<1>1. WellFormed(p)
  BY ConstantsAssumption
<1>2. Leads(p.code[i], i) \subseteq Live(p)
  BY <1>1 DEF WellFormed, WellFormedCode
<1>3. i \in Pcs(p) /\ p.slots \in Nat /\ Len(p.ncaps) \in Nat
  BY ProgramParts
<1>4. p.code[i].n \in Nat
  <2>1. p.code \in [Pcs(p) -> Instructions(p)]
    BY <1>1 DEF WellFormed, WellFormedCode
  <2>2. p.code[i] \in Instructions(p)
    BY <1>3, <2>1
  <2> QED BY <2>2 DEF Instructions
<1>5. /\ p.code[i].op = "save" => p.code[i].n < p.slots
      /\ p.code[i].op = "match" => p.code[i].n + 1 \in Regexes(p)
  BY <1>1, <1>3 DEF WellFormed, WellFormedCode
<1>6. p.code[i].op = "jmp" => p.code[i].x \in Live(p)
  BY <1>2 DEF Leads
<1>7. p.code[i].op = "split" => p.code[i].x \in Live(p) /\ p.code[i].y \in Live(p)
  BY <1>2 DEF Leads
<1>8. p.code[i].op \notin {"jmp", "split", "match"} => i + 1 \in Live(p)
  BY <1>2 DEF Leads
<1>9. p.code[i].op = "save" => p.code[i].n \in 0 .. p.slots - 1
  BY <1>3, <1>4, <1>5
<1>10. p.code[i].op = "match" => p.code[i].n \in RegexIds(p)
  BY <1>3, <1>4, <1>5 DEF Regexes, RegexIds
<1> QED BY <1>6, <1>7, <1>8, <1>9, <1>10

(***************************************************************************)
(* What points into a memory points into a larger one.                     *)
(***************************************************************************)
LEMMA ListWiden ==
    ASSUME NEW m \in Nat, NEW n \in Nat, m <= n, NEW l \in ThreadLists(m)
    PROVE  l \in ThreadLists(n)
<1>1. l.ids \in Seq(1 .. m) /\ l.tail \in 0 .. m /\ l.count \in Int
  BY DEF ThreadLists
<1>2. l.ids \in Seq(1 .. n)
  BY <1>1, SeqWiden
<1>3. l.tail \in 0 .. n
  BY <1>1
<1> QED BY <1>1, <1>2, <1>3 DEF ThreadLists

\* A pending branch of a smaller heap is one of a larger.
LEMMA FramesWiden ==
    ASSUME NEW p, NEW m \in Nat, NEW n \in Nat, m <= n, NEW s \in Seq(Frames(p, m))
    PROVE  s \in Seq(Frames(p, n))
<1>1. Frames(p, m) \subseteq Frames(p, n)
  BY DEF Frames
<1> HIDE DEF Frames
<1> QED BY <1>1, SeqMonotonic

\* A thread whose capture is in a smaller heap has it in a larger.
LEMMA ThreadsWiden ==
    ASSUME NEW p, NEW m \in Nat, NEW n \in Nat, m <= n, NEW q \in Pools(Threads(p, m))
    PROVE  q \in Pools(Threads(p, n))
<1>1. Threads(p, m) \subseteq Threads(p, n)
  BY DEF Threads
<1>2. q.cell \in Seq(Threads(p, n))
  BY <1>1, PoolParts, SeqMonotonic
<1> QED BY <1>2 DEF Pools

(***************************************************************************)
(* Threads and lists of threads.                                           *)
(***************************************************************************)
LEMMA ListParts ==
    ASSUME NEW n \in Nat, NEW l \in ThreadLists(n)
    PROVE  /\ l.ids \in Seq(1 .. n) /\ l.count \in Int
           /\ l.ids # <<>> => Head(l.ids) \in 1 .. n /\ PopHead(l) \in ThreadLists(n)
<1>1. l.ids \in Seq(1 .. n) /\ l.count \in Int
  BY DEF ThreadLists
<1>2. ASSUME l.ids # <<>> PROVE Head(l.ids) \in 1 .. n /\ Tail(l.ids) \in Seq(1 .. n)
  BY <1>1, <1>2, HeadTailProperties
<1>3. ASSUME l.ids # <<>> PROVE PopHead(l) \in ThreadLists(n)
  BY <1>2, <1>3 DEF ThreadLists, PopHead
<1> QED BY <1>1, <1>2, <1>3

\* A thread cell waits at a live instruction with a capture of the heap.
LEMMA ThreadParts ==
    ASSUME NEW p, NEW n, NEW q \in Pools(Threads(p, n)), NEW i \in 1 .. Len(q.cell)
    PROVE  q.cell[i].pc \in Live(p) /\ q.cell[i].cap \in 1 .. n /\ q.cell[i].sw \in BOOLEAN
<1>1. q.cell[i] \in Threads(p, n)
  BY PoolParts DEF Captures
<1> QED BY <1>1 DEF Threads

\* Freeing the threads of s: one in sre_vm_pike_free_thread, a list at an eof.
LEMMA FreeType ==
    ASSUME NEW C, NEW q \in Pools(C), NEW s \in Seq(1 .. Len(q.cell))
    PROVE  /\ [q EXCEPT !.free = s \o @] \in Pools(C)
           /\ [q EXCEPT !.free = s \o @].cell = q.cell
<1>1. s \o q.free \in Seq(1 .. Len(q.cell))
  BY PoolParts, ConcatProperties
<1>2. Len(q.cell) \in Nat
  BY PoolParts
<1>3. s \o q.free \in Seq(Nat)
  BY <1>1, <1>2, SeqWiden
<1> QED BY <1>1, <1>3 DEF Pools

\* sre_vm_pike_free_thread leaves a pool of the same cells.
LEMMA FreeThreadType ==
    ASSUME NEW C, NEW q \in Pools(C), NEW i \in 1 .. Len(q.cell)
    PROVE  FreeThread(q, i) \in Pools(C) /\ FreeThread(q, i).cell = q.cell
<1>1. <<i>> \in Seq(1 .. Len(q.cell))
  OBVIOUS
<1> QED BY <1>1, FreeType DEF FreeThread

\* A thread of the pool appended to a list leaves a list of the pool.
LEMMA EnlistType ==
    ASSUME NEW n \in Nat, NEW l \in ThreadLists(n), NEW i \in 1 .. n
    PROVE  Enlist(l, i) \in ThreadLists(n)
<1>1. l.ids \in Seq(1 .. n) /\ l.count \in Int
  BY DEF ThreadLists
<1>2. Append(l.ids, i) \in Seq(1 .. n)
  BY <1>1, AppendProperties
<1> QED BY <1>1, <1>2 DEF Enlist, ThreadLists

\* A list that has just been created is a list of any pool.
LEMMA EmptyListType == ASSUME NEW n \in Nat PROVE EmptyList \in ThreadLists(n)
<1>1. <<>> \in Seq(1 .. n) /\ NoThread \in 0 .. n
  BY EmptySeq DEF NoThread
<1> QED BY <1>1 DEF EmptyList, ThreadLists

\* The threads of an assertion in front of a list are a list of the same pool.
LEMMA SplicedType ==
    ASSUME NEW n \in Nat, NEW l \in ThreadLists(n), NEW m \in ThreadLists(n)
    PROVE  Spliced(l, m) \in ThreadLists(n)
<1>1. l.ids \in Seq(1 .. n) /\ m.ids \in Seq(1 .. n)
  BY DEF ThreadLists
<1>2. l.ids \o m.ids \in Seq(1 .. n)
  BY <1>1, ConcatProperties
<1> QED BY <1>2 DEF Spliced, ThreadLists

\* A list freed at an eof is a list of the same pool.
LEMMA EmptiedType ==
    ASSUME NEW n \in Nat, NEW l \in ThreadLists(n)
    PROVE  Emptied(l) \in ThreadLists(n)
<1>1. <<>> \in Seq(1 .. n)
  BY EmptySeq
<1> QED BY <1>1 DEF Emptied, ThreadLists

\* Tags stay natural numbers when they wrap.
LEMMA TagType ==
    ASSUME NEW n \in Nat
    PROVE  NextTag(n) \in Nat /\ PrevTag(n) \in Nat
BY ConstantsAssumption DEF NextTag, PrevTag

(***************************************************************************)
(* The type invariant, action by action.                                   *)
(***************************************************************************)
LEMMA TypeInit == Init => TypeOK
<1> SUFFICES ASSUME Init PROVE TypeOK
  OBVIOUS
<1>1. prog \in Programs /\ stream \in Streams
  BY DEF Init
<1>2. 0 \in Live(prog)
  BY <1>1, ProgramParts
<1>3. TypeOfProgram
  <2>1. marks \in [Pcs(prog) -> Nat]
    BY DEF Init
  <2> QED BY <1>1, <2>1 DEF Init, TypeOfProgram
<1>4. TypeOfCaller
  <2>1. lastChunk \in BOOLEAN /\ out.rc = "none"
    BY DEF Init, NoOut
  <2>2. ovector \in Vectors(prog)
    BY DEF Init, Vectors
  <2> QED BY <2>1, <2>2 DEF Init, TypeOfCaller
<1>5. Len(heap.cell) = 0 /\ Len(pool.cell) = 0
  BY EmptySeq DEF Init, EmptyHeap
<1>6. \A C : EmptyHeap \in Pools(C)
  BY EmptySeq DEF EmptyHeap, Pools
<1>7. TypeOfMemory
  BY <1>6 DEF Init, TypeOfMemory
<1>8. EmptyList \in ThreadLists(Len(pool.cell))
  BY <1>5, EmptyListType
<1>9. TypeOfContext
  <2>1. initial \in [count : Int, pcs : Seq(Live(prog))]
    BY EmptySeq DEF Init
  <2>2. matched \in Captures(heap) \cup {NoCapture}
    BY DEF Init
  <2>3. clist \in ThreadLists(Len(pool.cell)) /\ nlist \in ThreadLists(Len(pool.cell))
    BY <1>8 DEF Init
  <2>4. /\ firstBuf \in BOOLEAN /\ seenStart \in BOOLEAN /\ ctxEof \in BOOLEAN
        /\ emptyCapture \in BOOLEAN /\ seenNewline \in BOOLEAN /\ seenWord \in BOOLEAN
    BY DEF Init
  <2>5. processed \in Int /\ lastMatched \in Int
    BY DEF Init
  <2> QED BY <2>1, <2>2, <2>3, <2>4, <2>5 DEF TypeOfContext
<1>10. TypeOfLocals
  <2>1. eof \in BOOLEAN /\ wanted \in BOOLEAN
    BY DEF Init
  <2>2. t \in 0 .. Len(pool.cell)
    BY <1>5 DEF Init, NoThread
  <2>3. temp \in ThreadLists(Len(pool.cell))
    BY <1>8 DEF Init
  <2>4. at \in Labels /\ sp \in Nat /\ size \in Nat
    BY DEF Init, Labels
  <2> QED BY <2>1, <2>2, <2>3, <2>4 DEF TypeOfLocals
<1>11. TypeOfCalls
  BY <1>2, <1>5, EmptySeq DEF Init, TypeOfCalls, CallHolds, NoCall, NoCapture
<1> QED BY <1>3, <1>4, <1>7, <1>9, <1>10, <1>11 DEF TypeOK

\* The head of the byte loop and the swap of the lists keep the invariant.
LEMMA LoopType ==
    ASSUME TypeOK, LoopEnd \/ LoopStep \/ LoopSkip \/ ClearedSkipped \/ StepDone \/ StepNext
    PROVE  TypeOK'
<1> USE DEF program, caller, tags, memory, lists, flags, context, adding,
            TypeOK, TypeOfProgram, TypeOfCaller, TypeOfMemory, TypeOfContext,
            TypeOfLocals, TypeOfCalls, CallHolds, Labels
<1>1. CASE LoopEnd
  BY <1>1 DEF LoopEnd
<1>2. CASE LoopStep
  BY <1>2, TagType DEF LoopStep, RunThreads
<1>3. CASE LoopSkip
  <2>1. sp' \in Nat
    BY <1>3 DEF LoopSkip
  <2>2. seenStart' \in BOOLEAN
    BY <1>3 DEF LoopSkip
  <2>3. at' = "clear-skipped" /\ at = "loop"
    BY <1>3 DEF LoopSkip
  <2>4. UNCHANGED <<program, caller, tags, memory, lists, firstBuf, ctxEof,
                    emptyCapture, seenNewline, seenWord, context, size, eof,
                    wanted, t, adding>>
    BY <1>3 DEF LoopSkip
  <2> QED BY <2>1, <2>2, <2>3, <2>4
<1>4. CASE ClearedSkipped
  BY <1>4 DEF ClearedSkipped
<1>5. CASE StepDone
  BY <1>5 DEF StepDone
<1>6. CASE StepNext
  BY <1>6 DEF StepNext
<1> QED BY <1>1, <1>2, <1>3, <1>4, <1>5, <1>6

\* What the invariant says of the pointers, for the heap and the pool as they are
\* and for larger ones.
LEMMA Lengths == TypeOK => Len(heap.cell) \in Nat /\ Len(pool.cell) \in Nat
BY PoolParts DEF TypeOK, TypeOfMemory

\* A heap with more captures keeps what points into it valid.
LEMMA HeapGrows ==
    ASSUME TypeOK, NEW n \in Nat, Len(heap.cell) <= n
    PROVE  /\ pool \in Pools(Threads(prog, n))
           /\ stack \in Seq(Frames(prog, n))
           /\ call.cap \in 0 .. n
           /\ Captures(heap) \subseteq 1 .. n
           /\ matched \in 1 .. n \cup {NoCapture}
<1>1. Len(heap.cell) \in Nat
  BY Lengths
<1>2. pool \in Pools(Threads(prog, n))
  BY <1>1, ThreadsWiden DEF TypeOK, TypeOfMemory
<1>3. stack \in Seq(Frames(prog, n))
  BY <1>1, FramesWiden DEF TypeOK, TypeOfCalls
<1>4. call.cap \in 0 .. n
  BY <1>1 DEF TypeOK, TypeOfCalls
<1>5. Captures(heap) \subseteq 1 .. n
  BY <1>1 DEF Captures
<1> QED BY <1>2, <1>3, <1>4, <1>5 DEF TypeOK, TypeOfContext

\* A pool with more threads keeps what points into it valid.
LEMMA PoolGrows ==
    ASSUME TypeOK, NEW n \in Nat, Len(pool.cell) <= n
    PROVE  /\ clist \in ThreadLists(n) /\ nlist \in ThreadLists(n)
           /\ temp \in ThreadLists(n) /\ t \in 0 .. n
<1>1. Len(pool.cell) \in Nat
  BY Lengths
<1>2. clist \in ThreadLists(n) /\ nlist \in ThreadLists(n)
  BY <1>1, ListWiden DEF TypeOK, TypeOfContext
<1>3. temp \in ThreadLists(n) /\ t \in 0 .. n
  BY <1>1, ListWiden DEF TypeOK, TypeOfLocals
<1> QED BY <1>2, <1>3

\* A capture that is taken leaves every pointer valid.
LEMMA CreateType ==
    ASSUME TypeOK
    PROVE  /\ CaptureCreate(heap, prog.slots) \in Pools(Cells(RegexIds(prog), Vectors(prog)))
           /\ Fresh(heap) \in Captures(CaptureCreate(heap, prog.slots))
           /\ Len(CaptureCreate(heap, prog.slots).cell) \in Nat
           /\ Len(heap.cell) <= Len(CaptureCreate(heap, prog.slots).cell)
<1> DEFINE v == [i \in 0 .. prog.slots - 1 |-> -1]
           new == Take(heap, v)
<1>1. CaptureCreate(heap, prog.slots) = new
  BY DEF CaptureCreate
<1>2. v \in Vectors(prog)
  BY DEF Vectors
<1> HIDE DEF v
<1>3. 0 \in RegexIds(prog)
  BY ProgramParts DEF TypeOK, TypeOfProgram
<1>4. heap \in Pools(Cells(RegexIds(prog), Vectors(prog)))
  BY DEF TypeOK, TypeOfMemory
<1>5. /\ new \in Pools(Cells(RegexIds(prog), Vectors(prog)))
      /\ Fresh(heap) \in 1 .. Len(new.cell)
      /\ Len(new.cell) = IF FromPool(heap) THEN Len(heap.cell) + 1 ELSE Len(heap.cell)
  BY <1>2, <1>3, <1>4, TakeEffect
<1> HIDE DEF new
<1> QED BY <1>1, <1>5, Lengths DEF Captures

\* The entry of sre_vm_pike_exec, its early returns included, keeps the invariant.
LEMMA CallType ==
    ASSUME TypeOK, Call
    PROVE  TypeOK'
<1> USE DEF program, caller, tags, memory, lists, flags, context, adding,
            TypeOK, TypeOfProgram, TypeOfCaller, TypeOfMemory, TypeOfContext,
            TypeOfLocals, TypeOfCalls, CallHolds, Labels
<1>1. CASE ExecAfterEof
  BY <1>1 DEF ExecAfterEof, NoRc, exec
<1>2. ASSUME NEW c \in Chunks
      PROVE  c.size \in Nat /\ c.eof \in BOOLEAN /\ c.wanted \in BOOLEAN
  BY ConstantsAssumption DEF Chunks
<1>3. CASE ExecEmptyChunk
  <2>1. /\ lastMatched' = -1 /\ emptyCapture' \in BOOLEAN
        /\ UNCHANGED <<program, base, from, ovector, tags, memory, lists, firstBuf,
                       seenStart, seenNewline, seenWord, processed, matched, initial,
                       exec, adding>>
    BY <1>3, Zenon DEF ExecEmptyChunk
  <2>2. ctxEof' \in BOOLEAN /\ lastChunk' \in BOOLEAN /\ out'.rc \in {"DECLINED", "AGAIN"}
    BY <1>2, <1>3 DEF ExecEmptyChunk, NoRc
  <2> QED BY <2>1, <2>2 DEF exec
<1>4. ASSUME NEW c \in Chunks, Enter(c)
      PROVE  /\ sp' \in Nat /\ size' \in Nat /\ eof' \in BOOLEAN
             /\ wanted' \in BOOLEAN /\ lastChunk' \in BOOLEAN
             /\ lastMatched' = -1 /\ emptyCapture' \in BOOLEAN
  BY <1>2, <1>4 DEF Enter, SkipAfterEmpty
<1>5. CASE ExecResume
  <2>1. /\ sp' \in Nat /\ size' \in Nat /\ eof' \in BOOLEAN
        /\ wanted' \in BOOLEAN /\ lastChunk' \in BOOLEAN
        /\ lastMatched' = -1 /\ emptyCapture' \in BOOLEAN
    BY <1>4, <1>5 DEF ExecResume
  <2> QED BY <1>5, <2>1 DEF ExecResume, CallerReady
<1>6. CASE ExecFirstBuffer
  <2>1. PICK c \in Chunks, ok \in Allocation(~FromPool(heap)) :
          /\ Enter(c)
          /\ IF ok
             THEN /\ heap' = CaptureCreate(heap, prog.slots)
                  /\ tag' = NextTag(progTag)
                  /\ AddFrom("first", 0, Fresh(heap))
                  /\ UNCHANGED out
             ELSE /\ at' = "idle"
                  /\ out' = NoRc("ERROR")
                  /\ UNCHANGED <<heap, tag, adding>>
    BY <1>6 DEF ExecFirstBuffer
  <2>2. /\ sp' \in Nat /\ size' \in Nat /\ eof' \in BOOLEAN
        /\ wanted' \in BOOLEAN /\ lastChunk' \in BOOLEAN
        /\ lastMatched' = -1 /\ emptyCapture' \in BOOLEAN
    BY <1>4, <2>1
  <2>3. /\ at = "idle"
        /\ UNCHANGED <<program, base, from, ovector, marks, progTag, pool, pending,
                       lists, seenStart, ctxEof, seenNewline, seenWord, processed,
                       matched, initial, t>>
    BY <1>6 DEF ExecFirstBuffer, CallerReady
  <2>4. firstBuf' \in BOOLEAN
    BY <1>6 DEF ExecFirstBuffer
  <2>5. CASE ~ok
    BY <2>1, <2>2, <2>3, <2>5, <2>4 DEF NoRc
  <2>6. CASE ok
    <3> DEFINE n == Len(heap'.cell)
    <3>1. /\ heap' \in Pools(Cells(RegexIds(prog), Vectors(prog)))
          /\ n \in Nat /\ Len(heap.cell) <= n
          /\ Fresh(heap) \in 1 .. n
      BY <2>1, <2>6, CreateType DEF Captures
    <3>2. pool \in Pools(Threads(prog, n)) /\ matched \in 1 .. n \cup {NoCapture}
      BY <3>1, HeapGrows
    <3>3. tag' \in Nat
      BY <2>1, <2>6, TagType
    <3>4. /\ at' = "add" /\ site' = "first" /\ call' = [pc |-> 0, cap |-> Fresh(heap)]
          /\ stack' = <<>> /\ rc' = "OK" /\ out' = out
      BY <2>1, <2>6 DEF AddFrom
    <3>5. call'.pc = 0 /\ call'.cap = Fresh(heap)
      BY <3>4
    <3>6. 0 \in Live(prog)
      BY ProgramParts
    <3>7. stack' \in Seq(Frames(prog, n))
      BY <3>4, EmptySeq
    <3>8. TypeOfProgram' /\ TypeOfCaller'
      BY <2>1, <2>2, <2>3, <3>3, <3>4
    <3>9. TypeOfMemory'
      BY <2>3, <3>1, <3>2
    <3>10. TypeOfContext' /\ TypeOfLocals'
      BY <2>2, <2>3, <2>4, <3>2, <3>4 DEF Captures
    <3>11. TypeOfCalls'
      BY <2>3, <3>1, <3>4, <3>5, <3>6, <3>7 DEF NoCapture
    <3> QED BY <3>8, <3>9, <3>10, <3>11
  <2> QED BY <2>5, <2>6
<1> QED BY <1>1, <1>3, <1>5, <1>6 DEF Call

\* A failing allocation: the machine stops, and memory is as it was.
LEMMA FailType ==
    ASSUME TypeOK, Fail, UNCHANGED <<marks, tag, memory>>, progTag' \in Nat
    PROVE  TypeOK'
<1> USE DEF program, caller, tags, memory, lists, flags, context, adding,
            TypeOK, TypeOfProgram, TypeOfCaller, TypeOfMemory, TypeOfContext,
            TypeOfLocals, TypeOfCalls, CallHolds, Labels
<1>1. /\ at' = "idle" /\ out' = NoRc("ERROR")
      /\ sp' = 0 /\ size' = 0 /\ t' = NoThread
      /\ site' = "none" /\ call' = NoCall /\ stack' = <<>> /\ rc' = "OK"
      /\ UNCHANGED <<program, base, from, lastChunk, ovector, lists, flags, context>>
  BY DEF Fail, Return
<1>2. eof' \in BOOLEAN /\ wanted' \in BOOLEAN
  BY DEF Fail, Return
<1>3. call'.pc = 0 /\ call'.cap = 0 /\ out'.rc = "ERROR"
  BY <1>1 DEF NoCall, NoCapture, NoRc
<1>4. 0 \in Live(prog) /\ Len(heap.cell) \in Nat /\ Len(pool.cell) \in Nat
  BY ProgramParts, Lengths
<1>5. stack' \in Seq(Frames(prog, Len(heap.cell)))
  BY <1>1, EmptySeq
<1>6. TypeOfCalls'
  BY <1>1, <1>3, <1>4, <1>5
<1> QED BY <1>1, <1>2, <1>3, <1>4, <1>6 DEF NoThread

\* An add_thread call begins with a capture of the heap, which may have grown.
LEMMA AddFromType ==
    ASSUME TypeOK, NEW s \in {"first", "skip", "byte", "assert"},
           NEW pc \in Live(prog), NEW cap \in Captures(heap)',
           AddFrom(s, pc, cap), prog' = prog,
           s \in {"byte", "assert"} => t' # NoThread
    PROVE  TypeOfCalls'
<1>1. /\ at' = "add" /\ site' = s /\ call' = [pc |-> pc, cap |-> cap]
      /\ stack' = <<>> /\ rc' = "OK"
  BY DEF AddFrom
<1>2. call'.pc = pc /\ call'.cap = cap
  BY <1>1
<1>3. stack' \in Seq(Frames(prog, Len(heap'.cell)))
  BY <1>1, EmptySeq
<1>4. cap \in 0 .. Len(heap'.cell) /\ cap # NoCapture
  BY DEF Captures, NoCapture
<1> QED BY <1>1, <1>2, <1>3, <1>4 DEF TypeOfCalls, CallHolds

\* The restart of the search at a leading byte keeps the invariant.
LEMMA SkippedType ==
    ASSUME TypeOK, Skipped
    PROVE  TypeOK'
<1> USE DEF program, caller, tags, memory, lists, flags, context, adding,
            TypeOK, TypeOfProgram, TypeOfCaller, TypeOfMemory, TypeOfContext,
            TypeOfLocals
<1>1. CASE Fail /\ UNCHANGED <<tags, memory>>
  BY <1>1, FailType
<1>2. CASE /\ heap' = CaptureCreate(heap, prog.slots)
           /\ tag' = NextTag(tag)
           /\ AddFrom("skip", 0, Fresh(heap))
           /\ UNCHANGED <<program, caller, marks, progTag, pool, pending, lists,
                          flags, context, sp, size, eof, wanted, t>>
  <2> DEFINE n == Len(heap'.cell)
  <2>1. /\ heap' \in Pools(Cells(RegexIds(prog), Vectors(prog)))
        /\ n \in Nat /\ Len(heap.cell) <= n
        /\ Fresh(heap) \in Captures(heap)'
    BY <1>2, CreateType DEF Captures
  <2>2. pool \in Pools(Threads(prog, n)) /\ matched \in 1 .. n \cup {NoCapture}
    BY <2>1, HeapGrows
  <2>3. TypeOfProgram' /\ TypeOfCaller' /\ TypeOfMemory'
    BY <1>2, <2>1, <2>2, TagType
  <2>4. TypeOfContext' /\ TypeOfLocals'
    BY <1>2, <2>2 DEF AddFrom, Captures, Labels
  <2>5. TypeOfCalls'
    <3>1. 0 \in Live(prog)
      BY ProgramParts
    <3> QED BY <1>2, <2>1, <3>1, AddFromType
  <2> QED BY <2>3, <2>4, <2>5
<1> QED BY <1>1, <1>2 DEF Skipped

\* A step that frees thread i and drops the reference of its capture, or leaves it.
LEMMA DropThread ==
    ASSUME TypeOK, NEW i \in 1 .. Len(pool.cell)
    PROVE  /\ DecrRef(heap, Thread(i).cap) \in Pools(Cells(RegexIds(prog), Vectors(prog)))
           /\ Len(DecrRef(heap, Thread(i).cap).cell) = Len(heap.cell)
           /\ FreeThread(pool, i) \in Pools(Threads(prog, Len(heap.cell)))
           /\ FreeThread(pool, i).cell = pool.cell
<1>1. /\ heap \in Pools(Cells(RegexIds(prog), Vectors(prog)))
      /\ pool \in Pools(Threads(prog, Len(heap.cell)))
  BY DEF TypeOK, TypeOfMemory
<1>2. Thread(i).cap \in Captures(heap)
  BY <1>1, ThreadParts DEF Thread, Captures
<1>3. /\ DecrRef(heap, Thread(i).cap) \in Pools(Cells(RegexIds(prog), Vectors(prog)))
      /\ Len(DecrRef(heap, Thread(i).cap).cell) = Len(heap.cell)
  BY <1>1, <1>2, DecrRefType
<1>4. /\ FreeThread(pool, i) \in Pools(Threads(prog, Len(heap.cell)))
      /\ FreeThread(pool, i).cell = pool.cell
  BY <1>1, FreeThreadType
<1> QED BY <1>3, <1>4

\* sre_vm_pike_clear_thread_list keeps the invariant thread by thread.
LEMMA ClearThreadType ==
    ASSUME TypeOK, ClearThread
    PROVE  TypeOK'
<1> USE DEF program, caller, tags, memory, lists, flags, context, adding, exec,
            TypeOK, TypeOfProgram, TypeOfCaller, TypeOfMemory, TypeOfContext,
            TypeOfLocals, TypeOfCalls, CallHolds, Labels
<1> DEFINE l == IF at = "clear-leftover" THEN nlist ELSE clist
           i == Head(l.ids)
<1>1. /\ l.ids # <<>>
      /\ heap' = DecrRef(heap, Thread(i).cap) /\ pool' = FreeThread(pool, i)
      /\ UNCHANGED <<program, caller, tags, pending, temp, flags, context, exec, adding>>
  BY DEF ClearThread
<1>2. \/ l = nlist /\ nlist' = PopHead(nlist) /\ clist' = clist
      \/ l = clist /\ clist' = PopHead(clist) /\ nlist' = nlist
  BY DEF ClearThread
<1>3. l \in ThreadLists(Len(pool.cell)) /\ Len(pool.cell) \in Nat
  BY Lengths
<1> HIDE DEF l
<1>4. i \in 1 .. Len(pool.cell)
  BY <1>1, <1>3, ListParts
<1> HIDE DEF i
<1>5. /\ heap' \in Pools(Cells(RegexIds(prog), Vectors(prog)))
      /\ Len(heap'.cell) = Len(heap.cell)
      /\ pool' \in Pools(Threads(prog, Len(heap.cell)))
      /\ pool'.cell = pool.cell
  BY <1>1, <1>4, DropThread
<1>6. clist' \in ThreadLists(Len(pool.cell)) /\ nlist' \in ThreadLists(Len(pool.cell))
  BY <1>1, <1>2, <1>3, ListParts
<1> QED BY <1>1, <1>5, <1>6 DEF Captures

\* The thread that is dispatched, its instruction and its capture.
LEMMA CurrentParts ==
    ASSUME TypeOK, Dispatch
    PROVE  /\ Current \in 1 .. Len(pool.cell) /\ Current # NoThread
           /\ Thread(Current).pc \in Live(prog)
           /\ Thread(Current).cap \in Captures(heap)
           /\ PopHead(clist) \in ThreadLists(Len(pool.cell))
<1>1. clist \in ThreadLists(Len(pool.cell)) /\ clist.ids # <<>>
  BY DEF TypeOK, TypeOfContext, Dispatch
<1>2. Len(pool.cell) \in Nat
  BY Lengths
<1>3. Current \in 1 .. Len(pool.cell) /\ PopHead(clist) \in ThreadLists(Len(pool.cell))
  BY <1>1, <1>2, ListParts DEF Current
<1>4. pool \in Pools(Threads(prog, Len(heap.cell)))
  BY DEF TypeOK, TypeOfMemory
<1>5. Thread(Current).pc \in Live(prog) /\ Thread(Current).cap \in Captures(heap)
  BY <1>3, <1>4, ThreadParts DEF Thread, Captures
<1> QED BY <1>3, <1>5 DEF NoThread

\* The instruction behind one that consumes a byte, saves or asserts.
LEMMA Behind ==
    ASSUME TypeOK, NEW pc \in Live(prog), Ins(pc).op \notin {"jmp", "split", "match"}
    PROVE  pc + 1 \in Live(prog)
BY InstructionParts DEF TypeOK, TypeOfProgram, Ins

\* The matched label.
LEMMA MatchedType ==
    ASSUME TypeOK, NEW i \in 1 .. Len(pool.cell),
           NEW h \in Pools(Cells(RegexIds(prog), Vectors(prog))),
           Len(h.cell) = Len(heap.cell), NEW cap \in Captures(heap),
           Matched(h, cap, i), prog' = prog, pending' = pending
    PROVE  /\ TypeOfMemory' /\ matched' \in Captures(heap)'
           /\ Len(heap'.cell) = Len(heap.cell) /\ pool'.cell = pool.cell
           /\ at' = "clear-matched" /\ t' = NoThread
<1>1. /\ heap' = IF matched = NoCapture THEN h ELSE DecrRef(h, matched)
      /\ matched' = cap /\ pool' = FreeThread(pool, i)
      /\ at' = "clear-matched" /\ t' = NoThread
  BY DEF Matched
<1>2. /\ heap' \in Pools(Cells(RegexIds(prog), Vectors(prog)))
      /\ Len(heap'.cell) = Len(heap.cell)
  <2>1. CASE matched = NoCapture
    BY <1>1, <2>1
  <2>2. CASE matched # NoCapture
    <3>1. matched \in Captures(h)
      BY <2>2 DEF TypeOK, TypeOfContext, Captures
    <3> QED BY <1>1, <2>2, <3>1, DecrRefType
  <2> QED BY <2>1, <2>2
<1>3. pool' \in Pools(Threads(prog, Len(heap.cell))) /\ pool'.cell = pool.cell
  BY <1>1, DropThread
<1>4. TypeOfMemory'
  BY <1>2, <1>3 DEF TypeOK, TypeOfMemory
<1> QED BY <1>1, <1>2, <1>3, <1>4 DEF Captures

\* Running a thread of clist, whatever its opcode, keeps the invariant.
LEMMA RunType ==
    ASSUME TypeOK, Run
    PROVE  TypeOK'
<1> USE DEF program, caller, tags, memory, lists, flags, context, adding,
            TypeOK, TypeOfProgram, TypeOfCaller, TypeOfMemory, TypeOfContext,
            TypeOfLocals, TypeOfCalls, CallHolds, Labels
<1>1. Dispatch
  BY DEF Run, ThreadDies, ThreadConsumes, AssertionFails, AssertionHold, ThreadMatches
<1>2. /\ Current \in 1 .. Len(pool.cell) /\ Current # NoThread
      /\ Thread(Current).pc \in Live(prog)
      /\ Thread(Current).cap \in Captures(heap)
      /\ PopHead(clist) \in ThreadLists(Len(pool.cell))
  BY <1>1, CurrentParts
<1>3. at = "threads" /\ clist' = PopHead(clist)
  BY <1>1 DEF Dispatch, Run, ThreadDies, ThreadConsumes, AssertionFails, AssertionHold,
              ThreadMatches
<1>4. CASE ThreadDies
  <2>1. /\ heap' \in Pools(Cells(RegexIds(prog), Vectors(prog)))
        /\ Len(heap'.cell) = Len(heap.cell)
        /\ pool' \in Pools(Threads(prog, Len(heap.cell)))
        /\ pool'.cell = pool.cell
    BY <1>2, <1>4, DropThread DEF ThreadDies
  <2>2. UNCHANGED <<program, caller, tags, pending, nlist, temp, flags, context, exec, adding>>
    BY <1>4 DEF ThreadDies
  <2> QED BY <1>2, <1>3, <2>1, <2>2 DEF Captures, exec
<1>5. CASE AssertionFails
  <2>1. pool' \in Pools(Threads(prog, Len(heap.cell))) /\ pool'.cell = pool.cell
    BY <1>2, <1>5, DropThread DEF AssertionFails
  <2>2. UNCHANGED <<program, caller, tags, heap, pending, nlist, temp, flags, context,
                   exec, adding>>
    BY <1>5 DEF AssertionFails
  <2> QED BY <1>2, <1>3, <2>1, <2>2 DEF exec
<1>6. CASE ThreadConsumes
  <2>1. /\ t' = Current
        /\ AddFrom("byte", Thread(Current).pc + 1, Thread(Current).cap)
        /\ UNCHANGED <<program, caller, tags, memory, nlist, temp, flags, context, sp,
                       size, eof, wanted>>
    BY <1>6 DEF ThreadConsumes
  <2>2. Thread(Current).pc + 1 \in Live(prog)
    <3>1. Waiting.op \notin {"jmp", "split", "match"}
      BY <1>6 DEF ThreadConsumes, CanConsume, Accepts
    <3> QED BY <1>2, <3>1, Behind DEF Waiting
  <2>3. TypeOfCalls'
    <3>1. Thread(Current).cap \in Captures(heap)'
      BY <1>2, <2>1 DEF Captures
    <3> QED BY <1>2, <2>1, <2>2, <3>1, AddFromType
  <2> QED BY <1>2, <1>3, <2>1, <2>3 DEF AddFrom
<1>7. CASE AssertionHold
  <2>1. /\ t' = Current /\ tag' = PrevTag(tag) /\ temp' = EmptyList
        /\ AddFrom("assert", Thread(Current).pc + 1, Thread(Current).cap)
        /\ UNCHANGED <<program, caller, marks, progTag, memory, nlist, flags, context, sp,
                       size, eof, wanted>>
    BY <1>7 DEF AssertionHold
  <2>2. Thread(Current).pc + 1 \in Live(prog)
    <3>1. Waiting.op \notin {"jmp", "split", "match"}
      BY <1>7 DEF AssertionHold
    <3> QED BY <1>2, <3>1, Behind DEF Waiting
  <2>3. TypeOfCalls'
    <3>1. Thread(Current).cap \in Captures(heap)'
      BY <1>2, <2>1 DEF Captures
    <3> QED BY <1>2, <2>1, <2>2, <3>1, AddFromType
  <2>4. temp' \in ThreadLists(Len(pool.cell)) /\ tag' \in Nat
    BY <2>1, EmptyListType, Lengths, TagType
  <2> QED BY <1>2, <1>3, <2>1, <2>3, <2>4 DEF AddFrom
<1>8. CASE ThreadMatches
  <2> DEFINE cap == Thread(Current).cap
             h == WithId(heap, cap, Waiting.n)
  <2>1. /\ Waiting.op = "match"
        /\ lastMatched' = heap.cell[cap].vector[1]
        /\ Matched(h, cap, Current)
        /\ UNCHANGED <<program, caller, tags, pending, nlist, temp, flags, processed,
                       initial, sp, size, eof, wanted, adding>>
    BY <1>8 DEF ThreadMatches
  <2>2. Waiting.n \in RegexIds(prog)
    BY <1>2, <2>1, InstructionParts DEF Waiting, Ins
  <2>3. heap.cell[cap].vector \in Vectors(prog)
    BY <1>2, CellParts
  <2>4. lastMatched' \in Int
    BY <2>1, <2>3, ProgramParts DEF Vectors
  <2>5. /\ h \in Pools(Cells(RegexIds(prog), Vectors(prog)))
        /\ Len(h.cell) = Len(heap.cell)
    BY <1>2, <2>2, WithIdEffect
  <2> HIDE DEF h
  <2>6. /\ TypeOfMemory' /\ matched' \in Captures(heap)'
        /\ Len(heap'.cell) = Len(heap.cell) /\ pool'.cell = pool.cell
        /\ at' = "clear-matched" /\ t' = NoThread
    BY <1>2, <2>1, <2>5, MatchedType
  <2>7. TypeOfContext' /\ TypeOfLocals'
    BY <1>2, <1>3, <2>1, <2>4, <2>6, Lengths DEF NoThread
  <2> QED BY <1>3, <2>1, <2>6, <2>7
<1> QED BY <1>4, <1>5, <1>6, <1>7, <1>8 DEF Run

\* The instruction and the capture of the innermost call.
LEMMA CalleeParts ==
    ASSUME TypeOK, Calling
    PROVE  /\ call.pc \in Live(prog) /\ call.cap \in Captures(heap)
           /\ site # "none"
BY Lengths DEF TypeOK, TypeOfCalls, CallHolds, Calling, Captures, NoCapture

\* A visit leaves a tag with every instruction.
LEMMA MarkType ==
    ASSUME TypeOK, Calling, Mark, UNCHANGED <<program, progTag, tag>>
    PROVE  TypeOfProgram'
<1>1. marks \in [Pcs(prog) -> Nat] /\ tag \in Nat
  BY DEF TypeOK, TypeOfProgram
<1>2. marks' \in [Pcs(prog) -> Nat]
  BY <1>1 DEF Mark
<1> QED BY <1>2 DEF TypeOK, TypeOfProgram, program

\* The innermost call goes on, or returns.
LEMMA ContinueType ==
    ASSUME TypeOK, Calling, NEW pc \in Live(prog), NEW cap \in Captures(heap)',
           Continue(pc, cap), stack' \in Seq(Frames(prog, Len(heap'.cell))),
           UNCHANGED <<prog, site, t>>
    PROVE  TypeOfCalls' /\ at' = "add"
<1>1. at' = "add" /\ call' = [pc |-> pc, cap |-> cap] /\ rc' = rc
  BY DEF Continue
<1>2. call'.pc = pc /\ call'.cap = cap
  BY <1>1
<1>3. cap \in 0 .. Len(heap'.cell) /\ cap # NoCapture
  BY DEF Captures, NoCapture
<1> QED BY <1>1, <1>2, <1>3, CalleeParts DEF TypeOK, TypeOfCalls, CallHolds

\* The result of add_thread is one of its codes, and SRE_DONE comes with a capture.
LEMMA ResultType ==
    ASSUME TypeOK, Calling, NEW code \in {"OK", "DONE", "ERROR"}, Result(code),
           Len(heap'.cell) = Len(heap.cell), UNCHANGED <<prog, site, t, stack>>
    PROVE  TypeOfCalls' /\ at' = "return"
<1>1. at' = "return" /\ rc' = code /\ call' = call
  BY DEF Result
<1>2. call.cap # NoCapture
  BY DEF Calling, TypeOK, TypeOfCalls, CallHolds
<1> QED BY <1>1, <1>2, CalleeParts DEF TypeOK, TypeOfCalls, CallHolds

\* What reaching MATCH writes into the capture.
LEMMA ReachMatch ==
    ASSUME TypeOK, Calling, Callee.op = "match"
    PROVE  /\ heap.cell[call.cap].vector[1] \in Int
           /\ WithId(heap, call.cap, Callee.n) \in
                Pools(Cells(RegexIds(prog), Vectors(prog)))
           /\ Len(WithId(heap, call.cap, Callee.n).cell) = Len(heap.cell)
<1>1. call.pc \in Live(prog) /\ call.cap \in Captures(heap) /\ prog \in Programs
  BY CalleeParts DEF TypeOK, TypeOfProgram
<1>2. Callee.n \in RegexIds(prog)
  BY <1>1, InstructionParts DEF Callee, Ins
<1>3. heap \in Pools(Cells(RegexIds(prog), Vectors(prog)))
  BY DEF TypeOK, TypeOfMemory
<1>4. heap.cell[call.cap].vector \in Vectors(prog)
  BY <1>1, <1>3, CellParts
<1>5. heap.cell[call.cap].vector[1] \in Int
  BY <1>1, <1>4, ProgramParts DEF Vectors
<1> QED BY <1>1, <1>2, <1>3, <1>5, WithIdEffect

\* add_thread goes from visited instructions, JMP and look-behinds to a live one.
LEMMA AddStepType ==
    ASSUME TypeOK, AddMarked \/ AddJmp \/ AddLookBehind
    PROVE  TypeOK'
<1> USE DEF program, caller, tags, memory, lists, flags, context, addFrame,
            TypeOK, TypeOfProgram, TypeOfCaller, TypeOfMemory, TypeOfContext,
            TypeOfLocals, Labels
<1>1. Calling /\ call.pc \in Live(prog) /\ call.cap \in Captures(heap)
  BY CalleeParts DEF AddMarked, AddJmp, AddLookBehind, NewPc
<1>2. stack \in Seq(Frames(prog, Len(heap.cell)))
  BY DEF TypeOfCalls
<1>3. UNCHANGED <<addFrame, heap, pool, lists, stack>>
  BY DEF AddMarked, AddJmp, AddLookBehind
<1>4. call.cap \in Captures(heap)'
  BY <1>1, <1>3 DEF Captures
<1>5. seenStart' \in BOOLEAN
  BY DEF AddMarked, AddJmp, AddLookBehind, PassStart
<1>6. TypeOfProgram'
  <2>1. CASE AddMarked
    BY <1>3, <2>1 DEF AddMarked
  <2>2. CASE ~AddMarked
    BY <1>1, <1>3, <2>2, MarkType DEF AddJmp, AddLookBehind
  <2> QED BY <2>1, <2>2
<1>7. TypeOfCalls' /\ at' \in {"add", "return"}
  <2>1. CASE AddMarked
    <3>1. CASE SecondBranchOpen
      <4>1. Callee.y \in Live(prog)
        BY <1>1, <3>1, InstructionParts DEF SecondBranchOpen, Callee, Ins
      <4>2. Continue(Callee.y, call.cap)
        BY <2>1, <3>1 DEF AddMarked
      <4> QED BY <1>1, <1>2, <1>3, <1>4, <4>1, <4>2, ContinueType
    <3>2. CASE ~SecondBranchOpen
      BY <1>1, <1>3, <2>1, <3>2, ResultType DEF AddMarked
    <3> QED BY <3>1, <3>2
  <2>2. CASE AddJmp
    <3>1. Callee.x \in Live(prog)
      BY <1>1, <2>2, InstructionParts DEF AddJmp, Callee, Ins
    <3>2. Continue(Callee.x, call.cap)
      BY <2>2 DEF AddJmp
    <3> QED BY <1>1, <1>2, <1>3, <1>4, <3>1, <3>2, ContinueType
  <2>3. CASE AddLookBehind
    <3>1. CASE LookBehindHolds
      <4>1. call.pc + 1 \in Live(prog)
        BY <1>1, <2>3, Behind DEF AddLookBehind, Callee
      <4>2. Continue(call.pc + 1, call.cap)
        BY <2>3, <3>1 DEF AddLookBehind
      <4> QED BY <1>1, <1>2, <1>3, <1>4, <4>1, <4>2, ContinueType
    <3>2. CASE ~LookBehindHolds
      BY <1>1, <1>3, <2>3, <3>2, ResultType DEF AddLookBehind
    <3> QED BY <3>1, <3>2
  <2> QED BY <2>1, <2>2, <2>3
<1> QED BY <1>3, <1>5, <1>6, <1>7 DEF Captures

\* A SPLIT leaves its second branch, live and with a capture, on the stack.
LEMMA AddSplitType ==
    ASSUME TypeOK, AddSplit
    PROVE  TypeOK'
<1> USE DEF program, caller, tags, memory, lists, flags, context, addFrame,
            TypeOK, TypeOfProgram, TypeOfCaller, TypeOfMemory, TypeOfContext,
            TypeOfLocals, Labels
<1> DEFINE frame == [pc |-> Callee.y, cap |-> call.cap]
<1>1. Calling /\ call.pc \in Live(prog) /\ call.cap \in Captures(heap)
  BY CalleeParts DEF AddSplit, NewPc
<1>2. /\ Mark /\ heap' = AddRef(heap, call.cap) /\ stack' = Append(stack, frame)
      /\ Continue(Callee.x, call.cap)
      /\ UNCHANGED <<addFrame, pool, lists>>
  BY DEF AddSplit
<1>3. seenStart' \in BOOLEAN
  BY DEF AddSplit, PassStart
<1>4. Callee.x \in Live(prog) /\ Callee.y \in Live(prog)
  BY <1>1, InstructionParts DEF AddSplit, Callee, Ins
<1>5. /\ heap' \in Pools(Cells(RegexIds(prog), Vectors(prog)))
      /\ Len(heap'.cell) = Len(heap.cell)
  BY <1>1, <1>2, AddRefType
<1>6. stack' \in Seq(Frames(prog, Len(heap.cell)))
  <2>1. frame \in Frames(prog, Len(heap.cell))
    BY <1>1, <1>4 DEF Frames, Captures
  <2>2. stack \in Seq(Frames(prog, Len(heap.cell)))
    BY DEF TypeOfCalls
  <2> QED BY <1>2, <2>1, <2>2, AppendProperties
<1>7. TypeOfProgram'
  BY <1>1, <1>2, MarkType
<1>8. TypeOfCalls' /\ at' = "add"
  <2>1. call.cap \in Captures(heap)' /\ stack' \in Seq(Frames(prog, Len(heap'.cell)))
    BY <1>1, <1>5, <1>6 DEF Captures
  <2> QED BY <1>1, <1>2, <1>4, <2>1, ContinueType
<1> QED BY <1>2, <1>3, <1>5, <1>7, <1>8 DEF Captures

\* What SAVE writes is a vector of the program.
LEMMA SavedVector ==
    ASSUME TypeOK, AddSave
    PROVE  Written(heap.cell[call.cap].vector, Callee.n, processed + Pos) \in Vectors(prog)
<1> DEFINE vector == heap.cell[call.cap].vector
<1>1. Calling /\ call.pc \in Live(prog) /\ call.cap \in Captures(heap)
  BY CalleeParts DEF AddSave, NewPc
<1>2. Callee.n \in 0 .. prog.slots - 1
  BY <1>1, InstructionParts DEF AddSave, Callee, Ins, TypeOK, TypeOfProgram
<1>3. vector \in Vectors(prog)
  BY <1>1, CellParts DEF TypeOK, TypeOfMemory
<1>4. processed + Pos \in Int
  BY DEF Pos, TypeOK, TypeOfContext, TypeOfLocals
<1> HIDE DEF vector
<1>5. Written(vector, Callee.n, processed + Pos) \in Vectors(prog)
  BY <1>2, <1>3, <1>4 DEF Written, Vectors
<1> QED BY <1>5 DEF vector

\* A SAVE hands on the capture sre_capture_update returns, or fails.
LEMMA AddSaveType ==
    ASSUME TypeOK, AddSave
    PROVE  TypeOK'
<1> USE DEF program, caller, tags, memory, lists, flags, context, addFrame,
            TypeOK, TypeOfProgram, TypeOfCaller, TypeOfMemory, TypeOfContext,
            TypeOfLocals, Labels
<1>1. Calling /\ call.pc \in Live(prog) /\ call.cap \in Captures(heap)
  BY CalleeParts DEF AddSave, NewPc
<1>2. Mark /\ UNCHANGED <<addFrame, pool, lists, stack, seenStart>>
  BY DEF AddSave
<1>3. TypeOfProgram'
  BY <1>1, <1>2, MarkType
<1>4. CASE Result("ERROR") /\ UNCHANGED heap
  <2>1. TypeOfCalls' /\ at' = "return"
    BY <1>1, <1>2, <1>4, ResultType
  <2> QED BY <1>2, <1>3, <1>4, <2>1 DEF Captures
<1>5. CASE /\ heap' = CaptureUpdate(heap, call.cap, Callee.n, processed + Pos)
           /\ Continue(call.pc + 1, UpdateTarget(heap, call.cap))
  <2> DEFINE n == Len(heap'.cell)
             vector == heap.cell[call.cap].vector
  <2>1. call.pc + 1 \in Live(prog) /\ Callee.n \in 0 .. prog.slots - 1
    BY <1>1, InstructionParts DEF AddSave, Callee, Ins
  <2>2. Written(vector, Callee.n, processed + Pos) \in Vectors(prog)
    BY SavedVector
  <2>3. 0 \in RegexIds(prog)
    BY ProgramParts
  <2>4. /\ heap' \in Pools(Cells(RegexIds(prog), Vectors(prog)))
        /\ UpdateTarget(heap, call.cap) \in Captures(heap)'
        /\ n >= Len(heap.cell)
    BY <1>1, <1>5, <2>2, <2>3, UpdateType DEF Captures
  <2>5. n \in Nat /\ Len(heap.cell) <= n
    BY <2>4, PoolParts, Lengths
  <2>6. /\ pool \in Pools(Threads(prog, n)) /\ stack \in Seq(Frames(prog, n))
        /\ matched \in 1 .. n \cup {NoCapture}
    BY <2>5, HeapGrows
  <2>7. TypeOfCalls' /\ at' = "add"
    BY <1>1, <1>2, <1>5, <2>1, <2>4, <2>6, ContinueType
  <2> QED BY <1>2, <1>3, <2>4, <2>6, <2>7 DEF Captures
<1> QED BY <1>4, <1>5 DEF AddSave

\* A MATCH reached with a pcap hands its capture over with a valid regex id.
LEMMA AddMatchDoneType ==
    ASSUME TypeOK, AddMatchDone
    PROVE  TypeOK'
<1> USE DEF program, caller, tags, memory, lists, flags, context,
            TypeOK, TypeOfProgram, TypeOfCaller, TypeOfMemory, TypeOfContext,
            TypeOfLocals, Labels
<1>1. Calling /\ Callee.op = "match"
  BY DEF AddMatchDone, NewPc
<1>2. /\ Mark
      /\ lastMatched' = heap.cell[call.cap].vector[1]
      /\ heap' = WithId(heap, call.cap, Callee.n)
      /\ Result("DONE")
      /\ UNCHANGED <<program, caller, progTag, tag, pool, pending, lists, flags,
                     processed, matched, initial, sp, size, eof, wanted, t, site, stack>>
  BY DEF AddMatchDone
<1>3. /\ lastMatched' \in Int
      /\ heap' \in Pools(Cells(RegexIds(prog), Vectors(prog)))
      /\ Len(heap'.cell) = Len(heap.cell)
  BY <1>1, <1>2, ReachMatch
<1>4. TypeOfProgram'
  BY <1>1, <1>2, MarkType
<1>5. TypeOfCalls' /\ at' = "return"
  BY <1>1, <1>2, <1>3, ResultType
<1> QED BY <1>2, <1>3, <1>4, <1>5 DEF Captures

\* The list of the call site stays a list of the pool, and so do the others.
LEMMA SetTargetType ==
    ASSUME TypeOK, NEW n \in Nat, Len(pool.cell) <= n, NEW l \in ThreadLists(n),
           SetTarget(l)
    PROVE  clist' \in ThreadLists(n) /\ nlist' \in ThreadLists(n) /\ temp' \in ThreadLists(n)
<1>1. clist \in ThreadLists(n) /\ nlist \in ThreadLists(n) /\ temp \in ThreadLists(n)
  BY PoolGrows
<1> QED BY <1>1 DEF SetTarget

\* add_thread appends a thread that waits at a live instruction.
LEMMA AddWaitingType ==
    ASSUME TypeOK, AddWaiting
    PROVE  TypeOK'
<1> USE DEF program, caller, tags, memory, lists, flags, context,
            TypeOK, TypeOfProgram, TypeOfCaller, TypeOfMemory, TypeOfContext,
            TypeOfLocals, Labels
<1> DEFINE thread == ThreadOf(call)
           n == Len(pool'.cell)
<1>1. Calling /\ call.pc \in Live(prog) /\ call.cap \in Captures(heap)
  BY CalleeParts DEF AddWaiting, NewPc
<1>2. Mark /\ UNCHANGED <<program, caller, progTag, tag, pending, flags, processed, matched,
                          initial, sp, size, eof, wanted, t, site, stack>>
  BY DEF AddWaiting
<1>3. /\ lastMatched' \in Int
      /\ heap' \in Pools(Cells(RegexIds(prog), Vectors(prog)))
      /\ Len(heap'.cell) = Len(heap.cell)
  BY <1>1, ReachMatch DEF AddWaiting
<1>4. TypeOfProgram'
  BY <1>1, <1>2, MarkType
<1>5. CASE Result("ERROR") /\ UNCHANGED <<pool, lists>>
  <2>1. TypeOfCalls' /\ at' = "return"
    BY <1>1, <1>2, <1>3, <1>5, ResultType
  <2> QED BY <1>2, <1>3, <1>4, <1>5, <2>1 DEF Captures
<1>6. CASE /\ pool' = TakeThread(thread)
           /\ SetTarget(Enlist(Target, Fresh(pool)))
           /\ Result("OK")
  <2>1. thread \in Threads(prog, Len(heap.cell))
    <3>1. SeenWordBefore \in BOOLEAN
      BY DEF SeenWordBefore
    <3> QED BY <1>1, <3>1 DEF Threads, ThreadOf, Captures
  <2> HIDE DEF thread
  <2>2. /\ pool' \in Pools(Threads(prog, Len(heap.cell)))
        /\ Fresh(pool) \in 1 .. n
        /\ n = IF FromPool(pool) THEN Len(pool.cell) + 1 ELSE Len(pool.cell)
    BY <1>6, <2>1, AllocateType DEF TakeThread
  <2>3. n \in Nat /\ Len(pool.cell) <= n
    BY <2>2, Lengths
  <2>4. /\ clist \in ThreadLists(n) /\ nlist \in ThreadLists(n)
        /\ temp \in ThreadLists(n) /\ t \in 0 .. n
    BY <2>3, PoolGrows
  <2>5. Enlist(Target, Fresh(pool)) \in ThreadLists(n)
    <3>1. Target \in ThreadLists(n)
      BY <2>4 DEF Target
    <3> QED BY <2>2, <2>3, <3>1, EnlistType
  <2>6. /\ clist' \in ThreadLists(n) /\ nlist' \in ThreadLists(n)
        /\ temp' \in ThreadLists(n)
    BY <1>6, <2>3, <2>5, SetTargetType
  <2>7. TypeOfCalls' /\ at' = "return"
    BY <1>1, <1>2, <1>3, <1>6, ResultType
  <2> QED BY <1>2, <1>3, <1>4, <2>2, <2>4, <2>6, <2>7 DEF Captures
<1> QED BY <1>5, <1>6 DEF AddWaiting

\* The second branch that a return takes from the stack is a valid call.
LEMMA AddReturnType ==
    ASSUME TypeOK, AddReturn
    PROVE  TypeOK'
<1> USE DEF program, caller, tags, memory, lists, flags, context, addFrame,
            TypeOK, TypeOfProgram, TypeOfCaller, TypeOfMemory, TypeOfContext,
            TypeOfLocals, Labels
<1>1. /\ at = "return" /\ stack # <<>>
      /\ stack' = SubSeq(stack, 1, Len(stack) - 1)
      /\ UNCHANGED <<addFrame, marks, pool, lists, rc, seenStart>>
  BY DEF AddReturn
<1>2. stack \in Seq(Frames(prog, Len(heap.cell)))
  BY DEF TypeOfCalls
<1>3. Top \in Frames(prog, Len(heap.cell)) /\ stack' \in Seq(Frames(prog, Len(heap.cell)))
  <2>1. Len(stack) \in Nat /\ Len(stack) # 0
    BY <1>1, <1>2, LenProperties, EmptySeq
  <2>2. Top \in Frames(prog, Len(heap.cell))
    BY <1>2, <2>1, ElementOfSeq DEF Top
  <2>3. stack' \in Seq(Frames(prog, Len(heap.cell)))
    BY <1>1, <1>2, <2>1, SubSeqProperties, SMTT(20)
  <2> QED BY <2>2, <2>3
<1>4. Top.pc \in Live(prog) /\ Top.cap \in Captures(heap)
  BY <1>3 DEF Frames, Captures
<1>5. CASE rc = "OK"
  <2>1. at' = "add" /\ call' = Top /\ heap' = heap
    BY <1>5 DEF AddReturn
  <2>2. TypeOfCalls'
    <3>1. call'.pc \in Live(prog) /\ call'.cap \in 0 .. Len(heap.cell) /\ call'.cap # NoCapture
      BY <1>4, <2>1 DEF Captures, NoCapture
    <3> QED BY <1>1, <1>3, <2>1, <3>1 DEF TypeOfCalls, CallHolds
  <2> QED BY <1>1, <2>1, <2>2 DEF Captures
<1>6. CASE rc # "OK"
  <2>1. heap' = DropRef(heap, Top.cap) /\ UNCHANGED <<at, call>>
    BY <1>6 DEF AddReturn
  <2>2. /\ heap' \in Pools(Cells(RegexIds(prog), Vectors(prog)))
        /\ Len(heap'.cell) = Len(heap.cell)
    BY <1>4, <2>1, DropRefType
  <2>3. TypeOfCalls'
    BY <1>1, <1>3, <2>1, <2>2 DEF TypeOfCalls, CallHolds
  <2> QED BY <1>1, <2>1, <2>2, <2>3 DEF Captures
<1> QED BY <1>5, <1>6

\* A call site takes the result: no call is left.
LEMMA CalledType ==
    ASSUME TypeOK, Called, prog' = prog, at' \in Labels \ {"add", "return"},
           Len(heap'.cell) = Len(heap.cell)
    PROVE  TypeOfCalls'
<1>1. site' = "none" /\ call' = NoCall /\ stack' = <<>> /\ rc' = "OK"
  BY DEF Called
<1>2. call'.pc = 0 /\ call'.cap = 0
  BY <1>1 DEF NoCall, NoCapture
<1>3. 0 \in Live(prog) /\ Len(heap.cell) \in Nat
  BY ProgramParts, Lengths DEF TypeOK, TypeOfProgram
<1>4. stack' \in Seq(Frames(prog, Len(heap.cell)))
  BY <1>1, EmptySeq
<1> QED BY <1>1, <1>2, <1>3, <1>4 DEF TypeOfCalls, CallHolds, Labels

\* The states a search starts with.
LEMMA InitialType ==
    ASSUME TypeOK
    PROVE  [i \in 1 .. Len(clist.ids) - 1 |-> Thread(clist.ids[i]).pc] \in Seq(Live(prog))
<1> DEFINE m == Len(clist.ids) - 1
           pcs == [i \in 1 .. m |-> Thread(clist.ids[i]).pc]
<1>1. clist.ids \in Seq(1 .. Len(pool.cell))
  BY DEF TypeOK, TypeOfContext, ThreadLists
<1>2. Len(clist.ids) \in Nat
  BY <1>1, LenProperties
<1>3. ASSUME NEW i \in 1 .. m PROVE Thread(clist.ids[i]).pc \in Live(prog)
  <2>1. clist.ids[i] \in 1 .. Len(pool.cell)
    BY <1>1, <1>2, ElementOfSeq
  <2> QED BY <2>1, ThreadParts DEF TypeOK, TypeOfMemory, Thread
<1>4. CASE m \in Nat
  BY <1>3, <1>4, IsASeq
<1>5. CASE m \notin Nat
  <2>1. 1 .. m = 1 .. 0
    BY <1>2, <1>5
  <2>2. pcs = [i \in 1 .. 0 |-> Thread(clist.ids[i]).pc]
    BY <2>1
  <2>3. \A i \in 1 .. 0 : Thread(clist.ids[i]).pc \in Live(prog)
    OBVIOUS
  <2>4. 0 \in Nat
    OBVIOUS
  <2>5. [i \in 1 .. 0 |-> Thread(clist.ids[i]).pc] \in Seq(Live(prog))
    BY <2>3, <2>4, IsASeq
  <2> QED BY <2>2, <2>5
<1> QED BY <1>4, <1>5

\* Every call site of add_thread deals with each result it can have.
LEMMA AddDoneType ==
    ASSUME TypeOK, AddDone
    PROVE  TypeOK'
<1> USE DEF program, caller, tags, memory, lists, flags, context,
            TypeOK, TypeOfProgram, TypeOfCaller, TypeOfMemory, TypeOfContext,
            TypeOfLocals, Labels
<1>1. CASE Seeded
  <2>1. UNCHANGED <<tags, memory>>
    BY <1>1 DEF Seeded
  <2>2. CASE Fail
    BY <2>1, <2>2, FailType
  <2>3. CASE /\ at' = "loop"
             /\ initial' = [count |-> clist.count,
                            pcs |-> [i \in 1 .. Len(clist.ids) - 1 |->
                                        Thread(clist.ids[i]).pc]]
             /\ Called
             /\ UNCHANGED <<program, caller, lists, flags, processed, matched,
                            lastMatched, sp, size, eof, wanted, t>>
    <3>1. initial' \in [count : Int, pcs : Seq(Live(prog))]
      <4>1. clist.count \in Int
        BY DEF ThreadLists
      <4> QED BY <2>3, <4>1, InitialType
    <3>2. TypeOfCalls'
      BY <2>1, <2>3, CalledType
    <3> QED BY <2>1, <2>3, <3>1, <3>2 DEF Captures
  <2> QED BY <1>1, <2>2, <2>3 DEF Seeded
<1>2. CASE Restarted
  <2>1. /\ Called
        /\ UNCHANGED <<program, caller, marks, progTag, memory, lists, flags, context, sp,
                       size, eof, wanted, t>>
    BY <1>2 DEF Restarted
  <2>2. at' \in {"finish", "threads"} /\ tag' \in Nat
    BY <1>2, TagType DEF Restarted, RunThreads
  <2>3. TypeOfCalls'
    BY <2>1, <2>2, CalledType
  <2> QED BY <2>1, <2>2, <2>3 DEF Captures
<1>3. CASE Consumed
  <2>1. /\ pool' = FreeThread(pool, t) /\ t' = NoThread /\ at' = "threads" /\ Called
        /\ UNCHANGED <<program, caller, tags, heap, pending, lists, flags, context, sp,
                       size, eof, wanted>>
    BY <1>3 DEF Consumed
  <2>2. t \in 1 .. Len(pool.cell)
    BY <1>3 DEF Consumed, Returned, TypeOfCalls, NoThread
  <2>3. pool' \in Pools(Threads(prog, Len(heap.cell))) /\ pool'.cell = pool.cell
    BY <2>1, <2>2, DropThread
  <2>4. TypeOfCalls'
    BY <2>1, CalledType
  <2> QED BY <2>1, <2>3, <2>4, Lengths DEF Captures, NoThread
<1>4. CASE ConsumedToMatch
  <2>1. /\ Matched(heap, call.cap, t) /\ Called
        /\ UNCHANGED <<program, caller, tags, pending, lists, flags, processed,
                       lastMatched, initial, sp, size, eof, wanted>>
    BY <1>4 DEF ConsumedToMatch
  <2>2. t \in 1 .. Len(pool.cell) /\ call.cap \in Captures(heap)
    BY <1>4 DEF ConsumedToMatch, Returned, TypeOfCalls, CallHolds, NoThread, NoCapture,
                Captures
  <2>3. /\ TypeOfMemory' /\ matched' \in Captures(heap)'
        /\ Len(heap'.cell) = Len(heap.cell) /\ pool'.cell = pool.cell
        /\ at' = "clear-matched" /\ t' = NoThread
    BY <2>1, <2>2, MatchedType
  <2>4. TypeOfCalls'
    BY <2>1, <2>3, CalledType
  <2>5. TypeOfContext' /\ TypeOfLocals'
    BY <2>1, <2>3, Lengths DEF NoThread
  <2> QED BY <2>1, <2>3, <2>4, <2>5
<1>5. CASE Asserted
  <2>1. /\ tag' = NextTag(tag) /\ pool' = FreeThread(pool, t) /\ t' = NoThread
        /\ clist' = Spliced(temp, clist) /\ temp' = EmptyList /\ at' = "threads" /\ Called
        /\ UNCHANGED <<program, caller, marks, progTag, heap, pending, nlist, flags,
                       context, sp, size, eof, wanted>>
    BY <1>5 DEF Asserted
  <2>2. t \in 1 .. Len(pool.cell)
    BY <1>5 DEF Asserted, Returned, TypeOfCalls, NoThread
  <2>3. pool' \in Pools(Threads(prog, Len(heap.cell))) /\ pool'.cell = pool.cell
    BY <2>1, <2>2, DropThread
  <2>4. TypeOfCalls'
    BY <2>1, CalledType
  <2>5. clist' \in ThreadLists(Len(pool.cell)) /\ temp' \in ThreadLists(Len(pool.cell))
    BY <2>1, SplicedType, EmptyListType, Lengths
  <2>6. tag' \in Nat
    BY <2>1, TagType
  <2> QED BY <2>1, <2>3, <2>4, <2>5, <2>6, Lengths DEF Captures, NoThread
<1>6. CASE AddFails
  <2>1. progTag' \in Nat
    BY <1>6, TagType DEF AddFails
  <2> QED BY <1>6, <2>1, FailType DEF AddFails
<1> QED BY <1>1, <1>2, <1>3, <1>4, <1>5, <1>6 DEF AddDone

\* What the three endings of a call have in common.
LEMMA SaveContextType ==
    ASSUME TypeOK, SaveContext
    PROVE  /\ progTag' \in Nat /\ lastMatched' \in Int
           /\ seenNewline' \in BOOLEAN /\ seenWord' \in BOOLEAN
<1> USE DEF TypeOK, TypeOfProgram, TypeOfContext
<1>1. progTag' \in Nat /\ lastMatched' \in Int
  BY DEF SaveContext
<1>2. CASE lastMatched >= 0 /\ MatchEnd > 0
  BY <1>2 DEF SaveContext
<1>3. CASE ~(lastMatched >= 0 /\ MatchEnd > 0)
  BY <1>3 DEF SaveContext
<1> QED BY <1>1, <1>2, <1>3

\* A return from sre_vm_pike_exec leaves no running thread and no call.
LEMMA ReturnType ==
    ASSUME TypeOK, NEW result, Return(result), Len(pool'.cell) \in Nat,
           temp' \in ThreadLists(Len(pool'.cell))
    PROVE  TypeOfLocals' /\ at' = "idle" /\ out' = result
<1>1. /\ at' = "idle" /\ out' = result /\ sp' = 0 /\ size' = 0 /\ t' = NoThread
  BY DEF Return
<1>2. eof' \in BOOLEAN /\ wanted' \in BOOLEAN
  BY DEF Return
<1> QED BY <1>1, <1>2 DEF TypeOfLocals, Labels, NoThread

\* Nothing is added at the end of a call.
LEMMA FinishedCalls ==
    ASSUME TypeOK, Finished, at' = "idle", prog' = prog, UNCHANGED adding,
           Len(heap'.cell) = Len(heap.cell)
    PROVE  TypeOfCalls'
BY DEF TypeOK, TypeOfCalls, CallHolds, Finished, adding

\* The captures of the match lie in its vector.
LEMMA MatchedCapturesType ==
    ASSUME TypeOK, matched # NoCapture
    PROVE  /\ MatchedCaptures \in Vectors(prog)
           /\ heap.cell[matched].regex_id \in RegexIds(prog)
<1> DEFINE c == heap.cell[matched]
           r == c.regex_id + 1
           len == 2 * (prog.ncaps[r] + 1)
<1>1. matched \in Captures(heap) /\ prog \in Programs
  BY DEF TypeOK, TypeOfContext, TypeOfProgram
<1>2. c.regex_id \in RegexIds(prog) /\ c.vector \in Vectors(prog)
  BY <1>1, CellParts DEF TypeOK, TypeOfMemory
<1>3. DOMAIN ovector = 0 .. prog.slots - 1
  BY DEF TypeOK, TypeOfCaller, Vectors
<1>4. prog.slots \in Nat /\ r \in Regexes(prog)
  BY <1>1, <1>2, ProgramParts
<1>5. /\ prog.offset[r] \in Nat /\ prog.ncaps[r] \in Nat
      /\ prog.offset[r] + len <= prog.slots
  BY <1>1, <1>4, ProgramParts
<1>6. MatchedCaptures = [i \in 0 .. prog.slots - 1 |->
                          IF i < len THEN c.vector[prog.offset[r] + i] ELSE -1]
  BY <1>3 DEF MatchedCaptures
<1> HIDE DEF c, r
<1>7. ASSUME NEW i \in 0 .. prog.slots - 1
      PROVE  (IF i < len THEN c.vector[prog.offset[r] + i] ELSE -1) \in Int
  <2>1. i < len => prog.offset[r] + i \in 0 .. prog.slots - 1
    BY <1>4, <1>5
  <2>2. i < len => c.vector[prog.offset[r] + i] \in Int
    BY <1>2, <2>1 DEF Vectors
  <2> QED BY <2>2
<1>8. MatchedCaptures \in Vectors(prog)
  BY <1>6, <1>7 DEF Vectors
<1> QED BY <1>2, <1>8 DEF c

\* The positions given to the caller with SRE_AGAIN are positions.
LEMMA TempCapturesType ==
    ASSUME TypeOK
    PROVE  TempCaptures \subseteq Vectors(prog)
<1> DEFINE vectors == {heap.cell[Thread(i).cap].vector : i \in Range(clist.ids)}
           starts == {v[prog.offset[r]] : v \in vectors, r \in Regexes(prog)} \ {-1}
           ends == {v[1] : v \in vectors} \ {-1}
<1>1. ASSUME NEW i \in Range(clist.ids)
      PROVE  heap.cell[Thread(i).cap].vector \in Vectors(prog)
  <2>1. clist.ids \in Seq(1 .. Len(pool.cell))
    BY DEF TypeOK, TypeOfContext, ThreadLists
  <2>2. i \in 1 .. Len(pool.cell)
    <3>1. PICK k \in DOMAIN clist.ids : i = clist.ids[k]
      BY DEF Range
    <3>2. k \in 1 .. Len(clist.ids)
      BY <2>1, <3>1, LenProperties
    <3> QED BY <2>1, <3>1, <3>2, ElementOfSeq
  <2>3. Thread(i).cap \in Captures(heap)
    BY <2>2, ThreadParts DEF TypeOK, TypeOfMemory, Thread, Captures
  <2> QED BY <2>3, CellParts DEF TypeOK, TypeOfMemory
<1>2. vectors \subseteq Vectors(prog)
  BY <1>1
<1> HIDE DEF vectors
<1>3. /\ prog.slots \in Nat /\ 1 \in 0 .. prog.slots - 1
      /\ \A r \in Regexes(prog) : prog.offset[r] \in 0 .. prog.slots - 1
  <2>1. prog \in Programs
    BY DEF TypeOK, TypeOfProgram
  <2>2. prog.slots \in Nat /\ 1 \in 0 .. prog.slots - 1
    BY <2>1, ProgramParts
  <2>3. ASSUME NEW r \in Regexes(prog) PROVE prog.offset[r] \in 0 .. prog.slots - 1
    <3>1. /\ prog.offset[r] \in Nat /\ prog.ncaps[r] \in Nat
          /\ prog.offset[r] + 2 * (prog.ncaps[r] + 1) <= prog.slots
      BY <2>1, ProgramParts
    <3> QED BY <2>2, <3>1
  <2> QED BY <2>2, <2>3
<1>4. starts \subseteq Int /\ ends \subseteq Int
  BY <1>2, <1>3 DEF Vectors
<1> HIDE DEF starts, ends
<1>5. Least(starts) \subseteq Int /\ Greatest(ends) \subseteq Int
  <2>1. ASSUME NEW S, S \subseteq Int PROVE Least(S) \subseteq Int
    <3>1. CASE S = {}
      BY <3>1 DEF Least
    <3>2. CASE S # {}
      BY <2>1, <3>2 DEF Least
    <3> QED BY <3>1, <3>2
  <2>2. ASSUME NEW S, S \subseteq Int PROVE Greatest(S) \subseteq Int
    <3>1. CASE S = {}
      BY <3>1 DEF Greatest
    <3>2. CASE S # {}
      BY <2>2, <3>2 DEF Greatest
    <3> QED BY <3>1, <3>2
  <2> QED BY <1>4, <2>1, <2>2
<1>6. TempCaptures =
        {[ovector EXCEPT ![0] = a, ![1] = b] : a \in Least(starts), b \in Greatest(ends)}
  BY DEF TempCaptures, vectors, starts, ends
<1>7. ASSUME NEW a \in Int, NEW b \in Int
      PROVE  [ovector EXCEPT ![0] = a, ![1] = b] \in Vectors(prog)
  BY <1>3 DEF TypeOK, TypeOfCaller, Vectors
<1> QED BY <1>5, <1>6, <1>7

\* The ends of sre_vm_pike_exec keep the invariant: the match has a capture and
\* a regex id that prepare_matched_captures can use.
LEMMA FinishType ==
    ASSUME TypeOK, Finish
    PROVE  TypeOK'
<1> USE DEF program, caller, tags, memory, lists, flags, context,
            TypeOK, TypeOfProgram, TypeOfCaller, TypeOfMemory, TypeOfContext
<1>1. Finished /\ SaveContext /\ UNCHANGED <<program, marks, tag, adding>>
  BY DEF Finish, FinishMatch, FinishDeclined, FinishAgain
<1>2. /\ progTag' \in Nat /\ lastMatched' \in Int
      /\ seenNewline' \in BOOLEAN /\ seenWord' \in BOOLEAN
  BY <1>1, SaveContextType
<1>3. TypeOfProgram'
  BY <1>1, <1>2
<1>4. CASE FinishDeclined
  <2>1. /\ Return(NoRc("DECLINED"))
        /\ UNCHANGED <<base, from, lastChunk, ovector, memory, lists, firstBuf,
                       seenStart, emptyCapture, processed, matched, initial>>
    BY <1>4 DEF FinishDeclined
  <2>2. ctxEof' \in BOOLEAN
    BY <1>4 DEF FinishDeclined
  <2>3. TypeOfLocals' /\ at' = "idle" /\ out' = NoRc("DECLINED")
    BY <2>1, ReturnType, Lengths DEF TypeOfLocals
  <2>4. TypeOfCalls'
    BY <1>1, <2>1, <2>3, FinishedCalls
  <2>5. TypeOfCaller' /\ TypeOfMemory' /\ TypeOfContext'
    BY <1>1, <1>2, <2>1, <2>2, <2>3 DEF NoRc, Captures
  <2> QED BY <1>3, <2>3, <2>4, <2>5
<1>5. CASE FinishMatch
  <2>1. /\ matched # NoCapture
        /\ ovector' = MatchedCaptures
        /\ pool' = [pool EXCEPT !.free = clist.ids \o @]
        /\ clist' = Emptied(clist)
        /\ processed' = ovector'[1]
        /\ matched' = NoCapture
        /\ heap' = DecrRef(heap, matched)
        /\ base' = ovector'[1]
        /\ from' \in {ovector'[1], ovector'[1] + 1}
        /\ Return([rc |-> "MATCH", id |-> heap.cell[matched].regex_id, pend |-> <<>>])
        /\ UNCHANGED <<program, lastChunk, pending, nlist, temp, seenStart, initial>>
    BY <1>5 DEF FinishMatch
  <2>2. firstBuf' \in BOOLEAN /\ ctxEof' \in BOOLEAN /\ emptyCapture' \in BOOLEAN
    BY <1>5 DEF FinishMatch
  <2>3. ovector' \in Vectors(prog)
    BY <2>1, MatchedCapturesType
  <2>4. ovector'[1] \in Int
    BY <2>3, ProgramParts DEF Vectors
  <2>5. /\ heap' \in Pools(Cells(RegexIds(prog), Vectors(prog)))
        /\ Len(heap'.cell) = Len(heap.cell)
    BY <2>1, DecrRefType
  <2>6. pool' \in Pools(Threads(prog, Len(heap.cell))) /\ pool'.cell = pool.cell
    <3>1. clist.ids \in Seq(1 .. Len(pool.cell))
      BY DEF ThreadLists
    <3> QED BY <2>1, <3>1, FreeType
  <2>7. clist' \in ThreadLists(Len(pool.cell))
    BY <2>1, EmptiedType, Lengths
  <2>8. TypeOfLocals' /\ at' = "idle" /\ out'.rc = "MATCH"
    BY <2>1, <2>6, ReturnType, Lengths DEF TypeOfLocals
  <2>9. TypeOfCalls'
    BY <1>1, <2>1, <2>5, <2>8, FinishedCalls
  <2>10. TypeOfCaller' /\ TypeOfMemory'
    BY <2>1, <2>3, <2>4, <2>5, <2>6, <2>8
  <2>11. TypeOfContext'
    BY <1>2, <2>1, <2>2, <2>4, <2>6, <2>7
  <2> QED BY <1>3, <2>8, <2>9, <2>10, <2>11
<1>6. CASE FinishAgain
  <2>1. UNCHANGED <<from, lastChunk, heap, pool, lists, firstBuf, seenStart,
                    ctxEof, emptyCapture, matched, initial>>
    BY <1>6 DEF FinishAgain
  <2>2. \E result : Return(result) /\ result.rc \in {"AGAIN", "ERROR"}
    BY <1>6 DEF FinishAgain, NoRc
  <2>3. TypeOfLocals' /\ at' = "idle" /\ out'.rc \in {"AGAIN", "ERROR"}
    BY <2>1, <2>2, ReturnType, Lengths DEF TypeOfLocals
  <2>4. /\ processed' \in Int /\ base' \in Int /\ ovector' \in Vectors(prog)
        /\ pending' \in BOOLEAN
    <3>1. CASE UNCHANGED <<pending, processed, base, ovector>>
      BY <3>1
    <3>2. CASE /\ processed' = processed + sp /\ base' = base + size
               /\ ovector' \in TempCaptures /\ pending' \in BOOLEAN
      BY <3>2, TempCapturesType DEF TypeOfLocals
    <3>3. (pending \/ NeedsPending) \in BOOLEAN
      BY DEF NeedsPending
    <3> QED BY <1>6, <3>1, <3>2, <3>3 DEF FinishAgain
  <2>5. TypeOfCalls'
    BY <1>1, <2>1, <2>3, FinishedCalls
  <2>6. TypeOfCaller' /\ TypeOfMemory' /\ TypeOfContext'
    BY <1>1, <1>2, <2>1, <2>3, <2>4 DEF Captures
  <2> QED BY <1>3, <2>3, <2>5, <2>6
<1> QED BY <1>4, <1>5, <1>6 DEF Finish

\* A step that changes nothing keeps the invariant.
LEMMA StutterType ==
    ASSUME TypeOK, UNCHANGED vars
    PROVE  TypeOK'
BY DEF vars, program, caller, tags, memory, lists, flags, context, exec, adding,
       TypeOK, TypeOfProgram, TypeOfCaller, TypeOfMemory, TypeOfContext, TypeOfLocals,
       TypeOfCalls, CallHolds, Captures

\* Every step keeps the type invariant.
LEMMA TypeStep == TypeOK /\ [Next]_vars => TypeOK'
<1> SUFFICES ASSUME TypeOK, [Next]_vars PROVE TypeOK'
  OBVIOUS
<1>1. CASE Call
  BY <1>1, CallType
<1>2. CASE Loop
  BY <1>2, LoopType, SkippedType, ClearThreadType DEF Loop
<1>3. CASE Run
  BY <1>3, RunType
<1>4. CASE AddThread
  BY <1>4, AddStepType, AddSplitType, AddSaveType, AddMatchDoneType, AddWaitingType,
     AddReturnType DEF AddThread
<1>5. CASE AddDone
  BY <1>5, AddDoneType
<1>6. CASE Finish
  BY <1>6, FinishType
<1>7. CASE UNCHANGED vars
  BY <1>7, StutterType
<1> QED BY <1>1, <1>2, <1>3, <1>4, <1>5, <1>6, <1>7 DEF Next, Machine

\* Whatever the programs, the stream, the chunks it comes in and the allocations
\* that fail, sre_vm_pike_exec and sre_vm_pike_add_thread never follow a pointer
\* that leads nowhere: not to an instruction past the program's end, to a capture
\* or a thread that was never made, or to the running thread when none runs.
THEOREM TypeCorrect == Spec => []TypeOK
BY TypeInit, TypeStep, PTL DEF Spec
=============================================================================
