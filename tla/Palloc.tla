------------------------------- MODULE Palloc -------------------------------
(***************************************************************************)
(* The memory pool (sre_palloc.c): a chain of blocks of one size that are  *)
(* filled from the front, a list of the requests too large for a block,    *)
(* and reset, which hands the blocks out again.  One action per function;  *)
(* the C heap may refuse any request.  The clean-up handlers, which the    *)
(* library never installs, are left out.                                   *)
(***************************************************************************)
EXTENDS Integers, Sequences

CONSTANTS
    PoolSize,     \* The size of a block, the argument of sre_create_pool.
    Requests,     \* What is asked for: a size, and of sre_palloc or of sre_pnalloc.
    Mallocs,      \* What the C heap names the memory malloc returns,
    NoMalloc,     \*   and NULL.
    Callers,      \* Who asks for memory: one piece each.
    MaxFailed,    \* 4: a block that has failed more often is not searched again.
    MaxSearched,  \* 3: how many records a large request looks at, less two.
    MaxBlocks     \* Bound: no pool has more blocks.

Alignment  == 8      \* SRE_ALIGNMENT
DataHeader == 32     \* sizeof(sre_pool_data_t), before the memory of a block,
PoolHeader == 64     \* sizeof(sre_pool_t), before that of the first one,
LargeHeader == 16    \* sizeof(sre_pool_large_t).
MaxAllocFromPool == 4095

\* The blocks are a multiple of SRE_ALIGNMENT long: the room left in one is computed
\* after aligning, and a negative difference is a large size_t.  A pool holds at least
\* its header and a record of a large request, or sre_palloc_large calls itself for ever.
SizesAssumption ==
    /\ PoolSize \in Nat /\ PoolSize % Alignment = 0
    /\ PoolSize >= PoolHeader + LargeHeader
    /\ Requests \subseteq [size : Nat \ {0}, aligned : BOOLEAN]
    /\ MaxFailed \in Nat /\ MaxSearched \in Nat /\ MaxBlocks \in Nat

ASSUME NamesAssumption == SizesAssumption /\ NoMalloc \notin Mallocs

VARIABLES
    blocks,    \* the chain: d.last, as an offset, and d.failed; <<>> without a pool,
    current,   \* pool->current, as an index of blocks,
    large,     \* pool->large, the newest record at the end: where it lies, and alloc,
    mallocs,   \* the memory malloc has given out,
    given      \* what the callers got: [caller -> piece of memory], while they may use it

vars == <<blocks, current, large, mallocs, given>>

Piece(region, from, size) == [region |-> region, from |-> from, to |-> from + size]

\* No caller has anything.
Nobody == [c \in {} |-> NoMalloc]

InBlock(i) == <<"block", i>>
InHeap(m)  == <<"malloc", m>>

Pieces ==
    [region : ({"block"} \X Nat) \cup ({"malloc"} \X Mallocs), from : Nat, to : Nat]

TypeOK ==
    /\ blocks \in Seq([last : 0 .. PoolSize, failed : Nat])
    /\ current \in Nat /\ (blocks # <<>> => current \in DOMAIN blocks)
    /\ large \in Seq([header : Pieces, alloc : Mallocs \cup {NoMalloc}])
    /\ mallocs \subseteq Mallocs
    /\ DOMAIN given \subseteq Callers /\ \A c \in DOMAIN given : given[c] \in Pieces

Init == blocks = <<>> /\ current = 0 /\ large = <<>> /\ mallocs = {} /\ given = Nobody

-----------------------------------------------------------------------------
\* pool->max
MaxSmall == IF PoolSize - PoolHeader < MaxAllocFromPool
            THEN PoolSize - PoolHeader ELSE MaxAllocFromPool

\* sre_align_ptr; blocks are aligned to more than SRE_ALIGNMENT.
AlignUp(n) == Alignment * ((n + Alignment - 1) \div Alignment)

\* Where the next piece of block i begins: sre_palloc aligns it, sre_pnalloc does not.
StartIn(i, aligned) == IF aligned THEN AlignUp(blocks[i].last) ELSE blocks[i].last

\* A slip on Fits: one byte more than there is room for.
FitsOneMore(m, size) == m > PoolSize \/ PoolSize - m + 1 >= size

\* (size_t) (p->d.end - m) >= size
Fits(m, size) == m > PoolSize \/ PoolSize - m >= size

\* The blocks from current on that have room.
Roomy(size, aligned) == {i \in current .. Len(blocks) : Fits(StartIn(i, aligned), size)}

\* A slip on Carve: the next piece begins where this one does.
CarveInPlace(i, size, aligned) ==
    [blocks  |-> [blocks EXCEPT ![i].last = StartIn(i, aligned)],
     current |-> current,
     piece   |-> Piece(InBlock(i), StartIn(i, aligned), size)]

\* The piece that block i gives.
Carve(i, size, aligned) ==
    [blocks  |-> [blocks EXCEPT ![i].last = StartIn(i, aligned) + size],
     current |-> current,
     piece   |-> Piece(InBlock(i), StartIn(i, aligned), size)]

\* The blocks that a search which found no room has passed: all but the last.
Passed == current .. Len(blocks) - 1

\* A slip on NextCurrent: the search may begin anywhere behind the tired blocks.
NextCurrentAnywhere ==
    {c \in current .. Len(blocks) : \A i \in Passed : blocks[i].failed > MaxFailed => i < c}

\* Where searches begin from now on: behind the last block that has failed too often.
NextCurrent ==
    {c \in current .. Len(blocks) :
        /\ \A i \in Passed : blocks[i].failed > MaxFailed => i < c
        /\ c = current \/ blocks[c - 1].failed > MaxFailed}

\* sre_palloc_block: a new block at the end of the chain.
Extend(size, next) ==
    [blocks  |-> Append([i \in DOMAIN blocks |->
                            IF i \in Passed THEN [blocks[i] EXCEPT !.failed = @ + 1]
                                            ELSE blocks[i]],
                        [last |-> AlignUp(DataHeader) + size, failed |-> 0]),
     current |-> next,
     piece   |-> Piece(InBlock(Len(blocks) + 1), AlignUp(DataHeader), size)]

\* What a request of at most max bytes gets: room in the first block that has it, or
\* in a new one, unless the heap refuses that.
Small(size, aligned) ==
    LET roomy == Roomy(size, aligned)
    IN  IF roomy # {}
        THEN {Carve(i, size, aligned) : i \in {i \in roomy : \A j \in roomy : i <= j}}
        ELSE IF Len(blocks) < MaxBlocks THEN {Extend(size, next) : next \in NextCurrent} ELSE {}

\* A slip on Reusable: the record is taken though its memory is in use.
ReusableAnyway == {k \in DOMAIN large : k > Len(large) - MaxSearched - 2}

\* sre_palloc_large looks at the newest records for one whose memory has been freed.
Reusable == {k \in DOMAIN large : large[k].alloc = NoMalloc /\ k > Len(large) - MaxSearched - 2}

-----------------------------------------------------------------------------
Alive == blocks # <<>>

Waiting == Callers \ DOMAIN given

\* A caller that has nothing yet gets a piece.
Hand(piece) ==
    LET caller == CHOOSE c \in Callers : c \notin DOMAIN given
    IN  given' = [c \in DOMAIN given \cup {caller} |->
                     IF c = caller THEN piece ELSE given[c]]

CreatePool ==
    /\ ~Alive
    /\ blocks' = <<[last |-> PoolHeader, failed |-> 0]>>
    /\ current' = 1
    /\ large' = <<>>
    /\ UNCHANGED <<mallocs, given>>

\* sre_palloc, sre_pcalloc and sre_pnalloc of a size that fits a block.
PallocSmall(size, aligned) ==
    /\ Alive /\ Waiting # {} /\ size <= MaxSmall
    /\ \E r \in Small(size, aligned) :
        /\ blocks' = r.blocks /\ current' = r.current
        /\ Hand(r.piece)
    /\ UNCHANGED <<large, mallocs>>

\* sre_palloc_large: the memory malloc gives is recorded where a freed one was,
PallocLargeReuses(size) ==
    /\ Alive /\ Waiting # {} /\ size > MaxSmall
    /\ \E m \in Mallocs \ mallocs :
        /\ \E k \in Reusable :
            /\ \A j \in Reusable : j <= k
            /\ large' = [large EXCEPT ![k].alloc = m]
        /\ mallocs' = mallocs \cup {m}
        /\ Hand(Piece(InHeap(m), 0, size))
    /\ UNCHANGED <<blocks, current>>

\* or in a record of its own, which comes from the pool; without it, it is freed again.
PallocLargeRecords(size) ==
    /\ Alive /\ Waiting # {} /\ size > MaxSmall
    /\ \E m \in Mallocs \ mallocs :
        /\ Reusable = {}
        /\ \E r \in Small(LargeHeader, TRUE) :
            /\ blocks' = r.blocks /\ current' = r.current
            /\ large' = Append(large, [header |-> r.piece, alloc |-> m])
        /\ mallocs' = mallocs \cup {m}
        /\ Hand(Piece(InHeap(m), 0, size))

\* NULL: the heap has refused what the request needed, and nothing has changed.
PallocFails(size, aligned) ==
    /\ Alive
    /\ size > MaxSmall \/ Roomy(size, aligned) = {}
    /\ UNCHANGED vars

\* sre_pfree finds large requests only, and gives others back to nobody.
Pfree(caller) ==
    /\ Alive /\ caller \in DOMAIN given
    /\ \E k \in DOMAIN large :
        /\ given[caller].region = InHeap(large[k].alloc)
        /\ mallocs' = mallocs \ {large[k].alloc}
        /\ large' = [large EXCEPT ![k].alloc = NoMalloc]
    /\ given' = [c \in DOMAIN given \ {caller} |-> given[c]]
    /\ UNCHANGED <<blocks, current>>

\* A slip on ResetPool: a block begins after the header that all but the first have.
ResetPoolToData ==
    /\ Alive
    /\ mallocs' = mallocs \ {large[k].alloc : k \in DOMAIN large}
    /\ large' = <<>>
    /\ blocks' = [i \in DOMAIN blocks |-> [blocks[i] EXCEPT !.last = DataHeader]]
    /\ given' = Nobody
    /\ UNCHANGED current

\* sre_reset_pool: every block is empty again, but current stays where it is.
ResetPool ==
    /\ Alive
    /\ mallocs' = mallocs \ {large[k].alloc : k \in DOMAIN large}
    /\ large' = <<>>
    /\ blocks' = [i \in DOMAIN blocks |-> [blocks[i] EXCEPT !.last = PoolHeader]]
    /\ given' = Nobody
    /\ UNCHANGED current

DestroyPool ==
    /\ Alive
    /\ mallocs' = mallocs \ {large[k].alloc : k \in DOMAIN large}
    /\ blocks' = <<>> /\ current' = 0 /\ large' = <<>> /\ given' = Nobody

Next ==
    \/ CreatePool
    \/ \E r \in Requests : PallocSmall(r.size, r.aligned)
    \/ \E r \in Requests : PallocLargeReuses(r.size)
    \/ \E r \in Requests : PallocLargeRecords(r.size)
    \/ \E r \in Requests : PallocFails(r.size, r.aligned)
    \/ \E c \in Callers : Pfree(c)
    \/ ResetPool
    \/ DestroyPool

Spec == Init /\ [][Next]_vars

-----------------------------------------------------------------------------
(* Properties. *)

\* Every user of memory: the callers, and the records of large requests.
Users ==
    {[who |-> <<"caller", c>>, piece |-> given[c]] : c \in DOMAIN given}
        \cup {[who |-> <<"record", k>>, piece |-> large[k].header] : k \in DOMAIN large}

Pool == INSTANCE Allocator WITH held <- Users

\* The pool keeps the promise of Allocator: what sre_palloc, sre_pnalloc and
\* sre_palloc_large return overlaps nothing in use, the pool's own records included,
\* and reset and destroy take everything back at once.
Promise == Pool!Spec

FirstByte(i) == IF i = 1 THEN PoolHeader ELSE DataHeader

Inside(p) ==
    \/ \E i \in DOMAIN blocks :
        /\ p.region = InBlock(i)
        /\ FirstByte(i) <= p.from /\ p.to <= blocks[i].last
        /\ blocks[i].last <= PoolSize
    \/ \E m \in mallocs : p.region = InHeap(m)

\* Every piece lies between the header of its block and d.last, inside the block, and
\* every other one in memory that malloc has given out and nobody has freed.
Contained == \A h \in Users : Inside(h.piece)

\* What malloc has given out is recorded exactly once, so that reset and destroy free
\* it, and free it once.
AllRecorded ==
    /\ mallocs = {large[k].alloc : k \in DOMAIN large} \ {NoMalloc}
    /\ \A j, k \in DOMAIN large :
        large[j].alloc = large[k].alloc /\ j # k => large[j].alloc = NoMalloc

\* Only a block that searches have passed too often is left out of the next ones,
\* though d.failed and current survive a reset.
OnlyTiredAreSkipped ==
    \A i \in DOMAIN blocks : i < current => blocks[i].failed > MaxFailed + 1
=============================================================================
