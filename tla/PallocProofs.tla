---------------------------- MODULE PallocProofs ----------------------------
(***************************************************************************)
(* The pool keeps its promise, for blocks of any admissible size and any   *)
(* requests.  A new piece begins where everything in its block has ended,  *)
(* so the invariant says where the pieces are (Contained, RecordsInBlocks, *)
(* HeapOnce, Begun), and what was recorded of malloc's memory.             *)
(***************************************************************************)
EXTENDS Palloc, TLAPS, SequenceTheorems

Block  == [last : 0 .. PoolSize, failed : Nat]
Record == [header : Pieces, alloc : Mallocs \cup {NoMalloc}]

\* A record of a large request lies in a block.
RecordsInBlocks ==
    \A k \in DOMAIN large : \E i \in DOMAIN blocks : large[k].header.region = InBlock(i)

\* Memory from malloc has one caller.
HeapOnce ==
    \A c, d \in DOMAIN given : \A m \in Mallocs :
        given[c].region = InHeap(m) /\ given[d].region = InHeap(m) => c = d

\* Nothing begins inside a header.
Begun == \A i \in DOMAIN blocks : FirstByte(i) <= blocks[i].last

\* The blocks that are searched have failed less and less often along the chain.
FailedFalls ==
    \A i, j \in DOMAIN blocks :
        current <= i /\ i <= j => blocks[j].failed <= blocks[i].failed

\* Without a pool nobody has anything.
NothingWithoutPool == ~Alive => large = <<>> /\ given = Nobody

Placed == TypeOK /\ Begun /\ FailedFalls /\ OnlyTiredAreSkipped

IInv ==
    /\ Placed /\ Contained /\ AllRecorded
    /\ RecordsInBlocks /\ HeapOnce /\ NothingWithoutPool

-----------------------------------------------------------------------------
(* What the helpers return. *)

\* Aligning moves forward, and never past the end of a block.
LEMMA AlignUpForward ==
    ASSUME SizesAssumption, NEW n \in Nat
    PROVE  /\ AlignUp(n) \in Nat /\ n <= AlignUp(n)
           /\ n <= PoolSize => AlignUp(n) <= PoolSize
           /\ AlignUp(DataHeader) = DataHeader
BY SMT DEF SizesAssumption, AlignUp, Alignment, DataHeader, PoolHeader, LargeHeader

\* The chain of blocks is what TypeOK says, element by element.
LEMMA BlocksAreTyped ==
    ASSUME SizesAssumption, TypeOK
    PROVE  /\ Len(blocks) \in Nat /\ DOMAIN blocks = 1 .. Len(blocks)
           /\ blocks \in Seq(Block)
           /\ \A i \in DOMAIN blocks :
                /\ blocks[i] \in Block /\ blocks[i].last \in Nat
                /\ blocks[i].last <= PoolSize /\ blocks[i].failed \in Nat
<1>1. blocks \in Seq(Block)
  BY DEF TypeOK, Block
<1>2. Len(blocks) \in Nat /\ DOMAIN blocks = 1 .. Len(blocks)
  BY <1>1, LenProperties
<1>3. \A i \in DOMAIN blocks : blocks[i] \in Block
  BY <1>1, <1>2, ElementOfSeq
<1>. QED  BY <1>1, <1>2, <1>3, SMT DEF Block, SizesAssumption

LEMMA FirstByteType == \A i : FirstByte(i) \in Nat
BY DEF FirstByte, PoolHeader, DataHeader

\* A block whose d.last or d.failed has changed.
LEMMA BlockChanged ==
    ASSUME NEW b \in Block
    PROVE  /\ \A n \in 0 .. PoolSize :
                /\ [b EXCEPT !.last = n] \in Block
                /\ [b EXCEPT !.last = n].last = n
                /\ [b EXCEPT !.last = n].failed = b.failed
           /\ \A n \in Nat :
                /\ [b EXCEPT !.failed = n] \in Block
                /\ [b EXCEPT !.failed = n].failed = n
                /\ [b EXCEPT !.failed = n].last = b.last
BY DEF Block

LEMMA StartInForward ==
    ASSUME SizesAssumption, TypeOK, NEW i \in DOMAIN blocks, NEW aligned \in BOOLEAN
    PROVE  /\ StartIn(i, aligned) \in Nat
           /\ blocks[i].last <= StartIn(i, aligned) /\ StartIn(i, aligned) <= PoolSize
<1>1. blocks[i].last \in Nat /\ blocks[i].last <= PoolSize
  BY BlocksAreTyped
<1>. QED  BY <1>1, AlignUpForward DEF StartIn

LEMMA MaxSmallFits ==
    ASSUME SizesAssumption
    PROVE  MaxSmall \in Nat /\ LargeHeader <= MaxSmall /\ PoolHeader + MaxSmall <= PoolSize
BY SMT DEF SizesAssumption, MaxSmall, MaxAllocFromPool, PoolHeader, LargeHeader, Alignment

\* What a small request gets: a piece behind everything in its block, the blocks
\* otherwise as full as they were, and the failures counted as the search goes on.
Serves(r) ==
    /\ r.blocks \in Seq(Block) /\ r.blocks # <<>>
    /\ r.current \in DOMAIN r.blocks
    /\ r.piece \in Pieces
    /\ \E i \in DOMAIN r.blocks :
        /\ r.piece.region = InBlock(i)
        /\ FirstByte(i) <= r.piece.from /\ r.piece.to <= r.blocks[i].last
        /\ i \in DOMAIN blocks => blocks[i].last <= r.piece.from
    /\ \A i \in DOMAIN blocks : i \in DOMAIN r.blocks /\ blocks[i].last <= r.blocks[i].last
    /\ \A i \in DOMAIN r.blocks : FirstByte(i) <= r.blocks[i].last
    /\ \A i \in DOMAIN r.blocks : i < r.current => r.blocks[i].failed > MaxFailed + 1
    /\ \A i, j \in DOMAIN r.blocks :
        r.current <= i /\ i <= j => r.blocks[j].failed <= r.blocks[i].failed

LEMMA CarveServes ==
    ASSUME SizesAssumption, Placed, Alive, NEW size \in Nat \ {0}, NEW aligned \in BOOLEAN,
           NEW i \in Roomy(size, aligned)
    PROVE  Serves(Carve(i, size, aligned))
<1>. DEFINE r == Carve(i, size, aligned)
            m == StartIn(i, aligned)
<1>. USE BlocksAreTyped DEF Placed
<1>1. i \in DOMAIN blocks /\ current \in DOMAIN blocks /\ current <= i
  BY SMT DEF Roomy, TypeOK, Alive
<1>2. m \in Nat /\ blocks[i].last <= m /\ m <= PoolSize
  BY <1>1, StartInForward
<1>3. m + size <= PoolSize
  BY <1>2, SMT DEF Roomy, Fits, SizesAssumption
<1>4. /\ [blocks[i] EXCEPT !.last = m + size] \in Block
      /\ [blocks[i] EXCEPT !.last = m + size].last = m + size
      /\ [blocks[i] EXCEPT !.last = m + size].failed = blocks[i].failed
  <2>1. m + size \in 0 .. PoolSize
    BY <1>2, <1>3, SMT DEF SizesAssumption
  <2>. QED  BY <2>1, <1>1, BlockChanged
<1>5. r.blocks = [blocks EXCEPT ![i] = [blocks[i] EXCEPT !.last = m + size]]
      /\ r.current = current /\ r.piece = Piece(InBlock(i), m, size)
  BY DEF Carve
<1>6. /\ r.blocks \in Seq(Block) /\ DOMAIN r.blocks = DOMAIN blocks
      /\ \A j \in DOMAIN blocks :
            r.blocks[j] = IF j = i THEN [blocks[i] EXCEPT !.last = m + size] ELSE blocks[j]
  <2>1. i \in 1 .. Len(blocks) /\ blocks \in Seq(Block) /\ DOMAIN blocks = 1 .. Len(blocks)
    BY <1>1
  <2>2. /\ r.blocks \in Seq(Block) /\ Len(r.blocks) = Len(blocks)
        /\ \A j \in 1 .. Len(blocks) :
              r.blocks[j] = IF j = i THEN [blocks[i] EXCEPT !.last = m + size] ELSE blocks[j]
    BY <2>1, <1>4, <1>5, ExceptSeq
  <2>. QED  BY <2>1, <2>2, LenProperties
<1>7. \A j \in DOMAIN blocks : /\ r.blocks[j].failed = blocks[j].failed
                               /\ j # i => r.blocks[j].last = blocks[j].last
  BY <1>4, <1>6
<1>8. r.blocks[i].last = m + size
  BY <1>1, <1>4, <1>6
<1>9. r.piece \in Pieces /\ r.piece.region = InBlock(i) /\ r.piece.from = m
      /\ r.piece.to = m + size
  BY <1>1, <1>2, <1>5, SMT DEF Piece, Pieces, InBlock
<1>10. FirstByte(i) \in Nat /\ FirstByte(i) <= blocks[i].last
  BY <1>1, SMT DEF Begun, FirstByte, PoolHeader, DataHeader
<1>11. \A j \in DOMAIN blocks : blocks[j].last <= r.blocks[j].last
  BY <1>1, <1>2, <1>7, <1>8, SMTT(20)
<1>12. \A j \in DOMAIN r.blocks : FirstByte(j) <= r.blocks[j].last
  BY <1>1, <1>2, <1>6, <1>7, <1>8, FirstByteType, SMTT(20) DEF Begun
<1>13. r.blocks # <<>>
  BY <1>1, <1>6
<1>14. \A j \in DOMAIN r.blocks : j < r.current => r.blocks[j].failed > MaxFailed + 1
  BY <1>5, <1>6, <1>7 DEF OnlyTiredAreSkipped
<1>15. \A j, k \in DOMAIN r.blocks :
          r.current <= j /\ j <= k => r.blocks[k].failed <= r.blocks[j].failed
  BY <1>5, <1>6, <1>7 DEF FailedFalls
<1>16. /\ FirstByte(i) <= r.piece.from /\ r.piece.to <= r.blocks[i].last
       /\ blocks[i].last <= r.piece.from
  BY <1>1, <1>2, <1>8, <1>9, <1>10, SMT
<1>17. r.current \in DOMAIN r.blocks
  BY <1>1, <1>5, <1>6
<1>18. \A j \in DOMAIN blocks : j \in DOMAIN r.blocks /\ blocks[j].last <= r.blocks[j].last
  BY <1>6, <1>11
<1>19. \E j \in DOMAIN r.blocks :
          /\ r.piece.region = InBlock(j)
          /\ FirstByte(j) <= r.piece.from /\ r.piece.to <= r.blocks[j].last
          /\ j \in DOMAIN blocks => blocks[j].last <= r.piece.from
  BY <1>1, <1>6, <1>9, <1>16
<1>20. r.blocks \in Seq(Block) /\ r.piece \in Pieces
  BY <1>6, <1>9
<1>. HIDE DEF r
<1>21. Serves(r)
  BY <1>12, <1>13, <1>14, <1>15, <1>17, <1>18, <1>19, <1>20 DEF Serves
<1>. QED  BY <1>21 DEF r

LEMMA ExtendServes ==
    ASSUME SizesAssumption, Placed, Alive, NEW size \in Nat \ {0}, size <= MaxSmall,
           NEW next \in NextCurrent
    PROVE  Serves(Extend(size, next))
<1>. DEFINE n == Len(blocks)
            r == Extend(size, next)
            passed == [i \in DOMAIN blocks |->
                          IF i \in Passed THEN [blocks[i] EXCEPT !.failed = @ + 1]
                                          ELSE blocks[i]]
            new == [last |-> DataHeader + size, failed |-> 0]
<1>. USE BlocksAreTyped DEF Placed
<1>1. n \in Nat \ {0} /\ current \in DOMAIN blocks /\ DOMAIN blocks = 1 .. n
      /\ current \in Nat
  BY EmptySeq, SMT DEF TypeOK, Alive
<1>2. next \in Nat /\ current <= next /\ next <= n
  BY <1>1, SMT DEF NextCurrent
<1>3. AlignUp(DataHeader) = DataHeader
  BY AlignUpForward DEF DataHeader
<1>4. new \in Block
  <2>1. DataHeader + size \in 0 .. PoolSize
    BY MaxSmallFits, SMT DEF DataHeader, PoolHeader, SizesAssumption
  <2>. QED  BY <2>1 DEF Block
<1>5. \A i \in DOMAIN blocks :
          /\ [blocks[i] EXCEPT !.failed = blocks[i].failed + 1] \in Block
          /\ [blocks[i] EXCEPT !.failed = blocks[i].failed + 1].last = blocks[i].last
          /\ [blocks[i] EXCEPT !.failed = blocks[i].failed + 1].failed = blocks[i].failed + 1
  <2>. TAKE i \in DOMAIN blocks
  <2>1. blocks[i] \in Block /\ blocks[i].failed + 1 \in Nat
    BY SMT
  <2>. QED  BY <2>1, BlockChanged
<1>6. /\ passed \in [1 .. n -> Block]
      /\ \A i \in 1 .. n :
            /\ passed[i].last = blocks[i].last
            /\ i \in Passed => passed[i].failed = blocks[i].failed + 1
            /\ i \notin Passed => passed[i].failed = blocks[i].failed
  BY <1>1, <1>5
<1>7. passed \in Seq(Block)
  BY <1>1, <1>6, SeqDef
<1>8. Len(passed) = n
  BY <1>1, <1>7, LenProperties
<1>9. r.blocks = Append(passed, new) /\ r.current = next
      /\ r.piece = Piece(InBlock(n + 1), DataHeader, size)
  BY <1>3 DEF Extend
<1>. HIDE DEF r, passed
<1>10. /\ r.blocks \in Seq(Block) /\ r.blocks # <<>> /\ Len(r.blocks) = n + 1
       /\ DOMAIN r.blocks = 1 .. n + 1
       /\ \A i \in 1 .. n : r.blocks[i] = passed[i]
       /\ r.blocks[n + 1] = new
  BY <1>4, <1>7, <1>8, <1>9, AppendProperties, LenProperties
<1>11. r.current \in DOMAIN r.blocks
  BY <1>1, <1>2, <1>9, <1>10, SMT
<1>12. /\ r.piece \in Pieces /\ r.piece.region = InBlock(n + 1)
       /\ r.piece.from = DataHeader /\ r.piece.to = DataHeader + size
  <2>1. DataHeader \in Nat /\ DataHeader + size \in Nat /\ n + 1 \in Nat
    BY <1>1, SMT DEF DataHeader
  <2>. QED  BY <2>1, <1>9 DEF Piece, Pieces, InBlock
<1>13. n + 1 \in DOMAIN r.blocks /\ n + 1 \notin DOMAIN blocks
       /\ FirstByte(n + 1) = DataHeader /\ new.last = DataHeader + size /\ new.failed = 0
  BY <1>1, <1>10, SMT DEF FirstByte
<1>14. \E i \in DOMAIN r.blocks :
          /\ r.piece.region = InBlock(i)
          /\ FirstByte(i) <= r.piece.from /\ r.piece.to <= r.blocks[i].last
          /\ i \in DOMAIN blocks => blocks[i].last <= r.piece.from
  <2>1. DataHeader \in Nat /\ DataHeader <= DataHeader + size
    BY SMT DEF DataHeader
  <2>2. DataHeader <= DataHeader /\ DataHeader + size <= DataHeader + size
    BY <2>1, SMT
  <2>. QED  BY <1>10, <1>12, <1>13, <2>2
<1>15. \A i \in DOMAIN blocks : i \in DOMAIN r.blocks /\ blocks[i].last <= r.blocks[i].last
  BY <1>1, <1>6, <1>10, SMT
<1>16. \A i \in DOMAIN r.blocks : FirstByte(i) <= r.blocks[i].last
  <2>. TAKE i \in DOMAIN r.blocks
  <2>1. CASE i \in 1 .. n
    BY <2>1, <1>1, <1>6, <1>10 DEF Begun
  <2>2. CASE i = n + 1
    BY <2>2, <1>10, <1>13, SMT DEF DataHeader
  <2>. QED  BY <2>1, <2>2, <1>1, <1>10, SMT
<1>17. \A i \in 1 .. n : current <= i /\ i < next => /\ i \in Passed
                                                   /\ blocks[i].failed > MaxFailed
  <2>. SUFFICES ASSUME NEW i \in 1 .. n, current <= i, i < next
                PROVE  i \in Passed /\ blocks[i].failed > MaxFailed
    OBVIOUS
  <2>1. i \in Passed
    BY <1>1, <1>2, SMT DEF Passed
  <2>2. next - 1 \in 1 .. n /\ i <= next - 1 /\ next # current
    BY <1>1, <1>2, SMT
  <2>3. blocks[next - 1].failed > MaxFailed
    BY <2>2 DEF NextCurrent
  <2>4. blocks[next - 1].failed <= blocks[i].failed
    BY <2>2, <1>1 DEF FailedFalls
  <2>. QED  BY <2>1, <2>2, <2>3, <2>4, <1>1, SMT DEF SizesAssumption
<1>18. \A i \in DOMAIN r.blocks : i < r.current => r.blocks[i].failed > MaxFailed + 1
  <2>. SUFFICES ASSUME NEW i \in DOMAIN r.blocks, i < next
                PROVE  r.blocks[i].failed > MaxFailed + 1
    BY <1>9
  <2>1. i \in 1 .. n /\ r.blocks[i] = passed[i]
    BY <1>1, <1>2, <1>10, SMT
  <2>2. CASE i < current
    <3>1. i \notin Passed
      BY <2>1, <2>2, <1>1, SMT DEF Passed
    <3>. QED  BY <3>1, <2>1, <2>2, <1>1, <1>6 DEF OnlyTiredAreSkipped
  <2>3. CASE current <= i
    BY <2>1, <2>3, <1>1, <1>6, <1>17, SMT DEF SizesAssumption
  <2>. QED  BY <2>1, <2>2, <2>3, <1>1, SMT
<1>19. \A i, j \in DOMAIN r.blocks :
          r.current <= i /\ i <= j => r.blocks[j].failed <= r.blocks[i].failed
  <2>. SUFFICES ASSUME NEW i \in 1 .. n + 1, NEW j \in 1 .. n + 1, next <= i, i <= j
                PROVE  r.blocks[j].failed <= r.blocks[i].failed
    BY <1>9, <1>10
  <2>1. CASE j = n + 1
    <3>1. r.blocks[i] \in Block
      BY <1>10, ElementOfSeq
    <3>2. r.blocks[i].failed \in Nat
      BY <3>1 DEF Block
    <3>. QED  BY <3>2, <2>1, <1>10, <1>13, SMT
  <2>2. CASE j \in 1 .. n
    <3>1. i \in 1 .. n /\ current <= i
      BY <2>2, <1>1, <1>2, SMT
    <3>2. blocks[j].failed <= blocks[i].failed
      BY <3>1, <2>2, <1>1 DEF FailedFalls
    <3>3. j \in Passed => i \in Passed
      BY <3>1, <2>2, <1>1, SMT DEF Passed
    <3>4. blocks[i].failed \in Nat /\ blocks[j].failed \in Nat
      BY <3>1, <2>2, <1>1
    <3>5. r.blocks[i] = passed[i] /\ r.blocks[j] = passed[j]
      BY <3>1, <2>2, <1>10
    <3>6. CASE j \in Passed
      <4>1. passed[i].failed = blocks[i].failed + 1 /\ passed[j].failed = blocks[j].failed + 1
        BY <3>1, <3>3, <3>6, <2>2, <1>6
      <4>. QED  BY <4>1, <3>2, <3>4, <3>5, SMTT(20)
    <3>7. CASE j \notin Passed
      <4>1. passed[j].failed = blocks[j].failed
        BY <3>7, <2>2, <1>6
      <4>2. passed[i].failed \in {blocks[i].failed, blocks[i].failed + 1}
        BY <3>1, <1>6
      <4>. QED  BY <4>1, <4>2, <3>2, <3>4, <3>5, SMT
    <3>. QED  BY <3>6, <3>7
  <2>. QED  BY <2>1, <2>2, <1>1, SMT
<1>20. Serves(r)
  BY <1>10, <1>11, <1>12, <1>14, <1>15, <1>16, <1>18, <1>19 DEF Serves
<1>. QED  BY <1>20 DEF r

LEMMA SmallServes ==
    ASSUME SizesAssumption, Placed, Alive, NEW size \in Nat \ {0}, size <= MaxSmall,
           NEW aligned \in BOOLEAN, NEW r \in Small(size, aligned)
    PROVE  Serves(r)
<1>1. CASE Roomy(size, aligned) # {}
  BY <1>1, CarveServes DEF Small
<1>2. CASE Roomy(size, aligned) = {}
  BY <1>2, ExtendServes DEF Small
<1>. QED  BY <1>1, <1>2

-----------------------------------------------------------------------------
(* The invariant. *)

LEMMA InitIInv == Init => IInv
<1>. SUFFICES ASSUME Init PROVE IInv
  OBVIOUS
<1>. USE DEF Init
<1>1. blocks \in Seq(Block) /\ large \in Seq(Record) /\ DOMAIN blocks = {} /\ DOMAIN large = {}
  BY EmptySeq
<1>2. DOMAIN given = {}
  BY DEF Nobody
<1>3. TypeOK
  BY <1>1, <1>2 DEF TypeOK, Block, Record
<1>4. Users = {}
  BY <1>1, <1>2 DEF Users
<1>. QED
  BY <1>1, <1>2, <1>3, <1>4 DEF IInv, Placed, Begun, FailedFalls, OnlyTiredAreSkipped,
     Contained, AllRecorded, RecordsInBlocks, HeapOnce, NothingWithoutPool

\* The request of a small piece, for a caller or a record.
LEMMA PlacedKept ==
    ASSUME TypeOK', NEW r, Serves(r), blocks' = r.blocks, current' = r.current
    PROVE  Placed'
BY DEF Serves, Placed, Begun, FailedFalls, OnlyTiredAreSkipped, FirstByte, PoolHeader, DataHeader

\* Every piece of a block keeps its place there.
LEMMA InBlocksKept ==
    ASSUME SizesAssumption, Placed, NEW r, Serves(r), blocks' = r.blocks, TypeOK',
           NEW p \in Pieces, NEW i \in DOMAIN blocks,
           FirstByte(i) <= p.from, p.to <= blocks[i].last
    PROVE  i \in DOMAIN blocks' /\ p.to <= blocks'[i].last /\ blocks'[i].last <= PoolSize
<1>1. blocks[i].last \in Nat /\ p.to \in Nat
  BY BlocksAreTyped DEF Placed, Pieces
<1>2. i \in DOMAIN blocks' /\ blocks[i].last <= blocks'[i].last
  BY DEF Serves
<1>3. blocks'[i] \in Block
  BY <1>2, LenProperties, ElementOfSeq DEF Serves
<1>4. blocks'[i].last \in Nat /\ blocks'[i].last <= PoolSize
  BY <1>3, SMT DEF Block, SizesAssumption
<1>. QED  BY <1>1, <1>2, <1>4, SMT

LEMMA UsersSplit ==
    Contained <=> /\ \A c \in DOMAIN given : Inside(given[c])
                  /\ \A k \in DOMAIN large : Inside(large[k].header)
<1>1. ASSUME Contained, NEW c \in DOMAIN given PROVE Inside(given[c])
  <2>1. [who |-> <<"caller", c>>, piece |-> given[c]] \in Users
    BY DEF Users
  <2>. QED  BY <1>1, <2>1 DEF Contained
<1>2. ASSUME Contained, NEW k \in DOMAIN large PROVE Inside(large[k].header)
  <2>1. [who |-> <<"record", k>>, piece |-> large[k].header] \in Users
    BY DEF Users
  <2>. QED  BY <1>2, <2>1 DEF Contained
<1>3. ASSUME \A c \in DOMAIN given : Inside(given[c]),
             \A k \in DOMAIN large : Inside(large[k].header), NEW h \in Users
      PROVE  Inside(h.piece)
  BY <1>3 DEF Users
<1>. QED  BY <1>1, <1>2, <1>3 DEF Contained

\* The same of the next state, one way.
LEMMA UsersJoinNext ==
    ASSUME \A c \in DOMAIN given' : Inside(given[c])',
           \A k \in DOMAIN large' : Inside(large[k].header)'
    PROVE  Contained'
<1>. SUFFICES ASSUME NEW h \in Users' PROVE Inside(h.piece)'
  BY DEF Contained
<1>. QED  BY DEF Users

LEMMA LargeIsTyped ==
    ASSUME TypeOK
    PROVE  /\ large \in Seq(Record) /\ Len(large) \in Nat /\ DOMAIN large = 1 .. Len(large)
           /\ \A k \in DOMAIN large : /\ large[k] \in Record /\ large[k].header \in Pieces
                                     /\ large[k].alloc \in Mallocs \cup {NoMalloc}
<1>1. large \in Seq(Record)
  BY DEF TypeOK, Record
<1>2. Len(large) \in Nat /\ DOMAIN large = 1 .. Len(large)
  BY <1>1, LenProperties
<1>3. \A k \in DOMAIN large : large[k] \in Record
  BY <1>1, <1>2, ElementOfSeq
<1>. QED  BY <1>1, <1>2, <1>3 DEF Record

LEMMA UsersHavePieces == ASSUME TypeOK PROVE \A h \in Users : h.piece \in Pieces
BY LargeIsTyped DEF Users, TypeOK

\* Regions of different blocks, and a block and malloc's memory, are different.
LEMMA RegionsDiffer ==
    /\ \A i, j : InBlock(i) = InBlock(j) => i = j
    /\ \A m, n : InHeap(m) = InHeap(n) => m = n
    /\ \A i, m : InBlock(i) # InHeap(m)
BY DEF InBlock, InHeap

\* A caller who had nothing has the piece now.
LEMMA HandGives ==
    ASSUME Waiting # {}, NEW piece, Hand(piece)
    PROVE  \E c \in Callers \ DOMAIN given :
              /\ DOMAIN given' = DOMAIN given \cup {c} /\ given'[c] = piece
              /\ \A d \in DOMAIN given : given'[d] = given[d]
<1>. DEFINE c == CHOOSE c \in Callers : c \notin DOMAIN given
<1>1. c \in Callers \ DOMAIN given
  BY DEF Waiting
<1>2. given' = [d \in DOMAIN given \cup {c} |-> IF d = c THEN piece ELSE given[d]]
  BY DEF Hand
<1>. QED  BY <1>1, <1>2

\* A small piece touches nothing in use.
LEMMA SmallIsApart ==
    ASSUME SizesAssumption, Placed, Contained, NEW r, Serves(r), NEW h \in Users
    PROVE  Pool!Apart(h.piece, r.piece) /\ Pool!Apart(r.piece, h.piece)
<1>1. PICK j \in DOMAIN r.blocks :
          /\ r.piece.region = InBlock(j)
          /\ j \in DOMAIN blocks => blocks[j].last <= r.piece.from
  BY DEF Serves
<1>2. h.piece.to \in Nat /\ r.piece.from \in Nat
  BY UsersHavePieces DEF Placed, Serves, Pieces
<1>3. CASE \E m \in mallocs : h.piece.region = InHeap(m)
  BY <1>1, <1>3, RegionsDiffer DEF Pool!Apart
<1>4. CASE \E i \in DOMAIN blocks :
              h.piece.region = InBlock(i) /\ h.piece.to <= blocks[i].last
  <2>1. PICK i \in DOMAIN blocks : h.piece.region = InBlock(i) /\ h.piece.to <= blocks[i].last
    BY <1>4
  <2>2. CASE i # j
    BY <2>1, <2>2, <1>1, RegionsDiffer DEF Pool!Apart
  <2>3. CASE i = j
    <3>1. blocks[i].last \in Nat
      BY BlocksAreTyped DEF Placed
    <3>2. h.piece.to <= r.piece.from
      BY <2>1, <2>3, <3>1, <1>1, <1>2, SMT
    <3>. QED  BY <3>2 DEF Pool!Apart
  <2>. QED  BY <2>2, <2>3
<1>. QED  BY <1>3, <1>4 DEF Contained, Inside

\* Memory fresh from malloc touches nothing in use.
LEMMA MallocIsApart ==
    ASSUME Contained, RecordsInBlocks, NEW m \in Mallocs \ mallocs, NEW p,
           p.region = InHeap(m), NEW h \in Users
    PROVE  Pool!Apart(h.piece, p) /\ Pool!Apart(p, h.piece)
BY RegionsDiffer DEF Contained, Inside, Pool!Apart

-----------------------------------------------------------------------------
(* Every step keeps the invariant, and is a step of the abstract pool. *)

LEMMA PallocSmallStep ==
    ASSUME SizesAssumption, IInv, NEW size \in Nat \ {0}, NEW aligned \in BOOLEAN,
           PallocSmall(size, aligned)
    PROVE  IInv' /\ Pool!Give
<1>. USE DEF IInv
<1>1. PICK r \in Small(size, aligned) :
          blocks' = r.blocks /\ current' = r.current /\ Hand(r.piece)
  BY DEF PallocSmall
<1>2. Serves(r) /\ r.piece \in Pieces
  <2>1. Serves(r)
    BY SmallServes DEF PallocSmall
  <2>. QED  BY <2>1 DEF Serves
<1>3. PICK c \in Callers \ DOMAIN given :
          /\ DOMAIN given' = DOMAIN given \cup {c} /\ given'[c] = r.piece
          /\ \A d \in DOMAIN given : given'[d] = given[d]
  BY <1>1, HandGives DEF PallocSmall
<1>4. large' = large /\ mallocs' = mallocs
  BY DEF PallocSmall
<1>5. TypeOK'
  <2>1. blocks' \in Seq(Block) /\ current' \in DOMAIN blocks' /\ current' \in Nat
    BY <1>1, <1>2, LenProperties, SMT DEF Serves
  <2>2. DOMAIN given' \subseteq Callers /\ \A d \in DOMAIN given' : given'[d] \in Pieces
    BY <1>2, <1>3 DEF TypeOK, Placed
  <2>. QED  BY <2>1, <2>2, <1>4 DEF TypeOK, Placed, Block
<1>6. Placed'
  BY <1>1, <1>2, <1>5, PlacedKept
<1>7. \A p \in Pieces : Inside(p) => Inside(p)'
  BY <1>1, <1>2, <1>4, <1>5, InBlocksKept DEF Inside, FirstByte, PoolHeader, DataHeader
<1>8. Inside(r.piece)'
  <2>1. PICK i \in DOMAIN blocks' :
            /\ r.piece.region = InBlock(i)
            /\ FirstByte(i) <= r.piece.from /\ r.piece.to <= blocks'[i].last
    BY <1>1, <1>2 DEF Serves
  <2>2. blocks'[i] \in Block
    BY <2>1, <1>1, <1>2, LenProperties, ElementOfSeq DEF Serves
  <2>3. blocks'[i].last <= PoolSize
    BY <2>2, SMT DEF Block, SizesAssumption
  <2>. QED  BY <2>1, <2>3 DEF Inside, FirstByte
<1>9. Contained'
  <2>1. ASSUME NEW d \in DOMAIN given' PROVE Inside(given[d])'
    <3>1. CASE d = c
      BY <3>1, <1>3, <1>8
    <3>2. CASE d \in DOMAIN given
      <4>1. Inside(given[d]) /\ given[d] \in Pieces
        BY <3>2, UsersSplit DEF Placed, TypeOK
      <4>. QED  BY <4>1, <3>2, <1>3, <1>7
    <3>. QED  BY <3>1, <3>2, <1>3
  <2>2. ASSUME NEW k \in DOMAIN large' PROVE Inside(large[k].header)'
    <3>1. Inside(large[k].header) /\ large[k].header \in Pieces
      BY <1>4, UsersSplit, LargeIsTyped DEF Placed
    <3>. QED  BY <3>1, <1>4, <1>7
  <2>. QED  BY <2>1, <2>2, UsersJoinNext
<1>10. Users \subseteq Users' /\ \A h \in Users' \ Users : h.piece = r.piece
  BY <1>3, <1>4 DEF Users
<1>11. \A g, h \in Users' \ Users : g = h
  BY <1>3, <1>4 DEF Users
<1>12. Pool!Give
  BY <1>2, <1>10, <1>11, SmallIsApart DEF Pool!Give
<1>13. RecordsInBlocks'
  BY <1>1, <1>2, <1>4 DEF RecordsInBlocks, Serves
<1>14. HeapOnce'
  <2>1. \A m \in Mallocs : r.piece.region # InHeap(m)
    BY <1>2, RegionsDiffer DEF Serves
  <2>. QED  BY <2>1, <1>3 DEF HeapOnce
<1>15. AllRecorded' /\ NothingWithoutPool'
  BY <1>1, <1>2, <1>4 DEF AllRecorded, NothingWithoutPool, Alive, Serves
<1>. QED  BY <1>6, <1>9, <1>12, <1>13, <1>14, <1>15

\* One record of a large request gets other memory, or none.
LEMMA RecordChanged ==
    ASSUME TypeOK, NEW k \in DOMAIN large, NEW m \in Mallocs \cup {NoMalloc},
           large' = [large EXCEPT ![k].alloc = m]
    PROVE  /\ large' \in Seq(Record) /\ DOMAIN large' = DOMAIN large
           /\ large'[k].alloc = m
           /\ \A j \in DOMAIN large : large'[j].header = large[j].header
           /\ \A j \in DOMAIN large : j # k => large'[j].alloc = large[j].alloc
<1>. DEFINE e == [large[k] EXCEPT !.alloc = m]
<1>1. e \in Record /\ e.alloc = m /\ e.header = large[k].header
  BY LargeIsTyped DEF Record
<1>2. large' = [large EXCEPT ![k] = e]
  OBVIOUS
<1>. HIDE DEF e
<1>3. large \in Seq(Record) /\ k \in 1 .. Len(large) /\ DOMAIN large = 1 .. Len(large)
  BY LargeIsTyped
<1>4. /\ large' \in Seq(Record) /\ Len(large') = Len(large)
      /\ \A j \in 1 .. Len(large) : large'[j] = IF j = k THEN e ELSE large[j]
  BY <1>1, <1>2, <1>3, ExceptSeq
<1>5. DOMAIN large' = DOMAIN large
  BY <1>3, <1>4, LenProperties
<1>. QED  BY <1>1, <1>3, <1>4, <1>5

\* The bookkeeping of the blocks is a matter of blocks and current alone.
LEMMA PlacedStays ==
    ASSUME Placed, UNCHANGED <<blocks, current>>, TypeOK'
    PROVE  Placed'
BY DEF Placed, Begun, FailedFalls, OnlyTiredAreSkipped, FirstByte, PoolHeader, DataHeader

\* One caller more has memory from malloc, and it is nobody else's.
LEMMA HeapOnceKept ==
    ASSUME Contained, HeapOnce, NEW m \in Mallocs \ mallocs, NEW p, p.region = InHeap(m),
           NEW c \in Callers \ DOMAIN given,
           DOMAIN given' = DOMAIN given \cup {c}, given'[c] = p,
           \A d \in DOMAIN given : given'[d] = given[d]
    PROVE  HeapOnce'
<1>1. ASSUME NEW d \in DOMAIN given, NEW n \in Mallocs,
             given[d].region = InHeap(n), p.region = InHeap(n)
      PROVE  FALSE
  <2>1. n = m
    BY <1>1, RegionsDiffer
  <2>2. Inside(given[d])
    BY <1>1, UsersSplit
  <2>. QED  BY <1>1, <2>1, <2>2, RegionsDiffer DEF Inside
<1>. QED  BY <1>1 DEF HeapOnce

LEMMA PallocLargeReusesStep ==
    ASSUME NamesAssumption, IInv, NEW size \in Nat \ {0}, PallocLargeReuses(size)
    PROVE  IInv' /\ Pool!Give
<1>. USE DEF IInv
<1>1. PICK m \in Mallocs \ mallocs, k \in Reusable :
          /\ large' = [large EXCEPT ![k].alloc = m] /\ mallocs' = mallocs \cup {m}
          /\ Hand(Piece(InHeap(m), 0, size))
  BY DEF PallocLargeReuses
<1>. DEFINE p == Piece(InHeap(m), 0, size)
<1>2. p \in Pieces /\ p.region = InHeap(m)
  BY DEF Piece, Pieces, InHeap
<1>3. PICK c \in Callers \ DOMAIN given :
          /\ DOMAIN given' = DOMAIN given \cup {c} /\ given'[c] = p
          /\ \A d \in DOMAIN given : given'[d] = given[d]
  BY <1>1, HandGives DEF PallocLargeReuses
<1>. HIDE DEF p
<1>4. UNCHANGED <<blocks, current>> /\ Alive
  BY DEF PallocLargeReuses
<1>5. k \in DOMAIN large /\ large[k].alloc = NoMalloc
  BY DEF Reusable
<1>6. /\ large' \in Seq(Record) /\ DOMAIN large' = DOMAIN large
      /\ large'[k].alloc = m
      /\ \A j \in DOMAIN large : large'[j].header = large[j].header
      /\ \A j \in DOMAIN large : j # k => large'[j].alloc = large[j].alloc
  BY <1>1, <1>5, RecordChanged DEF Placed
<1>7. TypeOK'
  BY <1>1, <1>2, <1>3, <1>4, <1>6 DEF TypeOK, Placed, Record
<1>8. Placed'
  BY <1>4, <1>7, PlacedStays
<1>9. \A q \in Pieces : Inside(q) => Inside(q)'
  BY <1>1, <1>4 DEF Inside, FirstByte, PoolHeader, DataHeader
<1>10. Contained'
  <2>1. ASSUME NEW d \in DOMAIN given' PROVE Inside(given[d])'
    <3>1. CASE d = c
      BY <3>1, <1>1, <1>2, <1>3 DEF Inside
    <3>2. CASE d \in DOMAIN given
      <4>1. Inside(given[d]) /\ given[d] \in Pieces
        BY <3>2, UsersSplit DEF Placed, TypeOK
      <4>. QED  BY <4>1, <3>2, <1>3, <1>9
    <3>. QED  BY <3>1, <3>2, <1>3
  <2>2. ASSUME NEW j \in DOMAIN large' PROVE Inside(large[j].header)'
    <3>1. Inside(large[j].header) /\ large[j].header \in Pieces
      BY <1>6, UsersSplit, LargeIsTyped DEF Placed
    <3>. QED  BY <3>1, <1>6, <1>9
  <2>. QED  BY <2>1, <2>2, UsersJoinNext
<1>11. /\ Users \subseteq Users' /\ \A h \in Users' \ Users : h.piece = p
       /\ \A g, h \in Users' \ Users : g = h
  BY <1>3, <1>6 DEF Users
<1>12. Pool!Give
  BY <1>2, <1>11, MallocIsApart DEF Pool!Give
<1>13. RecordsInBlocks'
  BY <1>4, <1>6 DEF RecordsInBlocks
<1>14. HeapOnce'
  BY <1>2, <1>3, HeapOnceKept
<1>15. AllRecorded'
  BY <1>1, <1>5, <1>6 DEF AllRecorded, NamesAssumption
<1>16. NothingWithoutPool'
  BY <1>4 DEF NothingWithoutPool, Alive
<1>. QED  BY <1>8, <1>10, <1>12, <1>13, <1>14, <1>15, <1>16

LEMMA PallocLargeRecordsStep ==
    ASSUME NamesAssumption, IInv, NEW size \in Nat \ {0}, PallocLargeRecords(size)
    PROVE  IInv' /\ Pool!Give
<1>. USE DEF IInv
<1>1. PICK m \in Mallocs \ mallocs, r \in Small(LargeHeader, TRUE) :
          /\ blocks' = r.blocks /\ current' = r.current
          /\ large' = Append(large, [header |-> r.piece, alloc |-> m])
          /\ mallocs' = mallocs \cup {m}
          /\ Hand(Piece(InHeap(m), 0, size))
  BY DEF PallocLargeRecords
<1>. DEFINE p == Piece(InHeap(m), 0, size)
            new == [header |-> r.piece, alloc |-> m]
            n == Len(large) + 1
<1>2. p \in Pieces /\ p.region = InHeap(m)
  BY DEF Piece, Pieces, InHeap
<1>3. PICK c \in Callers \ DOMAIN given :
          /\ DOMAIN given' = DOMAIN given \cup {c} /\ given'[c] = p
          /\ \A d \in DOMAIN given : given'[d] = given[d]
  BY <1>1, HandGives DEF PallocLargeRecords
<1>. HIDE DEF p
<1>4. Serves(r) /\ r.piece \in Pieces
  <2>1. LargeHeader \in Nat \ {0} /\ LargeHeader <= MaxSmall
    BY MaxSmallFits DEF LargeHeader, NamesAssumption
  <2>2. Serves(r)
    BY <2>1, SmallServes DEF PallocLargeRecords, NamesAssumption
  <2>. QED  BY <2>2 DEF Serves
<1>5. new \in Record
  BY <1>4 DEF Record
<1>6. /\ large' \in Seq(Record) /\ DOMAIN large' = DOMAIN large \cup {n}
      /\ n \notin DOMAIN large
      /\ \A j \in DOMAIN large : large'[j] = large[j]
      /\ large'[n] = new
  <2>1. large \in Seq(Record) /\ Len(large) \in Nat /\ DOMAIN large = 1 .. Len(large)
    BY LargeIsTyped DEF Placed
  <2>2. /\ large' \in Seq(Record) /\ Len(large') = Len(large) + 1
        /\ \A j \in 1 .. Len(large) : large'[j] = large[j]
        /\ large'[n] = new
    BY <2>1, <1>1, <1>5, AppendProperties
  <2>3. DOMAIN large' = 1 .. n
    BY <2>2, LenProperties
  <2>4. 1 .. n = (1 .. Len(large)) \cup {n} /\ n \notin 1 .. Len(large)
    BY <2>1, SMT
  <2>. QED  BY <2>1, <2>2, <2>3, <2>4
<1>7. new.header = r.piece /\ new.alloc = m
  OBVIOUS
<1>. HIDE DEF new, n
<1>8. TypeOK'
  <2>1. blocks' \in Seq(Block) /\ current' \in DOMAIN blocks' /\ current' \in Nat
    BY <1>1, <1>4, LenProperties, SMT DEF Serves
  <2>2. DOMAIN given' \subseteq Callers /\ \A d \in DOMAIN given' : given'[d] \in Pieces
    BY <1>2, <1>3 DEF TypeOK, Placed
  <2>. QED  BY <2>1, <2>2, <1>1, <1>6 DEF TypeOK, Placed, Block, Record
<1>9. Placed'
  BY <1>1, <1>4, <1>8, PlacedKept
<1>10. \A q \in Pieces : Inside(q) => Inside(q)'
  BY <1>1, <1>4, <1>8, InBlocksKept DEF Inside, FirstByte, PoolHeader, DataHeader, NamesAssumption
<1>11. Inside(r.piece)'
  <2>1. PICK i \in DOMAIN blocks' :
            /\ r.piece.region = InBlock(i)
            /\ FirstByte(i) <= r.piece.from /\ r.piece.to <= blocks'[i].last
    BY <1>1, <1>4 DEF Serves
  <2>2. blocks'[i] \in Block
    BY <2>1, <1>1, <1>4, LenProperties, ElementOfSeq DEF Serves
  <2>3. blocks'[i].last <= PoolSize
    BY <2>2, SMT DEF Block, NamesAssumption, SizesAssumption
  <2>. QED  BY <2>1, <2>3 DEF Inside, FirstByte
<1>12. Contained'
  <2>1. ASSUME NEW d \in DOMAIN given' PROVE Inside(given[d])'
    <3>1. CASE d = c
      BY <3>1, <1>1, <1>2, <1>3 DEF Inside
    <3>2. CASE d \in DOMAIN given
      <4>1. Inside(given[d]) /\ given[d] \in Pieces
        BY <3>2, UsersSplit DEF Placed, TypeOK
      <4>. QED  BY <4>1, <3>2, <1>3, <1>10
    <3>. QED  BY <3>1, <3>2, <1>3
  <2>2. ASSUME NEW j \in DOMAIN large' PROVE Inside(large[j].header)'
    <3>1. CASE j = n
      BY <3>1, <1>6, <1>7, <1>11
    <3>2. CASE j \in DOMAIN large
      <4>1. Inside(large[j].header) /\ large[j].header \in Pieces
        BY <3>2, UsersSplit, LargeIsTyped DEF Placed
      <4>. QED  BY <4>1, <3>2, <1>6, <1>10
    <3>. QED  BY <3>1, <3>2, <1>6
  <2>. QED  BY <2>1, <2>2, UsersJoinNext
<1>13. /\ Users \subseteq Users'
       /\ \A h \in Users' \ Users : \/ h = [who |-> <<"caller", c>>, piece |-> p]
                                    \/ h = [who |-> <<"record", n>>, piece |-> r.piece]
  BY <1>3, <1>6, <1>7 DEF Users
<1>14. Pool!Apart(p, r.piece) /\ Pool!Apart(r.piece, p)
  BY <1>2, <1>4, RegionsDiffer DEF Serves, Pool!Apart
<1>15. Pool!Give
  <2>1. \A h \in Users : /\ Pool!Apart(h.piece, p)
                         /\ Pool!Apart(h.piece, r.piece)
    BY <1>2, <1>4, SmallIsApart, MallocIsApart DEF NamesAssumption
  <2>2. \A new2 \in Users' \ Users : \A h \in Users' :
            h # new2 => Pool!Apart(h.piece, new2.piece)
    <3>. TAKE new2 \in Users' \ Users
    <3>. TAKE h \in Users'
    <3>. HAVE h # new2
    <3>1. CASE h \in Users
      BY <3>1, <2>1, <1>13
    <3>2. CASE h \notin Users
      BY <3>2, <1>13, <1>14
    <3>. QED  BY <3>1, <3>2
  <2>. QED  BY <2>2, <1>13 DEF Pool!Give
<1>16. RecordsInBlocks'
  <2>1. \A i \in DOMAIN blocks : i \in DOMAIN blocks'
    BY <1>1, <1>4 DEF Serves
  <2>2. \E i \in DOMAIN blocks' : large'[n].header.region = InBlock(i)
    BY <1>1, <1>4, <1>6, <1>7 DEF Serves
  <2>. QED  BY <2>1, <2>2, <1>6 DEF RecordsInBlocks
<1>17. HeapOnce'
  BY <1>2, <1>3, HeapOnceKept
<1>18. AllRecorded'
  BY <1>1, <1>6, <1>7 DEF AllRecorded, NamesAssumption
<1>19. NothingWithoutPool'
  BY <1>1, <1>4 DEF NothingWithoutPool, Alive, Serves
<1>. QED  BY <1>9, <1>12, <1>15, <1>16, <1>17, <1>18, <1>19

LEMMA CreatePoolStep ==
    ASSUME NamesAssumption, IInv, CreatePool
    PROVE  IInv' /\ Users' = Users
<1>. USE DEF IInv
<1>. DEFINE b == [last |-> PoolHeader, failed |-> 0]
<1>1. blocks' = <<b>> /\ current' = 1 /\ large' = <<>> /\ large = <<>>
      /\ UNCHANGED <<mallocs, given>> /\ given = Nobody
  BY DEF CreatePool, NothingWithoutPool
<1>2. b \in Block
  <2>1. PoolHeader \in 0 .. PoolSize
    BY SMT DEF NamesAssumption, SizesAssumption, PoolHeader, LargeHeader
  <2>. QED  BY <2>1 DEF Block
<1>3. blocks' \in Seq(Block) /\ DOMAIN blocks' = {1} /\ blocks'[1] = b
  BY <1>1, <1>2
<1>4. TypeOK'
  BY <1>1, <1>3 DEF TypeOK, Placed, Block
<1>5. Placed'
  <2>1. Begun'
    BY <1>3, SMT DEF Begun, FirstByte, PoolHeader, DataHeader
  <2>2. FailedFalls'
    BY <1>3, SMT DEF FailedFalls
  <2>3. OnlyTiredAreSkipped'
    BY <1>1, <1>3, SMT DEF OnlyTiredAreSkipped
  <2>. QED  BY <1>4, <2>1, <2>2, <2>3 DEF Placed
<1>6. Users = {} /\ Users' = {}
  BY <1>1 DEF Users, Nobody
<1>. QED
  BY <1>1, <1>3, <1>5, <1>6 DEF Contained, AllRecorded, RecordsInBlocks, HeapOnce,
     NothingWithoutPool, Alive, Nobody

LEMMA PfreeStep ==
    ASSUME NamesAssumption, IInv, NEW c, Pfree(c)
    PROVE  IInv' /\ Pool!Free
<1>. USE DEF IInv
<1>1. PICK k \in DOMAIN large :
          /\ given[c].region = InHeap(large[k].alloc)
          /\ mallocs' = mallocs \ {large[k].alloc}
          /\ large' = [large EXCEPT ![k].alloc = NoMalloc]
  BY DEF Pfree
<1>. DEFINE m == large[k].alloc
<1>2. /\ c \in DOMAIN given /\ UNCHANGED <<blocks, current>> /\ Alive
      /\ DOMAIN given' = DOMAIN given \ {c}
      /\ \A d \in DOMAIN given' : given'[d] = given[d]
  BY DEF Pfree
<1>3. /\ large' \in Seq(Record) /\ DOMAIN large' = DOMAIN large
      /\ large'[k].alloc = NoMalloc
      /\ \A j \in DOMAIN large : large'[j].header = large[j].header
      /\ \A j \in DOMAIN large : j # k => large'[j].alloc = large[j].alloc
  BY <1>1, RecordChanged DEF Placed
<1>4. TypeOK'
  BY <1>1, <1>2, <1>3 DEF TypeOK, Placed, Record
<1>5. Placed'
  BY <1>2, <1>4, PlacedStays
<1>6. m \in Mallocs
  <2>1. given[c] \in Pieces
    BY <1>2 DEF TypeOK, Placed
  <2>2. InHeap(m)[2] = m /\ InHeap(m)[1] = "malloc"
    BY DEF InHeap
  <2>. QED  BY <2>1, <2>2, <1>1 DEF Pieces
<1>7. \A q \in Pieces : Inside(q) /\ q.region # InHeap(m) => Inside(q)'
  BY <1>1, <1>2 DEF Inside, FirstByte, PoolHeader, DataHeader
<1>8. Contained'
  <2>1. ASSUME NEW d \in DOMAIN given' PROVE Inside(given[d])'
    <3>1. d \in DOMAIN given /\ d # c
      BY <1>2
    <3>2. Inside(given[d]) /\ given[d] \in Pieces
      BY <3>1, UsersSplit DEF Placed, TypeOK
    <3>3. given[d].region # InHeap(m)
      BY <3>1, <1>1, <1>2, <1>6 DEF HeapOnce
    <3>. QED  BY <3>2, <3>3, <1>2, <1>7
  <2>2. ASSUME NEW j \in DOMAIN large' PROVE Inside(large[j].header)'
    <3>1. Inside(large[j].header) /\ large[j].header \in Pieces
      BY <1>3, UsersSplit, LargeIsTyped DEF Placed
    <3>2. large[j].header.region # InHeap(m)
      BY <1>3, RegionsDiffer DEF RecordsInBlocks
    <3>. QED  BY <3>1, <3>2, <1>3, <1>7
  <2>. QED  BY <2>1, <2>2, UsersJoinNext
<1>9. Pool!Free
  <2>1. [who |-> <<"caller", c>>, piece |-> given[c]] \in Users
    BY <1>2 DEF Users
  <2>2. Users' = Users \ {[who |-> <<"caller", c>>, piece |-> given[c]]}
    BY <1>2, <1>3 DEF Users
  <2>. QED  BY <2>1, <2>2 DEF Pool!Free
<1>10. RecordsInBlocks' /\ HeapOnce' /\ NothingWithoutPool'
  BY <1>2, <1>3 DEF RecordsInBlocks, HeapOnce, NothingWithoutPool, Alive
<1>11. AllRecorded'
  BY <1>1, <1>3, <1>6 DEF AllRecorded, NamesAssumption
<1>. QED  BY <1>5, <1>8, <1>9, <1>10, <1>11

LEMMA ResetPoolStep ==
    ASSUME NamesAssumption, IInv, ResetPool
    PROVE  IInv' /\ Pool!Clear
<1>. USE DEF IInv
<1>1. /\ large' = <<>> /\ given' = Nobody /\ current' = current /\ Alive
      /\ mallocs' = mallocs \ {large[k].alloc : k \in DOMAIN large}
      /\ blocks' = [i \in DOMAIN blocks |-> [blocks[i] EXCEPT !.last = PoolHeader]]
  BY DEF ResetPool
<1>2. PoolHeader \in 0 .. PoolSize
  BY SMT DEF NamesAssumption, SizesAssumption, PoolHeader, LargeHeader
<1>3. \A i \in DOMAIN blocks :
          /\ blocks'[i] \in Block /\ blocks'[i].last = PoolHeader
          /\ blocks'[i].failed = blocks[i].failed
  <2>. TAKE i \in DOMAIN blocks
  <2>1. blocks[i] \in Block
    BY BlocksAreTyped DEF Placed, NamesAssumption
  <2>2. blocks'[i] = [blocks[i] EXCEPT !.last = PoolHeader]
    BY <1>1
  <2>. QED  BY <1>2, <2>1, <2>2, BlockChanged
<1>4. blocks' \in Seq(Block) /\ DOMAIN blocks' = DOMAIN blocks
  <2>1. Len(blocks) \in Nat /\ DOMAIN blocks = 1 .. Len(blocks)
    BY BlocksAreTyped DEF Placed, NamesAssumption
  <2>2. blocks' \in [1 .. Len(blocks) -> Block]
    BY <2>1, <1>1, <1>3
  <2>. QED  BY <2>1, <2>2, SeqDef
<1>5. blocks' # <<>>
  <2>1. current \in DOMAIN blocks
    BY <1>1 DEF Alive, Placed, TypeOK
  <2>2. DOMAIN <<>> = {}
    OBVIOUS
  <2>. QED  BY <2>1, <2>2, <1>4
<1>6. TypeOK'
  <2>1. large' \in Seq(Record)
    BY <1>1, EmptySeq
  <2>. QED  BY <2>1, <1>1, <1>4, <1>5 DEF TypeOK, Placed, Nobody, Block, Alive, Record
<1>7. Placed'
  <2>1. Begun'
    BY <1>3, <1>4, SMT DEF Begun, FirstByte, PoolHeader, DataHeader
  <2>. QED  BY <2>1, <1>1, <1>3, <1>4, <1>6 DEF Placed, FailedFalls, OnlyTiredAreSkipped
<1>8. Users' = {}
  BY <1>1 DEF Users, Nobody
<1>. QED
  BY <1>1, <1>5, <1>7, <1>8 DEF Contained, AllRecorded, RecordsInBlocks, HeapOnce,
     NothingWithoutPool, Alive, Nobody, Pool!Clear

LEMMA DestroyPoolStep ==
    ASSUME NamesAssumption, IInv, DestroyPool
    PROVE  IInv' /\ Pool!Clear
<1>. USE DEF IInv
<1>1. /\ blocks' = <<>> /\ current' = 0 /\ large' = <<>> /\ given' = Nobody
      /\ mallocs' = mallocs \ {large[k].alloc : k \in DOMAIN large}
  BY DEF DestroyPool
<1>2. blocks' \in Seq(Block) /\ large' \in Seq(Record) /\ DOMAIN blocks' = {}
  BY <1>1, EmptySeq
<1>3. TypeOK'
  BY <1>1, <1>2 DEF TypeOK, Placed, Nobody, Block, Record
<1>4. Placed'
  BY <1>2, <1>3 DEF Placed, Begun, FailedFalls, OnlyTiredAreSkipped
<1>5. Users' = {}
  BY <1>1 DEF Users, Nobody
<1>. QED
  BY <1>1, <1>4, <1>5 DEF Contained, AllRecorded, RecordsInBlocks, HeapOnce,
     NothingWithoutPool, Alive, Nobody, Pool!Clear

LEMMA IInvStays ==
    ASSUME IInv, UNCHANGED vars
    PROVE  IInv' /\ Users' = Users
BY DEF vars, IInv, Placed, TypeOK, Begun, FailedFalls, OnlyTiredAreSkipped, Contained,
   AllRecorded, RecordsInBlocks, HeapOnce, NothingWithoutPool, Users, Inside, FirstByte,
   PoolHeader, DataHeader, Alive

\* Every step keeps the invariant and is a step, or none, of the pool that Allocator
\* describes.
LEMMA Step ==
    ASSUME NamesAssumption, IInv, [Next]_vars
    PROVE  IInv' /\ [Pool!Next]_Users
<1>0. \A r \in Requests : r.size \in Nat \ {0} /\ r.aligned \in BOOLEAN
  BY DEF NamesAssumption, SizesAssumption
<1>1. ASSUME NEW r \in Requests, PallocSmall(r.size, r.aligned)
      PROVE  IInv' /\ [Pool!Next]_Users
  BY <1>0, <1>1, PallocSmallStep DEF Pool!Next, NamesAssumption
<1>2. ASSUME NEW r \in Requests, PallocLargeReuses(r.size)
      PROVE  IInv' /\ [Pool!Next]_Users
  BY <1>0, <1>2, PallocLargeReusesStep DEF Pool!Next
<1>3. ASSUME NEW r \in Requests, PallocLargeRecords(r.size)
      PROVE  IInv' /\ [Pool!Next]_Users
  BY <1>0, <1>3, PallocLargeRecordsStep DEF Pool!Next
<1>4. CASE UNCHANGED vars
  BY <1>4, IInvStays
<1>5. ASSUME NEW r \in Requests, PallocFails(r.size, r.aligned)
      PROVE  UNCHANGED vars
  BY <1>5 DEF PallocFails
<1>6. ASSUME NEW c \in Callers, Pfree(c) PROVE IInv' /\ [Pool!Next]_Users
  BY <1>6, PfreeStep DEF Pool!Next
<1>7. CASE CreatePool
  BY <1>7, CreatePoolStep
<1>8. CASE ResetPool
  BY <1>8, ResetPoolStep DEF Pool!Next
<1>9. CASE DestroyPool
  BY <1>9, DestroyPoolStep DEF Pool!Next
<1>. QED  BY <1>1, <1>2, <1>3, <1>4, <1>5, <1>6, <1>7, <1>8, <1>9 DEF Next

LEMMA IInvHolds == Spec => []IInv
<1>1. Init => IInv
  BY InitIInv
<1>2. IInv /\ [Next]_vars => IInv'
  BY NamesAssumption, Step
<1>. QED  BY <1>1, <1>2, PTL DEF Spec

\* The pool's variables keep their types; no block's d.last ever passes its end.
THEOREM TypeCorrect == Spec => []TypeOK
<1>1. IInv => TypeOK
  BY DEF IInv, Placed
<1>. QED  BY <1>1, IInvHolds, PTL

\* sre_palloc hands out memory of a block behind its header and before its d.last, or
\* memory that malloc has given and nobody has freed.
THEOREM PiecesAreContained == Spec => []Contained
<1>1. IInv => Contained
  BY DEF IInv
<1>. QED  BY <1>1, IInvHolds, PTL

\* The list of large pieces has all that malloc has given, each once, so that
\* sre_reset_pool and sre_destroy_pool free it all and nothing twice.
THEOREM MallocsAreRecorded == Spec => []AllRecorded
<1>1. IInv => AllRecorded
  BY DEF IInv
<1>. QED  BY <1>1, IInvHolds, PTL

\* Searches begin behind no block that they have not passed over too often, whatever
\* sre_reset_pool does in between.
THEOREM OnlyTiredBlocksAreSkipped == Spec => []OnlyTiredAreSkipped
<1>1. IInv => OnlyTiredAreSkipped
  BY DEF IInv, Placed
<1>. QED  BY <1>1, IInvHolds, PTL

\* The pool does what Allocator promises: memory in use is never handed out again.
THEOREM PoolKeepsPromise == Spec => Promise
<1>1. Init => IInv /\ Pool!Init
  <2>1. Init => Users = {}
    BY DEF Init, Users, Nobody
  <2>. QED  BY <2>1, InitIInv DEF Pool!Init
<1>2. IInv /\ [Next]_vars => IInv' /\ [Pool!Next]_Users
  BY NamesAssumption, Step
<1>. QED  BY <1>1, <1>2, PTL DEF Spec, Promise, Pool!Spec
=============================================================================
