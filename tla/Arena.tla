------------------------------- MODULE Arena -------------------------------
(***************************************************************************)
(* stl::linear_arena and fixed_block_pool (stl/arena.h), linear_allocator  *)
(* and pool_allocator (stl/allocator.h), stack_arena and stack_allocator   *)
(* (stl/stack_allocator.h).  Containers with different element types share *)
(* one linear_arena, each through its own allocator: a linear_allocator    *)
(* takes everything from the arena; a pool_allocator takes arrays from it   *)
(* and single elements from a free list carved out of it.  Others share a  *)
(* stack_arena.  Addresses are numbers; a block is where it starts and how *)
(* many elements it has.  Sizes in bytes are size_t, so a request can wrap *)
(* around; so can the address it would end at.  An arena is reset only     *)
(* together with its allocators.                                           *)
(***************************************************************************)
EXTENDS Integers, Sequences, FiniteSets

CONSTANTS Allocators,
          Linear,              \* the linear_allocators
          Stacked,             \* the stack_allocators; the others are pool_allocators
          SizeOf, AlignOf,     \* of each allocator's T
          NodeSize, NodeAlign, \* of node
          PoolSize, PoolAlign, \* of fixed_block_pool
          MaxAlign,            \* alignof(std::max_align_t)
          PerChunk,            \* blocks_per_chunk
          Begin, End,          \* the arena's memory
          Buf, N,              \* the stack_arena's buffer and its size
          Counts,              \* array lengths asked for
          SizeMod              \* how many values a size_t has

ASSUME ArenaAssumption ==
  /\ Begin \in Nat /\ End \in Nat /\ Begin <= End
  /\ Buf \in Nat /\ N \in Nat \ {0} /\ End <= Buf /\ Buf % MaxAlign = 0
  /\ Linear \subseteq Allocators /\ Stacked \subseteq Allocators \ Linear
  /\ SizeOf \in [Allocators -> Nat \ {0}] /\ AlignOf \in [Allocators -> Nat \ {0}]
  /\ \A a \in Allocators : SizeOf[a] % AlignOf[a] = 0
  /\ NodeSize \in Nat \ {0} /\ NodeAlign \in Nat \ {0} /\ MaxAlign % NodeAlign = 0 /\ PoolSize \in Nat \ {0} /\ PerChunk \in Nat \ {0}
  /\ PoolAlign \in Nat \ {0} /\ MaxAlign \in Nat \ {0} /\ Counts \subseteq Nat \ {0}
  /\ \A a \in Allocators : NodeSize % AlignOf[a] = 0 \/ SizeOf[a] >= NodeSize

\* Types, chunks and alignments are small beside the address space.
ASSUME AddressAssumption ==
  /\ SizeMod \in Nat \ {0} /\ End + PoolAlign + PoolSize <= SizeMod
  /\ End + MaxAlign + NodeSize * PerChunk <= SizeMod
  /\ \A a \in Allocators : /\ End + MaxAlign + SizeOf[a] * PerChunk <= SizeMod
                          /\ End + AlignOf[a] <= SizeMod /\ Buf + N + AlignOf[a] <= SizeMod

VARIABLES cur,     \* the arena's cursor
          s_cur,   \* the stack_arena's cursor
          pool,    \* each allocator's pool object: where it lives, or None
          free,    \* each pool's free list, first block first
          live,    \* blocks handed out and not given back
          carved,  \* history: blocks add_chunk made for each pool
          wrapped  \* history: a request larger than the address space was served

arenaVars == <<cur, s_cur, pool, free, live, carved, wrapped>>

None == End + 1
Pooled == Allocators \ (Linear \cup Stacked)
Block(a, at, n) == [a |-> a, at |-> at, n |-> n]

ArenaInit ==
  /\ cur = Begin /\ s_cur = Buf
  /\ pool = [a \in Allocators |-> None]
  /\ free = [a \in Allocators |-> <<>>]
  /\ live = {}
  /\ carved = [a \in Allocators |-> {}]
  /\ wrapped = FALSE

\* align_up (arena.h 10-14).
align_up(x, a) == ((x + a - 1) \div a) * a

\* linear_arena::allocate from cursor c (arena.h 44-56): where it would end.
EndOf(c, bytes, align) == (align_up(c, align) + bytes) % SizeMod
Fits(c, bytes, align) == EndOf(c, bytes, align) <= End

blk_size(a) == IF SizeOf[a] < NodeSize THEN NodeSize ELSE SizeOf[a]

\* ensure_pool (allocator.h 109-116): the cursor after it.
PoolAt == align_up(cur, PoolAlign)
AfterPool(a) == IF pool[a] = None THEN PoolAt + PoolSize ELSE cur

\* add_chunk (arena.h 115-129): the last block carved comes first.
ChunkAt(a) == align_up(AfterPool(a), MaxAlign)
ChunkOfTight(a) == [i \in 1 .. PerChunk |-> ChunkAt(a) + (PerChunk - i) * SizeOf[a]]
ChunkOf(a) == [i \in 1 .. PerChunk |-> ChunkAt(a) + (PerChunk - i) * blk_size(a)]

\* pool_allocator::allocate(1) (allocator.h 74-78, arena.h 93-99).
AllocateOneFromList(a) ==
  /\ free[a] # <<>>
  /\ live' = live \cup {Block(a, Head(free[a]), 1)}
  /\ free' = [free EXCEPT ![a] = Tail(@)]
  /\ UNCHANGED <<cur, s_cur, pool, carved, wrapped>>

AllocateOneFromChunk(a) ==
  /\ free[a] = <<>>
  /\ pool[a] = None => Fits(cur, PoolSize, PoolAlign)
  /\ Fits(AfterPool(a), blk_size(a) * PerChunk, MaxAlign)
  /\ pool' = [pool EXCEPT ![a] = IF @ = None THEN PoolAt ELSE @]
  /\ cur' = ChunkAt(a) + blk_size(a) * PerChunk
  /\ carved' = [carved EXCEPT ![a] = @ \cup {ChunkOf(a)[i] : i \in 1 .. PerChunk}]
  /\ live' = live \cup {Block(a, Head(ChunkOf(a)), 1)}
  /\ free' = [free EXCEPT ![a] = Tail(ChunkOf(a))]
  /\ UNCHANGED <<s_cur, wrapped>>

\* The pool or the chunk does not fit; a pool made on the way stays.
AllocateOneThrows(a) ==
  /\ free[a] = <<>>
  /\ LET made == pool[a] = None /\ Fits(cur, PoolSize, PoolAlign) IN
     /\ \/ pool[a] = None /\ ~made
        \/ ~Fits(AfterPool(a), blk_size(a) * PerChunk, MaxAlign)
     /\ pool' = IF made THEN [pool EXCEPT ![a] = PoolAt] ELSE pool
     /\ cur' = IF made THEN AfterPool(a) ELSE cur
  /\ UNCHANGED <<s_cur, free, live, carved, wrapped>>

\* n * sizeof(T) as a size_t, and whether the request is really larger than the
\* address space has room for.
ByteCount(a, n) == (n * SizeOf[a]) % SizeMod
Wraps(c, a, n) == align_up(c, AlignOf[a]) + n * SizeOf[a] >= SizeMod

\* n elements straight from the arena; one that does not fit throws and changes
\* nothing.
FromArena(a, n) ==
  /\ Fits(cur, ByteCount(a, n), AlignOf[a])
  /\ cur' = EndOf(cur, ByteCount(a, n), AlignOf[a])
  /\ live' = live \cup {Block(a, align_up(cur, AlignOf[a]), n)}
  /\ wrapped' = (wrapped \/ Wraps(cur, a, n))
  /\ UNCHANGED <<s_cur, pool, free, carved>>

\* pool_allocator::allocate(n) for n other than 1 (allocator.h 79-82), which
\* multiplies without a check.
AllocateMany(a, n) == a \in Pooled /\ n # 1 /\ FromArena(a, n)

\* linear_allocator::allocate (allocator.h 28-36), which checks first.
AllocateLinear(a, n) ==
  a \in Linear /\ n <= (SizeMod - 1) \div SizeOf[a] /\ FromArena(a, n)

\* stack_arena::allocate (stack_allocator.h 24-30) and stack_allocator::allocate
\* (66-72), which throws when the buffer is too small.
StackFits(bytes, align) == EndOf(s_cur, bytes, align) <= Buf + N
AllocateStack(a, n) ==
  /\ a \in Stacked
  /\ StackFits(ByteCount(a, n), AlignOf[a])
  /\ s_cur' = EndOf(s_cur, ByteCount(a, n), AlignOf[a])
  /\ live' = live \cup {Block(a, align_up(s_cur, AlignOf[a]), n)}
  /\ wrapped' = (wrapped \/ Wraps(s_cur, a, n))
  /\ UNCHANGED <<cur, pool, free, carved>>

\* A single element of a pool_allocator goes back to its free list (allocator.h
\* 85-92, arena.h 101-107); the other deallocate functions do nothing.
Returned(a, b) ==
  IF a \in Pooled /\ b.n = 1 THEN [free EXCEPT ![a] = <<b.at>> \o @] ELSE free
Deallocate(b) ==
  /\ b \in live
  /\ live' = live \ {b}
  /\ free' = Returned(b.a, b)
  /\ UNCHANGED <<cur, s_cur, pool, carved, wrapped>>

\* reset (arena.h 60), once nothing allocated from it is used any more.
Reset ==
  /\ \A b \in live : b.a \in Stacked
  /\ cur' = Begin
  /\ pool' = [a \in Allocators |-> None]
  /\ free' = [a \in Allocators |-> <<>>]
  /\ carved' = [a \in Allocators |-> {}]
  /\ UNCHANGED <<s_cur, live, wrapped>>

\* stack_arena::reset (stack_allocator.h 34), likewise.
ResetStack ==
  /\ \A b \in live : b.a \notin Stacked
  /\ s_cur' = Buf
  /\ UNCHANGED <<cur, pool, free, live, carved, wrapped>>

ArenaNext ==
  \/ \E a \in Pooled :
       \/ AllocateOneFromList(a) \/ AllocateOneFromChunk(a) \/ AllocateOneThrows(a)
  \/ \E a \in Allocators, n \in Counts :
       AllocateMany(a, n) \/ AllocateLinear(a, n) \/ AllocateStack(a, n)
  \/ \E b \in live : Deallocate(b)
  \/ Reset
  \/ ResetStack

ArenaSpec == ArenaInit /\ [][ArenaNext]_arenaVars
-----------------------------------------------------------------------------
\* The cursors stay inside the memory they were given (44-48).
ArenaTypeOK ==
  /\ cur \in Begin .. End /\ s_cur \in Buf .. Buf + N
  /\ pool \in [Allocators -> Begin .. None]
  /\ \A a \in Allocators : \A i \in DOMAIN free[a] : free[a][i] \in carved[a]

\* Every piece of memory with an owner: blocks in use, free blocks, pool objects.
FreeBlocks(a) == {free[a][i] : i \in DOMAIN free[a]}
Piece(kind, a, n, at, size) == [kind |-> kind, a |-> a, n |-> n, at |-> at, size |-> size]
LiveSize(b) == IF b.a \in Pooled /\ b.n = 1 THEN blk_size(b.a) ELSE b.n * SizeOf[b.a]
LivePieces == {Piece("live", b.a, b.n, b.at, LiveSize(b)) : b \in live}
FreePieces == UNION {{Piece("free", a, 1, at, blk_size(a)) : at \in FreeBlocks(a)} : a \in Allocators}
PoolPieces == {Piece("pool", a, 1, pool[a], PoolSize) : a \in {x \in Allocators : pool[x] # None}}
Pieces == LivePieces \cup FreePieces \cup PoolPieces
Disjoint(p, q) == p.at + p.size <= q.at \/ q.at + q.size <= p.at

\* A pool's blocks in use.
Lent(a) == {b.at : b \in {x \in live : x.a = a /\ x.n = 1}}

\* No byte has two owners: neither two containers, nor a container and a free
\* list, nor either and a pool object living in the same arena.  All of it lies
\* between the start of its arena and the cursor (44-56, 93-129).  Blocks in use are
\* aligned for T, also the later ones of a chunk (87, 117-125), except single
\* elements of an over-aligned T: a chunk is aligned for max_align_t only.  The
\* nodes of a free list are aligned if the size of a block allows it (122).  A pool
\* loses no block and hands none out twice: each carved block is either in use or
\* in the free list, once (93-107).  All this until an array is asked for whose
\* size or end wraps around (45-46, allocator.h 79, stack_allocator.h 68).
BlocksAreSound ==
  wrapped \/
    /\ ArenaTypeOK
    /\ \A p \in Pieces :
         IF p.a \in Stacked THEN p.at >= Buf /\ p.at + p.size <= s_cur
                            ELSE p.at >= Begin /\ p.at + p.size <= cur
    /\ \A p, q \in Pieces : p # q => Disjoint(p, q)
    /\ \A b \in live :
         \/ b.at % AlignOf[b.a] = 0
         \/ b.a \in Pooled /\ b.n = 1 /\ MaxAlign % AlignOf[b.a] # 0
    /\ \A a \in Pooled :
         /\ blk_size(a) % NodeAlign = 0 => \A x \in carved[a] : x % NodeAlign = 0
         /\ \A i, j \in DOMAIN free[a] : free[a][i] = free[a][j] => i = j
         /\ FreeBlocks(a) \cap Lent(a) = {}
         /\ FreeBlocks(a) \cup Lent(a) = carved[a]
=============================================================================
