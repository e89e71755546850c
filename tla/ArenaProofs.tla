---------------------------- MODULE ArenaProofs ----------------------------
(***************************************************************************)
(* The arenas and their allocators: BlocksAreSound for every arena and any *)
(* element sizes and alignments, over-aligned ones included.  It is not    *)
(* inductive as it stands: blocks are aligned when they are carved, not    *)
(* when they are lent, so ArenaInv says it of the carved ones.  ArenaInv   *)
(* holds as long as no request wrapped.                                    *)
(***************************************************************************)
EXTENDS Arena, ListsProofs

\* Most leaves are first-order; those that need arithmetic or records say SMT.
USE Zenon

\* A number is a multiple of d exactly if d times something is that number.
LEMMA MultipleIs ==
  ASSUME NEW x \in Nat, NEW d \in Nat \ {0}
  PROVE  x % d = 0 <=> \E u \in Nat : x = d * u
<1>1. x = d * (x \div d) + (x % d) /\ x \div d \in Nat /\ x % d \in 0 .. d - 1
  BY SMT
<1>2. ASSUME x % d = 0
      PROVE  \E u \in Nat : x = d * u
  <2>1. x = d * (x \div d)
    BY <1>1, <1>2, SMT
  <2> QED  BY <1>1, <2>1
<1>3. ASSUME NEW u \in Nat, x = d * u
      PROVE  x % d = 0
  <2>1. PICK v \in Nat : v = x \div d
    BY <1>1
  <2>2. PICK r \in 0 .. d - 1 : r = x % d
    BY <1>1
  <2>3. d * u = d * v + r
    BY <1>1, <1>3, <2>1, <2>2
  <2>4. d * (u - v) = r
    BY <2>3, SMT
  <2>5. u - v >= 1 => d * (u - v) >= d
    BY SMT
  <2>6. u - v <= 0 - 1 => d * (u - v) <= 0 - d
    BY SMT
  <2>7. u - v = 0
    BY <2>4, <2>5, <2>6, SMT
  <2> QED  BY <2>2, <2>4, <2>7, SMT
<1> QED  BY <1>2, <1>3

\* The sum of two multiples.
LEMMA MultiplesAdd ==
  ASSUME NEW x \in Nat, NEW y \in Nat, NEW d \in Nat \ {0}, x % d = 0, y % d = 0
  PROVE  (x + y) % d = 0
<1>1. PICK u \in Nat : x = d * u
  BY MultipleIs
<1>2. PICK v \in Nat : y = d * v
  BY MultipleIs
<1>3. x + y = d * (u + v) /\ u + v \in Nat /\ x + y \in Nat
  BY <1>1, <1>2, SMT
<1> QED  BY <1>3, MultipleIs

\* A multiple of a multiple.
LEMMA MultiplesScale ==
  ASSUME NEW k \in Nat, NEW y \in Nat, NEW d \in Nat \ {0}, y % d = 0
  PROVE  (k * y) % d = 0 /\ k * y \in Nat
<1>1. PICK v \in Nat : y = d * v
  BY MultipleIs
<1>2. k * y = d * (k * v) /\ k * v \in Nat /\ k * y \in Nat
  BY <1>1, SMT
<1> QED  BY <1>2, MultipleIs

\* Alignment for max_align_t is alignment for T (arena.h 117).
LEMMA MultiplesChain ==
  ASSUME NEW x \in Nat, NEW m \in Nat \ {0}, NEW d \in Nat \ {0}, x % m = 0, m % d = 0
  PROVE  x % d = 0
<1>1. PICK u \in Nat : x = m * u
  BY MultipleIs
<1>2. (u * m) % d = 0
  BY MultiplesScale
<1>3. x = u * m
  BY <1>1, SMT
<1> QED  BY <1>2, <1>3

\* align_up returns the next multiple (arena.h 10-14).
LEMMA AlignFacts ==
  ASSUME NEW x \in Nat, NEW d \in Nat \ {0}
  PROVE  /\ align_up(x, d) \in Nat /\ align_up(x, d) >= x /\ align_up(x, d) < x + d
         /\ align_up(x, d) % d = 0
<1>1. PICK q \in Nat : q = (x + d - 1) \div d
  BY SMT
<1>2. x + d - 1 = d * q + ((x + d - 1) % d) /\ (x + d - 1) % d \in 0 .. d - 1
  BY <1>1, SMT
<1>3. align_up(x, d) = d * q
  BY <1>1, SMT DEF align_up
<1>4. d * q \in Nat /\ d * q >= x /\ d * q < x + d
  BY <1>2, SMT
<1> QED  BY <1>3, <1>4, MultipleIs

\* Reducing a number below the modulus changes nothing.
LEMMA SmallMod ==
  ASSUME NEW x \in Nat, NEW d \in Nat \ {0}, x < d
  PROVE  x % d = x
<1>1. PICK q \in Nat : q = x \div d
  BY SMT
<1>2. PICK u \in 0 .. d - 1 : u = x % d
  BY SMT
<1>3. x = d * q + u
  BY <1>1, <1>2, SMT
<1>4. q >= 1 => d * q >= d
  BY SMT
<1>5. q = 0
  BY <1>3, <1>4, SMT
<1>6. d * q = 0
  BY <1>5, SMT
<1> QED  BY <1>2, <1>3, <1>6, SMT

\* The blocks of a chunk follow each other (arena.h 119-128).
LEMMA ChunkSteps ==
  ASSUME NEW z \in Nat, NEW m \in Nat, NEW i \in 1 .. m, NEW j \in 1 .. m
  PROVE  /\ (m - i) * z \in Nat /\ (m - i) * z + z <= z * m
         /\ i < j => (m - j) * z + z <= (m - i) * z
<1>1. m - i \in Nat /\ m - i <= m - 1 /\ m - j \in Nat
  BY SMT
<1>2. (m - i) * z \in Nat
  BY <1>1, SMT
<1>3. (m - i) * z + z = (m - i + 1) * z /\ z * m = m * z
  BY <1>1, SMT
<1>4. \A k, l \in Nat : k <= l => k * z <= l * z
  BY SMT
<1>5. (m - i + 1) * z <= m * z
  BY <1>1, <1>4, SMT
<1>6. ASSUME i < j
      PROVE  (m - j) * z + z <= (m - i) * z
  <2>1. (m - j) * z + z = (m - j + 1) * z /\ m - j + 1 \in Nat /\ m - j + 1 <= m - i
    BY <1>1, <1>6, SMT
  <2> QED  BY <1>1, <1>4, <2>1, SMT
<1> QED  BY <1>2, <1>3, <1>5, <1>6, SMT
-----------------------------------------------------------------------------
\* What the constants are.
LEMMA ArenaConstants ==
  /\ Begin \in Nat /\ End \in Nat /\ Begin <= End /\ Buf \in Nat /\ N \in Nat /\ End <= Buf
  /\ Stacked \cap Linear = {} /\ Pooled \subseteq Allocators /\ Pooled \cap (Linear \cup Stacked) = {}
  /\ PoolSize \in Nat \ {0} /\ PerChunk \in Nat \ {0} /\ PoolAlign \in Nat \ {0} /\ MaxAlign \in Nat \ {0}
  /\ SizeMod \in Nat \ {0} /\ NodeAlign \in Nat \ {0} /\ MaxAlign % NodeAlign = 0
  /\ End + PoolAlign + PoolSize <= SizeMod
  /\ \A a \in Allocators :
       /\ SizeOf[a] \in Nat \ {0} /\ AlignOf[a] \in Nat \ {0} /\ blk_size(a) \in Nat \ {0}
       /\ blk_size(a) % AlignOf[a] = 0 /\ End + MaxAlign + blk_size(a) * PerChunk <= SizeMod
<1>1. /\ Stacked \cap Linear = {} /\ Pooled \subseteq Allocators
      /\ Pooled \cap (Linear \cup Stacked) = {}
  BY ArenaAssumption DEF ArenaAssumption, Pooled
<1>2. ASSUME NEW a \in Allocators
      PROVE  /\ SizeOf[a] \in Nat \ {0} /\ AlignOf[a] \in Nat \ {0} /\ blk_size(a) \in Nat \ {0}
             /\ blk_size(a) % AlignOf[a] = 0 /\ End + MaxAlign + blk_size(a) * PerChunk <= SizeMod
  <2>1. /\ SizeOf[a] \in Nat \ {0} /\ AlignOf[a] \in Nat \ {0} /\ NodeSize \in Nat \ {0}
        /\ SizeOf[a] % AlignOf[a] = 0
        /\ NodeSize % AlignOf[a] = 0 \/ SizeOf[a] >= NodeSize
    BY ArenaAssumption DEF ArenaAssumption
  <2>2. /\ End + MaxAlign + NodeSize * PerChunk <= SizeMod
        /\ End + MaxAlign + SizeOf[a] * PerChunk <= SizeMod
    BY AddressAssumption DEF AddressAssumption
  <2>3. CASE SizeOf[a] < NodeSize
    <3>1. blk_size(a) = NodeSize
      BY <2>3 DEF blk_size
    <3>2. NodeSize % AlignOf[a] = 0
      BY <2>1, <2>3, SMT
    <3> QED  BY <2>1, <2>2, <3>1, <3>2
  <2>4. CASE ~(SizeOf[a] < NodeSize)
    BY <2>1, <2>2, <2>4 DEF blk_size
  <2> QED  BY <2>1, <2>3, <2>4
<1>3. /\ Begin \in Nat /\ End \in Nat /\ Begin <= End /\ Buf \in Nat /\ N \in Nat /\ End <= Buf
      /\ PoolSize \in Nat \ {0} /\ PerChunk \in Nat \ {0} /\ PoolAlign \in Nat \ {0} /\ MaxAlign \in Nat \ {0}
      /\ NodeAlign \in Nat \ {0} /\ MaxAlign % NodeAlign = 0
  BY ArenaAssumption DEF ArenaAssumption
<1>4. SizeMod \in Nat \ {0} /\ End + PoolAlign + PoolSize <= SizeMod
  BY AddressAssumption DEF AddressAssumption
<1> QED  BY <1>1, <1>2, <1>3, <1>4

\* The end of a pool object or a chunk is not beyond the address space (arena.h
\* 117, allocator.h 112).
LEMMA EndIs ==
  ASSUME NEW c \in Nat, c <= End, NEW bytes \in Nat, NEW d \in Nat \ {0}, End + d + bytes <= SizeMod
  PROVE  EndOf(c, bytes, d) = align_up(c, d) + bytes
<1>1. PICK x \in Nat : x = align_up(c, d) /\ x < c + d
  BY AlignFacts
<1>2. End \in Nat /\ SizeMod \in Nat \ {0}
  BY ArenaConstants
<1>3. x + bytes \in Nat /\ x + bytes < SizeMod
  BY <1>1, <1>2, SMT
<1>4. (x + bytes) % SizeMod = x + bytes
  BY <1>2, <1>3, SmallMod
<1> QED  BY <1>1, <1>4 DEF EndOf

\* Neither is that of an array, unless the request wraps (arena.h 45-48).
LEMMA ArrayEndIs ==
  ASSUME NEW c \in Nat, NEW a \in Allocators, NEW n \in Nat, ~Wraps(c, a, n)
  PROVE  EndOf(c, ByteCount(a, n), AlignOf[a]) = align_up(c, AlignOf[a]) + n * SizeOf[a]
<1>1. SizeOf[a] \in Nat \ {0} /\ AlignOf[a] \in Nat \ {0} /\ SizeMod \in Nat \ {0}
  BY ArenaConstants
<1>2. PICK x \in Nat : x = align_up(c, AlignOf[a])
  BY <1>1, AlignFacts
<1>3. PICK m \in Nat : m = n * SizeOf[a]
  BY <1>1, SMT
<1>4. ~(x + m >= SizeMod)
  BY <1>2, <1>3 DEF Wraps
<1>5. x + m \in Nat /\ x + m < SizeMod /\ m < SizeMod
  BY <1>1, <1>4, SMT
<1>6. m % SizeMod = m /\ (x + m) % SizeMod = x + m
  BY <1>1, <1>5, SmallMod
<1> QED  BY <1>2, <1>3, <1>6 DEF EndOf, ByteCount

PieceSet == [kind : {"live", "free", "pool"}, a : Allocators, n : Nat, at : Nat, size : Nat]
BlockSet == [a : Allocators, at : Nat, n : Nat \ {0}]

LivePiece(b) == Piece("live", b.a, b.n, b.at, LiveSize(b))
FreePiece(a, at) == Piece("free", a, 1, at, blk_size(a))
PoolPiece(a, at) == Piece("pool", a, 1, at, PoolSize)

\* Pieces, of any blocks in use, free lists and pool objects.
LivePiecesOf(lv) == {LivePiece(b) : b \in lv}
FreePiecesOf(fr) == UNION {{FreePiece(a, at) : at \in ToSet(fr[a])} : a \in Allocators}
PoolPiecesOf(pl) == {PoolPiece(a, pl[a]) : a \in {x \in Allocators : pl[x] # None}}
PiecesOf(lv, fr, pl) == LivePiecesOf(lv) \cup FreePiecesOf(fr) \cup PoolPiecesOf(pl)

\* Each piece is in its own arena, below the cursor; no two overlap.
Within(Q, c, sc) ==
  \A p \in Q : IF p.a \in Stacked THEN p.at >= Buf /\ p.at + p.size <= sc
                                 ELSE p.at >= Begin /\ p.at + p.size <= c
Apart(Q) == \A p, q \in Q : p # q => Disjoint(p, q)

ArenaTypes ==
  /\ cur \in Nat /\ Begin <= cur /\ cur <= End
  /\ s_cur \in Nat /\ Buf <= s_cur /\ s_cur <= Buf + N
  /\ pool \in [Allocators -> Nat]
  /\ \A a \in Allocators : pool[a] # None => Begin <= pool[a] /\ pool[a] <= End
  /\ free \in [Allocators -> Seq(Nat)] /\ carved \in [Allocators -> SUBSET Nat]
  /\ live \subseteq BlockSet
  /\ \A a \in Allocators \ Pooled : free[a] = <<>> /\ pool[a] = None /\ carved[a] = {}

\* A pool's free list and what it lent: no block is lost, none is there twice.
LentOf(lv, a) == {b.at : b \in {x \in lv : x.a = a /\ x.n = 1}}
ListInv ==
  \A a \in Pooled :
    /\ OnceEach(free[a]) /\ ToSet(free[a]) \cap LentOf(live, a) = {}
    /\ ToSet(free[a]) \cup LentOf(live, a) = carved[a]

\* Blocks are aligned when they are carved, not only when they are lent.
Aligned(a, n, at) == at % AlignOf[a] = 0 \/ (a \in Pooled /\ n = 1 /\ MaxAlign % AlignOf[a] # 0)
AlignedInv ==
  /\ \A b \in live : Aligned(b.a, b.n, b.at)
  /\ \A a \in Pooled : \A x \in carved[a] : Aligned(a, 1, x)
  /\ \A a \in Pooled : blk_size(a) % NodeAlign = 0 => \A x \in carved[a] : x % NodeAlign = 0

ArenaInv ==
  /\ ArenaTypes /\ ListInv /\ AlignedInv
  /\ Within(PiecesOf(live, free, pool), cur, s_cur) /\ Apart(PiecesOf(live, free, pool))

\* What is in PiecesOf.
LEMMA PieceIs ==
  ASSUME NEW lv, NEW fr, NEW pl, NEW p
  PROVE  p \in PiecesOf(lv, fr, pl) <=>
           \/ \E b \in lv : p = LivePiece(b)
           \/ \E a \in Allocators : \E at \in ToSet(fr[a]) : p = FreePiece(a, at)
           \/ \E a \in Allocators : pl[a] # None /\ p = PoolPiece(a, pl[a])
<1>1. p \in LivePiecesOf(lv) <=> \E b \in lv : p = LivePiece(b)
  BY DEF LivePiecesOf
<1>2. p \in FreePiecesOf(fr)
        <=> \E a \in Allocators : \E at \in ToSet(fr[a]) : p = FreePiece(a, at)
  <2>1. ASSUME NEW a \in Allocators, NEW at \in ToSet(fr[a]), p = FreePiece(a, at)
        PROVE  p \in UNION {{FreePiece(g, x) : x \in ToSet(fr[g])} : g \in Allocators}
    <3>1. p \in {FreePiece(a, x) : x \in ToSet(fr[a])}
      BY <2>1
    <3>2. {FreePiece(a, x) : x \in ToSet(fr[a])} \in {{FreePiece(g, x) : x \in ToSet(fr[g])} : g \in Allocators}
      OBVIOUS
    <3> QED  BY <3>1, <3>2
  <2>2. ASSUME NEW Q \in {{FreePiece(a, at) : at \in ToSet(fr[a])} : a \in Allocators}, p \in Q
        PROVE  \E a \in Allocators : \E at \in ToSet(fr[a]) : p = FreePiece(a, at)
    BY <2>2
  <2> QED  BY <2>1, <2>2 DEF FreePiecesOf
<1>3. p \in PoolPiecesOf(pl)
        <=> \E a \in Allocators : pl[a] # None /\ p = PoolPiece(a, pl[a])
  BY DEF PoolPiecesOf
<1> QED  BY <1>1, <1>2, <1>3 DEF PiecesOf

\* The size of a block in use (arena.h 87, allocator.h 79-82).
LEMMA BlockFacts ==
  ASSUME NEW b \in BlockSet
  PROVE  LiveSize(b) \in Nat \ {0} /\ b.a \in Allocators /\ b.n \in Nat \ {0} /\ b.at \in Nat
<1>1. b.a \in Allocators /\ b.n \in Nat \ {0} /\ b.at \in Nat
  BY SMT DEF BlockSet
<1>2. SizeOf[b.a] \in Nat \ {0} /\ blk_size(b.a) \in Nat \ {0}
  BY <1>1, ArenaConstants
<1>3. \A x, y \in Nat \ {0} : x * y \in Nat \ {0}
  BY SMT
<1>4. b.n * SizeOf[b.a] \in Nat \ {0}
  BY <1>1, <1>2, <1>3
<1> QED  BY <1>1, <1>2, <1>4 DEF LiveSize

\* The piece of a block in use, of a free block and of a pool object.
LEMMA LivePieceIs ==
  ASSUME NEW b \in BlockSet
  PROVE  /\ LivePiece(b) \in PieceSet
         /\ LivePiece(b).kind = "live" /\ LivePiece(b).a = b.a /\ LivePiece(b).n = b.n
         /\ LivePiece(b).at = b.at /\ LivePiece(b).size = LiveSize(b)
  BY BlockFacts, SMT DEF LivePiece, Piece, PieceSet

\* The same for a free block (arena.h 93-107).
LEMMA FreePieceIs ==
  ASSUME NEW a \in Allocators, NEW at \in Nat
  PROVE  /\ FreePiece(a, at) \in PieceSet /\ FreePiece(a, at).kind = "free"
         /\ FreePiece(a, at).a = a /\ FreePiece(a, at).at = at /\ FreePiece(a, at).size = blk_size(a)
<1>1. blk_size(a) \in Nat
  BY ArenaConstants
<1> QED  BY <1>1, SMT DEF FreePiece, Piece, PieceSet

\* The same for a pool object (allocator.h 109-116).
LEMMA PoolPieceIs ==
  ASSUME NEW a \in Allocators, NEW at \in Nat
  PROVE  /\ PoolPiece(a, at) \in PieceSet /\ PoolPiece(a, at).kind = "pool"
         /\ PoolPiece(a, at).a = a /\ PoolPiece(a, at).at = at /\ PoolPiece(a, at).size = PoolSize
<1>1. PoolSize \in Nat
  BY ArenaConstants
<1> QED  BY <1>1, SMT DEF PoolPiece, Piece, PieceSet

\* The pieces of a state.
LEMMA PiecesTyped ==
  ASSUME NEW lv \in SUBSET BlockSet, NEW fr \in [Allocators -> Seq(Nat)], NEW pl \in [Allocators -> Nat]
  PROVE  PiecesOf(lv, fr, pl) \subseteq PieceSet
<1>1. \A a \in Allocators : ToSet(fr[a]) \subseteq Nat
  <2>1. ASSUME NEW a \in Allocators
        PROVE  ToSet(fr[a]) \subseteq Nat
    <3>1. fr[a] \in Seq(Nat)
      OBVIOUS
    <3> QED  BY <3>1, SeqFacts
  <2> QED  BY <2>1
<1>2. \A a \in Allocators : pl[a] \in Nat
  OBVIOUS
<1>3. ASSUME NEW p \in PiecesOf(lv, fr, pl)
      PROVE  p \in PieceSet
  <2>1. ASSUME NEW b \in lv, p = LivePiece(b)
        PROVE  p \in PieceSet
    BY <2>1, LivePieceIs
  <2>2. ASSUME NEW a \in Allocators, NEW at \in ToSet(fr[a]), p = FreePiece(a, at)
        PROVE  p \in PieceSet
    BY <1>1, <2>2, FreePieceIs
  <2>3. ASSUME NEW a \in Allocators, pl[a] # None, p = PoolPiece(a, pl[a])
        PROVE  p \in PieceSet
    BY <1>2, <2>3, PoolPieceIs
  <2>4. \/ \E b \in lv : p = LivePiece(b)
        \/ \E a \in Allocators : \E at \in ToSet(fr[a]) : p = FreePiece(a, at)
        \/ \E a \in Allocators : pl[a] # None /\ p = PoolPiece(a, pl[a])
    BY PieceIs, SMT
  <2> QED  BY <2>1, <2>2, <2>3, <2>4
<1> QED  BY <1>3

\* Pieces of a later state, when what was added to each part is in X.
Added(lv, fr, pl, lv2, fr2, pl2, X) ==
  /\ \A b \in lv2 : b \in lv \/ LivePiece(b) \in X
  /\ \A a \in Allocators : \A at \in ToSet(fr2[a]) : at \in ToSet(fr[a]) \/ FreePiece(a, at) \in X
  /\ \A a \in Allocators : pl2[a] = None \/ pl2[a] = pl[a] \/ PoolPiece(a, pl2[a]) \in X
Covered(R, Q, X) == R \subseteq Q \cup X
ArePieces(Q) == Q \subseteq PieceSet
TakenFrom(X, c, c2) == \A p \in X : p.a \notin Stacked /\ c <= p.at /\ p.at + p.size <= c2
Pushed(x, sc, sc2) == x \in PieceSet /\ x.a \in Stacked /\ sc <= x.at /\ x.at + x.size <= sc2

\* Nothing else comes to be a piece.
LEMMA AddedPieces ==
  ASSUME NEW lv, NEW fr, NEW pl, NEW lv2, NEW fr2, NEW pl2, NEW X, Added(lv, fr, pl, lv2, fr2, pl2, X)
  PROVE  Covered(PiecesOf(lv2, fr2, pl2), PiecesOf(lv, fr, pl), X)
<1>1. ASSUME NEW p \in PiecesOf(lv2, fr2, pl2)
      PROVE  p \in PiecesOf(lv, fr, pl) \cup X
  <2>0. \/ \E b \in lv2 : p = LivePiece(b)
        \/ \E a \in Allocators : \E at \in ToSet(fr2[a]) : p = FreePiece(a, at)
        \/ \E a \in Allocators : pl2[a] # None /\ p = PoolPiece(a, pl2[a])
    BY PieceIs, SMT
  <2>1. ASSUME NEW b \in lv2, p = LivePiece(b), b \in lv
        PROVE  p \in PiecesOf(lv, fr, pl)
    BY <2>1, PieceIs, SMT
  <2>2. ASSUME NEW a \in Allocators, NEW at \in ToSet(fr2[a]), p = FreePiece(a, at), at \in ToSet(fr[a])
        PROVE  p \in PiecesOf(lv, fr, pl)
    BY <2>2, PieceIs, SMT
  <2>3. ASSUME NEW a \in Allocators, pl2[a] # None, p = PoolPiece(a, pl2[a]), pl2[a] = pl[a]
        PROVE  p \in PiecesOf(lv, fr, pl)
    BY <2>3, PieceIs, SMT
  <2> QED  BY <2>0, <2>1, <2>2, <2>3 DEF Added
<1> QED  BY <1>1 DEF Covered

\* Memory is taken between the arena's old cursor and its new one (arena.h 44-56).
LEMMA GrowKeeps ==
  ASSUME NEW Q, NEW X, NEW R, ArePieces(Q), ArePieces(X), Covered(R, Q, X),
         NEW c \in Nat, NEW c2 \in Nat, NEW sc \in Nat, Begin <= c, c <= c2, c2 <= End,
         Within(Q, c, sc), Apart(Q), Apart(X), TakenFrom(X, c, c2)
  PROVE  Within(R, c2, sc) /\ Apart(R)
<1> USE DEF ArePieces, Covered, TakenFrom
<1>0. \A p \in PieceSet : p.at \in Nat /\ p.size \in Nat
  BY SMT DEF PieceSet
<1>1. Begin \in Nat /\ End \in Nat /\ Buf \in Nat /\ End <= Buf
  BY ArenaConstants
<1>2. ASSUME NEW p \in R
      PROVE  IF p.a \in Stacked THEN p.at >= Buf /\ p.at + p.size <= sc
                                ELSE p.at >= Begin /\ p.at + p.size <= c2
  <2>1. CASE p \in Q
    <3>1. p.at \in Nat /\ p.size \in Nat
      BY <1>0, <2>1
    <3>2. IF p.a \in Stacked THEN p.at >= Buf /\ p.at + p.size <= sc
                             ELSE p.at >= Begin /\ p.at + p.size <= c
      BY <2>1 DEF Within
    <3> QED  BY <1>1, <3>1, <3>2, SMT
  <2>2. CASE p \in X
    <3>1. p.at \in Nat /\ p.size \in Nat /\ p.a \notin Stacked /\ c <= p.at /\ p.at + p.size <= c2
      BY <1>0, <2>2
    <3> QED  BY <1>1, <3>1, SMT
  <2> QED  BY <2>1, <2>2
<1>3. ASSUME NEW p \in Q, NEW q \in X
      PROVE  Disjoint(p, q) /\ Disjoint(q, p)
  <2>1. p.at \in Nat /\ p.size \in Nat /\ q.at \in Nat /\ q.size \in Nat
    BY <1>0
  <2>2. c <= q.at /\ q.at + q.size <= c2
    OBVIOUS
  <2>3. IF p.a \in Stacked THEN p.at >= Buf /\ p.at + p.size <= sc
                           ELSE p.at >= Begin /\ p.at + p.size <= c
    BY DEF Within
  <2> QED  BY <1>1, <2>1, <2>2, <2>3, SMT DEF Disjoint
<1>4. ASSUME NEW p \in R, NEW q \in R, p # q
      PROVE  Disjoint(p, q)
  <2>1. (p \in Q \/ p \in X) /\ (q \in Q \/ q \in X)
    OBVIOUS
  <2> QED  BY <1>3, <1>4, <2>1 DEF Apart
<1> QED  BY <1>2, <1>4 DEF Within, Apart

\* The same in the buffer of a stack_arena (stack_allocator.h 24-30).
LEMMA StackKeeps ==
  ASSUME NEW Q, NEW x, NEW R, ArePieces(Q), Covered(R, Q, {x}),
         NEW c \in Nat, NEW sc \in Nat, NEW sc2 \in Nat, c <= End, Buf <= sc, sc <= sc2, Pushed(x, sc, sc2),
         Within(Q, c, sc), Apart(Q)
  PROVE  Within(R, c, sc2) /\ Apart(R)
<1> USE DEF ArePieces, Covered, Pushed
<1>0. \A p \in PieceSet : p.at \in Nat /\ p.size \in Nat
  BY SMT DEF PieceSet
<1>1. Begin \in Nat /\ End \in Nat /\ Buf \in Nat /\ End <= Buf /\ x.at \in Nat /\ x.size \in Nat
  BY <1>0, ArenaConstants
<1>2. ASSUME NEW p \in Q
      PROVE  /\ IF p.a \in Stacked THEN p.at >= Buf /\ p.at + p.size <= sc2
                                   ELSE p.at >= Begin /\ p.at + p.size <= c
             /\ Disjoint(p, x) /\ Disjoint(x, p)
  <2>1. p.at \in Nat /\ p.size \in Nat
    BY <1>0
  <2>2. IF p.a \in Stacked THEN p.at >= Buf /\ p.at + p.size <= sc
                           ELSE p.at >= Begin /\ p.at + p.size <= c
    BY DEF Within
  <2> QED  BY <1>1, <2>1, <2>2, SMT DEF Disjoint
<1>3. x.at >= Buf /\ x.at + x.size <= sc2
  BY <1>1, SMT
<1>4. ASSUME NEW p \in R
      PROVE  IF p.a \in Stacked THEN p.at >= Buf /\ p.at + p.size <= sc2
                                ELSE p.at >= Begin /\ p.at + p.size <= c
  <2>1. p \in Q \/ p = x
    OBVIOUS
  <2> QED  BY <1>2, <1>3, <2>1
<1>5. ASSUME NEW p \in R, NEW q \in R, p # q
      PROVE  Disjoint(p, q)
  <2>1. (p \in Q \/ p = x) /\ (q \in Q \/ q = x)
    OBVIOUS
  <2> QED  BY <1>2, <1>5, <2>1 DEF Apart
<1> QED  BY <1>4, <1>5 DEF Within, Apart

\* A block changes hands: one piece replaces another of the same extent (arena.h
\* 93-107).
LEMMA SwapKeeps ==
  ASSUME NEW Q, NEW x, NEW y \in Q, NEW R, Covered(R, Q, {x}), y \notin R,
         NEW c, NEW sc, Within(Q, c, sc), Apart(Q), x.a = y.a, x.at = y.at, x.size = y.size
  PROVE  Within(R, c, sc) /\ Apart(R)
<1>1. \A p \in R : p = x \/ (p \in Q /\ p # y)
  BY DEF Covered
<1>2. Within(R, c, sc)
  BY <1>1 DEF Within
<1>3. ASSUME NEW p \in Q, p # y
      PROVE  Disjoint(p, x) /\ Disjoint(x, p)
  <2>1. Disjoint(p, y) /\ Disjoint(y, p)
    BY <1>3 DEF Apart
  <2> QED  BY <2>1 DEF Disjoint
<1>4. ASSUME NEW p \in R, NEW q \in R, p # q
      PROVE  Disjoint(p, q)
  BY <1>1, <1>3, <1>4 DEF Apart
<1> QED  BY <1>2, <1>4 DEF Apart
-----------------------------------------------------------------------------
\* The single elements a pool has lent.
LEMMA LentIs ==
  ASSUME NEW lv, NEW a, NEW x
  PROVE  x \in LentOf(lv, a) <=> \E b \in lv : b.a = a /\ b.n = 1 /\ b.at = x
  BY DEF LentOf

\* An array, or a block of another allocator, is not one of them.
LEMMA LentSame ==
  ASSUME NEW lv, NEW lv2, \A b : b.a \in Pooled /\ b.n = 1 => (b \in lv2 <=> b \in lv)
  PROVE  \A a \in Pooled : LentOf(lv2, a) = LentOf(lv, a)
<1>1. ASSUME NEW a \in Pooled, NEW x
      PROVE  x \in LentOf(lv2, a) <=> x \in LentOf(lv, a)
  BY LentIs, SMT
<1> QED  BY <1>1

\* A block just allocated.
LEMMA NewBlock ==
  ASSUME NEW a \in Allocators, NEW at \in Nat, NEW n \in Nat \ {0}
  PROVE  /\ Block(a, at, n) \in BlockSet
         /\ Block(a, at, n).a = a /\ Block(a, at, n).at = at /\ Block(a, at, n).n = n
  BY SMT DEF Block, BlockSet

\* A block is known by its allocator, its place and its length.
LEMMA SameBlock ==
  ASSUME NEW b \in BlockSet, NEW c \in BlockSet, b.a = c.a, b.at = c.at, b.n = c.n
  PROVE  b = c
  BY SMT DEF BlockSet

\* Whatever is taken from the linear_arena in a step.
LEMMA ArenaGrows ==
  ASSUME ArenaInv, NEW X, ArePieces(X), Apart(X), Added(live, free, pool, live', free', pool', X),
         cur' \in Nat, cur <= cur', cur' <= End, TakenFrom(X, cur, cur'), s_cur' = s_cur
  PROVE  Within(PiecesOf(live', free', pool'), cur', s_cur') /\ Apart(PiecesOf(live', free', pool'))
<1> DEFINE Q == PiecesOf(live, free, pool)
           R == PiecesOf(live', free', pool')
<1>1. ArePieces(Q)
  <2>1. live \in SUBSET BlockSet /\ pool \in [Allocators -> Nat] /\ free \in [Allocators -> Seq(Nat)]
    BY DEF ArenaInv, ArenaTypes
  <2> QED  BY <2>1, PiecesTyped DEF ArePieces
<1>2. Covered(R, Q, X)
  BY AddedPieces
<1>3. Within(Q, cur, s_cur) /\ Apart(Q) /\ cur \in Nat /\ s_cur \in Nat /\ Begin <= cur
  BY DEF ArenaInv, ArenaTypes
<1> HIDE DEF Q, R
<1>4. Within(R, cur', s_cur) /\ Apart(R)
  BY <1>1, <1>2, <1>3, GrowKeeps, SMT
<1> QED  BY <1>4 DEF R

\* The cursor behind a new piece (arena.h 44-56) lies behind the old cursor.
LEMMA CursorGrows ==
  ASSUME NEW first \in Nat, NEW c \in Nat, NEW start \in Nat, NEW size \in Nat, first <= c, start >= c
  PROVE  start + size \in Nat /\ c <= start + size /\ first <= start + size /\ c <= start
BY SMT

\* FromArena.
LEMMA FromArenaKeeps ==
  ASSUME ArenaInv, NEW a \in Allocators, a \notin Stacked, NEW n \in Nat \ {0}, ~(a \in Pooled /\ n = 1),
         FromArena(a, n), ~wrapped'
  PROVE  ArenaInv'
<1> DEFINE at == align_up(cur, AlignOf[a])
           b == Block(a, at, n)
           x == LivePiece(b)
<1>1. /\ cur' = at + n * SizeOf[a] /\ live' = live \cup {b} /\ at + n * SizeOf[a] <= End
      /\ s_cur' = s_cur /\ pool' = pool /\ free' = free /\ carved' = carved
  <2>1. cur \in Nat
    BY DEF ArenaInv, ArenaTypes
  <2>2. ~Wraps(cur, a, n)
    BY DEF FromArena
  <2>3. EndOf(cur, ByteCount(a, n), AlignOf[a]) = at + n * SizeOf[a]
    BY <2>1, <2>2, ArrayEndIs
  <2> QED  BY <2>3 DEF FromArena, Fits
<1>2. /\ cur \in Nat /\ Begin <= cur /\ live \subseteq BlockSet /\ s_cur \in Nat
      /\ pool \in [Allocators -> Nat] /\ free \in [Allocators -> Seq(Nat)]
  BY DEF ArenaInv, ArenaTypes
<1>3. SizeOf[a] \in Nat \ {0} /\ AlignOf[a] \in Nat \ {0} /\ Begin \in Nat /\ End \in Nat
  BY ArenaConstants
<1>4. at \in Nat /\ at >= cur /\ at % AlignOf[a] = 0
  BY <1>2, <1>3, AlignFacts
<1>5. n * SizeOf[a] \in Nat
  BY <1>3, SMT
<1>6. b \in BlockSet /\ b.a = a /\ b.at = at /\ b.n = n
  BY <1>4, NewBlock, SMT
<1> HIDE DEF b, x, at
<1>7. LiveSize(b) = n * SizeOf[a]
  BY <1>6 DEF LiveSize
<1>8. x \in PieceSet /\ x.a = a /\ x.at = at /\ x.size = n * SizeOf[a]
  BY <1>6, <1>7, LivePieceIs DEF x
<1>9. at + n * SizeOf[a] \in Nat /\ cur <= at + n * SizeOf[a] /\ Begin <= at + n * SizeOf[a] /\ cur <= at
  BY <1>2, <1>3, <1>4, <1>5, CursorGrows
<1>10. ArenaTypes'
  BY <1>1, <1>6, <1>9 DEF ArenaInv, ArenaTypes
<1>11. ListInv'
  <2>1. \A y : y.a \in Pooled /\ y.n = 1 => (y \in live' <=> y \in live)
    BY <1>1, <1>6
  <2>2. \A g \in Pooled : LentOf(live', g) = LentOf(live, g)
    BY <2>1, LentSame
  <2> QED  BY <1>1, <2>2 DEF ArenaInv, ListInv
<1>12. AlignedInv'
  BY <1>1, <1>4, <1>6 DEF ArenaInv, AlignedInv, Aligned
<1>13. Added(live, free, pool, live', free', pool', {x})
  <2>1. \A y \in live' : y \in live \/ LivePiece(y) \in {x}
    BY <1>1 DEF x
  <2> QED  BY <1>1, <2>1 DEF Added
<1>14. Within(PiecesOf(live', free', pool'), cur', s_cur') /\ Apart(PiecesOf(live', free', pool'))
  <2>1. ArePieces({x}) /\ Apart({x})
    BY <1>8 DEF ArePieces, Apart
  <2>2. TakenFrom({x}, cur, cur')
    <3>1. cur <= x.at /\ x.at + x.size <= cur'
      BY <1>1, <1>8, <1>9, SMT
    <3> QED  BY <1>8, <3>1 DEF TakenFrom
  <2>3. cur' \in Nat /\ cur <= cur' /\ cur' <= End /\ s_cur' = s_cur
    BY <1>1, <1>9
  <2> QED  BY <1>13, <2>1, <2>2, <2>3, ArenaGrows
<1> QED  BY <1>10, <1>11, <1>12, <1>14 DEF ArenaInv

\* stack_arena::allocate.
LEMMA StackAllocKeeps ==
  ASSUME ArenaInv, NEW a \in Allocators, NEW n \in Nat \ {0}, AllocateStack(a, n), ~wrapped'
  PROVE  ArenaInv'
<1> DEFINE at == align_up(s_cur, AlignOf[a])
           b == Block(a, at, n)
           x == LivePiece(b)
           Q == PiecesOf(live, free, pool)
           R == PiecesOf(live', free', pool')
<1>1. /\ s_cur' = at + n * SizeOf[a] /\ live' = live \cup {b} /\ at + n * SizeOf[a] <= Buf + N
      /\ cur' = cur /\ pool' = pool /\ free' = free /\ carved' = carved /\ a \in Stacked
  <2>1. s_cur \in Nat
    BY DEF ArenaInv, ArenaTypes
  <2>2. ~Wraps(s_cur, a, n)
    BY DEF AllocateStack
  <2>3. EndOf(s_cur, ByteCount(a, n), AlignOf[a]) = at + n * SizeOf[a]
    BY <2>1, <2>2, ArrayEndIs
  <2> QED  BY <2>3 DEF AllocateStack, StackFits
<1>2. /\ cur \in Nat /\ cur <= End /\ live \in SUBSET BlockSet /\ s_cur \in Nat /\ Buf <= s_cur
      /\ pool \in [Allocators -> Nat] /\ free \in [Allocators -> Seq(Nat)]
  BY DEF ArenaInv, ArenaTypes
<1>3. SizeOf[a] \in Nat \ {0} /\ AlignOf[a] \in Nat \ {0} /\ Buf \in Nat /\ a \notin Pooled
  BY <1>1, ArenaConstants
<1>4. at \in Nat /\ at >= s_cur /\ at % AlignOf[a] = 0
  BY <1>2, <1>3, AlignFacts
<1>5. n * SizeOf[a] \in Nat
  BY <1>3, SMT
<1>6. b \in BlockSet /\ b.a = a /\ b.at = at /\ b.n = n
  BY <1>4, NewBlock, SMT
<1> HIDE DEF b, x, at, Q, R
<1>7. LiveSize(b) = n * SizeOf[a]
  BY <1>3, <1>6 DEF LiveSize
<1>8. x \in PieceSet /\ x.a = a /\ x.at = at /\ x.size = n * SizeOf[a]
  BY <1>6, <1>7, LivePieceIs DEF x
<1>9. s_cur' \in Nat /\ s_cur <= s_cur' /\ Buf <= s_cur' /\ s_cur <= x.at /\ x.at + x.size <= s_cur'
  <2>1. PICK m \in Nat : m = n * SizeOf[a]
    BY <1>5
  <2>2. s_cur <= at /\ at + m \in Nat /\ s_cur <= at + m /\ Buf <= at + m /\ at + m <= at + m
    BY <1>2, <1>3, <1>4, SMT
  <2> QED  BY <1>1, <1>8, <2>1, <2>2
<1>10. ArenaTypes'
  BY <1>1, <1>6, <1>9 DEF ArenaInv, ArenaTypes
<1>11. ListInv'
  <2>1. \A y : y.a \in Pooled /\ y.n = 1 => (y \in live' <=> y \in live)
    BY <1>1, <1>3, <1>6
  <2>2. \A g \in Pooled : LentOf(live', g) = LentOf(live, g)
    BY <2>1, LentSame
  <2> QED  BY <1>1, <2>2 DEF ArenaInv, ListInv
<1>12. AlignedInv'
  BY <1>1, <1>4, <1>6 DEF ArenaInv, AlignedInv, Aligned
<1>13. Covered(R, Q, {x})
  <2>1. \A y \in live' : y \in live \/ LivePiece(y) \in {x}
    BY <1>1 DEF x
  <2>2. Added(live, free, pool, live', free', pool', {x})
    BY <1>1, <2>1 DEF Added
  <2> QED  BY <2>2, AddedPieces DEF R, Q
<1>14. Within(R, cur, s_cur') /\ Apart(R)
  <2>1. ArePieces(Q) /\ Within(Q, cur, s_cur) /\ Apart(Q)
    BY <1>2, PiecesTyped DEF ArePieces, ArenaInv, Q
  <2>2. Pushed(x, s_cur, s_cur')
    BY <1>1, <1>8, <1>9 DEF Pushed
  <2>3. s_cur' \in Nat /\ s_cur <= s_cur'
    BY <1>9
  <2> QED  BY <1>2, <1>13, <2>1, <2>2, <2>3, StackKeeps, SMT
<1> QED  BY <1>1, <1>10, <1>11, <1>12, <1>14 DEF ArenaInv, R

\* pool_allocator::allocate(1) from the free list: the first free block is lent.
LEMMA FromListKeeps ==
  ASSUME ArenaInv, NEW a \in Pooled, AllocateOneFromList(a)
  PROVE  ArenaInv'
<1> DEFINE at == Head(free[a])
           b == Block(a, at, 1)
           Q == PiecesOf(live, free, pool)
           R == PiecesOf(live', free', pool')
<1>0. a \in Allocators
  BY ArenaConstants
<1>1. /\ free[a] # <<>> /\ live' = live \cup {b} /\ free' = [free EXCEPT ![a] = Tail(free[a])]
      /\ cur' = cur /\ s_cur' = s_cur /\ pool' = pool /\ carved' = carved
  BY DEF AllocateOneFromList
<1>2. live \in SUBSET BlockSet /\ pool \in [Allocators -> Nat] /\ free \in [Allocators -> Seq(Nat)]
  BY DEF ArenaInv, ArenaTypes
<1>3. /\ OnceEach(free[a]) /\ ToSet(free[a]) \cap LentOf(live, a) = {}
      /\ ToSet(free[a]) \cup LentOf(live, a) = carved[a]
  BY DEF ArenaInv, ListInv
<1>4. /\ Tail(free[a]) \in Seq(Nat) /\ OnceEach(Tail(free[a])) /\ at \in Nat /\ at \in ToSet(free[a])
      /\ ToSet(Tail(free[a])) = ToSet(free[a]) \ {at}
  <2>1. free[a] \in Seq(Nat)
    BY <1>0, <1>2
  <2> QED  BY <1>1, <1>3, <2>1, TailFacts
<1>5. b \in BlockSet /\ b.a = a /\ b.at = at /\ b.n = 1
  BY <1>0, <1>4, NewBlock, SMT
<1> HIDE DEF b, at, Q, R
<1>6. /\ free' \in [Allocators -> Seq(Nat)] /\ free'[a] = Tail(free[a])
      /\ \A g \in Allocators : g # a => free'[g] = free[g]
  BY <1>0, <1>1, <1>2, <1>4
<1>7. ArenaTypes'
  <2>1. \A g \in Allocators \ Pooled : free'[g] = <<>>
    BY <1>6 DEF ArenaInv, ArenaTypes
  <2> QED  BY <1>1, <1>5, <1>6, <2>1 DEF ArenaInv, ArenaTypes
<1>8. ListInv'
  <2>1. LentOf(live', a) = LentOf(live, a) \cup {at}
    <3>1. \A x : x \in LentOf(live', a) <=> x \in LentOf(live, a) \/ x = at
      BY <1>1, <1>5, LentIs, SMT
    <3> QED  BY <3>1
  <2>2. ASSUME NEW g \in Pooled, g # a
        PROVE  LentOf(live', g) = LentOf(live, g)
    <3>1. \A x : x \in LentOf(live', g) <=> x \in LentOf(live, g)
      BY <1>1, <1>5, <2>2, LentIs, SMT
    <3> QED  BY <3>1
  <2>3. /\ OnceEach(free'[a]) /\ ToSet(free'[a]) \cap LentOf(live', a) = {}
        /\ ToSet(free'[a]) \cup LentOf(live', a) = carved'[a]
    BY <1>1, <1>3, <1>4, <1>6, <2>1
  <2>4. ASSUME NEW g \in Pooled, g # a
        PROVE  /\ OnceEach(free'[g]) /\ ToSet(free'[g]) \cap LentOf(live', g) = {}
               /\ ToSet(free'[g]) \cup LentOf(live', g) = carved'[g]
    <3>1. free'[g] = free[g]
      BY <1>6, <2>4, ArenaConstants
    <3>2. LentOf(live', g) = LentOf(live, g)
      BY <2>2, <2>4
    <3> QED  BY <1>1, <3>1, <3>2 DEF ArenaInv, ListInv
  <2> QED  BY <2>3, <2>4 DEF ListInv
<1>9. AlignedInv'
  <2>1. Aligned(a, 1, at)
    BY <1>3, <1>4 DEF ArenaInv, AlignedInv
  <2> QED  BY <1>1, <1>5, <2>1 DEF ArenaInv, AlignedInv
<1>10. FreePiece(a, at) \in Q
  BY <1>0, <1>4, PieceIs, SMT DEF Q
<1>11. FreePiece(a, at) \notin R
  <2>0. FreePiece(a, at).kind = "free" /\ FreePiece(a, at).a = a /\ FreePiece(a, at).at = at
    BY <1>0, <1>4, FreePieceIs
  <2>1. ASSUME NEW c \in live', FreePiece(a, at) = LivePiece(c)
        PROVE  FALSE
    <3>1. c \in BlockSet
      BY <1>7 DEF ArenaTypes
    <3>2. "live" # "free"
      BY SMT
    <3> QED  BY <2>0, <2>1, <3>1, <3>2, LivePieceIs
  <2>2. ASSUME NEW g \in Allocators, NEW x \in ToSet(free'[g]), FreePiece(a, at) = FreePiece(g, x)
        PROVE  FALSE
    <3>1. x \in Nat
      <4>1. free'[g] \in Seq(Nat)
        BY <1>6
      <4> QED  BY <4>1, SeqFacts
    <3>2. FreePiece(g, x).a = g /\ FreePiece(g, x).at = x
      BY <3>1, FreePieceIs
    <3>3. g = a /\ x = at
      BY <2>0, <2>2, <3>2
    <3> QED  BY <1>4, <1>6, <3>3
  <2>3. ASSUME NEW g \in Allocators, FreePiece(a, at) = PoolPiece(g, pool'[g])
        PROVE  FALSE
    <3>1. pool'[g] \in Nat
      BY <1>1, <1>2
    <3>2. PoolPiece(g, pool'[g]).kind = "pool"
      BY <3>1, PoolPieceIs
    <3>3. "pool" # "free"
      BY SMT
    <3> QED  BY <2>0, <2>3, <3>2, <3>3
  <2> QED  BY <2>1, <2>2, <2>3, PieceIs, SMT DEF R
<1>12. Covered(R, Q, {LivePiece(b)})
  <2>1. \A y \in live' : y \in live \/ LivePiece(y) \in {LivePiece(b)}
    BY <1>1
  <2>2. \A g \in Allocators : \A x \in ToSet(free'[g]) : x \in ToSet(free[g])
    BY <1>4, <1>6
  <2>3. Added(live, free, pool, live', free', pool', {LivePiece(b)})
    BY <1>1, <2>1, <2>2 DEF Added
  <2> QED  BY <2>3, AddedPieces DEF R, Q
<1>13. Within(R, cur, s_cur) /\ Apart(R)
  <2>1. Within(Q, cur, s_cur) /\ Apart(Q)
    BY DEF ArenaInv, Q
  <2>2. /\ LivePiece(b).a = FreePiece(a, at).a /\ LivePiece(b).at = FreePiece(a, at).at
        /\ LivePiece(b).size = FreePiece(a, at).size
    <3>1. LivePiece(b).a = a /\ LivePiece(b).at = at /\ LivePiece(b).size = LiveSize(b)
      BY <1>5, LivePieceIs
    <3>2. LiveSize(b) = blk_size(a)
      BY <1>5 DEF LiveSize
    <3> QED  BY <1>0, <1>4, <3>1, <3>2, FreePieceIs
  <2> QED  BY <1>10, <1>11, <1>12, <2>1, <2>2, SwapKeeps, SMT
<1> QED  BY <1>1, <1>7, <1>8, <1>9, <1>13 DEF ArenaInv, R

\* The pieces left when b is given back do not include the one it was.
LEMMA PieceGone ==
  ASSUME NEW b \in BlockSet, NEW lv \in SUBSET BlockSet, b \notin lv,
         NEW fr \in [Allocators -> Seq(Nat)], NEW pl \in [Allocators -> Nat]
  PROVE  LivePiece(b) \notin PiecesOf(lv, fr, pl)
<1>0. /\ LivePiece(b).kind = "live" /\ LivePiece(b).a = b.a /\ LivePiece(b).n = b.n
      /\ LivePiece(b).at = b.at
  BY LivePieceIs
<1>1. ASSUME NEW c \in lv, LivePiece(b) = LivePiece(c)
      PROVE  FALSE
  <2>1. LivePiece(c).a = c.a /\ LivePiece(c).n = c.n /\ LivePiece(c).at = c.at /\ c \in BlockSet
    BY LivePieceIs
  <2>2. b = c
    BY <1>0, <1>1, <2>1, SameBlock
  <2> QED  BY <2>2
<1>2. ASSUME NEW g \in Allocators, NEW x \in ToSet(fr[g]), LivePiece(b) = FreePiece(g, x)
      PROVE  FALSE
  <2>1. x \in Nat
    <3>1. fr[g] \in Seq(Nat)
      OBVIOUS
    <3> QED  BY <3>1, SeqFacts
  <2>2. FreePiece(g, x).kind = "free"
    BY <2>1, FreePieceIs
  <2>3. "live" # "free"
    BY SMT
  <2> QED  BY <1>0, <1>2, <2>2, <2>3
<1>3. ASSUME NEW g \in Allocators, LivePiece(b) = PoolPiece(g, pl[g])
      PROVE  FALSE
  <2>1. pl[g] \in Nat
    OBVIOUS
  <2>2. PoolPiece(g, pl[g]).kind = "pool"
    BY <2>1, PoolPieceIs
  <2>3. "live" # "pool"
    BY SMT
  <2> QED  BY <1>0, <1>3, <2>2, <2>3
<1> QED  BY <1>1, <1>2, <1>3, PieceIs, SMT

\* Pieces that are all there already.
LEMMA FewerPieces ==
  ASSUME NEW Q, NEW R, Covered(R, Q, {}), NEW c, NEW sc, Within(Q, c, sc), Apart(Q)
  PROVE  Within(R, c, sc) /\ Apart(R)
<1>1. R \subseteq Q
  BY DEF Covered
<1> QED  BY <1>1 DEF Within, Apart

\* pool_allocator::deallocate of a single element: its block is free again.
LEMMA GiveBackKeeps ==
  ASSUME ArenaInv, NEW b \in live, b.a \in Pooled, b.n = 1, Deallocate(b)
  PROVE  ArenaInv'
<1> DEFINE Q == PiecesOf(live, free, pool)
           R == PiecesOf(live', free', pool')
           y == FreePiece(b.a, b.at)
<1>1. /\ live' = live \ {b} /\ free' = [free EXCEPT ![b.a] = <<b.at>> \o free[b.a]]
      /\ cur' = cur /\ s_cur' = s_cur /\ pool' = pool /\ carved' = carved
  BY DEF Deallocate, Returned
<1>2. live \in SUBSET BlockSet /\ pool \in [Allocators -> Nat] /\ free \in [Allocators -> Seq(Nat)]
  BY DEF ArenaInv, ArenaTypes
<1>3. b \in BlockSet /\ b.a \in Allocators /\ b.at \in Nat
  BY <1>2, BlockFacts
<1>4. /\ OnceEach(free[b.a]) /\ ToSet(free[b.a]) \cap LentOf(live, b.a) = {}
      /\ ToSet(free[b.a]) \cup LentOf(live, b.a) = carved[b.a]
  BY DEF ArenaInv, ListInv
<1>5. b.at \in LentOf(live, b.a)
  BY LentIs, SMT
<1>6. /\ <<b.at>> \o free[b.a] \in Seq(Nat) /\ OnceEach(<<b.at>> \o free[b.a])
      /\ ToSet(<<b.at>> \o free[b.a]) = ToSet(free[b.a]) \cup {b.at}
  <2>1. free[b.a] \in Seq(Nat) /\ b.at \notin ToSet(free[b.a])
    BY <1>2, <1>3, <1>4, <1>5
  <2> QED  BY <1>3, <1>4, <2>1, PrependFacts, SMT
<1>7. /\ free' \in [Allocators -> Seq(Nat)] /\ free'[b.a] = <<b.at>> \o free[b.a]
      /\ \A g \in Allocators : g # b.a => free'[g] = free[g]
  BY <1>1, <1>2, <1>3, <1>6
<1>8. ArenaTypes'
  <2>1. \A g \in Allocators \ Pooled : free'[g] = <<>>
    BY <1>7 DEF ArenaInv, ArenaTypes
  <2>2. live' \subseteq BlockSet
    BY <1>1, <1>2
  <2> QED  BY <1>1, <1>7, <2>1, <2>2 DEF ArenaInv, ArenaTypes
<1>9. ListInv'
  <2>1. LentOf(live', b.a) = LentOf(live, b.a) \ {b.at}
    <3>1. ASSUME NEW c \in live, c.a = b.a, c.n = 1, c.at = b.at
          PROVE  c = b
      BY <1>2, <1>3, <3>1, SameBlock
    <3>2. ASSUME NEW x
          PROVE  x \in LentOf(live', b.a) <=> x \in LentOf(live, b.a) /\ x # b.at
      <4>1. x \in LentOf(live', b.a) <=> \E c \in live' : c.a = b.a /\ c.n = 1 /\ c.at = x
        BY LentIs, SMT
      <4>2. x \in LentOf(live, b.a) <=> \E c \in live : c.a = b.a /\ c.n = 1 /\ c.at = x
        BY LentIs, SMT
      <4> QED  BY <1>1, <3>1, <4>1, <4>2
    <3> QED  BY <3>2
  <2>2. ASSUME NEW g \in Pooled, g # b.a
        PROVE  LentOf(live', g) = LentOf(live, g)
    <3>1. \A x : x \in LentOf(live', g) <=> x \in LentOf(live, g)
      BY <1>1, <2>2, LentIs, SMT
    <3> QED  BY <3>1
  <2>3. /\ OnceEach(free'[b.a]) /\ ToSet(free'[b.a]) \cap LentOf(live', b.a) = {}
        /\ ToSet(free'[b.a]) \cup LentOf(live', b.a) = carved'[b.a]
    <3>1. \A F, L, C, x : F \cap L = {} /\ F \cup L = C /\ x \in L
             => (F \cup {x}) \cap (L \ {x}) = {} /\ (F \cup {x}) \cup (L \ {x}) = C
      OBVIOUS
    <3>2. /\ (ToSet(free[b.a]) \cup {b.at}) \cap (LentOf(live, b.a) \ {b.at}) = {}
          /\ (ToSet(free[b.a]) \cup {b.at}) \cup (LentOf(live, b.a) \ {b.at}) = carved[b.a]
      BY <1>4, <1>5, <3>1, SMT
    <3> QED  BY <1>1, <1>6, <1>7, <2>1, <3>2
  <2>4. ASSUME NEW g \in Pooled, g # b.a
        PROVE  /\ OnceEach(free'[g]) /\ ToSet(free'[g]) \cap LentOf(live', g) = {}
               /\ ToSet(free'[g]) \cup LentOf(live', g) = carved'[g]
    <3>1. free'[g] = free[g]
      BY <1>7, <2>4, ArenaConstants
    <3>2. LentOf(live', g) = LentOf(live, g)
      BY <2>2, <2>4
    <3> QED  BY <1>1, <3>1, <3>2 DEF ArenaInv, ListInv
  <2> QED  BY <2>3, <2>4 DEF ListInv
<1>10. AlignedInv'
  BY <1>1 DEF ArenaInv, AlignedInv
<1>11. LivePiece(b) \in Q
  BY PieceIs, SMT
<1>12. LivePiece(b) \notin R
  <2>1. live' \in SUBSET BlockSet /\ b \notin live' /\ pool' \in [Allocators -> Nat]
    BY <1>1, <1>2
  <2> QED  BY <1>3, <1>7, <2>1, PieceGone
<1>13. Covered(R, Q, {y})
  <2>1. \A g \in Allocators : \A x \in ToSet(free'[g]) : x \in ToSet(free[g]) \/ FreePiece(g, x) \in {y}
    <3>1. ASSUME NEW g \in Allocators, NEW x \in ToSet(free'[g])
          PROVE  x \in ToSet(free[g]) \/ FreePiece(g, x) \in {y}
      <4>1. CASE g = b.a
        BY <1>6, <1>7, <4>1
      <4>2. CASE g # b.a
        BY <1>7, <4>2
      <4> QED  BY <4>1, <4>2
    <3> QED  BY <3>1
  <2>2. Added(live, free, pool, live', free', pool', {y})
    BY <1>1, <2>1 DEF Added
  <2> QED  BY <2>2, AddedPieces
<1>14. y.a = LivePiece(b).a /\ y.at = LivePiece(b).at /\ y.size = LivePiece(b).size
  <2>1. LivePiece(b).a = b.a /\ LivePiece(b).at = b.at /\ LivePiece(b).size = LiveSize(b)
    BY <1>3, LivePieceIs
  <2>2. LiveSize(b) = blk_size(b.a)
    BY DEF LiveSize
  <2>3. y.a = b.a /\ y.at = b.at /\ y.size = blk_size(b.a)
    BY <1>3, FreePieceIs
  <2> QED  BY <2>1, <2>2, <2>3
<1>15. Within(Q, cur, s_cur) /\ Apart(Q)
  BY DEF ArenaInv
<1> HIDE DEF Q, R, y
<1>16. Within(R, cur, s_cur) /\ Apart(R)
  BY <1>11, <1>12, <1>13, <1>14, <1>15, SwapKeeps, SMT
<1> QED  BY <1>1, <1>8, <1>9, <1>10, <1>16 DEF ArenaInv, R

\* The other deallocate functions do nothing: the memory stays unused until the
\* arena is reset (allocator.h 38, 85-92, stack_allocator.h 74).
LEMMA ForgetKeeps ==
  ASSUME ArenaInv, NEW b \in live, ~(b.a \in Pooled /\ b.n = 1), Deallocate(b)
  PROVE  ArenaInv'
<1>1. /\ live' = live \ {b} /\ free' = free
      /\ cur' = cur /\ s_cur' = s_cur /\ pool' = pool /\ carved' = carved
  BY DEF Deallocate, Returned
<1>2. ArenaTypes' /\ AlignedInv'
  BY <1>1 DEF ArenaInv, ArenaTypes, AlignedInv
<1>3. ListInv'
  <2>1. \A y : y.a \in Pooled /\ y.n = 1 => (y \in live' <=> y \in live)
    BY <1>1
  <2>2. \A g \in Pooled : LentOf(live', g) = LentOf(live, g)
    BY <2>1, LentSame
  <2> QED  BY <1>1, <2>2 DEF ArenaInv, ListInv
<1>4. Covered(PiecesOf(live', free', pool'), PiecesOf(live, free, pool), {})
  <2>1. Added(live, free, pool, live', free', pool', {})
    BY <1>1 DEF Added
  <2> QED  BY <2>1, AddedPieces
<1>5. Within(PiecesOf(live', free', pool'), cur, s_cur) /\ Apart(PiecesOf(live', free', pool'))
  BY <1>4, FewerPieces DEF ArenaInv
<1> QED  BY <1>1, <1>2, <1>3, <1>5 DEF ArenaInv
-----------------------------------------------------------------------------
IsChunk(ch, C, z, m) ==
  /\ ch \in Seq(Nat) /\ ch # <<>> /\ OnceEach(ch) /\ ToSet(ch) = {ch[i] : i \in 1 .. m}
  /\ \A x \in ToSet(ch) : C <= x /\ x + z <= C + z * m
  /\ \A x, y \in ToSet(ch) : x # y => x + z <= y \/ y + z <= x
  /\ \A d \in Nat \ {0} : C % d = 0 /\ z % d = 0 => \A x \in ToSet(ch) : x % d = 0

\* The blocks of a chunk lie one after the other from C on, all aligned as C and
\* the block size are (add_chunk, arena.h 115-129).
LEMMA ChunkFacts ==
  ASSUME NEW C \in Nat, NEW z \in Nat \ {0}, NEW m \in Nat \ {0}, NEW ch, ch = [i \in 1 .. m |-> C + (m - i) * z]
  PROVE  IsChunk(ch, C, z, m)
<1>1. ASSUME NEW i \in 1 .. m
      PROVE  ch[i] = C + (m - i) * z /\ m - i \in Nat /\ (m - i) * z \in Nat
  <2>1. ch[i] = C + (m - i) * z
    OBVIOUS
  <2>2. m - i \in Nat
    BY SMT
  <2> QED  BY <2>1, <2>2, ChunkSteps, SMT
<1>2. ASSUME NEW i \in 1 .. m
      PROVE  ch[i] \in Nat /\ C <= ch[i] /\ ch[i] + z <= C + z * m
  <2>1. PICK u \in Nat : u = (m - i) * z
    BY <1>1
  <2>2. PICK w \in Nat : w = z * m
    BY SMT
  <2>3. u + z <= w
    BY <2>1, <2>2, ChunkSteps, SMT
  <2>4. ch[i] = C + u
    BY <1>1, <2>1
  <2>5. C + u \in Nat /\ C <= C + u /\ C + u + z <= C + w
    BY <2>3, SMT
  <2> QED  BY <2>2, <2>4, <2>5
<1>3. ASSUME NEW i \in 1 .. m, NEW j \in 1 .. m, i < j
      PROVE  ch[j] + z <= ch[i]
  <2>1. PICK u \in Nat : u = (m - i) * z
    BY <1>1
  <2>2. PICK w \in Nat : w = (m - j) * z
    BY <1>1
  <2>3. w + z <= u
    BY <1>3, <2>1, <2>2, ChunkSteps, SMT
  <2>4. ch[i] = C + u /\ ch[j] = C + w
    BY <1>1, <2>1, <2>2
  <2>5. C + w + z <= C + u
    BY <2>3, SMT
  <2> QED  BY <2>4, <2>5
<1>4. ch \in Seq(Nat) /\ DOMAIN ch = 1 .. m /\ Len(ch) = m
  <2>1. ch \in [1 .. m -> Nat]
    BY <1>2
  <2> QED  BY <2>1, SMT
<1>5. ToSet(ch) = {ch[i] : i \in 1 .. m} /\ ch # <<>>
  <2>1. ToSet(ch) = {ch[i] : i \in 1 .. m}
    BY <1>4 DEF ToSet
  <2> QED  BY <1>4, <2>1, NoElements
<1>6. ASSUME NEW i \in 1 .. m, NEW j \in 1 .. m, i # j
      PROVE  ch[i] # ch[j] /\ (ch[i] + z <= ch[j] \/ ch[j] + z <= ch[i])
  <2>1. ch[i] \in Nat /\ ch[j] \in Nat
    BY <1>2
  <2>2. i < j \/ j < i
    BY <1>6, SMT
  <2>3. ch[j] + z <= ch[i] \/ ch[i] + z <= ch[j]
    BY <1>3, <2>2
  <2> QED  BY <2>1, <2>3, SMT
<1>7. OnceEach(ch)
  BY <1>4, <1>6 DEF OnceEach
<1>8. \A x, y \in ToSet(ch) : x # y => x + z <= y \/ y + z <= x
  <2>1. ASSUME NEW i \in 1 .. m, NEW j \in 1 .. m, ch[i] # ch[j]
        PROVE  ch[i] + z <= ch[j] \/ ch[j] + z <= ch[i]
    <3>1. i # j
      BY <2>1
    <3> QED  BY <1>6, <3>1
  <2>2. ASSUME NEW x \in ToSet(ch), NEW y \in ToSet(ch), x # y
        PROVE  x + z <= y \/ y + z <= x
    <3>1. PICK i \in 1 .. m : x = ch[i]
      BY <1>5
    <3>2. PICK j \in 1 .. m : y = ch[j]
      BY <1>5
    <3> QED  BY <2>1, <2>2, <3>1, <3>2
  <2> QED  BY <2>2
<1>9. ASSUME NEW d \in Nat \ {0}, C % d = 0, z % d = 0, NEW i \in 1 .. m
      PROVE  ch[i] % d = 0
  <2>1. ((m - i) * z) % d = 0
    BY <1>1, <1>9, MultiplesScale
  <2> QED  BY <1>1, <1>9, <2>1, MultiplesAdd
<1>10. \A x \in ToSet(ch) : C <= x /\ x + z <= C + z * m
  BY <1>2, <1>5
<1>11. \A d \in Nat \ {0} : C % d = 0 /\ z % d = 0 => \A x \in ToSet(ch) : x % d = 0
  BY <1>5, <1>9
<1> QED  BY <1>4, <1>5, <1>7, <1>8, <1>10, <1>11 DEF IsChunk

\* ensure_pool: the pool object fits below the cursor it leaves.
LEMMA PoolFacts ==
  ASSUME ArenaInv, NEW a \in Pooled, pool[a] = None => Fits(cur, PoolSize, PoolAlign)
  PROVE  /\ AfterPool(a) \in Nat /\ cur <= AfterPool(a) /\ AfterPool(a) <= End
         /\ pool[a] = None => /\ PoolAt \in Nat /\ cur <= PoolAt /\ PoolAt + PoolSize = AfterPool(a)
                              /\ Begin <= PoolAt /\ PoolAt <= End
<1>1. cur \in Nat /\ cur <= End /\ Begin <= cur
  BY DEF ArenaInv, ArenaTypes
<1>2. PoolAlign \in Nat \ {0} /\ PoolSize \in Nat /\ Begin \in Nat /\ End \in Nat
  BY ArenaConstants
<1>3. PoolAt \in Nat /\ PoolAt >= cur
  BY <1>1, <1>2, AlignFacts DEF PoolAt
<1>4. CASE pool[a] = None
  <2>1. EndOf(cur, PoolSize, PoolAlign) = PoolAt + PoolSize
    <3>1. End + PoolAlign + PoolSize <= SizeMod
      BY ArenaConstants
    <3> QED  BY <1>1, <1>2, <3>1, EndIs DEF PoolAt
  <2>2. PoolAt + PoolSize <= End /\ AfterPool(a) = PoolAt + PoolSize
    BY <1>4, <2>1 DEF Fits, AfterPool
  <2> QED  BY <1>1, <1>2, <1>3, <2>2, SMT
<1>5. CASE pool[a] # None
  <2>1. AfterPool(a) = cur
    BY <1>5 DEF AfterPool
  <2> QED  BY <1>1, <1>2, <1>5, <2>1, SMT
<1> QED  BY <1>4, <1>5

\* pool_allocator::allocate(1) when the free list is empty and there is no room:
\* a pool object made on the way stays.
LEMMA ThrowsKeeps ==
  ASSUME ArenaInv, NEW a \in Pooled, AllocateOneThrows(a)
  PROVE  ArenaInv'
<1>0. a \in Allocators
  BY ArenaConstants
<1>1. s_cur' = s_cur /\ free' = free /\ live' = live /\ carved' = carved
  BY DEF AllocateOneThrows
<1>2. CASE ~(pool[a] = None /\ Fits(cur, PoolSize, PoolAlign))
  <2>1. pool' = pool /\ cur' = cur
    BY <1>2 DEF AllocateOneThrows
  <2> QED  BY <1>1, <2>1 DEF ArenaInv, ArenaTypes, ListInv, AlignedInv
<1>3. CASE pool[a] = None /\ Fits(cur, PoolSize, PoolAlign)
  <2> DEFINE x == PoolPiece(a, PoolAt)
  <2>1. pool' = [pool EXCEPT ![a] = PoolAt] /\ cur' = AfterPool(a)
    BY <1>3 DEF AllocateOneThrows
  <2>2. /\ AfterPool(a) \in Nat /\ cur <= AfterPool(a) /\ AfterPool(a) <= End
        /\ PoolAt \in Nat /\ cur <= PoolAt /\ PoolAt + PoolSize = AfterPool(a)
        /\ Begin <= PoolAt /\ PoolAt <= End
    BY <1>3, PoolFacts
  <2>3. x \in PieceSet /\ x.a = a /\ x.at = PoolAt /\ x.size = PoolSize
    BY <1>0, <2>2, PoolPieceIs
  <2>4. cur \in Nat /\ Begin <= cur /\ pool \in [Allocators -> Nat] /\ Begin \in Nat /\ End \in Nat
    BY ArenaConstants DEF ArenaInv, ArenaTypes
  <2> HIDE DEF x
  <2>5. /\ pool' \in [Allocators -> Nat] /\ pool'[a] = PoolAt
        /\ \A g \in Allocators : g # a => pool'[g] = pool[g]
    BY <1>0, <2>1, <2>2, <2>4
  <2>6. Begin <= AfterPool(a)
    BY <2>2, <2>4, SMT
  <2>7. ArenaTypes'
    <3>1. \A g \in Allocators : pool'[g] # None => Begin <= pool'[g] /\ pool'[g] <= End
      BY <2>2, <2>5 DEF ArenaInv, ArenaTypes
    <3>2. \A g \in Allocators \ Pooled : pool'[g] = None
      BY <2>5 DEF ArenaInv, ArenaTypes
    <3> QED  BY <1>1, <2>1, <2>2, <2>5, <2>6, <3>1, <3>2 DEF ArenaInv, ArenaTypes
  <2>8. ListInv' /\ AlignedInv'
    BY <1>1 DEF ArenaInv, ListInv, AlignedInv
  <2>9. Added(live, free, pool, live', free', pool', {x})
    <3>1. \A g \in Allocators : pool'[g] = None \/ pool'[g] = pool[g] \/ PoolPiece(g, pool'[g]) \in {x}
      BY <2>5 DEF x
    <3> QED  BY <1>1, <3>1 DEF Added
  <2>10. ArePieces({x}) /\ Apart({x})
    BY <2>3 DEF ArePieces, Apart
  <2>11. TakenFrom({x}, cur, cur')
    <3>1. AfterPool(a) <= AfterPool(a) /\ a \notin Stacked
      BY <2>2, ArenaConstants, SMT
    <3> QED  BY <2>1, <2>2, <2>3, <3>1 DEF TakenFrom
  <2>12. cur' \in Nat /\ cur <= cur' /\ cur' <= End
    BY <2>1, <2>2
  <2>13. Within(PiecesOf(live', free', pool'), cur', s_cur') /\ Apart(PiecesOf(live', free', pool'))
    BY <1>1, <2>9, <2>10, <2>11, <2>12, ArenaGrows
  <2> QED  BY <2>7, <2>8, <2>13 DEF ArenaInv
<1> QED  BY <1>2, <1>3

\* linear_arena::reset, once nothing allocated from it is used any more.
LEMMA ResetKeeps ==
  ASSUME ArenaInv, Reset
  PROVE  ArenaInv'
<1> DEFINE R == PiecesOf(live', free', pool')
<1>1. /\ \A b \in live : b.a \in Stacked
      /\ cur' = Begin /\ pool' = [a \in Allocators |-> None] /\ free' = [a \in Allocators |-> <<>>]
      /\ carved' = [a \in Allocators |-> {}] /\ s_cur' = s_cur /\ live' = live
  BY DEF Reset
<1>2. \A a \in Allocators : pool'[a] = None /\ free'[a] = <<>> /\ carved'[a] = {} /\ ToSet(free'[a]) = {}
  BY <1>1, EmptyFacts
<1>3. Begin \in Nat /\ Begin <= Begin /\ Begin <= End /\ None \in Nat
  BY ArenaConstants, SMT DEF None
<1>4. ArenaTypes'
  <2>1. <<>> \in Seq(Nat)
    BY NoElements
  <2>2. /\ pool' \in [Allocators -> Nat] /\ free' \in [Allocators -> Seq(Nat)]
        /\ carved' \in [Allocators -> SUBSET Nat]
    BY <1>1, <1>3, <2>1
  <2> QED  BY <1>1, <1>2, <1>3, <2>2 DEF ArenaInv, ArenaTypes
<1>5. ListInv'
  <2>1. ASSUME NEW a \in Pooled
        PROVE  LentOf(live', a) = {} /\ a \in Allocators
    <3>1. a \notin Stacked /\ a \in Allocators
      BY ArenaConstants
    <3>2. \A x : x \notin LentOf(live', a)
      BY <1>1, <3>1, LentIs, SMT
    <3> QED  BY <3>1, <3>2
  <2> QED  BY <1>2, <2>1, EmptyFacts DEF ListInv
<1>6. AlignedInv'
  BY <1>1, <1>2, ArenaConstants DEF ArenaInv, AlignedInv
<1>7. \A p \in R : p \in PiecesOf(live, free, pool) /\ p.a \in Stacked
  <2>1. ASSUME NEW p \in R
        PROVE  \E b \in live : p = LivePiece(b)
    <3>1. \/ \E b \in live' : p = LivePiece(b)
          \/ \E a \in Allocators : \E at \in ToSet(free'[a]) : p = FreePiece(a, at)
          \/ \E a \in Allocators : pool'[a] # None /\ p = PoolPiece(a, pool'[a])
      BY PieceIs, SMT
    <3> QED  BY <1>1, <1>2, <3>1
  <2>2. ASSUME NEW b \in live
        PROVE  LivePiece(b) \in PiecesOf(live, free, pool) /\ LivePiece(b).a \in Stacked
    <3>1. LivePiece(b) \in PiecesOf(live, free, pool)
      BY PieceIs, SMT
    <3>2. b \in BlockSet
      BY DEF ArenaInv, ArenaTypes
    <3>3. LivePiece(b).a = b.a
      BY <3>2, LivePieceIs
    <3> QED  BY <1>1, <3>1, <3>3
  <2> QED  BY <2>1, <2>2
<1>8. Within(R, Begin, s_cur) /\ Apart(R)
  BY <1>7 DEF ArenaInv, Within, Apart
<1> QED  BY <1>1, <1>4, <1>5, <1>6, <1>8 DEF ArenaInv

\* stack_arena::reset, likewise.
LEMMA ResetStackKeeps ==
  ASSUME ArenaInv, ResetStack
  PROVE  ArenaInv'
<1> DEFINE Q == PiecesOf(live, free, pool)
<1>1. /\ \A b \in live : b.a \notin Stacked
      /\ s_cur' = Buf /\ cur' = cur /\ pool' = pool /\ free' = free /\ live' = live /\ carved' = carved
  BY DEF ResetStack
<1>2. Buf \in Nat /\ Buf <= Buf /\ Buf <= Buf + N
  BY ArenaConstants, SMT
<1>3. ArenaTypes' /\ ListInv' /\ AlignedInv'
  <2>1. ArenaTypes'
    BY <1>1, <1>2 DEF ArenaInv, ArenaTypes
  <2> QED  BY <1>1, <2>1 DEF ArenaInv, ListInv, AlignedInv
<1>4. \A p \in Q : p.a \notin Stacked
  <2>0. /\ live \subseteq BlockSet /\ pool \in [Allocators -> Nat] /\ free \in [Allocators -> Seq(Nat)]
        /\ \A a \in Allocators \ Pooled : free[a] = <<>> /\ pool[a] = None
    BY DEF ArenaInv, ArenaTypes
  <2>1. ASSUME NEW b \in live
        PROVE  LivePiece(b).a \notin Stacked
    <3>1. b \in BlockSet
      BY <2>0
    <3>2. LivePiece(b).a = b.a
      BY <3>1, LivePieceIs
    <3> QED  BY <1>1, <3>2
  <2>2. ASSUME NEW a \in Allocators, NEW at \in ToSet(free[a])
        PROVE  FreePiece(a, at).a \notin Stacked
    <3>1. at \in Nat
      <4>1. free[a] \in Seq(Nat)
        BY <2>0
      <4> QED  BY <4>1, SeqFacts
    <3>2. FreePiece(a, at).a = a
      BY <3>1, FreePieceIs
    <3>3. a \in Pooled
      BY <2>0, EmptyFacts
    <3> QED  BY <3>2, <3>3, ArenaConstants
  <2>3. ASSUME NEW a \in Allocators, pool[a] # None
        PROVE  PoolPiece(a, pool[a]).a \notin Stacked
    <3>1. a \in Pooled /\ pool[a] \in Nat
      BY <2>0, <2>3
    <3>2. PoolPiece(a, pool[a]).a = a
      BY <3>1, PoolPieceIs
    <3> QED  BY <3>1, <3>2, ArenaConstants
  <2>4. ASSUME NEW p \in Q
        PROVE  p.a \notin Stacked
    <3>1. \/ \E b \in live : p = LivePiece(b)
          \/ \E a \in Allocators : \E at \in ToSet(free[a]) : p = FreePiece(a, at)
          \/ \E a \in Allocators : pool[a] # None /\ p = PoolPiece(a, pool[a])
      BY PieceIs, SMT
    <3> QED  BY <2>1, <2>2, <2>3, <3>1
  <2> QED  BY <2>4
<1>5. Within(Q, cur, Buf) /\ Apart(Q)
  BY <1>4 DEF ArenaInv, Within
<1> QED  BY <1>1, <1>3, <1>5 DEF ArenaInv

\* What a new chunk brings: the pool object if there was none, the block lent and
\* the free ones.
NewPieces(a, ch) ==
  (IF pool[a] = None THEN {PoolPiece(a, PoolAt)} ELSE {})
    \cup {LivePiece(Block(a, Head(ch), 1))} \cup {FreePiece(a, x) : x \in ToSet(Tail(ch))}

\* They lie between the old cursor and the new one and do not overlap.
LEMMA NewPiecesFacts ==
  ASSUME ArenaInv, NEW a \in Pooled, pool[a] = None => Fits(cur, PoolSize, PoolAlign),
         NEW C \in Nat, AfterPool(a) <= C, NEW ch \in Seq(Nat), ch # <<>>, OnceEach(ch),
         NEW c2 \in Nat, C <= c2, \A x \in ToSet(ch) : C <= x /\ x + blk_size(a) <= c2,
         \A x, y \in ToSet(ch) : x # y => x + blk_size(a) <= y \/ y + blk_size(a) <= x
  PROVE  ArePieces(NewPieces(a, ch)) /\ Apart(NewPieces(a, ch)) /\ TakenFrom(NewPieces(a, ch), cur, c2)
<1> DEFINE P == IF pool[a] = None THEN {PoolPiece(a, PoolAt)} ELSE {}
           b == Block(a, Head(ch), 1)
           B == {LivePiece(b)} \cup {FreePiece(a, x) : x \in ToSet(Tail(ch))}
<1>0. a \in Allocators /\ a \notin Stacked /\ blk_size(a) \in Nat /\ PoolSize \in Nat
  BY ArenaConstants
<1>1. /\ Head(ch) \in Nat /\ Head(ch) \in ToSet(ch) /\ ToSet(Tail(ch)) = ToSet(ch) \ {Head(ch)}
      /\ ToSet(ch) \subseteq Nat
  BY TailFacts, SeqFacts
<1>2. /\ LivePiece(b) \in PieceSet /\ LivePiece(b).a = a /\ LivePiece(b).at = Head(ch)
      /\ LivePiece(b).size = blk_size(a)
  <2>1. b \in BlockSet /\ b.a = a /\ b.at = Head(ch) /\ b.n = 1
    BY <1>0, <1>1, NewBlock, SMT
  <2> HIDE DEF b
  <2>2. LiveSize(b) = blk_size(a)
    BY <2>1 DEF LiveSize
  <2> QED  BY <2>1, <2>2, LivePieceIs
<1>3. ASSUME NEW x \in ToSet(Tail(ch))
      PROVE  /\ FreePiece(a, x) \in PieceSet /\ FreePiece(a, x).a = a /\ FreePiece(a, x).at = x
             /\ FreePiece(a, x).size = blk_size(a) /\ x \in ToSet(ch) /\ x # Head(ch)
  <2>1. x \in Nat /\ x \in ToSet(ch) /\ x # Head(ch)
    BY <1>1
  <2> QED  BY <1>0, <2>1, FreePieceIs
<1> HIDE DEF b
<1>4. ASSUME NEW p \in B
      PROVE  p \in PieceSet /\ p.a = a /\ p.at \in ToSet(ch) /\ p.size = blk_size(a)
  <2>1. CASE p = LivePiece(b)
    BY <1>1, <1>2, <2>1
  <2>2. ASSUME NEW x \in ToSet(Tail(ch)), p = FreePiece(a, x)
        PROVE  p \in PieceSet /\ p.a = a /\ p.at \in ToSet(ch) /\ p.size = blk_size(a)
    BY <1>3, <2>2
  <2> QED  BY <2>1, <2>2
<1>5. ASSUME NEW p \in B, NEW q \in B, p # q
      PROVE  p.at # q.at
  <2>1. p = LivePiece(b) \/ \E x \in ToSet(Tail(ch)) : p = FreePiece(a, x)
    OBVIOUS
  <2>2. q = LivePiece(b) \/ \E x \in ToSet(Tail(ch)) : q = FreePiece(a, x)
    OBVIOUS
  <2>3. ASSUME NEW x \in ToSet(Tail(ch)), NEW y \in ToSet(Tail(ch)), p = FreePiece(a, x), q = FreePiece(a, y)
        PROVE  p.at # q.at
    <3>1. p.at = x /\ q.at = y
      BY <1>3, <2>3
    <3>2. x # y
      BY <1>5, <2>3
    <3> QED  BY <3>1, <3>2
  <2>4. ASSUME NEW x \in ToSet(Tail(ch)), NEW u \in B, NEW v \in B, u = LivePiece(b), v = FreePiece(a, x)
        PROVE  u.at # v.at
    <3>1. u.at = Head(ch)
      BY <1>2, <2>4
    <3>2. v.at = x /\ x # Head(ch)
      BY <1>3, <2>4
    <3> QED  BY <3>1, <3>2
  <2>5. CASE p = LivePiece(b)
    <3>1. PICK x \in ToSet(Tail(ch)) : q = FreePiece(a, x)
      BY <1>5, <2>2, <2>5
    <3> QED  BY <2>4, <2>5, <3>1
  <2>6. CASE q = LivePiece(b)
    <3>1. PICK x \in ToSet(Tail(ch)) : p = FreePiece(a, x)
      BY <1>5, <2>1, <2>6
    <3>2. q.at # p.at
      BY <2>4, <2>6, <3>1
    <3> QED  BY <3>2
  <2> QED  BY <2>1, <2>2, <2>3, <2>5, <2>6
<1> HIDE DEF B
<1>6. /\ AfterPool(a) \in Nat /\ cur <= AfterPool(a) /\ cur \in Nat
      /\ pool[a] = None => PoolAt \in Nat /\ cur <= PoolAt /\ PoolAt + PoolSize = AfterPool(a)
  BY PoolFacts DEF ArenaInv, ArenaTypes
<1>7. ASSUME NEW p \in P
      PROVE  p \in PieceSet /\ p.a = a /\ cur <= p.at /\ p.at + p.size = AfterPool(a) /\ p = PoolPiece(a, PoolAt)
  <2>1. pool[a] = None /\ p = PoolPiece(a, PoolAt)
    OBVIOUS
  <2> QED  BY <1>0, <1>6, <2>1, PoolPieceIs
<1> HIDE DEF P
<1>8. NewPieces(a, ch) = P \cup B
  BY DEF NewPieces, P, B, b
<1>9. ArePieces(NewPieces(a, ch))
  BY <1>4, <1>7, <1>8 DEF ArePieces
<1>10. TakenFrom(NewPieces(a, ch), cur, c2)
  <2>1. ASSUME NEW p \in P
        PROVE  p.a \notin Stacked /\ cur <= p.at /\ p.at + p.size <= c2
    <3>1. AfterPool(a) <= c2
      BY <1>6, SMT
    <3> QED  BY <1>0, <1>7, <3>1
  <2>2. ASSUME NEW p \in B
        PROVE  p.a \notin Stacked /\ cur <= p.at /\ p.at + p.size <= c2
    <3>1. PICK x \in ToSet(ch) : x = p.at
      BY <1>4
    <3>2. C <= x /\ x + blk_size(a) <= c2 /\ x \in Nat
      BY <1>1
    <3>3. cur <= x
      BY <1>6, <3>2, SMT
    <3> QED  BY <1>0, <1>4, <3>1, <3>2, <3>3
  <2> QED  BY <1>8, <2>1, <2>2 DEF TakenFrom
<1>11. ASSUME NEW p \in P, NEW q \in B
       PROVE  Disjoint(p, q) /\ Disjoint(q, p)
  <2>1. PICK x \in ToSet(ch) : x = q.at
    BY <1>4
  <2>2. C <= x /\ x \in Nat
    BY <1>1
  <2>3. AfterPool(a) <= x
    BY <1>6, <2>2, SMT
  <2> QED  BY <1>7, <2>1, <2>3 DEF Disjoint
<1>12. ASSUME NEW p \in B, NEW q \in B, p # q
       PROVE  Disjoint(p, q)
  <2>1. p.at \in ToSet(ch) /\ q.at \in ToSet(ch) /\ p.at # q.at
    BY <1>4, <1>5, <1>12
  <2>2. p.size = blk_size(a) /\ q.size = blk_size(a)
    BY <1>4
  <2>3. p.at + blk_size(a) <= q.at \/ q.at + blk_size(a) <= p.at
    BY <2>1
  <2> QED  BY <2>2, <2>3 DEF Disjoint
<1>13. Apart(NewPieces(a, ch))
  <2>1. ASSUME NEW p \in NewPieces(a, ch), NEW q \in NewPieces(a, ch), p # q
        PROVE  Disjoint(p, q)
    <3>1. (p \in P \/ p \in B) /\ (q \in P \/ q \in B)
      BY <1>8
    <3>2. ~(p \in P /\ q \in P)
      BY <1>7, <2>1
    <3> QED  BY <1>11, <1>12, <2>1, <3>1, <3>2
  <2> QED  BY <2>1 DEF Apart
<1> QED  BY <1>9, <1>10, <1>13

\* pool_allocator::allocate(1) with a new chunk.
LEMMA FromChunkKeeps ==
  ASSUME ArenaInv, NEW a \in Pooled, AllocateOneFromChunk(a)
  PROVE  ArenaInv'
<1> DEFINE C == ChunkAt(a)
           z == blk_size(a)
           ch == ChunkOf(a)
           b == Block(a, Head(ch), 1)
           X == NewPieces(a, ch)
<1>0. /\ a \in Allocators /\ z \in Nat \ {0} /\ PerChunk \in Nat \ {0} /\ MaxAlign \in Nat \ {0}
      /\ AlignOf[a] \in Nat \ {0} /\ z % AlignOf[a] = 0 /\ NodeAlign \in Nat \ {0} /\ MaxAlign % NodeAlign = 0
      /\ Begin \in Nat /\ End \in Nat
  BY ArenaConstants
<1>1. /\ free[a] = <<>> /\ (pool[a] = None => Fits(cur, PoolSize, PoolAlign))
      /\ C + z * PerChunk <= End
      /\ pool' = [pool EXCEPT ![a] = IF pool[a] = None THEN PoolAt ELSE pool[a]]
      /\ cur' = C + z * PerChunk
      /\ carved' = [carved EXCEPT ![a] = carved[a] \cup {ch[i] : i \in 1 .. PerChunk}]
      /\ live' = live \cup {b} /\ free' = [free EXCEPT ![a] = Tail(ch)] /\ s_cur' = s_cur
  <2>1. AfterPool(a) \in Nat /\ AfterPool(a) <= End
    BY PoolFacts DEF AllocateOneFromChunk
  <2>2. z * PerChunk \in Nat
    BY <1>0, SMT
  <2>3. End + MaxAlign + z * PerChunk <= SizeMod
    BY <1>0, ArenaConstants
  <2>4. EndOf(AfterPool(a), z * PerChunk, MaxAlign) = C + z * PerChunk
    BY <1>0, <2>1, <2>2, <2>3, EndIs DEF ChunkAt
  <2> QED  BY <2>4 DEF AllocateOneFromChunk, Fits
<1>2. /\ AfterPool(a) \in Nat /\ cur <= AfterPool(a)
      /\ pool[a] = None => PoolAt \in Nat /\ Begin <= PoolAt /\ PoolAt <= End
  BY <1>1, PoolFacts
<1>3. C \in Nat /\ C >= AfterPool(a) /\ C % MaxAlign = 0
  BY <1>0, <1>2, AlignFacts DEF ChunkAt
<1>4. C % NodeAlign = 0 /\ (MaxAlign % AlignOf[a] = 0 => C % AlignOf[a] = 0)
  BY <1>0, <1>3, MultiplesChain
<1>5. ch = [i \in 1 .. PerChunk |-> C + (PerChunk - i) * z]
  BY DEF ChunkOf
<1> HIDE DEF C, z, ch
<1>6. /\ ch \in Seq(Nat) /\ ch # <<>> /\ OnceEach(ch) /\ ToSet(ch) = {ch[i] : i \in 1 .. PerChunk}
      /\ \A x \in ToSet(ch) : C <= x /\ x + z <= C + z * PerChunk
      /\ \A x, y \in ToSet(ch) : x # y => x + z <= y \/ y + z <= x
      /\ \A x \in ToSet(ch) : Aligned(a, 1, x) /\ (z % NodeAlign = 0 => x % NodeAlign = 0)
  <2>1. IsChunk(ch, C, z, PerChunk)
    BY <1>0, <1>3, <1>5, ChunkFacts
  <2>2. ASSUME NEW x \in ToSet(ch)
        PROVE  Aligned(a, 1, x) /\ (z % NodeAlign = 0 => x % NodeAlign = 0)
    BY <1>0, <1>4, <2>1 DEF IsChunk, Aligned
  <2> QED  BY <2>1, <2>2 DEF IsChunk
<1>7. /\ Tail(ch) \in Seq(Nat) /\ OnceEach(Tail(ch)) /\ Head(ch) \in Nat /\ Head(ch) \in ToSet(ch)
      /\ ToSet(Tail(ch)) = ToSet(ch) \ {Head(ch)} /\ ToSet(ch) \subseteq Nat
  BY <1>6, TailFacts, SeqFacts
<1>8. b \in BlockSet /\ b.a = a /\ b.at = Head(ch) /\ b.n = 1
  BY <1>0, <1>7, NewBlock, SMT
<1>9. /\ cur \in Nat /\ Begin <= cur /\ live \in SUBSET BlockSet /\ pool \in [Allocators -> Nat]
      /\ free \in [Allocators -> Seq(Nat)] /\ carved \in [Allocators -> SUBSET Nat]
  BY DEF ArenaInv, ArenaTypes
<1>10. cur' \in Nat /\ C <= cur' /\ cur <= cur' /\ Begin <= cur' /\ cur' <= End /\ cur <= C
  <2>1. PICK m \in Nat : m = z * PerChunk
    BY <1>0, SMT
  <2>2. C + m \in Nat /\ C <= C + m /\ cur <= C + m /\ Begin <= C + m /\ cur <= C
    BY <1>0, <1>2, <1>3, <1>9, SMT
  <2> QED  BY <1>1, <2>1, <2>2
<1> HIDE DEF b, X
<1>11. /\ free' \in [Allocators -> Seq(Nat)] /\ free'[a] = Tail(ch)
       /\ \A g \in Allocators : g # a => free'[g] = free[g]
  BY <1>0, <1>1, <1>7, <1>9
<1>12. /\ carved' \in [Allocators -> SUBSET Nat] /\ carved'[a] = carved[a] \cup ToSet(ch)
       /\ \A g \in Allocators : g # a => carved'[g] = carved[g]
  <2>1. carved' = [carved EXCEPT ![a] = carved[a] \cup ToSet(ch)]
    BY <1>1, <1>6
  <2>2. carved[a] \cup ToSet(ch) \in SUBSET Nat
    BY <1>0, <1>7, <1>9
  <2> QED  BY <1>0, <1>9, <2>1, <2>2
<1>13. /\ pool' \in [Allocators -> Nat] /\ pool'[a] = (IF pool[a] = None THEN PoolAt ELSE pool[a])
       /\ \A g \in Allocators : g # a => pool'[g] = pool[g]
  <2>1. (IF pool[a] = None THEN PoolAt ELSE pool[a]) \in Nat
    BY <1>0, <1>2, <1>9
  <2> QED  BY <1>0, <1>1, <1>9, <2>1
<1>14. ArenaTypes'
  <2>1. \A g \in Allocators : pool'[g] # None => Begin <= pool'[g] /\ pool'[g] <= End
    BY <1>2, <1>13 DEF ArenaInv, ArenaTypes
  <2>2. \A g \in Allocators \ Pooled : free'[g] = <<>> /\ pool'[g] = None /\ carved'[g] = {}
    BY <1>11, <1>12, <1>13 DEF ArenaInv, ArenaTypes
  <2>3. live' \subseteq BlockSet
    BY <1>1, <1>8, <1>9
  <2> QED  BY <1>1, <1>10, <1>11, <1>12, <1>13, <2>1, <2>2, <2>3 DEF ArenaInv, ArenaTypes
<1>15. \A x \in ToSet(ch) : x \notin LentOf(live, a)
  <2>1. ASSUME NEW x \in ToSet(ch), NEW c \in live, c.a = a, c.n = 1, c.at = x
        PROVE  FALSE
    <3>1. LivePiece(c) \in PiecesOf(live, free, pool)
      BY PieceIs, SMT
    <3>2. c \in BlockSet
      BY <1>9
    <3>3. LivePiece(c).a = a /\ LivePiece(c).at = x /\ LivePiece(c).size = LiveSize(c)
      BY <2>1, <3>2, LivePieceIs
    <3>4. LiveSize(c) = z
      BY <2>1 DEF LiveSize, z
    <3>5. a \notin Stacked
      BY ArenaConstants
    <3>6. LivePiece(c).at + LivePiece(c).size <= cur
      BY <3>1, <3>3, <3>5 DEF ArenaInv, Within
    <3>7. x + z <= cur /\ C <= x /\ x \in Nat
      BY <1>6, <1>7, <3>3, <3>4, <3>6
    <3> QED  BY <1>0, <1>3, <1>9, <1>10, <3>7, SMT
  <2> QED  BY <2>1, LentIs, SMT
<1>16. ListInv'
  <2>1. LentOf(live', a) = LentOf(live, a) \cup {Head(ch)}
    <3>1. \A x : x \in LentOf(live', a) <=> x \in LentOf(live, a) \/ x = Head(ch)
      BY <1>1, <1>8, LentIs, SMT
    <3> QED  BY <3>1
  <2>2. ASSUME NEW g \in Pooled, g # a
        PROVE  LentOf(live', g) = LentOf(live, g)
    <3>1. \A x : x \in LentOf(live', g) <=> x \in LentOf(live, g)
      BY <1>1, <1>8, <2>2, LentIs, SMT
    <3> QED  BY <3>1
  <2>3. LentOf(live, a) = carved[a]
    BY <1>1, EmptyFacts DEF ArenaInv, ListInv
  <2>4. /\ OnceEach(free'[a]) /\ ToSet(free'[a]) \cap LentOf(live', a) = {}
        /\ ToSet(free'[a]) \cup LentOf(live', a) = carved'[a]
    <3>1. ToSet(free'[a]) \cap LentOf(live', a) = {}
      BY <1>7, <1>11, <1>15, <2>1
    <3>2. ToSet(free'[a]) \cup LentOf(live', a) = carved'[a]
      BY <1>7, <1>11, <1>12, <2>1, <2>3
    <3> QED  BY <1>7, <1>11, <3>1, <3>2
  <2>5. ASSUME NEW g \in Pooled, g # a
        PROVE  /\ OnceEach(free'[g]) /\ ToSet(free'[g]) \cap LentOf(live', g) = {}
               /\ ToSet(free'[g]) \cup LentOf(live', g) = carved'[g]
    <3>1. free'[g] = free[g] /\ carved'[g] = carved[g]
      BY <1>11, <1>12, <2>5, ArenaConstants
    <3>2. LentOf(live', g) = LentOf(live, g)
      BY <2>2, <2>5
    <3> QED  BY <3>1, <3>2 DEF ArenaInv, ListInv
  <2> QED  BY <2>4, <2>5 DEF ListInv
<1>17. AlignedInv'
  <2>1. \A c \in live' : Aligned(c.a, c.n, c.at)
    BY <1>1, <1>6, <1>7, <1>8 DEF ArenaInv, AlignedInv
  <2>2. ASSUME NEW g \in Pooled, NEW x \in carved'[g]
        PROVE  Aligned(g, 1, x) /\ (blk_size(g) % NodeAlign = 0 => x % NodeAlign = 0)
    <3>1. CASE g = a
      BY <1>6, <1>12, <3>1 DEF ArenaInv, AlignedInv, z
    <3>2. CASE g # a
      BY <1>12, <3>2, ArenaConstants DEF ArenaInv, AlignedInv
    <3> QED  BY <3>1, <3>2
  <2> QED  BY <2>1, <2>2 DEF AlignedInv
<1>18. Added(live, free, pool, live', free', pool', X)
  <2>1. \A y \in live' : y \in live \/ LivePiece(y) \in X
    BY <1>1 DEF X, NewPieces, b
  <2>2. \A g \in Allocators : \A x \in ToSet(free'[g]) : x \in ToSet(free[g]) \/ FreePiece(g, x) \in X
    <3>1. \A x \in ToSet(Tail(ch)) : FreePiece(a, x) \in X
      BY DEF X, NewPieces
    <3> QED  BY <1>11, <3>1
  <2>3. \A g \in Allocators : pool'[g] = None \/ pool'[g] = pool[g] \/ PoolPiece(g, pool'[g]) \in X
    <3>1. pool[a] = None => PoolPiece(a, PoolAt) \in X
      BY DEF X, NewPieces
    <3> QED  BY <1>13, <3>1
  <2> QED  BY <2>1, <2>2, <2>3 DEF Added
<1>19. ArePieces(X) /\ Apart(X) /\ TakenFrom(X, cur, cur')
  <2>1. AfterPool(a) <= C
    BY <1>2, <1>3, SMT
  <2>2. /\ \A x \in ToSet(ch) : C <= x /\ x + blk_size(a) <= cur'
        /\ \A x, y \in ToSet(ch) : x # y => x + blk_size(a) <= y \/ y + blk_size(a) <= x
    BY <1>1, <1>6 DEF z
  <2> QED  BY <1>1, <1>3, <1>6, <1>10, <2>1, <2>2, NewPiecesFacts DEF X
<1>20. Within(PiecesOf(live', free', pool'), cur', s_cur') /\ Apart(PiecesOf(live', free', pool'))
  BY <1>1, <1>10, <1>18, <1>19, ArenaGrows
<1> QED  BY <1>14, <1>16, <1>17, <1>20 DEF ArenaInv

\* ArenaInv holds of the arenas as long as no request wrapped.
SoundSoFar == wrapped \/ ArenaInv
LEMMA ArenaInvariance == ArenaSpec => []SoundSoFar
<1>1. ASSUME ArenaInit
      PROVE  SoundSoFar
  <2>1. /\ cur = Begin /\ s_cur = Buf /\ live = {}
        /\ \A a \in Allocators : pool[a] = None /\ free[a] = <<>> /\ carved[a] = {} /\ ToSet(free[a]) = {}
    BY <1>1, EmptyFacts DEF ArenaInit
  <2>2. Begin \in Nat /\ Begin <= Begin /\ Begin <= End /\ None \in Nat /\ Buf \in Nat /\ Buf <= Buf /\ Buf <= Buf + N
    BY ArenaConstants, SMT DEF None
  <2>3. <<>> \in Seq(Nat)
    BY NoElements
  <2>4. /\ pool \in [Allocators -> Nat] /\ free \in [Allocators -> Seq(Nat)]
        /\ carved \in [Allocators -> SUBSET Nat]
    BY <1>1, <2>2, <2>3 DEF ArenaInit
  <2>5. ArenaTypes
    BY <2>1, <2>2, <2>4 DEF ArenaTypes
  <2>6. ListInv
    <3>1. ASSUME NEW a \in Pooled
          PROVE  LentOf(live, a) = {} /\ a \in Allocators
      <4>1. \A x : x \notin LentOf(live, a)
        BY <2>1, LentIs, SMT
      <4> QED  BY <4>1, ArenaConstants
    <3> QED  BY <2>1, <3>1, EmptyFacts DEF ListInv
  <2>7. AlignedInv
    BY <2>1, ArenaConstants DEF AlignedInv
  <2>8. ASSUME NEW p \in PiecesOf(live, free, pool)
        PROVE  FALSE
    <3>1. \/ \E b \in live : p = LivePiece(b)
          \/ \E a \in Allocators : \E at \in ToSet(free[a]) : p = FreePiece(a, at)
          \/ \E a \in Allocators : pool[a] # None /\ p = PoolPiece(a, pool[a])
      BY PieceIs, SMT
    <3> QED  BY <2>1, <3>1
  <2> QED  BY <2>5, <2>6, <2>7, <2>8 DEF SoundSoFar, ArenaInv, Within, Apart
<1>2. ASSUME SoundSoFar, [ArenaNext]_arenaVars
      PROVE  SoundSoFar'
  <2>0. wrapped => wrapped'
    BY <1>2 DEF ArenaNext, arenaVars, AllocateOneFromList, AllocateOneFromChunk, AllocateOneThrows,
                AllocateMany, AllocateLinear, FromArena, AllocateStack, Deallocate, Reset, ResetStack
  <2> SUFFICES ASSUME ArenaInv, ~wrapped'
               PROVE  ArenaInv'
    BY <1>2, <2>0 DEF SoundSoFar
  <2>1. ASSUME NEW a \in Pooled, AllocateOneFromList(a) \/ AllocateOneFromChunk(a) \/ AllocateOneThrows(a)
        PROVE  ArenaInv'
    BY <2>1, FromListKeeps, FromChunkKeeps, ThrowsKeeps
  <2>2. ASSUME NEW a \in Allocators, NEW n \in Counts, AllocateMany(a, n) \/ AllocateLinear(a, n)
        PROVE  ArenaInv'
    <3>1. n \in Nat \ {0} /\ Counts \subseteq Nat \ {0}
      BY ArenaAssumption DEF ArenaAssumption
    <3>2. a \notin Stacked /\ ~(a \in Pooled /\ n = 1) /\ FromArena(a, n)
      BY <2>2, ArenaConstants DEF AllocateMany, AllocateLinear
    <3> QED  BY <3>1, <3>2, FromArenaKeeps
  <2>3. ASSUME NEW a \in Allocators, NEW n \in Counts, AllocateStack(a, n)
        PROVE  ArenaInv'
    <3>1. n \in Nat \ {0}
      BY ArenaAssumption DEF ArenaAssumption
    <3> QED  BY <2>3, <3>1, StackAllocKeeps
  <2>4. ASSUME NEW b \in live, Deallocate(b)
        PROVE  ArenaInv'
    BY <2>4, GiveBackKeeps, ForgetKeeps
  <2>5. CASE Reset
    BY <2>5, ResetKeeps
  <2>6. CASE ResetStack
    BY <2>6, ResetStackKeeps
  <2>7. CASE UNCHANGED arenaVars
    BY <2>7 DEF arenaVars, ArenaInv, ArenaTypes, ListInv, AlignedInv
  <2> QED  BY <1>2, <2>1, <2>2, <2>3, <2>4, <2>5, <2>6, <2>7 DEF ArenaNext
<1> QED  BY <1>1, <1>2, PTL DEF ArenaSpec

\* No byte of an arena has two owners, whatever is allocated, given back and reset
\* in whatever order, for any element sizes and alignments and any arena: blocks
\* in use, free blocks and pool objects do not overlap and lie below the cursor,
\* blocks are aligned for their element, single elements of an over-aligned one
\* excepted, and a pool neither loses a block nor hands one out twice (arena.h
\* 44-129, allocator.h 28-116, stack_allocator.h).  This lasts until the first
\* array whose size or end wraps around.
THEOREM MemoryHasOneOwner == ArenaSpec => []BlocksAreSound
<1>1. ASSUME ArenaInv
      PROVE  BlocksAreSound
  <2>1. Pieces = PiecesOf(live, free, pool) /\ \A a : FreeBlocks(a) = ToSet(free[a]) /\ Lent(a) = LentOf(live, a)
    <3>1. \A a : FreeBlocks(a) = ToSet(free[a])
      BY DEF FreeBlocks, ToSet
    <3>2. \A a : Lent(a) = LentOf(live, a)
      BY DEF Lent, LentOf
    <3>3. LivePieces = LivePiecesOf(live)
      BY DEF LivePieces, LivePiecesOf, LivePiece
    <3>4. FreePieces = FreePiecesOf(free)
      BY DEF FreePieces, FreePiecesOf, FreePiece, FreeBlocks, ToSet
    <3>5. PoolPieces = PoolPiecesOf(pool)
      BY DEF PoolPieces, PoolPiecesOf, PoolPiece
    <3>6. Pieces = PiecesOf(live, free, pool)
      BY <3>3, <3>4, <3>5 DEF Pieces, PiecesOf
    <3> QED  BY <3>1, <3>2, <3>6
  <2>2. ArenaTypeOK
    <3>1. cur \in Begin .. End /\ s_cur \in Buf .. Buf + N
      BY <1>1, ArenaConstants, SMT DEF ArenaInv, ArenaTypes
    <3>2. pool \in [Allocators -> Begin .. None]
      <4>1. ASSUME NEW a \in Allocators
            PROVE  pool[a] \in Begin .. None
        <5>1. pool[a] \in Nat /\ (pool[a] # None => Begin <= pool[a] /\ pool[a] <= End)
          BY <1>1 DEF ArenaInv, ArenaTypes
        <5> QED  BY <5>1, ArenaConstants, SMT DEF None
      <4>2. pool \in [Allocators -> Nat]
        BY <1>1 DEF ArenaInv, ArenaTypes
      <4> QED  BY <4>1, <4>2
    <3>3. \A a \in Allocators : \A i \in DOMAIN free[a] : free[a][i] \in carved[a]
      <4>1. ASSUME NEW a \in Allocators, NEW i \in DOMAIN free[a]
            PROVE  free[a][i] \in carved[a]
        <5>1. free[a][i] \in ToSet(free[a])
          BY DEF ToSet
        <5>2. CASE a \in Pooled
          BY <1>1, <5>1, <5>2 DEF ArenaInv, ListInv
        <5>3. CASE a \notin Pooled
          BY <1>1, <5>1, <5>3, EmptyFacts DEF ArenaInv, ArenaTypes
        <5> QED  BY <5>2, <5>3
      <4> QED  BY <4>1
    <3> QED  BY <3>1, <3>2, <3>3 DEF ArenaTypeOK
  <2>3. /\ \A p \in Pieces : IF p.a \in Stacked THEN p.at >= Buf /\ p.at + p.size <= s_cur
                                               ELSE p.at >= Begin /\ p.at + p.size <= cur
        /\ \A p, q \in Pieces : p # q => Disjoint(p, q)
    BY <1>1, <2>1 DEF ArenaInv, Within, Apart
  <2>4. \A b \in live : \/ b.at % AlignOf[b.a] = 0
                        \/ b.a \in Pooled /\ b.n = 1 /\ MaxAlign % AlignOf[b.a] # 0
    BY <1>1 DEF ArenaInv, AlignedInv, Aligned
  <2>5. \A a \in Pooled :
          /\ blk_size(a) % NodeAlign = 0 => \A x \in carved[a] : x % NodeAlign = 0
          /\ \A i, j \in DOMAIN free[a] : free[a][i] = free[a][j] => i = j
          /\ FreeBlocks(a) \cap Lent(a) = {}
          /\ FreeBlocks(a) \cup Lent(a) = carved[a]
    BY <1>1, <2>1 DEF ArenaInv, ListInv, AlignedInv, OnceEach
  <2> QED  BY <2>2, <2>3, <2>4, <2>5 DEF BlocksAreSound
<1>2. SoundSoFar => BlocksAreSound
  BY <1>1 DEF SoundSoFar, BlocksAreSound
<1> QED  BY <1>2, ArenaInvariance, PTL
=============================================================================
