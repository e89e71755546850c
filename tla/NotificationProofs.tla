------------------------- MODULE NotificationProofs -------------------------
(***************************************************************************)
(* The stop source's list and the Windows reactor.  ListIsSound, and that  *)
(* the linked nodes implement the list of callbacks, for every set of nodes*)
(* and every number of armings: the inductive invariant names the list the *)
(* pointers stand for, and that walking from the head finds this list is   *)
(* proved once.  PendingIsExact, TriggersAreCurrent and NothingSwallowed,  *)
(* for every set of sockets: the invariant says where a socket's one poll is*)
(* and which registration it belongs to.                                   *)
(***************************************************************************)
EXTENDS StopToken, IocpReactor, ListsProofs, FiniteSetTheorems, SequenceTheorems

\* Most leaves are first-order; those that need arithmetic or records say SMT.
USE Zenon

Links == [Nodes -> Nodes \cup {Nil}]

\* The pointers thread the nodes of c, in this order (37-55).
Threaded(c, h, nx, pv) ==
  /\ c \in Seq(Nodes) /\ OnceEach(c)
  /\ h = IF Len(c) = 0 THEN Nil ELSE c[1]
  /\ \A k \in 1 .. Len(c) : nx[c[k]] = IF k = Len(c) THEN Nil ELSE c[k + 1]
  /\ \A k \in 1 .. Len(c) : pv[c[k]] = IF k = 1 THEN Nil ELSE c[k - 1]

\* What is true of the nodes besides.
NodesInv ==
  /\ TypeOK
  /\ \A n \in Nodes : linked[n] => n \in alive
  /\ fired \in [Nodes -> {0, 1}]
  /\ \A n \in Nodes : linked[n] => fired[n] = 0
  /\ stopped /\ ~walking => \A n \in Nodes : ~linked[n]
  /\ n_arms \in Nat

SInv ==
  /\ NodesInv
  /\ \E c \in Seq(Nodes) : Threaded(c, head, next, prev) /\ ToSet(c) = {n \in Nodes : linked[n]}

\* A list without repetitions is not longer than the set of its elements.
LEMMA NotLonger ==
  ASSUME NEW c \in Seq(Nodes), OnceEach(c)
  PROVE  Cardinality(Nodes) \in Nat /\ Len(c) <= Cardinality(Nodes)
<1>1. Len(c) \in Nat /\ c \in [1 .. Len(c) -> Nodes] /\ DOMAIN c = 1 .. Len(c)
  BY Shape
<1>2. IsFiniteSet(Nodes) /\ Cardinality(Nodes) \in Nat
  BY NodesAssumption, FS_CardinalityType DEF NodesAssumption
<1>3. IsFiniteSet(1 .. Len(c)) /\ Cardinality(1 .. Len(c)) = Len(c)
  BY <1>1, FS_Interval, SMTT(30)
<1>4. ~(Cardinality(Nodes) < Len(c))
  BY <1>1, <1>2, <1>3, FS_PigeonHole, SMT DEF OnceEach
<1> QED  BY <1>1, <1>2, <1>4, SMT

\* What the walk has after k steps: the first k elements.
First(c, k) == [i \in 1 .. (IF k < Len(c) THEN k ELSE Len(c)) |-> c[i]]

\* It is a list.
LEMMA FirstFacts ==
  ASSUME NEW c \in Seq(Nodes), NEW k \in Nat
  PROVE  /\ First(c, k) \in Seq(Nodes)
         /\ Len(First(c, k)) = IF k < Len(c) THEN k ELSE Len(c)
         /\ \A i \in 1 .. (IF k < Len(c) THEN k ELSE Len(c)) : First(c, k)[i] = c[i]
         /\ ~(k < Len(c)) => First(c, k) = c
<1>1. PICK m \in Nat : m = (IF k < Len(c) THEN k ELSE Len(c)) /\ m <= Len(c)
  BY Shape, SMT
<1>2. First(c, k) = [i \in 1 .. m |-> c[i]]
  BY <1>1 DEF First
<1>3. \A i \in 1 .. m : c[i] \in Nodes
  BY <1>1, Shape, SMT
<1>4. First(c, k) \in Seq(Nodes) /\ Len(First(c, k)) = m /\ \A i \in 1 .. m : First(c, k)[i] = c[i]
  BY <1>2, <1>3, SMT
<1>5. ASSUME ~(k < Len(c))
      PROVE  First(c, k) = c
  BY <1>1, <1>2, <1>5, Shape
<1> QED  BY <1>1, <1>4, <1>5

\* The equation of the walk in ChainFrom.
Walks(f, h, nx) ==
  f = [k \in 0 .. Cardinality(Nodes) |->
         IF k = 0 THEN <<>>
         ELSE LET w == f[k - 1]
                  n == IF w = <<>> THEN h ELSE nx[w[Len(w)]]
              IN  IF n = Nil THEN w ELSE Append(w, n)]

\* The step from k - 1 to k elements.
LEMMA WalkStepIs ==
  ASSUME NEW c, NEW h, NEW nx, NEW pv, Threaded(c, h, nx, pv), NEW k \in Nat \ {0}
  PROVE  LET w == First(c, k - 1)
             n == IF w = <<>> THEN h ELSE nx[w[Len(w)]]
         IN  First(c, k) = IF n = Nil THEN w ELSE Append(w, n)
<1>1. c \in Seq(Nodes) /\ Len(c) \in Nat /\ DOMAIN c = 1 .. Len(c) /\ \A i \in 1 .. Len(c) : c[i] \in Nodes
  BY Shape DEF Threaded
<1>2. Nil \notin Nodes
  BY NodesAssumption DEF NodesAssumption
<1>3. PICK w : w = First(c, k - 1)
  OBVIOUS
<1>4. PICK n : n = IF w = <<>> THEN h ELSE nx[w[Len(w)]]
  OBVIOUS
<1>5. /\ h = IF Len(c) = 0 THEN Nil ELSE c[1]
      /\ \A i \in 1 .. Len(c) : nx[c[i]] = IF i = Len(c) THEN Nil ELSE c[i + 1]
  BY DEF Threaded
<1>6. CASE k - 1 < Len(c)
  <2>1. k - 1 \in Nat /\ k \in 1 .. Len(c)
    BY <1>1, <1>6, SMT
  <2>2. w \in Seq(Nodes) /\ Len(w) = k - 1 /\ \A i \in 1 .. k - 1 : w[i] = c[i]
    BY <1>1, <1>3, <1>6, <2>1, FirstFacts
  <2>3. n = c[k]
    <3>1. CASE k = 1
      <4>1. w = <<>>
        BY <2>2, <3>1, SMT
      <4>2. n = h
        BY <1>4, <4>1
      <4>3. Len(c) # 0
        BY <1>1, <2>1, SMT
      <4> QED  BY <1>5, <3>1, <4>2, <4>3
    <3>2. CASE k # 1
      <4>1. w # <<>> /\ w[Len(w)] = c[k - 1] /\ k - 1 \in 1 .. Len(c) /\ k - 1 # Len(c) /\ (k - 1) + 1 = k
        BY <1>1, <1>6, <2>1, <2>2, <3>2, SMT
      <4> QED  BY <1>4, <1>5, <4>1
    <3> QED  BY <3>1, <3>2
  <2>4. /\ First(c, k) \in Seq(Nodes) /\ Len(First(c, k)) = k
        /\ \A i \in 1 .. k : First(c, k)[i] = c[i]
    BY <1>1, <2>1, FirstFacts, SMT
  <2>5. n \in Nodes
    BY <1>1, <2>1, <2>3
  <2>6. Append(w, n) = First(c, k)
    BY <2>1, <2>2, <2>3, <2>4, <2>5, SMT
  <2> QED  BY <1>2, <1>3, <1>4, <2>5, <2>6
<1>7. CASE ~(k - 1 < Len(c))
  <2>1. w = c /\ First(c, k) = c
    BY <1>1, <1>3, <1>7, FirstFacts, SMT
  <2>2. n = Nil
    <3>1. CASE Len(c) = 0
      <4>1. w = <<>>
        BY <1>1, <2>1, <3>1, SMT
      <4> QED  BY <1>4, <1>5, <3>1, <4>1
    <3>2. CASE Len(c) # 0
      <4>1. w # <<>> /\ Len(w) = Len(c) /\ Len(c) \in 1 .. Len(c)
        BY <1>1, <2>1, <3>2, SMT
      <4> QED  BY <1>4, <1>5, <2>1, <4>1
    <3> QED  BY <3>1, <3>2
  <2> QED  BY <1>3, <1>4, <2>1, <2>2
<1> QED  BY <1>6, <1>7

\* The walk from the head finds the list the pointers thread.
LEMMA ChainIs ==
  ASSUME NEW c, NEW h, NEW nx, NEW pv, Threaded(c, h, nx, pv)
  PROVE  ChainFrom(h, nx) = c
<1> DEFINE N == Cardinality(Nodes)
           F == [k \in 0 .. N |-> First(c, k)]
           f == CHOOSE f : Walks(f, h, nx)
<1>1. c \in Seq(Nodes) /\ N \in Nat /\ Len(c) <= N /\ Len(c) \in Nat
  BY NotLonger, Shape DEF Threaded
<1>2. First(c, 0) = <<>>
  BY <1>1, FirstFacts, SMT
<1>3. ASSUME NEW k \in 0 .. N, k # 0
      PROVE  LET w == First(c, k - 1)
                 n == IF w = <<>> THEN h ELSE nx[w[Len(w)]]
             IN  First(c, k) = IF n = Nil THEN w ELSE Append(w, n)
  <2>1. k \in Nat \ {0}
    BY <1>1, <1>3, SMT
  <2> QED  BY <2>1, WalkStepIs
<1> HIDE DEF N
<1>4. Walks(F, h, nx)
  <2>1. ASSUME NEW k \in 0 .. N
        PROVE  First(c, k) = IF k = 0 THEN <<>>
                             ELSE LET w == F[k - 1]
                                      n == IF w = <<>> THEN h ELSE nx[w[Len(w)]]
                                  IN  IF n = Nil THEN w ELSE Append(w, n)
    <3>1. CASE k = 0
      BY <1>2, <3>1
    <3>2. CASE k # 0
      <4>1. k - 1 \in 0 .. N
        BY <1>1, <3>2, SMT
      <4>2. F[k - 1] = First(c, k - 1)
        BY <4>1
      <4> HIDE DEF F
      <4> QED  BY <1>3, <3>2, <4>2
    <3> QED  BY <3>1, <3>2
  <2> QED  BY <2>1, SMTT(30) DEF Walks, N
<1>5. Walks(f, h, nx) /\ ChainFrom(h, nx) = f[N]
  BY <1>4 DEF ChainFrom, Walks, N
<1> HIDE DEF F, f
<1>6. \A k \in 0 .. N : f[k] = First(c, k)
  <2> DEFINE T == {k \in 0 .. N : f[k] # First(c, k)}
  <2> SUFFICES ASSUME T # {}
               PROVE  FALSE
      OBVIOUS
  <2>1. PICK k \in T : \A m \in T : ~(m < k)
    <3>1. T \subseteq Nat
      BY <1>1, SMT
    <3> HIDE DEF T
    <3> QED  BY <3>1, Least
  <2>2. f[k] = IF k = 0 THEN <<>>
               ELSE LET w == f[k - 1]
                        n == IF w = <<>> THEN h ELSE nx[w[Len(w)]]
                    IN  IF n = Nil THEN w ELSE Append(w, n)
    BY <1>5 DEF Walks, N
  <2>3. CASE k = 0
    BY <1>2, <2>2, <2>3
  <2>4. CASE k # 0
    <3>1. k - 1 \in 0 .. N /\ k - 1 < k
      BY <1>1, <2>4, SMT
    <3>2. f[k - 1] = First(c, k - 1)
      BY <2>1, <3>1
    <3> QED  BY <1>3, <2>2, <2>4, <3>2
  <2> QED  BY <2>3, <2>4
<1>7. First(c, N) = c /\ N \in 0 .. N
  BY <1>1, FirstFacts, SMT
<1> QED  BY <1>5, <1>6, <1>7

\* What Threaded says, for one position at a time.
LEMMA ThreadedFacts ==
  ASSUME NEW c, NEW h, NEW nx, NEW pv, Threaded(c, h, nx, pv)
  PROVE  /\ c \in Seq(Nodes) /\ Len(c) \in Nat /\ DOMAIN c = 1 .. Len(c)
         /\ \A k \in 1 .. Len(c) : c[k] \in Nodes /\ c[k] \in ToSet(c) /\ c[k] # Nil
         /\ \A n \in ToSet(c) : \E k \in 1 .. Len(c) : c[k] = n
         /\ \A k, l \in 1 .. Len(c) : c[k] = c[l] => k = l
         /\ h = IF Len(c) = 0 THEN Nil ELSE c[1]
         /\ \A k \in 1 .. Len(c) : nx[c[k]] = IF k = Len(c) THEN Nil ELSE c[k + 1]
         /\ \A k \in 1 .. Len(c) : pv[c[k]] = IF k = 1 THEN Nil ELSE c[k - 1]
<1>1. c \in Seq(Nodes) /\ Len(c) \in Nat /\ DOMAIN c = 1 .. Len(c)
  BY Shape DEF Threaded
<1>2. \A k \in 1 .. Len(c) : c[k] \in Nodes /\ c[k] # Nil
  BY <1>1, NodesAssumption, SMT DEF NodesAssumption
<1>3. /\ \A k \in 1 .. Len(c) : c[k] \in ToSet(c)
      /\ \A n \in ToSet(c) : \E k \in 1 .. Len(c) : c[k] = n
  BY <1>1 DEF ToSet
<1>4. \A k, l \in 1 .. Len(c) : c[k] = c[l] => k = l
  BY <1>1 DEF Threaded, OnceEach
<1> QED  BY <1>1, <1>2, <1>3, <1>4 DEF Threaded

\* link puts a node that was not there before the others (37-44).
LEMMA LinkThreads ==
  ASSUME NEW c, NEW h, NEW nx \in Links, NEW pv \in Links, Threaded(c, h, nx, pv),
         NEW cb \in Nodes, cb \notin ToSet(c),
         NEW nx2, nx2 = [n \in Nodes |-> IF n = cb THEN h ELSE nx[n]],
         NEW pv2, pv2 = [n \in Nodes |-> IF n = cb THEN Nil ELSE IF n = h THEN cb ELSE pv[n]]
  PROVE  /\ Threaded(<<cb>> \o c, cb, nx2, pv2)
         /\ ToSet(<<cb>> \o c) = ToSet(c) \cup {cb}
<1>1. /\ c \in Seq(Nodes) /\ Len(c) \in Nat
      /\ \A k \in 1 .. Len(c) : c[k] \in Nodes /\ c[k] \in ToSet(c) /\ c[k] # Nil
      /\ \A k, l \in 1 .. Len(c) : c[k] = c[l] => k = l
      /\ h = IF Len(c) = 0 THEN Nil ELSE c[1]
      /\ \A k \in 1 .. Len(c) : nx[c[k]] = IF k = Len(c) THEN Nil ELSE c[k + 1]
      /\ \A k \in 1 .. Len(c) : pv[c[k]] = IF k = 1 THEN Nil ELSE c[k - 1]
  BY ThreadedFacts, SMT
<1>2. PICK d : d = <<cb>> \o c
  OBVIOUS
<1>3. /\ d \in Seq(Nodes) /\ OnceEach(d) /\ ToSet(d) = ToSet(c) \cup {cb}
  BY <1>1, <1>2, PrependFacts, SMT DEF Threaded
<1>4. /\ Len(d) = Len(c) + 1 /\ d[1] = cb
      /\ \A k \in 2 .. Len(c) + 1 : d[k] = c[k - 1]
  BY <1>1, <1>2, SMT
<1>5. /\ nx2[cb] = h /\ pv2[cb] = Nil
      /\ \A n \in Nodes : n # cb => nx2[n] = nx[n] /\ pv2[n] = IF n = h THEN cb ELSE pv[n]
  BY DEF Links
<1>6. ASSUME NEW k \in 1 .. Len(d)
      PROVE  /\ nx2[d[k]] = IF k = Len(d) THEN Nil ELSE d[k + 1]
             /\ pv2[d[k]] = IF k = 1 THEN Nil ELSE d[k - 1]
  <2>1. CASE k = 1
    <3>1. Len(c) # 0 => d[2] = c[1]
      BY <1>1, <1>4, SMT
    <3> QED  BY <1>1, <1>4, <1>5, <2>1, <3>1, SMT
  <2>2. CASE k # 1
    <3>1. PICK l \in 1 .. Len(c) : l = k - 1
      BY <1>1, <1>4, <2>2, SMT
    <3>2. d[k] = c[l] /\ c[l] \in Nodes /\ c[l] # cb
      BY <1>1, <1>4, <2>2, <3>1, SMT
    <3>3. l # Len(c) => d[k + 1] = c[l + 1]
      BY <1>1, <1>4, <2>2, <3>1, SMTT(30)
    <3>4. ASSUME l # 1
          PROVE  d[k - 1] = c[l - 1] /\ c[l] # h
      <4>1. k - 1 \in 2 .. Len(c) + 1 /\ (k - 1) - 1 = l - 1
        BY <1>1, <3>1, <3>4, SMT
      <4>2. h = c[1] /\ 1 \in 1 .. Len(c)
        BY <1>1, <3>1, SMT
      <4> QED  BY <1>1, <1>4, <3>4, <4>1, <4>2
    <3>5. l = 1 => d[k - 1] = cb /\ c[l] = h
      BY <1>1, <1>4, <2>2, <3>1, SMT
    <3>6. nx2[d[k]] = IF k = Len(d) THEN Nil ELSE d[k + 1]
      BY <1>1, <1>4, <1>5, <3>1, <3>2, <3>3, SMT
    <3>7. pv2[d[k]] = IF l = 1 THEN cb ELSE c[l - 1]
      BY <1>1, <1>5, <3>2, <3>4, <3>5, ZenonT(60)
    <3>8. pv2[d[k]] = d[k - 1]
      BY <3>4, <3>5, <3>7
    <3> QED  BY <2>2, <3>6, <3>8
  <2> QED  BY <2>1, <2>2
<1>7. cb = IF Len(d) = 0 THEN Nil ELSE d[1]
  BY <1>1, <1>4, SMT
<1>8. Threaded(d, cb, nx2, pv2)
  BY <1>3, <1>6, <1>7 DEF Threaded
<1> QED  BY <1>2, <1>3, <1>8

\* c without its i-th element.
Cut(c, i) == [k \in 1 .. Len(c) - 1 |-> IF k < i THEN c[k] ELSE c[k + 1]]

\* unlink takes a node of the list out, wherever it stands (46-55).
LEMMA UnlinkThreads ==
  ASSUME NEW c, NEW h, NEW nx \in Links, NEW pv \in Links, Threaded(c, h, nx, pv),
         NEW i \in 1 .. Len(c), NEW cb, cb = c[i],
         NEW h2, h2 = IF pv[cb] = Nil THEN nx[cb] ELSE h,
         NEW nx2, nx2 = [n \in Nodes |-> IF n = cb THEN Nil ELSE IF n = pv[cb] THEN nx[cb] ELSE nx[n]],
         NEW pv2, pv2 = [n \in Nodes |-> IF n = cb THEN Nil ELSE IF n = nx[cb] THEN pv[cb] ELSE pv[n]]
  PROVE  Threaded(Cut(c, i), h2, nx2, pv2) /\ ToSet(Cut(c, i)) = ToSet(c) \ {cb}
<1>1. /\ c \in Seq(Nodes) /\ Len(c) \in Nat
      /\ \A k \in 1 .. Len(c) : c[k] \in Nodes /\ c[k] \in ToSet(c) /\ c[k] # Nil
      /\ \A n \in ToSet(c) : \E k \in 1 .. Len(c) : c[k] = n
      /\ \A k, l \in 1 .. Len(c) : c[k] = c[l] => k = l
      /\ h = IF Len(c) = 0 THEN Nil ELSE c[1]
      /\ \A k \in 1 .. Len(c) : nx[c[k]] = IF k = Len(c) THEN Nil ELSE c[k + 1]
      /\ \A k \in 1 .. Len(c) : pv[c[k]] = IF k = 1 THEN Nil ELSE c[k - 1]
  BY ThreadedFacts, SMT
<1>2. PICK d : d = Cut(c, i)
  OBVIOUS
<1>3. i \in Nat /\ Len(c) - 1 \in Nat /\ i >= 1 /\ i <= Len(c)
  BY <1>1, SMT
\* The old position of the k-th element that is left.
<1>4. PICK old \in [1 .. Len(c) - 1 -> 1 .. Len(c)] :
        \A k \in 1 .. Len(c) - 1 : old[k] = (IF k < i THEN k ELSE k + 1) /\ old[k] # i
  <2>1. PICK f : f = [k \in 1 .. Len(c) - 1 |-> IF k < i THEN k ELSE k + 1]
    OBVIOUS
  <2>2. \A k \in 1 .. Len(c) - 1 : (IF k < i THEN k ELSE k + 1) \in 1 .. Len(c)
    BY <1>3, SMT
  <2>3. f \in [1 .. Len(c) - 1 -> 1 .. Len(c)] /\ \A k \in 1 .. Len(c) - 1 : f[k] = IF k < i THEN k ELSE k + 1
    BY <2>1, <2>2
  <2> QED  BY <1>3, <2>3, SMT
<1>5. /\ d \in Seq(Nodes) /\ Len(d) = Len(c) - 1 /\ DOMAIN d = 1 .. Len(c) - 1
      /\ \A k \in 1 .. Len(c) - 1 : d[k] = c[old[k]]
  <2>1. d = [k \in 1 .. Len(c) - 1 |-> IF k < i THEN c[k] ELSE c[k + 1]]
    BY <1>2 DEF Cut
  <2>2. \A k \in 1 .. Len(c) - 1 : (IF k < i THEN c[k] ELSE c[k + 1]) \in Nodes
    BY <1>1, <1>3, SMT
  <2>3. d \in Seq(Nodes) /\ Len(d) = Len(c) - 1 /\ DOMAIN d = 1 .. Len(c) - 1
    BY <1>3, <2>1, <2>2, SMT
  <2> QED  BY <1>3, <1>4, <2>1, <2>3
<1>6. OnceEach(d)
  <2> SUFFICES ASSUME NEW k \in 1 .. Len(c) - 1, NEW l \in 1 .. Len(c) - 1, d[k] = d[l]
               PROVE  k = l
      BY <1>5 DEF OnceEach
  <2>1. PICK a \in 1 .. Len(c), b \in 1 .. Len(c) : a = old[k] /\ b = old[l]
    OBVIOUS
  <2>2. a = b
    BY <1>1, <1>5, <2>1, SMTT(30)
  <2>3. (IF k < i THEN k ELSE k + 1) = (IF l < i THEN l ELSE l + 1)
    BY <1>4, <2>1, <2>2
  <2> QED  BY <1>3, <2>3, SMT
<1>7. ToSet(d) = ToSet(c) \ {cb}
  <2>1. ToSet(d) \subseteq ToSet(c) \ {cb}
    <3> SUFFICES ASSUME NEW k \in 1 .. Len(c) - 1
                 PROVE  d[k] \in ToSet(c) /\ d[k] # cb
        BY <1>5 DEF ToSet
    <3>1. PICK a \in 1 .. Len(c) : a = old[k] /\ a # i
      BY <1>4
    <3> QED  BY <1>1, <1>5, <3>1, SMT
  <2>2. ASSUME NEW n \in ToSet(c), n # cb
        PROVE  n \in ToSet(d)
    <3>1. PICK l \in 1 .. Len(c) : c[l] = n
      BY <1>1
    <3>2. PICK k \in 1 .. Len(c) - 1 : old[k] = l
      <4>1. CASE l < i
        <5>1. l \in 1 .. Len(c) - 1
          BY <1>3, <4>1, SMT
        <5> QED  BY <1>4, <4>1, <5>1
      <4>2. CASE l > i
        <5>1. l - 1 \in 1 .. Len(c) - 1 /\ old[l - 1] = l
          BY <1>1, <1>3, <1>4, <4>2, SMT
        <5> QED  BY <5>1
      <4> QED  BY <1>3, <2>2, <3>1, <4>1, <4>2, SMT
    <3> QED  BY <1>5, <3>1, <3>2 DEF ToSet
  <2> QED  BY <2>1, <2>2
<1>8. /\ nx[cb] = IF i = Len(c) THEN Nil ELSE c[i + 1]
      /\ pv[cb] = IF i = 1 THEN Nil ELSE c[i - 1]
  BY <1>1
<1>9. ASSUME NEW l \in 1 .. Len(c), l # i
      PROVE  /\ nx2[c[l]] = IF l = i - 1 THEN nx[cb] ELSE nx[c[l]]
             /\ pv2[c[l]] = IF l = i + 1 THEN pv[cb] ELSE pv[c[l]]
  <2>1. c[l] \in Nodes /\ c[l] # cb /\ c[l] # Nil
    BY <1>1, <1>9
  <2>2. c[l] = pv[cb] <=> l = i - 1
    BY <1>1, <1>3, <1>8, <2>1, SMT
  <2>3. c[l] = nx[cb] <=> l = i + 1
    BY <1>1, <1>3, <1>8, <2>1, SMT
  <2> QED  BY <2>1, <2>2, <2>3
<1>10. ASSUME NEW k \in 1 .. Len(d)
       PROVE  /\ nx2[d[k]] = IF k = Len(d) THEN Nil ELSE d[k + 1]
              /\ pv2[d[k]] = IF k = 1 THEN Nil ELSE d[k - 1]
  <2>1. k \in 1 .. Len(c) - 1 /\ k \in Nat /\ (k # Len(d) => k + 1 \in 1 .. Len(c) - 1)
        /\ (k # 1 => k - 1 \in 1 .. Len(c) - 1)
    BY <1>3, <1>5, SMT
  <2>2. PICK l \in 1 .. Len(c) : l = old[k] /\ l # i /\ d[k] = c[l] /\ l = IF k < i THEN k ELSE k + 1
    BY <1>4, <1>5, <2>1
  <2>3. nx2[d[k]] = IF k = Len(d) THEN Nil ELSE d[k + 1]
    <3>1. nx2[d[k]] = IF l = i - 1 THEN nx[cb] ELSE nx[c[l]]
      BY <1>9, <2>2
    <3>2. k # Len(d) => d[k + 1] = IF k + 1 < i THEN c[k + 1] ELSE c[(k + 1) + 1]
      BY <1>4, <1>5, <2>1
    <3>3. CASE l = i - 1
      BY <1>3, <1>5, <1>8, <2>1, <2>2, <3>1, <3>2, <3>3, SMT
    <3>4. CASE l # i - 1
      <4>1. nx2[d[k]] = IF l = Len(c) THEN Nil ELSE c[l + 1]
        BY <1>1, <3>1, <3>4
      <4> QED  BY <1>3, <1>5, <2>1, <2>2, <3>2, <3>4, <4>1, SMT
    <3> QED  BY <3>3, <3>4
  <2>4. pv2[d[k]] = IF k = 1 THEN Nil ELSE d[k - 1]
    <3>1. pv2[d[k]] = IF l = i + 1 THEN pv[cb] ELSE pv[c[l]]
      BY <1>9, <2>2
    <3>2. k # 1 => d[k - 1] = IF k - 1 < i THEN c[k - 1] ELSE c[(k - 1) + 1]
      BY <1>4, <1>5, <2>1
    <3>3. CASE l = i + 1
      BY <1>3, <1>5, <1>8, <2>1, <2>2, <3>1, <3>2, <3>3, SMT
    <3>4. CASE l # i + 1
      <4>1. pv2[d[k]] = IF l = 1 THEN Nil ELSE c[l - 1]
        BY <1>1, <3>1, <3>4, SMTT(30)
      <4>2. CASE k < i
        <5>1. l = k /\ (k # 1 => d[k - 1] = c[k - 1])
          BY <1>3, <2>1, <2>2, <3>2, <4>2, SMT
        <5> QED  BY <4>1, <5>1
      <4>3. CASE ~(k < i)
        <5>1. l = k + 1 /\ l # 1 /\ k # 1 /\ ~(k - 1 < i) /\ (k - 1) + 1 = l - 1
          BY <1>3, <2>1, <2>2, <3>4, <4>3, SMT
        <5> QED  BY <3>2, <4>1, <5>1
      <4> QED  BY <4>2, <4>3
    <3> QED  BY <3>3, <3>4
  <2> QED  BY <2>3, <2>4
<1>11. h2 = IF Len(d) = 0 THEN Nil ELSE d[1]
  <2>1. CASE i = 1
    <3>1. h2 = IF 1 = Len(c) THEN Nil ELSE c[2]
      BY <1>8, <2>1, SMT
    <3>2. Len(d) # 0 => d[1] = c[2]
      BY <1>3, <1>4, <1>5, <2>1, SMT
    <3>3. Len(d) = 0 <=> 1 = Len(c)
      BY <1>3, <1>5, SMT
    <3> QED  BY <3>1, <3>2, <3>3
  <2>2. CASE i # 1
    <3>1. h2 = c[1] /\ Len(d) # 0
      <4>1. i - 1 \in 1 .. Len(c) /\ Len(c) # 0 /\ Len(d) # 0
        BY <1>3, <1>5, <2>2, SMT
      <4>2. pv[cb] # Nil
        BY <1>1, <1>8, <2>2, <4>1, SMT
      <4> QED  BY <1>1, <4>1, <4>2
    <3>2. d[1] = c[1]
      BY <1>3, <1>4, <1>5, <2>2, SMT
    <3> QED  BY <3>1, <3>2
  <2> QED  BY <2>1, <2>2
<1>12. Threaded(d, h2, nx2, pv2)
  BY <1>5, <1>6, <1>10, <1>11 DEF Threaded
<1> QED  BY <1>2, <1>7, <1>12

\* The list the pointers stand for, in the states the program reaches.
LEMMA SoundList ==
  ASSUME SInv
  PROVE  /\ Threaded(Chain, head, next, prev) /\ ToSet(Chain) = {n \in Nodes : linked[n]}
         /\ NodesInv /\ TypeOK /\ next \in Links /\ prev \in Links
<1>1. PICK c : Threaded(c, head, next, prev) /\ ToSet(c) = {n \in Nodes : linked[n]}
  BY DEF SInv
<1>2. Chain = c
  BY <1>1, ChainIs DEF Chain
<1> QED  BY <1>1, <1>2 DEF SInv, NodesInv, TypeOK, Links

\* The next state's list, once it is known.
LEMMA NextList ==
  ASSUME NEW c, Threaded(c, head', next', prev'), ToSet(c) = {n \in Nodes : linked'[n]}, NodesInv'
  PROVE  SInv' /\ Chain' = c
<1>1. Chain' = c
  BY ChainIs DEF Chain
<1> QED  BY <1>1 DEF SInv, Threaded

\* A constructed node is in no list (70-74).
LEMMA ConstructKeeps ==
  ASSUME SInv, NEW n \in Nodes, Construct(n)
  PROVE  SInv' /\ UNCHANGED List!vars
<1>1. PICK c : c = Chain
  OBVIOUS
<1>2. /\ Threaded(c, head, next, prev) /\ ToSet(c) = {m \in Nodes : linked[m]}
      /\ NodesInv /\ TypeOK /\ next \in Links /\ prev \in Links
  BY <1>1, SoundList
<1>3. n \notin ToSet(c)
  BY <1>2 DEF Construct, NodesInv
<1>4. \A k \in 1 .. Len(c) : next'[c[k]] = next[c[k]] /\ prev'[c[k]] = prev[c[k]]
  BY <1>2, <1>3, ThreadedFacts, SMT DEF Construct, Links
<1>5. Threaded(c, head', next', prev')
  BY <1>2, <1>4 DEF Threaded, Construct
<1>6. ToSet(c) = {m \in Nodes : linked'[m]}
  BY <1>2, <1>3 DEF Construct, TypeOK
<1>7. NodesInv'
  BY <1>2 DEF NodesInv, TypeOK, Construct
<1>8. SInv' /\ Chain' = c
  BY <1>5, <1>6, <1>7, NextList
<1> QED  BY <1>1, <1>8 DEF Construct, List!vars

\* A node is armed: it is called at once or put first (86-98).
LEMMA ArmKeeps ==
  ASSUME SInv, NEW cb \in Nodes, _arm(cb)
  PROVE  SInv' /\ List!Arm(cb)
<1>1. PICK c : c = Chain
  OBVIOUS
<1>2. /\ Threaded(c, head, next, prev) /\ ToSet(c) = {m \in Nodes : linked[m]}
      /\ NodesInv /\ TypeOK /\ next \in Links /\ prev \in Links
  BY <1>1, SoundList
<1>3. cb \notin ToSet(c)
  BY <1>2 DEF _arm
<1>4. ~List!IsArmed(cb)
  BY <1>1, <1>3 DEF List!IsArmed, ToSet
<1>5. CASE stopped
  <2>1. /\ calls' = Append(calls, cb) /\ fired' = [fired EXCEPT ![cb] = 1]
        /\ UNCHANGED <<head, next, prev, linked, stopped, alive, walking>> /\ n_arms' = n_arms + 1
    BY <1>5 DEF _arm
  <2>2. NodesInv'
    <3>1. calls' \in Seq(Nodes) /\ TypeOK'
      BY <1>2, <2>1, AppendFacts DEF TypeOK
    <3>2. ~linked[cb] /\ fired \in [Nodes -> {0, 1}] /\ n_arms \in Nat
      BY <1>2 DEF _arm, NodesInv
    <3>3. fired' \in [Nodes -> {0, 1}] /\ \A m \in Nodes : linked[m] => fired'[m] = fired[m]
      BY <2>1, <3>2
    <3> QED  BY <1>2, <2>1, <3>1, <3>2, <3>3, SMT DEF NodesInv
  <2>3. SInv' /\ Chain' = c
    BY <1>2, <2>1, <2>2, NextList
  <2> QED  BY <1>1, <1>4, <1>5, <2>1, <2>3 DEF List!Arm
<1>6. CASE ~stopped
  <2>1. /\ link(cb) /\ fired' = [fired EXCEPT ![cb] = 0] /\ cb \in alive
        /\ UNCHANGED <<stopped, alive, walking, calls>> /\ n_arms' = n_arms + 1
    BY <1>6 DEF _arm
  <2>2. /\ Threaded(<<cb>> \o c, head', next', prev')
        /\ ToSet(<<cb>> \o c) = ToSet(c) \cup {cb}
    <3>1. /\ prev' = [n \in Nodes |-> IF n = cb THEN Nil ELSE IF n = head THEN cb ELSE prev[n]]
          /\ next' = [next EXCEPT ![cb] = head] /\ head' = cb
      BY <2>1 DEF link
    <3>2. PICK h, nx, pv, nx2, pv2 : /\ h = head /\ nx = next /\ pv = prev
                                     /\ nx2 = next' /\ pv2 = prev'
      OBVIOUS
    <3>3. nx \in Links /\ pv \in Links /\ Threaded(c, h, nx, pv)
      BY <1>2, <3>2
    <3>4. /\ nx2 = [n \in Nodes |-> IF n = cb THEN h ELSE nx[n]]
          /\ pv2 = [n \in Nodes |-> IF n = cb THEN Nil ELSE IF n = h THEN cb ELSE pv[n]]
      BY <3>1, <3>2, <3>3 DEF Links
    <3>5. /\ Threaded(<<cb>> \o c, cb, nx2, pv2)
          /\ ToSet(<<cb>> \o c) = ToSet(c) \cup {cb}
      BY <1>3, <3>3, <3>4, LinkThreads, SMT
    <3> QED  BY <3>1, <3>2, <3>5
  <2>3. ToSet(<<cb>> \o c) = {m \in Nodes : linked'[m]}
    <3>1. \A m \in Nodes : linked'[m] <=> m = cb \/ linked[m]
      BY <1>2, <2>1 DEF link, TypeOK
    <3> QED  BY <1>2, <2>2, <3>1
  <2>4. NodesInv'
    <3>1. TypeOK'
      <4>1. head \in Nodes \cup {Nil}
        BY <1>2 DEF TypeOK
      <4> QED  BY <1>2, <2>1, <4>1 DEF TypeOK, link
    <3>2. fired \in [Nodes -> {0, 1}] /\ n_arms \in Nat
      BY <1>2 DEF NodesInv
    <3>3. fired' \in [Nodes -> {0, 1}] /\ \A m \in Nodes : fired'[m] = IF m = cb THEN 0 ELSE fired[m]
      BY <2>1, <3>2
    <3>4. \A m \in Nodes : linked'[m] => m = cb \/ linked[m]
      BY <1>2, <2>1 DEF link, TypeOK
    <3> QED  BY <1>2, <1>6, <2>1, <3>1, <3>2, <3>3, <3>4, SMT DEF NodesInv
  <2>5. SInv' /\ Chain' = <<cb>> \o c
    BY <2>2, <2>3, <2>4, NextList
  <2> QED  BY <1>1, <1>4, <1>6, <2>1, <2>5 DEF List!Arm
<1> QED  BY <1>5, <1>6

\* A linked node is taken out, by its destructor or by request_stop (46-55).
LEMMA UnlinkKeeps ==
  ASSUME SInv, NEW cb \in Nodes, linked[cb], unlink(cb)
  PROVE  \E i \in 1 .. Len(Chain) :
           /\ Chain[i] = cb /\ (cb = head => i = 1)
           /\ Threaded(Cut(Chain, i), head', next', prev')
           /\ ToSet(Cut(Chain, i)) = {m \in Nodes : linked'[m]}
<1>1. PICK c : c = Chain
  OBVIOUS
<1>2. /\ Threaded(c, head, next, prev) /\ ToSet(c) = {m \in Nodes : linked[m]}
      /\ TypeOK /\ next \in Links /\ prev \in Links
  BY <1>1, SoundList
<1>3. PICK i \in 1 .. Len(c) : c[i] = cb
  BY <1>2, ThreadedFacts, ZenonT(60)
<1>4. cb = head => i = 1
  BY <1>2, <1>3, ThreadedFacts, SMT
<1>5. /\ head' = IF prev[cb] = Nil THEN next[cb] ELSE head
      /\ next' = [n \in Nodes |-> IF n = cb THEN Nil ELSE IF n = prev[cb] THEN next[cb] ELSE next[n]]
      /\ prev' = [n \in Nodes |-> IF n = cb THEN Nil ELSE IF n = next[cb] THEN prev[cb] ELSE prev[n]]
      /\ linked' = [linked EXCEPT ![cb] = FALSE]
  BY DEF unlink
<1>6. PICK h, nx, pv : h = head' /\ nx = next' /\ pv = prev'
  OBVIOUS
<1>7. Threaded(Cut(c, i), h, nx, pv) /\ ToSet(Cut(c, i)) = ToSet(c) \ {cb}
  BY <1>2, <1>3, <1>5, <1>6, UnlinkThreads, SMT
<1>8. ToSet(Cut(c, i)) = {m \in Nodes : linked'[m]}
  BY <1>2, <1>5, <1>7 DEF TypeOK
<1> QED  BY <1>1, <1>3, <1>4, <1>6, <1>7, <1>8

\* The pointers stay pointers.
LEMMA UnlinkTypes ==
  ASSUME TypeOK, NEW cb \in Nodes, unlink(cb)
  PROVE  /\ head' \in Nodes \cup {Nil} /\ next' \in Links /\ prev' \in Links
         /\ linked' \in [Nodes -> BOOLEAN]
         /\ \A m \in Nodes : linked'[m] <=> linked[m] /\ m # cb
<1>1. next[cb] \in Nodes \cup {Nil} /\ prev[cb] \in Nodes \cup {Nil}
  BY DEF TypeOK
<1> QED  BY <1>1 DEF unlink, TypeOK, Links

\* A node is destroyed, linked or not (71-74).
LEMMA DestroyKeeps ==
  ASSUME SInv, NEW cb \in Nodes, Destroy(cb)
  PROVE  SInv' /\ (List!Withdraw(cb) \/ UNCHANGED List!vars)
<1>1. PICK c : c = Chain
  OBVIOUS
<1>2. /\ Threaded(c, head, next, prev) /\ ToSet(c) = {m \in Nodes : linked[m]} /\ NodesInv /\ TypeOK
  BY <1>1, SoundList
<1>3. alive' = alive \ {cb} /\ UNCHANGED <<stopped, walking, calls, n_arms, fired>>
  BY DEF Destroy
<1>4. CASE linked[cb]
  <2>1. unlink(cb)
    BY <1>4 DEF Destroy
  <2>2. PICK i \in 1 .. Len(c) : /\ c[i] = cb /\ Threaded(Cut(c, i), head', next', prev')
                                 /\ ToSet(Cut(c, i)) = {m \in Nodes : linked'[m]}
    BY <1>1, <1>4, <2>1, UnlinkKeeps
  <2>3. NodesInv'
    BY <1>2, <1>3, <2>1, UnlinkTypes DEF NodesInv, TypeOK, Links
  <2>4. SInv' /\ Chain' = Cut(c, i)
    BY <2>2, <2>3, NextList
  <2>5. DOMAIN Chain = 1 .. Len(Chain)
    BY <1>1, <1>2, ThreadedFacts
  <2> QED  BY <1>1, <1>3, <2>2, <2>4, <2>5 DEF List!Withdraw, Cut
<1>5. CASE ~linked[cb]
  <2>1. UNCHANGED <<head, next, prev, linked>>
    BY <1>5 DEF Destroy
  <2>2. NodesInv'
    BY <1>2, <1>3, <1>5, <2>1 DEF NodesInv, TypeOK
  <2>3. SInv' /\ Chain' = c
    BY <1>2, <2>1, <2>2, NextList
  <2> QED  BY <1>1, <1>3, <2>3 DEF List!vars
<1> QED  BY <1>4, <1>5

\* request_stop takes the first node off and calls it (61-66).
LEMMA WalkStepKeeps ==
  ASSUME SInv, WalkStep
  PROVE  SInv' /\ List!Deliver
<1>1. PICK c : c = Chain
  OBVIOUS
<1>2. /\ Threaded(c, head, next, prev) /\ ToSet(c) = {m \in Nodes : linked[m]} /\ NodesInv /\ TypeOK
  BY <1>1, SoundList
<1>3. PICK cb : cb = head
  OBVIOUS
<1>4. /\ c \in Seq(Nodes) /\ Len(c) \in Nat /\ Len(c) # 0 /\ cb = c[1] /\ cb \in ToSet(c)
  BY <1>2, <1>3, ThreadedFacts, SMT DEF WalkStep
<1>5. /\ cb \in Nodes /\ linked[cb] /\ unlink(cb) /\ calls' = <<cb>>
      /\ fired' = [fired EXCEPT ![cb] = fired[cb] + 1] /\ UNCHANGED <<stopped, alive, walking, n_arms>>
      /\ walking /\ calls = <<>>
  BY <1>2, <1>3, <1>4 DEF WalkStep
<1>6. PICK i \in 1 .. Len(c) : /\ i = 1 /\ Threaded(Cut(c, i), head', next', prev')
                               /\ ToSet(Cut(c, i)) = {m \in Nodes : linked'[m]}
  BY <1>1, <1>3, <1>5, UnlinkKeeps
<1>7. NodesInv'
  <2>1. fired \in [Nodes -> {0, 1}] /\ fired[cb] = 0
    BY <1>2, <1>5 DEF NodesInv
  <2>2. fired' \in [Nodes -> {0, 1}] /\ \A m \in Nodes : m # cb => fired'[m] = fired[m]
    BY <1>5, <2>1, SMT
  <2>3. calls' \in Seq(Nodes)
    BY <1>5, SMT
  <2> QED  BY <1>2, <1>5, <2>2, <2>3, UnlinkTypes DEF NodesInv, TypeOK, Links
<1>8. SInv' /\ Chain' = Cut(c, 1)
  BY <1>6, <1>7, NextList
<1>9. Cut(c, 1) = Tail(c) /\ Head(c) = cb /\ c # <<>>
  <2>1. c # <<>> /\ Head(c) = cb
    BY <1>4, SMT
  <2>2. /\ Tail(c) \in Seq(Nodes) /\ Len(Tail(c)) = Len(c) - 1
        /\ \A k \in 1 .. Len(c) - 1 : Tail(c)[k] = c[k + 1]
    BY <1>4, <2>1, SMT
  <2>3. Tail(c) = [k \in 1 .. Len(c) - 1 |-> c[k + 1]]
    BY <2>2, Shape
  <2>4. Cut(c, 1) = [k \in 1 .. Len(c) - 1 |-> c[k + 1]]
    BY <1>4, SMT DEF Cut
  <2> QED  BY <2>1, <2>3, <2>4
<1> QED  BY <1>1, <1>5, <1>8, <1>9 DEF List!Deliver

\* The request finds the list as it is (57-60).
LEMMA RequestKeeps ==
  ASSUME SInv, request_stop
  PROVE  SInv' /\ List!Request
<1>1. /\ Threaded(Chain, head, next, prev) /\ ToSet(Chain) = {m \in Nodes : linked[m]}
      /\ NodesInv /\ TypeOK
  BY SoundList
<1>2. /\ ~stopped /\ stopped' = TRUE /\ walking' = TRUE
      /\ UNCHANGED <<head, next, prev, linked, alive, calls, n_arms, fired>>
  BY DEF request_stop
<1>3. NodesInv'
  BY <1>1, <1>2 DEF NodesInv, TypeOK
<1>4. SInv' /\ Chain' = Chain
  BY <1>1, <1>2, <1>3, NextList
<1> QED  BY <1>2, <1>4 DEF List!Request

\* request_stop leaves its loop when no node is left (61-67).
LEMMA WalkEndKeeps ==
  ASSUME SInv, WalkEnd
  PROVE  SInv' /\ List!RequestReturns
<1>1. /\ Threaded(Chain, head, next, prev) /\ ToSet(Chain) = {m \in Nodes : linked[m]}
      /\ NodesInv /\ TypeOK
  BY SoundList
<1>2. /\ walking /\ calls = <<>> /\ head = Nil /\ walking' = FALSE
      /\ UNCHANGED <<stopped, head, next, prev, linked, alive, calls, n_arms, fired>>
  BY DEF WalkEnd
<1>3. PICK c : c = Chain
  OBVIOUS
<1>4. c = <<>> /\ \A m \in Nodes : ~linked[m]
  <2>1. /\ c \in Seq(Nodes) /\ Len(c) \in Nat
        /\ \A k \in 1 .. Len(c) : c[k] # Nil
        /\ \A n \in ToSet(c) : \E k \in 1 .. Len(c) : c[k] = n
        /\ head = IF Len(c) = 0 THEN Nil ELSE c[1]
    BY <1>1, <1>3, ThreadedFacts, SMT
  <2>2. Len(c) = 0
    BY <1>2, <2>1, SMT
  <2>3. ToSet(c) = {}
    BY <2>1, <2>2, SMT
  <2> QED  BY <1>1, <1>3, <2>1, <2>2, <2>3, SMT
<1>5. NodesInv'
  BY <1>1, <1>2, <1>4 DEF NodesInv, TypeOK
<1>6. SInv' /\ Chain' = Chain
  BY <1>1, <1>2, <1>5, NextList
<1> QED  BY <1>2, <1>3, <1>4, <1>6 DEF List!RequestReturns

\* A callback returns to whoever called it.
LEMMA ReturnKeeps ==
  ASSUME SInv, CallbackReturns
  PROVE  SInv' /\ List!CallReturns
<1>1. /\ Threaded(Chain, head, next, prev) /\ ToSet(Chain) = {m \in Nodes : linked[m]}
      /\ NodesInv /\ TypeOK
  BY SoundList
<1>2. /\ calls # <<>> /\ calls' = SubSeq(calls, 1, Len(calls) - 1)
      /\ UNCHANGED <<stopped, head, next, prev, linked, alive, walking, n_arms, fired>>
  BY DEF CallbackReturns
<1>3. calls' \in Seq(Nodes)
  BY <1>1, <1>2, FrontOf DEF TypeOK
<1>4. NodesInv'
  BY <1>1, <1>2, <1>3 DEF NodesInv, TypeOK
<1>5. SInv' /\ Chain' = Chain
  BY <1>1, <1>2, <1>4, NextList
<1> QED  BY <1>2, <1>5 DEF List!CallReturns

\* Before anything is armed the list is empty (33-36).
LEMMA EmptyList ==
  ASSUME Init
  PROVE  SInv /\ List!Init
<1>1. Threaded(<<>>, head, next, prev) /\ ToSet(<<>>) = {}
  BY NoElements, SMT DEF Threaded, OnceEach, ToSet, Init
<1>2. \A m \in Nodes : ~linked[m]
  BY DEF Init
<1>3. NodesInv
  BY NoElements DEF NodesInv, TypeOK, Init
<1>4. SInv
  <2>1. <<>> \in Seq(Nodes) /\ ToSet(<<>>) = {n \in Nodes : linked[n]}
    BY <1>1, <1>2, NoElements
  <2> QED  BY <1>1, <1>3, <2>1 DEF SInv
<1>5. Chain = <<>>
  BY <1>1, ChainIs DEF Chain
<1> QED  BY <1>4, <1>5 DEF Init, List!Init

\* Every step keeps the invariant and is one of the list's, or none of them.
LEMMA StepKeeps ==
  ASSUME SInv, [Next]_vars
  PROVE  SInv' /\ [List!Next]_(List!vars)
<1>1. ASSUME NEW n \in Nodes, Construct(n) \/ _arm(n) \/ Destroy(n)
      PROVE  SInv' /\ [List!Next]_(List!vars)
  <2>1. CASE Construct(n)
    BY <2>1, ConstructKeeps
  <2>2. CASE _arm(n)
    BY <2>2, ArmKeeps DEF List!Next
  <2>3. CASE Destroy(n)
    BY <2>3, DestroyKeeps DEF List!Next
  <2> QED  BY <1>1, <2>1, <2>2, <2>3
<1>2. CASE request_stop
  BY <1>2, RequestKeeps DEF List!Next
<1>3. CASE WalkStep
  BY <1>3, WalkStepKeeps DEF List!Next
<1>4. CASE WalkEnd
  BY <1>4, WalkEndKeeps DEF List!Next
<1>5. CASE CallbackReturns
  BY <1>5, ReturnKeeps DEF List!Next
<1>6. CASE UNCHANGED vars
  <2>1. UNCHANGED <<stopped, head, next, prev, linked, alive, walking, calls, n_arms, fired>>
    BY <1>6 DEF vars
  <2>2. /\ Threaded(Chain, head, next, prev) /\ ToSet(Chain) = {m \in Nodes : linked[m]}
        /\ NodesInv
    BY SoundList
  <2>3. NodesInv'
    BY <2>1, <2>2 DEF NodesInv, TypeOK
  <2>4. SInv' /\ Chain' = Chain
    BY <2>1, <2>2, <2>3, NextList
  <2> QED  BY <2>1, <2>4 DEF List!vars
<1> QED  BY <1>1, <1>2, <1>3, <1>4, <1>5, <1>6 DEF Next

\* For every set of nodes, whatever the callbacks destroy and arm while
\* request_stop walks: the pointers form a list of just the linked nodes, all
\* alive, prev undoes next, no callback fires twice, and none is left without
\* having fired when request_stop has returned (37-98).
THEOREM ListStaysSound == Spec => []ListIsSound
<1>1. Init => SInv
  BY EmptyList
<1>2. SInv /\ [Next]_vars => SInv'
  BY StepKeeps
<1>3. SInv => ListIsSound
  <2> SUFFICES ASSUME SInv
               PROVE  ListIsSound
      OBVIOUS
  <2>1. /\ Threaded(Chain, head, next, prev) /\ ToSet(Chain) = {m \in Nodes : linked[m]}
        /\ NodesInv /\ TypeOK
    BY SoundList
  <2>2. PICK c : c = Chain
    OBVIOUS
  <2>3. \A k \in DOMAIN c : prev[c[k]] = IF k = 1 THEN Nil ELSE c[k - 1]
    BY <2>1, <2>2, ThreadedFacts, SMT
  <2>4. OnceEach(c)
    BY <2>1, <2>2 DEF Threaded
  <2>5. \A n \in Nodes : fired[n] <= 1
    BY <2>1, SMT DEF NodesInv
  <2> QED  BY <2>1, <2>2, <2>3, <2>4, <2>5 DEF ListIsSound, NodesInv
<1> QED  BY <1>1, <1>2, <1>3, PTL DEF Spec

\* For every set of nodes, the pointers implement the list of callbacks: arming
\* puts a node first or calls it, destruction withdraws it wherever it stands, and
\* request_stop takes the first and calls it until none is left (33-98).
THEOREM PointersImplementTheList == Spec => ImplementsList
<1>1. Init => SInv /\ List!Init
  BY EmptyList
<1>2. SInv /\ [Next]_vars => SInv' /\ [List!Next]_(List!vars)
  BY StepKeeps
<1> QED  BY <1>1, <1>2, PTL DEF Spec, ImplementsList, List!Spec

-----------------------------------------------------------------------------
(* The Windows reactor: what is in flight, and what wait() reports.            *)

AfdFlags == {"RECEIVE", "ACCEPT", "DISCONNECT", "ABORT", "SEND", "CONNECT_FAIL"}
PollSet == [h : Handles, n : 1 .. MaxAdds, events : {to_afd(e) : e \in Interests}]
PortEntries == {WakeEntry} \cup [key : Handles, n : 1 .. MaxAdds]

\* No socket has two completions in a list.
KeyedOnce(q) == \A i, j \in DOMAIN q : q[i].key = q[j].key /\ q[i].key # WAKE_KEY => i = j

\* The state's types.
IocpTypes ==
  /\ known \subseteq Handles
  /\ active \in [Handles -> BOOLEAN] /\ pending \in [Handles -> BOOLEAN]
  /\ user_token \in [Handles -> 0 .. MaxAdds] /\ interest \in [Handles -> Interests \cup {{}}]
  /\ status \in [Handles -> {"none", "ok", "error", "cancelled"}]
  /\ out_buf \in [Handles -> SUBSET AfdFlags]
  /\ inflight \subseteq PollSet /\ cancelled \subseteq inflight
  /\ port \in Seq(PortEntries)
  /\ pc \in {"idle", "drain", "submit", "wait", "teardown", "freed"}
  /\ n_adds \in 0 .. MaxAdds /\ timed_out \in BOOLEAN
  /\ \A h \in Handles : active[h] \/ pending[h] => h \in known

\* Where the thread is: an add() between its steps is about a socket that is
\* known and not active, and comes to submit only once nothing of it is pending.
StepInv ==
  /\ pc \in {"drain", "submit"} => target \in known /\ ~active[target] /\ n_adds < MaxAdds
  /\ pc = "submit" /\ ~timed_out => ~pending[target]
  /\ pc = "wait" => triggers = <<>>
  /\ pc \in {"teardown", "freed"} => \A h \in Handles : ~active[h]
  /\ pc = "freed" /\ ~timed_out => \A h \in Handles : ~pending[h]

\* A socket has a poll in flight, or a completion on the port, or neither, and
\* one of them exactly while it is pending.
PollsInv ==
  /\ \A p, q \in inflight : p.h = q.h => p = q
  /\ KeyedOnce(port)
  /\ \A p \in inflight, e \in ToSet(port) : e.key # p.h
  /\ \A h \in Handles :
       pending[h] <=> (\E p \in inflight : p.h = h) \/ (\E e \in ToSet(port) : e.key = h)

\* The poll of a registered socket, or its completion, belongs to the current
\* registration and was not cancelled.
CurrentInv ==
  /\ \A p \in inflight : active[p.h] =>
       p.n = user_token[p.h] /\ p.events = to_afd(interest[p.h]) /\ p \notin cancelled
  /\ \A e \in ToSet(port) : e.key \in Handles /\ active[e.key] =>
       /\ e.n = user_token[e.key] /\ status[e.key] \notin {"none", "cancelled"}
       /\ status[e.key] = "ok" =>
            out_buf[e.key] # {} /\ out_buf[e.key] \subseteq to_afd(interest[e.key])

IocpInv == IocpTypes /\ StepInv /\ (~timed_out => PollsInv /\ CurrentInv)
-----------------------------------------------------------------------------
\* The thread moves on and touches neither a context nor the port.
LEMMA QuietReactor ==
  ASSUME IocpInv, UNCHANGED <<ctxVars, kernelVars, n_adds>>,
         timed_out' \in BOOLEAN, timed_out => timed_out',
         pc' \in {"idle", "drain", "submit", "wait", "teardown", "freed"}, StepInv'
  PROVE  IocpInv'
<1> USE DEF ctxVars, kernelVars
<1>1. IocpTypes'
  BY DEF IocpInv, IocpTypes
<1>2. ~timed_out' => PollsInv' /\ CurrentInv'
  BY DEF IocpInv, PollsInv, CurrentInv, KeyedOnce
<1> QED  BY <1>1, <1>2 DEF IocpInv

\* cancel_poll of the sockets of H, which are no longer active (184-195).
LEMMA CancelKeeps ==
  ASSUME IocpInv, NEW H \in SUBSET Handles, cancel_poll(H),
         active' \in [Handles -> BOOLEAN],
         \A h \in Handles : active'[h] <=> active[h] /\ h \notin H,
         UNCHANGED <<known, pending, user_token, interest, status, out_buf, inflight, port,
                     n_adds, timed_out>>,
         pc' \in {"idle", "drain", "submit", "wait", "teardown", "freed"}, StepInv'
  PROVE  IocpInv'
<1>1. IocpTypes'
  BY DEF IocpInv, IocpTypes, cancel_poll
<1>2. ASSUME ~timed_out
      PROVE  PollsInv'
  BY <1>2 DEF IocpInv, PollsInv, KeyedOnce
<1>3. ASSUME ~timed_out
      PROVE  CurrentInv'
  <2>1. CurrentInv /\ IocpTypes
    BY <1>3 DEF IocpInv
  <2>2. ASSUME NEW p \in inflight, active'[p.h]
        PROVE  p.n = user_token[p.h] /\ p.events = to_afd(interest[p.h]) /\ p \notin cancelled'
    <3>1. p.h \in Handles
      BY <2>1 DEF IocpTypes, PollSet
    <3>2. active[p.h] /\ p.h \notin H
      BY <2>2, <3>1
    <3> QED  BY <2>1, <3>2 DEF CurrentInv, cancel_poll
  <2>3. ASSUME NEW e \in ToSet(port), e.key \in Handles, active'[e.key]
        PROVE  /\ e.n = user_token[e.key] /\ status[e.key] \notin {"none", "cancelled"}
               /\ status[e.key] = "ok" =>
                    out_buf[e.key] # {} /\ out_buf[e.key] \subseteq to_afd(interest[e.key])
    BY <2>1, <2>3 DEF CurrentInv
  <2> QED  BY <2>2, <2>3 DEF CurrentInv
<1> QED  BY <1>1, <1>2, <1>3 DEF IocpInv

\* Entries are taken off the port and the flags of their sockets cleared.
LEMMA TakeKeeps ==
  ASSUME IocpInv, port' \in Seq(PortEntries), ToSet(port') \subseteq ToSet(port),
         KeyedOnce(port) => KeyedOnce(port'),
         pending' \in [Handles -> BOOLEAN], \A h \in Handles : pending'[h] => pending[h],
         PollsInv => \A h \in Handles :
           pending'[h] <=> (\E p \in inflight : p.h = h) \/ (\E e \in ToSet(port') : e.key = h),
         UNCHANGED <<known, active, user_token, interest, status, out_buf, inflight, cancelled,
                     n_adds, timed_out>>,
         pc' \in {"idle", "drain", "submit", "wait", "teardown", "freed"}, StepInv'
  PROVE  IocpInv'
<1>1. IocpTypes'
  BY DEF IocpInv, IocpTypes
<1>2. ASSUME ~timed_out
      PROVE  PollsInv' /\ CurrentInv'
  <2>1. PollsInv /\ CurrentInv
    BY <1>2 DEF IocpInv
  <2>2. PollsInv'
    BY <2>1 DEF PollsInv
  <2>3. CurrentInv'
    BY <2>1 DEF CurrentInv
  <2> QED  BY <2>2, <2>3
<1> QED  BY <1>1, <1>2 DEF IocpInv

\* The parts a list is cut into after its first k elements.
LEMMA SplitFacts ==
  ASSUME NEW S, NEW s \in Seq(S), NEW k \in 0 .. Len(s)
  PROVE  /\ SubSeq(s, 1, k) \in Seq(S) /\ DOMAIN SubSeq(s, 1, k) = 1 .. k
         /\ \A i \in 1 .. k : SubSeq(s, 1, k)[i] = s[i]
         /\ SubSeq(s, k + 1, Len(s)) \in Seq(S)
         /\ DOMAIN SubSeq(s, k + 1, Len(s)) = 1 .. Len(s) - k
         /\ \A i \in 1 .. Len(s) - k : SubSeq(s, k + 1, Len(s))[i] = s[k + i]
<1>1. Len(s) \in Nat /\ DOMAIN s = 1 .. Len(s) /\ \A i \in 1 .. Len(s) : s[i] \in S
  BY Shape
<1>2. k \in Nat /\ k <= Len(s)
  BY <1>1, SMT
<1>3. SubSeq(s, 1, k) \in Seq(S) /\ Len(SubSeq(s, 1, k)) = k /\ \A i \in 1 .. k : SubSeq(s, 1, k)[i] = s[i]
  BY <1>1, <1>2, SMT
<1>4. /\ SubSeq(s, k + 1, Len(s)) \in Seq(S) /\ Len(SubSeq(s, k + 1, Len(s))) = Len(s) - k
      /\ \A i \in 1 .. Len(s) - k : SubSeq(s, k + 1, Len(s))[i] = s[k + i]
  <2>1. PICK m \in Int : m = k + 1
    BY <1>2, SMT
  <2>2. PICK l \in Nat : l = Len(s)
    BY <1>1
  <2>3. \A i \in m .. l : s[i] \in S
    BY <1>1, <1>2, <2>1, <2>2, SMT
  <2>4. /\ SubSeq(s, m, l) \in Seq(S)
        /\ Len(SubSeq(s, m, l)) = IF m <= l THEN l - m + 1 ELSE 0
        /\ \A i \in 1 .. l - m + 1 : SubSeq(s, m, l)[i] = s[m + i - 1]
    BY <2>3, SubSeqProperties, SMT
  <2>5. k \in Nat /\ k <= l
    BY <1>2, <2>2
  <2>6. /\ (IF m <= l THEN l - m + 1 ELSE 0) = l - k /\ l - m + 1 = l - k
        /\ \A i \in 1 .. l - k : m + i - 1 = k + i
    BY <2>1, <2>5, SMT
  <2> QED  BY <2>1, <2>2, <2>4, <2>6
<1> QED  BY <1>3, <1>4, Shape

\* A completion is queued: of a socket that has none there, or a wake-up.
LEMMA KeyedAppend ==
  ASSUME NEW S, NEW q \in Seq(S), NEW x \in S, KeyedOnce(q),
         x.key = WAKE_KEY \/ \A e \in ToSet(q) : e.key # x.key
  PROVE  KeyedOnce(Append(q, x))
<1>1. /\ Len(q) \in Nat /\ DOMAIN q = 1 .. Len(q) /\ DOMAIN Append(q, x) = 1 .. Len(q) + 1
      /\ \A i \in 1 .. Len(q) : Append(q, x)[i] = q[i]
      /\ Append(q, x)[Len(q) + 1] = x
  BY Shape, SMT
<1>2. \A i \in 1 .. Len(q) + 1 : i = Len(q) + 1 \/ i \in 1 .. Len(q)
  BY <1>1, SMT
<1>3. \A i \in 1 .. Len(q) : q[i] \in ToSet(q)
  BY <1>1 DEF ToSet
<1> QED  BY <1>1, <1>2, <1>3 DEF KeyedOnce

\* Two lists that share no socket are put one after the other.
LEMMA KeyedConcat ==
  ASSUME NEW S, NEW q \in Seq(S), NEW r \in Seq(S), KeyedOnce(q), KeyedOnce(r),
         \A d \in ToSet(q), e \in ToSet(r) : d.key = e.key => d.key = WAKE_KEY
  PROVE  KeyedOnce(q \o r)
<1>1. /\ Len(q) \in Nat /\ DOMAIN q = 1 .. Len(q) /\ Len(r) \in Nat /\ DOMAIN r = 1 .. Len(r)
      /\ DOMAIN (q \o r) = 1 .. Len(q) + Len(r)
      /\ \A i \in 1 .. Len(q) + Len(r) : (q \o r)[i] = IF i <= Len(q) THEN q[i] ELSE r[i - Len(q)]
  BY Shape, SMT
<1>2. \A i \in 1 .. Len(q) + Len(r) :
        \/ i \in 1 .. Len(q) /\ (q \o r)[i] = q[i]
        \/ i - Len(q) \in 1 .. Len(r) /\ (q \o r)[i] = r[i - Len(q)]
  BY <1>1, SMT
<1>3. \A i \in 1 .. Len(q), j \in 1 .. Len(r) : q[i].key = r[j].key => q[i].key = WAKE_KEY
  BY <1>1 DEF ToSet
<1>4. ASSUME NEW i \in 1 .. Len(q) + Len(r), NEW j \in 1 .. Len(q) + Len(r),
             (q \o r)[i].key = (q \o r)[j].key, (q \o r)[i].key # WAKE_KEY
      PROVE  i = j
  <2>1. CASE i \in 1 .. Len(q) /\ (q \o r)[i] = q[i]
    <3>1. j \in 1 .. Len(q) /\ (q \o r)[j] = q[j]
      BY <1>2, <1>3, <1>4, <2>1
    <3> QED  BY <1>1, <1>4, <2>1, <3>1 DEF KeyedOnce
  <2>2. CASE i - Len(q) \in 1 .. Len(r) /\ (q \o r)[i] = r[i - Len(q)]
    <3>1. j - Len(q) \in 1 .. Len(r) /\ (q \o r)[j] = r[j - Len(q)]
      BY <1>2, <1>3, <1>4, <2>2
    <3>2. i - Len(q) = j - Len(q)
      BY <1>1, <1>4, <2>2, <3>1 DEF KeyedOnce
    <3> QED  BY <1>1, <3>2, SMT
  <2> QED  BY <1>2, <2>1, <2>2
<1> QED  BY <1>1, <1>4 DEF KeyedOnce

\* The port without its first k entries, and these.
LEMMA RestFacts ==
  ASSUME IocpTypes, NEW k \in 0 .. Len(port)
  PROVE  /\ Rest(k) \in Seq(PortEntries) /\ Prefix(k) \in Seq(PortEntries)
         /\ ToSet(port) = ToSet(Prefix(k)) \cup ToSet(Rest(k))
         /\ ToSet(Prefix(k)) = {port[i] : i \in 1 .. k}
         /\ KeyedOnce(port) => /\ KeyedOnce(Rest(k)) /\ KeyedOnce(Prefix(k))
                               /\ \A d \in ToSet(Prefix(k)), e \in ToSet(Rest(k)) :
                                    d.key = e.key => d.key = WAKE_KEY
<1>1. port \in Seq(PortEntries)
  BY DEF IocpTypes
<1>2. /\ Prefix(k) \in Seq(PortEntries) /\ DOMAIN Prefix(k) = 1 .. k
      /\ \A i \in 1 .. k : Prefix(k)[i] = port[i]
      /\ Rest(k) \in Seq(PortEntries) /\ DOMAIN Rest(k) = 1 .. Len(port) - k
      /\ \A i \in 1 .. Len(port) - k : Rest(k)[i] = port[k + i]
  BY <1>1, SplitFacts, ZenonT(60) DEF Prefix, Rest
<1>3. /\ Len(port) \in Nat /\ DOMAIN port = 1 .. Len(port)
      /\ \A i \in 1 .. k : i \in 1 .. Len(port)
      /\ \A i \in 1 .. Len(port) - k : k + i \in 1 .. Len(port) /\ k + i \notin 1 .. k
      /\ \A i \in 1 .. Len(port) : i \in 1 .. k \/ (i - k \in 1 .. Len(port) - k /\ k + (i - k) = i)
      /\ \A i, j \in 1 .. Len(port) - k : k + i = k + j => i = j
  BY <1>1, Shape, SMT
<1>4. ToSet(Prefix(k)) = {port[i] : i \in 1 .. k}
  BY <1>2 DEF ToSet
<1>5. ToSet(Rest(k)) = {port[k + i] : i \in 1 .. Len(port) - k}
  BY <1>2 DEF ToSet
<1>6. ToSet(port) = ToSet(Prefix(k)) \cup ToSet(Rest(k))
  <2>1. ToSet(port) = {port[i] : i \in 1 .. Len(port)}
    BY <1>3 DEF ToSet
  <2>2. ASSUME NEW i \in 1 .. Len(port)
        PROVE  port[i] \in ToSet(Prefix(k)) \cup ToSet(Rest(k))
    <3>1. CASE i \in 1 .. k
      BY <1>4, <3>1
    <3>2. CASE i - k \in 1 .. Len(port) - k /\ k + (i - k) = i
      BY <1>5, <3>2
    <3> QED  BY <1>3, <3>1, <3>2
  <2>3. ToSet(Prefix(k)) \subseteq ToSet(port) /\ ToSet(Rest(k)) \subseteq ToSet(port)
    BY <1>3, <1>4, <1>5, <2>1, SMT
  <2> QED  BY <2>1, <2>2, <2>3
<1>7. ASSUME KeyedOnce(port)
      PROVE  /\ KeyedOnce(Rest(k)) /\ KeyedOnce(Prefix(k))
             /\ \A d \in ToSet(Prefix(k)), e \in ToSet(Rest(k)) : d.key = e.key => d.key = WAKE_KEY
  <2>1. KeyedOnce(Rest(k))
    <3>1. ASSUME NEW i \in 1 .. Len(port) - k, NEW j \in 1 .. Len(port) - k,
                 Rest(k)[i].key = Rest(k)[j].key, Rest(k)[i].key # WAKE_KEY
          PROVE  i = j
      <4>1. port[k + i].key = port[k + j].key /\ port[k + i].key # WAKE_KEY
        BY <1>2, <3>1
      <4>2. k + i = k + j
        BY <1>3, <1>7, <4>1 DEF KeyedOnce
      <4> QED  BY <1>3, <4>2
    <3> QED  BY <1>2, <3>1 DEF KeyedOnce
  <2>2. KeyedOnce(Prefix(k))
    BY <1>2, <1>3, <1>7, ZenonT(60) DEF KeyedOnce
  <2>3. ASSUME NEW i \in 1 .. k, NEW j \in 1 .. Len(port) - k, port[i].key = port[k + j].key
        PROVE  port[i].key = WAKE_KEY
    BY <1>3, <1>7, <2>3, SMT DEF KeyedOnce
  <2> QED  BY <1>4, <1>5, <2>1, <2>2, <2>3
<1> QED  BY <1>2, <1>4, <1>6, <1>7

\* wait() and the destructor take the first k entries (358-378, 221-238): the
\* sockets whose poll they end have it neither in flight nor behind them.
LEMMA RoundKeeps ==
  ASSUME IocpInv, NEW k \in 0 .. Len(port), port' = Rest(k),
         pending' = [h \in Handles |-> pending[h] /\ \A i \in 1 .. k : port[i].key # h],
         UNCHANGED <<known, active, user_token, interest, status, out_buf, inflight, cancelled,
                     n_adds, timed_out>>,
         pc' \in {"idle", "drain", "submit", "wait", "teardown", "freed"}, StepInv'
  PROVE  IocpInv'
<1>1. IocpTypes
  BY DEF IocpInv
<1>2. /\ Rest(k) \in Seq(PortEntries)
      /\ ToSet(port) = ToSet(Prefix(k)) \cup ToSet(Rest(k))
      /\ ToSet(Prefix(k)) = {port[i] : i \in 1 .. k}
      /\ KeyedOnce(port) => /\ KeyedOnce(Rest(k))
                            /\ \A d \in ToSet(Prefix(k)), e \in ToSet(Rest(k)) :
                                 d.key = e.key => d.key = WAKE_KEY
  BY <1>1, RestFacts
<1>3. pending' \in [Handles -> BOOLEAN] /\ \A h \in Handles : pending'[h] => pending[h]
  BY <1>1 DEF IocpTypes
<1>4. ASSUME PollsInv, NEW h \in Handles
      PROVE  pending'[h] <=> (\E p \in inflight : p.h = h) \/ (\E e \in ToSet(port') : e.key = h)
  <2>1. pending'[h] <=> pending[h] /\ \A d \in ToSet(Prefix(k)) : d.key # h
    BY <1>2, ZenonT(60)
  <2>2. pending[h] <=> (\E p \in inflight : p.h = h) \/ (\E e \in ToSet(port) : e.key = h)
    BY <1>4 DEF PollsInv
  <2>3. h # WAKE_KEY
    BY IocpAssumption
  <2>4. ASSUME NEW e \in ToSet(Rest(k)), e.key = h
        PROVE  \A d \in ToSet(Prefix(k)) : d.key # h
    BY <1>2, <1>4, <2>3, <2>4 DEF PollsInv
  <2>5. ASSUME NEW p \in inflight, p.h = h
        PROVE  \A d \in ToSet(Prefix(k)) : d.key # h
    BY <1>2, <1>4, <2>5 DEF PollsInv
  <2> QED  BY <1>2, <2>1, <2>2, <2>4, <2>5
<1> QED  BY <1>2, <1>3, <1>4, TakeKeeps

\* A poll is submitted, or refused, for a socket that has none.
LEMMA SubmitKeeps ==
  ASSUME IocpInv, NEW h \in Handles, NEW e \in Interests, n_adds < MaxAdds,
         h \in known', known' \in SUBSET Handles, known \subseteq known',
         ~active[h], ~timed_out => ~pending[h],
         n_adds' = n_adds + 1,
         user_token' = [user_token EXCEPT ![h] = n_adds'],
         interest' = [interest EXCEPT ![h] = e],
         submit_poll(h, n_adds') \/ submit_fails(h),
         active' \in [Handles -> BOOLEAN], \A g \in Handles : g # h => active'[g] = active[g],
         UNCHANGED <<out_buf, cancelled, port, timed_out>>,
         pc' = "idle"
  PROVE  IocpInv'
<1>1. IocpTypes
  BY DEF IocpInv
<1>2. n_adds' \in 1 .. MaxAdds
  BY <1>1, IocpAssumption, SMT DEF IocpTypes
<1>3. PICK p0 : p0 = [h |-> h, n |-> n_adds', events |-> to_afd(e)]
  OBVIOUS
<1>4. interest'[h] = e /\ user_token'[h] = n_adds'
  BY <1>1 DEF IocpTypes
<1>5. p0 \in PollSet /\ p0.h = h /\ p0.n = n_adds' /\ p0.events = to_afd(e)
  BY <1>2, <1>3 DEF PollSet
<1>6. \/ inflight' = inflight \cup {p0} /\ pending' = [pending EXCEPT ![h] = TRUE]
      \/ inflight' = inflight /\ pending' = pending
  BY <1>3, <1>4 DEF submit_poll, submit_fails
<1>7. status' = [status EXCEPT ![h] = "none"]
  BY DEF submit_poll, submit_fails
<1>8. IocpTypes'
  <2>1. pending' \in [Handles -> BOOLEAN] /\ inflight' \subseteq PollSet /\ cancelled' \subseteq inflight'
    BY <1>1, <1>5, <1>6 DEF IocpTypes
  <2>2. user_token' \in [Handles -> 0 .. MaxAdds] /\ n_adds' \in 0 .. MaxAdds
    BY <1>1, <1>2, IocpAssumption, SMT DEF IocpTypes
  <2>3. interest' \in [Handles -> Interests \cup {{}}]
    BY <1>1 DEF IocpTypes
  <2>4. status' \in [Handles -> {"none", "ok", "error", "cancelled"}]
    BY <1>1, <1>7 DEF IocpTypes
  <2>5. \A g \in Handles : active'[g] \/ pending'[g] => g \in known'
    BY <1>1, <1>6 DEF IocpTypes
  <2> QED  BY <1>1, <2>1, <2>2, <2>3, <2>4, <2>5 DEF IocpTypes
<1>9. StepInv'
  BY DEF StepInv
<1>10. ASSUME ~timed_out
       PROVE  PollsInv' /\ CurrentInv'
  <2>1. PollsInv /\ CurrentInv /\ ~pending[h]
    BY <1>10 DEF IocpInv
  <2>2. (\A p \in inflight : p.h # h) /\ \A d \in ToSet(port) : d.key # h
    BY <2>1 DEF PollsInv
  <2>3. PollsInv'
    <3>1. \A p, q \in inflight' : p.h = q.h => p = q
      BY <1>5, <1>6, <2>1, <2>2, SMT DEF PollsInv
    <3>2. \A p \in inflight', d \in ToSet(port) : d.key # p.h
      BY <1>5, <1>6, <2>1, <2>2, SMT DEF PollsInv
    <3>3. ASSUME NEW g \in Handles
          PROVE  pending'[g] <=> (\E p \in inflight' : p.h = g) \/ (\E d \in ToSet(port) : d.key = g)
      <4>1. pending[g] <=> (\E p \in inflight : p.h = g) \/ (\E d \in ToSet(port) : d.key = g)
        BY <2>1 DEF PollsInv
      <4> QED  BY <1>1, <1>5, <1>6, <4>1, ZenonT(60) DEF IocpTypes
    <3> QED  BY <2>1, <3>1, <3>2, <3>3 DEF PollsInv, KeyedOnce
  <2>4. \A g \in Handles : g # h => /\ active'[g] = active[g] /\ user_token'[g] = user_token[g]
                                    /\ interest'[g] = interest[g] /\ status'[g] = status[g]
    BY <1>1, <1>7 DEF IocpTypes
  <2>5. ASSUME NEW p \in inflight', active'[p.h]
        PROVE  p.n = user_token'[p.h] /\ p.events = to_afd(interest'[p.h]) /\ p \notin cancelled
    <3>1. CASE p = p0
      <4>1. p0 \notin cancelled
        BY <1>1, <1>5, <2>2 DEF IocpTypes
      <4> QED  BY <1>4, <1>5, <3>1, <4>1
    <3>2. CASE p # p0
      <4>1. p \in inflight /\ p.h \in Handles /\ p.h # h
        BY <1>1, <1>6, <2>2, <3>2, SMT DEF IocpTypes, PollSet
      <4> QED  BY <2>1, <2>4, <2>5, <4>1, SMT DEF CurrentInv
    <3> QED  BY <3>1, <3>2
  <2>6. ASSUME NEW d \in ToSet(port), d.key \in Handles, active'[d.key]
        PROVE  /\ d.n = user_token'[d.key] /\ status'[d.key] \notin {"none", "cancelled"}
               /\ status'[d.key] = "ok" =>
                    out_buf[d.key] # {} /\ out_buf[d.key] \subseteq to_afd(interest'[d.key])
    <3>1. d.key # h
      BY <2>2
    <3> QED  BY <2>1, <2>4, <2>6, <3>1, ZenonT(60) DEF CurrentInv
  <2>7. CurrentInv'
    BY <2>5, <2>6 DEF CurrentInv
  <2> QED  BY <2>3, <2>7
<1> QED  BY <1>8, <1>9, <1>10 DEF IocpInv

\* A round of add()'s drain (269-284): what it requeues stays on the port.
LEMMA DrainRoundKeeps ==
  ASSUME IocpInv, DrainRound
  PROVE  IocpInv'
<1>1. PICK k : k = BatchSize(MAX_EVENTS_PER_WAIT)
  OBVIOUS
<1>2. PICK D : D = {e \in ToSet(port) : ~Requeued(target, e)}
  OBVIOUS
<1>3. PICK R : R = Without(Prefix(k), D)
  OBVIOUS
<1>4. /\ pc = "drain" /\ port' = Rest(k) \o R
      /\ pending' = [h \in Handles |-> pending[h] /\
           h \notin {g \in Handles : \E i \in 1 .. k : port[i].key = g /\ ~Requeued(target, port[i])}]
      /\ pc' = IF pending'[target] THEN "drain" ELSE "submit"
      /\ UNCHANGED <<known, active, user_token, interest, status, out_buf, inflight, cancelled, target,
                     triggers, n_adds, timed_out, wake_owed>>
  BY <1>1, <1>2, <1>3 DEF DrainRound
<1>5. IocpTypes /\ StepInv
  BY DEF IocpInv
<1>6. k \in 0 .. Len(port)
  <2>1. Len(port) \in Nat /\ MAX_EVENTS_PER_WAIT \in Nat
    BY <1>5, Shape, IocpAssumption DEF IocpTypes
  <2> QED  BY <1>1, <2>1, SMT DEF BatchSize
<1>7. /\ Rest(k) \in Seq(PortEntries) /\ Prefix(k) \in Seq(PortEntries)
      /\ ToSet(port) = ToSet(Prefix(k)) \cup ToSet(Rest(k))
      /\ ToSet(Prefix(k)) = {port[i] : i \in 1 .. k}
      /\ KeyedOnce(port) => /\ KeyedOnce(Rest(k)) /\ KeyedOnce(Prefix(k))
                            /\ \A d \in ToSet(Prefix(k)), e \in ToSet(Rest(k)) :
                                 d.key = e.key => d.key = WAKE_KEY
  BY <1>5, <1>6, RestFacts
<1>8. /\ R \in Seq(PortEntries) /\ ToSet(R) = ToSet(Prefix(k)) \ D
      /\ OnceOutside(Prefix(k), D) => OnceEach(R)
  BY <1>3, <1>7, WithoutFacts
<1>9. ToSet(R) = {e \in ToSet(Prefix(k)) : Requeued(target, e)}
  BY <1>2, <1>7, <1>8
<1>10. port' \in Seq(PortEntries) /\ ToSet(port') = ToSet(Rest(k)) \cup ToSet(R)
  BY <1>4, <1>7, <1>8, ConcatFacts, SMT
<1>11. ToSet(port') \subseteq ToSet(port)
  BY <1>7, <1>9, <1>10
<1>12. ASSUME KeyedOnce(port)
       PROVE  KeyedOnce(port')
  <2>1. \A e \in ToSet(R) : e.key # WAKE_KEY
    BY <1>9 DEF Requeued
  <2>2. OnceOutside(Prefix(k), D)
    <3>1. ASSUME NEW i \in DOMAIN Prefix(k), NEW j \in DOMAIN Prefix(k),
                 Prefix(k)[i] = Prefix(k)[j], Prefix(k)[i] \notin D
          PROVE  i = j
      <4>1. Prefix(k)[i] \in ToSet(R)
        BY <1>8, <3>1 DEF ToSet
      <4>2. KeyedOnce(Prefix(k)) /\ Prefix(k)[i].key = Prefix(k)[j].key
        BY <1>7, <1>12, <3>1
      <4> QED  BY <2>1, <4>1, <4>2 DEF KeyedOnce
    <3> QED  BY <3>1 DEF OnceOutside
  <2>3. OnceEach(R)
    BY <1>8, <2>2
  <2>4. \A d, e \in ToSet(Prefix(k)) : d.key = e.key /\ d.key # WAKE_KEY => d = e
    BY <1>7, <1>12, ZenonT(60) DEF KeyedOnce, ToSet
  <2>5. \A i \in DOMAIN R : R[i] \in ToSet(R)
    BY DEF ToSet
  <2>6. KeyedOnce(R)
    BY <1>9, <2>3, <2>4, <2>5 DEF KeyedOnce, OnceEach
  <2>7. KeyedOnce(Rest(k)) /\ \A d \in ToSet(Rest(k)), e \in ToSet(R) : d.key = e.key => d.key = WAKE_KEY
    BY <1>7, <1>9, <1>12
  <2> QED  BY <1>4, <1>7, <1>8, <2>6, <2>7, KeyedConcat
<1>13. pending' \in [Handles -> BOOLEAN] /\ \A h \in Handles : pending'[h] => pending[h]
  BY <1>4, <1>5 DEF IocpTypes
<1>14. ASSUME PollsInv, NEW h \in Handles
       PROVE  pending'[h] <=> (\E p \in inflight : p.h = h) \/ (\E e \in ToSet(port') : e.key = h)
  <2>1. pending'[h] <=> pending[h] /\ \A d \in ToSet(Prefix(k)) : d.key = h => d \in ToSet(R)
    BY <1>4, <1>7, <1>9
  <2>2. pending[h] <=> (\E p \in inflight : p.h = h) \/ (\E e \in ToSet(port) : e.key = h)
    BY <1>14 DEF PollsInv
  <2>3. h # WAKE_KEY
    BY IocpAssumption
  <2>4. ASSUME NEW d \in ToSet(Prefix(k)), d.key = h, d \notin ToSet(R)
        PROVE  (\A p \in inflight : p.h # h) /\ (\A e \in ToSet(port') : e.key # h)
    <3>1. KeyedOnce(port) /\ \A p \in inflight, e \in ToSet(port) : e.key # p.h
      BY <1>14 DEF PollsInv
    <3>2. \A p \in inflight : p.h # h
      BY <1>7, <2>4, <3>1
    <3>3. \A e \in ToSet(Rest(k)) : e.key # h
      BY <1>7, <2>3, <2>4, <3>1, ZenonT(60)
    <3>4. \A e \in ToSet(Prefix(k)) : e.key = h => e = d
      BY <1>7, <2>3, <2>4, <3>1, ZenonT(60) DEF KeyedOnce, ToSet
    <3> QED  BY <1>9, <1>10, <2>4, <3>2, <3>3, <3>4
  <2>5. ASSUME \A d \in ToSet(Prefix(k)) : d.key = h => d \in ToSet(R)
        PROVE  (\E e \in ToSet(port) : e.key = h) <=> (\E e \in ToSet(port') : e.key = h)
    BY <1>7, <1>10, <1>11, <2>5
  <2> QED  BY <2>1, <2>2, <2>4, <2>5
<1>15. StepInv' /\ pc' \in {"drain", "submit"}
  BY <1>4, <1>5 DEF StepInv
<1> QED  BY <1>4, <1>10, <1>11, <1>12, <1>13, <1>14, <1>15, TakeKeeps

\* The kernel ends a poll and queues its completion.
LEMMA CompletesKeeps ==
  ASSUME IocpInv, NEW p \in inflight, NEW st \in {"ok", "error", "cancelled"}, NEW happened \in Fires,
         KernelCompletes(p, st, happened)
  PROVE  IocpInv'
<1>1. PICK h : h = p.h
  OBVIOUS
<1>2. PICK x : x = Entry(p)
  OBVIOUS
<1>3. IocpTypes /\ StepInv
  BY DEF IocpInv
<1>4. h \in Handles /\ x \in PortEntries /\ x.key = h /\ x.n = p.n /\ h # WAKE_KEY
  BY <1>1, <1>2, <1>3, IocpAssumption DEF IocpTypes, PollSet, PortEntries, Entry
<1>5. p.events \subseteq AfdFlags
  BY <1>3, SMT DEF IocpTypes, PollSet, to_afd, AfdFlags
<1>6. /\ pc # "freed"
      /\ st = "cancelled" => p \in cancelled
      /\ status' = [status EXCEPT ![h] = st]
      /\ out_buf' = IF st = "ok" THEN [out_buf EXCEPT ![h] = happened \cap p.events] ELSE out_buf
      /\ st = "ok" => happened \cap p.events # {}
      /\ inflight' = inflight \ {p} /\ cancelled' = cancelled \ {p} /\ port' = Append(port, x)
      /\ UNCHANGED <<known, active, pending, user_token, interest, pc, target, triggers, n_adds,
                     timed_out, wake_owed>>
  BY <1>1, <1>2 DEF KernelCompletes
<1>7. port' \in Seq(PortEntries) /\ ToSet(port') = ToSet(port) \cup {x}
  BY <1>3, <1>4, <1>6, AppendFacts, SMT DEF IocpTypes
<1>8. IocpTypes'
  <2>1. status' \in [Handles -> {"none", "ok", "error", "cancelled"}]
    BY <1>3, <1>6 DEF IocpTypes
  <2>2. out_buf' \in [Handles -> SUBSET AfdFlags]
    BY <1>3, <1>5, <1>6 DEF IocpTypes
  <2> QED  BY <1>3, <1>6, <1>7, <2>1, <2>2 DEF IocpTypes
<1>9. StepInv'
  BY <1>3, <1>6 DEF StepInv
<1>10. ASSUME ~timed_out
       PROVE  PollsInv' /\ CurrentInv'
  <2>1. PollsInv /\ CurrentInv
    BY <1>10 DEF IocpInv
  <2>2. \A e \in ToSet(port) : e.key # h
    BY <1>1, <2>1 DEF PollsInv
  <2>3. \A q \in inflight' : q \in inflight /\ q.h # h
    BY <1>1, <1>6, <2>1 DEF PollsInv
  <2>4. KeyedOnce(port')
    BY <1>3, <1>4, <1>6, <2>1, <2>2, KeyedAppend DEF IocpTypes, PollsInv
  <2>5. \A q \in inflight', e \in ToSet(port') : e.key # q.h
    BY <1>4, <1>7, <2>1, <2>3 DEF PollsInv
  <2>6. ASSUME NEW g \in Handles
        PROVE  pending[g] <=> (\E q \in inflight' : q.h = g) \/ (\E e \in ToSet(port') : e.key = g)
    <3>1. pending[g] <=> (\E q \in inflight : q.h = g) \/ (\E e \in ToSet(port) : e.key = g)
      BY <2>1 DEF PollsInv
    <3>2. CASE g = h
      BY <1>1, <1>4, <1>7, <3>1, <3>2
    <3>3. CASE g # h
      <4>1. (\E q \in inflight : q.h = g) <=> (\E q \in inflight' : q.h = g)
        BY <1>1, <1>6, <3>3
      <4>2. (\E e \in ToSet(port) : e.key = g) <=> (\E e \in ToSet(port') : e.key = g)
        BY <1>4, <1>7, <3>3
      <4> QED  BY <3>1, <4>1, <4>2
    <3> QED  BY <3>2, <3>3
  <2>7. PollsInv'
    BY <1>6, <2>1, <2>3, <2>4, <2>5, <2>6, ZenonT(60) DEF PollsInv
  <2>8. ASSUME NEW e \in ToSet(port'), e.key \in Handles, active[e.key]
        PROVE  /\ e.n = user_token[e.key] /\ status'[e.key] \notin {"none", "cancelled"}
               /\ status'[e.key] = "ok" =>
                    out_buf'[e.key] # {} /\ out_buf'[e.key] \subseteq to_afd(interest[e.key])
    <3>1. CASE e = x
      <4>1. p.n = user_token[h] /\ p.events = to_afd(interest[h]) /\ p \notin cancelled
        BY <1>1, <1>4, <2>1, <2>8, <3>1, ZenonT(60) DEF CurrentInv
      <4>2. status'[h] = st /\ st \notin {"none", "cancelled"}
        <5>1. status'[h] = st
          BY <1>3, <1>4, <1>6 DEF IocpTypes
        <5> QED  BY <1>6, <4>1, <5>1
      <4>3. st = "ok" => out_buf'[h] = happened \cap p.events
        BY <1>3, <1>4, <1>6, ZenonT(60) DEF IocpTypes
      <4> QED  BY <1>4, <1>6, <3>1, <4>1, <4>2, <4>3
    <3>2. CASE e # x
      <4>1. e \in ToSet(port) /\ e.key # h
        BY <1>7, <2>2, <2>8, <3>2
      <4>2. status'[e.key] = status[e.key] /\ out_buf'[e.key] = out_buf[e.key]
        BY <1>3, <1>6, <2>8, <4>1, ZenonT(60) DEF IocpTypes
      <4> QED  BY <2>1, <2>8, <4>1, <4>2 DEF CurrentInv
    <3> QED  BY <3>1, <3>2
  <2>9. CurrentInv'
    BY <1>6, <2>1, <2>3, <2>8 DEF CurrentInv
  <2> QED  BY <2>7, <2>9
<1> QED  BY <1>6, <1>8, <1>9, <1>10 DEF IocpInv

\* A wake-up is queued (381-385).
LEMMA WakeKeeps ==
  ASSUME IocpInv, Wake
  PROVE  IocpInv'
<1>1. IocpTypes /\ StepInv
  BY DEF IocpInv
<1>2. /\ port' = Append(port, WakeEntry)
      /\ UNCHANGED <<ctxVars, inflight, cancelled, pc, target, triggers, n_adds, timed_out>>
  BY DEF Wake
<1>3. WakeEntry \in PortEntries /\ WakeEntry.key = WAKE_KEY /\ WAKE_KEY \notin Handles
  BY IocpAssumption DEF WakeEntry, PortEntries
<1>4. port' \in Seq(PortEntries) /\ ToSet(port') = ToSet(port) \cup {WakeEntry}
  BY <1>1, <1>2, <1>3, AppendFacts, SMT DEF IocpTypes
<1>5. IocpTypes' /\ StepInv'
  BY <1>1, <1>2, <1>4 DEF IocpTypes, StepInv, ctxVars
<1>6. ASSUME ~timed_out
      PROVE  PollsInv' /\ CurrentInv'
  <2>1. PollsInv /\ CurrentInv
    BY <1>6 DEF IocpInv
  <2>2. KeyedOnce(port')
    BY <1>1, <1>2, <1>3, <2>1, KeyedAppend DEF IocpTypes, PollsInv
  <2>3. \A q \in inflight : q.h \in Handles
    BY <1>1 DEF IocpTypes, PollSet
  <2>4. PollsInv'
    BY <1>2, <1>3, <1>4, <2>1, <2>2, <2>3 DEF PollsInv, ctxVars
  <2>5. CurrentInv'
    BY <1>2, <1>3, <1>4, <2>1 DEF CurrentInv, ctxVars
  <2> QED  BY <2>4, <2>5
<1> QED  BY <1>2, <1>5, <1>6 DEF IocpInv

\* The number of completions a call takes (269, 351, 224).
LEMMA BatchFacts ==
  ASSUME IocpTypes, NEW n \in Nat
  PROVE  BatchSize(n) \in 0 .. Len(port)
<1>1. Len(port) \in Nat
  BY Shape DEF IocpTypes
<1> QED  BY <1>1, SMT DEF BatchSize

\* Every step of the thread, of wake() and of the kernel keeps the invariant.
LEMMA IocpStep ==
  ASSUME IocpInv, [IocpNext]_iocpVars
  PROVE  IocpInv'
<1>1. IocpTypes /\ StepInv
  BY DEF IocpInv
<1>2. ASSUME NEW h \in Handles, AddAgain(h)
      PROVE  IocpInv'
  <2>1. /\ UNCHANGED <<ctxVars, kernelVars, n_adds, timed_out>> /\ h \in known /\ ~active[h]
        /\ n_adds < MaxAdds /\ target' = h /\ pc' = IF pending[h] THEN "drain" ELSE "submit"
    BY <1>2 DEF AddAgain, Drains
  <2>2. StepInv'
    BY <2>1 DEF StepInv, ctxVars
  <2> QED  BY <1>1, <2>1, <2>2, QuietReactor DEF IocpTypes
<1>3. ASSUME NEW h \in Handles, Remove(h) \/ Modify(h)
      PROVE  IocpInv'
  <2>1. /\ active' = [active EXCEPT ![h] = FALSE] /\ cancel_poll({h}) /\ h \in known
        /\ UNCHANGED <<known, pending, user_token, interest, status, out_buf, inflight, port,
                       n_adds, timed_out>>
        /\ \/ pc' = "idle"
           \/ /\ pc' = IF pending[h] THEN "drain" ELSE "submit"
              /\ target' = h /\ n_adds < MaxAdds
    BY <1>3 DEF Remove, Modify, Drains
  <2>2. /\ active' \in [Handles -> BOOLEAN]
        /\ \A g \in Handles : active'[g] <=> active[g] /\ g \notin {h}
    BY <1>1, <2>1 DEF IocpTypes
  <2>3. StepInv'
    BY <2>1, <2>2 DEF StepInv
  <2> QED  BY <2>1, <2>2, <2>3, CancelKeeps
<1>4. ASSUME NEW e \in Interests, AddSubmit(e)
      PROVE  IocpInv'
  <2>1. /\ target \in Handles /\ target \in known /\ ~active[target] /\ n_adds < MaxAdds
        /\ ~timed_out => ~pending[target]
    BY <1>1, <1>4 DEF AddSubmit, StepInv, IocpTypes
  <2>2. /\ n_adds' = n_adds + 1 /\ user_token' = [user_token EXCEPT ![target] = n_adds']
        /\ interest' = [interest EXCEPT ![target] = e]
        /\ submit_poll(target, n_adds') \/ submit_fails(target)
        /\ pc' = "idle" /\ UNCHANGED <<known, out_buf, cancelled, port, timed_out>>
        /\ active' = [active EXCEPT ![target] = TRUE]
    BY <1>4 DEF AddSubmit
  <2>3. /\ active' \in [Handles -> BOOLEAN] /\ \A g \in Handles : g # target => active'[g] = active[g]
        /\ target \in known' /\ known' \in SUBSET Handles /\ known \subseteq known'
    BY <1>1, <2>1, <2>2 DEF IocpTypes
  <2> QED  BY <2>1, <2>2, <2>3, SubmitKeeps
<1>5. ASSUME NEW e \in Interests, NEW h \in Handles, AddNew(h, e)
      PROVE  IocpInv'
  <2>1. n_adds < MaxAdds /\ h \notin known /\ ~active[h] /\ ~pending[h]
    BY <1>1, <1>5 DEF AddNew, IocpTypes
  <2>2. /\ n_adds' = n_adds + 1 /\ user_token' = [user_token EXCEPT ![h] = n_adds']
        /\ interest' = [interest EXCEPT ![h] = e]
        /\ submit_poll(h, n_adds') \/ submit_fails(h)
        /\ pc' = "idle" /\ UNCHANGED <<out_buf, cancelled, port, timed_out>>
        /\ known' = known \cup {h} /\ \E b \in BOOLEAN : active' = [active EXCEPT ![h] = b]
    BY <1>5 DEF AddNew
  <2>3. /\ active' \in [Handles -> BOOLEAN] /\ \A g \in Handles : g # h => active'[g] = active[g]
        /\ h \in known' /\ known' \in SUBSET Handles /\ known \subseteq known'
    BY <1>1, <2>1, <2>2 DEF IocpTypes
  <2> QED  BY <2>1, <2>2, <2>3, SubmitKeeps
<1>6. CASE DrainTimesOut
  <2>1. /\ UNCHANGED <<ctxVars, kernelVars, target, triggers, n_adds>> /\ timed_out' = TRUE
        /\ pc \in {"drain", "teardown"} /\ pc' = IF pc = "drain" THEN "submit" ELSE "freed"
    BY <1>6 DEF DrainTimesOut
  <2>2. StepInv'
    BY <1>1, <2>1 DEF StepInv, ctxVars
  <2> QED  BY <2>1, <2>2, QuietReactor
<1>7. CASE AddFails \/ WaitCall \/ WaitTimeout
  <2>1. /\ UNCHANGED <<ctxVars, kernelVars, n_adds, timed_out>>
        /\ pc' = "idle" \/ (pc' = "wait" /\ triggers' = <<>>)
    BY <1>7 DEF AddFails, WaitCall, WaitTimeout
  <2>2. StepInv'
    BY <2>1 DEF StepInv
  <2> QED  BY <1>1, <2>1, <2>2, QuietReactor DEF IocpTypes
<1>8. ASSUME NEW n \in 1 .. MAX_EVENTS_PER_WAIT, WaitEvents(n)
      PROVE  IocpInv'
  <2>1. PICK k : k = BatchSize(n)
    OBVIOUS
  <2>2. /\ port' = Rest(k) /\ pc' = "idle"
        /\ pending' = [h \in Handles |-> pending[h] /\ \A i \in 1 .. k : port[i].key # h]
        /\ UNCHANGED <<known, active, user_token, interest, status, out_buf, inflight, cancelled,
                       n_adds, timed_out>>
    BY <1>8, <2>1 DEF WaitEvents
  <2>3. k \in 0 .. Len(port)
    BY <1>1, <2>1, BatchFacts, SMT
  <2>4. StepInv'
    BY <2>2 DEF StepInv
  <2> QED  BY <2>2, <2>3, <2>4, RoundKeeps
<1>9. CASE DestroyReactor
  <2>1. /\ active' = [h \in Handles |-> FALSE] /\ cancel_poll(Handles) /\ pc' = "teardown"
        /\ UNCHANGED <<known, pending, user_token, interest, status, out_buf, inflight, port,
                       n_adds, timed_out>>
    BY <1>9 DEF DestroyReactor
  <2>2. /\ active' \in [Handles -> BOOLEAN] /\ Handles \in SUBSET Handles
        /\ \A g \in Handles : active'[g] <=> active[g] /\ g \notin Handles
    BY <2>1
  <2>3. StepInv'
    BY <2>1 DEF StepInv
  <2> QED  BY <2>1, <2>2, <2>3, CancelKeeps
<1>10. CASE TeardownRound
  <2>1. PICK k : k = BatchSize(MAX_EVENTS_PER_WAIT)
    OBVIOUS
  <2>2. /\ port' = Rest(k) /\ pc = "teardown" /\ pc' = pc
        /\ pending' = [h \in Handles |-> pending[h] /\ \A i \in 1 .. k : port[i].key # h]
        /\ UNCHANGED <<known, active, user_token, interest, status, out_buf, inflight, cancelled,
                       n_adds, timed_out>>
    BY <1>10, <2>1 DEF TeardownRound
  <2>3. k \in 0 .. Len(port)
    BY <1>1, <2>1, BatchFacts, IocpAssumption
  <2>4. StepInv'
    BY <1>1, <2>2 DEF StepInv
  <2> QED  BY <2>2, <2>3, <2>4, RoundKeeps
<1>11. CASE TeardownFree
  <2>1. /\ UNCHANGED <<ctxVars, kernelVars, target, triggers, n_adds, timed_out>>
        /\ pc = "teardown" /\ pc' = "freed" /\ \A h \in known : ~pending[h]
    BY <1>11 DEF TeardownFree
  <2>2. \A h \in Handles : ~pending[h]
    BY <1>1, <2>1 DEF IocpTypes
  <2>3. StepInv'
    BY <1>1, <2>1, <2>2 DEF StepInv, ctxVars
  <2> QED  BY <1>1, <2>1, <2>3, QuietReactor DEF IocpTypes
<1>12. CASE UNCHANGED iocpVars
  <2>1. UNCHANGED <<ctxVars, kernelVars, pc, target, triggers, n_adds, timed_out>>
    BY <1>12 DEF iocpVars
  <2>2. StepInv'
    BY <1>1, <2>1 DEF StepInv, ctxVars
  <2> QED  BY <1>1, <2>1, <2>2, QuietReactor DEF IocpTypes
<1> QED
  BY <1>2, <1>3, <1>4, <1>5, <1>6, <1>7, <1>8, <1>9, <1>10, <1>11, <1>12,
     DrainRoundKeeps, CompletesKeeps, WakeKeeps, ZenonT(60) DEF IocpNext

\* The invariant holds in every state of the Windows reactor.
LEMMA IocpInvariance == IocpSpec => []IocpInv
<1>1. ASSUME IocpInit
      PROVE  IocpInv
  <2> USE <1>1 DEF IocpInit, AfdPollContext
  <2>1. <<>> \in Seq(PortEntries) /\ ToSet(<<>>) = {} /\ DOMAIN <<>> = {}
    BY EmptyFacts, NoElements, SMT
  <2>2. IocpTypes
    <3>1. n_adds \in 0 .. MaxAdds
      BY IocpAssumption, SMT
    <3>2. /\ user_token \in [Handles -> 0 .. MaxAdds] /\ interest \in [Handles -> Interests \cup {{}}]
          /\ status \in [Handles -> {"none", "ok", "error", "cancelled"}]
          /\ out_buf \in [Handles -> SUBSET AfdFlags]
      BY IocpAssumption, SMT
    <3> QED  BY <2>1, <3>1, <3>2 DEF IocpTypes
  <2>3. StepInv
    BY DEF StepInv
  <2>4. PollsInv /\ CurrentInv
    BY <2>1 DEF PollsInv, CurrentInv, KeyedOnce
  <2> QED  BY <2>2, <2>3, <2>4 DEF IocpInv
<1> QED  BY <1>1, IocpStep, PTL DEF IocpSpec

\* How many polls of a socket are outstanding, counted.
LEMMA OutstandingIs ==
  ASSUME IocpTypes, PollsInv, NEW h \in Handles
  PROVE  Outstanding(h) = IF pending[h] THEN 1 ELSE 0
<1> DEFINE A == {p \in inflight : p.h = h}
           B == {i \in DOMAIN port : port[i].key = h}
<1>1. pending[h] <=> A # {} \/ B # {}
  <2>1. (\E e \in ToSet(port) : e.key = h) <=> B # {}
    BY DEF ToSet
  <2> QED  BY <2>1 DEF PollsInv
<1>2. \A p, q \in A : p = q
  BY SMT DEF PollsInv
<1>3. \A i, j \in B : i = j
  BY IocpAssumption DEF PollsInv, KeyedOnce
<1>4. A = {} \/ B = {}
  BY SMT DEF PollsInv, ToSet
<1>5. Outstanding(h) = Cardinality(A) + Cardinality(B)
  BY DEF Outstanding
<1> HIDE DEF A, B
<1>6. CASE A # {}
  <2>1. PICK p : A = {p}
    BY <1>2, <1>6, SMT
  <2>2. Cardinality(A) = 1 /\ Cardinality(B) = 0
    BY <1>4, <1>6, <2>1, FS_Singleton, FS_EmptySet
  <2> QED  BY <1>1, <1>5, <1>6, <2>2, SMT
<1>7. CASE B # {}
  <2>1. PICK i : B = {i}
    BY <1>3, <1>7, SMT
  <2>2. Cardinality(B) = 1 /\ Cardinality(A) = 0
    BY <1>4, <1>7, <2>1, FS_Singleton, FS_EmptySet
  <2> QED  BY <1>1, <1>5, <1>7, <2>2, SMT
<1>8. CASE A = {} /\ B = {}
  <2>1. Cardinality(A) = 0 /\ Cardinality(B) = 0
    BY <1>8, FS_EmptySet
  <2> QED  BY <1>1, <1>5, <1>8, <2>1, SMT
<1> QED  BY <1>6, <1>7, <1>8

\* pending is set exactly while the kernel or the port holds the one poll that
\* uses the socket's OVERLAPPED, unless a drain gave up, and the contexts are
\* freed only when the kernel is done with all of them (147, 215-244).
THEOREM PollsAreExact == IocpSpec => []PendingIsExact
<1>1. ASSUME IocpInv
      PROVE  PendingIsExact
  <2>1. IocpTypes /\ StepInv
    BY <1>1 DEF IocpInv
  <2>2. \A i \in DOMAIN port : port[i] = WakeEntry \/ port[i].key \in Handles
    <3>1. \A i \in DOMAIN port : port[i] \in PortEntries
      BY <2>1, Shape, SMT DEF IocpTypes
    <3> QED  BY <3>1 DEF PortEntries
  <2>3. IocpTypeOK
    BY <2>1, <2>2 DEF IocpTypes, IocpTypeOK, PollSet
  <2>4. ~timed_out => \A h \in Handles : Outstanding(h) = IF pending[h] THEN 1 ELSE 0
    BY <1>1, <2>1, OutstandingIs DEF IocpInv
  <2>5. ASSUME pc = "freed", ~timed_out
        PROVE  inflight = {}
    <3>1. PollsInv /\ \A h \in Handles : ~pending[h]
      BY <1>1, <2>5 DEF IocpInv, StepInv
    <3>2. \A p \in inflight : p.h \in Handles
      BY <2>1 DEF IocpTypes, PollSet
    <3> QED  BY <3>1, <3>2 DEF PollsInv
  <2> QED  BY <2>3, <2>4, <2>5 DEF PendingIsExact
<1> QED  BY <1>1, IocpInvariance, PTL

\* Flags of a poll asked for with to_afd come back as some event, and as
\* readable or writable only if that was asked for (105-125).
LEMMA MaskFacts ==
  ASSUME NEW e, NEW flags, flags # {}, flags \subseteq to_afd(e)
  PROVE  from_afd(flags) # {} /\ from_afd(flags) \cap {"Readable", "Writable"} \subseteq e
<1>1. PICK f \in flags : f \in AfdFlags
  BY DEF to_afd, AfdFlags
<1>2. from_afd(flags) # {}
  BY <1>1 DEF from_afd, AfdFlags
<1>3. "Readable" \in from_afd(flags) => "Readable" \in e
  BY DEF from_afd, to_afd
<1>4. "Writable" \in from_afd(flags) => "Writable" \in e
  BY DEF from_afd, to_afd
<1> QED  BY <1>2, <1>3, <1>4

\* What a wait() that takes k entries lists: exactly the reported ones.
TriggerOf(i) ==
  [token |-> user_token[port[i].key], n |-> port[i].n,
   events |-> IF status[port[i].key] \in {"none", "ok"} THEN from_afd(out_buf[port[i].key]) ELSE {"Error"}]

\* The triggers of a wait() are those of the entries it reports (358-378).
LEMMA ListedFacts ==
  ASSUME IocpTypes, NEW n \in Nat, WaitEvents(n)
  PROVE  /\ \A j \in DOMAIN triggers' :
              \E i \in 1 .. BatchSize(n) : Reported(i) /\ triggers'[j] = TriggerOf(i)
         /\ \A i \in 1 .. BatchSize(n) :
              Reported(i) => \E j \in DOMAIN triggers' : triggers'[j] = TriggerOf(i)
<1>1. PICK k : k = BatchSize(n)
  OBVIOUS
<1>2. k \in Nat
  <2>1. Len(port) \in Nat
    BY Shape DEF IocpTypes
  <2> QED  BY <1>1, <2>1 DEF BatchSize
<1>3. PICK all : all = [i \in 1 .. k |-> i]
  OBVIOUS
<1>4. all \in Seq(1 .. k) /\ ToSet(all) = 1 .. k
  BY <1>2, <1>3, SMT DEF ToSet
<1>5. PICK listed : listed = Without(all, {i \in 1 .. k : ~Reported(i)})
  OBVIOUS
<1>6. ToSet(listed) = {i \in 1 .. k : Reported(i)}
  <2>1. ToSet(listed) = ToSet(all) \ {i \in 1 .. k : ~Reported(i)}
    BY <1>4, <1>5, WithoutFacts
  <2> QED  BY <1>4, <2>1
<1>7. triggers' = [j \in DOMAIN listed |-> TriggerOf(listed[j])]
  BY <1>1, <1>3, <1>5 DEF WaitEvents, TriggerOf
<1>8. \A j \in DOMAIN listed : listed[j] \in 1 .. k /\ Reported(listed[j])
  BY <1>6 DEF ToSet
<1>9. \A i \in 1 .. k : Reported(i) => \E j \in DOMAIN listed : listed[j] = i
  BY <1>6 DEF ToSet
<1> QED  BY <1>1, <1>7, <1>8, <1>9

\* A trigger names a socket registered when wait() returns, with the token of the
\* registration whose poll completed, and events it asked for (105-125, 358-378).
THEOREM ReportsAreCurrent == IocpSpec => TriggersAreCurrent
<1>1. ASSUME IocpInv, IocpNext, pc = "wait", ~timed_out, NEW j \in DOMAIN triggers'
      PROVE  \E h \in Handles : /\ active[h] /\ triggers'[j].token = user_token[h]
                                /\ triggers'[j].n = user_token[h]
                                /\ triggers'[j].events \cap {"Readable", "Writable"} \subseteq interest[h]
                                /\ triggers'[j].events # {}
  <2>1. IocpTypes /\ triggers = <<>> /\ CurrentInv
    BY <1>1 DEF IocpInv, StepInv
  <2>2. PICK n \in Nat : WaitEvents(n)
    <3>1. triggers' # triggers
      BY <1>1, <2>1, EmptyFacts, SMT
    <3>2. \E n \in 1 .. MAX_EVENTS_PER_WAIT : WaitEvents(n)
      BY <1>1, <3>1 DEF IocpNext, AddAgain, Remove, Modify, AddSubmit, AddNew, DrainRound, DrainTimesOut,
         AddFails, WaitCall, WaitTimeout, DestroyReactor, TeardownRound, TeardownFree, Wake, KernelCompletes
    <3>3. \A n \in 1 .. MAX_EVENTS_PER_WAIT : n \in Nat
      BY IocpAssumption, SMT
    <3> QED  BY <3>2, <3>3
  <2>3. PICK i \in 1 .. BatchSize(n) : Reported(i) /\ triggers'[j] = TriggerOf(i)
    BY <1>1, <2>1, <2>2, ListedFacts
  <2>4. PICK h : h = port[i].key
    OBVIOUS
  <2>5. i \in DOMAIN port /\ port[i] \in PortEntries
    <3>1. BatchSize(n) \in 0 .. Len(port) /\ Len(port) \in Nat /\ DOMAIN port = 1 .. Len(port)
      BY <2>1, BatchFacts, Shape DEF IocpTypes
    <3>2. i \in 1 .. Len(port)
      BY <3>1, SMT
    <3> QED  BY <2>1, <3>1, <3>2, Shape, SMT DEF IocpTypes
  <2>6. h # WAKE_KEY /\ active[h] /\ h \in Handles /\ port[i] \in ToSet(port)
    BY <2>3, <2>4, <2>5, SMT DEF Reported, PortEntries, WakeEntry, ToSet
  <2>7. /\ port[i].n = user_token[h] /\ status[h] # "none"
        /\ status[h] = "ok" => out_buf[h] # {} /\ out_buf[h] \subseteq to_afd(interest[h])
    BY <2>1, <2>4, <2>6 DEF CurrentInv
  <2>8. /\ triggers'[j].token = user_token[h] /\ triggers'[j].n = port[i].n
        /\ triggers'[j].events = IF status[h] \in {"none", "ok"} THEN from_afd(out_buf[h]) ELSE {"Error"}
    BY <2>3, <2>4, SMT DEF TriggerOf
  <2>9. /\ triggers'[j].events # {}
        /\ triggers'[j].events \cap {"Readable", "Writable"} \subseteq interest[h]
    <3>1. CASE status[h] = "ok"
      BY <2>7, <2>8, <3>1, MaskFacts
    <3>2. CASE status[h] # "ok"
      BY <2>7, <2>8, <3>2
    <3> QED  BY <3>1, <3>2
  <2> QED  BY <2>6, <2>7, <2>8, <2>9
<1>2. IocpInv /\ [IocpNext]_iocpVars =>
        [pc = "wait" /\ ~timed_out => \A i \in DOMAIN triggers' :
           \E h \in Handles : /\ active[h] /\ triggers'[i].token = user_token[h]
                              /\ triggers'[i].n = user_token[h]
                              /\ triggers'[i].events \cap {"Readable", "Writable"} \subseteq interest[h]
                              /\ triggers'[i].events # {}]_iocpVars
  BY <1>1
<1> QED  BY <1>2, IocpInvariance, PTL DEF IocpSpec, TriggersAreCurrent

\* Neither wait() nor the drain of another socket's add() takes the completion of
\* a registered socket without reporting it (274-283, 358-377).
THEOREM CompletionsAreReported == IocpSpec => NothingSwallowed
<1>1. ASSUME IocpInv, IocpNext, NEW h \in Handles, ~timed_out, pending[h], active[h], ~pending'[h]
      PROVE  \E j \in DOMAIN triggers' : triggers'[j].token = user_token[h]
  <2>1. IocpTypes /\ StepInv /\ PollsInv /\ CurrentInv
    BY <1>1 DEF IocpInv
  <2>2. ~DrainRound
    <3>1. ASSUME DrainRound
          PROVE  FALSE
      <4>1. pc = "drain" /\ \E i \in 1 .. BatchSize(MAX_EVENTS_PER_WAIT) :
                               port[i].key = h /\ ~Requeued(target, port[i])
        BY <1>1, <3>1 DEF DrainRound
      <4>2. ~active[target] /\ h # WAKE_KEY
        BY <2>1, <4>1, IocpAssumption DEF StepInv
      <4> QED  BY <1>1, <4>1, <4>2 DEF Requeued
    <3> QED  BY <3>1
  <2>3. ~TeardownRound
    BY <1>1, <2>1 DEF TeardownRound, StepInv
  <2>4. pending' # pending /\ pending'[h] # TRUE
    BY <1>1
  <2>5. \A g \in Handles : \A x : ~submit_poll(g, x) /\ ~submit_fails(g)
    <3>1. \A g \in Handles : [pending EXCEPT ![g] = TRUE][h] = TRUE
      BY <1>1, <2>1 DEF IocpTypes
    <3> QED  BY <2>4, <3>1 DEF submit_poll, submit_fails
  <2>6. pc = "submit" => target \in Handles
    BY <2>1 DEF StepInv, IocpTypes
  <2>7. PICK n \in Nat : WaitEvents(n)
    <3>1. \E n \in 1 .. MAX_EVENTS_PER_WAIT : WaitEvents(n)
      BY <1>1, <2>2, <2>3, <2>4, <2>5, <2>6 DEF IocpNext, AddAgain, Remove, Modify, AddSubmit, AddNew,
         DrainTimesOut, AddFails, WaitCall, WaitTimeout, DestroyReactor, TeardownFree, Wake,
         KernelCompletes, ctxVars
    <3>2. \A n \in 1 .. MAX_EVENTS_PER_WAIT : n \in Nat
      BY IocpAssumption, SMT
    <3> QED  BY <3>1, <3>2
  <2>8. PICK i \in 1 .. BatchSize(n) : port[i].key = h
    BY <1>1, <2>7 DEF WaitEvents
  <2>9. i \in DOMAIN port /\ \A k \in 1 .. i - 1 : k \in DOMAIN port /\ k # i
    <3>1. BatchSize(n) \in 0 .. Len(port) /\ Len(port) \in Nat /\ DOMAIN port = 1 .. Len(port)
      BY <2>1, BatchFacts, Shape DEF IocpTypes
    <3> QED  BY <3>1, SMT
  <2>10. Reported(i)
    <3>1. h # WAKE_KEY
      BY IocpAssumption
    <3>2. \A k \in 1 .. i - 1 : port[k].key # h
      BY <2>1, <2>8, <2>9, <3>1 DEF PollsInv, KeyedOnce
    <3>3. status[h] # "cancelled"
      BY <1>1, <2>1, <2>8, <2>9 DEF CurrentInv, ToSet
    <3> QED  BY <1>1, <2>8, <3>1, <3>2, <3>3 DEF Reported
  <2>11. PICK j \in DOMAIN triggers' : triggers'[j] = TriggerOf(i)
    BY <2>1, <2>7, <2>10, ListedFacts
  <2> QED  BY <2>8, <2>11, SMT DEF TriggerOf
<1>2. IocpInv /\ [IocpNext]_iocpVars =>
        [\A h \in Handles : ~timed_out /\ pending[h] /\ active[h] /\ ~pending'[h] =>
           \E i \in DOMAIN triggers' : triggers'[i].token = user_token[h]]_iocpVars
  BY <1>1
<1> QED  BY <1>2, IocpInvariance, PTL DEF IocpSpec, NothingSwallowed
=============================================================================
