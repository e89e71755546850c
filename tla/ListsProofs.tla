---------------------------- MODULE ListsProofs ----------------------------
(* What the operators on queues and lists return, for every sequence. *)
EXTENDS Lists, WellFoundedInduction, TLAPS

\* A set of numbers has a least member: induction, in the form used below.
LEMMA Least ==
  ASSUME NEW T, T \subseteq Nat, T # {}
  PROVE  \E n \in T : \A m \in T : ~(m < n)
<1>1. \E n \in T : \A m \in T : ~(<<m, n>> \in OpToRel(<, Nat))
  BY WFMin, NatLessThanWellFounded, Zenon
<1> QED
  BY <1>1, Zenon DEF OpToRel

\* What a sequence is: a function over the positions up to its length.
LEMMA Shape ==
  ASSUME NEW S, NEW q \in Seq(S)
  PROVE  /\ Len(q) \in Nat /\ DOMAIN q = 1 .. Len(q) /\ q \in [1 .. Len(q) -> S]
         /\ q # <<>> => Len(q) # 0
  OBVIOUS

\* The empty sequence is a list of anything.
LEMMA NoElements ==
  ASSUME NEW S
  PROVE  <<>> \in Seq(S) /\ Len(<<>>) = 0
  OBVIOUS

\* The empty list (a vector never pushed to, or cleared) has no elements.
LEMMA EmptyFacts == ToSet(<<>>) = {} /\ OnceEach(<<>>)
<1>1. DOMAIN <<>> = {}
  OBVIOUS
<1> QED  BY <1>1, Zenon DEF ToSet, OnceEach

\* A sequence's elements are of its set.
LEMMA SeqFacts ==
  ASSUME NEW S, NEW s \in Seq(S)
  PROVE  /\ Len(s) \in Nat /\ DOMAIN s = 1 .. Len(s)
         /\ \A k \in 1 .. Len(s) : s[k] \in S
         /\ ToSet(s) \subseteq S
         /\ s = <<>> <=> ToSet(s) = {}
<1>1. Len(s) \in Nat /\ DOMAIN s = 1 .. Len(s) /\ \A k \in 1 .. Len(s) : s[k] \in S
  BY Shape
<1>2. s # <<>> => 1 \in 1 .. Len(s)
  BY <1>1, Shape, NoElements
<1>3. DOMAIN <<>> = {}
  OBVIOUS
<1>4. ToSet(s) \subseteq S
  BY <1>1 DEF ToSet
<1>5. s # <<>> => ToSet(s) # {}
  BY <1>1, <1>2 DEF ToSet
<1>6. s = <<>> => ToSet(s) = {}
  BY <1>3 DEF ToSet
<1> QED  BY <1>1, <1>4, <1>5, <1>6

\* An element is put at the end.
LEMMA AppendFacts ==
  ASSUME NEW S, NEW s \in Seq(S), NEW x \in S
  PROVE  /\ Append(s, x) \in Seq(S) /\ Append(s, x) # <<>>
         /\ Len(Append(s, x)) = Len(s) + 1 /\ Append(s, x)[Len(s) + 1] = x
         /\ ToSet(Append(s, x)) = ToSet(s) \cup {x}
         /\ OnceEach(s) /\ x \notin ToSet(s) => OnceEach(Append(s, x))
<1>1. /\ Append(s, x) \in Seq(S) /\ Len(s) \in Nat /\ Len(Append(s, x)) = Len(s) + 1
      /\ \A k \in 1 .. Len(s) : Append(s, x)[k] = s[k]
      /\ Append(s, x)[Len(s) + 1] = x
      /\ DOMAIN s = 1 .. Len(s) /\ DOMAIN Append(s, x) = 1 .. Len(s) + 1
  BY Shape
<1>2. ToSet(Append(s, x)) = ToSet(s) \cup {x}
  <2>1. \A k \in 1 .. Len(s) + 1 : k = Len(s) + 1 \/ k \in 1 .. Len(s)
    BY <1>1
  <2>2. Len(s) + 1 \in 1 .. Len(s) + 1 /\ \A k \in 1 .. Len(s) : k \in 1 .. Len(s) + 1
    BY <1>1
  <2> QED  BY <1>1, <2>1, <2>2, Zenon DEF ToSet
<1>3. ASSUME OnceEach(s), x \notin ToSet(s)
      PROVE  OnceEach(Append(s, x))
  <2>1. \A k \in 1 .. Len(s) : s[k] # x
    BY <1>1, <1>3 DEF ToSet
  <2> QED  BY <1>1, <1>3, <2>1 DEF OnceEach
<1>4. Append(s, x) # <<>>
  BY <1>1, Shape, NoElements
<1> QED  BY <1>1, <1>2, <1>3, <1>4

\* What is left when the last element is taken off.
LEMMA FrontOf ==
  ASSUME NEW S, NEW s \in Seq(S), s # <<>>
  PROVE  /\ Len(s) \in Nat \ {0} /\ s[Len(s)] \in S
         /\ SubSeq(s, 1, Len(s) - 1) \in Seq(S)
         /\ Len(SubSeq(s, 1, Len(s) - 1)) = Len(s) - 1
         /\ \A k \in 1 .. Len(s) - 1 : SubSeq(s, 1, Len(s) - 1)[k] = s[k]
<1>1. Len(s) \in Nat /\ Len(s) # 0 /\ DOMAIN s = 1 .. Len(s) /\ \A k \in 1 .. Len(s) : s[k] \in S
  BY Shape
<1>2. /\ SubSeq(s, 1, Len(s) - 1) \in Seq(S) /\ Len(SubSeq(s, 1, Len(s) - 1)) = Len(s) - 1
      /\ \A k \in 1 .. Len(s) - 1 : SubSeq(s, 1, Len(s) - 1)[k] = s[k]
  BY <1>1
<1>3. Len(s) \in 1 .. Len(s)
  BY <1>1
<1> QED  BY <1>1, <1>2, <1>3

\* The last element is taken off a list without repetitions.
LEMMA FrontFacts ==
  ASSUME NEW S, NEW s \in Seq(S), s # <<>>, OnceEach(s)
  PROVE  LET front == SubSeq(s, 1, Len(s) - 1) IN
         /\ front \in Seq(S) /\ OnceEach(front)
         /\ s[Len(s)] \in S /\ s[Len(s)] \in ToSet(s)
         /\ ToSet(front) = ToSet(s) \ {s[Len(s)]}
<1> DEFINE front == SubSeq(s, 1, Len(s) - 1)
<1>1. Len(s) \in Nat /\ Len(s) # 0 /\ DOMAIN s = 1 .. Len(s) /\ \A k \in 1 .. Len(s) : s[k] \in S
  BY Shape
<1>2. /\ front \in Seq(S) /\ Len(front) = Len(s) - 1
      /\ \A k \in 1 .. Len(s) - 1 : front[k] = s[k]
  BY FrontOf
<1>3. DOMAIN front = 1 .. Len(s) - 1
  BY <1>2, Shape
<1> HIDE DEF front
<1>4. OnceEach(front)
  BY <1>1, <1>2, <1>3 DEF OnceEach
<1>5. ToSet(front) = ToSet(s) \ {s[Len(s)]}
  <2>1. \A n \in Nat : \A k \in 1 .. n : k = n \/ k \in 1 .. n - 1
    OBVIOUS
  <2>2. \A k \in 1 .. Len(s) - 1 : k \in 1 .. Len(s) /\ s[k] # s[Len(s)]
    BY <1>1 DEF OnceEach
  <2> QED  BY <1>1, <1>2, <1>3, <2>1, <2>2, SMTT(30) DEF ToSet
<1>6. Len(s) \in 1 .. Len(s)
  BY <1>1
<1>7. s[Len(s)] \in S /\ s[Len(s)] \in ToSet(s)
  BY <1>1, <1>6 DEF ToSet
<1> QED  BY <1>2, <1>4, <1>5, <1>7, Zenon DEF front

\* The first element is taken off.
LEMMA TailFacts ==
  ASSUME NEW S, NEW s \in Seq(S), s # <<>>, OnceEach(s)
  PROVE  /\ Tail(s) \in Seq(S) /\ OnceEach(Tail(s))
         /\ Head(s) \in S /\ Head(s) \in ToSet(s)
         /\ ToSet(Tail(s)) = ToSet(s) \ {Head(s)}
<1>1. Len(s) \in Nat /\ Len(s) # 0 /\ DOMAIN s = 1 .. Len(s) /\ \A k \in 1 .. Len(s) : s[k] \in S
  BY Shape
<1>2. /\ Tail(s) \in Seq(S) /\ Head(s) = s[1] /\ DOMAIN Tail(s) = 1 .. Len(s) - 1
      /\ \A k \in 1 .. Len(s) - 1 : Tail(s)[k] = s[k + 1]
  BY <1>1, Shape
<1>3. OnceEach(Tail(s))
  BY <1>1, <1>2 DEF OnceEach
<1>4. ToSet(Tail(s)) = ToSet(s) \ {s[1]}
  <2>1. \A k \in 1 .. Len(s) : k = 1 \/ (k - 1 \in 1 .. Len(s) - 1 /\ (k - 1) + 1 = k)
    BY <1>1
  <2>2. \A k \in 1 .. Len(s) - 1 : k + 1 \in 1 .. Len(s) /\ s[k + 1] # s[1]
    BY <1>1 DEF OnceEach
  <2>3. \A k \in 1 .. Len(s) : k # 1 => s[k] \in ToSet(Tail(s))
    <3>1. ASSUME NEW k \in 1 .. Len(s), k # 1
          PROVE  k - 1 \in DOMAIN Tail(s) /\ Tail(s)[k - 1] = s[k]
      BY <1>2, <2>1, <3>1
    <3> QED  BY <3>1 DEF ToSet
  <2> QED  BY <1>1, <1>2, <2>2, <2>3 DEF ToSet
<1> QED  BY <1>1, <1>2, <1>3, <1>4 DEF ToSet

\* One list after another.
LEMMA ConcatFacts ==
  ASSUME NEW S, NEW s \in Seq(S), NEW t \in Seq(S)
  PROVE  /\ s \o t \in Seq(S)
         /\ ToSet(s \o t) = ToSet(s) \cup ToSet(t)
         /\ OnceEach(s) /\ OnceEach(t) /\ ToSet(s) \cap ToSet(t) = {} => OnceEach(s \o t)
<1>1. /\ Len(s) \in Nat /\ DOMAIN s = 1 .. Len(s)
      /\ Len(t) \in Nat /\ DOMAIN t = 1 .. Len(t)
      /\ s \o t \in Seq(S) /\ DOMAIN (s \o t) = 1 .. Len(s) + Len(t)
      /\ \A i \in 1 .. Len(s) + Len(t) : (s \o t)[i] = IF i <= Len(s) THEN s[i] ELSE t[i - Len(s)]
  BY Shape
<1>2. \A i \in 1 .. Len(s) : i \in 1 .. Len(s) + Len(t) /\ (s \o t)[i] = s[i]
  BY <1>1
<1>3. \A i \in 1 .. Len(t) : i + Len(s) \in 1 .. Len(s) + Len(t) /\ (s \o t)[i + Len(s)] = t[i]
  BY <1>1
<1>4. \A i \in 1 .. Len(s) + Len(t) :
        \/ i \in 1 .. Len(s) /\ (s \o t)[i] = s[i]
        \/ i - Len(s) \in 1 .. Len(t) /\ (s \o t)[i] = t[i - Len(s)] /\ i = (i - Len(s)) + Len(s)
  BY <1>1
<1>5. ToSet(s \o t) = ToSet(s) \cup ToSet(t)
  <2>1. ToSet(s) \subseteq ToSet(s \o t)
    BY <1>1, <1>2 DEF ToSet
  <2>2. ToSet(t) \subseteq ToSet(s \o t)
    BY <1>1, <1>3, Zenon DEF ToSet
  <2>3. ToSet(s \o t) \subseteq ToSet(s) \cup ToSet(t)
    BY <1>1, <1>4 DEF ToSet
  <2> QED  BY <2>1, <2>2, <2>3
<1>6. ASSUME OnceEach(s), OnceEach(t), ToSet(s) \cap ToSet(t) = {}
      PROVE  OnceEach(s \o t)
  <2>1. \A i \in 1 .. Len(s), j \in 1 .. Len(t) : s[i] # t[j]
    BY <1>1, <1>6, Zenon DEF ToSet
  <2>2. ASSUME NEW i \in 1 .. Len(s) + Len(t), NEW j \in 1 .. Len(s) + Len(t), (s \o t)[i] = (s \o t)[j]
        PROVE  i = j
    <3>1. CASE i \in 1 .. Len(s)
      BY <1>1, <1>4, <1>6, <2>1, <2>2, <3>1 DEF OnceEach
    <3>2. CASE i \notin 1 .. Len(s) /\ j \in 1 .. Len(s)
      BY <1>1, <1>4, <2>1, <2>2, <3>2
    <3>3. CASE i \notin 1 .. Len(s) /\ j \notin 1 .. Len(s)
      <4>1. i - Len(s) \in 1 .. Len(t) /\ j - Len(s) \in 1 .. Len(t) /\ t[i - Len(s)] = t[j - Len(s)]
        BY <1>4, <2>2, <3>3
      <4>2. i - Len(s) = j - Len(s)
        BY <1>1, <1>6, <4>1 DEF OnceEach
      <4> QED  BY <1>1, <4>2
    <3> QED  BY <3>1, <3>2, <3>3
  <2> QED  BY <1>1, <2>2 DEF OnceEach
<1> QED  BY <1>1, <1>5, <1>6

\* An element is put in front.
LEMMA PrependFacts ==
  ASSUME NEW S, NEW s \in Seq(S), NEW x \in S
  PROVE  /\ <<x>> \o s \in Seq(S)
         /\ ToSet(<<x>> \o s) = ToSet(s) \cup {x}
         /\ OnceEach(s) /\ x \notin ToSet(s) => OnceEach(<<x>> \o s)
<1>1. <<x>> \in Seq(S) /\ ToSet(<<x>>) = {x} /\ OnceEach(<<x>>)
  <2>1. <<x>> \in Seq(S) /\ DOMAIN <<x>> = {1} /\ <<x>>[1] = x
    OBVIOUS
  <2> QED  BY <2>1 DEF ToSet, OnceEach
<1>2. PICK u : u = <<x>>
  BY Zenon
<1>3. u \in Seq(S) /\ ToSet(u) = {x} /\ OnceEach(u)
  BY <1>1, <1>2
<1>4. /\ u \o s \in Seq(S)
      /\ ToSet(u \o s) = ToSet(s) \cup {x}
      /\ OnceEach(s) /\ x \notin ToSet(s) => OnceEach(u \o s)
  BY <1>3, ConcatFacts
<1> QED  BY <1>2, <1>4, Zenon

\* A function applied to each element.
LEMMA MapFacts ==
  ASSUME NEW S, NEW s \in Seq(S), NEW R, NEW g \in Seq(R), NEW f,
         Len(g) = Len(s), \A i \in 1 .. Len(s) : g[i] = f[s[i]]
  PROVE  /\ ToSet(g) = {f[x] : x \in ToSet(s)}
         /\ OnceEach(s) /\ (\A x, y \in ToSet(s) : f[x] = f[y] => x = y) => OnceEach(g)
<1>1. DOMAIN s = 1 .. Len(s) /\ DOMAIN g = 1 .. Len(s) /\ \A k \in 1 .. Len(s) : s[k] \in ToSet(s)
  BY Shape DEF ToSet
<1>2. ToSet(g) = {f[x] : x \in ToSet(s)}
  BY <1>1, SMTT(30) DEF ToSet
<1>3. OnceEach(s) /\ (\A x, y \in ToSet(s) : f[x] = f[y] => x = y) => OnceEach(g)
  BY <1>1 DEF OnceEach
<1> QED  BY <1>2, <1>3

\* What Without computes, element by element.
Keeps(s, D, f, n) ==
  f = [i \in 0 .. n |-> IF i = 0 THEN <<>>
                        ELSE IF s[i] \in D THEN f[i - 1]
                        ELSE Append(f[i - 1], s[i])]

\* The function Without recurs on exists.
LEMMA KeepsExists ==
  ASSUME NEW S, NEW s \in Seq(S), NEW D, NEW n \in 0 .. Len(s)
  PROVE  \E f : Keeps(s, D, f, n)
<1> DEFINE T == {m \in 0 .. Len(s) : ~ \E f : Keeps(s, D, f, m)}
<1> SUFFICES ASSUME T # {}
             PROVE  FALSE
    OBVIOUS
<1>1. Len(s) \in Nat /\ T \subseteq Nat
  BY Shape
<1>2. PICK m \in T : \A k \in T : ~(k < m)
  <2> HIDE DEF T
  <2> QED  BY <1>1, Least, Zenon
<1>3. m \in 0 .. Len(s) /\ ~ \E f : Keeps(s, D, f, m)
  OBVIOUS
<1>4. CASE m = 0
  <2>1. Keeps(s, D, [i \in 0 .. 0 |-> <<>>], 0)
    BY DEF Keeps
  <2> QED  BY <1>3, <1>4, <2>1
<1>5. CASE m # 0
  <2>1. m - 1 \in 0 .. Len(s) /\ m - 1 < m /\ m \in Nat
    BY <1>1, <1>3, <1>5
  <2>2. PICK f : Keeps(s, D, f, m - 1)
    BY <1>2, <2>1
  <2> DEFINE g == [i \in 0 .. m |-> IF i < m THEN f[i]
                                    ELSE IF s[m] \in D THEN f[m - 1]
                                    ELSE Append(f[m - 1], s[m])]
  <2>3. \A i \in 0 .. m - 1 : f[i] = IF i = 0 THEN <<>>
                                     ELSE IF s[i] \in D THEN f[i - 1]
                                     ELSE Append(f[i - 1], s[i])
    BY <2>2, Zenon DEF Keeps
  <2>4. ASSUME NEW i \in 0 .. m
        PROVE  g[i] = IF i = 0 THEN <<>>
                      ELSE IF s[i] \in D THEN g[i - 1]
                      ELSE Append(g[i - 1], s[i])
    <3>1. CASE i = m
      BY <1>5, <2>1, <3>1
    <3>2. CASE i # m
      BY <2>1, <2>3, <3>2
    <3> QED  BY <3>1, <3>2
  <2>5. Keeps(s, D, g, m)
    BY <2>4 DEF Keeps
  <2> QED  BY <1>3, <2>5
<1> QED  BY <1>4, <1>5

\* Without goes through the sequence from left to right.
LEMMA WithoutSteps ==
  ASSUME NEW S, NEW s \in Seq(S), NEW D
  PROVE  \E f : /\ Without(s, D) = f[Len(s)] /\ f[0] = <<>>
                /\ \A i \in 1 .. Len(s) :
                     f[i] = IF s[i] \in D THEN f[i - 1] ELSE Append(f[i - 1], s[i])
<1> DEFINE f == CHOOSE f : Keeps(s, D, f, Len(s))
<1>1. Len(s) \in Nat
  BY Shape
<1>2. Keeps(s, D, f, Len(s))
  BY <1>1, KeepsExists
<1>3. Without(s, D) = f[Len(s)]
  BY DEF Without, Keeps
<1> HIDE DEF f
<1>4. \A i \in 0 .. Len(s) : f[i] = IF i = 0 THEN <<>>
                                    ELSE IF s[i] \in D THEN f[i - 1]
                                    ELSE Append(f[i - 1], s[i])
  BY <1>2, Zenon DEF Keeps
<1> QED  BY <1>1, <1>3, <1>4

\* What s repeats is in D.
OnceOutside(s, D) == \A i, j \in DOMAIN s : s[i] = s[j] /\ s[i] \notin D => i = j

\* r has what is left of the first n elements of s.
LeftOf(s, D, S, n, r) ==
  /\ r \in Seq(S)
  /\ ToSet(r) = {s[k] : k \in 1 .. n} \ D
  /\ OnceOutside(s, D) => OnceEach(r)

\* What Without keeps are the elements not taken out, and it repeats none.
LEMMA WithoutFacts ==
  ASSUME NEW S, NEW s \in Seq(S), NEW D
  PROVE  /\ Without(s, D) \in Seq(S)
         /\ ToSet(Without(s, D)) = ToSet(s) \ D
         /\ OnceOutside(s, D) => OnceEach(Without(s, D))
         /\ OnceEach(s) => OnceEach(Without(s, D))
<1>1. PICK f : /\ Without(s, D) = f[Len(s)] /\ f[0] = <<>>
               /\ \A i \in 1 .. Len(s) :
                    f[i] = IF s[i] \in D THEN f[i - 1] ELSE Append(f[i - 1], s[i])
  BY WithoutSteps
<1>2. Len(s) \in Nat /\ DOMAIN s = 1 .. Len(s) /\ \A k \in 1 .. Len(s) : s[k] \in S
  BY Shape
<1> DEFINE Bad == {n \in 0 .. Len(s) : ~LeftOf(s, D, S, n, f[n])}
<1>3. ASSUME Bad # {}
      PROVE  FALSE
  <2>1. Bad \subseteq Nat
    BY <1>2
  <2>2. PICK n \in Bad : \A m \in Bad : ~(m < n)
    <3> HIDE DEF Bad
    <3> QED  BY <1>3, <2>1, Least, Zenon
  <2>3. n \in 0 .. Len(s) /\ ~LeftOf(s, D, S, n, f[n])
    OBVIOUS
  <2>4. CASE n = 0
    <3>1. <<>> \in Seq(S) /\ DOMAIN <<>> = {} /\ 1 .. 0 = {}
      BY Shape, NoElements
    <3> QED  BY <1>1, <2>3, <2>4, <3>1, Zenon DEF LeftOf, ToSet, OnceEach
  <2>5. CASE n # 0
    <3>1. n \in 1 .. Len(s) /\ n - 1 \in 0 .. Len(s) /\ n - 1 < n
      BY <1>2, <2>3, <2>5
    <3>2. LeftOf(s, D, S, n - 1, f[n - 1])
      BY <2>2, <3>1
    <3>3. {s[k] : k \in 1 .. n} = {s[k] : k \in 1 .. n - 1} \cup {s[n]}
      <4>1. \A k \in 1 .. n : k = n \/ k \in 1 .. n - 1
        BY <3>1
      <4>2. n \in 1 .. n /\ \A k \in 1 .. n - 1 : k \in 1 .. n
        BY <3>1
      <4> QED  BY <4>1, <4>2
    <3>4. CASE s[n] \in D
      BY <1>1, <2>3, <3>1, <3>2, <3>3, <3>4 DEF LeftOf
    <3>5. CASE s[n] \notin D
      <4>1. f[n] = Append(f[n - 1], s[n]) /\ s[n] \in S
        BY <1>1, <1>2, <3>1, <3>5, Zenon
      <4>2. OnceOutside(s, D) => \A k \in 1 .. n - 1 : s[k] # s[n]
        BY <1>2, <3>1, <3>5 DEF OnceOutside
      <4>3. f[n - 1] \in Seq(S) /\ ToSet(f[n - 1]) = {s[k] : k \in 1 .. n - 1} \ D
            /\ (OnceOutside(s, D) => OnceEach(f[n - 1]))
        BY <3>2 DEF LeftOf
      <4>4. OnceOutside(s, D) => s[n] \notin ToSet(f[n - 1])
        BY <4>2, <4>3
      <4>5. /\ f[n] \in Seq(S) /\ ToSet(f[n]) = ToSet(f[n - 1]) \cup {s[n]}
            /\ OnceOutside(s, D) => OnceEach(f[n])
        BY <4>1, <4>3, <4>4, AppendFacts
      <4>6. ToSet(f[n]) = {s[k] : k \in 1 .. n} \ D
        BY <3>3, <3>5, <4>3, <4>5, Zenon
      <4> QED  BY <2>3, <4>5, <4>6 DEF LeftOf
    <3> QED  BY <3>4, <3>5
  <2> QED  BY <2>4, <2>5
<1>4. LeftOf(s, D, S, Len(s), f[Len(s)])
  BY <1>2, <1>3
<1>5. {s[k] : k \in 1 .. Len(s)} = ToSet(s)
  BY <1>2 DEF ToSet
<1>6. OnceEach(s) => OnceOutside(s, D)
  BY DEF OnceEach, OnceOutside
<1> QED  BY <1>1, <1>4, <1>5, <1>6 DEF LeftOf
=============================================================================
