---------------------------- MODULE HandlesProofs ---------------------------
(* Generational handles and owning handles, for every value of the constants. *)
EXTENDS Generational, Ownership, ListsProofs

(* FreeListIsExact for every number of generations, allocations and values.  *)

Entry == [is_alive : BOOLEAN, generation : Generations]
Slot == {Null} \cup [generation : Generations, value : Values]
Handle == [index : Index, generation : Generations, turn : Nat]
FreeSet == {free[i] : i \in DOMAIN free}
Dead == {i \in Index : ~At(entries, i).is_alive}

\* Writing one element of m_entries leaves the others.
LEMMA Written ==
  ASSUME NEW S, NEW s \in Seq(S), NEW i \in 1 .. Len(s), NEW e \in S
  PROVE  /\ [s EXCEPT ![i] = e] \in Seq(S) /\ Len([s EXCEPT ![i] = e]) = Len(s)
         /\ \A k \in 1 .. Len(s) : [s EXCEPT ![i] = e][k] = IF k = i THEN e ELSE s[k]
  OBVIOUS

\* A sequence's elements are of its set.
LEMMA ElementOf ==
  ASSUME NEW S, NEW s \in Seq(S)
  PROVE  Len(s) \in Nat /\ DOMAIN s = 1 .. Len(s) /\ \A k \in 1 .. Len(s) : s[k] \in S
  OBVIOUS

\* The entry of an index.
LEMMA EntryOfIndex ==
  ASSUME TypeOK, NEW i \in Index
  PROVE  /\ Len(entries) \in Nat /\ i \in Nat /\ i + 1 \in 1 .. Len(entries)
         /\ entries[i + 1] \in Entry /\ turns[i + 1] \in Nat
<1>1. Len(entries) \in Nat /\ \A k \in 1 .. Len(entries) : entries[k] \in Entry
  BY ElementOf, Zenon DEF TypeOK, Entry
<1>2. \A k \in 1 .. Len(entries) : turns[k] \in Nat
  BY ElementOf DEF TypeOK
<1>3. i \in Nat /\ i + 1 \in 1 .. Len(entries)
  BY <1>1 DEF Index
<1> QED  BY <1>1, <1>2, <1>3

\* Nothing is issued and nothing is free before the first allocate (54-66).
LEMMA InitIsExact == Init => FreeListIsExact
  BY DEF Init, FreeListIsExact, TypeOK, Index, Generations

\* allocate takes the last free index, which was there once, and makes it alive
\* (30-36).
LEMMA ReuseIsExact ==
  ASSUME FreeListIsExact, Allocate, free # <<>>
  PROVE  FreeListIsExact'
<1> DEFINE i == free[Len(free)]
           g == (At(entries, i).generation + 1) % GenMod
           h == [index |-> i, generation |-> g, turn |-> turns[i + 1] + 1]
           e == [is_alive |-> TRUE, generation |-> g]
<1>1. TypeOK /\ free \in Seq(Index) /\ Len(free) \in Nat \ {0} /\ i \in Index
  BY FrontOf DEF FreeListIsExact, TypeOK
<1>2. /\ Len(entries) \in Nat /\ i \in Nat /\ i + 1 \in 1 .. Len(entries)
      /\ entries[i + 1] \in Entry /\ turns[i + 1] \in Nat
  BY <1>1, EntryOfIndex
<1>3. g \in Generations /\ e \in Entry
  BY <1>2, GenerationalAssumption, SMTT(30) DEF GenerationalAssumption, Entry, Generations, At
<1>4. /\ free' = SubSeq(free, 1, Len(free) - 1)
      /\ entries' = [entries EXCEPT ![i + 1] = e]
      /\ turns' = [turns EXCEPT ![i + 1] = turns[i + 1] + 1]
      /\ issued' = issued \cup {[index |-> i, generation |-> g, turn |-> At(turns', i)]}
      /\ held' = [k \in issued' |-> IF k \in issued THEN held[k] ELSE Null]
      /\ slots' = slots
  BY DEF Allocate, allocate
<1> HIDE DEF g, e, i
<1>5. /\ entries' \in Seq(Entry) /\ Len(entries') = Len(entries) /\ Index' = Index
      /\ \A k \in 1 .. Len(entries) : entries'[k] = IF k = i + 1 THEN e ELSE entries[k]
  <2>1. entries \in Seq(Entry)
    BY <1>1 DEF TypeOK, Entry
  <2> QED  BY <1>2, <1>3, <1>4, <2>1, Written DEF Index
<1>6. turns' \in Seq(Nat) /\ Len(turns') = Len(turns) /\ At(turns', i) = turns[i + 1] + 1
  <2>1. turns \in Seq(Nat) /\ i + 1 \in 1 .. Len(turns)
    BY <1>1, <1>2 DEF TypeOK
  <2> QED  BY <1>2, <1>4, <2>1, Written, SMTT(30) DEF At
<1>7. h \in Handle /\ issued' = issued \cup {h}
  <2>1. turns[i + 1] + 1 \in Nat
    BY <1>2
  <2> QED  BY <1>1, <1>3, <1>4, <1>6, <2>1, Zenon DEF Handle
<1>8. issued' \subseteq Handle /\ held' \in [issued' -> Values \cup {Null}]
  <2>1. issued \subseteq Handle /\ held \in [issued -> Values \cup {Null}]
    BY <1>1 DEF TypeOK, Handle
  <2> HIDE DEF h
  <2> QED  BY <1>4, <1>7, <2>1, Zenon
<1>9. /\ free' \in Seq(Index) /\ Len(free') = Len(free) - 1 /\ DOMAIN free' = 1 .. Len(free) - 1
      /\ DOMAIN free = 1 .. Len(free)
      /\ \A k \in 1 .. Len(free) - 1 : free'[k] = free[k]
  BY <1>1, <1>4, FrontOf, ElementOf
<1>10. TypeOK'
  BY <1>1, <1>4, <1>5, <1>6, <1>8, <1>9, Zenon DEF TypeOK, Entry, Handle
<1>11. \A k, l \in DOMAIN free : free[k] = free[l] => k = l
  BY DEF FreeListIsExact
<1>12. \A k, l \in DOMAIN free' : free'[k] = free'[l] => k = l
  BY <1>1, <1>9, <1>11
<1>13. FreeSet' = FreeSet \ {i}
  <2>1. \A k \in 1 .. Len(free) - 1 : free[k] # i
    BY <1>1, <1>9, <1>11 DEF i
  <2>2. \A k \in 1 .. Len(free) : k = Len(free) \/ k \in 1 .. Len(free) - 1
    BY <1>1
  <2> QED  BY <1>1, <1>9, <2>1, <2>2, SMTT(30) DEF FreeSet, i
<1>14. Dead' = Dead \ {i}
  <2>1. ASSUME NEW j \in Index
        PROVE  At(entries', j) = IF j = i THEN e ELSE At(entries, j)
    BY <1>1, <1>2, <1>5, EntryOfIndex DEF At
  <2>2. e.is_alive
    BY DEF e
  <2> QED  BY <1>5, <2>1, <2>2 DEF Dead
<1> QED
  BY <1>10, <1>12, <1>13, <1>14 DEF FreeListIsExact, FreeSet, Dead

\* Without a free index allocate appends a live entry (37-39).
LEMMA GrowthIsExact ==
  ASSUME FreeListIsExact, Allocate, free = <<>>
  PROVE  FreeListIsExact'
<1> DEFINE e == [is_alive |-> TRUE, generation |-> 0]
           h == [index |-> Len(entries), generation |-> 0, turn |-> 0]
<1>1. TypeOK /\ entries \in Seq(Entry) /\ turns \in Seq(Nat) /\ Len(turns) = Len(entries)
  BY DEF FreeListIsExact, TypeOK, Entry
<1>2. /\ entries' = Append(entries, e) /\ turns' = Append(turns, 0)
      /\ issued' = issued \cup {h} /\ free' = free /\ slots' = slots
      /\ held' = [k \in issued' |-> IF k \in issued THEN held[k] ELSE Null]
  BY DEF Allocate, allocate
<1>3. e \in Entry /\ 0 \in Generations
  BY GenerationalAssumption DEF GenerationalAssumption, Entry, Generations
<1> HIDE DEF e
<1>4. /\ entries' \in Seq(Entry) /\ Len(entries) \in Nat /\ Len(entries') = Len(entries) + 1
      /\ \A k \in 1 .. Len(entries) : entries'[k] = entries[k]
      /\ entries'[Len(entries) + 1] = e
  BY <1>1, <1>2, <1>3, Shape
<1>5. turns' \in Seq(Nat) /\ Len(turns') = Len(entries')
  BY <1>1, <1>2, <1>4, Shape
<1>6. Index' = Index \cup {Len(entries)}
  BY <1>4 DEF Index
<1>7. issued' \subseteq Handle' /\ held' \in [issued' -> Values \cup {Null}]
  <2>1. issued \subseteq Handle /\ held \in [issued -> Values \cup {Null}]
    BY <1>1 DEF TypeOK, Handle
  <2>2. h \in Handle'
    <3>1. 0 \in Nat
      OBVIOUS
    <3> QED  BY <1>3, <1>6, <3>1, Zenon DEF Handle, Generations
  <2>3. Handle \subseteq Handle'
    BY <1>6 DEF Handle, Generations
  <2> HIDE DEF h
  <2> QED  BY <1>2, <2>1, <2>2, <2>3
<1>8. free' \in Seq(Index')
  BY <1>2, NoElements
<1>9. TypeOK'
  BY <1>1, <1>2, <1>4, <1>5, <1>7, <1>8 DEF TypeOK, Entry, Handle, Generations
<1>10. DOMAIN free' = {} /\ DOMAIN free = {}
  BY <1>2
<1>11. FreeSet' = {} /\ FreeSet = {}
  BY <1>10 DEF FreeSet
<1>12. Dead' = {}
  <2>1. Dead = {}
    BY <1>11 DEF FreeListIsExact, FreeSet, Dead
  <2>2. ASSUME NEW j \in Index
        PROVE  At(entries', j) = At(entries, j)
    BY <1>1, <1>4, EntryOfIndex DEF At
  <2>3. At(entries', Len(entries)) = e /\ e.is_alive
    BY <1>4 DEF At, e
  <2> QED  BY <1>6, <2>1, <2>2, <2>3 DEF Dead
<1> QED
  BY <1>9, <1>10, <1>11, <1>12 DEF FreeListIsExact, FreeSet, Dead

\* deallocate puts an index on the list that was alive, hence not there (42-47).
LEMMA DeallocateIsExact ==
  ASSUME FreeListIsExact, NEW h \in issued, Deallocate(h)
  PROVE  FreeListIsExact'
<1> DEFINE i == h.index
           e == [entries[i + 1] EXCEPT !.is_alive = FALSE]
<1>1. TypeOK /\ entries \in Seq(Entry) /\ free \in Seq(Index) /\ i \in Index
  BY DEF FreeListIsExact, TypeOK, Entry
<1>2. i \in Nat /\ i + 1 \in 1 .. Len(entries) /\ entries[i + 1] \in Entry
  BY <1>1, EntryOfIndex
<1>3. /\ entries' = [entries EXCEPT ![i + 1] = e] /\ free' = Append(free, i)
      /\ held' = [k \in issued |-> IF k.index = i THEN Null ELSE held[k]]
      /\ slots' = slots /\ issued' = issued /\ turns' = turns
      /\ entries[i + 1].is_alive
  BY DEF Deallocate, is_alive, At
<1>4. e \in Entry /\ ~e.is_alive
  BY <1>2, Zenon DEF Entry
<1> HIDE DEF e, i
<1>5. /\ entries' \in Seq(Entry) /\ Len(entries') = Len(entries) /\ Index' = Index
      /\ \A k \in 1 .. Len(entries) : entries'[k] = IF k = i + 1 THEN e ELSE entries[k]
  BY <1>1, <1>2, <1>3, <1>4, Written DEF Index
<1>6. /\ free' \in Seq(Index) /\ Len(free) \in Nat /\ Len(free') = Len(free) + 1
      /\ \A k \in 1 .. Len(free) : free'[k] = free[k]
      /\ free'[Len(free) + 1] = i
      /\ DOMAIN free = 1 .. Len(free) /\ DOMAIN free' = 1 .. Len(free) + 1
  BY <1>1, <1>3, ElementOf
<1>7. held' \in [issued' -> Values \cup {Null}]
  BY <1>1, <1>3 DEF TypeOK
<1>8. TypeOK'
  BY <1>1, <1>3, <1>5, <1>6, <1>7, Zenon DEF TypeOK, Entry
<1>9. i \notin Dead /\ FreeSet = Dead
  BY <1>3 DEF FreeListIsExact, FreeSet, Dead, At
<1>10. \A k \in 1 .. Len(free) : free[k] # i
  BY <1>6, <1>9 DEF FreeSet
<1>11. \A k, l \in DOMAIN free : free[k] = free[l] => k = l
  BY DEF FreeListIsExact
<1>12. \A k, l \in DOMAIN free' : free'[k] = free'[l] => k = l
  BY <1>6, <1>10, <1>11
<1>13. FreeSet' = FreeSet \cup {i}
  <2>1. \A k \in 1 .. Len(free) + 1 : k = Len(free) + 1 \/ k \in 1 .. Len(free)
    BY <1>6
  <2>2. Len(free) + 1 \in 1 .. Len(free) + 1 /\ \A k \in 1 .. Len(free) : k \in 1 .. Len(free) + 1
    BY <1>6
  <2> QED  BY <1>6, <2>1, <2>2, Zenon DEF FreeSet
<1>14. Dead' = Dead \cup {i}
  <2>1. ASSUME NEW j \in Index
        PROVE  At(entries', j) = IF j = i THEN e ELSE At(entries, j)
    BY <1>1, <1>2, <1>5, EntryOfIndex DEF At
  <2> QED  BY <1>1, <1>4, <1>5, <2>1 DEF Dead
<1> QED
  BY <1>8, <1>9, <1>12, <1>13, <1>14, Zenon DEF FreeListIsExact, FreeSet, Dead

\* A set makes the vector long enough and writes one slot; the allocator does not
\* change (84-99).
LEMMA SetIsExact ==
  ASSUME FreeListIsExact, NEW h \in issued, NEW v \in Values, Set(h, v)
  PROVE  FreeListIsExact'
<1> DEFINE i == h.index
           new == [generation |-> h.generation, value |-> v]
           more == [k \in 1 .. i + 1 - Len(slots) |-> Null]
<1>1. /\ TypeOK /\ slots \in Seq(Slot) /\ Len(slots) \in Nat /\ i \in Index
      /\ h.generation \in Generations /\ new \in Slot
  <2>1. TypeOK /\ slots \in Seq(Slot) /\ i \in Index /\ h.generation \in Generations
    BY DEF FreeListIsExact, TypeOK, Slot
  <2> QED  BY <2>1, Shape DEF Slot
<1>2. i \in Nat
  BY <1>1, EntryOfIndex
<1> HIDE DEF i, new
<1>3. Grown(i) \in Seq(Slot) /\ i + 1 \in 1 .. Len(Grown(i))
  <2>1. CASE Len(slots) > i
    BY <1>1, <1>2, <2>1 DEF Grown
  <2>2. CASE ~(Len(slots) > i)
    <3>1. Null \in Slot
      BY DEF Slot
    <3>2. more \in Seq(Slot) /\ Len(more) = i + 1 - Len(slots)
      BY <1>1, <1>2, <2>2, <3>1
    <3> HIDE DEF more
    <3>3. slots \o more \in Seq(Slot) /\ Len(slots \o more) = Len(slots) + Len(more)
      BY <1>1, <3>2, Shape
    <3>4. Grown(i) = slots \o more
      BY <2>2, Zenon DEF Grown, more
    <3> QED  BY <1>1, <1>2, <3>2, <3>3, <3>4
  <2> QED  BY <2>1, <2>2
<1>4. slots' \in Seq(Slot)
  <2>1. slots' = [Grown(i) EXCEPT ![i + 1] = new] \/ slots' = Grown(i)
    BY DEF Set, i, new
  <2> QED  BY <1>1, <1>3, <2>1, Written
<1>5. held' \in [issued' -> Values \cup {Null}] /\ UNCHANGED <<entries, free, issued, turns>>
  BY <1>1 DEF Set, TypeOK
<1> QED
  BY SMTT(30), <1>1, <1>4, <1>5 DEF FreeListIsExact, TypeOK, Slot, Index, At

\* remove empties one slot (101-104).
LEMMA RemoveIsExact ==
  ASSUME FreeListIsExact, NEW h \in issued, Remove(h)
  PROVE  FreeListIsExact'
<1>1. TypeOK /\ slots \in Seq(Slot) /\ h.index \in Index /\ Null \in Slot
  BY DEF FreeListIsExact, TypeOK, Slot
<1>2. h.index + 1 \in 1 .. Len(slots)
  BY <1>1, EntryOfIndex, Shape DEF Remove
<1>3. slots' \in Seq(Slot)
  BY <1>1, <1>2, Written DEF Remove
<1>4. held' \in [issued' -> Values \cup {Null}] /\ UNCHANGED <<entries, free, issued, turns>>
  BY <1>1 DEF Remove, TypeOK
<1> QED
  BY SMTT(30), <1>1, <1>3, <1>4 DEF FreeListIsExact, TypeOK, Slot, Index, At

\* For every number of generations, values and calls, whatever handles a client
\* deallocates, sets and removes: the free list holds exactly the dead indices,
\* each once, so no index is handed out while it is in use (30-47).
THEOREM FreeListStaysExact == Spec => []FreeListIsExact
<1>1. FreeListIsExact /\ [Next]_vars => FreeListIsExact'
  <2> SUFFICES ASSUME FreeListIsExact, [Next]_vars
               PROVE  FreeListIsExact'
      OBVIOUS
  <2>1. CASE Allocate
    BY <2>1, ReuseIsExact, GrowthIsExact
  <2>2. ASSUME NEW h \in issued, Deallocate(h) \/ Remove(h) \/ \E v \in Values : Set(h, v)
        PROVE  FreeListIsExact'
    BY <2>2, DeallocateIsExact, RemoveIsExact, SetIsExact
  <2>3. CASE UNCHANGED vars
    BY <2>3, SMTT(30) DEF vars, FreeListIsExact, TypeOK, Index, At
  <2> QED  BY <2>1, <2>2, <2>3 DEF Next
<1> QED
  BY <1>1, InitIsExact, PTL DEF Spec
(* LiveReadsItsOwn for every number of generations, allocations and values:  *)
(* what the generations of the entries, the handles and the slots say about  *)
(* how often each index was handed out.                                      *)

\* The slot of an index, which may lie past the end of the vector.
SlotAt(i) == IF i < Len(slots) THEN At(slots, i) ELSE Null

\* The handle an index was last handed out with.
Newest(i) == [index |-> i, generation |-> At(entries, i).generation, turn |-> At(turns, i)]

\* Generations count the turns, up to the wrap (34, 39).
TurnsInv ==
  /\ \A i \in Index : At(entries, i).generation = At(turns, i) % GenMod /\ Newest(i) \in issued
  /\ \A h \in issued : h.generation = h.turn % GenMod /\ h.turn <= At(turns, h.index)

\* Before the wrap no slot is newer than the last handle of its index (91-97).
SlotsInv ==
  /\ Len(slots) <= Len(entries)
  /\ \A i \in Index : SlotAt(i) # Null /\ ~Wrapped(i) => SlotAt(i).generation <= At(turns, i)

\* The second part of LiveReadsItsOwn.
Reads ==
  \A h \in issued : is_alive(h) /\ Current(h) /\ ~Wrapped(h.index) => get(h) = held[h]

HInv == FreeListIsExact /\ TurnsInv /\ SlotsInv /\ Reads

\* Quotient and remainder, for every number of generations.
LEMMA Quotient ==
  ASSUME NEW n \in Nat \ {0}, NEW x \in Nat
  PROVE  x % n \in 0 .. n - 1 /\ x \div n \in Nat /\ x = n * (x \div n) + (x % n)
  OBVIOUS

\* They are unique.
LEMMA OneRemainder ==
  ASSUME NEW n \in Nat \ {0}, NEW k \in Int, NEW l \in Int,
         NEW r \in 0 .. n - 1, NEW s \in 0 .. n - 1, n * k + r = n * l + s
  PROVE  r = s
<1>1. n * (k - l) = s - r /\ n * (l - k) = r - s
  OBVIOUS
<1>2. ~(k - l >= 1)
  <2> SUFFICES ASSUME k - l >= 1
               PROVE  FALSE
      OBVIOUS
  <2>1. n * (k - l) >= n
    OBVIOUS
  <2> QED  BY <1>1, <2>1
<1>3. ~(l - k >= 1)
  <2> SUFFICES ASSUME l - k >= 1
               PROVE  FALSE
      OBVIOUS
  <2>1. n * (l - k) >= n
    OBVIOUS
  <2> QED  BY <1>1, <2>1
<1> QED  BY <1>1, <1>2, <1>3

\* A number's remainder can be read off any way of writing it.
LEMMA RemainderIs ==
  ASSUME NEW n \in Nat \ {0}, NEW x \in Nat, NEW q \in Int, NEW r \in 0 .. n - 1, x = n * q + r
  PROVE  x % n = r
<1>1. PICK k \in Nat, s \in 0 .. n - 1 : x = n * k + s /\ x % n = s
  BY Quotient, Zenon
<1>2. k \in Int /\ n * k + s = n * q + r
  BY <1>1
<1>3. s = r
  BY <1>2, OneRemainder
<1> QED  BY <1>1, <1>3

\* Numbers of the same generation are a multiple of the generations apart.
LEMMA SameGeneration ==
  ASSUME NEW n \in Nat \ {0}, NEW a \in Nat, NEW b \in Nat, a % n = b % n, b <= a
  PROVE  (a - b) % n = 0
<1>1. PICK k \in Nat, s \in 0 .. n - 1 : a = n * k + s /\ a % n = s
  BY Quotient, Zenon
<1>2. PICK l \in Nat, t \in 0 .. n - 1 : b = n * l + t /\ b % n = t
  BY Quotient, Zenon
<1>3. a - b = n * (k - l) + 0
  BY <1>1, <1>2
<1>4. a - b \in Nat /\ k - l \in Int /\ 0 \in 0 .. n - 1
  OBVIOUS
<1> QED  BY <1>3, <1>4, RemainderIs

\* The next generation is that of the next turn (34).
LEMMA NextGeneration ==
  ASSUME NEW n \in Nat \ {0}, NEW a \in Nat
  PROVE  ((a % n) + 1) % n = (a + 1) % n
<1>1. PICK k \in Nat, s \in 0 .. n - 1 : a = n * k + s /\ a % n = s
  BY Quotient, Zenon
<1>2. s + 1 \in Nat /\ a + 1 \in Nat
  OBVIOUS
<1>3. PICK l \in Nat, t \in 0 .. n - 1 : s + 1 = n * l + t /\ (s + 1) % n = t
  BY <1>2, Quotient, Zenon
<1>4. a + 1 = n * (k + l) + t /\ k + l \in Int
  BY <1>1, <1>3
<1>5. (a + 1) % n = t
  BY <1>2, <1>4, RemainderIs, Zenon
<1> QED  BY <1>1, <1>3, <1>5

\* Before the wrap the generation is the turn.
LEMMA FirstGenerations ==
  ASSUME NEW n \in Nat \ {0}, NEW a \in Nat, a < n
  PROVE  a % n = a
  OBVIOUS

\* What the handles are made of.
LEMMA HandleFacts ==
  ASSUME TypeOK
  PROVE  /\ GenMod \in Nat \ {0} /\ Len(slots) \in Nat /\ Len(entries) \in Nat
         /\ \A i \in Index : /\ i \in Nat /\ At(turns, i) \in Nat
                             /\ At(entries, i).generation \in Nat
         /\ \A h \in issued : /\ h \in Handle /\ h.index \in Index
                              /\ h.turn \in Nat /\ h.generation \in Nat
<1>1. GenMod \in Nat \ {0} /\ Generations \subseteq Nat
  BY GenerationalAssumption DEF GenerationalAssumption, Generations
<1>2. Len(slots) \in Nat /\ Len(entries) \in Nat
  BY Shape DEF TypeOK
<1>3. ASSUME NEW i \in Index
      PROVE  i \in Nat /\ At(turns, i) \in Nat /\ At(entries, i).generation \in Nat
  BY <1>1, EntryOfIndex, Zenon DEF At, Entry
<1>4. ASSUME NEW h \in issued
      PROVE  h \in Handle /\ h.index \in Index /\ h.turn \in Nat /\ h.generation \in Nat
  BY <1>1, Zenon DEF TypeOK, Handle
<1> QED  BY <1>1, <1>2, <1>3, <1>4

\* What a slot holds.
LEMMA SlotFacts ==
  ASSUME TypeOK, NEW i \in Nat, SlotAt(i) # Null
  PROVE  /\ SlotAt(i).generation \in Int /\ SlotAt(i).value \in Values
         /\ i < Len(slots) /\ SlotAt(i) = At(slots, i)
<1>1. i < Len(slots) /\ SlotAt(i) = At(slots, i) /\ slots \in Seq(Slot) /\ Len(slots) \in Nat
  BY Shape DEF TypeOK, SlotAt, Slot
<1>2. At(slots, i) \in Slot
  BY <1>1 DEF At
<1> QED  BY <1>1, <1>2 DEF Slot, Generations

\* get looks at the slot of its index (106-124); this state's and the next one's.
LEMMA GetFacts ==
  ASSUME NEW h, h.index \in Nat, Len(slots) \in Nat, Len(slots') \in Nat
  PROVE  /\ get(h) = IF SlotAt(h.index) # Null /\ SlotAt(h.index).generation = h.generation
                     THEN SlotAt(h.index).value ELSE Null
         /\ get(h)' = IF SlotAt(h.index)' # Null /\ SlotAt(h.index)'.generation = h.generation
                      THEN SlotAt(h.index)'.value ELSE Null
  BY DEF get, SlotAt

\* What allocate does, whether it takes a free index or makes one (30-40).
LEMMA AllocateFacts ==
  ASSUME HInv, Allocate
  PROVE  \E i \in Nat, n \in Nat :
           LET h == [index |-> i, generation |-> n % GenMod, turn |-> n] IN
           /\ Index' = Index \cup {i}
           /\ \A k \in Index : k # i => /\ At(entries', k) = At(entries, k)
                                        /\ At(turns', k) = At(turns, k)
           /\ At(entries', i) = [is_alive |-> TRUE, generation |-> n % GenMod]
           /\ At(turns', i) = n
           /\ IF i \in Index THEN n = At(turns, i) + 1 ELSE n = 0 /\ i >= Len(slots)
           /\ Len(slots) <= Len(entries')
           /\ issued' = issued \cup {h}
           /\ held' = [k \in issued' |-> IF k \in issued THEN held[k] ELSE Null]
           /\ slots' = slots
<1>1. /\ TypeOK /\ entries \in Seq(Entry) /\ turns \in Seq(Nat) /\ Len(turns) = Len(entries)
      /\ free \in Seq(Index) /\ GenMod \in Nat \ {0} /\ Len(slots) \in Nat /\ Len(entries) \in Nat
      /\ Len(slots) <= Len(entries)
  BY HandleFacts DEF HInv, SlotsInv, FreeListIsExact, TypeOK, Entry
<1>2. CASE free # <<>>
  <2>1. PICK i \in Nat : i = free[Len(free)]
    BY <1>1, <1>2, FrontOf, EntryOfIndex
  <2>2. i \in Index /\ i \in Nat /\ i + 1 \in 1 .. Len(entries) /\ turns[i + 1] \in Nat
    BY <1>1, <1>2, <2>1, FrontOf, EntryOfIndex, SMTT(30)
  <2>3. PICK n \in Nat : n = turns[i + 1] + 1
    BY <2>2
  <2>4. (At(entries, i).generation + 1) % GenMod = n % GenMod /\ n % GenMod \in Generations
    <3>1. At(entries, i).generation = turns[i + 1] % GenMod
      BY <2>2 DEF HInv, TurnsInv, At
    <3>2. n % GenMod \in 0 .. GenMod - 1
      BY <1>1, Quotient
    <3> QED  BY <1>1, <2>2, <2>3, <3>1, <3>2, NextGeneration, Zenon DEF Generations
  <2>5. PICK e \in Entry : e = [is_alive |-> TRUE, generation |-> n % GenMod]
    BY <2>4, Zenon DEF Entry
  <2>6. /\ entries' = [entries EXCEPT ![i + 1] = e]
        /\ turns' = [turns EXCEPT ![i + 1] = n]
        /\ issued' = issued \cup {[index |-> i, generation |-> n % GenMod, turn |-> At(turns', i)]}
        /\ held' = [k \in issued' |-> IF k \in issued THEN held[k] ELSE Null]
        /\ slots' = slots
    BY <1>2, <2>1, <2>3, <2>4, <2>5, Zenon DEF Allocate, allocate
  <2>7. /\ Len(entries') = Len(entries)
        /\ \A k \in 1 .. Len(entries) : entries'[k] = IF k = i + 1 THEN e ELSE entries[k]
        /\ \A k \in 1 .. Len(entries) : turns'[k] = IF k = i + 1 THEN n ELSE turns[k]
    <3>1. i + 1 \in 1 .. Len(turns)
      BY <1>1, <2>2
    <3>2. /\ Len(entries') = Len(entries)
          /\ \A k \in 1 .. Len(entries) : entries'[k] = IF k = i + 1 THEN e ELSE entries[k]
      BY <1>1, <2>2, <2>6, Written, SMTT(30)
    <3>3. \A k \in 1 .. Len(turns) : turns'[k] = IF k = i + 1 THEN n ELSE turns[k]
      BY <1>1, <2>6, <3>1, Written, SMTT(30)
    <3> QED  BY <1>1, <3>2, <3>3
  <2>8. Index' = Index /\ \A k \in Index : k \in Nat /\ k + 1 \in 1 .. Len(entries)
    BY <1>1, <2>7 DEF Index
  <2>9. \A k \in Index : k # i => At(entries', k) = At(entries, k) /\ At(turns', k) = At(turns, k)
    <3> SUFFICES ASSUME NEW k \in Index, k # i
                 PROVE  At(entries', k) = At(entries, k) /\ At(turns', k) = At(turns, k)
        OBVIOUS
    <3>1. k + 1 \in 1 .. Len(entries) /\ k + 1 # i + 1
      BY <2>2, <2>8
    <3> QED  BY <2>7, <3>1 DEF At
  <2>10. At(entries', i) = e /\ At(turns', i) = n /\ At(turns, i) + 1 = n
    BY <2>2, <2>3, <2>7 DEF At
  <2>11. /\ Index' = Index \cup {i} /\ Len(slots) <= Len(entries')
         /\ issued' = issued \cup {[index |-> i, generation |-> n % GenMod, turn |-> n]}
    BY <1>1, <2>2, <2>6, <2>7, <2>8, <2>10, Zenon
  <2> WITNESS i \in Nat, n \in Nat
  <2> QED  BY <2>2, <2>5, <2>6, <2>9, <2>10, <2>11, Zenon
<1>3. CASE free = <<>>
  <2>1. PICK i \in Nat : i = Len(entries)
    BY <1>1
  <2>2. 0 % GenMod = 0 /\ 0 \in Generations
    BY <1>1, FirstGenerations DEF Generations
  <2>3. PICK e \in Entry : e = [is_alive |-> TRUE, generation |-> 0 % GenMod]
    BY <2>2, Zenon DEF Entry
  <2>4. /\ entries' = Append(entries, e) /\ turns' = Append(turns, 0)
        /\ issued' = issued \cup {[index |-> i, generation |-> 0 % GenMod, turn |-> 0]}
        /\ held' = [k \in issued' |-> IF k \in issued THEN held[k] ELSE Null]
        /\ slots' = slots
    BY <1>3, <2>1, <2>2, <2>3, Zenon DEF Allocate, allocate
  <2>5. /\ Len(entries') = Len(entries) + 1
        /\ \A k \in 1 .. Len(entries) : entries'[k] = entries[k] /\ turns'[k] = turns[k]
        /\ entries'[i + 1] = e /\ turns'[i + 1] = 0
    BY <1>1, <2>1, <2>4
  <2>6. Index' = Index \cup {i} /\ i \notin Index
        /\ \A k \in Index : k \in Nat /\ k + 1 \in 1 .. Len(entries)
    BY <1>1, <2>1, <2>5 DEF Index
  <2>7. \A k \in Index : At(entries', k) = At(entries, k) /\ At(turns', k) = At(turns, k)
    BY <2>5, <2>6 DEF At
  <2>8. At(entries', i) = e /\ At(turns', i) = 0
    BY <2>5 DEF At
  <2>9. i >= Len(slots) /\ Len(slots) <= Len(entries') /\ 0 \in Nat
    BY <1>1, <2>1, <2>5
  <2> QED  BY <2>3, <2>4, <2>6, <2>7, <2>8, <2>9, Zenon
<1> QED  BY <1>2, <1>3

\* A new handle belongs to the newest turn of its index, and nothing was set
\* through it: an older entry, if there is one, is of a smaller generation.
LEMMA AllocateReads ==
  ASSUME HInv, Allocate, TypeOK'
  PROVE  TurnsInv' /\ SlotsInv' /\ Reads'
<1>1. PICK i \in Nat, n \in Nat :
           LET h == [index |-> i, generation |-> n % GenMod, turn |-> n] IN
           /\ Index' = Index \cup {i}
           /\ \A k \in Index : k # i => /\ At(entries', k) = At(entries, k)
                                        /\ At(turns', k) = At(turns, k)
           /\ At(entries', i) = [is_alive |-> TRUE, generation |-> n % GenMod]
           /\ At(turns', i) = n
           /\ IF i \in Index THEN n = At(turns, i) + 1 ELSE n = 0 /\ i >= Len(slots)
           /\ Len(slots) <= Len(entries')
           /\ issued' = issued \cup {h}
           /\ held' = [k \in issued' |-> IF k \in issued THEN held[k] ELSE Null]
           /\ slots' = slots
  BY AllocateFacts
<1>2. PICK h : /\ h = [index |-> i, generation |-> n % GenMod, turn |-> n]
               /\ h.index = i /\ h.generation = n % GenMod /\ h.turn = n
               /\ issued' = issued \cup {h}
  BY <1>1, Zenon
<1>3. /\ TypeOK /\ GenMod \in Nat \ {0} /\ Len(slots) \in Nat /\ Len(entries) \in Nat
      /\ \A k \in Index : k \in Nat /\ At(turns, k) \in Nat /\ At(entries, k).generation \in Nat
      /\ \A k \in issued : /\ k \in Handle /\ k.index \in Index
                           /\ k.turn \in Nat /\ k.generation \in Nat
      /\ \A k \in issued : k.generation = k.turn % GenMod /\ k.turn <= At(turns, k.index)
      /\ \A k \in Index : At(entries, k).generation = At(turns, k) % GenMod /\ Newest(k) \in issued
  BY HandleFacts DEF HInv, FreeListIsExact, TurnsInv
<1>4. \A k \in Index : SlotAt(k)' = SlotAt(k) /\ SlotAt(i)' = SlotAt(i)
  BY <1>1 DEF SlotAt
<1>5. \A k \in issued : k.index = i => k.turn < n
  BY <1>1, <1>3
<1>6. h \notin issued
  BY <1>2, <1>3, <1>5
<1>7. TurnsInv'
  <2>1. ASSUME NEW k \in Index'
        PROVE  At(entries, k)'.generation = At(turns, k)' % GenMod /\ Newest(k)' \in issued'
    <3>1. CASE k = i
      BY <1>1, <1>2, <3>1 DEF Newest, At
    <3>2. CASE k # i
      <4>1. k \in Index /\ At(entries, k)' = At(entries, k) /\ At(turns, k)' = At(turns, k)
        BY <1>1, <3>2 DEF At
      <4> QED  BY <1>2, <1>3, <4>1 DEF Newest
    <3> QED  BY <3>1, <3>2
  <2>2. ASSUME NEW k \in issued'
        PROVE  k.generation = k.turn % GenMod /\ k.turn <= At(turns, k.index)'
    <3>1. CASE k = h
      BY <1>1, <1>2, <3>1 DEF At
    <3>2. CASE k \in issued /\ k.index = i
      BY <1>1, <1>3, <1>5, <3>2 DEF At
    <3>3. CASE k \in issued /\ k.index # i
      BY <1>1, <1>3, <3>3, Zenon DEF At
    <3> QED  BY <1>2, <3>1, <3>2, <3>3
  <2> QED  BY <2>1, <2>2 DEF TurnsInv
<1>8. ASSUME NEW k \in Index', SlotAt(k)' # Null, ~Wrapped(k)'
      PROVE  SlotAt(k)'.generation <= At(turns, k)' /\ (k = i => i \in Index /\ SlotAt(k).generation < n)
  <2>1. \A x \in Index : SlotAt(x) # Null /\ ~Wrapped(x) => SlotAt(x).generation <= At(turns, x)
    BY DEF HInv, SlotsInv
  <2>2. CASE k # i
    BY <1>1, <1>4, <1>8, <2>1, <2>2 DEF Wrapped, At
  <2>3. CASE k = i
    <3>1. i \in Index
      BY <1>1, <1>8, <2>3 DEF SlotAt
    <3>2. SlotAt(i)' = SlotAt(i) /\ n = At(turns, i) + 1 /\ At(turns, i)' = n
      BY <1>1, <1>4, <3>1 DEF At
    <3>3. ~Wrapped(i) /\ SlotAt(i) # Null
      BY <1>3, <1>8, <2>3, <3>1, <3>2 DEF Wrapped
    <3>4. SlotAt(i).generation <= At(turns, i)
      BY <2>1, <3>1, <3>3
    <3>5. SlotAt(i).generation \in Int
      BY <1>1, <1>3, <3>3, SlotFacts
    <3> QED  BY <1>3, <2>3, <3>1, <3>2, <3>4, <3>5
  <2> QED  BY <2>2, <2>3
<1>9. SlotsInv'
  BY <1>1, <1>8 DEF SlotsInv
<1>10. ASSUME NEW k \in issued', is_alive(k)', Current(k)', ~Wrapped(k.index)'
       PROVE  get(k)' = held'[k]
  <2>1. CASE k = h
    <3>1. held'[k] = Null /\ n < GenMod /\ n % GenMod = n
      BY <1>1, <1>2, <1>3, <1>6, <1>10, <2>1, FirstGenerations DEF Wrapped, At
    <3>2. SlotAt(i)' = Null \/ (SlotAt(i)'.generation \in Int /\ SlotAt(i)'.generation < n)
      <4> SUFFICES ASSUME SlotAt(i)' # Null
                   PROVE  SlotAt(i)'.generation \in Int /\ SlotAt(i)'.generation < n
          OBVIOUS
      <4>1. i \in Index' /\ ~Wrapped(i)'
        BY <1>1, <1>2, <1>10, <2>1
      <4>2. i \in Index /\ SlotAt(i).generation < n /\ SlotAt(i)' = SlotAt(i)
        BY <1>4, <1>8, <4>1
      <4>3. SlotAt(i).generation \in Int
        BY <1>1, <1>3, <4>2, SlotFacts
      <4> QED  BY <4>2, <4>3
    <3> QED  BY <1>1, <1>2, <1>3, <2>1, <3>1, <3>2, GetFacts
  <2>2. CASE k \in issued /\ k.index = i
    BY <1>1, <1>3, <1>5, <1>10, <2>2 DEF Current, At
  <2>3. CASE k \in issued /\ k.index # i
    <3>1. /\ k.index \in Index /\ At(entries', k.index) = At(entries, k.index)
          /\ At(turns', k.index) = At(turns, k.index) /\ k.index < Len(entries)
      BY <1>1, <1>3, <2>3, SMTT(30) DEF Index
    <3>2. is_alive(k) /\ Current(k) /\ ~Wrapped(k.index)
      BY <1>10, <3>1 DEF is_alive, Current, Wrapped, At
    <3>3. get(k) = held[k]
      BY <2>3, <3>2 DEF HInv, Reads
    <3> QED  BY <1>1, <2>3, <3>3 DEF get
  <2> QED  BY <1>2, <2>1, <2>2, <2>3
<1> QED  BY <1>7, <1>9, <1>10 DEF Reads

\* deallocate ends the life of the handles of its index (42-47).
LEMMA DeallocateReads ==
  ASSUME HInv, NEW h \in issued, Deallocate(h)
  PROVE  TurnsInv' /\ SlotsInv' /\ Reads'
<1>1. TypeOK /\ h.index \in Index /\ h.index \in Nat /\ Len(entries) \in Nat
  BY HandleFacts DEF HInv, FreeListIsExact
<1>2. PICK i \in Nat : i = h.index
  BY <1>1
<1>3. /\ entries' = [entries EXCEPT ![i + 1].is_alive = FALSE]
      /\ held' = [k \in issued |-> IF k.index = i THEN Null ELSE held[k]]
      /\ slots' = slots /\ issued' = issued /\ turns' = turns
  BY <1>2 DEF Deallocate
<1>4. entries \in Seq(Entry) /\ i \in Index /\ i + 1 \in 1 .. Len(entries) /\ entries[i + 1] \in Entry
  BY <1>1, <1>2, EntryOfIndex DEF TypeOK, Entry
<1>5. PICK e \in Entry : /\ e = [entries[i + 1] EXCEPT !.is_alive = FALSE]
                         /\ ~e.is_alive /\ e.generation = entries[i + 1].generation
  <2>1. ASSUME NEW x \in Entry, NEW y, y = [x EXCEPT !.is_alive = FALSE]
        PROVE  y \in Entry /\ ~y.is_alive /\ y.generation = x.generation
    BY <2>1, Zenon DEF Entry
  <2>2. PICK x \in Entry : x = entries[i + 1]
    BY <1>4
  <2>3. PICK y : y = [x EXCEPT !.is_alive = FALSE]
    BY Zenon
  <2>4. y \in Entry /\ ~y.is_alive /\ y.generation = x.generation
    BY <2>1, <2>3
  <2> QED  BY <2>2, <2>3, <2>4, Zenon
<1>6. /\ Len(entries') = Len(entries)
      /\ \A k \in 1 .. Len(entries) : entries'[k] = IF k = i + 1 THEN e ELSE entries[k]
  <2>1. entries' = [entries EXCEPT ![i + 1] = e]
    BY <1>3, <1>5
  <2> QED  BY <1>4, <2>1, Written
<1>7. Index' = Index /\ \A k \in Index : k \in Nat /\ k + 1 \in 1 .. Len(entries)
  BY <1>1, <1>6 DEF Index
<1>8. ASSUME NEW k \in Index
      PROVE  /\ At(entries, k)'.generation = At(entries, k).generation
             /\ At(entries, k)'.is_alive => k # i /\ At(entries, k).is_alive
  BY <1>4, <1>5, <1>6, <1>7, Zenon DEF At
<1>9. TurnsInv'
  BY <1>3, <1>7, <1>8 DEF HInv, TurnsInv, Newest, At
<1>10. SlotsInv'
  BY <1>3, <1>6, <1>7 DEF HInv, SlotsInv, SlotAt, Wrapped, At
<1>11. ASSUME NEW k \in issued', is_alive(k)', Current(k)', ~Wrapped(k.index)'
       PROVE  get(k)' = held'[k]
  <2>1. k \in issued /\ k.index \in Index
    BY <1>1, <1>3, HandleFacts
  <2>2. k.index # i /\ is_alive(k) /\ Current(k) /\ ~Wrapped(k.index)
    <3>1. At(entries, k.index)'.is_alive /\ At(entries, k.index)'.generation = k.generation
      BY <1>11 DEF is_alive, At
    <3>2. k.index < Len(entries)
      BY <1>6, <1>11 DEF is_alive
    <3> QED  BY <1>3, <1>8, <1>11, <2>1, <3>1, <3>2 DEF is_alive, Current, Wrapped, At
  <2>3. get(k) = held[k]
    BY <2>1, <2>2 DEF HInv, Reads
  <2> QED  BY <1>3, <2>1, <2>2, <2>3 DEF get
<1> QED  BY <1>9, <1>10, <1>11 DEF Reads

\* What set does to the slots: the one of its index, if it accepts (84-99).
LEMMA SetFacts ==
  ASSUME TypeOK, NEW h \in issued, NEW v \in Values, Set(h, v), Len(slots) <= Len(entries)
  PROVE  /\ Accepts(h) <=> SlotAt(h.index) = Null \/ SlotAt(h.index).generation <= h.generation
         /\ \A k \in Nat : SlotAt(k)' = IF k = h.index /\ Accepts(h)
                                        THEN [generation |-> h.generation, value |-> v] ELSE SlotAt(k)
         /\ Len(slots') \in Nat /\ Len(slots') <= Len(entries)
<1>1. /\ slots \in Seq(Slot) /\ Len(slots) \in Nat /\ Len(entries) \in Nat
      /\ h.index \in Nat /\ h.index < Len(entries)
  BY HandleFacts DEF TypeOK, Slot, Index
<1>2. PICK i \in Nat : i = h.index
  BY <1>1
<1>3. PICK g : g = Grown(i)
  OBVIOUS
<1>4. /\ g \in Seq(Slot) /\ i + 1 \in 1 .. Len(g) /\ Len(g) \in Nat /\ Len(g) <= Len(entries)
      /\ Len(g) >= Len(slots)
      /\ \A k \in 1 .. Len(g) : g[k] = IF k <= Len(slots) THEN slots[k] ELSE Null
  <2>1. CASE Len(slots) > i
    BY <1>1, <1>2, <1>3, <2>1, SMTT(30) DEF Grown
  <2>2. CASE ~(Len(slots) > i)
    <3>1. PICK more : more = [k \in 1 .. i + 1 - Len(slots) |-> Null]
      BY Zenon
    <3>2. /\ more \in Seq(Slot) /\ Len(more) = i + 1 - Len(slots)
          /\ \A k \in 1 .. i + 1 - Len(slots) : more[k] = Null
      BY <1>1, <2>2, <3>1 DEF Slot
    <3>3. g = slots \o more
      BY <1>3, <2>2, <3>1 DEF Grown
    <3>4. g \in Seq(Slot) /\ Len(g) = i + 1
      BY <1>1, <2>2, <3>2, <3>3
    <3>5. ASSUME NEW k \in 1 .. i + 1
          PROVE  g[k] = IF k <= Len(slots) THEN slots[k] ELSE Null
      <4>1. g[k] = IF k <= Len(slots) THEN slots[k] ELSE more[k - Len(slots)]
        BY <1>1, <2>2, <3>2, <3>3
      <4>2. k > Len(slots) => k - Len(slots) \in 1 .. i + 1 - Len(slots)
        BY <1>1
      <4> QED  BY <1>1, <3>2, <4>1, <4>2
    <3> QED  BY <1>1, <1>2, <2>2, <3>4, <3>5
  <2> QED  BY <2>1, <2>2
<1>5. \A k \in Nat : SlotAt(k) = IF k < Len(g) THEN At(g, k) ELSE Null
  BY <1>1, <1>4 DEF SlotAt, At
<1>6. Accepts(h) <=> SlotAt(i) = Null \/ SlotAt(i).generation <= h.generation
  <2>1. At(g, i) = SlotAt(i)
    BY <1>4, <1>5
  <2> QED  BY <1>2, <1>3, <2>1 DEF Accepts
<1>7. PICK new \in Slot : new = [generation |-> h.generation, value |-> v]
  BY Zenon DEF TypeOK, Slot
<1>8. slots' = IF Accepts(h) THEN [g EXCEPT ![i + 1] = new] ELSE g
  BY <1>2, <1>3, <1>7 DEF Set
<1>9. /\ Len(slots') = Len(g)
      /\ \A k \in 1 .. Len(g) : slots'[k] = IF k = i + 1 /\ Accepts(h) THEN new ELSE g[k]
  <2>1. CASE Accepts(h)
    BY <1>4, <1>8, <2>1, Written
  <2>2. CASE ~Accepts(h)
    BY <1>8, <2>2
  <2> QED  BY <2>1, <2>2
<1>10. ASSUME NEW k \in Nat
       PROVE  SlotAt(k)' = IF k = i /\ Accepts(h) THEN new ELSE SlotAt(k)
  <2>1. CASE k < Len(g)
    <3>1. k + 1 \in 1 .. Len(g) /\ (k + 1 = i + 1 <=> k = i)
      BY <1>4, <2>1
    <3>2. SlotAt(k)' = slots'[k + 1] /\ SlotAt(k) = g[k + 1]
      BY <1>5, <1>9, <2>1 DEF SlotAt, At
    <3> QED  BY <1>9, <3>1, <3>2
  <2>2. CASE ~(k < Len(g))
    BY <1>4, <1>5, <1>9, <2>2 DEF SlotAt
  <2> QED  BY <2>1, <2>2
<1> QED  BY <1>2, <1>4, <1>6, <1>7, <1>9, <1>10

\* A set through the live handle is accepted and read; one through a stale handle
\* is refused by a newer entry, or leaves an older one (84-99).
LEMMA SetReads ==
  ASSUME HInv, NEW h \in issued, NEW v \in Values, Set(h, v)
  PROVE  TurnsInv' /\ SlotsInv' /\ Reads'
<1>1. /\ TypeOK /\ GenMod \in Nat \ {0} /\ Len(slots) \in Nat /\ Len(slots) <= Len(entries)
      /\ \A k \in Index : k \in Nat /\ At(turns, k) \in Nat /\ At(entries, k).generation \in Nat
      /\ \A k \in issued : k.index \in Index /\ k.turn \in Nat /\ k.generation \in Nat
      /\ \A k \in issued : k.generation = k.turn % GenMod /\ k.turn <= At(turns, k.index)
      /\ \A k \in Index : SlotAt(k) # Null /\ ~Wrapped(k) => SlotAt(k).generation <= At(turns, k)
  BY HandleFacts DEF HInv, FreeListIsExact, TurnsInv, SlotsInv
<1>2. PICK i \in Nat : i = h.index /\ i \in Index
  BY <1>1
<1>3. PICK new : /\ new = [generation |-> h.generation, value |-> v]
                 /\ new.generation = h.generation /\ new.value = v /\ new # Null
  <2>1. h.generation \in 0 .. GenMod - 1
    BY <1>1 DEF TypeOK, Generations
  <2>2. PICK new : new = [generation |-> h.generation, value |-> v]
    BY Zenon
  <2>3. new.generation = h.generation /\ new.value = v
    BY <2>2
  <2>4. new \in [generation : 0 .. GenMod - 1, value : Values]
    BY <2>1, <2>2
  <2> QED  BY <2>2, <2>3, <2>4, GenerationalAssumption, Zenon DEF GenerationalAssumption
<1>4. /\ entries' = entries /\ issued' = issued /\ turns' = turns
      /\ held' = [k \in issued |-> IF ~is_alive(h) \/ k.index # i THEN held[k]
                                   ELSE IF k = h THEN v ELSE Null]
  BY <1>2 DEF Set
<1>5. /\ Accepts(h) <=> SlotAt(i) = Null \/ SlotAt(i).generation <= h.generation
      /\ \A k \in Nat : SlotAt(k)' = IF k = i /\ Accepts(h) THEN new ELSE SlotAt(k)
      /\ Len(slots') \in Nat /\ Len(slots') <= Len(entries)
  BY <1>1, <1>2, <1>3, SetFacts
<1>6. ASSUME NEW k \in issued, ~Wrapped(k.index)
      PROVE  k.generation = k.turn
  BY <1>1, <1>6, FirstGenerations DEF Wrapped
<1>7. TurnsInv'
  BY <1>4 DEF HInv, TurnsInv, Index, Newest, At
<1>8. ASSUME NEW k \in Index, SlotAt(k)' # Null, ~Wrapped(k)
      PROVE  SlotAt(k)'.generation <= At(turns, k)
  <2>1. CASE k = i /\ Accepts(h)
    BY <1>1, <1>2, <1>3, <1>5, <1>6, <1>8, <2>1
  <2>2. CASE ~(k = i /\ Accepts(h))
    BY <1>1, <1>5, <1>8, <2>2
  <2> QED  BY <2>1, <2>2
<1>9. SlotsInv'
  BY <1>4, <1>5, <1>8 DEF SlotsInv, Index, Wrapped, At
<1>10. ASSUME NEW k \in issued, is_alive(k), Current(k), ~Wrapped(k.index)
       PROVE  get(k)' = held'[k]
  <2>1. get(k) = held[k] /\ k.index \in Nat
    BY <1>1, <1>10 DEF HInv, Reads
  <2>2. CASE k.index # i
    BY <1>1, <1>4, <1>5, <2>1, <2>2, GetFacts, SMTT(30)
  <2>3. CASE k.index = i /\ is_alive(h)
    <3>1. h.generation = k.generation
      BY <1>2, <1>10, <2>3 DEF is_alive
    <3>2. h.turn = k.turn /\ k.turn = At(turns, i) /\ k.generation = k.turn
      BY <1>2, <1>6, <1>10, <2>3, <3>1 DEF Current
    <3>3. h = k
      <4>1. h \in Handle /\ k \in Handle
        BY <1>1, HandleFacts
      <4> QED  BY <1>2, <2>3, <3>1, <3>2, <4>1 DEF Handle
    <3>4. Accepts(h)
      BY <1>1, <1>2, <1>5, <1>10, <2>3, <3>1, <3>2, SMTT(30)
    <3>5. SlotAt(i)' = new /\ held'[k] = v
      BY <1>2, <1>4, <1>5, <2>3, <3>3, <3>4
    <3> QED  BY <1>1, <1>3, <1>5, <2>1, <2>3, <3>1, <3>5, GetFacts
  <2>4. CASE k.index = i /\ ~is_alive(h)
    <3>1. h.generation # k.generation
      BY <1>2, <1>10, <2>4 DEF is_alive
    <3>2. h.generation < k.generation
      BY <1>1, <1>2, <1>6, <1>10, <2>4, <3>1, SMTT(30) DEF Current
    <3>3. held'[k] = held[k]
      BY <1>4, <2>4
    <3>4. CASE Accepts(h)
      <4>1. SlotAt(i) = Null \/ SlotAt(i).generation # k.generation
        BY <1>1, <1>2, <1>5, <3>2, <3>4, SlotFacts
      <4>2. get(k) = Null
        BY <1>1, <1>5, <2>1, <2>4, <4>1, GetFacts
      <4>3. get(k)' = Null
        BY <1>1, <1>2, <1>3, <1>5, <2>1, <2>4, <3>1, <3>4, GetFacts
      <4> QED  BY <2>1, <3>3, <4>2, <4>3
    <3>5. CASE ~Accepts(h)
      BY <1>1, <1>5, <2>1, <3>3, <3>5, GetFacts
    <3> QED  BY <3>4, <3>5
  <2> QED  BY <2>2, <2>3, <2>4
<1>11. Reads'
  BY <1>4, <1>10 DEF Reads, is_alive, Current, Wrapped, At
<1> QED  BY <1>7, <1>9, <1>11

\* remove empties the slot, and nothing is read through any handle of it (101-104).
LEMMA RemoveReads ==
  ASSUME HInv, NEW h \in issued, Remove(h)
  PROVE  TurnsInv' /\ SlotsInv' /\ Reads'
<1>1. /\ TypeOK /\ Len(slots) \in Nat /\ slots \in Seq(Slot) /\ Null \in Slot
      /\ \A k \in issued : k.index \in Nat
      /\ \A k \in Index : k \in Nat
  BY HandleFacts DEF HInv, FreeListIsExact, TypeOK, Slot
<1>2. PICK i \in Nat : i = h.index /\ i < Len(slots)
  BY <1>1 DEF Remove
<1>3. /\ slots' = [slots EXCEPT ![i + 1] = Null]
      /\ held' = [k \in issued |-> IF k.index = i THEN Null ELSE held[k]]
      /\ entries' = entries /\ issued' = issued /\ turns' = turns
  BY <1>2 DEF Remove
<1>4. /\ Len(slots') = Len(slots)
      /\ \A k \in 1 .. Len(slots) : slots'[k] = IF k = i + 1 THEN Null ELSE slots[k]
  <2>1. i + 1 \in 1 .. Len(slots)
    BY <1>1, <1>2
  <2> QED  BY <1>1, <1>3, <2>1, Written
<1>5. \A k \in Nat : SlotAt(k)' = IF k = i THEN Null ELSE SlotAt(k)
  BY <1>1, <1>2, <1>4 DEF SlotAt, At
<1>6. TurnsInv'
  BY <1>3 DEF HInv, TurnsInv, Index, Newest, At
<1>7. SlotsInv'
  BY <1>1, <1>3, <1>4, <1>5 DEF HInv, SlotsInv, Index, Wrapped, At
<1>8. ASSUME NEW k \in issued, is_alive(k), Current(k), ~Wrapped(k.index)
      PROVE  get(k)' = held'[k]
  <2>1. get(k) = held[k] /\ k.index \in Nat
    BY <1>1, <1>8 DEF HInv, Reads
  <2> QED  BY <1>1, <1>3, <1>4, <1>5, <2>1, GetFacts
<1>9. Reads'
  BY <1>3, <1>8 DEF Reads, is_alive, Current, Wrapped, At
<1> QED  BY <1>6, <1>7, <1>9

\* What the clients read follows: the handles get_all_valid_indices lists are of
\* indices whose newest handle is of the slot's generation, and the first of a set
\* of indices is one of them (126-155).
LEMMA ReadsFollow ==
  ASSUME HInv
  PROVE  LiveReadsItsOwn
<1> DEFINE valid == {j \in 0 .. Len(slots) - 1 : Valid(j)}
           read == {k \in issued : is_alive(k) /\ get(k) # Null}
           pairs == {[index |-> h.index, generation |-> h.generation] : h \in read}
<1>1. /\ TypeOK /\ GenMod \in Nat \ {0} /\ Len(slots) \in Nat /\ Len(entries) \in Nat
      /\ \A k \in Index : k \in Nat /\ At(turns, k) \in Nat /\ At(entries, k).generation \in Nat
      /\ \A k \in issued : k.index \in Index /\ k.turn \in Nat
      /\ \A k \in issued : k.generation = k.turn % GenMod /\ k.turn <= At(turns, k.index)
      /\ \A k \in Index : At(entries, k).generation = At(turns, k) % GenMod /\ Newest(k) \in issued
      /\ Len(slots) <= Len(entries) /\ Null \notin Values
  BY HandleFacts, GenerationalAssumption
     DEF HInv, FreeListIsExact, TurnsInv, SlotsInv, GenerationalAssumption
<1>2. StaleIsDetected
  <2> SUFFICES ASSUME NEW h \in issued, is_alive(h)
               PROVE  (At(turns, h.index) - h.turn) % GenMod = 0
      BY DEF StaleIsDetected
  <2>1. At(turns, h.index) % GenMod = h.turn % GenMod
    BY <1>1 DEF is_alive
  <2> QED  BY <1>1, <2>1, SameGeneration
<1>3. ASSUME NEW i \in valid
      PROVE  /\ i \in Nat /\ i < Len(slots) /\ SlotAt(i) = At(slots, i) /\ SlotAt(i) # Null
             /\ i \in Index /\ Newest(i) \in issued /\ is_alive(Newest(i))
             /\ At(entries, i).generation = At(slots, i).generation
             /\ At(slots, i).value \in Values
  <2>1. i \in Nat /\ i < Len(slots) /\ SlotAt(i) = At(slots, i) /\ SlotAt(i) # Null /\ i \in Index
    BY <1>1 DEF Valid, SlotAt, Index
  <2>2. At(entries, i).generation = At(slots, i).generation /\ At(entries, i).is_alive
    BY DEF Valid, is_alive
  <2>3. is_alive(Newest(i)) /\ Newest(i) \in issued
    BY <1>1, <2>1, <2>2 DEF is_alive, Newest, Index
  <2> QED  BY <1>1, <2>1, <2>2, <2>3, SlotFacts
<1>4. ASSUME NEW i \in valid
      PROVE  get(ValidHandle(i)) = At(slots, i).value
  BY <1>1, <1>3 DEF get, ValidHandle
<1>5. get_all_valid_indices \subseteq pairs
  <2> SUFFICES ASSUME NEW i \in valid
               PROVE  ValidHandle(i) \in pairs
      BY DEF get_all_valid_indices
  <2>1. PICK k \in issued : /\ k = Newest(i) /\ k.index = i
                            /\ k.generation = At(slots, i).generation
    BY <1>3, Zenon DEF Newest
  <2>2. get(k) = At(slots, i).value
    BY <1>1, <1>3, <2>1 DEF get
  <2>3. k \in read
    BY <1>1, <1>3, <2>1, <2>2
  <2> QED  BY <2>1, <2>3 DEF ValidHandle
<1>6. pairs \subseteq get_all_valid_indices
  <2> SUFFICES ASSUME NEW k \in read
               PROVE  [index |-> k.index, generation |-> k.generation] \in get_all_valid_indices
      OBVIOUS
  <2>1. PICK i \in Nat : i = k.index
    BY <1>1
  <2>2. /\ i < Len(slots) /\ At(slots, i) # Null /\ At(slots, i).generation = k.generation
    BY <1>1, <2>1 DEF get
  <2>3. Valid(i) /\ i \in 0 .. Len(slots) - 1
    BY <1>1, <2>1, <2>2 DEF Valid, is_alive
  <2> QED  BY <2>1, <2>2, <2>3 DEF get_all_valid_indices, ValidHandle
<1>7. valid = {} <=> get_all_valid_indices = {}
  BY DEF get_all_valid_indices
<1>8. ASSUME valid # {}
      PROVE  \E i \in valid : get_first_valid_entry = [handle |-> ValidHandle(i), value |-> At(slots, i).value]
  <2>1. valid \subseteq Nat
    OBVIOUS
  <2>2. \E i \in valid : \A m \in valid : i <= m
    <3> HIDE DEF valid
    <3>1. PICK i \in valid : \A m \in valid : ~(m < i)
      BY <1>8, <2>1, Least, Zenon
    <3> QED  BY <2>1, <3>1
  <2>3. PICK i : i = CHOOSE j \in valid : \A k \in valid : j <= k
    OBVIOUS
  <2>4. i \in valid
    BY <2>2, <2>3
  <2> QED  BY <1>8, <2>3, <2>4, Zenon DEF get_first_valid_entry
<1>9. IF get_all_valid_indices = {} THEN get_first_valid_entry = Null
      ELSE /\ get_first_valid_entry.handle \in get_all_valid_indices
           /\ get_first_valid_entry.value = get(get_first_valid_entry.handle)
  <2>1. CASE valid = {}
    BY <1>7, <2>1 DEF get_first_valid_entry
  <2>2. CASE valid # {}
    <3>1. PICK i \in valid : get_first_valid_entry = [handle |-> ValidHandle(i), value |-> At(slots, i).value]
      BY <1>8, <2>2
    <3>2. get_first_valid_entry.handle = ValidHandle(i) /\ get_first_valid_entry.value = At(slots, i).value
      BY <3>1
    <3>3. ValidHandle(i) \in get_all_valid_indices
      BY DEF get_all_valid_indices
    <3> QED  BY <1>4, <1>7, <2>2, <3>2, <3>3
  <2> QED  BY <2>1, <2>2
<1>10. get_all_valid_indices = pairs
  BY <1>5, <1>6
<1> QED  BY <1>2, <1>9, <1>10 DEF LiveReadsItsOwn, HInv, Reads

\* For every number of generations, values and calls: a stale handle is taken for
\* the live one only after a full round of generations, until then the live handle
\* reads what was last set through it, and get_all_valid_indices and
\* get_first_valid_entry report just what get reads (49-52, 84-155).
THEOREM LiveHandlesReadTheirOwn == Spec => []LiveReadsItsOwn
<1>1. Init => HInv
  <2> SUFFICES ASSUME Init
               PROVE  HInv
      OBVIOUS
  <2>1. Index = {} /\ issued = {} /\ Len(slots) <= Len(entries)
    BY DEF Init, Index
  <2> QED  BY <2>1, InitIsExact DEF HInv, TurnsInv, SlotsInv, Reads
<1>2. HInv /\ [Next]_vars => HInv'
  <2> SUFFICES ASSUME HInv, [Next]_vars
               PROVE  HInv'
      OBVIOUS
  <2>1. FreeListIsExact
    BY DEF HInv
  <2>2. CASE Allocate
    <3>1. FreeListIsExact'
      BY <2>1, <2>2, ReuseIsExact, GrowthIsExact
    <3>2. TypeOK'
      BY <3>1 DEF FreeListIsExact
    <3> QED  BY <2>2, <3>1, <3>2, AllocateReads DEF HInv
  <2>3. ASSUME NEW h \in issued, Deallocate(h)
        PROVE  HInv'
    BY <2>1, <2>3, DeallocateIsExact, DeallocateReads DEF HInv
  <2>4. ASSUME NEW h \in issued, Remove(h)
        PROVE  HInv'
    BY <2>1, <2>4, RemoveIsExact, RemoveReads DEF HInv
  <2>5. ASSUME NEW h \in issued, NEW v \in Values, Set(h, v)
        PROVE  HInv'
    BY <2>1, <2>5, SetIsExact, SetReads DEF HInv
  <2>6. CASE UNCHANGED vars
    <3>1. FreeListIsExact'
      BY <2>1, <2>6 DEF vars, FreeListIsExact, TypeOK, Index, At
    <3>2. TurnsInv'
      BY <2>6 DEF vars, HInv, TurnsInv, Index, At, Newest
    <3>3. SlotsInv'
      BY <2>6 DEF vars, HInv, SlotsInv, Index, At, SlotAt, Wrapped
    <3>4. Reads'
      BY <2>6 DEF vars, HInv, Reads, is_alive, Current, Wrapped, get, At
    <3> QED  BY <3>1, <3>2, <3>3, <3>4 DEF HInv
  <2> QED  BY <2>2, <2>3, <2>4, <2>5, <2>6 DEF Next
<1>3. HInv => LiveReadsItsOwn
  BY ReadsFollow
<1> QED
  BY <1>1, <1>2, <1>3, PTL DEF Spec

-----------------------------------------------------------------------------
(* OneOwner for every number of objects and resources. *)

\* OneOwner resource by resource.
Accounted ==
  \A r \in Resources :
    r \in open <=> r \in loose \/ \E x \in Owners : r \in has[x] \/ r \in closing[x]
Apart ==
  \A r \in Resources, x, y \in Owners :
    /\ r \in has[x] /\ r \in has[y] => x = y
    /\ r \in closing[x] /\ r \in closing[y] => x = y
    /\ ~(r \in has[x] /\ r \in closing[y])
    /\ ~(r \in has[x] /\ r \in loose) /\ ~(r \in closing[x] /\ r \in loose)

\* They say the same, of this state and of the next.
LEMMA ByResource == OneOwner <=> OwnerTypeOK /\ Accounted /\ Apart
<1>1. ASSUME OwnerTypeOK
      PROVE  open = (UNION {has[x] \cup closing[x] : x \in Owners}) \cup loose <=> Accounted
  <2>1. open \subseteq Resources /\ loose \subseteq Resources
        /\ \A x \in Owners : has[x] \subseteq Resources /\ closing[x] \subseteq Resources
    BY <1>1 DEF OwnerTypeOK
  <2> QED  BY <2>1 DEF Accounted
<1>2. ASSUME OwnerTypeOK
      PROVE  Apart <=>
               /\ \A x, y \in Owners :
                    /\ x # y => has[x] \cap has[y] = {} /\ closing[x] \cap closing[y] = {}
                    /\ has[x] \cap closing[y] = {}
               /\ \A x \in Owners : (has[x] \cup closing[x]) \cap loose = {}
  <2>1. \A x \in Owners : has[x] \subseteq Resources /\ closing[x] \subseteq Resources
    BY <1>2 DEF OwnerTypeOK
  <2> QED  BY <2>1 DEF Apart
<1> QED  BY <1>1, <1>2 DEF OneOwner

\* The same of the next state.
LEMMA ByResourceNext == OneOwner' <=> OwnerTypeOK' /\ Accounted' /\ Apart'
  BY ByResource, PTL

\* Before the first creation nothing is open.
LEMMA InitHasOneOwner == OwnersInit => OneOwner
  BY DEF OwnersInit, OneOwner, OwnerTypeOK, Calls

\* Something new is opened by one object (epoll 46-55, iocp 197-204, 302-317).
LEMMA OpensKeeps ==
  ASSUME OneOwner, NEW x \in Owners, NEW r \in Resources, Opens(x, r) \/ AddContext(x, r)
  PROVE  OneOwner'
<1>1. OwnerTypeOK /\ Accounted /\ Apart
  BY ByResource
<1>2. /\ r \notin open /\ has' = [has EXCEPT ![x] = has[x] \cup {r}] /\ open' = open \cup {r}
      /\ UNCHANGED <<kind, closing, from, loose>> /\ pending' \in {pending, pending \cup {r}}
      /\ phase[x] \in {"none", "creating", "live"} /\ phase' \in {phase, [phase EXCEPT ![x] = "creating"]}
      /\ phase'[x] \in {"creating", "live"}
  BY <1>1 DEF Opens, AddContext, frameVars, OwnerTypeOK
<1>3. OwnerTypeOK'
  BY <1>1, <1>2 DEF OwnerTypeOK, Calls, Kinds
<1>4. Accounted' /\ Apart'
  BY <1>1, <1>2 DEF OwnerTypeOK, Accounted, Apart
<1> QED  BY <1>3, <1>4, ByResourceNext

\* create returns its object (epoll 68-72, iocp 205-208).
LEMMA CreatedKeeps ==
  ASSUME OneOwner, NEW x \in Owners, Created(x)
  PROVE  OneOwner'
  BY DEF OneOwner, OwnerTypeOK, Created, Calls, frameVars

\* What x has moves to the call that closes it, or to the runner that frees it: a
\* creation that failed, a destructor, an assignment (epoll 51-98, spawn.h 121-131).
LEMMA ReleaseKeeps ==
  ASSUME OneOwner, NEW x \in Owners, NEW D \in SUBSET has[x], D \subseteq pending,
         phase[x] \in {"creating", "live"},
         closing' = [closing EXCEPT ![x] = has[x] \ D], loose' = loose \cup D,
         has' = [has EXCEPT ![x] = {}], UNCHANGED <<open, pending>>
  PROVE  Accounted' /\ Apart'
<1>1. OwnerTypeOK /\ Accounted /\ Apart /\ closing[x] = {}
  BY ByResource DEF OwnerTypeOK, Calls
<1> QED  BY <1>1 DEF OwnerTypeOK, Accounted, Apart

\* A creation that fails and a destructor (epoll 51-66, 74-79).
LEMMA DyingKeeps ==
  ASSUME OneOwner, NEW x \in Owners, CreateFails(x) \/ DestroyOwner(x)
  PROVE  OneOwner'
<1>1. OwnerTypeOK /\ closing[x] = {}
  BY DEF OneOwner, OwnerTypeOK, CreateFails, DestroyOwner, Calls
<1>2. PICK D \in SUBSET has[x] :
        /\ D \subseteq pending /\ closing' = [closing EXCEPT ![x] = has[x] \ D]
        /\ loose' = loose \cup D /\ has' = [has EXCEPT ![x] = {}]
        /\ UNCHANGED <<kind, from, open, pending>>
        /\ phase[x] \in {"creating", "live"} /\ phase' = [phase EXCEPT ![x] = "dying"]
  <2>1. CASE CreateFails(x)
    <3>1. has[x] \ {} = has[x] /\ loose \cup {} = loose /\ {} \in SUBSET has[x]
      OBVIOUS
    <3> QED  BY <2>1, <3>1, Zenon DEF CreateFails, frameVars
  <2>2. CASE DestroyOwner(x)
    <3>1. Dropped(x) \in SUBSET has[x] /\ Dropped(x) \subseteq pending
      BY DEF Dropped
    <3> QED  BY <2>2, <3>1, Zenon DEF DestroyOwner, Released
  <2> QED  BY <2>1, <2>2
<1>3. OwnerTypeOK'
  BY <1>1, <1>2 DEF OwnerTypeOK, Calls, Kinds
<1> QED  BY <1>2, <1>3, ReleaseKeeps, ByResourceNext, Zenon

\* What y has moves to x, which has nothing (epoll 81-84, iocp 247, task.h 95,
\* spawn.h 86).
LEMMA TakesKeeps ==
  ASSUME OneOwner, NEW x \in Owners, NEW y \in Owners, x # y, has[x] = {},
         has' = Takes(x, y), UNCHANGED <<closing, open, pending, loose>>
  PROVE  Accounted' /\ Apart' /\ has' \in [Owners -> SUBSET Resources]
<1>1. OwnerTypeOK /\ Accounted /\ Apart
  BY ByResource
<1>2. \A z \in Owners : has'[z] = IF z = x THEN has[y] ELSE IF z = y THEN {} ELSE has[z]
  BY <1>1 DEF OwnerTypeOK, Takes
<1>3. has' \in [Owners -> SUBSET Resources]
  BY <1>1 DEF OwnerTypeOK, Takes
<1>4. Accounted'
  BY <1>1, <1>2 DEF Accounted
<1>5. Apart'
  BY <1>1, <1>2 DEF Apart
<1> QED  BY <1>3, <1>4, <1>5

\* The move constructors (epoll 81-84, iocp 247, task.h 95, spawn.h 86).
LEMMA MoveConstructKeeps ==
  ASSUME OneOwner, NEW x \in Owners, NEW y \in Owners, MoveConstruct(x, y)
  PROVE  OneOwner'
<1>1. OwnerTypeOK /\ x # y /\ has[x] = {}
  BY DEF OneOwner, OwnerTypeOK, MoveConstruct
<1>2. /\ has' = Takes(x, y) /\ UNCHANGED <<kind, closing, from, open, pending, loose>>
      /\ phase[x] = "none" /\ phase[y] = "live" /\ phase' = [phase EXCEPT ![x] = "live"]
  BY DEF MoveConstruct, frameVars
<1>3. Accounted' /\ Apart' /\ has' \in [Owners -> SUBSET Resources]
  BY <1>1, <1>2, TakesKeeps
<1>4. \A z \in Owners : has'[z] = IF z = x THEN has[y] ELSE IF z = y THEN {} ELSE has[z]
  BY <1>1, <1>2 DEF OwnerTypeOK, Takes
<1>5. OwnerTypeOK'
  BY <1>1, <1>2, <1>3, <1>4, Zenon DEF OwnerTypeOK, Calls, Kinds
<1> QED  BY <1>3, <1>5, ByResourceNext

\* A move assignment begins by giving back (epoll 86-98, task.h 97-104).
LEMMA MoveAssignKeeps ==
  ASSUME OneOwner, NEW x \in Owners, NEW y \in Owners, MoveAssign(x, y)
  PROVE  OneOwner'
<1>1. /\ x # y /\ phase[x] = "live" /\ phase[y] = "live"
      /\ phase' = [phase EXCEPT ![x] = "assigning", ![y] = "source"]
      /\ from' = [from EXCEPT ![x] = y] /\ has' = [has EXCEPT ![x] = {}]
      /\ closing' = [closing EXCEPT ![x] = has[x] \ Dropped(x)] /\ loose' = loose \cup Dropped(x)
      /\ UNCHANGED <<kind, open, pending>>
  BY DEF MoveAssign, Released
<1>2. OwnerTypeOK /\ Dropped(x) \in SUBSET has[x] /\ Dropped(x) \subseteq pending
  BY DEF OneOwner, Dropped
<1>3. Accounted' /\ Apart'
  BY <1>1, <1>2, ReleaseKeeps, Zenon
<1> HIDE DEF Dropped
<1>4. OwnerTypeOK'
  BY <1>1, <1>2 DEF OwnerTypeOK, Calls, Kinds
<1> QED  BY <1>3, <1>4, ByResourceNext

\* On Windows what x had goes to the temporary, what y has to x (iocp 249-259).
LEMMA MoveAssignSwapsKeeps ==
  ASSUME OneOwner, NEW x \in Owners, NEW y \in Owners, MoveAssignSwaps(x, y)
  PROVE  OneOwner'
<1>1. /\ x # y /\ phase[x] = "live" /\ phase[y] = "live"
      /\ phase' = [phase EXCEPT ![x] = "tearing", ![y] = "source"]
      /\ from' = [from EXCEPT ![x] = y] /\ has' = Takes(x, y)
      /\ closing' = [closing EXCEPT ![x] = has[x]]
      /\ UNCHANGED <<kind, open, pending, loose>>
  BY DEF MoveAssignSwaps, frameVars
<1>2. OwnerTypeOK /\ Accounted /\ Apart /\ closing[x] = {}
  BY <1>1, ByResource DEF OwnerTypeOK, Calls
<1>3. /\ \A z \in Owners : has'[z] = IF z = x THEN has[y] ELSE IF z = y THEN {} ELSE has[z]
      /\ has' \in [Owners -> SUBSET Resources]
  BY <1>1, <1>2 DEF OwnerTypeOK, Takes
<1>4. /\ \A z \in Owners : closing'[z] = IF z = x THEN has[x] ELSE closing[z]
      /\ closing' \in [Owners -> SUBSET Resources]
  BY <1>1, <1>2 DEF OwnerTypeOK
<1>5. Accounted'
  BY <1>1, <1>2, <1>3, <1>4 DEF Accounted
<1>6. Apart'
  BY <1>1, <1>2, <1>3, <1>4 DEF Apart
<1>7. OwnerTypeOK'
  BY <1>1, <1>2, <1>3, <1>4 DEF OwnerTypeOK, Calls, Kinds
<1> QED  BY <1>5, <1>6, <1>7, ByResourceNext

\* Each resource is closed by the one call that has it.
LEMMA CloseNextKeeps ==
  ASSUME OneOwner, NEW x \in Owners, NEW r \in Resources, CloseNext(x, r)
  PROVE  OneOwner'
<1>1. /\ r \in closing[x] /\ open' = open \ {r} /\ pending' = pending \ {r}
      /\ closing' = [closing EXCEPT ![x] = closing[x] \ {r}]
      /\ UNCHANGED <<kind, phase, has, from, loose>>
  BY DEF CloseNext
<1>2. OwnerTypeOK /\ Accounted /\ Apart
  BY ByResource
<1>3. OwnerTypeOK'
  BY <1>1, <1>2 DEF OwnerTypeOK, Calls, Kinds, Apart
<1>4. Accounted' /\ Apart'
  BY <1>1, <1>2 DEF OwnerTypeOK, Accounted, Apart
<1> QED  BY <1>3, <1>4, ByResourceNext

\* A call that has closed everything ends; an assignment takes what its source
\* still has (epoll 92-95, task.h 101, spawn.h 91-92).
LEMMA CallEndsKeeps ==
  ASSUME OneOwner, NEW x \in Owners, CallEnds(x)
  PROVE  OneOwner'
<1>1. /\ phase[x] \in Calls /\ closing[x] = {} /\ from' = [from EXCEPT ![x] = x]
      /\ UNCHANGED <<kind, closing, open, pending, loose>>
      /\ has' = IF phase[x] = "assigning" THEN Takes(x, from[x]) ELSE has
      /\ phase' = IF phase[x] = "dying" THEN [phase EXCEPT ![x] = "none"]
                  ELSE [phase EXCEPT ![x] = "live", ![from[x]] = "live"]
  BY DEF CallEnds, Calls, frameVars
<1>2. OwnerTypeOK /\ Accounted /\ Apart
  BY ByResource
<1>3. CASE phase[x] = "dying"
  <2>1. has' = has /\ phase' = [phase EXCEPT ![x] = "none"]
    BY <1>1, <1>3
  <2>2. OwnerTypeOK'
    BY <1>1, <1>2, <1>3, <2>1 DEF OwnerTypeOK, Calls, Kinds
  <2>3. Accounted' /\ Apart'
    BY <1>1, <1>2, <2>1 DEF Accounted, Apart
  <2> QED  BY <2>2, <2>3, ByResourceNext
<1>4. CASE phase[x] # "dying"
  <2> DEFINE y == from[x]
  <2>1. /\ y \in Owners /\ phase[y] = "source" /\ y # x /\ closing[y] = {}
        /\ phase[x] = "assigning" => has[x] = {}
        /\ phase' = [phase EXCEPT ![x] = "live", ![y] = "live"]
    BY <1>1, <1>2, <1>4 DEF OwnerTypeOK, Calls
  <2>2. (has' = Takes(x, y) /\ has[x] = {}) \/ has' = has
    BY <1>1, <2>1
  <2> HIDE DEF y
  <2>3. Accounted' /\ Apart' /\ has' \in [Owners -> SUBSET Resources]
    <3>1. CASE has' = Takes(x, y) /\ has[x] = {}
      BY <1>1, <2>1, <3>1, TakesKeeps
    <3>2. CASE has' = has
      BY <1>1, <1>2, <3>2 DEF OwnerTypeOK, Accounted, Apart
    <3> QED  BY <2>2, <3>1, <3>2
  <2>4. \A z \in Owners \ {x, y} : has'[z] = has[z]
    BY <1>2, <2>1, <2>2 DEF OwnerTypeOK, Takes
  <2>5. /\ phase' \in [Owners -> {"none", "creating", "live", "source"} \cup Calls]
        /\ from' \in [Owners -> Owners]
        /\ \A z \in Owners : phase'[z] = IF z \in {x, y} THEN "live" ELSE phase[z]
        /\ \A z \in Owners \ {x} : from'[z] = from[z]
    BY <1>1, <1>2, <2>1 DEF OwnerTypeOK
  <2>6. ASSUME NEW z \in Owners \ {x, y}, phase[z] \in {"assigning", "tearing"}
        PROVE  from[z] \in Owners /\ from[z] \notin {x, y}
    <3>1. phase[x] \in {"assigning", "tearing"}
      BY <1>1, <1>4 DEF Calls
    <3>2. from[z] \in Owners /\ phase[from[z]] = "source" /\ from[z] # y
      BY <1>2, <2>6, <3>1 DEF OwnerTypeOK, y
    <3> QED  BY <3>1, <3>2
  <2>7. OwnerTypeOK'
    BY <1>1, <1>2, <2>1, <2>3, <2>4, <2>5, <2>6 DEF OwnerTypeOK, Calls, Kinds
  <2> QED  BY <2>3, <2>7, ByResourceNext
<1> QED  BY <1>3, <1>4

\* detach leaves the frame to its coroutine (task.h 130-136).
LEMMA DetachKeeps ==
  ASSUME OneOwner, NEW x \in Owners, DetachFrame(x)
  PROVE  OneOwner'
<1>1. /\ phase[x] = "live" /\ has[x] \subseteq pending /\ loose' = loose \cup has[x]
      /\ has' = [has EXCEPT ![x] = {}] /\ UNCHANGED <<kind, phase, closing, from, open, pending>>
  BY DEF DetachFrame
<1>2. OwnerTypeOK /\ Accounted /\ Apart
  BY ByResource
<1>3. OwnerTypeOK'
  BY <1>1, <1>2 DEF OwnerTypeOK, Calls, Kinds
<1>4. closing[x] = {}
  BY <1>1, <1>2 DEF OwnerTypeOK, Calls
<1>5. Accounted' /\ Apart'
  BY <1>1, <1>2, <1>4 DEF OwnerTypeOK, Accounted, Apart
<1> QED  BY <1>3, <1>5, ByResourceNext

\* A frame that frees itself is nobody else's (task.h 48-62, spawn.h 44-56).
LEMMA FrameEndsKeeps ==
  ASSUME OneOwner, NEW r \in pending, FrameEnds(r)
  PROVE  OneOwner'
<1>1. /\ pending' = pending \ {r} /\ open' = IF r \in loose THEN open \ {r} ELSE open
      /\ loose' = loose \ {r} /\ UNCHANGED <<kind, phase, has, closing, from>>
  BY DEF FrameEnds
<1>2. OwnerTypeOK /\ Accounted /\ Apart
  BY ByResource
<1>3. OwnerTypeOK'
  BY <1>1, <1>2 DEF OwnerTypeOK, Calls, Kinds
<1>4. Accounted' /\ Apart'
  BY <1>1, <1>2 DEF OwnerTypeOK, Accounted, Apart
<1> QED  BY <1>3, <1>4, ByResourceNext

\* For every number of objects and resources, through failed creations, moves,
\* assignments, drops and detaches: what is open has one owner, and nothing is
\* closed that another owns (epoll 46-98, iocp 197-259, task.h 95-136, spawn.h
\* 86-131).
THEOREM ResourcesHaveOneOwner == OwnersSpec => []OneOwner
<1>1. OneOwner /\ [OwnersNext]_ownerVars => OneOwner'
  <2> SUFFICES ASSUME OneOwner, [OwnersNext]_ownerVars
               PROVE  OneOwner'
      OBVIOUS
  <2>1. ASSUME NEW x \in Owners, NEW r \in Resources,
               Opens(x, r) \/ AddContext(x, r) \/ CloseNext(x, r)
        PROVE  OneOwner'
    BY <2>1, OpensKeeps, CloseNextKeeps
  <2>2. ASSUME NEW x \in Owners, NEW y \in Owners,
               MoveConstruct(x, y) \/ MoveAssign(x, y) \/ MoveAssignSwaps(x, y)
        PROVE  OneOwner'
    BY <2>2, MoveConstructKeeps, MoveAssignKeeps, MoveAssignSwapsKeeps
  <2>3. ASSUME NEW x \in Owners,
               \/ Created(x) \/ CreateFails(x) \/ DestroyOwner(x) \/ DetachFrame(x) \/ CallEnds(x)
        PROVE  OneOwner'
    BY <2>3, CreatedKeeps, DyingKeeps, DetachKeeps, CallEndsKeeps
  <2>4. ASSUME NEW r \in pending, FrameEnds(r)
        PROVE  OneOwner'
    BY <2>4, FrameEndsKeeps
  <2>5. CASE UNCHANGED ownerVars
    BY <2>5 DEF ownerVars, OneOwner, OwnerTypeOK
  <2> QED  BY <2>1, <2>2, <2>3, <2>4, <2>5, Zenon DEF OwnersNext
<1> QED
  BY <1>1, InitHasOneOwner, PTL DEF OwnersSpec
=============================================================================
