---------------------------- MODULE Generational ----------------------------
(***************************************************************************)
(* stl::generational_index_allocator and stl::generational_vector          *)
(* (stl/generational.h), used together: clients allocate handles, keep     *)
(* them after deallocating, and pass live and stale ones to every call.    *)
(* A handle carries, for the properties alone, how many times its slot had *)
(* been handed out when it was issued: the code sees its index and its     *)
(* generation, which wraps.                                                *)
(***************************************************************************)
EXTENDS Integers, Sequences, FiniteSets

CONSTANTS Values, Null,
          GenMod,     \* generations there are: 2^32 in the code
          MaxAllocs   \* bound: calls of allocate in one behaviour

ASSUME GenerationalAssumption ==
  /\ GenMod \in Nat \ {0, 1} /\ MaxAllocs \in Nat
  /\ Null \notin Values \cup [generation : 0 .. GenMod - 1, value : Values]

VARIABLES entries,   \* the allocator's m_entries
          free,      \* m_free_indices, last one on top
          slots,     \* the vector's m_entries
          issued,    \* history: handles handed out
          turns,     \* history: how often each slot was handed out
          held       \* history: the value last set through a live handle, unless
                     \* something removed it since

vars == <<entries, free, slots, issued, turns, held>>

Index == 0 .. Len(entries) - 1

Init ==
  /\ entries = <<>> /\ free = <<>> /\ slots = <<>>
  /\ issued = {} /\ turns = <<>> /\ held = [h \in {} |-> Null]

\* The C++ vectors count from 0.
At(s, i) == s[i + 1]

\* is_alive (49-52).
is_alive(h) ==
  /\ h.index < Len(entries)
  /\ At(entries, h.index).generation = h.generation
  /\ At(entries, h.index).is_alive

\* allocate (30-40): the last freed index, or a new one.
allocate ==
  \/ /\ free # <<>>
     /\ LET i == free[Len(free)]
            g == (At(entries, i).generation + 1) % GenMod
        IN  /\ free' = SubSeq(free, 1, Len(free) - 1)
            /\ entries' = [entries EXCEPT ![i + 1] = [is_alive |-> TRUE, generation |-> g]]
            /\ turns' = [turns EXCEPT ![i + 1] = @ + 1]
            /\ issued' = issued \cup {[index |-> i, generation |-> g, turn |-> At(turns', i)]}
  \/ /\ free = <<>>
     /\ entries' = Append(entries, [is_alive |-> TRUE, generation |-> 0])
     /\ turns' = Append(turns, 0)
     /\ issued' = issued \cup {[index |-> Len(entries), generation |-> 0, turn |-> 0]}
     /\ UNCHANGED free

Allocate ==
  /\ Cardinality(issued) < MaxAllocs
  /\ allocate
  /\ held' = [h \in issued' |-> IF h \in issued THEN held[h] ELSE Null]
  /\ UNCHANGED slots

\* deallocate (42-47).
DeallocateStaysAlive(h) ==
  /\ is_alive(h) /\ Len(free) < Len(entries)
  /\ free' = Append(free, h.index)
  /\ UNCHANGED <<entries, slots, issued, turns, held>>
Deallocate(h) ==
  /\ is_alive(h)
  /\ entries' = [entries EXCEPT ![h.index + 1].is_alive = FALSE]
  /\ free' = Append(free, h.index)
  /\ held' = [k \in issued |-> IF k.index = h.index THEN Null ELSE held[k]]
  /\ UNCHANGED <<slots, issued, turns>>

\* set (84-99): the vector grows to the index, and an entry of a larger
\* generation is kept.
Grown(i) == IF Len(slots) > i THEN slots
            ELSE slots \o [k \in 1 .. i + 1 - Len(slots) |-> Null]
AcceptsNewer(h) ==
  LET e == At(Grown(h.index), h.index) IN e = Null \/ e.generation < h.generation
Accepts(h) ==
  LET e == At(Grown(h.index), h.index) IN e = Null \/ e.generation <= h.generation
Set(h, v) ==
  /\ slots' = IF Accepts(h)
              THEN [Grown(h.index) EXCEPT ![h.index + 1] = [generation |-> h.generation, value |-> v]]
              ELSE Grown(h.index)
  /\ held' = [k \in issued |-> IF ~is_alive(h) \/ k.index # h.index THEN held[k]
                               ELSE IF k = h THEN v ELSE Null]
  /\ UNCHANGED <<entries, free, issued, turns>>

\* remove (101-104): whatever generation the entry has.
Remove(h) ==
  /\ h.index < Len(slots)
  /\ slots' = [slots EXCEPT ![h.index + 1] = Null]
  /\ held' = [k \in issued |-> IF k.index = h.index THEN Null ELSE held[k]]
  /\ UNCHANGED <<entries, free, issued, turns>>

\* get (106-124).
get(h) ==
  IF h.index >= Len(slots) \/ At(slots, h.index) = Null THEN Null
  ELSE IF At(slots, h.index).generation = h.generation THEN At(slots, h.index).value
  ELSE Null

\* get_all_valid_indices (126-139), in the order of the indices.
Valid(i) ==
  /\ At(slots, i) # Null
  /\ is_alive([index |-> i, generation |-> At(slots, i).generation])
ValidHandle(i) == [index |-> i, generation |-> At(slots, i).generation]
get_all_valid_indices == {ValidHandle(i) : i \in {j \in 0 .. Len(slots) - 1 : Valid(j)}}

\* get_first_valid_entry (143-155): the handle of the first one and its value.
get_first_valid_entry ==
  LET valid == {j \in 0 .. Len(slots) - 1 : Valid(j)} IN
  IF valid = {} THEN Null
  ELSE LET i == CHOOSE j \in valid : \A k \in valid : j <= k
       IN  [handle |-> ValidHandle(i), value |-> At(slots, i).value]

Next ==
  \/ Allocate
  \/ \E h \in issued : Deallocate(h) \/ Remove(h) \/ \E v \in Values : Set(h, v)

Spec == Init /\ [][Next]_vars
-----------------------------------------------------------------------------
\* The shape of the state: every handle was issued for an entry there is.
Generations == 0 .. GenMod - 1
TypeOK ==
  /\ entries \in Seq([is_alive : BOOLEAN, generation : Generations])
  /\ free \in Seq(Index)
  /\ turns \in Seq(Nat) /\ Len(turns) = Len(entries)
  /\ issued \subseteq [index : Index, generation : Generations, turn : Nat]
  /\ slots \in Seq({Null} \cup [generation : Generations, value : Values])
  /\ held \in [issued -> Values \cup {Null}]

\* The newest handle of its slot that was not deallocated is the one that lives.
Current(h) == h.turn = At(turns, h.index)
Wrapped(i) == At(turns, i) >= GenMod

\* The free list holds each dead index once and no live one, however often a
\* client deallocates the same handle (30-47): no index is handed out twice.
FreeListIsExact ==
  /\ TypeOK
  /\ \A i, j \in DOMAIN free : free[i] = free[j] => i = j
  /\ {free[i] : i \in DOMAIN free} = {i \in Index : ~At(entries, i).is_alive}

\* "Free indices are reused with an incremented generation to detect stale
\* references" (20): a handle whose index was handed out again is alive only if
\* a multiple of the number of generations has gone by (34, 49-52).
StaleIsDetected ==
  \A h \in issued : is_alive(h) /\ ~Current(h) =>
    (At(turns, h.index) - h.turn) % GenMod = 0

\* Until a generation wraps, the live handle of a slot reads what was last set
\* through it: no older entry refuses the set and no stale handle's set comes
\* in between, unless some handle removed it (84-124).  The handles that
\* get_all_valid_indices lists are the live ones that read something, and
\* get_first_valid_entry finds one of them, if there is one, with the value get
\* returns for it (126-155).
LiveReadsItsOwn ==
  /\ StaleIsDetected
  /\ \A h \in issued : is_alive(h) /\ Current(h) /\ ~Wrapped(h.index) => get(h) = held[h]
  /\ get_all_valid_indices =
       {[index |-> h.index, generation |-> h.generation] :
          h \in {k \in issued : is_alive(k) /\ get(k) # Null}}
  /\ IF get_all_valid_indices = {} THEN get_first_valid_entry = Null
     ELSE /\ get_first_valid_entry.handle \in get_all_valid_indices
          /\ get_first_valid_entry.value = get(get_first_valid_entry.handle)
=============================================================================
