-------------------------- MODULE PrimitivesProofs --------------------------
(***************************************************************************)
(* What waits for the world, and the queue and the value types, for every  *)
(* value of the constants: sleep_for on Windows, the threads of Timer and  *)
(* the epoll reactor; fixed_string, spsc_queue and result.                 *)
(***************************************************************************)
EXTENDS SpscQueue, FixedString, Result, EpollReactor, Timer, SleepWindows,
        SequenceTheorems, FiniteSetTheorems, WellFoundedInduction, TLAPS

\* Most leaves are first-order; those that need arithmetic or records say SMT.
USE Zenon

(* WakesItsOwn for every number of sleepers, sockets and sleeps. *)

\* No coroutine, no socket and no timer yet.
LEMMA InitWakesItsOwn == SleepInit => WakesItsOwn
<1> SUFFICES ASSUME SleepInit
             PROVE  WakesItsOwn
    OBVIOUS
<1>1. sleeps \in 0 .. MaxSleeps /\ inbox \in [Sockets -> Nat]
  BY SleepAssumption, SMT DEF SleepAssumption, SleepInit
<1>2. SleepTypeOK
  BY <1>1, SleepAssumption DEF SleepAssumption, SleepInit, SleepTypeOK
<1> QED
  BY <1>2 DEF SleepInit, WakesItsOwn

\* WakesItsOwn is inductive.
LEMMA StepWakesItsOwn == WakesItsOwn /\ [SleepNext]_sleepVars => WakesItsOwn'
<1> SUFFICES ASSUME WakesItsOwn, [SleepNext]_sleepVars
             PROVE  WakesItsOwn'
    OBVIOUS
<1> USE SleepAssumption DEF SleepAssumption, WakesItsOwn, SleepTypeOK, Sent
<1>1. ASSUME NEW s \in Sleepers, NEW k \in Sockets, NEW stop \in BOOLEAN, Begin(s, k, stop)
      PROVE  WakesItsOwn'
  BY <1>1, SMT DEF Begin, Open
<1>2. ASSUME NEW s \in Sleepers, BeginFails(s)
      PROVE  WakesItsOwn'
  BY <1>2, SMT DEF BeginFails, poolVars
<1>3. ASSUME NEW s \in Sleepers, RequestStop(s)
      PROVE  WakesItsOwn'
  BY <1>3, SMT DEF RequestStop, on_cancel, poolVars
<1>4. ASSUME NEW s \in Sleepers, NEW fails \in BOOLEAN, Await(s, fails)
      PROVE  WakesItsOwn'
  BY <1>4, SMT DEF Await, poolVars
<1>5. ASSUME NEW s \in Sleepers, Trigger(s)
      PROVE  WakesItsOwn'
  BY <1>5, SMT DEF Trigger, poolVars, callVars
<1>6. ASSUME NEW s \in Sleepers, Resume(s)
      PROVE  WakesItsOwn'
  BY <1>6, SMT DEF Resume, poolVars
<1>7. ASSUME NEW s \in Sleepers, Recv(s)
      PROVE  WakesItsOwn'
  BY <1>7, SMT DEF Recv, callVars
<1>8. ASSUME NEW s \in Sleepers, Drop(s)
      PROVE  WakesItsOwn'
  BY <1>8, SMT DEF Drop, poolVars, callVars
<1>9. ASSUME NEW s \in Sleepers, Disarm(s)
      PROVE  WakesItsOwn'
  BY <1>9, SMT DEF Disarm, callVars
<1>10. ASSUME NEW s \in Sleepers, Close(s)
       PROVE  WakesItsOwn'
  BY <1>10, SMT DEF Close, NoCallback
<1>11. ASSUME NEW s \in Sleepers, Expire(s)
       PROVE  WakesItsOwn'
  BY <1>11, SMT DEF Expire, callVars
<1>12. ASSUME NEW s \in Sleepers, OnTimer(s)
       PROVE  WakesItsOwn'
  BY <1>12, SMT DEF OnTimer, callVars
<1>13. ASSUME NEW s \in Sleepers, NEW fails \in BOOLEAN, Send(s, fails)
       PROVE  WakesItsOwn'
  BY <1>13, SMT DEF Send, Open, callVars
<1>14. CASE LoopEnds
  BY <1>14, ZenonT(60) DEF LoopEnds, poolVars, callVars
<1>15. CASE UNCHANGED sleepVars
  BY <1>15, ZenonT(60) DEF sleepVars, poolVars, callVars
<1> HIDE DEF WakesItsOwn
<1>16. CASE \E s \in Sleepers : ThreadStep(s) \/ PoolStep(s)
  BY <1>4, <1>5, <1>6, <1>7, <1>8, <1>9, <1>10, <1>11, <1>12, <1>13, <1>16
     DEF ThreadStep, PoolStep
<1> QED
  BY <1>1, <1>2, <1>3, <1>14, <1>15, <1>16 DEF SleepNext

\* Callbacks, sockets and sleepers stay matched for every number of coroutines
\* and however socket numbers are used again (35-60, 88-112).
THEOREM SleepersAreWokenByTheirTimers == SleepSpec => []WakesItsOwn
  BY InitWakesItsOwn, StepWakesItsOwn, PTL DEF SleepSpec
-----------------------------------------------------------------------------
(* NoStrayThread for every set of delays and every number of starts. *)

\* The constructor starts no thread (22-23).
LEMMA InitHolds == TimerInit => NoStrayThread
<1> SUFFICES ASSUME TimerInit
             PROVE  NoStrayThread
    OBVIOUS
<1>1. /\ fires \in 0 .. MaxFires /\ starts \in 0 .. MaxStarts /\ ~(starts > 0)
      /\ fires <= IF t_pc \in {"callback", "done"} THEN 1 ELSE 0
  BY TimerAssumption, SMT DEF TimerAssumption, TimerInit
<1> QED  BY <1>1 DEF TimerInit, NoStrayThread, TimerTypeOK

\* The thread that start makes is known and has the delay it is given (33-35).
LEMMA LaunchHolds ==
  ASSUME TimerTypeOK, NEW d \in Delays, Launch(d), starts < MaxStarts, m_delay_ns' = d,
         UNCHANGED m_mode, o_delay' \in Delays, o_pc' = "idle"
  PROVE  NoStrayThread'
<1>1. /\ fires' \in 0 .. MaxFires /\ starts' \in 0 .. MaxStarts
      /\ fires' <= IF t_pc' \in {"callback", "done"} THEN 1 ELSE 0
  BY TimerAssumption, SMT DEF TimerAssumption, Launch, TimerTypeOK
<1> QED  BY <1>1 DEF Launch, NoStrayThread, TimerTypeOK

\* NoStrayThread is inductive: join is what carries it through stop and reset
\* (39-51).
LEMMA StepHolds == NoStrayThread /\ [TimerNext]_timerVars => NoStrayThread'
<1> SUFFICES ASSUME NoStrayThread, [TimerNext]_timerVars
             PROVE  NoStrayThread'
    OBVIOUS
<1> USE TimerAssumption DEF TimerAssumption, NoStrayThread, TimerTypeOK, ownerVars, threadVars
<1>1. CASE Start
  BY <1>1, LaunchHolds DEF Start
<1>2. ASSUME NEW why \in {"stop", "destroy"}, StopCall(why, m_delay_ns)
      PROVE  NoStrayThread'
  BY <1>2 DEF StopCall
<1>3. ASSUME NEW d \in Delays, StopCall("reset", d)
      PROVE  NoStrayThread'
  BY <1>3 DEF StopCall
<1>4. CASE Joined
  <2>1. CASE o_pc = "reset"
    BY <1>4, <2>1, LaunchHolds DEF Joined
  <2>2. CASE o_pc # "reset"
    BY <1>4, <2>2 DEF Joined, ThreadEnded
  <2> QED  BY <2>1, <2>2
<1>5. CASE WaitStopped
  BY <1>5, SMT DEF WaitStopped
<1>6. CASE Expires
  BY <1>6, SMT DEF Expires
<1>7. CASE CallbackEnds
  BY <1>7 DEF CallbackEnds, AfterCallback
<1>8. CASE UNCHANGED timerVars
  BY <1>8 DEF timerVars
<1> QED  BY <1>1, <1>2, <1>3, <1>4, <1>5, <1>6, <1>7, <1>8 DEF TimerNext

\* No timer thread outlives stop or the destructor, or keeps an old delay, for
\* every set of delays and every number of starts and resets, and that of a one-shot
\* timer calls back once (13-17, 39-51).
THEOREM ThreadsAreJoined == TimerSpec => []NoStrayThread
  BY InitHolds, StepHolds, PTL DEF TimerSpec
-----------------------------------------------------------------------------
(* StringIsWhole for every number of strings, every capacity and alphabet. *)

Cell == Chars \cup {NUL, Junk}
Char == Chars \cup {NUL}

\* A buffer of capacity c that holds a whole text of n characters.
WholeBuf(b, c, n) ==
  /\ n \in Nat /\ n <= c /\ b \in [0 .. c -> Cell]
  /\ b[n] = NUL /\ \A i \in 0 .. n - 1 : b[i] # Junk

\* A string that is given a whole buffer is whole, and the others stay so.
LEMMA SetKeepsWhole ==
  ASSUME StringIsWhole, NEW x \in Strs, NEW b, NEW n, WholeBuf(b, Cap[x], n), Set(x, b, n)
  PROVE  StringIsWhole'
  BY SMTT(30) DEF StringIsWhole, WholeBuf, Set, Cell

\* The terminator after characters that were all written.
LEMMA TerminatedIsWhole ==
  ASSUME NEW c \in Nat, NEW b \in [0 .. c -> Cell], NEW n \in 0 .. c,
         \A i \in 0 .. n - 1 : b[i] # Junk
  PROVE  WholeBuf(Terminated(b, n), c, n)
  BY SMT DEF WholeBuf, Terminated, Cell

\* A text put where a whole text, or nothing, ends, and terminated.
LEMMA PutIsWhole ==
  ASSUME NEW c \in Nat, NEW b \in [0 .. c -> Cell], NEW p \in Nat,
         \A i \in 0 .. p - 1 : b[i] # Junk,
         NEW s \in Seq(Char), p + Len(s) <= c
  PROVE  WholeBuf(Terminated(Put(b, p, s), p + Len(s)), c, p + Len(s))
<1> DEFINE n == p + Len(s)
           q == Put(b, p, s)
<1>1. Len(s) \in Nat /\ n \in 0 .. c /\ \A i \in 1 .. Len(s) : s[i] \in Char
  BY SMT
<1>2. q \in [0 .. c -> Cell]
  BY <1>1, SMT DEF Put, Cell, Char
<1>3. \A i \in 0 .. n - 1 : q[i] # Junk
  BY <1>1, FixedStringAssumption, SMT DEF FixedStringAssumption, Put, Char
<1> HIDE DEF q, n
<1>4. WholeBuf(Terminated(q, n), c, n)
  BY <1>1, <1>2, <1>3, TerminatedIsWhole
<1> QED
  BY <1>4 DEF q, n

\* A view within a whole string is a text.
LEMMA CellsAreText ==
  ASSUME StringIsWhole, NEW x \in Strs, NEW p \in Nat, NEW n \in Nat, p + n <= size[x]
  PROVE  Cells(x, p, n) \in Seq(Char) /\ Len(Cells(x, p, n)) = n
<1>1. \A i \in 1 .. n : buf[x][p + i - 1] \in Char
  BY SMTT(30), FixedStringAssumption DEF FixedStringAssumption, StringIsWhole, Char
<1> QED
  BY <1>1, SMT DEF Cells

\* c_str() of a whole string ends where its text does, or before (130).
LEMMA StrlenIsInside ==
  ASSUME StringIsWhole, NEW x \in Strs
  PROVE  strlen(x) \in Nat /\ strlen(x) <= size[x]
<1> DEFINE T == {n \in Nat : n <= Cap[x] /\ buf[x][n] = NUL}
<1>1. size[x] \in T /\ T \subseteq Nat /\ Cap[x] \in Nat
  BY FixedStringAssumption DEF FixedStringAssumption, StringIsWhole
<1>2. \E n \in T : \A m \in T : ~(<<m, n>> \in OpToRel(<, Nat))
  BY <1>1, WFMin, NatLessThanWellFounded
<1>3. PICK n \in T : \A m \in T : ~(m < n)
  BY <1>1, <1>2 DEF OpToRel
<1>4. n \in 0 .. Cap[x] /\ buf[x][n] = NUL /\ \A i \in 0 .. n - 1 : buf[x][i] # NUL
  BY <1>1, <1>3, SMT
<1>5. strlen(x) \in 0 .. Cap[x] /\ \A i \in 0 .. strlen(x) - 1 : buf[x][i] # NUL
  BY <1>4 DEF strlen
<1> QED
  BY <1>1, <1>5, SMT DEF StringIsWhole

\* Whatever an operation is given is a text: no argument holds Junk.
LEMMA ArgumentsAreText ==
  ASSUME StringIsWhole, NEW x \in Strs
  PROVE  /\ \A s \in Slices(x) : s \in Seq(Char)
         /\ \A s \in Arguments(x) : s \in Seq(Char)
         /\ view(x) \in Seq(Char) /\ Len(view(x)) = size[x]
         /\ size[x] \in Nat /\ Cap[x] \in Nat
<1>1. \A y \in Strs : size[y] \in Nat /\ Cap[y] \in Nat
  BY FixedStringAssumption DEF FixedStringAssumption, StringIsWhole
<1>2. ASSUME NEW y \in Strs, NEW s \in Slices(y)
      PROVE  s \in Seq(Char)
  <2>1. PICK p \in 0 .. size[y] : \E n \in 0 .. size[y] - p : s = Cells(y, p, n)
    BY <1>2 DEF Slices
  <2> QED  BY <1>1, <2>1, CellsAreText, SMT
<1>3. ASSUME NEW s \in Arguments(x)
      PROVE  s \in Seq(Char)
  <2>1. CASE s \in Literals
    BY <2>1, FixedStringAssumption DEF FixedStringAssumption, Text, Char
  <2>2. ASSUME NEW y \in Strs, s \in Slices(y) \cup {Cells(y, 0, strlen(y))}
        PROVE  s \in Seq(Char)
    <3>1. CASE s = Cells(y, 0, strlen(y))
      <4>1. strlen(y) \in Nat /\ strlen(y) <= size[y]
        BY StrlenIsInside, SMT
      <4>2. 0 \in Nat /\ 0 + strlen(y) <= size[y]
        BY <4>1, SMT
      <4> QED  BY <3>1, <4>1, <4>2, CellsAreText
    <3> QED  BY <1>2, <2>2, <3>1
  <2> QED  BY <1>3, <2>1, <2>2 DEF Arguments
<1> QED
  BY <1>1, <1>2, <1>3, CellsAreText, SMT DEF view

\* Characters repeated are a text.
LEMMA RepeatIsText ==
  ASSUME NEW n \in Nat, NEW ch \in Char
  PROVE  Repeat(n, ch) \in Seq(Char) /\ Len(Repeat(n, ch)) = n
  BY SMT DEF Repeat

\* A text put into a new buffer.
LEMMA FreshIsWhole ==
  ASSUME NEW x \in Strs, NEW s \in Seq(Char), Len(s) <= Cap[x]
  PROVE  WholeBuf(Terminated(Put(allocate_buf(x), 0, s), Len(s)), Cap[x], Len(s))
<1>1. Cap[x] \in Nat /\ allocate_buf(x) \in [0 .. Cap[x] -> Cell] /\ 0 + Len(s) = Len(s)
  BY FixedStringAssumption, SMT DEF FixedStringAssumption, allocate_buf, Cell
<1> QED
  BY <1>1, PutIsWhole, SMT

\* The constructors from texts (35-64).
LEMMA ConstructKeepsWhole ==
  ASSUME StringIsWhole, NEW x \in Strs, NEW s \in Seq(Char), Construct(x, s)
  PROVE  StringIsWhole'
  BY FreshIsWhole, SetKeepsWhole DEF Construct

\* Assignment of a text over whatever the buffer held (86-101).
LEMMA AssignTextKeepsWhole ==
  ASSUME StringIsWhole, NEW x \in Strs, NEW s \in Seq(Char), AssignText(x, s)
  PROVE  StringIsWhole'
<1>1. Cap[x] \in Nat /\ buf[x] \in [0 .. Cap[x] -> Cell] /\ 0 + Len(s) = Len(s)
  BY FixedStringAssumption, SMT DEF FixedStringAssumption, StringIsWhole, Cell
<1>2. WholeBuf(Terminated(Put(buf[x], 0, s), Len(s)), Cap[x], Len(s))
  BY <1>1, PutIsWhole, SMTT(30) DEF AssignText
<1> QED
  BY <1>2, SetKeepsWhole DEF AssignText

\* append (163-178).
LEMMA AppendKeepsWhole ==
  ASSUME StringIsWhole, NEW x \in Strs, NEW s \in Seq(Char), append(x, s)
  PROVE  StringIsWhole'
<1>1. /\ Cap[x] \in Nat /\ buf[x] \in [0 .. Cap[x] -> Cell] /\ size[x] \in Nat
      /\ \A i \in 0 .. size[x] - 1 : buf[x][i] # Junk
  BY FixedStringAssumption DEF FixedStringAssumption, StringIsWhole, Cell
<1>2. WholeBuf(Terminated(Put(buf[x], size[x], s), size[x] + Len(s)), Cap[x], size[x] + Len(s))
  BY <1>1, PutIsWhole DEF append
<1> QED
  BY <1>2, SetKeepsWhole DEF append

\* A copy brings its terminator along (66-84).
LEMMA CopyIsWhole ==
  ASSUME StringIsWhole, NEW y \in Strs, NEW c \in Nat, NEW b \in [0 .. c -> Cell], size[y] <= c
  PROVE  WholeBuf(Put(b, 0, Copied(y)), c, size[y])
<1> DEFINE n == size[y]
           q == Put(b, 0, Copied(y))
<1>1. /\ n \in Nat /\ n <= Cap[y] /\ Cap[y] \in Nat /\ buf[y] \in [0 .. Cap[y] -> Cell]
      /\ buf[y][n] = NUL /\ \A i \in 0 .. n - 1 : buf[y][i] # Junk
  BY FixedStringAssumption DEF FixedStringAssumption, StringIsWhole, Cell
<1>2. Len(Copied(y)) = n + 1 /\ \A i \in 1 .. n + 1 : Copied(y)[i] = buf[y][i - 1]
  BY <1>1, SMT DEF Copied, Cells
<1> HIDE DEF n
<1>3. DOMAIN q = 0 .. c /\ q = [i \in 0 .. c |-> q[i]]
  BY DEF Put
<1>4. \A i \in 0 .. n : q[i] = buf[y][i]
  BY <1>1, <1>2, SMT DEF Put, n
<1>5. \A i \in n + 1 .. c : q[i] = b[i]
  BY <1>1, <1>2, SMT DEF Put, n
<1> HIDE DEF q
<1>6. ASSUME NEW i \in 0 .. c
      PROVE  q[i] \in Cell
  <2>1. CASE i <= n
    BY <1>1, <1>4, <2>1, SMT DEF n
  <2>2. CASE i > n
    BY <1>1, <1>5, <2>2, SMT DEF n
  <2> QED  BY <1>1, <2>1, <2>2, SMT
<1>7. q \in [0 .. c -> Cell]
  BY <1>3, <1>6
<1>8. q[n] = NUL /\ \A i \in 0 .. n - 1 : q[i] # Junk
  BY <1>1, <1>4, SMT
<1> QED
  BY <1>1, <1>7, <1>8 DEF WholeBuf, q, n

\* resize: growing writes every character up to the new end (186-192).
LEMMA ResizeKeepsWhole ==
  ASSUME StringIsWhole, NEW x \in Strs, NEW n \in Nat, NEW ch \in Char, resize(x, n, ch)
  PROVE  StringIsWhole'
<1>1. /\ Cap[x] \in Nat /\ buf[x] \in [0 .. Cap[x] -> Cell] /\ size[x] \in Nat
      /\ n <= Cap[x] /\ \A i \in 0 .. size[x] - 1 : buf[x][i] # Junk
  BY FixedStringAssumption DEF FixedStringAssumption, StringIsWhole, Cell, resize
<1>2. CASE n > size[x]
  <2>1. n - size[x] \in Nat /\ size[x] + (n - size[x]) = n
    BY <1>1, <1>2, SMT
  <2>2. Repeat(n - size[x], ch) \in Seq(Char) /\ Len(Repeat(n - size[x], ch)) = n - size[x]
    BY <2>1, RepeatIsText
  <2>3. WholeBuf(Terminated(Filled(x, n, ch), n), Cap[x], n)
    BY <1>1, <2>1, <2>2, PutIsWhole DEF Filled
  <2> QED  BY <1>2, <2>3, SetKeepsWhole DEF resize
<1>3. CASE ~(n > size[x])
  <2>1. WholeBuf(Terminated(buf[x], n), Cap[x], n)
    BY <1>1, <1>3, TerminatedIsWhole, SMTT(30)
  <2> QED  BY <1>3, <2>1, SetKeepsWhole DEF resize
<1> QED  BY <1>2, <1>3

\* operator+ constructs from one text and appends the other (231-250).
LEMMA ConcatKeepsWhole ==
  ASSUME StringIsWhole, NEW z \in Strs, NEW s \in Seq(Char), NEW u \in Seq(Char), Concat(z, s, u)
  PROVE  StringIsWhole'
<1> DEFINE first == Terminated(Put(allocate_buf(z), 0, s), Len(s))
<1>1. /\ Cap[z] \in Nat /\ Len(s) \in Nat /\ Len(u) \in Nat
      /\ Len(s) + Len(u) <= Cap[z] /\ Len(s) <= Cap[z]
  BY FixedStringAssumption, SMT DEF FixedStringAssumption, Concat
<1>2. WholeBuf(first, Cap[z], Len(s))
  BY <1>1, FreshIsWhole
<1>3. Set(z, Terminated(Put(first, Len(s), u), Len(s) + Len(u)), Len(s) + Len(u))
  BY DEF Concat
<1> HIDE DEF first
<1>4. WholeBuf(Terminated(Put(first, Len(s), u), Len(s) + Len(u)), Cap[z], Len(s) + Len(u))
  BY <1>1, <1>2, PutIsWhole DEF WholeBuf
<1> QED
  BY <1>3, <1>4, SetKeepsWhole

\* Default-constructed strings are whole (30-33).
LEMMA InitIsWhole == StringInit => StringIsWhole
  BY FixedStringAssumption, SMT
     DEF FixedStringAssumption, StringInit, StringIsWhole, Terminated, allocate_buf

\* StringIsWhole is inductive.
LEMMA StepKeepsWhole == StringIsWhole /\ [StringNext]_stringVars => StringIsWhole'
<1> SUFFICES ASSUME StringIsWhole, [StringNext]_stringVars
             PROVE  StringIsWhole'
    OBVIOUS
<1>1. CASE UNCHANGED stringVars
  BY <1>1 DEF stringVars, StringIsWhole
<1>2. CASE StringNext
  <2>1. PICK x \in Strs :
          \/ \E s \in Arguments(x) : Construct(x, s) \/ AssignText(x, s)
          \/ \E s \in Arguments(x) \cup Slices(x) : append(x, s)
          \/ \E y \in Strs : ConstructFrom(x, y) \/ Assign(x, y)
          \/ \E p \in 0 .. size[x] : \E n \in 0 .. size[x] - p : AssignOwn(x, p, n)
          \/ clear(x) \/ pop_back(x)
          \/ \E ch \in Char, n \in 0 .. Cap[x] :
               \/ push_back(x, ch) \/ resize(x, n, ch) \/ SetChar(x, n, ch)
               \/ Construct(x, Repeat(n, ch)) \/ append(x, Repeat(n, ch))
          \/ \E s, u \in Seq(Char) : Concat(x, s, u)
    <3>1. \A y \in Strs : view(y) \in Seq(Char) /\ \A s \in Arguments(y) : s \in Seq(Char)
      BY ArgumentsAreText
    <3> QED  BY <1>2, <3>1 DEF StringNext, Char
  <2>2. /\ Cap[x] \in Nat /\ size[x] \in Nat /\ size[x] <= Cap[x]
        /\ buf[x] \in [0 .. Cap[x] -> Cell] /\ \A i \in 0 .. size[x] - 1 : buf[x][i] # Junk
        /\ buf[x][size[x]] = NUL
    BY FixedStringAssumption DEF FixedStringAssumption, StringIsWhole, Cell
  <2>3. CASE \E s \in Arguments(x) : Construct(x, s) \/ AssignText(x, s)
    BY <2>3, ArgumentsAreText, ConstructKeepsWhole, AssignTextKeepsWhole
  <2>4. CASE \E s \in Arguments(x) \cup Slices(x) : append(x, s)
    BY <2>4, ArgumentsAreText, AppendKeepsWhole
  <2>5. ASSUME NEW y \in Strs, ConstructFrom(x, y)
        PROVE  StringIsWhole'
    <3>1. allocate_buf(x) \in [0 .. Cap[x] -> Cell]
      BY DEF allocate_buf, Cell
    <3> QED  BY <2>2, <2>5, <3>1, CopyIsWhole, SetKeepsWhole DEF ConstructFrom
  <2>6. ASSUME NEW y \in Strs, Assign(x, y)
        PROVE  StringIsWhole'
    <3>1. size[y] <= Cap[x]
      BY <2>6 DEF Assign, StringIsWhole
    <3> QED  BY <2>2, <2>6, <3>1, CopyIsWhole, SetKeepsWhole DEF Assign
  <2>7. CASE \E p \in 0 .. size[x] : \E n \in 0 .. size[x] - p : AssignOwn(x, p, n)
    BY <2>2, <2>7, CellsAreText, AssignTextKeepsWhole, SMT DEF AssignOwn
  <2>8. CASE clear(x)
    BY <2>2, <2>8, TerminatedIsWhole, SetKeepsWhole, SMT DEF clear
  <2>9. CASE pop_back(x)
    <3>1. size[x] - 1 \in 0 .. Cap[x]
      BY <2>2, <2>9, SMT DEF pop_back
    <3>2. \A i \in 0 .. (size[x] - 1) - 1 : buf[x][i] # Junk
      BY <2>2, SMT
    <3>3. WholeBuf(Terminated(buf[x], size[x] - 1), Cap[x], size[x] - 1)
      BY <2>2, <3>1, <3>2, TerminatedIsWhole
    <3> QED  BY <2>9, <3>3, SetKeepsWhole DEF pop_back
  <2>10. ASSUME NEW ch \in Char, push_back(x, ch)
         PROVE  StringIsWhole'
    <3>1. <<ch>> \in Seq(Char) /\ Len(<<ch>>) = 1
      BY SMT
    <3>2. size[x] + Len(<<ch>>) <= Cap[x]
      BY <2>2, <2>10, <3>1, SMT DEF push_back
    <3>3. append(x, <<ch>>)
      BY <2>10, <3>1, <3>2 DEF push_back, append
    <3> QED  BY <3>1, <3>3, AppendKeepsWhole
  <2>11. ASSUME NEW ch \in Char, NEW n \in 0 .. Cap[x], resize(x, n, ch)
         PROVE  StringIsWhole'
    BY <2>2, <2>11, ResizeKeepsWhole, SMT
  <2>12. ASSUME NEW ch \in Char, NEW n \in 0 .. Cap[x], SetChar(x, n, ch)
         PROVE  StringIsWhole'
    <3>1. WholeBuf([buf[x] EXCEPT ![n] = ch], Cap[x], size[x])
      BY <2>2, <2>12, FixedStringAssumption, SMT DEF FixedStringAssumption, WholeBuf, SetChar, Cell, Char
    <3> QED  BY <2>12, <3>1, SetKeepsWhole DEF SetChar
  <2>13. ASSUME NEW ch \in Char, NEW n \in 0 .. Cap[x],
                Construct(x, Repeat(n, ch)) \/ append(x, Repeat(n, ch))
         PROVE  StringIsWhole'
    BY <2>2, <2>13, RepeatIsText, ConstructKeepsWhole, AppendKeepsWhole, SMT
  <2>14. CASE \E s, u \in Seq(Char) : Concat(x, s, u)
    BY <2>14, ConcatKeepsWhole
  <2> QED
    BY <2>1, <2>3, <2>4, <2>5, <2>6, <2>7, <2>8, <2>9, <2>10, <2>11, <2>12, <2>13, <2>14
<1> QED  BY <1>1, <1>2

\* For every set of capacities and texts, whatever was called before, each string
\* is within its capacity, terminated and without unwritten characters (30-192).
THEOREM StringsStayWhole == StringSpec => []StringIsWhole
  BY InitIsWhole, StepKeepsWhole, PTL DEF StringSpec
-----------------------------------------------------------------------------
(* For every power-of-two Capacity: the ring keeps its order, no slot is raced *)
(* on, and the ring implements the bounded channel.                            *)

\* Wrap (15, 39) is the successor on a ring of Capacity slots.
LEMMA WrapIsSuccessor ==
  ASSUME NEW i \in Slots
  PROVE  /\ Wrap(i) = IF i + 1 = Capacity THEN 0 ELSE i + 1
         /\ Wrap(i) \in Slots
<1>1. Capacity \in Nat /\ Capacity > 0 /\ i \in Nat /\ i < Capacity
  BY CapacityAssumption, SMT DEF Slots
<1>2. CASE i + 1 = Capacity
  <2>1. (i + 1) % Capacity = 0
    BY <1>1, <1>2, SMT
  <2> QED BY <2>1, <1>1, <1>2, SMT DEF Wrap, Slots
<1>3. CASE i + 1 < Capacity
  <2>1. (i + 1) % Capacity = i + 1
    BY <1>1, <1>3, SMT
  <2> QED BY <2>1, <1>1, <1>3, SMT DEF Wrap, Slots
<1> QED BY <1>1, <1>2, <1>3, SMT

\* The initial ring is in order.
LEMMA InitRingInv == QueueInit => RingInv
<1> SUFFICES ASSUME QueueInit PROVE RingInv
  OBVIOUS
<1>1. 0 \in Slots /\ Capacity \in Nat /\ Capacity > 0
  BY CapacityAssumption, SMT DEF Slots
<1>2. QueueTypeOK
  BY <1>1, SMT DEF QueueInit, QueueTypeOK
<1> QED BY <1>1, <1>2, SMT DEF QueueInit, RingInv, Size, Dist, Slots

\* Every step of either thread keeps the ring in order.
LEMMA StepRingInv == RingInv /\ [QueueNext]_queueVars => RingInv'
<1> SUFFICES ASSUME RingInv, [QueueNext]_queueVars PROVE RingInv'
  OBVIOUS
<1>0. Capacity \in Nat /\ Capacity > 0
  BY CapacityAssumption, SMT
<1>w. /\ Wrap(m_head) = (IF m_head + 1 = Capacity THEN 0 ELSE m_head + 1)
      /\ Wrap(m_tail) = (IF m_tail + 1 = Capacity THEN 0 ELSE m_tail + 1)
      /\ Wrap(m_head) \in Slots
      /\ Wrap(m_tail) \in Slots
  BY WrapIsSuccessor DEF RingInv, QueueTypeOK
<1>1. ASSUME NEW v \in Values, PushCall(v) PROVE RingInv'
  <2>1. QueueTypeOK'
    BY <1>1 DEF RingInv, QueueTypeOK, PushCall, consumer
  <2> QED BY <1>1, <2>1 DEF RingInv, PushCall, consumer, Size, Dist
<1>2. ASSUME PushCheck PROVE RingInv'
  <2>1. PICK t \in Between(tail_seen, m_tail) :
          /\ tail_seen' = t
          /\ p_pc' = IF Wrap(m_head) = t THEN "idle" ELSE "write"
    BY <1>2 DEF PushCheck
  <2>2. t \in Slots /\ Dist(tail_seen, t) <= Dist(tail_seen, m_tail)
    BY DEF Between
  <2>3. QueueTypeOK'
    BY <1>2, <2>1, <2>2 DEF RingInv, QueueTypeOK, PushCheck, consumer
  <2>4. Dist(tail_seen', m_tail') + Size' = Dist(tail_seen', m_head')
    BY <1>0, <1>2, <2>1, <2>2, SMT
       DEF RingInv, QueueTypeOK, PushCheck, consumer, Size, Dist, Slots
  <2>5. p_pc' \in {"write", "publish"} => Dist(tail_seen', m_head') < Capacity - 1
    BY <1>0, <1>w, <1>2, <2>1, <2>2, SMTT(30)
       DEF RingInv, QueueTypeOK, PushCheck, consumer, Size, Dist, Slots
  <2> QED BY <1>2, <2>1, <2>3, <2>4, <2>5
          DEF RingInv, PushCheck, consumer, Size, Dist
<1>3. ASSUME PushWrite PROVE RingInv'
  <2>1. QueueTypeOK'
    BY <1>3 DEF RingInv, QueueTypeOK, PushWrite, consumer
  <2>2. \A s \in Slots : Dist(m_tail, s) < Size => s # m_head
    BY <1>0, SMT DEF RingInv, QueueTypeOK, Size, Dist, Slots
  <2>3. m_buffer'[m_head] = p_item /\ \A s \in Slots : s # m_head => m_buffer'[s] = m_buffer[s]
    BY <1>3 DEF RingInv, QueueTypeOK, PushWrite
  <2>4. c_pc = "advance" => m_tail # m_head
    BY <1>0, SMT DEF RingInv, QueueTypeOK, Size, Dist, Slots
  <2>5. c_pc' = "advance" => c_item' = m_buffer'[m_tail']
    BY <1>3, <2>3, <2>4 DEF RingInv, QueueTypeOK, PushWrite, consumer
  <2>6. \A s \in Slots : Dist(m_tail', s) < Size' => m_buffer'[s] \in Values
    BY <1>3, <2>2, <2>3 DEF RingInv, PushWrite, consumer, Size, Dist
  <2> QED BY <1>3, <2>1, <2>3, <2>5, <2>6 DEF RingInv, PushWrite, consumer, Size, Dist
<1>4. ASSUME PushPublish PROVE RingInv'
  <2>1. QueueTypeOK'
    BY <1>4, <1>w DEF RingInv, QueueTypeOK, PushPublish, consumer
  <2>2. Dist(tail_seen', m_tail') + Size' = Dist(tail_seen', m_head')
    BY <1>0, <1>4, <1>w, SMT DEF RingInv, QueueTypeOK, PushPublish, consumer, Size, Dist, Slots
  <2>3. Size' = Size + 1
    BY <1>0, <1>4, <1>w, SMT DEF RingInv, QueueTypeOK, PushPublish, consumer, Size, Dist, Slots
  <2>4. Dist(m_tail', head_seen') <= Size'
    BY <1>0, <1>4, <2>3, SMT DEF RingInv, QueueTypeOK, PushPublish, consumer, Size, Dist, Slots
  <2>5. \A s \in Slots : Dist(m_tail, s) < Size + 1 => Dist(m_tail, s) < Size \/ s = m_head
    BY <1>0, SMT DEF RingInv, QueueTypeOK, Size, Dist, Slots
  <2>6. m_buffer[m_head] \in Values
    BY <1>4 DEF RingInv, PushPublish
  <2>7. \A s \in Slots : Dist(m_tail', s) < Size' => m_buffer'[s] \in Values
    BY <1>4, <2>3, <2>5, <2>6 DEF RingInv, PushPublish, consumer, Dist
  <2> QED BY <1>4, <2>1, <2>2, <2>4, <2>7 DEF RingInv, PushPublish, consumer
<1>5. ASSUME NEW h \in Slots, PopCheck(h) PROVE RingInv'
  <2>1. QueueTypeOK'
    BY <1>5 DEF RingInv, QueueTypeOK, PopCheck, producer
  <2>2. Dist(m_tail', head_seen') <= Size'
    BY <1>0, <1>5, SMT DEF RingInv, QueueTypeOK, PopCheck, producer, Between, Size, Dist, Slots
  <2> QED BY <1>5, <2>1, <2>2 DEF RingInv, PopCheck, producer, Size, Dist
<1>6. ASSUME PopRead PROVE RingInv'
  <2>1. QueueTypeOK'
    BY <1>6 DEF RingInv, QueueTypeOK, PopRead, producer
  <2> QED BY <1>6, <2>1 DEF RingInv, PopRead, producer, Size, Dist
<1>7. ASSUME PopAdvance PROVE RingInv'
  <2>1. QueueTypeOK'
    <3>1. popped' \in Seq(Values \cup {Uninit})
      BY <1>7, AppendProperties DEF RingInv, QueueTypeOK, PopAdvance
    <3> QED BY <1>7, <1>w, <3>1 DEF RingInv, QueueTypeOK, PopAdvance, producer
  <2>2. Dist(tail_seen', m_tail') + Size' = Dist(tail_seen', m_head')
    BY <1>0, <1>7, <1>w, SMTT(30) DEF RingInv, QueueTypeOK, PopAdvance, producer, Size, Dist, Slots
  <2>3. Size' = Size - 1
    BY <1>0, <1>7, <1>w, SMTT(30) DEF RingInv, QueueTypeOK, PopAdvance, producer, Size, Dist, Slots
  <2>4. Dist(m_tail', head_seen') <= Size'
    BY <1>0, <1>7, <1>w, <2>3, SMT DEF RingInv, QueueTypeOK, PopAdvance, producer, Size, Dist, Slots
  <2>5. \A s \in Slots : Dist(m_tail', s) < Size - 1 => Dist(m_tail, s) < Size
    BY <1>0, <1>7, <1>w, SMTT(30) DEF RingInv, QueueTypeOK, PopAdvance, producer, Size, Dist, Slots
  <2>6. \A s \in Slots : Dist(m_tail', s) < Size' => m_buffer'[s] \in Values
    BY <1>7, <2>3, <2>5 DEF RingInv, PopAdvance, producer
  <2> QED BY <1>7, <2>1, <2>2, <2>4, <2>6 DEF RingInv, PopAdvance, producer, Dist
<1>8. ASSUME UNCHANGED queueVars PROVE RingInv'
  BY <1>8 DEF queueVars, producer, consumer, RingInv, QueueTypeOK, Size, Dist
<1> QED BY <1>1, <1>2, <1>3, <1>4, <1>5, <1>6, <1>7, <1>8 DEF QueueNext

\* Every reachable ring is in order and well typed (RingInv has QueueTypeOK as its
\* first conjunct), for every power-of-two Capacity and every stale load.
THEOREM RingOrder == QueueSpec => []RingInv
<1> QED BY InitRingInv, StepRingInv, PTL DEF QueueSpec

\* try_push and try_pop never touch the same slot at the same time.
THEOREM SlotsAreNotRaced == QueueSpec => []NoSlotRace
<1>1. RingInv => NoSlotRace
  BY CapacityAssumption, SMT DEF RingInv, QueueTypeOK, NoSlotRace, Size, Dist, Slots
<1> QED BY <1>1, RingOrder, PTL
-----------------------------------------------------------------------------
(***************************************************************************)
(* Refinement: the ring implements BoundedFifo under the mapping Fifo.     *)
(***************************************************************************)

\* In an ordered ring, Contents is a sequence of pushed values with one item
\* per slot from m_tail to m_head, and no two items share a slot.
LEMMA ContentsProperties ==
  ASSUME RingInv
  PROVE  /\ Size \in 0 .. Capacity - 1
         /\ Contents \in Seq(Values)
         /\ Len(Contents) = Size
         /\ \A i \in 1 .. Size :
              /\ SlotOf(i) \in Slots
              /\ SlotOf(i) # m_head
              /\ Contents[i] = m_buffer[SlotOf(i)]
<1>1. Capacity \in Nat /\ Capacity > 0
  BY CapacityAssumption, SMT
<1>2. Size \in 0 .. Capacity - 1
  BY <1>1, SMT DEF RingInv, QueueTypeOK, Size, Dist, Slots
<1>3. ASSUME NEW i \in 1 .. Size
      PROVE  /\ SlotOf(i) \in Slots
             /\ SlotOf(i) # m_head
             /\ Dist(m_tail, SlotOf(i)) < Size
  BY <1>1, SMT DEF RingInv, QueueTypeOK, Size, Dist, Slots, SlotOf
<1>4. \A i \in 1 .. Size : Contents[i] = m_buffer[SlotOf(i)]
  BY DEF Contents, SlotOf
<1>5. \A i \in 1 .. Size : Contents[i] \in Values
  BY <1>3, <1>4 DEF RingInv
<1>6. Contents = [i \in 1 .. Size |-> Contents[i]]
  BY DEF Contents
<1>7. Size \in Nat /\ Contents \in [1 .. Size -> Values]
  BY <1>1, <1>2, <1>5, <1>6, SMT
<1>8. Contents \in Seq(Values) /\ Len(Contents) = Size
  BY <1>7, IsASeq, LenProperties, SMT
<1> QED BY <1>2, <1>3, <1>4, <1>8

\* An empty ring is an empty channel.
LEMMA InitRefines == QueueInit => Fifo!Init
<1> SUFFICES ASSUME QueueInit PROVE Fifo!Init
  OBVIOUS
<1>1. RingInv
  BY InitRingInv
<1>2. Size = 0 /\ Dist(tail_seen, m_head) = 0 /\ Dist(m_tail, head_seen) = 0
  BY SMT DEF QueueInit, Size, Dist
<1>3. Contents = <<>>
  BY <1>1, <1>2, ContentsProperties, SMT
<1> QED BY <1>2, <1>3 DEF Fifo!Init, QueueInit

\* Contents only depends on the indices and on the slots between them.
LEMMA ContentsUnchanged ==
  ASSUME RingInv, RingInv', m_head' = m_head, m_tail' = m_tail,
         \A s \in Slots : s # m_head => m_buffer'[s] = m_buffer[s]
  PROVE  Contents' = Contents
<1>1. Size' = Size
  BY DEF Size, Dist
<1>2. \A i \in 1 .. Size : SlotOf(i)' = SlotOf(i)
  BY DEF SlotOf
<1>3. \A i \in 1 .. Size : m_buffer'[SlotOf(i)'] = m_buffer[SlotOf(i)]
  BY <1>2, ContentsProperties
<1> QED BY <1>1, <1>3 DEF Contents

\* Publishing m_head appends the pushed item.
LEMMA PublishAppends ==
  ASSUME RingInv, RingInv', PushPublish
  PROVE  /\ Contents' = Append(Contents, p_item)
         /\ Dist(tail_seen', m_head') = Dist(tail_seen, m_head) + 1
<1>0. Capacity \in Nat /\ Capacity > 0
  BY CapacityAssumption, SMT
<1>w. Wrap(m_head) = (IF m_head + 1 = Capacity THEN 0 ELSE m_head + 1)
  BY WrapIsSuccessor DEF RingInv, QueueTypeOK
<1>1. /\ Size' = Size + 1
      /\ Dist(tail_seen', m_head') = Dist(tail_seen, m_head) + 1
  BY <1>0, <1>w, SMTT(30) DEF RingInv, QueueTypeOK, PushPublish, consumer, Size, Dist, Slots
<1>2. Contents \in Seq(Values) /\ Len(Contents) = Size /\ Size \in Nat
  BY ContentsProperties, <1>0, SMT
<1>3. Contents' \in Seq(Values) /\ Len(Contents') = Size'
  <2>1. (Contents \in Seq(Values) /\ Len(Contents) = Size)'
    BY ContentsProperties, PTL
  <2> QED BY <2>1
<1>4. p_item \in Values /\ m_buffer[m_head] = p_item
  BY DEF RingInv, PushPublish
<1>5. /\ Append(Contents, p_item) \in Seq(Values)
      /\ Len(Append(Contents, p_item)) = Size + 1
  BY <1>2, <1>4, AppendProperties
<1>6. ASSUME NEW i \in 1 .. Size + 1
      PROVE  Contents'[i] = Append(Contents, p_item)[i]
  <2>1. Contents'[i] = m_buffer[SlotOf(i)]
    BY <1>1 DEF Contents, SlotOf, PushPublish, consumer
  <2>2. CASE i = Size + 1
    <3>1. SlotOf(i) = m_head
      BY <1>0, <2>2, SMTT(30) DEF RingInv, QueueTypeOK, SlotOf, Size, Dist, Slots
    <3>2. Append(Contents, p_item)[i] = p_item
      BY <1>2, <1>4, <2>2, AppendProperties
    <3> QED BY <1>4, <2>1, <3>1, <3>2
  <2>3. CASE i \in 1 .. Size
    <3>1. Append(Contents, p_item)[i] = Contents[i]
      BY <1>2, <1>4, <2>3, AppendProperties, SMT
    <3> QED BY <2>1, <2>3, <3>1 DEF Contents
  <2> QED BY <1>2, <2>2, <2>3, SMT
<1>7. Contents' = Append(Contents, p_item)
  BY <1>1, <1>3, <1>5, <1>6, SeqEqual
<1> QED BY <1>1, <1>7

\* Advancing m_tail removes the oldest item, which is the one that was read.
LEMMA AdvanceRemoves ==
  ASSUME RingInv, RingInv', PopAdvance
  PROVE  /\ Contents' = Tail(Contents)
         /\ c_item = Head(Contents)
         /\ Dist(m_tail, head_seen) > 0
         /\ Dist(m_tail', head_seen') = Dist(m_tail, head_seen) - 1
<1>0. Capacity \in Nat /\ Capacity > 0
  BY CapacityAssumption, SMT
<1>w. Wrap(m_tail) = (IF m_tail + 1 = Capacity THEN 0 ELSE m_tail + 1)
  BY WrapIsSuccessor DEF RingInv, QueueTypeOK
<1>1. /\ Size > 0
      /\ Size' = Size - 1
      /\ Dist(m_tail, head_seen) > 0
      /\ Dist(m_tail', head_seen') = Dist(m_tail, head_seen) - 1
  BY <1>0, <1>w, SMTT(30) DEF RingInv, QueueTypeOK, PopAdvance, producer, Size, Dist, Slots
<1>2. Contents \in Seq(Values) /\ Len(Contents) = Size /\ Size \in Nat
  BY ContentsProperties, <1>0, SMT
<1>3. Contents' \in Seq(Values) /\ Len(Contents') = Size'
  <2>1. (Contents \in Seq(Values) /\ Len(Contents) = Size)'
    BY ContentsProperties, PTL
  <2> QED BY <2>1
<1>4. Contents # <<>>
  BY <1>1, <1>2, EmptySeq, SMT
<1>5. /\ Tail(Contents) \in Seq(Values)
      /\ Len(Tail(Contents)) = Size - 1
      /\ \A i \in 1 .. Size - 1 : Tail(Contents)[i] = Contents[i + 1]
  BY <1>2, <1>4, HeadTailProperties
<1>6. ASSUME NEW i \in 1 .. Size - 1
      PROVE  Contents'[i] = Tail(Contents)[i]
  <2>1. SlotOf(i)' = SlotOf(i + 1)
    <3>1. /\ m_tail \in Nat /\ m_tail < Capacity /\ i \in Nat /\ i > 0 /\ i < Capacity
          /\ m_tail' = (IF m_tail + 1 = Capacity THEN 0 ELSE m_tail + 1)
      BY <1>0, <1>w, SMTT(30) DEF RingInv, QueueTypeOK, PopAdvance, Size, Dist, Slots
    <3> QED BY <1>0, <3>1, SMT DEF SlotOf
  <2>2. Contents'[i] = m_buffer[SlotOf(i)']
    BY <1>1 DEF Contents, PopAdvance, producer
  <2>3. i + 1 \in 1 .. Size /\ Contents[i + 1] = m_buffer[SlotOf(i + 1)]
    BY <1>2, SMT DEF Contents
  <2> QED BY <1>5, <2>1, <2>2, <2>3
<1>7. Contents' = Tail(Contents)
  BY <1>1, <1>3, <1>5, <1>6, SeqEqual
<1>8. c_item = Head(Contents)
  <2>1. Head(Contents) = Contents[1]
    BY <1>2, <1>4, SMT
  <2>2. 1 \in 1 .. Size /\ SlotOf(1) = m_tail
    BY <1>0, <1>1, <1>2, SMTT(30) DEF SlotOf, RingInv, QueueTypeOK, Slots
  <2>3. Contents[1] = m_buffer[m_tail]
    BY <2>2 DEF Contents
  <2> QED BY <2>1, <2>3 DEF RingInv, PopAdvance
<1> QED BY <1>1, <1>7, <1>8

\* Every step of the ring is a step of the channel or leaves it alone.
LEMMA StepRefines == RingInv /\ RingInv' /\ [QueueNext]_queueVars => [Fifo!Next]_(Fifo!vars)
<1> SUFFICES ASSUME RingInv, RingInv', [QueueNext]_queueVars
             PROVE  [Fifo!Next]_(Fifo!vars)
  OBVIOUS
<1>0. Capacity \in Nat /\ Capacity > 0
  BY CapacityAssumption, SMT
<1>1. ASSUME NEW v \in Values, PushCall(v) PROVE UNCHANGED Fifo!vars
  <2>1. Contents' = Contents
    BY <1>1, ContentsUnchanged DEF PushCall, consumer
  <2> QED BY <1>1, <2>1 DEF Fifo!vars, PushCall, consumer, Dist
<1>2. ASSUME PushCheck PROVE Fifo!ProducerLooks
  <2>1. Contents' = Contents
    BY <1>2, ContentsUnchanged DEF PushCheck, consumer
  <2>2. Len(Contents) = Size
    BY ContentsProperties
  <2>3. Dist(tail_seen', m_head') \in Size .. Dist(tail_seen, m_head)
    BY <1>0, <1>2, SMTT(30)
       DEF RingInv, QueueTypeOK, PushCheck, consumer, Between, Size, Dist, Slots
  <2> QED BY <1>2, <2>1, <2>2, <2>3 DEF Fifo!ProducerLooks, PushCheck, consumer, Dist
<1>3. ASSUME PushWrite PROVE UNCHANGED Fifo!vars
  <2>1. \A s \in Slots : s # m_head => m_buffer'[s] = m_buffer[s]
    BY <1>3 DEF RingInv, QueueTypeOK, PushWrite
  <2>2. Contents' = Contents
    BY <1>3, <2>1, ContentsUnchanged DEF PushWrite, consumer
  <2> QED BY <1>3, <2>2 DEF Fifo!vars, PushWrite, consumer, Dist
<1>4. ASSUME PushPublish PROVE \E v \in Values : Fifo!Push(v)
  <2>1. p_item \in Values /\ Dist(tail_seen, m_head) < Capacity - 1
    BY <1>4 DEF RingInv, PushPublish
  <2>2. Fifo!Push(p_item)
    BY <1>4, <2>1, PublishAppends DEF Fifo!Push, PushPublish, consumer, Dist
  <2> QED BY <2>1, <2>2
<1>5. ASSUME NEW h \in Slots, PopCheck(h) PROVE Fifo!ConsumerLooks
  <2>1. Contents' = Contents
    BY <1>5, ContentsUnchanged DEF PopCheck, producer
  <2>2. Len(Contents) = Size
    BY ContentsProperties
  <2>3. Dist(m_tail', head_seen') \in Dist(m_tail, head_seen) .. Size
    BY <1>0, <1>5, SMTT(30)
       DEF RingInv, QueueTypeOK, PopCheck, producer, Between, Size, Dist, Slots
  <2> QED BY <1>5, <2>1, <2>2, <2>3 DEF Fifo!ConsumerLooks, PopCheck, producer, Dist
<1>6. ASSUME PopRead PROVE UNCHANGED Fifo!vars
  <2>1. Contents' = Contents
    BY <1>6, ContentsUnchanged DEF PopRead, producer
  <2> QED BY <1>6, <2>1 DEF Fifo!vars, PopRead, producer, Dist
<1>7. ASSUME PopAdvance PROVE Fifo!Pop
  BY <1>7, AdvanceRemoves DEF Fifo!Pop, PopAdvance, producer, Dist
<1>8. ASSUME UNCHANGED queueVars PROVE UNCHANGED Fifo!vars
  <2>1. Contents' = Contents
    BY <1>8, ContentsUnchanged DEF queueVars, producer, consumer
  <2> QED BY <1>8, <2>1 DEF Fifo!vars, queueVars, producer, consumer, Dist
<1> QED BY <1>1, <1>2, <1>3, <1>4, <1>5, <1>6, <1>7, <1>8 DEF QueueNext, Fifo!Next

\* The ring implements the bounded channel, for every power-of-two Capacity:
\* whatever was accepted comes out once, whole, and in order.
THEOREM RingImplementsFifo == QueueSpec => ImplementsFifo
<1> QED BY RingOrder, InitRefines, StepRefines, PTL DEF QueueSpec, ImplementsFifo, Fifo!Spec

\* A refusal means Capacity - 1 items as far as the producer can know, and an
\* acceptance leaves one slot unused.
THEOREM RefusalMeansFull == QueueSpec => RefusesOnlyWhenFull
<1> DEFINE A == p_pc = "check" =>
                  /\ p_pc' = "idle" => Dist(tail_seen', m_head) = Capacity - 1
                  /\ p_pc' = "write" => Size < Capacity - 1
<1>1. RingInv /\ [QueueNext]_queueVars => [A]_queueVars
  <2> SUFFICES ASSUME RingInv, QueueNext, p_pc = "check" PROVE A
    OBVIOUS
  <2>0. Capacity \in Nat /\ Capacity > 0
    BY CapacityAssumption, SMT
  <2>w. Wrap(m_head) = (IF m_head + 1 = Capacity THEN 0 ELSE m_head + 1)
    BY WrapIsSuccessor DEF RingInv, QueueTypeOK
  <2>1. CASE PushCheck
    <3>1. PICK t \in Between(tail_seen, m_tail) :
            /\ tail_seen' = t
            /\ p_pc' = IF Wrap(m_head) = t THEN "idle" ELSE "write"
      BY <2>1 DEF PushCheck
    <3> QED BY <2>0, <2>w, <3>1, SMTT(30) DEF RingInv, QueueTypeOK, Between, Size, Dist, Slots
  <2>2. CASE p_pc' = p_pc
    BY <2>2
  <2> QED BY <2>1, <2>2 DEF QueueNext, PushCall, PushWrite, PushPublish, PopCheck, PopRead,
                            PopAdvance, producer
<1> QED BY <1>1, RingOrder, PTL DEF QueueSpec, RefusesOnlyWhenFull
-----------------------------------------------------------------------------
(* FlagNamesTheMember for every number of results and every type of data. *)

\* There are no objects at first.
LEMMA InitNamesTheMember == ResultInit => FlagNamesTheMember
  BY SMT DEF ResultInit, FlagNamesTheMember, Usable, Members

\* What a copy or a move leaves behind.
LEMMA TakenType ==
  ASSUME NEW x \in Results, NEW y \in Results, NEW move \in BOOLEAN, FlagNamesTheMember
  PROVE  Taken(x, y, move) \in [Results -> Data \cup {Moved}]
  BY DEF Taken, FlagNamesTheMember

\* Destroying by the old flag and constructing by the new one leaves one member,
\* or none if the constructor throws (95-103, 187-192).
LEMMA SwitchNamesTheMember ==
  ASSUME FlagNamesTheMember, NEW x \in Usable, NEW has \in Members, NEW throws \in BOOLEAN,
         Switch(x, has, throws), holds' \in [Results -> Data \cup {Moved}]
  PROVE  FlagNamesTheMember'
<1> DEFINE One(m) == [n \in Members |-> IF n = m THEN 1 ELSE 0]
           Neither == [n \in Members |-> 0]
<1>1. /\ exists \subseteq Results /\ threw \subseteq exists /\ x \in exists /\ x \notin threw
      /\ lives \in [Results -> [Members -> Int]] /\ m_has_value \in [Results -> Members]
      /\ \A z \in Results, m \in Members :
           lives[z][m] = IF z \in exists \ threw /\ m = m_has_value[z] THEN 1 ELSE 0
  BY DEF FlagNamesTheMember, Usable
<1>2. /\ exists' = exists /\ m_has_value' = [m_has_value EXCEPT ![x] = has]
      /\ throws => threw' = threw \cup {x} /\ lives' = [lives EXCEPT ![x] = Ended(x, has)]
      /\ ~throws => /\ threw' = threw
                    /\ lives' = [lives EXCEPT ![x] = [Ended(x, has) EXCEPT ![has] = @ + 1]]
  BY DEF Switch
<1>3. lives[x] = One(m_has_value[x])
  BY <1>1
<1>4. Ended(x, has) = Neither
  BY <1>1, <1>3, SMT DEF Ended
<1>5. [Ended(x, has) EXCEPT ![has] = @ + 1] = One(has)
  BY <1>4, SMT
<1> HIDE DEF One, Neither
<1>6. One(has) \in [Members -> Int] /\ Neither \in [Members -> Int]
  BY SMT DEF One, Neither
<1>7. CASE throws
  <2>1. lives' \in [Results -> [Members -> Int]] /\ threw' \subseteq exists'
    BY <1>1, <1>2, <1>4, <1>6, <1>7, SMT
  <2>2. ASSUME NEW z \in Results, NEW m \in Members
        PROVE  lives'[z][m] = IF z \in Usable' /\ m = m_has_value'[z] THEN 1 ELSE 0
    BY <1>1, <1>2, <1>4, <1>7, SMT DEF Neither, Usable
  <2> QED  BY <1>1, <1>2, <2>1, <2>2 DEF FlagNamesTheMember
<1>8. CASE ~throws
  <2>1. lives' = [lives EXCEPT ![x] = One(has)] /\ threw' = threw
    BY <1>2, <1>5, <1>8
  <2>2. lives' \in [Results -> [Members -> Int]] /\ threw' \subseteq exists'
    BY <1>1, <1>2, <1>6, <2>1
  <2>3. ASSUME NEW z \in Results, NEW m \in Members
        PROVE  lives'[z][m] = IF z \in Usable' /\ m = m_has_value'[z] THEN 1 ELSE 0
    BY <1>1, <1>2, <2>1 DEF One, Usable
  <2> QED  BY <1>1, <1>2, <2>2, <2>3 DEF FlagNamesTheMember
<1> QED  BY <1>7, <1>8

\* FlagNamesTheMember is inductive.
LEMMA StepNamesTheMember == FlagNamesTheMember /\ [ResultNext]_resultVars => FlagNamesTheMember'
<1> SUFFICES ASSUME FlagNamesTheMember, [ResultNext]_resultVars
             PROVE  FlagNamesTheMember'
    OBVIOUS
<1>1. ASSUME NEW x \in Results, NEW has \in Members, NEW d \in Data, NEW throws \in BOOLEAN,
             MakeResult(x, has, d, throws)
      PROVE  FlagNamesTheMember'
  BY <1>1, SMT DEF MakeResult, FlagNamesTheMember, Usable, Members
<1>2. ASSUME NEW x \in Results, NEW has \in Members, NEW d \in Data, NEW throws \in BOOLEAN,
             Emplace(x, has, d, throws)
      PROVE  FlagNamesTheMember'
  <2>1. holds' \in [Results -> Data \cup {Moved}]
    BY <1>2 DEF Emplace, FlagNamesTheMember
  <2> QED  BY <1>2, <2>1, SwitchNamesTheMember DEF Emplace
<1>3. ASSUME NEW x \in Results, NEW y \in Results, NEW move \in BOOLEAN, NEW throws \in BOOLEAN,
             MakeFrom(x, y, move, throws)
      PROVE  FlagNamesTheMember'
  <2>1. holds' \in [Results -> Data \cup {Moved}]
    BY <1>3, TakenType, SMT DEF MakeFrom, FlagNamesTheMember
  <2>2. CASE throws
    BY <1>3, <2>1, <2>2, ZenonT(60) DEF MakeFrom, FlagNamesTheMember, Usable
  <2>3. CASE ~throws
    <3>1. /\ exists' = exists \cup {x} /\ threw' = threw /\ x \notin exists /\ y \in exists \ threw
          /\ m_has_value' = [m_has_value EXCEPT ![x] = m_has_value[y]]
          /\ lives' = [lives EXCEPT ![x][m_has_value[y]] = @ + 1]
      BY <1>3, <2>3 DEF MakeFrom, Usable
    <3> QED  BY <2>1, <3>1, SMT DEF FlagNamesTheMember, Usable
  <2> QED  BY <2>2, <2>3
<1>4. ASSUME NEW x \in Results, NEW y \in Results, NEW move \in BOOLEAN, NEW throws \in BOOLEAN,
             AssignSame(x, y, move, throws)
      PROVE  FlagNamesTheMember'
  <2>1. holds' \in [Results -> Data \cup {Moved}]
    BY <1>4, TakenType DEF AssignSame, FlagNamesTheMember
  <2> QED  BY <1>4, <2>1 DEF AssignSame, FlagNamesTheMember, Usable, Members
<1>5. ASSUME NEW x \in Results, NEW y \in Results, NEW move \in BOOLEAN, NEW throws \in BOOLEAN,
             AssignOther(x, y, move, throws)
      PROVE  FlagNamesTheMember'
  <2>1. holds' \in [Results -> Data \cup {Moved}] /\ m_has_value[y] \in Members
    BY <1>5, TakenType DEF AssignOther, FlagNamesTheMember
  <2> QED  BY <1>5, <2>1, SwitchNamesTheMember DEF AssignOther
<1>6. ASSUME NEW x \in Results, Destroy(x)
      PROVE  FlagNamesTheMember'
  BY <1>6, SMT DEF Destroy, FlagNamesTheMember, Usable, Members
<1>7. ASSUME NEW x \in Results, MoveOut(x)
      PROVE  FlagNamesTheMember'
  BY <1>7 DEF MoveOut, FlagNamesTheMember, Usable, Members
<1>8. CASE UNCHANGED resultVars
  BY <1>8 DEF resultVars, FlagNamesTheMember, Usable, Members
<1> QED
  BY <1>1, <1>2, <1>3, <1>4, <1>5, <1>6, <1>7, <1>8 DEF ResultNext

\* For any number of results, types and throwing constructors exactly the member
\* the flag names is alive, except after a throw in the middle of a switch
\* (46-131, 184-203).
THEOREM ResultsAreSound == ResultSpec => []FlagNamesTheMember
  BY InitNamesTheMember, StepNamesTheMember, PTL DEF ResultSpec
-----------------------------------------------------------------------------
(* WakeIsExact and TriggersAreWanted of the reactor: the kernel's table holds *)
(* what the caller asked for last, in the kernel's terms.                     *)

Entries == [token : Tokens, mask : SUBSET Conditions]

\* The table holds what was asked for (100-122).
TableInv ==
  /\ Registered \subseteq Handles /\ DOMAIN asked = Registered
  /\ interest = [h \in Registered |-> interest[h]]
  /\ \A h \in Registered : /\ interest[h] \in Entries
                           /\ interest[h].token = asked[h].token
                           /\ interest[h].mask = to_epoll(asked[h].events)

\* The caller between two calls and in one.
CallerInv ==
  /\ condition \in [Handles -> SUBSET Conditions]
  /\ woken \in BOOLEAN /\ wake_owed \in BOOLEAN /\ (woken <=> wake_owed)
  /\ u_pc \in {"idle", "waiting"}
  /\ max_n \in 0 .. MAX_EVENTS_PER_WAIT
  /\ u_pc = "waiting" => triggers = <<>>

EInv == TableInv /\ CallerInv

\* What is asked for is a mask of the kernel's.
LEMMA ToEpollFacts ==
  ASSUME NEW e
  PROVE  /\ to_epoll(e) \subseteq Conditions
         /\ "EPOLLIN" \in to_epoll(e) <=> "Readable" \in e
         /\ "EPOLLOUT" \in to_epoll(e) <=> "Writable" \in e
         /\ "EPOLLERR" \notin to_epoll(e) /\ "EPOLLHUP" \notin to_epoll(e)
BY DEF to_epoll, Conditions

\* Masks come back as the events that stand for their conditions (32-43).
LEMMA FromEpollFacts ==
  ASSUME NEW ev \in SUBSET Conditions
  PROVE  /\ from_epoll(ev) \subseteq Event
         /\ ev # {} => from_epoll(ev) # {}
         /\ \A e \in from_epoll(ev) : ConditionOf[e] \in ev
<1>1. /\ from_epoll(ev) \subseteq Event
      /\ "Readable" \in from_epoll(ev) <=> "EPOLLIN" \in ev
      /\ "Writable" \in from_epoll(ev) <=> "EPOLLOUT" \in ev
      /\ "Error" \in from_epoll(ev) <=> "EPOLLERR" \in ev
      /\ "HangUp" \in from_epoll(ev) <=> "EPOLLHUP" \in ev
  BY DEF from_epoll, Event
<1>2. /\ ConditionOf["Readable"] = "EPOLLIN" /\ ConditionOf["Writable"] = "EPOLLOUT"
      /\ ConditionOf["Error"] = "EPOLLERR" /\ ConditionOf["HangUp"] = "EPOLLHUP"
  BY DEF ConditionOf, Event
<1>3. ev # {} => from_epoll(ev) # {}
  BY <1>1 DEF Conditions
<1>4. \A e \in from_epoll(ev) : ConditionOf[e] \in ev
  BY <1>1, <1>2 DEF Event
<1> QED  BY <1>1, <1>3, <1>4

\* A descriptor's entry is written by add or modify (100-116).
LEMMA AskKeeps ==
  ASSUME TableInv, NEW h \in Handles, NEW e, NEW t \in Tokens, Ask(h, e, t),
         interest' = [x \in Registered \cup {h} |->
                        IF x = h THEN [token |-> t, mask |-> to_epoll(e)] ELSE interest[x]]
  PROVE  TableInv'
<1>1. PICK R, f, A : /\ R = Registered \cup {h} /\ f = interest' /\ A = asked'
                     /\ R \subseteq Handles /\ DOMAIN asked = Registered
  BY DEF TableInv
<1>2. /\ DOMAIN f = R /\ f = [x \in R |-> f[x]]
      /\ f[h] = [token |-> t, mask |-> to_epoll(e)] /\ \A x \in Registered : x # h => f[x] = interest[x]
  BY <1>1
<1>3. /\ DOMAIN A = R /\ A[h] = [events |-> e, token |-> t]
      /\ \A x \in Registered : x # h => A[x] = asked[x]
  BY <1>1 DEF Ask
<1>4. ASSUME NEW x \in R
      PROVE  f[x] \in Entries /\ f[x].token = A[x].token /\ f[x].mask = to_epoll(A[x].events)
  <2>1. CASE x = h
    BY <1>2, <1>3, <2>1, ToEpollFacts, SMT DEF Entries
  <2>2. CASE x # h
    BY <1>1, <1>2, <1>3, <2>2 DEF TableInv
  <2> QED  BY <2>1, <2>2
<1> QED  BY <1>1, <1>2, <1>3, <1>4 DEF TableInv, Registered

\* What wait hands out is an order of descriptors that are ready (124-153).
LEMMA TriggersFacts ==
  ASSUME EInv, NEW got \in Batches(max_n), NEW ts \in TriggerSeqs(got)
  PROVE  \E f \in [1 .. Len(ts) -> DOMAIN asked] :
           /\ OnceEach(f) /\ Len(ts) <= max_n
           /\ \A i \in 1 .. Len(ts) :
                /\ ts[i].user_token = asked[f[i]].token
                /\ ts[i].events # {}
                /\ ts[i].events \subseteq asked[f[i]].events \cup {"Error", "HangUp"}
                /\ \A e \in ts[i].events : ConditionOf[e] \in condition[f[i]]
<1>1. PICK G : G = got \ {WakeFd}
  OBVIOUS
<1>2. G \subseteq ReadyFds \ {WakeFd} /\ got \subseteq ReadyFds
  BY <1>1 DEF Batches
<1>3. G \subseteq Registered /\ Registered \subseteq Handles /\ \A h \in G : Reported(h) # {}
  BY <1>2 DEF ReadyFds, EInv, TableInv
<1>4. IsFiniteSet(ReadyFds) /\ IsFiniteSet(got) /\ IsFiniteSet(G)
  <2>1. IsFiniteSet(Handles) /\ IsFiniteSet(Handles \cup {WakeFd})
    BY EpollAssumption, FS_AddElement DEF EpollAssumption
  <2>2. ReadyFds \subseteq Handles \cup {WakeFd}
    BY <1>3 DEF ReadyFds
  <2> QED  BY <1>1, <1>2, <2>1, <2>2, FS_Subset
<1>5. PICK n \in Nat : n = Cardinality(G) /\ n <= max_n
  <2>1. Cardinality(G) \in Nat /\ Cardinality(got) \in Nat /\ Cardinality(ReadyFds) \in Nat
    BY <1>4, FS_CardinalityType
  <2>2. Cardinality(G) <= Cardinality(got)
    BY <1>1, <1>4, FS_Subset
  <2>3. max_n \in Nat
    BY EpollAssumption, SMT DEF EpollAssumption, EInv, CallerInv
  <2>4. Cardinality(got) <= max_n
    BY <2>1, <2>3, SMT DEF Batches
  <2> QED  BY <2>1, <2>2, <2>3, <2>4, SMT
<1>6. PICK s \in Orders(G) : ts = [i \in DOMAIN s |-> [events |-> from_epoll(Reported(s[i])),
                                                       user_token |-> interest[s[i]].token]]
  BY <1>1 DEF TriggerSeqs
<1>7. s \in [1 .. n -> G] /\ OnceEach(s)
  BY <1>5, <1>6 DEF Orders
<1>8. /\ Len(ts) = n
      /\ \A i \in 1 .. n : /\ ts[i].events = from_epoll(Reported(s[i]))
                           /\ ts[i].user_token = interest[s[i]].token
  <2>1. ts = [i \in 1 .. n |-> [events |-> from_epoll(Reported(s[i])),
                                user_token |-> interest[s[i]].token]]
    BY <1>6, <1>7
  <2> QED  BY <2>1, SMTT(30)
<1>9. ASSUME NEW i \in 1 .. n
      PROVE  /\ ts[i].user_token = asked[s[i]].token
             /\ ts[i].events # {}
             /\ ts[i].events \subseteq asked[s[i]].events \cup {"Error", "HangUp"}
             /\ \A e \in ts[i].events : ConditionOf[e] \in condition[s[i]]
  <2>1. PICK h \in G : h = s[i]
    BY <1>7
  <2>2. PICK ev, m, c : ev = Reported(h) /\ m = interest[h].mask /\ c = condition[h]
    OBVIOUS
  <2>3. /\ h \in Registered /\ h \in Handles /\ m = to_epoll(asked[h].events)
        /\ interest[h].token = asked[h].token /\ c \subseteq Conditions
    BY <1>3, <2>2 DEF EInv, TableInv, CallerInv
  <2>4. ev = c \cap (m \cup {"EPOLLERR", "EPOLLHUP"}) /\ ev # {} /\ ev \in SUBSET Conditions
    BY <1>3, <2>2, <2>3 DEF Reported
  <2>5. /\ ts[i].events = from_epoll(ev) /\ from_epoll(ev) # {} /\ from_epoll(ev) \subseteq Event
        /\ \A e \in from_epoll(ev) : ConditionOf[e] \in ev
    BY <1>8, <2>1, <2>2, <2>4, FromEpollFacts
  <2>6. from_epoll(ev) \subseteq asked[h].events \cup {"Error", "HangUp"}
    <3>1. "Readable" \in from_epoll(ev) => "EPOLLIN" \in ev
      BY DEF from_epoll
    <3>2. "Writable" \in from_epoll(ev) => "EPOLLOUT" \in ev
      BY DEF from_epoll
    <3>3. /\ "EPOLLIN" \in ev => "Readable" \in asked[h].events
          /\ "EPOLLOUT" \in ev => "Writable" \in asked[h].events
      BY <2>3, <2>4, ToEpollFacts
    <3> QED  BY <2>5, <3>1, <3>2, <3>3 DEF Event
  <2> QED  BY <1>8, <2>1, <2>2, <2>3, <2>4, <2>5, <2>6
<1>10. s \in [1 .. Len(ts) -> DOMAIN asked]
  BY <1>3, <1>7, <1>8 DEF EInv, TableInv
<1> QED  BY <1>5, <1>7, <1>8, <1>9, <1>10

\* A wake that is pending is taken by exactly the waits that leave room in the
\* span: epoll_wait returns all there is, or as many as fit (127-149).
LEMMA RoomMeansWoken ==
  ASSUME EInv, NEW got \in Batches(max_n), NEW ts \in TriggerSeqs(got), woken
  PROVE  WakeFd \notin got <=> Len(ts) = max_n
<1>1. PICK G, R : G = got \ {WakeFd} /\ R = ReadyFds
  OBVIOUS
<1>2. /\ got \subseteq R /\ WakeFd \in R
      /\ Cardinality(got) = IF Cardinality(R) < max_n THEN Cardinality(R) ELSE max_n
  BY <1>1 DEF Batches, ReadyFds
<1>3. IsFiniteSet(R) /\ IsFiniteSet(got) /\ IsFiniteSet(G)
  <2>1. IsFiniteSet(Handles \cup {WakeFd})
    BY EpollAssumption, FS_AddElement DEF EpollAssumption
  <2>2. R \subseteq Handles \cup {WakeFd}
    BY <1>1 DEF ReadyFds, EInv, TableInv
  <2> QED  BY <1>1, <1>2, <2>1, <2>2, FS_Subset
<1>4. Cardinality(G) \in Nat /\ Cardinality(got) \in Nat /\ Cardinality(R) \in Nat /\ max_n \in Nat
  <2>1. max_n \in Nat
    BY EpollAssumption, SMT DEF EpollAssumption, EInv, CallerInv
  <2> QED  BY <1>3, <2>1, FS_CardinalityType
<1>5. Len(ts) = Cardinality(G)
  <2>1. PICK s \in Orders(G) : ts = [i \in DOMAIN s |-> [events |-> from_epoll(Reported(s[i])),
                                                         user_token |-> interest[s[i]].token]]
    BY <1>1 DEF TriggerSeqs
  <2>2. PICK n \in Nat : n = Cardinality(G)
    BY <1>4
  <2>3. s \in [1 .. n -> G]
    BY <2>1, <2>2 DEF Orders
  <2>4. ts = [i \in 1 .. n |-> [events |-> from_epoll(Reported(s[i])),
                                user_token |-> interest[s[i]].token]]
    BY <2>1, <2>3
  <2> QED  BY <2>2, <2>4, SMTT(30)
<1>6. CASE WakeFd \in got
  <2>1. Cardinality(G) = Cardinality(got) - 1
    BY <1>1, <1>3, <1>6, FS_RemoveElement
  <2> QED  BY <1>2, <1>4, <1>5, <1>6, <2>1, SMT
<1>7. CASE WakeFd \notin got
  <2>1. G = got /\ got # R
    BY <1>1, <1>2, <1>7
  <2>2. Cardinality(got) # Cardinality(R)
    BY <1>2, <1>3, <2>1, FS_Subset
  <2> QED  BY <1>2, <1>4, <1>5, <1>7, <2>1, <2>2, SMT
<1> QED  BY <1>6, <1>7

\* Calls that leave the table as it was.
LEMMA TableStays ==
  ASSUME TableInv, UNCHANGED <<interest, asked>>
  PROVE  TableInv'
BY DEF TableInv, Registered, Entries

\* Every step keeps the invariant.
LEMMA EInvSteps ==
  ASSUME EInv, [Next]_vars
  PROVE  EInv'
<1>1. TableInv /\ CallerInv
  BY DEF EInv
<1>2. ASSUME NEW h \in Handles, NEW e \in Interests, NEW t \in Tokens, Add(h, e, t) \/ Modify(h, e, t)
      PROVE  EInv'
  <2>1. Ask(h, e, t) /\ UNCHANGED <<condition, woken, callerVars, wake_owed>>
    BY <1>2 DEF Add, Modify, add, modify
  <2>2. interest' = [x \in Registered \cup {h} |->
                       IF x = h THEN [token |-> t, mask |-> to_epoll(e)] ELSE interest[x]]
    <3>1. CASE Add(h, e, t)
      BY <3>1 DEF Add, add
    <3>2. CASE Modify(h, e, t)
      <4>1. /\ h \in Registered
            /\ interest' = [interest EXCEPT ![h] = [token |-> t, mask |-> to_epoll(e)]]
        BY <3>2 DEF Modify, modify
      <4> QED  BY <1>1, <4>1 DEF TableInv, Registered
    <3> QED  BY <1>2, <3>1, <3>2
  <2>3. TableInv'
    BY <1>1, <2>1, <2>2, AskKeeps
  <2>4. CallerInv'
    BY <1>1, <2>1 DEF CallerInv, callerVars
  <2> QED  BY <2>3, <2>4 DEF EInv
<1>3. ASSUME NEW h \in Handles, Remove(h)
      PROVE  EInv'
  <2>1. /\ interest' = [x \in Registered \ {h} |-> interest[x]]
        /\ asked' = [x \in Registered \ {h} |-> asked[x]]
        /\ UNCHANGED <<condition, woken, callerVars, wake_owed>>
    BY <1>1, <1>3 DEF Remove, remove, TableInv
  <2>2. TableInv'
    BY <1>1, <2>1 DEF TableInv, Registered
  <2>3. CallerInv'
    BY <1>1, <2>1 DEF CallerInv, callerVars
  <2> QED  BY <2>2, <2>3 DEF EInv
<1>4. ASSUME NEW n \in OutSizes, NEW timed \in BOOLEAN, WaitCall(n, timed)
      PROVE  EInv'
  <2>1. UNCHANGED <<interest, condition, woken, asked, wake_owed>> /\ triggers' = <<>>
    BY <1>4 DEF WaitCall, reactorVars
  <2>2. max_n' \in 0 .. MAX_EVENTS_PER_WAIT /\ u_pc' \in {"idle", "waiting"}
    <3>1. n \in Nat /\ MAX_EVENTS_PER_WAIT \in Nat
      BY EpollAssumption DEF EpollAssumption
    <3>2. CASE n = 0
      BY <1>1, <1>4, <3>2 DEF WaitCall, CallerInv
    <3>3. CASE n # 0
      <4>1. u_pc' = "waiting" /\ max_n' = IF n < MAX_EVENTS_PER_WAIT THEN n ELSE MAX_EVENTS_PER_WAIT
        BY <1>4, <3>3 DEF WaitCall
      <4> QED  BY <3>1, <4>1, SMT
    <3> QED  BY <3>2, <3>3
  <2> QED  BY <1>1, <2>1, <2>2, TableStays DEF EInv, CallerInv
<1>5. ASSUME NEW got \in Batches(max_n), WaitEvents(got)
      PROVE  EInv'
  <2>1. /\ UNCHANGED <<interest, condition, max_n, asked>> /\ u_pc' = "idle"
        /\ woken' = (woken /\ WakeFd \notin got) /\ wake_owed' = (wake_owed /\ Len(triggers') = max_n)
        /\ triggers' \in TriggerSeqs(got)
    BY <1>5 DEF WaitEvents, drain
  <2>2. woken => (WakeFd \notin got <=> Len(triggers') = max_n)
    BY <1>1, <1>5, <2>1, RoomMeansWoken DEF EInv
  <2> QED  BY <1>1, <2>1, <2>2, TableStays DEF EInv, CallerInv
<1>6. CASE WaitTimeout \/ WaitInterrupted
  BY <1>1, <1>6, TableStays, SMT DEF WaitTimeout, WaitInterrupted, EInv, CallerInv, reactorVars
<1>7. CASE Wake
  BY <1>1, <1>7, TableStays DEF Wake, wake, EInv, CallerInv, callerVars
<1>8. ASSUME NEW h \in Handles, NEW ev \in Worlds, World(h, ev)
      PROVE  EInv'
  <2>1. ev \subseteq Conditions
    BY EpollAssumption DEF EpollAssumption
  <2> QED  BY <1>1, <1>8, <2>1, TableStays DEF World, ConditionChanges, EInv, CallerInv, callerVars
<1>9. CASE UNCHANGED vars
  BY <1>1, <1>9, TableStays DEF vars, reactorVars, callerVars, EInv, CallerInv
<1> QED  BY <1>2, <1>3, <1>4, <1>5, <1>6, <1>7, <1>8, <1>9 DEF Next

\* Nothing is registered and nobody waits (46-72).
LEMMA EInvInit == Init => EInv
<1> SUFFICES ASSUME Init
             PROVE  EInv
    OBVIOUS
<1>1. interest = <<>> /\ asked = <<>> /\ DOMAIN <<>> = {}
  BY SMT DEF Init, ReactorInit
<1>2. <<>> = [h \in {} |-> interest[h]]
  BY SMT
<1>3. TableInv
  BY <1>1, <1>2 DEF TableInv, Registered
<1>4. 0 \in 0 .. MAX_EVENTS_PER_WAIT
  BY EpollAssumption, SMT DEF EpollAssumption
<1>5. CallerInv
  BY <1>4 DEF Init, ReactorInit, CallerInv
<1> QED  BY <1>3, <1>5 DEF EInv

\* For every set of descriptors, every size of span and threads that wake: the
\* eventfd is pending exactly while no wait since the wake has left room in its
\* span, so no wake is lost and none ends two waits (127-149, 157-162).
THEOREM WakesAreExact == Spec => []WakeIsExact
<1>1. EInv => WakeIsExact
  <2> SUFFICES ASSUME EInv
               PROVE  WakeIsExact
      OBVIOUS
  <2>1. interest \in [Registered -> Entries] /\ Registered \in SUBSET Handles
    BY DEF EInv, TableInv
  <2>2. interest \in UNION {[H -> [token : Tokens, mask : SUBSET Conditions]] : H \in SUBSET Handles}
    BY <2>1 DEF Entries
  <2> QED  BY <2>2 DEF EInv, CallerInv, WakeIsExact, TypeOK
<1>2. EInv /\ [Next]_vars => EInv'
  BY EInvSteps
<1> QED  BY <1>1, <1>2, EInvInit, PTL DEF Spec

\* For every set of descriptors, every size of span and whatever happens while
\* wait blocks: its triggers are about different descriptors, fit the span, carry
\* the token last given and report only conditions that hold and were asked for
\* (100-116, 141-153).
THEOREM WaitsReportTheWanted == Spec => TriggersAreWanted
<1> DEFINE Wanted ==
      u_pc = "waiting" /\ u_pc' = "idle" =>
        \E f \in [1 .. Len(triggers') -> DOMAIN asked] :
          /\ OnceEach(f) /\ Len(triggers') <= max_n
          /\ \A i \in 1 .. Len(triggers') :
               LET t == triggers'[i] IN
               /\ t.user_token = asked[f[i]].token
               /\ t.events # {}
               /\ t.events \subseteq asked[f[i]].events \cup {"Error", "HangUp"}
               /\ \A e \in t.events : ConditionOf[e] \in condition[f[i]]
<1>1. EInv /\ [Next]_vars => EInv'
  BY EInvSteps
<1>2. EInv /\ [Next]_vars => Wanted
  <2> SUFFICES ASSUME EInv, [Next]_vars, u_pc = "waiting", u_pc' = "idle"
               PROVE  Wanted
      OBVIOUS
  <2>1. ASSUME NEW got \in Batches(max_n), WaitEvents(got)
        PROVE  Wanted
    <3>1. PICK ts \in TriggerSeqs(got) : ts = triggers'
      BY <2>1 DEF WaitEvents
    <3> QED  BY <3>1, TriggersFacts
  <2>2. CASE WaitTimeout \/ WaitInterrupted
    <3>1. triggers' = <<>> /\ max_n \in Nat
      BY <2>2, EpollAssumption, SMT DEF WaitTimeout, WaitInterrupted, EInv, CallerInv, EpollAssumption
    <3>2. PICK f : f = <<>>
      OBVIOUS
    <3>3. f \in [1 .. 0 -> DOMAIN asked] /\ OnceEach(f) /\ Len(triggers') = 0
      BY <3>1, <3>2, SMT DEF OnceEach
    <3>4. Len(triggers') \in Nat /\ Len(triggers') <= max_n /\ 1 .. Len(triggers') = 1 .. 0
      BY <3>1, <3>3, SMT
    <3>5. \A i \in 1 .. 0 : FALSE
      BY SMT
    <3>6. f \in [1 .. Len(triggers') -> DOMAIN asked] /\ \A i \in 1 .. Len(triggers') : FALSE
      BY <3>3, <3>4, <3>5
    <3> QED  BY <3>3, <3>4, <3>6
  <2>3. \/ \E got \in Batches(max_n) : WaitEvents(got)
        \/ WaitTimeout \/ WaitInterrupted
    BY DEF Next, Add, Modify, Remove, WaitCall, Wake, World, vars, callerVars
  <2> HIDE DEF Wanted
  <2> QED  BY <2>1, <2>2, <2>3
<1> QED  BY <1>1, <1>2, EInvInit, PTL DEF Spec, TriggersAreWanted
=============================================================================
