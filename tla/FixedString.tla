---------------------------- MODULE FixedString ----------------------------
(***************************************************************************)
(* stl::fixed_string (stl/fixed_string.h): strings of fixed capacities,    *)
(* each a buffer of capacity + 1 characters in the object's own            *)
(* stack_arena and a size.  Every operation is its memcpy, memset and      *)
(* single writes; characters nothing has written are Junk.  The asserts    *)
(* are the callers' obligation and appear as guards.  Arguments are        *)
(* literals, views of any string and C strings read from one; a view of    *)
(* the assigned string itself must not overlap where it goes (98).         *)
(***************************************************************************)
EXTENDS Integers, Sequences

CONSTANTS Strs,       \* string objects
          Cap,        \* [Strs -> Nat]: N of each object's type
          Chars,      \* characters other than '\0'
          NUL,        \* '\0'
          Junk,
          Literals    \* texts from elsewhere

Text == Seq(Chars \cup {NUL})

ASSUME FixedStringAssumption ==
  /\ Cap \in [Strs -> Nat] /\ NUL \notin Chars /\ Junk \notin Chars \cup {NUL}
  /\ \A s \in Literals : s \in Text

VARIABLES buf,   \* buf_: indices start at 0
          size   \* size_

stringVars == <<buf, size>>

\* n characters from index p: string_view(buf_ + p, n), substr and view
\* (134-136, 195-198).
Cells(x, p, n) == [i \in 1 .. n |-> buf[x][p + i - 1]]
view(x) == Cells(x, 0, size[x])

\* c_str() read as a C string ends at the first '\0' (130, 38, 171).
strlen(x) == CHOOSE n \in 0 .. Cap[x] : buf[x][n] = NUL /\ \A i \in 0 .. n - 1 : buf[x][i] # NUL

\* memcpy(b + p, s, n) and memset; a buffer with its terminator.
Put(b, p, s) == [i \in DOMAIN b |-> IF i \in p .. p + Len(s) - 1 THEN s[i - p + 1] ELSE b[i]]
Terminated(b, n) == [b EXCEPT ![n] = NUL]
Repeat(n, ch) == [i \in 1 .. n |-> ch]

\* allocate_buf (220-223): N + 1 characters.
allocate_buf(x) == [i \in 0 .. Cap[x] |-> Junk]

Set(x, b, n) ==
  /\ buf' = [buf EXCEPT ![x] = b]
  /\ size' = [size EXCEPT ![x] = n]

\* The default constructor (30-33).
StringInit ==
  /\ buf = [x \in Strs |-> Terminated(allocate_buf(x), 0)]
  /\ size = [x \in Strs |-> 0]

\* x is made anew from a pointer, a pointer and a length, a view, or a count and
\* a character (35-64).
Construct(x, s) ==
  /\ Len(s) <= Cap[x]
  /\ Set(x, Terminated(Put(allocate_buf(x), 0, s), Len(s)), Len(s))

\* x is made anew from y, of its own or of another capacity (66-76): the
\* terminator comes with the copy.
CopiedShort(y) == Cells(y, 0, size[y])
Copied(y) == Cells(y, 0, size[y] + 1)
ConstructFrom(x, y) ==
  /\ x # y /\ size[y] <= Cap[x]
  /\ Set(x, Put(allocate_buf(x), 0, Copied(y)), size[y])

\* operator=(const fixed_string&) (78-84); assigned to itself nothing changes.
Assign(x, y) ==
  /\ x # y /\ Cap[x] = Cap[y]
  /\ Set(x, Put(buf[x], 0, Copied(y)), size[y])

\* operator= from a C string or a view (86-101), elsewhere or in x itself.
AssignText(x, s) ==
  /\ Len(s) <= Cap[x]
  /\ Set(x, Terminated(Put(buf[x], 0, s), Len(s)), Len(s))
AssignOwn(x, p, n) ==
  /\ p = 0 \/ n <= p
  /\ AssignText(x, Cells(x, p, n))

\* clear, push_back and pop_back (147-161).
clear(x) == Set(x, Terminated(buf[x], 0), 0)
push_back(x, ch) ==
  /\ size[x] < Cap[x]
  /\ Set(x, Terminated(Put(buf[x], size[x], <<ch>>), size[x] + 1), size[x] + 1)
pop_back(x) ==
  /\ size[x] > 0
  /\ Set(x, Terminated(buf[x], size[x] - 1), size[x] - 1)

\* append and operator+= (163-184): also of a view of x itself.
append(x, s) ==
  /\ size[x] + Len(s) <= Cap[x]
  /\ Set(x, Terminated(Put(buf[x], size[x], s), size[x] + Len(s)), size[x] + Len(s))

\* resize (186-192).
FilledShort(x, n, ch) == Put(buf[x], size[x] + 1, Repeat(n - size[x] - 1, ch))
Filled(x, n, ch) == Put(buf[x], size[x], Repeat(n - size[x], ch))
resize(x, n, ch) ==
  /\ n <= Cap[x]
  /\ Set(x, Terminated(IF n > size[x] THEN Filled(x, n, ch) ELSE buf[x], n), n)

\* A character written through at, [], front, back or an iterator (111-126,
\* 139-140).
SetChar(x, i, ch) ==
  /\ i \in 0 .. size[x] - 1
  /\ Set(x, [buf[x] EXCEPT ![i] = ch], size[x])

\* z is made by operator+ (231-250) from two texts of which at least one is a
\* string: constructed from the first, extended by the second.
Concat(z, s, t) ==
  /\ Len(s) + Len(t) <= Cap[z]
  /\ LET first == Terminated(Put(allocate_buf(z), 0, s), Len(s)) IN
     Set(z, Terminated(Put(first, Len(s), t), Len(s) + Len(t)), Len(s) + Len(t))

Slices(x) == UNION {{Cells(x, p, n) : n \in 0 .. size[x] - p} : p \in 0 .. size[x]}
Arguments(x) ==
  Literals \cup UNION {Slices(y) \cup {Cells(y, 0, strlen(y))} : y \in Strs \ {x}}

StringNext ==
  \E x \in Strs :
    \/ \E s \in Arguments(x) : Construct(x, s) \/ AssignText(x, s)
    \/ \E s \in Arguments(x) \cup Slices(x) : append(x, s)
    \/ \E y \in Strs : ConstructFrom(x, y) \/ Assign(x, y)
    \/ \E p \in 0 .. size[x] : \E n \in 0 .. size[x] - p : AssignOwn(x, p, n)
    \/ clear(x) \/ pop_back(x)
    \/ \E ch \in Chars \cup {NUL}, n \in 0 .. Cap[x] :
         \/ push_back(x, ch) \/ resize(x, n, ch) \/ SetChar(x, n, ch)
         \/ Construct(x, Repeat(n, ch)) \/ append(x, Repeat(n, ch))
    \/ \E y, w \in Strs \ {x} : Cap[x] = Cap[y] + Cap[w] /\ Concat(x, view(y), view(w))
    \/ \E y \in Strs \ {x}, s \in Arguments(x) :
         Cap[x] = Cap[y] /\ (Concat(x, view(y), s) \/ Concat(x, s, view(y)))

StringSpec == StringInit /\ [][StringNext]_stringVars
-----------------------------------------------------------------------------
\* Whatever was called before, a string is within its capacity, ends with the
\* terminator c_str() promises and shows no character that was never written
\* (30-101, 147-192): copies take the terminator with them (68, 75, 81), and a
\* string that grows has written all it shows.
StringIsWhole ==
  /\ size \in [Strs -> Nat] /\ buf = [x \in Strs |-> buf[x]]
  /\ \A x \in Strs :
       /\ size[x] <= Cap[x]
       /\ buf[x] \in [0 .. Cap[x] -> Chars \cup {NUL, Junk}]
       /\ buf[x][size[x]] = NUL
       /\ \A i \in 0 .. size[x] - 1 : buf[x][i] # Junk

\* Each operation has the effect of its std::string namesake on the text, for
\* arguments that are views of other strings or, where memory does not overlap,
\* of the string itself, and changes no other string (35-101, 147-192, 230-250).
ActsAsString ==
  [][\A x \in Strs :
       /\ \A s \in Arguments(x) : AssignText(x, s) \/ Construct(x, s) => view(x)' = s
       /\ \A s \in Arguments(x) \cup Slices(x) : append(x, s) => view(x)' = view(x) \o s
       /\ \A y \in Strs : Assign(x, y) \/ ConstructFrom(x, y) => view(x)' = view(y)
       /\ \A p \in 0 .. size[x] : \A n \in 0 .. size[x] - p :
            AssignOwn(x, p, n) => view(x)' = SubSeq(view(x), p + 1, p + n)
       /\ \A n \in 0 .. Cap[x], ch \in Chars \cup {NUL} :
            resize(x, n, ch) => view(x)' = SubSeq(view(x) \o Repeat(Cap[x], ch), 1, n)
       /\ \A y \in Strs \ {x} : \A s \in Arguments(x) \cup {view(y)} :
            /\ Concat(x, view(y), s) => view(x)' = view(y) \o s
            /\ Concat(x, s, view(y)) => view(x)' = s \o view(y)
       /\ \A ch \in Chars \cup {NUL} : push_back(x, ch) => view(x)' = Append(view(x), ch)
       /\ clear(x) => view(x)' = <<>>
       /\ pop_back(x) => view(x)' = SubSeq(view(x), 1, size[x] - 1)
       /\ view(x)' # view(x) => \A y \in Strs \ {x} : view(y)' = view(y)]_stringVars
=============================================================================
