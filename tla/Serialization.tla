--------------------------- MODULE Serialization ---------------------------
(***************************************************************************)
(* sap::ByteWriter and sap::ByteReader (src/serialization.cpp): a writer   *)
(* appends fields to a buffer, and a reader that knows their types reads   *)
(* them back from the buffer, or from as much of it as arrived.  Numbers   *)
(* go through the byte order conversions as the host's memory holds them;  *)
(* floats are written as the integer with their bits, which is modelled by *)
(* the integer.  Byte values are 0 .. Base - 1 and a size_t is a u64.      *)
(***************************************************************************)
EXTENDS Integers, Sequences

CONSTANTS Base,        \* byte values there are
          Numbers,     \* [width -> numbers written]
          Strings,     \* byte sequences written by write_string, write_bytes
          MaxFields    \* bound: fields in one buffer

ASSUME SerializationAssumption ==
  /\ Base \in Nat \ {0, 1} /\ MaxFields \in Nat
  /\ \A w \in DOMAIN Numbers : w \in {1, 2, 4, 8} /\ Numbers[w] \subseteq 0 .. Base^w - 1

VARIABLES host,               \* "little" or "big": the byte order of the machine
          m_buffer, fields,   \* the writer; history: what was written
          data,               \* what the reader was given, once it was
          m_offset, got,      \* the reader; history: what it read
          state               \* "writing", "reading", "failed"

vars == <<host, m_buffer, fields, data, m_offset, got, state>>

SizeMod == Base^8

Init ==
  /\ host \in {"little", "big"}
  /\ m_buffer = <<>> /\ fields = <<>> /\ data = <<>>
  /\ m_offset = 0 /\ got = <<>> /\ state = "writing"

\* The w bytes of v, most and least significant first, and back.
BigEndian(v, w) == [i \in 1 .. w |-> (v \div Base^(w - i)) % Base]
LittleEndian(v, w) == [i \in 1 .. w |-> (v \div Base^(i - 1)) % Base]
Value(s, Weight(_)) ==
  LET sum[k \in 0 .. Len(s)] == IF k = 0 THEN 0 ELSE sum[k - 1] + s[k] * Weight(k)
  IN  sum[Len(s)]

\* A number in memory, and memory read as a number (memcpy on the host).
ToMemory(v, w) == IF host = "little" THEN LittleEndian(v, w) ELSE BigEndian(v, w)
FromMemory(s) ==
  LET little(k) == Base^(k - 1)
      big(k) == Base^(Len(s) - k)
  IN  IF host = "little" THEN Value(s, little) ELSE Value(s, big)

\* htons and htonl; ntohs and ntohl do the same.
hton(v, w) == FromMemory(BigEndian(v, w))

\* htonll and ntohll (14-24).
htonll_unswapped(v) == hton(v \div Base^4, 4) * Base^4 + hton(v % Base^4, 4)
htonll(v) == hton(v % Base^4, 4) * Base^4 + hton(v \div Base^4, 4)

\* write_u8 to write_f64 (26-63) and the matching reads' conversion (84-141).
Net(v, w) == CASE w = 1 -> v [] w = 8 -> htonll(v) [] OTHER -> hton(v, w)
WriteNumber(v, w) == ToMemory(Net(v, w), w)

\* write_string (65-70) and write_bytes (72-80).
WriteString(s) == WriteNumber(Len(s), 8) \o s
Encoded(f) ==
  CASE f.type = "number" -> WriteNumber(f.value, f.width)
    [] f.type = "string" -> WriteString(f.value)
    [] f.type = "bytes"  -> f.value

Field ==
  UNION {[type : {"number"}, width : {w}, value : Numbers[w]] : w \in DOMAIN Numbers}
    \cup [type : {"string", "bytes"}, width : {0}, value : Strings]

Write(f) ==
  /\ state = "writing" /\ Len(fields) < MaxFields
  /\ m_buffer' = m_buffer \o Encoded(f)
  /\ fields' = Append(fields, f)
  /\ UNCHANGED <<host, data, m_offset, got, state>>

\* A ByteReader over the first n bytes (82).
Open(n) ==
  /\ state = "writing" /\ fields # <<>>
  /\ data' = SubSeq(m_buffer, 1, n)
  /\ m_offset' = 0 /\ state' = "reading"
  /\ UNCHANGED <<host, m_buffer, fields, got>>

\* The check every read makes (85, 94, 104, 114, 149, 158).
UnderflowsAtEnd(offset, n) == (offset + n) % SizeMod >= Len(data)
Underflows(offset, n) == (offset + n) % SizeMod > Len(data)
At(offset, n) == SubSeq(data, offset + 1, offset + n)
ReadNumber(offset, w) == Net(FromMemory(At(offset, w)), w)

Advance(n, f) ==
  /\ m_offset' = m_offset + n
  /\ got' = Append(got, f)
  /\ UNCHANGED <<host, m_buffer, fields, data, state>>
Fail(offset) ==
  /\ state' = "failed" /\ m_offset' = offset
  /\ UNCHANGED <<host, m_buffer, fields, data, got>>

\* read_u8 to read_f64 (84-141).
ReadNumberField(f) ==
  IF Underflows(m_offset, f.width) THEN Fail(m_offset)
  ELSE Advance(f.width, [f EXCEPT !.value = ReadNumber(m_offset, f.width)])

\* read_string (143-155): its length stays read when its body is missing.
ReadStringField(f) ==
  IF Underflows(m_offset, 8) THEN Fail(m_offset)
  ELSE LET n == ReadNumber(m_offset, 8) IN
       IF Underflows(m_offset + 8, n) THEN Fail(m_offset + 8)
       ELSE Advance(8 + n, [f EXCEPT !.value = At(m_offset + 8, n)])

\* read_bytes (157-164), with the length the caller knows.
ReadBytesField(f) ==
  IF Underflows(m_offset, Len(f.value)) THEN Fail(m_offset)
  ELSE Advance(Len(f.value), [f EXCEPT !.value = At(m_offset, Len(f.value))])

Read ==
  /\ state = "reading" /\ Len(got) < Len(fields)
  /\ LET f == fields[Len(got) + 1] IN
     CASE f.type = "number" -> ReadNumberField(f)
       [] f.type = "string" -> ReadStringField(f)
       [] f.type = "bytes"  -> ReadBytesField(f)

Next ==
  \/ \E f \in Field : Write(f)
  \/ \E n \in 0 .. Len(m_buffer) : Open(n)
  \/ Read

Spec == Init /\ [][Next]_vars
-----------------------------------------------------------------------------
\* The reader stays inside what it was given (82-164).
TypeOK ==
  /\ m_offset \in 0 .. Len(data)
  /\ Len(got) <= Len(fields) /\ Len(fields) <= MaxFields
  /\ state \in {"writing", "reading", "failed"} /\ host \in {"little", "big"}

\* Where field k ends in the buffer.
EndOf(k) ==
  LET end[i \in 0 .. k] == IF i = 0 THEN 0 ELSE end[i - 1] + Len(Encoded(fields[i]))
  IN  end[k]

\* The reader stays inside its bytes and reads what was written, field by field,
\* through both conversions and whatever fields come before (26-164).  A read
\* fails exactly when its field did not arrive whole: the fields read before a
\* failure are those that fit in the bytes given (85-162).
RoundTrip ==
  /\ TypeOK
  /\ got = SubSeq(fields, 1, Len(got))
  /\ state = "failed" => EndOf(Len(got) + 1) > Len(data)
  /\ state # "writing" => EndOf(Len(got)) <= Len(data)

\* "Network byte order" (13): numbers are on the wire most significant byte
\* first.  Those of eight bytes are so only from a little-endian host: htonll
\* puts the low half first on either (14-18).
WireIsNetworkOrder ==
  \A k \in DOMAIN fields :
    fields[k].type = "number" /\ (host = "little" \/ fields[k].width # 8) =>
      SubSeq(m_buffer, EndOf(k - 1) + 1, EndOf(k)) = BigEndian(fields[k].value, fields[k].width)
=============================================================================
