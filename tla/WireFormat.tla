----------------------------- MODULE WireFormat -----------------------------
(***************************************************************************)
(* The hand-written protobuf wire layer of the builtin objects             *)
(* (pj_base/src/builtin/protobuf_wire.hpp): a Writer that appends tagged   *)
(* fields to a byte vector and a Reader that walks one, both at the level  *)
(* of bytes.  A message is described by two tables, the fields its writer  *)
(* emits in order and the fields its decoder dispatches on, so that the    *)
(* two sides of a codec are stated, and can disagree, independently.       *)
(*                                                                         *)
(* Scaling.  TLC's integers have 32 bits, so the 64-bit word of the code   *)
(* has 15 bits in the runs (two varint groups of 7 and a last one that may *)
(* only hold 1, as 64 = 9 * 7 + 1), its 32-bit word 10 bits, and a second  *)
(* 10 nanoseconds.  A double is eight bytes and a float four, of which the *)
(* first two carry the value.                                              *)
(***************************************************************************)
EXTENDS WireNumbers, Sequences

(* The members of every message, as its writer emits them: field number,   *)
(* member, kind, and whether it is written always, once per element, or    *)
(* only when it is set.                                                    *)
Field(n, m, k, c) == [n |-> n, m |-> m, k |-> k, c |-> c]
F(n, m, k) == Field(n, m, k, "always")
Each(n, m, k) == Field(n, m, k, "each")
IfSet(n, m, k) == Field(n, m, k, "ifset")

(* A field as the decoder sees it: member, kind, and whether the value is  *)
(* assigned, appended to a vector or put in an optional.                   *)
Handler(n, m, k, into) == [n |-> n, m |-> m, k |-> k, into |-> into]
Case(n, m, k) == Handler(n, m, k, "member")
Push(n, m, k) == Handler(n, m, k, "vector")
Opt(n, m, k) == Handler(n, m, k, "optional")

(* Kinds whose value is a varint, with the conversions of their codecs.    *)
VarintKinds == {"word", "u32", "i32", "bool"} \union DOMAIN Enumerators

Scalars == VarintKinds \union {"double", "float", "byte", "radius"}
Blobs == {"bytes", "packed32", "packed64", "array"}
IsMessage(k) == k \notin Scalars \union Blobs \union {"Timestamp"}

WireType(k) == IF k \in VarintKinds THEN 0
               ELSE IF k \in {"double", "byte", "radius"} THEN 1
               ELSE IF k = "float" THEN 5 ELSE 2

-----------------------------------------------------------------------------
(* Writer.                                                                 *)

RECURSIVE appendVarint(_)
appendVarint(v) == IF v < 128 THEN <<v>> ELSE <<(v % 128) + 128>> \o appendVarint(v \div 128)

tag(field, type) == appendVarint(field * 8 + type)

appendFixed(width, v) == [i \in 1..width |-> IF i = 1 THEN v % 256 ELSE IF i = 2 THEN v \div 256 ELSE 0]

RECURSIVE Concat(_)
Concat(ss) == IF ss = <<>> THEN <<>> ELSE Head(ss) \o Concat(Tail(ss))

Delimited(bytes) == appendVarint(Len(bytes)) \o bytes

Payload(k, v) ==
  CASE k \in VarintKinds -> appendVarint(ToWire(k, v))
    [] WireType(k) = 1 -> appendFixed(8, ToWire(k, v))
    [] k = "float" -> appendFixed(4, v)
    [] k = "bytes" -> Delimited(v)
    [] k = "packed32" -> Delimited(Concat([i \in DOMAIN v |-> appendFixed(4, v[i])]))
    [] OTHER -> Delimited(Concat([i \in DOMAIN v |-> appendFixed(8, v[i])]))

(* An empty packed array is omitted by the Writer itself.                  *)
Omitted(f, v) == /\ f.c = "ifset" \/ f.k \in {"packed32", "packed64"}
                 /\ IF f.k \in Blobs THEN v = <<>> ELSE v = 0

-----------------------------------------------------------------------------
(* Reader: every operation answers ok, the position it leaves the reader   *)
(* at, also when it fails, and the value.  Positions are 1-based; end is   *)
(* the last position of the (sub-)reader.                                  *)

Read(ok, pos, val) == [ok |-> ok, pos |-> pos, val |-> val]

MaxVarintBytes == 3

ASSUME VarintAssumption == Word = 2^(7 * (MaxVarintBytes - 1) + 1)

RECURSIVE readVarintFrom(_, _, _, _, _)
readVarintFrom(buf, pos, end, i, acc) ==
  IF pos > end \/ i = MaxVarintBytes THEN Read(FALSE, pos, acc)
  ELSE LET payload == buf[pos] % 128
       IN IF i = MaxVarintBytes - 1 /\ payload > 1 THEN Read(FALSE, pos + 1, acc)
          ELSE IF buf[pos] < 128 THEN Read(TRUE, pos + 1, acc + payload * 2^(7 * i))
          ELSE readVarintFrom(buf, pos + 1, end, i + 1, acc + payload * 2^(7 * i))

readVarint(buf, pos, end) == readVarintFrom(buf, pos, end, 0, 0)

readFixed(width, buf, pos, end) ==
  IF end - pos + 1 < width THEN Read(FALSE, pos, 0)
  ELSE Read(TRUE, pos + width, buf[pos] + 256 * buf[pos + 1])

(* readBytes leaves the reader behind the length when the length is too    *)
(* large; its value is the first position of the payload.                  *)
BytesAfter(len, end) ==
  IF ~len.ok \/ len.val > end - len.pos + 1 THEN Read(FALSE, len.pos, 0)
  ELSE Read(TRUE, len.pos + len.val, len.pos)

readBytes(buf, pos, end) == BytesAfter(readVarint(buf, pos, end), end)

skip(type, buf, pos, end) ==
  CASE type = 0 -> readVarint(buf, pos, end)
    [] type = 1 -> readFixed(8, buf, pos, end)
    [] type = 2 -> readBytes(buf, pos, end)
    [] type = 5 -> readFixed(4, buf, pos, end)
    [] OTHER -> Read(FALSE, pos, 0)

(* The packed payload of a delimited field, elements of the given width.   *)
(* A fixed-size array takes exactly "size" elements (0: any number).       *)
Elements(width, buf, b) ==
  [i \in 1..((b.pos - b.val) \div width) |-> readFixed(width, buf, b.val + (i - 1) * width, b.pos - 1).val]

PackedIn(b, width, size, buf) ==
  IF ~b.ok THEN b
  ELSE IF (b.pos - b.val) % width # 0 \/ (size # 0 /\ b.pos - b.val # size * width) THEN Read(FALSE, b.pos, <<>>)
  ELSE Read(TRUE, b.pos, Elements(width, buf, b))

readPacked(width, size, buf, pos, end) == PackedIn(readBytes(buf, pos, end), width, size, buf)

ArraySize == 2        \* elements of a fixed-size array (9 or 12 in the code)

readRaw(k, buf, pos, end) ==
  CASE WireType(k) = 0 -> readVarint(buf, pos, end)
    [] WireType(k) = 1 -> readFixed(8, buf, pos, end)
    [] k = "float" -> readFixed(4, buf, pos, end)
    [] k = "packed32" -> readPacked(4, 0, buf, pos, end)
    [] k = "packed64" -> readPacked(8, 0, buf, pos, end)
    [] k = "array" -> readPacked(8, ArraySize, buf, pos, end)
    [] OTHER -> readBytes(buf, pos, end)

Converted(k, buf, raw) ==
  CASE raw.ok /\ k = "bytes" -> Read(TRUE, raw.pos, SubSeq(buf, raw.val, raw.pos - 1))
    [] raw.ok /\ k \in Scalars -> Read(TRUE, raw.pos, FromWire(k, raw.val))
    [] OTHER -> raw

readScalarOrBlob(k, buf, pos, end) == Converted(k, buf, readRaw(k, buf, pos, end))

combineSecondsAndNanos(seconds, nanos) == Read(TimeFits(seconds, nanos), 0, Combined(seconds, nanos))
=============================================================================
