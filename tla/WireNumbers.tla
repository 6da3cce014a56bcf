---------------------------- MODULE WireNumbers -----------------------------
(***************************************************************************)
(* The numbers of the builtin objects on their way to the wire and back:   *)
(* the conversions of the codecs, and a time as seconds and nanoseconds    *)
(* (geometry_codec.hpp, time_math.hpp).  The words have any even size, a   *)
(* second any number of nanoseconds that fits the smaller one, signed.     *)
(***************************************************************************)
EXTENDS Integers

CONSTANTS
  Word,                     \* values of the 64-bit word
  Word32,                   \* values of the 32-bit word
  kNanosecondsPerSecond

ASSUME WordAssumption ==
  /\ Word \in Nat /\ Word32 \in Nat /\ kNanosecondsPerSecond \in Nat
  /\ Word % 2 = 0 /\ Word32 % 2 = 0
  /\ 16 =< Word32 /\ 0 < kNanosecondsPerSecond /\ 2 * kNanosecondsPerSecond =< Word32 /\ Word32 =< Word

MinTime == -(Word \div 2)
MaxTime == Word \div 2 - 1

-----------------------------------------------------------------------------
(* Enumerations.                                                           *)

(* The enumerators this release of the SDK declares; 0 is the default.     *)
Enumerators ==
  [line_type |-> 0..2, topology |-> 0..3, deletion_type |-> 0..1, marker_kind |-> 0..3, marker_status |-> 0..2,
   marker_severity |-> 0..3, log_level |-> 0..5, datatype |-> 0..8]

(* Two of them have a wire numbering of their own that starts at 1, the    *)
(* second in another order.  An enumerator that only a newer release has   *)
(* continues the numbering.                                                *)
lineTypeToWire(v) == v + 1
topologyToEnum(v) == IF v \in 1..3 THEN 5 - v ELSE v + 1

(* What a reader makes of any number: one it does not know is the default. *)
lineTypeFromWire(v) == IF v \in 2..3 THEN v - 1 ELSE 0
mapTopology(v) == IF v \in 2..4 THEN 5 - v ELSE 0
deletionType(v) == IF v = 1 THEN 1 ELSE 0
mapKind(v) == IF v \in 0..3 THEN v ELSE 0
mapStatus(v) == IF v \in 1..2 THEN v ELSE 0

(* A severity cast from the wire to its byte.                              *)
mapSeverity_cast(v) == v % 256

mapSeverity(v) == IF v \in 1..3 THEN v ELSE 0
levelFromWire(v) == IF v \in 1..5 THEN v ELSE 0
pointFieldDatatypeFromWire(v) == IF v \in 1..8 THEN v ELSE 0

-----------------------------------------------------------------------------
(* The value a writer puts on the wire for a member, and back: signed      *)
(* values through the unsigned word, a radius sent as a diameter.          *)
ToWire(k, v) == CASE k = "line_type" -> lineTypeToWire(v)
                  [] k = "topology" -> topologyToEnum(v)
                  [] k = "radius" -> v * 2
                  [] k = "i32" -> v % Word32
                  [] k = "word" -> v % Word
                  [] OTHER -> v

Signed(v, m) == IF v >= m \div 2 THEN v - m ELSE v

EnumFromWire(k, v) == CASE k = "line_type" -> lineTypeFromWire(v)
                        [] k = "topology" -> mapTopology(v)
                        [] k = "deletion_type" -> deletionType(v)
                        [] k = "marker_kind" -> mapKind(v)
                        [] k = "marker_status" -> mapStatus(v)
                        [] k = "marker_severity" -> mapSeverity(v)
                        [] k = "log_level" -> levelFromWire(v)
                        [] k = "datatype" -> pointFieldDatatypeFromWire(v)

(* A reader that takes the words as unsigned.                              *)
FromWire_unsigned(k, v) ==
  CASE k \in DOMAIN Enumerators -> EnumFromWire(k, v)
    [] k = "radius" -> v \div 2
    [] k \in {"u32", "i32"} -> v % Word32
    [] OTHER -> v

FromWire(k, v) == CASE k \in DOMAIN Enumerators -> EnumFromWire(k, v)
                    [] k = "radius" -> v \div 2
                    [] k = "u32" -> v % Word32
                    [] k = "i32" -> Signed(v % Word32, Word32)
                    [] k = "word" -> Signed(v, Word)
                    [] k = "bool" -> IF v # 0 THEN 1 ELSE 0
                    [] k = "byte" -> IF v > 255 THEN 255 ELSE v
                    [] OTHER -> v

-----------------------------------------------------------------------------
(* Times.                                                                  *)

(* Division as C++ has it, towards zero, and its remainder.                *)
Quotient(a, b) == IF a >= 0 THEN a \div b ELSE -((-a) \div b)
Remainder(a, b) == a - Quotient(a, b) * b

(* splitTimestamp: a negative remainder borrows from the seconds.          *)
splitTimestamp(ns) ==
  LET seconds == Quotient(ns, kNanosecondsPerSecond)
      nanos == Remainder(ns, kNanosecondsPerSecond)
  IN IF nanos < 0 THEN [seconds |-> seconds - 1, nanos |-> nanos + kNanosecondsPerSecond]
     ELSE [seconds |-> seconds, nanos |-> nanos]

(* combineSecondsAndNanos: negative seconds are rebased towards zero, and  *)
(* compared with the largest number of seconds that leaves room for nanos. *)
Rebased(seconds, nanos) ==
  IF seconds < 0 THEN [seconds |-> seconds + 1, nanos |-> nanos - kNanosecondsPerSecond]
  ELSE [seconds |-> seconds, nanos |-> nanos]

TimeFits(seconds, nanos) ==
  LET r == Rebased(seconds, nanos) IN
  /\ nanos \in 0..(kNanosecondsPerSecond - 1)
  /\ IF seconds < 0 THEN r.seconds >= Quotient(MinTime - r.nanos, kNanosecondsPerSecond)
                    ELSE r.seconds <= Quotient(MaxTime - r.nanos, kNanosecondsPerSecond)

Combined(seconds, nanos) ==
  LET r == Rebased(seconds, nanos) IN r.seconds * kNanosecondsPerSecond + r.nanos
=============================================================================
