------------------------------ MODULE HostLists -----------------------------
(***************************************************************************)
(* Count-then-fill enumeration across the boundary.  A list slot writes at *)
(* most "capacity" entries and reports the total; the views ask for the    *)
(* count, size a buffer and ask again.  The host's list changes under      *)
(* them: topics are registered from stream threads between the two calls.  *)
(***************************************************************************)
EXTENDS Naturals, FiniteSetsExt

CONSTANTS
  Callers,   \* the views that enumerate, a subset of the ones below
  MaxLen     \* bound: entries in the host's list

LenAssumption == MaxLen \in Nat

ViewMethods == {"listBorrowedStrings", "collectResolvedTopics", "DataProcessorsHostView::list", "listTopics"}

VARIABLES
  len,     \* the entries the host has now
  pc,      \* where the running method is: "idle", "counted", "filled" (a call filled the buffer), "again"
  caller,  \* the method that runs
  buffer,  \* the size of its buffer
  filled,  \* the entries of the buffer the host has written
  total,   \* the count the last call of the slot reported
  result   \* what the last method returned: an error, or a list and how many of its entries were written

listVars == <<len, pc, caller, buffer, filled, total, result>>

Failed == [kind |-> "error", size |-> 0, written |-> 0]
Listed(size, written) == [kind |-> "list", size |-> size, written |-> Min({size, written})]

Fresh ==
  /\ pc = "idle"
  /\ buffer = 0
  /\ filled = 0
  /\ total = 0
  /\ result = Failed

Init == len \in 0..MaxLen /\ caller \in Callers /\ Fresh

(* Another thread changes the host's list.                                 *)
HostChanges ==
  /\ len' \in 0..MaxLen \ {len}
  /\ UNCHANGED <<pc, caller, buffer, filled, total, result>>

(* The first call asks for the count only.                                 *)
Count(m) ==
  /\ pc = "idle"
  /\ m # "collectResolvedTopics"
  /\ caller' = m /\ pc' = "counted"
  /\ total' = len /\ buffer' = len /\ filled' = 0
  /\ UNCHANGED <<len, result>>

(* The second call writes min(capacity, length) entries and reports the    *)
(* length, which may by now exceed the capacity.  An empty list needs none.*)
Fill ==
  /\ pc = "counted"
  /\ pc' = "filled"
  /\ IF buffer = 0 THEN UNCHANGED <<filled, total>>
                   ELSE filled' = Min({buffer, len}) /\ total' = len
  /\ UNCHANGED <<len, caller, buffer, result>>

(* collectResolvedTopics: the upsert fills a buffer sized to the declared  *)
(* outputs (8 when there are none).                                        *)
Upsert(declared) ==
  /\ pc = "idle"
  /\ "collectResolvedTopics" \in Callers
  /\ caller' = "collectResolvedTopics" /\ pc' = "again"
  /\ buffer' = IF declared = 0 THEN 8 ELSE declared
  /\ filled' = Min({buffer', len}) /\ total' = len
  /\ UNCHANGED <<len, result>>

(* The host resolved more than that: one more upsert, into a larger buffer.*)
Reissue ==
  /\ pc = "again"
  /\ pc' = "filled"
  /\ IF total > buffer
       THEN buffer' = total /\ filled' = Min({total, len}) /\ total' = len
       ELSE UNCHANGED <<buffer, filled, total>>
  /\ UNCHANGED <<len, caller, result>>

(* A listBorrowedStrings that does not notice that the list grew.          *)
Answer_grown == Listed(total, filled)

(* What each method makes of the buffer: listBorrowedStrings refuses a     *)
(* list that grew, collectResolvedTopics copies what fits, list() copies   *)
(* "filled" entries unchecked, listTopics resizes its vector to the total. *)
Answer ==
  CASE caller = "listBorrowedStrings"   -> IF total > buffer THEN Failed ELSE Listed(total, filled)
    [] caller = "collectResolvedTopics" -> Listed(Min({total, buffer}), filled)
    [] OTHER                            -> Listed(total, filled)

Return ==
  /\ pc = "filled"
  /\ pc' = "idle"
  /\ result' = Answer
  /\ buffer' = 0 /\ filled' = 0 /\ total' = 0
  /\ UNCHANGED <<len, caller>>

(* A call of the slot returned false.                                      *)
SlotFails ==
  /\ pc \in {"counted", "again"}
  /\ pc' = "idle"
  /\ result' = Failed
  /\ buffer' = 0 /\ filled' = 0 /\ total' = 0
  /\ UNCHANGED <<len, caller>>

Next ==
  \/ HostChanges
  \/ SlotFails
  \/ \E m \in Callers : Count(m)
  \/ Fill
  \/ \E declared \in 0..MaxLen : Upsert(declared)
  \/ Reissue
  \/ Return

Spec == Init /\ [][Next]_listVars
-----------------------------------------------------------------------------
(* "On success the first min(capacity, *out_count) entries are filled"     *)
(* (plugin_data_api.h:1265): every entry of a list a method returns was    *)
(* written by the host in the call that filled the buffer, also when the   *)
(* list grew in between.                                                   *)
EntriesWereWritten == result.kind = "list" => result.written = result.size

=============================================================================
