---------------------------- MODULE HostOwnership ---------------------------
(***************************************************************************)
(* Who releases what crosses the plugin/host boundary.  Catalog snapshots, *)
(* Arrow structs and object bytes are built by one side and released by    *)
(* the other through move-only holders; an Arrow stream changes owner only *)
(* if the append succeeds; a lazy fetch box is deleted by the view when    *)
(* the push fails but a message fetcher is released by the host even then. *)
(* Resources are numbered in the order they are built.                     *)
(***************************************************************************)
EXTENDS Naturals

CONSTANTS
  Holders,   \* the plugin's RAII holders
  MaxMade    \* bound: resources built in a behaviour

MadeAssumption == MaxMade \in Nat

VARIABLES
  made,      \* number of resources built so far
  holder,    \* holder[h]: the resource h will release, 0 when it is inert
  streams,   \* the resources that are Arrow streams built by the plugin
  store,     \* the lazy boxes and message fetchers the object store retains
  freed      \* freed[r]: how often the release callback of r ran

ownVars == <<made, holder, streams, store, freed>>

Resources == 1..MaxMade

Init ==
  /\ made = 0
  /\ holder = [h \in Holders |-> 0]
  /\ streams = {}
  /\ store = {}
  /\ freed = [r \in Resources |-> 0]

Build == made < MaxMade /\ made' = made + 1
Released(r) == IF r = 0 THEN freed ELSE [freed EXCEPT ![r] = @ + 1]

(* catalogSnapshot, catalogSnapshotV2, readSeries, readLatestAt: the host  *)
(* fills a struct, the view wraps it and the result is moved into h, which *)
(* first releases what it held.                                            *)
Acquire(h) ==
  /\ Build
  /\ holder' = [holder EXCEPT ![h] = made']
  /\ freed' = Released(holder[h])
  /\ UNCHANGED <<streams, store>>

(* catalogSnapshotV2 with a complete but malformed reply: the snapshot     *)
(* owns it before the defect is found, so leaving the function releases it.*)
(* An undersized reply is refused unread: it covers no release pair, so    *)
(* nothing that could be released has come into being.                     *)
AcquireMalformed ==
  /\ Build
  /\ freed' = Released(made')
  /\ UNCHANGED <<holder, streams, store>>

(* storeCatalogSnapshotV2 with a NULL or undersized out struct: the host   *)
(* releases what it had filled and the caller gets an error.               *)
StoreRefused ==
  /\ Build
  /\ freed' = Released(made')
  /\ UNCHANGED <<holder, streams, store>>

(* ArrowStreamHolder over a stream the plugin built.                       *)
BuildStream(h) ==
  /\ holder[h] = 0
  /\ Build
  /\ holder' = [holder EXCEPT ![h] = made']
  /\ streams' = streams \cup {made'}
  /\ UNCHANGED <<store, freed>>

(* Move assignment of a holder: the target is reset first, a self-move is  *)
(* skipped.                                                                *)
MoveHolder(g, h) ==
  /\ g # h
  /\ freed' = Released(holder[h])
  /\ holder' = [holder EXCEPT ![h] = holder[g], ![g] = 0]
  /\ UNCHANGED <<made, streams, store>>

ResetHolder(h) ==
  /\ freed' = Released(holder[h])
  /\ holder' = [holder EXCEPT ![h] = 0]
  /\ UNCHANGED <<made, streams, store>>

(* An append that leaves the holder armed.                                 *)
AppendStream_armed(h) ==
  /\ holder[h] \in streams
  /\ freed' = Released(holder[h])
  /\ UNCHANGED <<made, holder, streams, store>>

(* appendArrowStream(ArrowStreamHolder&&): on success the host has pulled  *)
(* every batch and released the stream, and the holder is disarmed.        *)
AppendStream(h) ==
  /\ holder[h] \in streams
  /\ freed' = Released(holder[h])
  /\ holder' = [holder EXCEPT ![h] = 0]
  /\ UNCHANGED <<made, streams, store>>

(* The slot is absent or the host returns false: nothing changed hands.    *)
AppendStreamFailed(h) ==
  /\ holder[h] \in streams
  /\ UNCHANGED ownVars

(* pushLazy: the view allocates the box and, if the push fails, deletes it.*)
PushLazy ==
  /\ Build
  /\ store' = store \cup {made'}
  /\ UNCHANGED <<holder, streams, freed>>

PushLazyFailed ==
  /\ Build
  /\ freed' = Released(made')
  /\ UNCHANGED <<holder, streams, store>>

(* pushMessage: the view allocates the fetcher and never deletes it.  The  *)
(* host keeps it for a lazy entry, or releases it: after the fetch of an   *)
(* eager ingest, and when the call fails.                                  *)
PushMessage ==
  /\ Build
  /\ \/ store' = store \cup {made'} /\ UNCHANGED freed
     \/ freed' = Released(made') /\ UNCHANGED store
  /\ UNCHANGED <<holder, streams>>

(* Eviction: the store runs fetch_ctx_destroy / release.                   *)
Evict(r) ==
  /\ r \in store
  /\ store' = store \ {r}
  /\ freed' = Released(r)
  /\ UNCHANGED <<made, holder, streams>>

Next ==
  \/ \E h \in Holders : \/ Acquire(h) \/ BuildStream(h) \/ ResetHolder(h)
                        \/ AppendStream(h) \/ AppendStreamFailed(h)
                        \/ \E g \in Holders : MoveHolder(g, h)
  \/ AcquireMalformed \/ StoreRefused
  \/ PushLazy \/ PushLazyFailed \/ PushMessage
  \/ \E r \in Resources : Evict(r)

Spec == Init /\ [][Next]_ownVars
-----------------------------------------------------------------------------
(* What still answers for resource r.                                      *)
Keepers(r) == {h \in Holders : holder[h] = r} \cup (IF r \in store THEN {"store"} ELSE {})

(* Every resource built on either side of the boundary has one owner until *)
(* its release callback runs, and the callback runs once: nothing is       *)
(* released twice, leaked by an early return, or kept by a holder or the   *)
(* store after its release.                                                *)
ReleasedOnce ==
  \A r \in 1..made :
    \/ freed[r] = 1 /\ Keepers(r) = {}
    \/ freed[r] = 0 /\ \E k \in Keepers(r) : Keepers(r) = {k}

=============================================================================
