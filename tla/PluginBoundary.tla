--------------------------- MODULE PluginBoundary ---------------------------
(***************************************************************************)
(* The contracts between a host and its plugins, one machine each: the     *)
(* service tables a plugin calls, who releases what crosses, lists that    *)
(* grow, the table deltas, events and trees of a dialog, the loading of    *)
(* plugin files and the functional parser calls.  The machines share no    *)
(* state; this module gives each its constants and its variables.          *)
(***************************************************************************)
EXTENDS HostTables

CONSTANTS MaxVersion,                                \* HostServices
          Holders, MaxMade,                          \* HostOwnership
          Callers, MaxLen,                           \* HostLists
          MaxRows, MaxSeq,                           \* TableDelta
          Paths,                                     \* DialogEvents
          Ids, MaxItems,                             \* TreeItems
          Libraries, Handles, MaxLoads, MaxInstances,    \* PluginLibraries
          Schemas, Types, SpliceTypes, MaxCalls      \* FunctionalParser

VARIABLES
  host, entries, view, call,
  made, holder, streams, store, freed,
  len, pc, caller, buffer, filled, total, result,
  base, ops, seq, delta, rows, table, applied, fresh,
  action, event, damage, outcome,
  items, visit_state, start, current, path, verdict,
  file, opened, closing, opens, lib, handle, pinned, anchors, instances, destroyed, landed,
  plugin, bound, expected, parse, anchor, answered

svcVars == <<host, entries, view, call>>
ownVars == <<made, holder, streams, store, freed>>
listVars == <<len, pc, caller, buffer, filled, total, result>>
deltaVars == <<base, ops, seq, delta, rows, table, applied, fresh>>
eventVars == <<action, event, damage, outcome>>
treeVars == <<items, visit_state, start, current, path, verdict>>
plugVars == <<file, opened, closing, opens, lib, handle, pinned, anchors, instances, destroyed, landed>>
parseVars == <<plugin, bound, expected, parse, anchor, answered>>

ServiceCalls == INSTANCE HostServices
Ownership == INSTANCE HostOwnership
Lists == INSTANCE HostLists
Tables == INSTANCE TableDelta
Events == INSTANCE DialogEvents
Trees == INSTANCE TreeItems
Plugins == INSTANCE PluginLibraries
Parsers == INSTANCE FunctionalParser

ASSUME BoundaryAssumption ==
  /\ ServiceCalls!VersionAssumption /\ Ownership!MadeAssumption /\ Lists!LenAssumption
  /\ Tables!RowsAssumption /\ Events!PathsAssumption /\ Trees!ItemsAssumption /\ Plugins!LoadsAssumption
-----------------------------------------------------------------------------
(* The properties of the machines, each stated in its module.              *)

\* The views of the host services: a call jumps only through a slot this host set,
\* and a write the host never saw is an error.
CallsAreServed == ServiceCalls!CallsAreServed

\* The RAII holders and the object store: every resource is released once.
ReleasedOnce == Ownership!ReleasedOnce

\* The two-call enumerations that clamp: every returned entry was written.
EntriesWereWritten == Lists!EntriesWereWritten

\* The table delta: once the host has read the document its table is the plugin's.
HostTableFollows == Tables!HostTableFollows

\* The widget events: an event reaches the callback of the action that made it.
EventsReachTheirHandler == Events!EventsReachTheirHandler

\* The tree items: a snapshot is accepted exactly when it is a forest.
VerdictIsRight == Trees!VerdictIsRight

\* The plugin libraries: every jump into a plugin lands on code the author filled,
\* and every open is closed by its last holder, a widget file never.
CodeOutlivesItsUsers == Plugins!CodeOutlivesItsUsers

\* The functional parser: success is exactly one record.
SuccessIsOneRecord == Parsers!SuccessIsOneRecord
=============================================================================
