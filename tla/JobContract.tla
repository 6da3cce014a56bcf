---------------------------- MODULE JobContract ----------------------------
(***************************************************************************)
(* What the descriptor-import ABI promises the host about a joinable job   *)
(* and its two callbacks (descriptor_import_protocol.h): the abstract      *)
(* specification that ProviderJob implements.                              *)
(***************************************************************************)
CONSTANT Callers   \* the host threads that may wait for the job

VARIABLES
  handle,    \* "none", "live", "freed": the PJ_joinable_job_t
  dataset,   \* "no", "in", "over": on_dataset
  terminal,  \* "no", "in", "over": on_terminal
  waiting    \* the threads inside join() or the join of destroy()

vars == <<handle, dataset, terminal, waiting>>

Init ==
  /\ handle = "none"
  /\ dataset = "no"
  /\ terminal = "no"
  /\ waiting = {}

StartImport ==
  /\ handle = "none" /\ handle' = "live"
  /\ UNCHANGED <<dataset, terminal, waiting>>

\* Zero or one call, and before on_terminal.
OnDataset ==
  /\ handle = "live" /\ terminal = "no"
  /\ dataset = "no" /\ dataset' = "in"
  /\ UNCHANGED <<handle, terminal, waiting>>

OnDatasetReturns ==
  /\ dataset = "in" /\ dataset' = "over"
  /\ UNCHANGED <<handle, terminal, waiting>>

\* Exactly once and last; the callbacks are serialized.
OnTerminal ==
  /\ handle = "live" /\ dataset # "in"
  /\ terminal = "no" /\ terminal' = "in"
  /\ UNCHANGED <<handle, dataset, waiting>>

OnTerminalReturns ==
  /\ terminal = "in" /\ terminal' = "over"
  /\ UNCHANGED <<handle, dataset, waiting>>

Join(t) ==
  /\ handle = "live" /\ t \notin waiting
  /\ waiting' = waiting \cup {t}
  /\ UNCHANGED <<handle, dataset, terminal>>

\* Returns after all callbacks, on_terminal included, have returned.
JoinReturns(t) ==
  /\ terminal = "over" /\ t \in waiting
  /\ waiting' = waiting \ {t}
  /\ UNCHANGED <<handle, dataset, terminal>>

Destroy ==
  /\ handle = "live" /\ terminal = "over" /\ waiting = {}
  /\ handle' = "freed"
  /\ UNCHANGED <<dataset, terminal, waiting>>

Next ==
  \/ StartImport
  \/ OnDataset \/ OnDatasetReturns
  \/ OnTerminal \/ OnTerminalReturns
  \/ \E t \in Callers : Join(t) \/ JoinReturns(t)
  \/ Destroy

Spec == Init /\ [][Next]_vars
=============================================================================
