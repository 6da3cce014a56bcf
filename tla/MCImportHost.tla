---------------------------- MODULE MCImportHost ----------------------------
(***************************************************************************)
(* The small machines a host runs around an import, each on an instance of *)
(* its own: startImport() and its callback context, the promotion of a     *)
(* source with its settlement latch, the poller that carries Stop to a     *)
(* provider, a data source with its completion and its stream, and the     *)
(* strike tracker of the parser modules.  They share no state, so a        *)
(* behaviour runs one of them, chosen at the start, and leaves the others  *)
(* as they began.                                                          *)
(***************************************************************************)
EXTENDS StrikeTracker, DataSource

CONSTANTS Threads, MaxCalls,   \* DescriptorImport
          Requests,            \* SourcePromotion
          Pollers, Timed       \* StopPoller

VARIABLES
  machine,                                                                \* the one that runs
  main, slots, ctx, disabled, in_flight, thunk, which, ran, calls, finished,
  body, host, closure, frees, verdict, settled, ok, cancelled, answer,
  requested, locked, stopped, poller, notified, owner, cancels

importVars == <<main, slots, ctx, disabled, in_flight, thunk, which, ran, calls, finished>>
promotionVars == <<body, host, closure, frees, verdict, settled, ok, cancelled, answer>>
pollerVars == <<requested, locked, stopped, poller, notified, owner, cancels>>
allVars == <<machine, vars, importVars, promotionVars, pollerVars, sourceVars>>

Import == INSTANCE DescriptorImport
Promotion == INSTANCE SourcePromotion
Poller == INSTANCE StopPoller

ASSUME HostAssumption ==
  Import!ImportAssumption /\ Promotion!PromotionAssumption /\ Poller!PollerAssumption

MCInit ==
  /\ machine \in {"import", "promotion", "poller", "source", "strikes"}
  /\ kind \in IF machine = "source" THEN {"file", "stream"} ELSE {"file"}
  /\ Init /\ Import!Init /\ Promotion!Init /\ Poller!Init /\ Fresh

\* Everything but machine m's own state stays as it is.
Rest(m) ==
  /\ UNCHANGED machine
  /\ m # "import" => UNCHANGED importVars
  /\ m # "promotion" => UNCHANGED promotionVars
  /\ m # "poller" => UNCHANGED pollerVars
  /\ m # "source" => UNCHANGED sourceVars
  /\ m # "strikes" => UNCHANGED vars

MCNext ==
  \/ machine = "import" /\ Import!Next /\ Rest("import")
  \/ machine = "promotion" /\ Promotion!Next /\ Rest("promotion")
  \/ machine = "poller" /\ Poller!Next /\ Rest("poller")
  \/ machine = "source" /\ SourceNext /\ Rest("source")
  \/ machine = "strikes" /\ Next /\ Rest("strikes")

\* Each machine's own fairness.  A thread of a poller could move from the start, so
\* its fairness is asked only where the poller runs.
MCSpec ==
  /\ MCInit /\ [][MCNext]_allVars
  /\ Import!Fairness /\ Promotion!Fairness
  /\ \A p \in Pollers :
       /\ WF_pollerVars(machine = "poller" /\ Poller!Thread(p))
       /\ WF_pollerVars(machine = "poller" /\ Poller!StopAndJoin(p))
-----------------------------------------------------------------------------
(* The properties of the machines, stated in their modules; those of the   *)
(* strike tracker and of the data source keep their names.                 *)

\* startImport(): dispatch_state counts the dispatches exactly, and no thunk
\* touches a freed context.
ImportInv == Import!ImportInv

\* startImport(): after a failure or the job's end no closure runs, and the end
\* was told exactly once.
ClosuresEndWithJob == Import!ClosuresEndWithJob

\* startImport(), join() and the destructor return, for a job that cannot be
\* destroyed provided its callbacks cease.
HostReturns == Import!HostReturns

\* promoteSource(): the heap block of the closure is freed exactly once and the
\* thunk never runs on a freed one.
BlockInv == Promotion!BlockInv

\* The settlement latch: the first settle is final and beats a cancel.
FirstSettleWins == Promotion!FirstSettleWins

\* The settlement latch: cancel or settle releases the waiting provider.
WaitEnds == Promotion!WaitEnds

\* The stop poller: cancel runs at most once, because of Stop, and nothing runs
\* after stopAndJoin().
PollerInv == Poller!PollerInv

\* The stop poller: stopAndJoin() returns and Stop reaches the provider.
StopIsServed == Poller!StopIsServed
=============================================================================
