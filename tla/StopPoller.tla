----------------------------- MODULE StopPoller -----------------------------
(***************************************************************************)
(* StopPoller (pj_base/sdk/source/stop_bridge): a thread that polls the    *)
(* host's Stop and cancels a provider when it is pressed, and the owner    *)
(* that stops the thread before it releases the ingest context both        *)
(* callbacks use.                                                          *)
(*                                                                         *)
(* One Stop is watched by several pollers, each with its own owner.  The   *)
(* condition variable is explicit: evaluating the predicate and going to   *)
(* sleep are two steps, so that a wake-up could be lost.                   *)
(***************************************************************************)
EXTENDS Naturals, FiniteSets

CONSTANTS
  Pollers,       \* the pollers of a batch
  Timed          \* those whose period ends; the others' outlasts all that is observed

PollerAssumption == IsFiniteSet(Pollers) /\ Timed \subseteq Pollers

VARIABLES
  requested,   \* the host's Stop
  locked,      \* the poller's thread holds mutex_
  stopped,     \* stopped_
  poller,      \* where the poller's thread is
  notified,    \* the sleeping thread has been notified
  owner,       \* where the owner is
  cancels      \* how often the cancel action was run

vars == <<requested, locked, stopped, poller, notified, owner, cancels>>

PollerStates == {"start", "top", "check", "act", "relock", "predicate", "parking",
                 "asleep", "exited"}
OwnerStates  == {"live", "notifying", "joining", "joined", "released"}

TypeOK ==
  /\ requested \in BOOLEAN
  /\ locked \in [Pollers -> BOOLEAN]
  /\ stopped \in [Pollers -> BOOLEAN]
  /\ poller \in [Pollers -> PollerStates]
  /\ notified \in [Pollers -> BOOLEAN]
  /\ owner \in [Pollers -> OwnerStates]
  /\ cancels \in [Pollers -> 0..1]

\* The constructor has started the thread.
Init ==
  /\ requested = FALSE
  /\ locked = [p \in Pollers |-> FALSE]
  /\ stopped = [p \in Pollers |-> FALSE]
  /\ poller = [p \in Pollers |-> "start"]
  /\ notified = [p \in Pollers |-> FALSE]
  /\ owner = [p \in Pollers |-> "live"]
  /\ cancels = [p \in Pollers |-> 0]

\* The user presses Stop.
RequestStop ==
  /\ ~requested /\ requested' = TRUE
  /\ UNCHANGED <<locked, stopped, poller, notified, owner, cancels>>

-----------------------------------------------------------------------------
(* The thread.                                                             *)

PollerGoes(p, from, to, holds) ==
  /\ poller[p] = from /\ poller' = [poller EXCEPT ![p] = to]
  /\ locked' = [locked EXCEPT ![p] = holds]

\* The first thing the thread does is to take the mutex.
Begin(p) ==
  /\ PollerGoes(p, "start", "top", TRUE)
  /\ UNCHANGED <<requested, stopped, notified, owner, cancels>>

\* Mutant: the loop does not end.
TopForever(p) ==
  /\ PollerGoes(p, "top", "check", FALSE)
  /\ UNCHANGED <<requested, stopped, notified, owner, cancels>>

\* The loop's condition; the mutex is released either way.
Top(p) ==
  /\ PollerGoes(p, "top", IF stopped[p] THEN "exited" ELSE "check", FALSE)
  /\ UNCHANGED <<requested, stopped, notified, owner, cancels>>

\* check(), without the mutex.
Check(p) ==
  /\ PollerGoes(p, "check", IF requested THEN "act" ELSE "relock", FALSE)
  /\ UNCHANGED <<requested, stopped, notified, owner, cancels>>

\* Mutant: the thread keeps polling after it has cancelled.
ActAgain(p) ==
  /\ PollerGoes(p, "act", "relock", FALSE)
  /\ cancels' = [cancels EXCEPT ![p] = IF @ < 2 THEN @ + 1 ELSE @]
  /\ UNCHANGED <<requested, stopped, notified, owner>>

\* action(), and the thread is done.
Act(p) ==
  /\ PollerGoes(p, "act", "exited", FALSE)
  /\ cancels' = [cancels EXCEPT ![p] = @ + 1]
  /\ UNCHANGED <<requested, stopped, notified, owner>>

Relock(p) ==
  /\ PollerGoes(p, "relock", "predicate", TRUE)
  /\ UNCHANGED <<requested, stopped, notified, owner, cancels>>

\* wait_for(): a predicate that holds ends the wait ...
Predicate(p) ==
  /\ PollerGoes(p, "predicate", IF stopped[p] THEN "top" ELSE "parking", TRUE)
  /\ UNCHANGED <<requested, stopped, notified, owner, cancels>>

\* ... and otherwise the mutex is released and the thread sleeps, in one step.
Park(p) ==
  /\ PollerGoes(p, "parking", "asleep", FALSE)
  /\ notified' = [notified EXCEPT ![p] = FALSE]
  /\ UNCHANGED <<requested, stopped, owner, cancels>>

\* A notification leads back to the predicate.
Wake(p) ==
  /\ notified[p]
  /\ PollerGoes(p, "asleep", "predicate", TRUE)
  /\ UNCHANGED <<requested, stopped, notified, owner, cancels>>

\* Mutant: the period is waited for once only.
TimeoutExits(p) ==
  /\ p \in Timed
  /\ PollerGoes(p, "asleep", "exited", FALSE)
  /\ UNCHANGED <<requested, stopped, notified, owner, cancels>>

\* The period has passed: wait_for() returns to the loop.
Timeout(p) ==
  /\ p \in Timed
  /\ PollerGoes(p, "asleep", "top", TRUE)
  /\ UNCHANGED <<requested, stopped, notified, owner, cancels>>

-----------------------------------------------------------------------------
(* stopAndJoin(), once; a second call finds nothing to join.               *)

Stop(p) ==
  /\ owner[p] = "live" /\ ~locked[p]
  /\ owner' = [owner EXCEPT ![p] = "notifying"]
  /\ stopped' = [stopped EXCEPT ![p] = TRUE]
  /\ UNCHANGED <<requested, locked, poller, notified, cancels>>

\* notify_all() reaches a thread that sleeps.
Notify(p) ==
  /\ owner[p] = "notifying" /\ owner' = [owner EXCEPT ![p] = "joining"]
  /\ notified' = [notified EXCEPT ![p] = poller[p] = "asleep"]
  /\ UNCHANGED <<requested, locked, stopped, poller, cancels>>

\* Mutant: the thread is detached instead of joined.
JoinDetached(p) ==
  /\ owner[p] = "joining" /\ owner' = [owner EXCEPT ![p] = "joined"]
  /\ UNCHANGED <<requested, locked, stopped, poller, notified, cancels>>

Join(p) ==
  /\ owner[p] = "joining" /\ poller[p] = "exited"
  /\ owner' = [owner EXCEPT ![p] = "joined"]
  /\ UNCHANGED <<requested, locked, stopped, poller, notified, cancels>>

\* The owner releases the context that the two actions use.
Release(p) ==
  /\ owner[p] = "joined" /\ owner' = [owner EXCEPT ![p] = "released"]
  /\ UNCHANGED <<requested, locked, stopped, poller, notified, cancels>>

-----------------------------------------------------------------------------
Thread(p) ==
  \/ Begin(p) \/ Top(p) \/ Check(p) \/ Act(p) \/ Relock(p)
  \/ Predicate(p) \/ Park(p) \/ Wake(p) \/ Timeout(p)

StopAndJoin(p) == Notify(p) \/ Join(p)

Finished == (\A p \in Pollers : owner[p] = "released") /\ UNCHANGED vars

Next ==
  \/ RequestStop
  \/ \E p \in Pollers : Thread(p) \/ Stop(p) \/ StopAndJoin(p) \/ Release(p)
  \/ Finished

Spec == Init /\ [][Next]_vars

\* The thread is scheduled, its timer fires when its period ends, and an owner that has
\* begun to stop goes on.  Nobody has to press Stop or to stop a poller.
Fairness == \A p \in Pollers : WF_vars(Thread(p)) /\ WF_vars(StopAndJoin(p))

FairSpec == Spec /\ Fairness

-----------------------------------------------------------------------------
(* Properties.                                                             *)

\* Neither action runs, nor does the thread touch the poller, once the owner has
\* released the context (stopAndJoin() before the release).
NothingAfterRelease ==
  \A p \in Pollers : owner[p] \in {"joined", "released"} => poller[p] = "exited"

\* cancel is invoked once, and only because Stop was pressed.
CancelsOnce ==
  \A p \in Pollers : cancels[p] =< (IF requested THEN 1 ELSE 0)

\* Both, and the type of the state.
PollerInv == TypeOK /\ CancelsOnce /\ NothingAfterRelease

\* stopAndJoin() wakes the timed wait: it returns although no timer ever fires.
JoinReturns ==
  \A p \in Pollers : owner[p] = "notifying" ~> owner[p] = "joined"

\* Stop reaches every provider whose poller polls and is not being stopped anyway.
StopReachesProvider ==
  \A p \in Timed : requested ~> (cancels[p] = 1 \/ stopped[p])

\* Nobody waits for ever on a poller: not the owner that stops it, not the user who
\* pressed Stop.
StopIsServed == JoinReturns /\ StopReachesProvider
=============================================================================
