--------------------------- MODULE SourcePromotion ---------------------------
(***************************************************************************)
(* A provider promotes a dataset to a file source and waits for the        *)
(* result: SourcePromotionHostView::promoteToFileSource() with its         *)
(* heap-allocated closure (pj_base/sdk/descriptor_import.hpp) and the      *)
(* SettlementLatch the closure settles (pj_base/src/source/provider_job).  *)
(*                                                                         *)
(* The host keeps the ABI's promise: it rejects a request and never calls  *)
(* back, or accepts it and calls back exactly once, on a thread of its     *)
(* own or re-entrantly, before or after promoteToFileSource() returns.     *)
(* Another party, such as a watchdog of the provider, may settle the latch *)
(* too, and the import may be cancelled at any time.                       *)
(***************************************************************************)
EXTENDS Naturals, FiniteSets

CONSTANTS Requests      \* promotions under way at the same time

PromotionAssumption == IsFiniteSet(Requests)

Verdicts == {"ok", "failed"}

VARIABLES
  body,        \* where the provider's thread is
  host,        \* what the host has done with the request
  closure,     \* the heap block: "none", "raw", "thunk", "freed"
  frees,       \* how often the block was freed
  verdict,     \* what the host, or the other party, settles with
  settled, ok, \* of the latch; ok is a verdict once settled
  cancelled,   \* what the waiter's cancelled() returns
  answer       \* what the provider concluded

vars == <<body, host, closure, frees, verdict, settled, ok, cancelled, answer>>

latch == <<settled, ok>>

TypeOK ==
  /\ body \in [Requests -> {"idle", "calling", "waiting", "asleep", "reading", "over"}]
  /\ host \in [Requests -> {"idle", "called", "accepted", "settling", "settled", "done", "rejected"}]
  /\ closure \in [Requests -> {"none", "raw", "thunk", "freed"}]
  /\ frees \in [Requests -> 0..1]
  /\ verdict \in [Requests -> Verdicts]
  /\ settled \in [Requests -> BOOLEAN] /\ ok \in [Requests -> Verdicts]
  /\ cancelled \in [Requests -> BOOLEAN]
  /\ answer \in [Requests -> Verdicts \cup {"none", "rejected", "cancelled"}]

Init ==
  /\ body = [r \in Requests |-> "idle"]
  /\ host = [r \in Requests |-> "idle"]
  /\ closure = [r \in Requests |-> "none"]
  /\ frees = [r \in Requests |-> 0]
  /\ verdict = [r \in Requests |-> "failed"]
  /\ settled = [r \in Requests |-> FALSE]
  /\ ok = [r \in Requests |-> "failed"]
  /\ cancelled = [r \in Requests |-> FALSE]
  /\ answer = [r \in Requests |-> "none"]

Goes(r, from, to) == body[r] = from /\ body' = [body EXCEPT ![r] = to]
Host(r, from, to) == host[r] = from /\ host' = [host EXCEPT ![r] = to]

\* The block of the closure is freed.
Free(r) ==
  /\ closure' = [closure EXCEPT ![r] = "freed"]
  /\ frees' = [frees EXCEPT ![r] = @ + 1]

-----------------------------------------------------------------------------
(* promoteToFileSource().                                                  *)

\* The block is made and released to the raw pointer before the host is called.
Promote(r) ==
  /\ Goes(r, "idle", "calling") /\ Host(r, "idle", "called")
  /\ closure' = [closure EXCEPT ![r] = "raw"]
  /\ UNCHANGED <<frees, verdict, latch, cancelled, answer>>

\* The host refuses: ownership is reclaimed and an error is returned.
Rejected(r) ==
  /\ Host(r, "called", "rejected") /\ Goes(r, "calling", "over")
  /\ Free(r)
  /\ answer' = [answer EXCEPT ![r] = "rejected"]
  /\ UNCHANGED <<verdict, latch, cancelled>>

\* Mutant: the block is freed when the call returns.
AcceptedFrees(r) ==
  /\ host[r] \in {"accepted", "settling", "settled", "done"}
  /\ Goes(r, "calling", "waiting")
  /\ Free(r)
  /\ UNCHANGED <<host, verdict, latch, cancelled, answer>>

\* The call returns with the request accepted; the block is the thunk's.
Accepted(r) ==
  /\ host[r] \in {"accepted", "settling", "settled", "done"}
  /\ Goes(r, "calling", "waiting")
  /\ UNCHANGED <<host, closure, frees, verdict, latch, cancelled, answer>>

-----------------------------------------------------------------------------
(* The host and resultThunk().                                             *)

HostAccepts(r) ==
  /\ Host(r, "called", "accepted")
  /\ UNCHANGED <<body, closure, frees, verdict, latch, cancelled, answer>>

\* The result is there: the thunk takes ownership of the block first.
ResultThunk(r, v) ==
  /\ Host(r, "accepted", "settling")
  /\ closure' = [closure EXCEPT ![r] = "thunk"]
  /\ verdict' = [verdict EXCEPT ![r] = v]
  /\ UNCHANGED <<body, frees, latch, cancelled, answer>>

\* Mutant: the last call wins.
SettleAgain(r, v) ==
  /\ settled' = [settled EXCEPT ![r] = TRUE]
  /\ ok' = [ok EXCEPT ![r] = v]

\* settle(): the first call wins.
Settle(r, v) ==
  /\ settled' = [settled EXCEPT ![r] = TRUE]
  /\ ok' = [ok EXCEPT ![r] = IF settled[r] THEN @ ELSE v]

\* The closure settles the latch ...
ClosureSettles(r) ==
  /\ Host(r, "settling", "settled")
  /\ Settle(r, verdict[r])
  /\ UNCHANGED <<body, closure, frees, verdict, cancelled, answer>>

\* ... and its block goes when the thunk returns.
ThunkReturns(r) ==
  /\ Host(r, "settled", "done")
  /\ Free(r)
  /\ UNCHANGED <<body, verdict, latch, cancelled, answer>>

\* Another callback settles the latch as failed while the provider waits.
OtherSettles(r) ==
  /\ body[r] \in {"waiting", "asleep", "reading"}
  /\ Settle(r, "failed")
  /\ UNCHANGED <<body, host, closure, frees, verdict, cancelled, answer>>

Cancel(r) ==
  /\ ~cancelled[r] /\ cancelled' = [cancelled EXCEPT ![r] = TRUE]
  /\ UNCHANGED <<body, host, closure, frees, verdict, latch, answer>>

-----------------------------------------------------------------------------
(* SettlementLatch::wait() and what the provider reads afterwards.         *)

\* Mutant: cancelled() is asked before settled_.
WaitCancelledFirst(r) ==
  /\ body[r] = "waiting"
  /\ body' = [body EXCEPT ![r] = IF cancelled[r] THEN "over"
                                 ELSE IF settled[r] THEN "reading" ELSE "asleep"]
  /\ answer' = [answer EXCEPT ![r] = IF cancelled[r] THEN "cancelled" ELSE @]
  /\ UNCHANGED <<host, closure, frees, verdict, latch, cancelled>>

\* One turn of the loop, under the latch's mutex.
Wait(r) ==
  /\ body[r] = "waiting"
  /\ \/ settled[r] /\ body' = [body EXCEPT ![r] = "reading"] /\ UNCHANGED answer
     \/ /\ ~settled[r] /\ cancelled[r]
        /\ body' = [body EXCEPT ![r] = "over"]
        /\ answer' = [answer EXCEPT ![r] = "cancelled"]
     \/ ~settled[r] /\ ~cancelled[r] /\ body' = [body EXCEPT ![r] = "asleep"] /\ UNCHANGED answer
  /\ UNCHANGED <<host, closure, frees, verdict, latch, cancelled>>

\* Mutant: without the poll only a settled latch wakes the waiter.
WakesIfSettled(r) ==
  /\ settled[r]
  /\ Goes(r, "asleep", "waiting")
  /\ UNCHANGED <<host, closure, frees, verdict, latch, cancelled, answer>>

\* wait_for() returns, notified or after the poll interval.
Wakes(r) ==
  /\ Goes(r, "asleep", "waiting")
  /\ UNCHANGED <<host, closure, frees, verdict, latch, cancelled, answer>>

\* ok() is a second acquisition of the mutex.
ReadsVerdict(r) ==
  /\ Goes(r, "reading", "over")
  /\ answer' = [answer EXCEPT ![r] = ok[r]]
  /\ UNCHANGED <<host, closure, frees, verdict, latch, cancelled>>

-----------------------------------------------------------------------------
Waiter(r) == Accepted(r) \/ Wait(r) \/ Wakes(r) \/ ReadsVerdict(r)
Result(r) == ClosureSettles(r) \/ ThunkReturns(r)

Finished ==
  /\ \A r \in Requests : body[r] = "over" /\ host[r] \in {"done", "rejected"}
  /\ UNCHANGED vars

Next ==
  \/ \E r \in Requests :
       \/ Promote(r) \/ Rejected(r) \/ HostAccepts(r)
       \/ \E v \in Verdicts : ResultThunk(r, v)
       \/ Result(r) \/ OtherSettles(r) \/ Cancel(r) \/ Waiter(r)
  \/ Finished

Spec == Init /\ [][Next]_vars

\* The provider's thread runs and a thunk that has begun ends.  The host may take
\* for ever to answer a request it has accepted.
Fairness == \A r \in Requests : WF_vars(Waiter(r)) /\ WF_vars(Result(r))

FairSpec == Spec /\ Fairness

-----------------------------------------------------------------------------
(* Properties.                                                             *)

\* The closure's block is freed exactly once, whether the request is rejected,
\* answered re-entrantly or answered long after the provider has gone.
FreedOnce ==
  \A r \in Requests :
    frees[r] = IF host[r] \in {"done", "rejected"} THEN 1 ELSE 0

\* The thunk runs on a block that is still there.
ThunkOwnsBlock ==
  \A r \in Requests : host[r] \in {"settling", "settled"} => closure[r] = "thunk"

\* The block of the closure has one owner until it is freed.
BlockInv == TypeOK /\ FreedOnce /\ ThunkOwnsBlock

\* What the latch is settled with never changes, so every reader sees the answer
\* of the settle that released the waiter.
VerdictStable ==
  [][\A r \in Requests : settled[r] => settled'[r] /\ ok'[r] = ok[r]]_vars

\* A settle that raced a cancel wins: an import never calls itself cancelled when
\* its latch was settled before the wait looked at it.
SettledWins ==
  [][\A r \in Requests :
       settled[r] /\ answer[r] = "none" => answer'[r] # "cancelled"]_vars

\* The first settle is the last word, for the latch and for who waits on it.
FirstSettleWins == VerdictStable /\ SettledWins

\* A cancelled provider stops waiting although the host never answers, and a
\* settled latch releases it.
WaitEnds ==
  \A r \in Requests :
    body[r] \in {"waiting", "asleep"} /\ (cancelled[r] \/ settled[r]) ~> body[r] = "over"
=============================================================================
