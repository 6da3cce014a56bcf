-------------------------- MODULE DescriptorImport --------------------------
(***************************************************************************)
(* The host side of an import (pj_base/sdk/descriptor_import.hpp):         *)
(* startImport() of DescriptorImportProviderView, the RAII JoinableJob and *)
(* the callback context that both thunks dispatch through.                 *)
(*                                                                         *)
(* The provider is whatever sits behind the ABI.  One that hands back a    *)
(* job with a destroy slot keeps the contract of JobContract: serialized   *)
(* callbacks, on_terminal once and last, destroy() after it.  One whose    *)
(* job cannot be destroyed has broken the ABI already: its threads call    *)
(* either callback whenever they like, also long after the error return.   *)
(* Only the calls before dispatch is disabled are counted and bounded; the *)
(* ones after it are refused and may go on for ever.                       *)
(***************************************************************************)
EXTENDS Naturals, FiniteSets

CONSTANTS
  Threads,    \* the provider's callback threads
  MaxCalls    \* bound: calls a provider without a destroy slot makes before it is silenced

ImportAssumption == IsFiniteSet(Threads) /\ MaxCalls \in Nat

Slots     == {"cancel", "join", "destroy"}
Callbacks == {"dataset", "terminal"}

VARIABLES
  main,        \* where the host's thread is in startImport() or in the life of the job
  slots,       \* the usable slots of the job's vtable; {} also for no vtable at all
  ctx,         \* the CallbackContext: "none", "live", "freed", "leaked"
  disabled, in_flight,   \* the two parts of dispatch_state, one atomic word
  thunk, which,          \* where a provider thread is in which thunk
  ran,         \* ran[k]: how often the closure of callback k was entered
  calls,       \* callbacks such a provider has made before dispatch was disabled
  finished     \* the callbacks a contract-keeping provider is done with

vars == <<main, slots, ctx, disabled, in_flight, thunk, which, ran, calls, finished>>

dispatch == <<disabled, in_flight, thunk, which, ran, calls, finished>>

MainStates  == {"idle", "starting", "checking", "rejecting", "quiescing", "refused",
                "failed", "owner", "joining", "resetting", "over"}
ThunkStates == {"out", "called", "refused", "closure", "leaving"}

TypeOK ==
  /\ main \in MainStates
  /\ slots \subseteq Slots
  /\ ctx \in {"none", "live", "freed", "leaked"}
  /\ disabled \in BOOLEAN
  /\ in_flight \in Nat
  /\ thunk \in [Threads -> ThunkStates]
  /\ which \in [Threads -> Callbacks]
  /\ ran \in [Callbacks -> Nat]
  /\ calls \in 0..MaxCalls
  /\ finished \subseteq Callbacks

Init ==
  /\ main = "idle" /\ slots = {} /\ ctx = "none"
  /\ disabled = FALSE /\ in_flight = 0
  /\ thunk = [c \in Threads |-> "out"]
  /\ which = [c \in Threads |-> "dataset"]
  /\ ran = [k \in Callbacks |-> 0]
  /\ calls = 0
  /\ finished = {}

-----------------------------------------------------------------------------
(* startImport().                                                          *)

Start ==
  /\ main = "idle" /\ main' = "starting"
  /\ ctx' = "live"
  /\ UNCHANGED <<slots, dispatch>>

\* The ABI call returns false: no callbacks, and the context goes.
StartRefused ==
  /\ main = "starting" /\ main' = "refused"
  /\ ctx' = "freed"
  /\ UNCHANGED <<slots, dispatch>>

\* The ABI call returns true with some job.  The provider may call back from now on.
StartAccepted ==
  /\ main = "starting" /\ main' = "checking"
  /\ slots' \in SUBSET Slots
  /\ UNCHANGED <<ctx, dispatch>>

\* Mutant: dispatch is disabled before the job is looked at.
CheckJobDisables ==
  /\ main = "checking" /\ disabled' = TRUE
  /\ main' = IF slots = Slots THEN "owner"
             ELSE IF "destroy" \in slots THEN "rejecting" ELSE "quiescing"
  /\ UNCHANGED <<slots, ctx, in_flight, thunk, which, ran, calls, finished>>

\* All three slots make a job.  With destroy alone the job is destroyed at once;
\* without it the context is disabled.
CheckJob ==
  /\ main = "checking"
  /\ \/ slots = Slots /\ main' = "owner" /\ UNCHANGED disabled
     \/ slots # Slots /\ "destroy" \in slots /\ main' = "rejecting" /\ UNCHANGED disabled
     \/ "destroy" \notin slots /\ main' = "quiescing" /\ disabled' = TRUE
  /\ UNCHANGED <<slots, ctx, in_flight, thunk, which, ran, calls, finished>>

\* What the ABI promises of destroy(): it returns when on_terminal has returned.
JobOver == "terminal" \in finished /\ \A c \in Threads : thunk[c] = "out"

RejectDestroyed ==
  /\ main = "rejecting" /\ JobOver
  /\ main' = "failed" /\ ctx' = "freed"
  /\ UNCHANGED <<slots, dispatch>>

\* Mutant: the context is disabled, but nobody waits for what is in flight.
QuiescedAtOnce ==
  /\ main = "quiescing"
  /\ main' = "failed" /\ ctx' = "leaked"
  /\ UNCHANGED <<slots, dispatch>>

\* Mutant: the loop compares the whole word with zero, the disabled bit included.
QuiescedWholeWord ==
  /\ main = "quiescing"
  /\ IF in_flight = 0 /\ ~disabled
     THEN main' = "failed" /\ ctx' = "leaked" /\ UNCHANGED <<slots, dispatch>>
     ELSE UNCHANGED vars

\* The wait of quiesce() sees the count at zero; the context is leaked.
Quiesced ==
  /\ main = "quiescing" /\ in_flight = 0
  /\ main' = "failed" /\ ctx' = "leaked"
  /\ UNCHANGED <<slots, dispatch>>

-----------------------------------------------------------------------------
(* JoinableJob.                                                            *)

Join ==
  /\ main = "owner" /\ main' = "joining"
  /\ UNCHANGED <<slots, ctx, dispatch>>

JoinReturns ==
  /\ main = "joining" /\ JobOver
  /\ main' = "owner"
  /\ UNCHANGED <<slots, ctx, dispatch>>

\* Mutant: the closures go before the job.
ResetFreesFirst ==
  /\ main = "owner" /\ main' = "resetting"
  /\ ctx' = "freed"
  /\ UNCHANGED <<slots, dispatch>>

\* reset(), by the destructor or a move assignment, destroys the job first ...
Reset ==
  /\ main = "owner" /\ main' = "resetting"
  /\ UNCHANGED <<slots, ctx, dispatch>>

\* ... and releases the closures when destroy() has returned.
ResetDestroyed ==
  /\ main = "resetting" /\ JobOver
  /\ main' = "over" /\ ctx' = "freed"
  /\ UNCHANGED <<slots, dispatch>>

-----------------------------------------------------------------------------
(* The provider's threads and the thunks.                                  *)

\* A provider with a destroy slot: one callback at a time, each at most once,
\* on_terminal last.
KeepsContract(k) ==
  /\ \A c \in Threads : thunk[c] = "out"
  /\ k \notin finished /\ "terminal" \notin finished

\* The provider calls on_dataset or on_terminal.
Callback(c, k) ==
  /\ main \notin {"idle", "starting", "refused"} /\ thunk[c] = "out"
  /\ \/ "destroy" \in slots /\ KeepsContract(k) /\ UNCHANGED calls
     \/ "destroy" \notin slots /\ ~disabled /\ calls < MaxCalls /\ calls' = calls + 1
     \/ "destroy" \notin slots /\ disabled /\ UNCHANGED calls
  /\ thunk' = [thunk EXCEPT ![c] = "called"]
  /\ which' = [which EXCEPT ![c] = k]
  /\ UNCHANGED <<main, slots, ctx, disabled, in_flight, ran, finished>>

\* fetch_add counts the dispatch and returns the disabled bit in one step.
ThunkEnter(c) ==
  /\ thunk[c] = "called"
  /\ in_flight' = in_flight + 1
  /\ thunk' = [thunk EXCEPT ![c] = IF disabled THEN "refused" ELSE "closure"]
  /\ ran' = [ran EXCEPT ![which[c]] = IF disabled THEN @ ELSE @ + 1]
  /\ UNCHANGED <<main, slots, ctx, disabled, which, calls, finished>>

\* The closure returns, or throws, which the thunk swallows.
ClosureReturns(c) ==
  /\ thunk[c] = "closure"
  /\ thunk' = [thunk EXCEPT ![c] = "leaving"]
  /\ UNCHANGED <<main, slots, ctx, disabled, in_flight, which, ran, calls, finished>>

\* Mutant: backing out keeps the count.
ThunkLeaveCounted(c) ==
  /\ thunk[c] \in {"leaving", "refused"}
  /\ in_flight' = IF thunk[c] = "refused" THEN in_flight ELSE in_flight - 1
  /\ thunk' = [thunk EXCEPT ![c] = "out"]
  /\ finished' = finished \cup {which[c]}
  /\ UNCHANGED <<main, slots, ctx, disabled, which, ran, calls>>

\* fetch_sub, after the closure or to back out.
ThunkLeave(c) ==
  /\ thunk[c] \in {"leaving", "refused"}
  /\ in_flight' = in_flight - 1
  /\ thunk' = [thunk EXCEPT ![c] = "out"]
  /\ finished' = finished \cup {which[c]}
  /\ UNCHANGED <<main, slots, ctx, disabled, which, ran, calls>>

-----------------------------------------------------------------------------
Thunk(c) == ThunkEnter(c) \/ ClosureReturns(c) \/ ThunkLeave(c)

Finished == main \in {"refused", "failed", "over"} /\ (\A c \in Threads : thunk[c] = "out") /\ UNCHANGED vars

Next ==
  \/ Start \/ StartRefused \/ StartAccepted \/ CheckJob \/ RejectDestroyed \/ Quiesced
  \/ Join \/ JoinReturns \/ Reset \/ ResetDestroyed
  \/ \E c \in Threads : Thunk(c) \/ \E k \in Callbacks : Callback(c, k)
  \/ Finished

Spec == Init /\ [][Next]_vars

\* The host's thread runs, closures return, and a contract-keeping provider ends
\* its job.
Fairness ==
  /\ WF_vars(CheckJob \/ RejectDestroyed \/ Quiesced \/ JoinReturns \/ ResetDestroyed)
  /\ \A c \in Threads : WF_vars(Thunk(c))
  /\ WF_vars("destroy" \in slots /\ \E c \in Threads : Callback(c, "terminal"))

FairSpec == Spec /\ Fairness

-----------------------------------------------------------------------------
(* Properties.                                                             *)

\* Once startImport() has returned an error, or the JoinableJob is gone, no
\* closure runs any more, so the caller may tear down what they captured.
InertAfterReturn ==
  main \in {"failed", "over"} => \A c \in Threads : thunk[c] # "closure"

\* No thunk touches a context that was freed: it is leaked when its job cannot be
\* stopped and outlives every dispatch otherwise.
ContextOutlivesThunks ==
  ctx = "freed" => \A c \in Threads : thunk[c] = "out"

\* The count in dispatch_state is the number of dispatches under way, so quiesce()
\* neither returns early nor waits for one that has ended.
CountIsExact ==
  in_flight = Cardinality({c \in Threads : thunk[c] \in {"refused", "closure", "leaving"}})

\* That count, the life of the context it guards, and the type of the state.
ImportInv == TypeOK /\ CountIsExact /\ ContextOutlivesThunks

\* The owner of a job hears its outcome exactly once before the job is gone.
TerminalDelivered == main = "over" => ran["terminal"] = 1

\* When startImport() has failed or the job is gone its caller has heard all it
\* will ever hear: nothing more, and of a job that began nothing less.
ClosuresEndWithJob == InertAfterReturn /\ TerminalDelivered

\* The provider's callbacks come to an end.
CallbacksCease == <>[][~\E c \in Threads, k \in Callbacks : Callback(c, k)]_vars

Waiting  == main \in {"checking", "rejecting", "quiescing", "joining", "resetting"}
Returned == main \in {"failed", "owner", "over"}

\* startImport(), join() and the destructor return for a job that can be destroyed.
\* For one that cannot, the loop of quiesce() samples a count that every refused
\* callback raises for a moment, so startImport() returns if the provider's callbacks
\* cease at last: none of them, early, late or refused, leaves a count behind.
HostReturns ==
  /\ Waiting /\ "destroy" \in slots ~> Returned
  /\ CallbacksCease => (Waiting ~> Returned)

=============================================================================
