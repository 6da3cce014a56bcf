---------------------------- MODULE ProviderJob ----------------------------
(***************************************************************************)
(* The provider side of an asynchronous descriptor import: JobState, its   *)
(* worker thread, the JobControl the import body works with, the optional  *)
(* watchdog thread, and the cancel / join / destroy slots the host calls   *)
(* through PJ_joinable_job_t (pj_base/src/source/provider_job.cpp).        *)
(*                                                                         *)
(* Threads.  Callers are the host's threads; Owner is the one that starts  *)
(* the job and destroys it.  Worker is the job's thread.  Helpers are      *)
(* threads of the import body that share its JobControl.  The watchdog has *)
(* its own state, in `watchdog`.                                           *)
(*                                                                         *)
(* A critical section of hook_mu, watchdog_mu or join_mu holds no blocking *)
(* call and is one step; everything done between two sections is a step of *)
(* its own.  Condition variables are modelled as sleeping states that a    *)
(* notify_all moves on, so a missing notify is visible; the standard's     *)
(* spurious wake-ups are steps too (without fairness).                     *)
(***************************************************************************)
EXTENDS Naturals

CONSTANTS
  Callers,   \* host threads that hold the job handle
  Owner,     \* the host thread that starts and destroys the job
  Worker,    \* the job's worker thread
  Helpers,   \* threads of the body that use its JobControl
  Hooks,     \* cancel hooks, each registered at most once
  None,      \* no hook / no thread
  MaxArms    \* bound: how many times the body arms the watchdog

ASSUME ThreadsAssumption ==
  /\ Owner \in Callers
  /\ Worker \notin Callers \cup Helpers
  /\ Callers \cap Helpers = {}
  /\ None \notin Callers \cup Helpers \cup {Worker} \cup Hooks

ASSUME MaxArmsAssumption == MaxArms \in Nat

VARIABLES
  job,               \* what the host knows of out_job
  start_gate,        \* the binary semaphore: TRUE when released
  cancelled,
  dataset_notified,
  terminal_fired,
  hook_fired,
  hook_running,
  cancel_hook,       \* the registered hook, or None
  watchdog_stop,
  watchdog,          \* the watchdog std::thread object and its thread
  arms,              \* how often the body armed the watchdog
  join_in_progress,
  joined,
  run,               \* where the worker is in JobState::run()
  call,              \* call[t]: where thread t is in the API call it makes
  hookOf,            \* hookOf[t]: the hook thread t is executing, or None
  datasetCb,         \* the thread inside the host's on_dataset, or None
  destroying,        \* Owner is inside destroy()
  registered,        \* history: hooks passed to onCancel
  ran                \* history: hooks whose execution has begun

hookVars     == <<hook_fired, hook_running, cancel_hook, hookOf, registered, ran>>
watchdogVars == <<watchdog_stop, watchdog, arms>>
joinVars     == <<join_in_progress, joined>>
startVars    == <<job, start_gate>>
hostVars     == <<cancelled, destroying>>
callbackVars == <<dataset_notified, terminal_fired, datasetCb>>
vars == <<startVars, hostVars, callbackVars, hookVars, watchdogVars, joinVars, run, call>>

Threads == Callers \cup Helpers \cup {Worker}

JobStates == {"none", "spawned", "populated", "released", "returned", "failed", "freed"}
RunStates == {"none", "gated", "body", "armStop", "armJoin", "armSpawn", "armStarted",
              "disarm", "disarmAsleep", "disarmAwake", "stop", "stopJoin", "fire",
              "inTerminal", "done"}
CallStates == {"idle", "cancelEnter", "hookRun", "hookClear", "hookNotify",
               "onCancelHook", "joinEnter", "joining", "joinMark", "joinAsleep",
               "joinAwake", "delete"}
WatchdogStates == {"none", "spawned", "waiting", "firing", "exited"}

TypeOK ==
  /\ job \in JobStates
  /\ start_gate \in BOOLEAN
  /\ cancelled \in BOOLEAN
  /\ dataset_notified \in BOOLEAN
  /\ terminal_fired \in BOOLEAN
  /\ hook_fired \in BOOLEAN
  /\ hook_running \in BOOLEAN
  /\ cancel_hook \in Hooks \cup {None}
  /\ watchdog_stop \in BOOLEAN
  /\ watchdog \in WatchdogStates
  /\ arms \in 0..MaxArms
  /\ join_in_progress \in BOOLEAN
  /\ joined \in BOOLEAN
  /\ run \in RunStates
  /\ call \in [Threads -> CallStates]
  /\ hookOf \in [Threads -> Hooks \cup {None}]
  /\ datasetCb \in Threads \cup {None}
  /\ destroying \in BOOLEAN
  /\ registered \subseteq Hooks
  /\ ran \subseteq Hooks

Init ==
  /\ job = "none"
  /\ start_gate = FALSE
  /\ cancelled = FALSE
  /\ dataset_notified = FALSE
  /\ terminal_fired = FALSE
  /\ hook_fired = FALSE
  /\ hook_running = FALSE
  /\ cancel_hook = None
  /\ watchdog_stop = FALSE
  /\ watchdog = "none"
  /\ arms = 0
  /\ join_in_progress = FALSE
  /\ joined = FALSE
  /\ run = "none"
  /\ call = [t \in Threads |-> "idle"]
  /\ hookOf = [t \in Threads |-> None]
  /\ datasetCb = None
  /\ destroying = FALSE
  /\ registered = {}
  /\ ran = {}

Goto(t, s) == call' = [call EXCEPT ![t] = s]

-----------------------------------------------------------------------------
(* startJob, on Owner.                                                     *)

\* The thread cannot be spawned, or an argument is unusable: out_job untouched.
StartFail ==
  /\ job = "none"
  /\ job' = "failed"
  /\ UNCHANGED <<start_gate, hostVars, callbackVars, hookVars, watchdogVars,
                 joinVars, run, call>>

\* Mutant: the gate starts open.
StartSpawnUngated ==
  /\ job = "none"
  /\ job' = "spawned"
  /\ run' = "gated"
  /\ start_gate' = TRUE
  /\ UNCHANGED <<hostVars, callbackVars, hookVars, watchdogVars, joinVars, call>>

StartSpawn ==
  /\ job = "none"
  /\ job' = "spawned"
  /\ run' = "gated"
  /\ UNCHANGED <<start_gate, hostVars, callbackVars, hookVars, watchdogVars,
                 joinVars, call>>

StartPopulate ==
  /\ job = "spawned"
  /\ job' = "populated"
  /\ UNCHANGED <<start_gate, hostVars, callbackVars, hookVars, watchdogVars,
                 joinVars, run, call>>

\* A probe's cancel() on this thread has returned.
StartReleaseGate ==
  /\ job = "populated"
  /\ call[Owner] = "idle"
  /\ job' = "released"
  /\ start_gate' = TRUE
  /\ UNCHANGED <<hostVars, callbackVars, hookVars, watchdogVars, joinVars, run, call>>

StartReturns ==
  /\ job = "released"
  /\ job' = "returned"
  /\ UNCHANGED <<start_gate, hostVars, callbackVars, hookVars, watchdogVars,
                 joinVars, run, call>>

-----------------------------------------------------------------------------
(* JobState::requestCancel, by any thread that can reach the handle: a     *)
(* host thread while nobody destroys the job, the gate probe, and a thread *)
(* inside the body or inside one of the host's callbacks.                  *)

BodyActive == run \in {"body", "armStop", "armJoin", "armSpawn", "armStarted"}

MayUseHandle(t) ==
  /\ call[t] = "idle"
  /\ \/ t \in Callers /\ job = "returned" /\ ~destroying
     \/ t = Worker /\ run \in {"body", "inTerminal"}
     \/ t \in Helpers /\ datasetCb = t

CancelStore(t) ==
  /\ MayUseHandle(t) \/ (t = Owner /\ job = "populated" /\ call[t] = "idle")
  /\ cancelled' = TRUE
  /\ Goto(t, "cancelEnter")
  /\ UNCHANGED <<startVars, callbackVars, hookVars, watchdogVars, joinVars, run,
                 destroying>>

\* Mutant: destroy() cancels and frees, without the join.
AfterCancelNoJoin(t) == IF destroying /\ t = Owner THEN "delete" ELSE "idle"

\* Where a thread goes on when its requestCancel is over.
AfterCancel(t) == IF destroying /\ t = Owner THEN "joinEnter" ELSE "idle"

\* Mutant: requestCancel() takes the hook but does not mark it fired.
CancelTakeHookUnmarked(t) ==
  /\ call[t] = "cancelEnter"
  /\ IF ~hook_fired /\ cancel_hook # None
     THEN /\ hook_running' = TRUE
          /\ hookOf' = [hookOf EXCEPT ![t] = cancel_hook]
          /\ ran' = ran \cup {cancel_hook}
          /\ cancel_hook' = None
          /\ Goto(t, "hookRun")
     ELSE /\ UNCHANGED <<hook_running, hookOf, ran, cancel_hook>>
          /\ Goto(t, AfterCancel(t))
  /\ UNCHANGED <<startVars, hostVars, callbackVars, hook_fired, registered, watchdogVars,
                 joinVars, run>>

CancelTakeHook(t) ==
  /\ call[t] = "cancelEnter"
  /\ IF ~hook_fired /\ cancel_hook # None
     THEN /\ hook_fired' = TRUE
          /\ hook_running' = TRUE
          /\ hookOf' = [hookOf EXCEPT ![t] = cancel_hook]
          /\ ran' = ran \cup {cancel_hook}
          /\ cancel_hook' = None
          /\ Goto(t, "hookRun")
     ELSE /\ UNCHANGED <<hook_fired, hook_running, hookOf, ran, cancel_hook>>
          /\ Goto(t, AfterCancel(t))
  /\ UNCHANGED <<startVars, hostVars, callbackVars, registered, watchdogVars,
                 joinVars, run>>

\* The hook returns, or throws: an exception is contained.
CancelHookEnds(t) ==
  /\ call[t] = "hookRun"
  /\ hookOf' = [hookOf EXCEPT ![t] = None]
  /\ Goto(t, "hookClear")
  /\ UNCHANGED <<startVars, hostVars, callbackVars, hook_fired, hook_running,
                 cancel_hook, registered, ran, watchdogVars, joinVars, run>>

CancelClearRunning(t) ==
  /\ call[t] = "hookClear"
  /\ hook_running' = FALSE
  /\ Goto(t, "hookNotify")
  /\ UNCHANGED <<startVars, hostVars, callbackVars, hook_fired, hookOf, cancel_hook,
                 registered, ran, watchdogVars, joinVars, run>>

\* Mutant: hook_running is cleared without notifying hook_cv.
CancelNotifyMissing(t) ==
  /\ call[t] = "hookNotify"
  /\ Goto(t, AfterCancel(t))
  /\ UNCHANGED <<startVars, hostVars, callbackVars, hookVars, watchdogVars, joinVars, run>>

CancelNotify(t) ==
  /\ call[t] = "hookNotify"
  /\ run' = IF run = "disarmAsleep" THEN "disarmAwake" ELSE run
  /\ Goto(t, AfterCancel(t))
  /\ UNCHANGED <<startVars, hostVars, callbackVars, hookVars, watchdogVars, joinVars>>

-----------------------------------------------------------------------------
(* jobJoin and jobDestroy.                                                 *)

\* join() is never called on a callback thread; from the worker itself it is
\* downgraded to a no-op.
Join(t) ==
  /\ MayUseHandle(t) /\ t \notin Helpers
  /\ Goto(t, "joinEnter")
  /\ UNCHANGED <<startVars, hostVars, callbackVars, hookVars, watchdogVars, joinVars,
                 run>>

AfterJoin(t) == IF destroying /\ t = Owner THEN "delete" ELSE "idle"

\* The self-join guard, the two waits and the election of the one joiner.
JoinEnter(t) ==
  /\ call[t] = "joinEnter"
  /\ \/ /\ t = Worker \/ joined
        /\ Goto(t, AfterJoin(t))
        /\ UNCHANGED join_in_progress
     \/ /\ t # Worker /\ ~joined /\ join_in_progress
        /\ Goto(t, "joinAsleep")
        /\ UNCHANGED join_in_progress
     \/ /\ t # Worker /\ ~joined /\ ~join_in_progress
        /\ Goto(t, "joining")
        /\ join_in_progress' = TRUE
  /\ UNCHANGED <<startVars, hostVars, callbackVars, hookVars, watchdogVars, joined,
                 run>>

\* worker.join() returns when the worker's run() has.
JoinWorker(t) ==
  /\ call[t] = "joining"
  /\ run = "done"
  /\ Goto(t, "joinMark")
  /\ UNCHANGED <<startVars, hostVars, callbackVars, hookVars, watchdogVars, joinVars,
                 run>>

\* Mutant: `joined` is set without notifying join_cv.
JoinMarkSilent(t) ==
  /\ call[t] = "joinMark"
  /\ joined' = TRUE
  /\ Goto(t, AfterJoin(t))
  /\ UNCHANGED <<startVars, hostVars, callbackVars, hookVars, watchdogVars,
                 join_in_progress, run>>

JoinMark(t) ==
  /\ call[t] = "joinMark"
  /\ joined' = TRUE
  /\ call' = [u \in Threads |-> IF u = t THEN AfterJoin(t)
                                ELSE IF call[u] = "joinAsleep" THEN "joinAwake" ELSE call[u]]
  /\ UNCHANGED <<startVars, hostVars, callbackVars, hookVars, watchdogVars,
                 join_in_progress, run>>

JoinRecheck(t) ==
  /\ call[t] = "joinAwake"
  /\ Goto(t, IF joined THEN AfterJoin(t) ELSE "joinAsleep")
  /\ UNCHANGED <<startVars, hostVars, callbackVars, hookVars, watchdogVars, joinVars,
                 run>>

\* destroy() begins with cancel().  Its caller has made sure that no other
\* host thread is inside, or will make, a call on the handle it invalidates.
Destroy ==
  /\ job = "returned" /\ ~destroying
  /\ \A t \in Callers : call[t] = "idle"
  /\ destroying' = TRUE
  /\ cancelled' = TRUE
  /\ Goto(Owner, "cancelEnter")
  /\ UNCHANGED <<startVars, callbackVars, hookVars, watchdogVars, joinVars, run>>

DestroyDelete ==
  /\ call[Owner] = "delete"
  /\ job' = "freed"
  /\ Goto(Owner, "idle")
  /\ UNCHANGED <<start_gate, hostVars, callbackVars, hookVars, watchdogVars,
                 joinVars, run>>

-----------------------------------------------------------------------------
(* JobControl, used by the body on the worker and by its helper threads    *)
(* for the body's duration.                                                *)

MayUseControl(t) ==
  /\ call[t] = "idle"
  /\ datasetCb # t
  /\ \/ t = Worker /\ run = "body"
     \/ t \in Helpers /\ BodyActive

\* Mutant: the hook is stored without looking at the cancelled flag.
OnCancelUnchecked(t, h) ==
  /\ MayUseControl(t)
  /\ h \notin registered
  /\ registered' = registered \cup {h}
  /\ cancel_hook' = h
  /\ UNCHANGED <<startVars, hostVars, callbackVars, hook_fired, hook_running, hookOf, ran,
                 watchdogVars, joinVars, run, call>>

OnCancel(t, h) ==
  /\ MayUseControl(t)
  /\ h \notin registered
  /\ registered' = registered \cup {h}
  /\ \/ /\ ~cancelled
        /\ cancel_hook' = h
        /\ UNCHANGED <<hook_fired, hookOf, ran, call>>
     \/ /\ cancelled /\ hook_fired
        /\ UNCHANGED <<cancel_hook, hook_fired, hookOf, ran, call>>
     \/ /\ cancelled /\ ~hook_fired
        /\ hook_fired' = TRUE
        /\ hookOf' = [hookOf EXCEPT ![t] = h]
        /\ ran' = ran \cup {h}
        /\ Goto(t, "onCancelHook")
        /\ UNCHANGED cancel_hook
  /\ UNCHANGED <<startVars, hostVars, callbackVars, hook_running, watchdogVars,
                 joinVars, run>>

OnCancelHookEnds(t) ==
  /\ call[t] = "onCancelHook"
  /\ hookOf' = [hookOf EXCEPT ![t] = None]
  /\ Goto(t, "idle")
  /\ UNCHANGED <<startVars, hostVars, callbackVars, hook_fired, hook_running,
                 cancel_hook, registered, ran, watchdogVars, joinVars, run>>

\* The exchange and the call of on_dataset by its winner.  A null on_dataset
\* is a callback that does nothing.
NotifyDataset(t) ==
  /\ MayUseControl(t)
  /\ ~dataset_notified
  /\ dataset_notified' = TRUE
  /\ datasetCb' = t
  /\ UNCHANGED <<startVars, hostVars, terminal_fired, hookVars, watchdogVars,
                 joinVars, run, call>>

OnDatasetReturns(t) ==
  /\ datasetCb = t
  /\ call[t] = "idle"
  /\ datasetCb' = None
  /\ UNCHANGED <<startVars, hostVars, dataset_notified, terminal_fired, hookVars,
                 watchdogVars, joinVars, run, call>>

WorkerInBody == run = "body" /\ call[Worker] = "idle" /\ datasetCb # Worker

\* armWatchdog: stopWatchdog() first, then a new thread that has taken
\* watchdog_mu before armWatchdog returns.
ArmWatchdog ==
  /\ WorkerInBody
  /\ arms < MaxArms
  /\ arms' = arms + 1
  /\ run' = "armStop"
  /\ UNCHANGED <<startVars, hostVars, callbackVars, hookVars, watchdog_stop,
                 watchdog, joinVars, call>>

StopWatchdog ==
  /\ \/ run = "armStop" /\ run' = "armJoin"
     \/ run = "stop"    /\ run' = "stopJoin"
  /\ watchdog_stop' = TRUE
  /\ UNCHANGED <<startVars, hostVars, callbackVars, hookVars, watchdog, arms,
                 joinVars, call>>

JoinWatchdog ==
  /\ \/ run = "armJoin"  /\ run' = "armSpawn"
     \/ run = "stopJoin" /\ run' = "fire"
  /\ watchdog \in {"none", "exited"}
  /\ watchdog' = "none"
  /\ UNCHANGED <<startVars, hostVars, callbackVars, hookVars, watchdog_stop, arms,
                 joinVars, call>>

ArmSpawn ==
  /\ run = "armSpawn"
  /\ run' = "armStarted"
  /\ watchdog_stop' = FALSE
  /\ watchdog' = "spawned"
  /\ UNCHANGED <<startVars, hostVars, callbackVars, hookVars, arms, joinVars, call>>

\* Mutant: armWatchdog() does not wait for the thread to have started.
ArmStartedEarly ==
  /\ run = "armStarted"
  /\ run' = "body"
  /\ UNCHANGED <<startVars, hostVars, callbackVars, hookVars, watchdogVars, joinVars, call>>

ArmStarted ==
  /\ run = "armStarted"
  /\ watchdog # "spawned"
  /\ run' = "body"
  /\ UNCHANGED <<startVars, hostVars, callbackVars, hookVars, watchdogVars, joinVars,
                 call>>

-----------------------------------------------------------------------------
(* The watchdog thread.                                                    *)

WatchdogStart ==
  /\ watchdog = "spawned"
  /\ watchdog' = "waiting"
  /\ UNCHANGED <<startVars, hostVars, callbackVars, hookVars, watchdog_stop, arms,
                 joinVars, run, call>>

\* wait_for ends, by the timeout or by a notify; its result is the predicate.
WatchdogWakes ==
  /\ watchdog = "waiting"
  /\ watchdog' = IF watchdog_stop THEN "exited" ELSE "firing"
  /\ UNCHANGED <<startVars, hostVars, callbackVars, hookVars, watchdog_stop, arms,
                 joinVars, run, call>>

\* on_expire returns or throws; arming from inside it does nothing.
OnExpireEnds ==
  /\ watchdog = "firing"
  /\ watchdog' = "exited"
  /\ UNCHANGED <<startVars, hostVars, callbackVars, hookVars, watchdog_stop, arms,
                 joinVars, run, call>>

-----------------------------------------------------------------------------
(* JobState::run(), on the worker.                                         *)

\* A job cancelled before its gate opened never runs its body.
AcquireGate ==
  /\ run = "gated" /\ start_gate
  /\ start_gate' = FALSE
  /\ run' = IF cancelled THEN "disarm" ELSE "body"
  /\ UNCHANGED <<job, hostVars, callbackVars, hookVars, watchdogVars, joinVars, call>>

\* The body returns an outcome or throws.  Its helper threads are done with
\* the JobControl, which is valid only for the body's duration.
BodyReturns ==
  /\ WorkerInBody
  /\ datasetCb = None
  /\ \A t \in Helpers : call[t] = "idle"
  /\ run' = "disarm"
  /\ UNCHANGED <<startVars, hostVars, callbackVars, hookVars, watchdogVars, joinVars,
                 call>>

\* Mutant: the hook is withdrawn but one in flight is not waited for.
DisarmHookNoWait ==
  /\ run = "disarm"
  /\ cancel_hook' = None
  /\ hook_fired' = TRUE
  /\ run' = "stop"
  /\ UNCHANGED <<startVars, hostVars, callbackVars, hook_running, hookOf, registered, ran,
                 watchdogVars, joinVars, call>>

DisarmHook ==
  /\ run = "disarm"
  /\ cancel_hook' = None
  /\ hook_fired' = TRUE
  /\ run' = IF hook_running THEN "disarmAsleep" ELSE "stop"
  /\ UNCHANGED <<startVars, hostVars, callbackVars, hook_running, hookOf, registered,
                 ran, watchdogVars, joinVars, call>>

DisarmRecheck ==
  /\ run = "disarmAwake"
  /\ run' = IF hook_running THEN "disarmAsleep" ELSE "stop"
  /\ UNCHANGED <<startVars, hostVars, callbackVars, hookVars, watchdogVars, joinVars,
                 call>>

FireTerminal ==
  /\ run = "fire"
  /\ terminal_fired' = TRUE
  /\ run' = IF terminal_fired THEN "done" ELSE "inTerminal"
  /\ UNCHANGED <<startVars, hostVars, dataset_notified, hookVars, watchdogVars,
                 joinVars, call, datasetCb>>

OnTerminalReturns ==
  /\ run = "inTerminal"
  /\ call[Worker] = "idle"
  /\ run' = "done"
  /\ UNCHANGED <<startVars, hostVars, callbackVars, hookVars, watchdogVars, joinVars,
                 call>>

\* A condition variable may wake its waiter for no reason.
SpuriousWakeup ==
  /\ \/ /\ run = "disarmAsleep"
        /\ run' = "disarmAwake"
        /\ UNCHANGED call
     \/ \E t \in Threads : /\ call[t] = "joinAsleep"
                           /\ Goto(t, "joinAwake")
                           /\ UNCHANGED run
  /\ UNCHANGED <<startVars, hostVars, callbackVars, hookVars, watchdogVars, joinVars>>

\* The job is gone: nothing is left to do.
Over ==
  /\ job \in {"failed", "freed"}
  /\ UNCHANGED vars

-----------------------------------------------------------------------------
Start     == StartFail \/ StartSpawn \/ StartPopulate \/ StartReleaseGate \/ StartReturns
RequestCancel(t) == \/ CancelTakeHook(t) \/ CancelHookEnds(t)
                    \/ CancelClearRunning(t) \/ CancelNotify(t)
JobJoin(t) == JoinEnter(t) \/ JoinWorker(t) \/ JoinMark(t) \/ JoinRecheck(t)
Watchdog  == WatchdogStart \/ WatchdogWakes \/ OnExpireEnds
WorkerRun == \/ AcquireGate \/ DisarmHook \/ DisarmRecheck \/ StopWatchdog
             \/ JoinWatchdog \/ ArmSpawn \/ ArmStarted \/ FireTerminal

Next ==
  \/ Start
  \/ Destroy \/ DestroyDelete
  \/ \E t \in Threads : \/ CancelStore(t) \/ RequestCancel(t)
                        \/ Join(t) \/ JobJoin(t)
                        \/ OnCancelHookEnds(t)
                        \/ NotifyDataset(t) \/ OnDatasetReturns(t)
                        \/ \E h \in Hooks : OnCancel(t, h)
  \/ WorkerRun
  \/ ArmWatchdog \/ BodyReturns \/ OnTerminalReturns
  \/ Watchdog
  \/ SpuriousWakeup
  \/ Over

Spec == Init /\ [][Next]_vars

\* A body that polls isCancelled() returns once cancelled; one that registered a
\* hook may be blocked in its transport until a hook interrupts it.
BodyInterrupted == cancelled /\ (registered = {} \/ ran # {})

\* Threads are scheduled; hooks, on_expire and the host's callbacks return; and
\* an interrupted body, however it goes on using its JobControl, finally returns.
\* Nothing makes another body return, nor a host thread make a call.
Fairness ==
  /\ WF_vars(StartPopulate) /\ WF_vars(StartReleaseGate) /\ WF_vars(StartReturns)
  /\ WF_vars(WorkerRun)
  /\ WF_vars(Watchdog)
  /\ SF_vars(BodyInterrupted /\ BodyReturns)
  /\ SF_vars(OnTerminalReturns)
  /\ WF_vars(DestroyDelete)
  /\ \A t \in Threads : /\ WF_vars(RequestCancel(t))
                        /\ WF_vars(JobJoin(t))
                        /\ WF_vars(OnCancelHookEnds(t))
                        /\ SF_vars(OnDatasetReturns(t))

FairSpec == Spec /\ Fairness

-----------------------------------------------------------------------------
(* Properties.                                                             *)

HookRuns == \E t \in Threads : hookOf[t] # None

\* From the moment the worker may call on_terminal nothing of the job runs on
\* another thread: disarmHook() withdrew the registered hook and waited out the
\* one in flight, and stopWatchdog() joined the watchdog, however the cancel, the
\* expiry and the body's return cross.
QuietTerminal ==
  run \in {"fire", "inTerminal", "done"} => ~HookRuns /\ watchdog = "none"

\* Whatever cancels, registrations and the body's return interleave, at most one
\* hook of a job is ever executed, and it is executed once (hook_fired).
HookRunsOnce ==
  [][\A t \in Threads : hookOf[t] = None /\ hookOf'[t] # None => ran = {}]_vars

\* No cancellation is lost between requestCancel()'s store of the flag and
\* onCancel()'s test of it under hook_mu: a registered hook that nobody has fired
\* while the job is cancelled is about to be taken by some canceller.
CancelNotLost ==
  cancelled /\ cancel_hook # None /\ ~hook_fired
    => \E t \in Threads : call[t] = "cancelEnter"

JoinPending(t) == call[t] \in {"joinEnter", "joining", "joinMark", "joinAsleep", "joinAwake"}

\* std::thread::join of the worker is never called twice: one thread is elected.
OneJoiner ==
  \A t, u \in Threads :
     call[t] \in {"joining", "joinMark"} /\ call[u] \in {"joining", "joinMark"} => t = u

\* destroy() frees the JobState only when no thread is left that could touch it:
\* the worker is gone, so is the watchdog, and no hook runs in a canceller.
NothingAfterFree ==
  job = "freed" => /\ run = "done" /\ watchdog = "none" /\ datasetCb = None
                   /\ \A t \in Threads : call[t] = "idle"

\* Nothing of the job outlives the point where its owner may tear things down: the
\* terminal callback for what the hooks use, destroy() for the JobState itself.
NothingRunsLate == QuietTerminal /\ NothingAfterFree

\* A cancel that finds a hook registered, or a hook registered after the cancel,
\* gets a hook executed unless the body returns first: no interleaving of
\* requestCancel() and onCancel() leaves a blocked body uninterrupted.
CancelReachesHook == (cancelled /\ registered # {} /\ BodyActive) ~> (ran # {} \/ ~BodyActive)

\* Every join() of a cancelled job returns, the waiters behind the elected joiner
\* and a join() from the worker's own callbacks too.
CancelledJoinReturns == \A t \in Threads : (JoinPending(t) /\ cancelled) ~> ~JoinPending(t)

\* destroy() of a job in any state completes and frees it.
DestroyCompletes == destroying ~> (job = "freed")

\* No owner is left hanging: a join() of a cancelled job returns, on every thread
\* that may call it, and so does destroy().
OwnerCallsReturn == CancelledJoinReturns /\ DestroyCompletes

-----------------------------------------------------------------------------
(* The inductive invariant behind the safety properties.                   *)

AfterBody == run \in {"stop", "stopJoin", "fire", "inTerminal", "done"}

StartInv ==
  /\ job \in {"none", "failed"} <=> run = "none"
  /\ job \in {"spawned", "populated"} => run = "gated" /\ ~start_gate
  /\ start_gate => run = "gated"
  /\ terminal_fired <=> run \in {"inTerminal", "done"}

\* Who may be inside which call.
CallInv ==
  /\ call[Worker] # "idle" => run \in {"body", "inTerminal"}
  /\ \A t \in Helpers : call[t] # "idle" => BodyActive
  /\ \A t \in Helpers : ~JoinPending(t)
  /\ \A t \in Callers : call[t] # "onCancelHook"
  /\ call[Worker] = "onCancelHook" => run = "body"
  /\ \A t \in Threads : call[t] \in {"joining", "joinMark", "joinAsleep", "joinAwake"} => t # Worker
  /\ job \in {"none", "spawned", "failed"} => \A t \in Threads : call[t] = "idle"
  /\ job = "populated" => \A t \in Threads : t # Owner => call[t] = "idle"
  /\ job = "populated" => ~JoinPending(Owner)
  /\ datasetCb # None => dataset_notified /\ BodyActive /\ datasetCb \notin Callers
  /\ datasetCb = Worker => run = "body"

HookInv ==
  /\ \A t \in Threads : hookOf[t] # None <=> call[t] \in {"hookRun", "onCancelHook"}
  /\ hook_running <=> \E t \in Threads : call[t] \in {"hookRun", "hookClear"}
  /\ \A t, u \in Threads :
        call[t] \in {"hookRun", "hookClear"} /\ call[u] \in {"hookRun", "hookClear"} => t = u
  /\ ~hook_fired => /\ ran = {}
                    /\ \A t \in Threads : call[t] \notin {"hookRun", "hookClear", "onCancelHook"}
  /\ run \in {"disarmAsleep", "disarmAwake"} \/ AfterBody => hook_fired
  /\ AfterBody => ~hook_running

WatchdogInv ==
  /\ run \in {"none", "gated", "armSpawn", "fire", "inTerminal", "done"} => watchdog = "none"
  /\ watchdog = "spawned" => run = "armStarted"

JoinInv ==
  /\ joined => run = "done"
  /\ \A t \in Threads : call[t] \in {"joining", "joinMark"} => join_in_progress /\ ~joined
  /\ \A t \in Threads : call[t] \in {"joinMark", "delete"} => run = "done"
  /\ OneJoiner

DestroyInv ==
  /\ \A t \in Threads : call[t] = "delete" => t = Owner /\ destroying
  /\ destroying => job \in {"returned", "freed"}
  /\ destroying => \A t \in Callers : t # Owner => call[t] = "idle"
  /\ job = "freed" => run = "done" /\ destroying /\ call[Owner] = "idle"

\* The worker's phase, the hook and watchdog flags and the calls under way agree in
\* every interleaving; in particular no cancel is lost to a registration and one
\* thread at most joins the worker.
IInv == TypeOK /\ StartInv /\ CallInv /\ HookInv /\ WatchdogInv /\ JoinInv
               /\ DestroyInv /\ CancelNotLost

-----------------------------------------------------------------------------
(* What the header says and the code does not do.                          *)

\* provider_job.hpp on onCancel(): captured body-locals outlive every
\* invocation of the hook.
BodyLocalsOutliveHook == HookRuns => BodyActive

-----------------------------------------------------------------------------
(* The host's view of the job: descriptor_import_protocol.h.               *)
Contract == INSTANCE JobContract WITH
  handle   <- CASE job \in {"released", "returned"} -> "live" [] job = "freed" -> "freed" [] OTHER -> "none",
  dataset  <- IF datasetCb # None THEN "in" ELSE IF dataset_notified THEN "over" ELSE "no",
  terminal <- CASE run = "inTerminal" -> "in" [] run = "done" -> "over" [] OTHER -> "no",
  waiting  <- {t \in Callers : JoinPending(t)}

\* The job implements the ABI's contract for joinable jobs: on_dataset at most
\* once and never during or after on_terminal, on_terminal exactly once and last,
\* join after it, destroy last of all.
ImplementsContract == Contract!Spec
=============================================================================
