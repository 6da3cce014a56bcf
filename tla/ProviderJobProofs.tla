------------------------- MODULE ProviderJobProofs -------------------------
(***************************************************************************)
(* Proofs about ProviderJob, for every set of host threads, body threads   *)
(* and hooks and every number of watchdogs.                                *)
(*                                                                         *)
(* IInv is shown to be inductive, one step per action; the safety          *)
(* properties and the implementation of JobContract follow from it.        *)
(***************************************************************************)
EXTENDS ProviderJob, TLAPS

\* The types of the variables, and so the states each thread can be in, are
\* kept by every step of JobState, JobControl and the vtable slots.
LEMMA TypeStep ==
  ASSUME TypeOK, [Next]_vars
  PROVE  TypeOK'
<1> USE ThreadsAssumption, MaxArmsAssumption
    DEF Threads, TypeOK, startVars, hostVars, callbackVars, hookVars, watchdogVars, joinVars
<1>1. ASSUME StartFail PROVE TypeOK'
  BY <1>1 DEF StartFail, JobStates, RunStates, CallStates, WatchdogStates
<1>2. ASSUME StartSpawn PROVE TypeOK'
  BY <1>2 DEF StartSpawn, JobStates, RunStates, CallStates, WatchdogStates
<1>3. ASSUME StartPopulate PROVE TypeOK'
  BY <1>3 DEF StartPopulate, JobStates, RunStates, CallStates, WatchdogStates
<1>4. ASSUME StartReleaseGate PROVE TypeOK'
  BY <1>4 DEF StartReleaseGate, JobStates, RunStates, CallStates, WatchdogStates
<1>5. ASSUME Destroy PROVE TypeOK'
  BY <1>5 DEF Destroy, Goto, JobStates, RunStates, CallStates, WatchdogStates
<1>6. ASSUME DestroyDelete PROVE TypeOK'
  BY <1>6 DEF DestroyDelete, Goto, JobStates, RunStates, CallStates, WatchdogStates
<1>7. ASSUME NEW t \in Threads, CancelStore(t) PROVE TypeOK'
  BY <1>7 DEF CancelStore, MayUseHandle, Goto, JobStates, RunStates, CallStates, WatchdogStates
<1>8. ASSUME NEW t \in Threads, CancelTakeHook(t) PROVE TypeOK'
  <2>1. hook_fired' \in BOOLEAN /\ hook_running' \in BOOLEAN
    BY <1>8 DEF CancelTakeHook
  <2>2. call' \in [Threads -> CallStates]
    BY <1>8 DEF CancelTakeHook, Goto, AfterCancel, CallStates
  <2> QED
    BY <1>8, <2>1, <2>2 DEF CancelTakeHook
<1>9. ASSUME NEW t \in Threads, CancelHookEnds(t) PROVE TypeOK'
  BY <1>9 DEF CancelHookEnds, Goto, JobStates, RunStates, CallStates, WatchdogStates
<1>10. ASSUME NEW t \in Threads, CancelClearRunning(t) PROVE TypeOK'
  <2>1. hook_running' \in BOOLEAN
    BY <1>10 DEF CancelClearRunning
  <2>2. call' \in [Threads -> CallStates]
    BY <1>10 DEF CancelClearRunning, Goto, CallStates
  <2> QED
    BY <1>10, <2>1, <2>2 DEF CancelClearRunning
<1>11. ASSUME NEW t \in Threads, CancelNotify(t) PROVE TypeOK'
  BY <1>11 DEF CancelNotify, AfterCancel, Goto, JobStates, RunStates, CallStates, WatchdogStates
<1>12. ASSUME NEW t \in Threads, Join(t) PROVE TypeOK'
  BY <1>12 DEF Join, MayUseHandle, Goto, JobStates, RunStates, CallStates, WatchdogStates
<1>13. ASSUME NEW t \in Threads, JoinEnter(t) PROVE TypeOK'
  <2>1. join_in_progress' \in BOOLEAN
    BY <1>13 DEF JoinEnter
  <2>2. call' \in [Threads -> CallStates]
    BY <1>13 DEF JoinEnter, Goto, AfterJoin, CallStates
  <2> QED
    BY <1>13, <2>1, <2>2 DEF JoinEnter
<1>14. ASSUME NEW t \in Threads, JoinWorker(t) PROVE TypeOK'
  BY <1>14 DEF JoinWorker, Goto, JobStates, RunStates, CallStates, WatchdogStates
<1>15. ASSUME NEW t \in Threads, JoinMark(t) PROVE TypeOK'
  BY <1>15 DEF JoinMark, AfterJoin, Goto, JobStates, RunStates, CallStates, WatchdogStates
<1>16. ASSUME NEW t \in Threads, JoinRecheck(t) PROVE TypeOK'
  BY <1>16 DEF JoinRecheck, AfterJoin, Goto, JobStates, RunStates, CallStates, WatchdogStates
<1>17. ASSUME NEW t \in Threads, OnCancelHookEnds(t) PROVE TypeOK'
  BY <1>17 DEF OnCancelHookEnds, Goto, JobStates, RunStates, CallStates, WatchdogStates
<1>18. ASSUME NEW t \in Threads, NotifyDataset(t) PROVE TypeOK'
  BY <1>18 DEF NotifyDataset, MayUseControl, Goto, JobStates, RunStates, CallStates, WatchdogStates
<1>19. ASSUME NEW t \in Threads, OnDatasetReturns(t) PROVE TypeOK'
  BY <1>19 DEF OnDatasetReturns, Goto, JobStates, RunStates, CallStates, WatchdogStates
<1>20. ASSUME NEW t \in Threads, NEW h \in Hooks, OnCancel(t, h) PROVE TypeOK'
  <2>1. hook_fired' \in BOOLEAN
    BY <1>20 DEF OnCancel
  <2>2. call' \in [Threads -> CallStates]
    BY <1>20 DEF OnCancel, Goto, CallStates
  <2> QED
    BY <1>20, <2>1, <2>2 DEF OnCancel
<1>21. ASSUME AcquireGate PROVE TypeOK'
  <2>1. start_gate' \in BOOLEAN
    BY <1>21 DEF AcquireGate
  <2>2. run' \in RunStates
    BY <1>21 DEF AcquireGate, RunStates
  <2> QED
    BY <1>21, <2>1, <2>2 DEF AcquireGate
<1>22. ASSUME DisarmHook PROVE TypeOK'
  BY <1>22 DEF DisarmHook, JobStates, RunStates, CallStates, WatchdogStates
<1>23. ASSUME DisarmRecheck PROVE TypeOK'
  BY <1>23 DEF DisarmRecheck, JobStates, RunStates, CallStates, WatchdogStates
<1>24. ASSUME StopWatchdog PROVE TypeOK'
  BY <1>24 DEF StopWatchdog, JobStates, RunStates, CallStates, WatchdogStates
<1>25. ASSUME JoinWatchdog PROVE TypeOK'
  BY <1>25 DEF JoinWatchdog, JobStates, RunStates, CallStates, WatchdogStates
<1>26. ASSUME ArmSpawn PROVE TypeOK'
  <2>1. watchdog_stop' \in BOOLEAN
    BY <1>26 DEF ArmSpawn
  <2>2. run' \in RunStates /\ watchdog' \in WatchdogStates
    BY <1>26 DEF ArmSpawn, RunStates, WatchdogStates
  <2> QED
    BY <1>26, <2>1, <2>2 DEF ArmSpawn
<1>27. ASSUME ArmStarted PROVE TypeOK'
  BY <1>27 DEF ArmStarted, JobStates, RunStates, CallStates, WatchdogStates
<1>28. ASSUME FireTerminal PROVE TypeOK'
  BY <1>28 DEF FireTerminal, JobStates, RunStates, CallStates, WatchdogStates
<1>29. ASSUME ArmWatchdog PROVE TypeOK'
  BY <1>29 DEF ArmWatchdog, WorkerInBody, JobStates, RunStates, CallStates, WatchdogStates
<1>30. ASSUME BodyReturns PROVE TypeOK'
  BY <1>30 DEF BodyReturns, WorkerInBody, JobStates, RunStates, CallStates, WatchdogStates
<1>31. ASSUME OnTerminalReturns PROVE TypeOK'
  BY <1>31 DEF OnTerminalReturns, JobStates, RunStates, CallStates, WatchdogStates
<1>32. ASSUME WatchdogStart PROVE TypeOK'
  BY <1>32 DEF WatchdogStart, JobStates, RunStates, CallStates, WatchdogStates
<1>33. ASSUME WatchdogWakes PROVE TypeOK'
  BY <1>33 DEF WatchdogWakes, JobStates, RunStates, CallStates, WatchdogStates
<1>34. ASSUME OnExpireEnds PROVE TypeOK'
  BY <1>34 DEF OnExpireEnds, JobStates, RunStates, CallStates, WatchdogStates
<1>35. ASSUME SpuriousWakeup PROVE TypeOK'
  BY <1>35 DEF SpuriousWakeup, Goto, JobStates, RunStates, CallStates, WatchdogStates
<1>37. ASSUME StartReturns PROVE TypeOK'
  BY <1>37 DEF StartReturns, JobStates
<1>36. ASSUME UNCHANGED vars PROVE TypeOK'
  BY <1>36 DEF vars
<1> QED
  BY <1>1, <1>2, <1>3, <1>4, <1>5, <1>6, <1>7, <1>8, <1>9, <1>10, <1>11, <1>12,
     <1>13, <1>14, <1>15, <1>16, <1>17, <1>18, <1>19, <1>20, <1>21, <1>22,
     <1>23, <1>24, <1>25, <1>26, <1>27, <1>28, <1>29, <1>30, <1>31, <1>32,
     <1>33, <1>34, <1>35, <1>36, <1>37 DEF Next, Over, Start, RequestCancel, JobJoin,
     Watchdog, WorkerRun

\* Every step of the job, its threads and its host keeps the invariant IInv.
LEMMA InvStep ==
  ASSUME IInv, [Next]_vars
  PROVE  IInv'
<1>0. TypeOK'
  BY TypeStep DEF IInv
<1> USE <1>0, ThreadsAssumption, MaxArmsAssumption
    DEF Threads, startVars, hostVars, callbackVars, hookVars, watchdogVars, joinVars,
        IInv, TypeOK, StartInv, CallInv, HookInv, WatchdogInv, JoinInv, DestroyInv,
        CancelNotLost, OneJoiner, BodyActive, AfterBody, JoinPending
<1>1. ASSUME StartFail PROVE IInv'
  BY <1>1 DEF StartFail
<1>2. ASSUME StartSpawn PROVE IInv'
  BY <1>2 DEF StartSpawn
<1>3. ASSUME StartPopulate PROVE IInv'
  BY <1>3 DEF StartPopulate
<1>4. ASSUME StartReleaseGate PROVE IInv'
  BY <1>4 DEF StartReleaseGate
<1>5. ASSUME Destroy PROVE IInv'
  BY <1>5 DEF Destroy, Goto
<1>6. ASSUME DestroyDelete PROVE IInv'
  BY <1>6 DEF DestroyDelete, Goto
<1>7. ASSUME NEW t \in Threads, CancelStore(t) PROVE IInv'
  BY <1>7 DEF CancelStore, MayUseHandle, Goto
<1>8. ASSUME NEW t \in Threads, CancelTakeHook(t) PROVE IInv'
  BY <1>8 DEF CancelTakeHook, AfterCancel, Goto
<1>9. ASSUME NEW t \in Threads, CancelHookEnds(t) PROVE IInv'
  BY <1>9 DEF CancelHookEnds, Goto
<1>10. ASSUME NEW t \in Threads, CancelClearRunning(t) PROVE IInv'
  BY <1>10 DEF CancelClearRunning, Goto
<1>11. ASSUME NEW t \in Threads, CancelNotify(t) PROVE IInv'
  BY <1>11 DEF CancelNotify, AfterCancel, Goto
<1>12. ASSUME NEW t \in Threads, Join(t) PROVE IInv'
  BY <1>12 DEF Join, MayUseHandle, Goto
<1>13. ASSUME NEW t \in Threads, JoinEnter(t) PROVE IInv'
  BY <1>13 DEF JoinEnter, AfterJoin, Goto
<1>14. ASSUME NEW t \in Threads, JoinWorker(t) PROVE IInv'
  BY <1>14 DEF JoinWorker, Goto
<1>15. ASSUME NEW t \in Threads, JoinMark(t) PROVE IInv'
  BY <1>15 DEF JoinMark, AfterJoin, Goto
<1>16. ASSUME NEW t \in Threads, JoinRecheck(t) PROVE IInv'
  BY <1>16 DEF JoinRecheck, AfterJoin, Goto
<1>17. ASSUME NEW t \in Threads, OnCancelHookEnds(t) PROVE IInv'
  BY <1>17 DEF OnCancelHookEnds, Goto
<1>18. ASSUME NEW t \in Threads, NotifyDataset(t) PROVE IInv'
  BY <1>18 DEF NotifyDataset, MayUseControl, Goto
<1>19. ASSUME NEW t \in Threads, OnDatasetReturns(t) PROVE IInv'
  BY <1>19 DEF OnDatasetReturns, Goto
<1>20. ASSUME NEW t \in Threads, NEW h \in Hooks, OnCancel(t, h) PROVE IInv'
  BY <1>20 DEF OnCancel, MayUseControl, Goto
<1>21. ASSUME AcquireGate PROVE IInv'
  BY <1>21 DEF AcquireGate
<1>22. ASSUME DisarmHook PROVE IInv'
  BY <1>22 DEF DisarmHook
<1>23. ASSUME DisarmRecheck PROVE IInv'
  BY <1>23 DEF DisarmRecheck
<1>24. ASSUME StopWatchdog PROVE IInv'
  BY <1>24 DEF StopWatchdog
<1>25. ASSUME JoinWatchdog PROVE IInv'
  BY <1>25 DEF JoinWatchdog
<1>26. ASSUME ArmSpawn PROVE IInv'
  BY <1>26 DEF ArmSpawn
<1>27. ASSUME ArmStarted PROVE IInv'
  BY <1>27 DEF ArmStarted
<1>28. ASSUME FireTerminal PROVE IInv'
  BY <1>28 DEF FireTerminal
<1>29. ASSUME ArmWatchdog PROVE IInv'
  BY <1>29 DEF ArmWatchdog, WorkerInBody
<1>30. ASSUME BodyReturns PROVE IInv'
  BY <1>30 DEF BodyReturns, WorkerInBody
<1>31. ASSUME OnTerminalReturns PROVE IInv'
  BY <1>31 DEF OnTerminalReturns
<1>32. ASSUME WatchdogStart PROVE IInv'
  BY <1>32 DEF WatchdogStart
<1>33. ASSUME WatchdogWakes PROVE IInv'
  BY <1>33 DEF WatchdogWakes
<1>34. ASSUME OnExpireEnds PROVE IInv'
  BY <1>34 DEF OnExpireEnds
<1>35. ASSUME SpuriousWakeup PROVE IInv'
  BY <1>35 DEF SpuriousWakeup, Goto
<1>37. ASSUME StartReturns PROVE IInv'
  BY <1>37 DEF StartReturns
<1>36. ASSUME UNCHANGED vars PROVE IInv'
  BY <1>36 DEF vars
<1> QED
  BY <1>1, <1>2, <1>3, <1>4, <1>5, <1>6, <1>7, <1>8, <1>9, <1>10, <1>11, <1>12,
     <1>13, <1>14, <1>15, <1>16, <1>17, <1>18, <1>19, <1>20, <1>21, <1>22,
     <1>23, <1>24, <1>25, <1>26, <1>27, <1>28, <1>29, <1>30, <1>31, <1>32,
     <1>33, <1>34, <1>35, <1>36, <1>37 DEF Next, Over, Start, RequestCancel, JobJoin,
     Watchdog, WorkerRun

\* A job in its initial state, before start(), satisfies the invariant.
LEMMA InvInit == Init => IInv
<1> SUFFICES ASSUME Init PROVE IInv
  OBVIOUS
<1> USE ThreadsAssumption DEF Init, Threads
<1>1. TypeOK
  <2>1. /\ call \in [Threads -> CallStates] /\ hookOf \in [Threads -> Hooks \cup {None}]
        /\ job \in JobStates /\ run \in RunStates /\ watchdog \in WatchdogStates
    BY DEF JobStates, RunStates, CallStates, WatchdogStates
  <2>2. arms \in 0..MaxArms
    BY MaxArmsAssumption
  <2>3. /\ registered \subseteq Hooks /\ ran \subseteq Hooks
        /\ cancel_hook \in Hooks \cup {None} /\ datasetCb \in Threads \cup {None}
    OBVIOUS
  <2> QED
    BY <2>1, <2>2, <2>3 DEF TypeOK
<1>2. StartInv /\ WatchdogInv /\ CancelNotLost
  BY DEF StartInv, WatchdogInv, CancelNotLost
<1>3. CallInv
  BY DEF CallInv, BodyActive, JoinPending
<1>4. HookInv
  BY DEF HookInv, AfterBody
<1>5. JoinInv /\ DestroyInv
  BY DEF JoinInv, OneJoiner, DestroyInv
<1> QED
  BY <1>1, <1>2, <1>3, <1>4, <1>5 DEF IInv

\* The invariant, which contains the type invariant, CancelNotLost and OneJoiner,
\* holds in every reachable state of a provider job.
THEOREM Invariance == Spec => []IInv
<1>1. IInv /\ [Next]_vars => IInv'
  BY InvStep
<1> QED
  BY InvInit, <1>1, PTL DEF Spec

\* The safety of the terminal: when it may be called, no hook executes and no
\* watchdog exists; destroy() frees nothing that is in use; no cancel is lost;
\* the worker is joined by one thread.
THEOREM Safety ==
  Spec => [](NothingRunsLate /\ CancelNotLost /\ OneJoiner)
<1>1. IInv => QuietTerminal
  <2>1. ASSUME IInv, run \in {"fire", "inTerminal", "done"} PROVE ~HookRuns
    BY <2>1, ThreadsAssumption
       DEF IInv, TypeOK, HookRuns, HookInv, CallInv, AfterBody, BodyActive, Threads
  <2>2. ASSUME IInv, run \in {"fire", "inTerminal", "done"} PROVE watchdog = "none"
    BY <2>2 DEF IInv, WatchdogInv
  <2> QED
    BY <2>1, <2>2 DEF QuietTerminal
<1>2. IInv => NothingAfterFree
  BY ThreadsAssumption
     DEF IInv, TypeOK, NothingAfterFree, DestroyInv, CallInv, WatchdogInv, BodyActive, Threads
<1>3. IInv => CancelNotLost /\ OneJoiner
  BY DEF IInv, JoinInv
<1> QED
  BY Invariance, <1>1, <1>2, <1>3, PTL DEF NothingRunsLate

\* At most one hook is ever executed, once: hook_fired is set, under hook_mu, by
\* whichever of requestCancel() and onCancel() gets there first.
THEOREM HookOnce == Spec => HookRunsOnce
<1>1. ASSUME IInv, [Next]_vars
      PROVE  [\A t \in Threads : hookOf[t] = None /\ hookOf'[t] # None => ran = {}]_vars
  <2> SUFFICES ASSUME NEW u \in Threads, hookOf[u] = None, hookOf'[u] # None
               PROVE  ran = {}
    OBVIOUS
  <2> USE DEF IInv, TypeOK, HookInv, hookVars
  <2>1. ASSUME NEW t \in Threads, CancelTakeHook(t) PROVE ran = {}
    BY <1>1, <2>1 DEF CancelTakeHook
  <2>2. ASSUME NEW t \in Threads, NEW h \in Hooks, OnCancel(t, h) PROVE ran = {}
    BY <1>1, <2>2 DEF OnCancel
  <2>3. ASSUME NEW t \in Threads, CancelHookEnds(t) \/ OnCancelHookEnds(t) PROVE ran = {}
    BY <1>1, <2>3 DEF CancelHookEnds, OnCancelHookEnds
  <2>4. CASE UNCHANGED hookOf
    BY <2>4
  <2>5. CASE UNCHANGED vars
    BY <2>5 DEF vars
  <2> QED
    BY <1>1, <2>1, <2>2, <2>3, <2>4, <2>5
       DEF Next, Over, Start, RequestCancel, JobJoin, Watchdog, WorkerRun, vars,
           StartFail, StartSpawn, StartPopulate, StartReleaseGate, StartReturns, Destroy, DestroyDelete,
           CancelStore, CancelClearRunning, CancelNotify, Join, JoinEnter, JoinWorker,
           JoinMark, JoinRecheck, NotifyDataset, OnDatasetReturns, AcquireGate, DisarmHook,
           DisarmRecheck, StopWatchdog, JoinWatchdog, ArmSpawn, ArmStarted, FireTerminal,
           ArmWatchdog, BodyReturns, OnTerminalReturns, WatchdogStart, WatchdogWakes,
           OnExpireEnds, SpuriousWakeup
<1> QED
  BY Invariance, <1>1, PTL DEF Spec, HookRunsOnce

\* Every step of the job is a step of the ABI's contract, or leaves the host's
\* view of the job as it is.
LEMMA ContractStep ==
  ASSUME IInv, [Next]_vars
  PROVE  [Contract!Next]_(Contract!vars)
<1> USE ThreadsAssumption
    DEF Threads, startVars, hostVars, callbackVars, hookVars, watchdogVars, joinVars,
        IInv, TypeOK, StartInv, CallInv, JoinInv, DestroyInv, BodyActive, JoinPending,
        Contract!vars
<1>1. ASSUME StartFail PROVE UNCHANGED Contract!vars
  BY <1>1 DEF StartFail
<1>2. ASSUME StartSpawn PROVE UNCHANGED Contract!vars
  BY <1>2 DEF StartSpawn
<1>3. ASSUME StartPopulate PROVE UNCHANGED Contract!vars
  BY <1>3 DEF StartPopulate
<1>4. ASSUME StartReleaseGate PROVE Contract!StartImport
  BY <1>4 DEF StartReleaseGate, Contract!StartImport
<1>5. ASSUME Destroy PROVE UNCHANGED Contract!vars
  BY <1>5 DEF Destroy, Goto
<1>6. ASSUME DestroyDelete PROVE Contract!Destroy
  BY <1>6 DEF DestroyDelete, Goto, Contract!Destroy
<1>7. ASSUME NEW t \in Threads, CancelStore(t) PROVE UNCHANGED Contract!vars
  BY <1>7 DEF CancelStore, MayUseHandle, Goto
<1>8. ASSUME NEW t \in Threads, CancelTakeHook(t)
      PROVE UNCHANGED Contract!vars \/ \E u \in Callers : Contract!Join(u) \/ Contract!JoinReturns(u)
  BY <1>8 DEF CancelTakeHook, AfterCancel, Goto, Contract!Join, Contract!JoinReturns
<1>9. ASSUME NEW t \in Threads, CancelHookEnds(t) PROVE UNCHANGED Contract!vars
  BY <1>9 DEF CancelHookEnds, Goto
<1>10. ASSUME NEW t \in Threads, CancelClearRunning(t) PROVE UNCHANGED Contract!vars
  BY <1>10 DEF CancelClearRunning, Goto
<1>11. ASSUME NEW t \in Threads, CancelNotify(t)
      PROVE UNCHANGED Contract!vars \/ \E u \in Callers : Contract!Join(u) \/ Contract!JoinReturns(u)
  BY <1>11 DEF CancelNotify, AfterCancel, Goto, Contract!Join, Contract!JoinReturns
<1>12. ASSUME NEW t \in Threads, Join(t)
      PROVE UNCHANGED Contract!vars \/ \E u \in Callers : Contract!Join(u) \/ Contract!JoinReturns(u)
  BY <1>12 DEF Join, MayUseHandle, Goto, Contract!Join, Contract!JoinReturns
<1>13. ASSUME NEW t \in Threads, JoinEnter(t)
      PROVE UNCHANGED Contract!vars \/ \E u \in Callers : Contract!Join(u) \/ Contract!JoinReturns(u)
  BY <1>13 DEF JoinEnter, AfterJoin, Goto, Contract!Join, Contract!JoinReturns
<1>14. ASSUME NEW t \in Threads, JoinWorker(t) PROVE UNCHANGED Contract!vars
  BY <1>14 DEF JoinWorker, Goto
<1>15. ASSUME NEW t \in Threads, JoinMark(t)
      PROVE UNCHANGED Contract!vars \/ \E u \in Callers : Contract!Join(u) \/ Contract!JoinReturns(u)
  BY <1>15 DEF JoinMark, AfterJoin, Goto, Contract!Join, Contract!JoinReturns
<1>16. ASSUME NEW t \in Threads, JoinRecheck(t)
      PROVE UNCHANGED Contract!vars \/ \E u \in Callers : Contract!Join(u) \/ Contract!JoinReturns(u)
  BY <1>16 DEF JoinRecheck, AfterJoin, Goto, Contract!Join, Contract!JoinReturns
<1>17. ASSUME NEW t \in Threads, OnCancelHookEnds(t) PROVE UNCHANGED Contract!vars
  BY <1>17 DEF OnCancelHookEnds, Goto
<1>18. ASSUME NEW t \in Threads, NotifyDataset(t) PROVE Contract!OnDataset
  BY <1>18 DEF NotifyDataset, MayUseControl, JobStates, Contract!OnDataset
<1>19. ASSUME NEW t \in Threads, OnDatasetReturns(t) PROVE Contract!OnDatasetReturns
  BY <1>19 DEF OnDatasetReturns, Goto, Contract!OnDatasetReturns
<1>20. ASSUME NEW t \in Threads, NEW h \in Hooks, OnCancel(t, h) PROVE UNCHANGED Contract!vars
  BY <1>20 DEF OnCancel, MayUseControl, Goto
<1>21. ASSUME AcquireGate PROVE UNCHANGED Contract!vars
  BY <1>21 DEF AcquireGate
<1>22. ASSUME DisarmHook PROVE UNCHANGED Contract!vars
  BY <1>22 DEF DisarmHook
<1>23. ASSUME DisarmRecheck PROVE UNCHANGED Contract!vars
  BY <1>23 DEF DisarmRecheck
<1>24. ASSUME StopWatchdog PROVE UNCHANGED Contract!vars
  BY <1>24 DEF StopWatchdog
<1>25. ASSUME JoinWatchdog PROVE UNCHANGED Contract!vars
  BY <1>25 DEF JoinWatchdog
<1>26. ASSUME ArmSpawn PROVE UNCHANGED Contract!vars
  BY <1>26 DEF ArmSpawn
<1>27. ASSUME ArmStarted PROVE UNCHANGED Contract!vars
  BY <1>27 DEF ArmStarted
<1>28. ASSUME FireTerminal PROVE Contract!OnTerminal
  BY <1>28 DEF FireTerminal, JobStates, Contract!OnTerminal
<1>29. ASSUME ArmWatchdog PROVE UNCHANGED Contract!vars
  BY <1>29 DEF ArmWatchdog, WorkerInBody
<1>30. ASSUME BodyReturns PROVE UNCHANGED Contract!vars
  BY <1>30 DEF BodyReturns, WorkerInBody
<1>31. ASSUME OnTerminalReturns PROVE Contract!OnTerminalReturns
  BY <1>31 DEF OnTerminalReturns, Contract!OnTerminalReturns
<1>32. ASSUME WatchdogStart PROVE UNCHANGED Contract!vars
  BY <1>32 DEF WatchdogStart
<1>33. ASSUME WatchdogWakes PROVE UNCHANGED Contract!vars
  BY <1>33 DEF WatchdogWakes
<1>34. ASSUME OnExpireEnds PROVE UNCHANGED Contract!vars
  BY <1>34 DEF OnExpireEnds
<1>35. ASSUME SpuriousWakeup PROVE UNCHANGED Contract!vars
  BY <1>35 DEF SpuriousWakeup, Goto
<1>37. ASSUME StartReturns PROVE UNCHANGED Contract!vars
  BY <1>37 DEF StartReturns
<1>36. ASSUME UNCHANGED vars PROVE UNCHANGED Contract!vars
  BY <1>36 DEF vars
<1> QED
  BY <1>1, <1>2, <1>3, <1>4, <1>5, <1>6, <1>7, <1>8, <1>9, <1>10, <1>11, <1>12,
     <1>13, <1>14, <1>15, <1>16, <1>17, <1>18, <1>19, <1>20, <1>21, <1>22,
     <1>23, <1>24, <1>25, <1>26, <1>27, <1>28, <1>29, <1>30, <1>31, <1>32,
     <1>33, <1>34, <1>35, <1>36, <1>37 DEF Next, Over, Start, RequestCancel, JobJoin,
     Watchdog, WorkerRun, Contract!Next

\* A provider job implements the contract the host relies on.
THEOREM Refinement == Spec => ImplementsContract
<1>1. Init => Contract!Init
  BY DEF Init, Contract!Init, JoinPending, Threads
<1>2. IInv /\ [Next]_vars => [Contract!Next]_(Contract!vars)
  BY ContractStep
<1> QED
  BY Invariance, <1>1, <1>2, PTL DEF Spec, ImplementsContract, Contract!Spec

=============================================================================
