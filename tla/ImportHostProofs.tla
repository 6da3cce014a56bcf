--------------------------- MODULE ImportHostProofs ---------------------------
(***************************************************************************)
(* Proofs about the machines a host runs around an import, for any number  *)
(* of callback threads, calls, promotions and pollers: the callback        *)
(* context of startImport(), the closure of a promotion with its           *)
(* settlement latch, and the stop poller.  Each machine has its inductive  *)
(* invariant and one lemma per operation; the theorems state the           *)
(* properties for the specification that runs them.                        *)
(***************************************************************************)
EXTENDS MCImportHost, FiniteSetTheorems, TLAPS

-----------------------------------------------------------------------------
(* startImport() and its callback context.                                 *)

Inside == {"refused", "closure", "leaving"}
Dispatching == {c \in Threads : thunk[c] \in Inside}
AllOut == \A c \in Threads : thunk[c] = "out"

\* Nothing has been called before the ABI call has returned a job.
QuietBefore ==
  main \in {"idle", "starting", "refused"} =>
    AllOut /\ ran["terminal"] = 0 /\ finished = {} /\ ~disabled

\* The context lives until startImport() has failed or the job is gone.
ContextFollowsMain ==
  ctx = "freed" => \/ main = "refused"
                   \/ main \in {"failed", "over"} /\ "destroy" \in slots

\* The job's slots decide where the host's thread can be, and dispatch is disabled
\* exactly for a job that cannot be stopped.
SlotsDecide ==
  /\ main \in {"rejecting", "owner", "joining", "resetting", "over"} => "destroy" \in slots
  /\ main = "quiescing" => "destroy" \notin slots
  /\ disabled <=> main \in {"quiescing", "failed"} /\ "destroy" \notin slots

\* A provider that keeps the contract is in one thunk at a time, and a job that was
\* destroyed has delivered its end.
Serialized ==
  "destroy" \in slots =>
    /\ \A c, d \in Threads : thunk[c] # "out" /\ thunk[d] # "out" => c = d
    /\ main \in {"failed", "over"} => Import!JobOver

\* Of such a provider the closure of on_terminal was entered once if it is over or
\* under way, and else not yet.
TerminalCounted ==
  "destroy" \in slots =>
    /\ \A c \in Threads : thunk[c] # "out" => which[c] \notin finished /\ thunk[c] # "refused"
    /\ ran["terminal"] =
         IF \/ "terminal" \in finished
            \/ \E c \in Threads : which[c] = "terminal" /\ thunk[c] \in {"closure", "leaving"}
         THEN 1 ELSE 0

\* A context that was leaked runs no closure.
LeakedIsInert ==
  main = "failed" /\ "destroy" \notin slots => \A c \in Threads : thunk[c] \notin {"closure", "leaving"}

\* The inductive invariant of startImport().
ImportIInv ==
  /\ Import!TypeOK /\ Import!CountIsExact /\ QuietBefore /\ ContextFollowsMain
  /\ SlotsDecide /\ Serialized /\ TerminalCounted /\ LeakedIsInert

\* What startImport() promises follows.
LEMMA ImportIInvSuffices == ImportIInv => ImportInv /\ ClosuresEndWithJob
<1> SUFFICES ASSUME ImportIInv PROVE ImportInv /\ ClosuresEndWithJob
  OBVIOUS
<1> USE DEF ImportIInv
<1>1. Import!ContextOutlivesThunks
  BY DEF Import!ContextOutlivesThunks, ContextFollowsMain, QuietBefore, AllOut, Serialized, Import!JobOver
<1>2. Import!InertAfterReturn
  BY DEF Import!InertAfterReturn, SlotsDecide, Serialized, Import!JobOver, LeakedIsInert
<1>3. Import!TerminalDelivered
  BY DEF Import!TerminalDelivered, SlotsDecide, Serialized, Import!JobOver, TerminalCounted
<1> QED
  BY <1>1, <1>2, <1>3 DEF ImportInv, ClosuresEndWithJob, Import!ImportInv, Import!ClosuresEndWithJob

\* Cardinality and finiteness mean the same on both sides of the instance.
LEMMA ImportFinite ==
  /\ \A S : Import!Cardinality(S) = Cardinality(S)
  /\ IsFiniteSet(Threads) /\ MaxCalls \in Nat
<1>1. \A S : Import!Cardinality(S) = Cardinality(S)
  BY DEF Import!Cardinality, Cardinality
<1>2. IsFiniteSet(Threads)
  BY HostAssumption DEF HostAssumption, Import!ImportAssumption, IsFiniteSet, Import!IsFiniteSet
<1>3. MaxCalls \in Nat
  BY HostAssumption DEF HostAssumption, Import!ImportAssumption
<1> QED
  BY <1>1, <1>2, <1>3

\* What CountIsExact says, and that it says it of a number.
LEMMA CountMeaning ==
  /\ Import!CountIsExact <=> in_flight = Cardinality(Dispatching)
  /\ IsFiniteSet(Dispatching) /\ Cardinality(Dispatching) \in Nat
<1>1. Import!CountIsExact <=> in_flight = Cardinality(Dispatching)
  BY ImportFinite DEF Import!CountIsExact, Dispatching, Inside
<1>2. IsFiniteSet(Dispatching)
  BY ImportFinite, FS_Subset DEF Dispatching
<1> QED
  BY <1>1, <1>2, FS_CardinalityType

LEMMA CountMeaningNext == Import!CountIsExact' <=> in_flight' = Cardinality(Dispatching')
BY ImportFinite DEF Import!CountIsExact, Dispatching, Inside

\* Before startImport() nothing is under way.
LEMMA ImportInit == Import!Init => ImportIInv
<1> SUFFICES ASSUME Import!Init PROVE ImportIInv
  OBVIOUS
<1> USE DEF Import!Init
<1>1. Import!TypeOK
  <2> USE DEF Import!MainStates, Import!ThunkStates, Import!Callbacks, Import!Slots
  <2>1. main \in Import!MainStates /\ slots \subseteq Import!Slots /\ ctx \in {"none", "live", "freed", "leaked"}
    OBVIOUS
  <2>2. disabled \in BOOLEAN /\ in_flight \in Nat
    OBVIOUS
  <2>3. thunk \in [Threads -> Import!ThunkStates] /\ which \in [Threads -> Import!Callbacks]
    OBVIOUS
  <2>4. ran \in [Import!Callbacks -> Nat] /\ finished \subseteq Import!Callbacks
    OBVIOUS
  <2>5. calls \in 0..MaxCalls
    BY ImportFinite
  <2> QED
    BY <2>1, <2>2, <2>3, <2>4, <2>5 DEF Import!TypeOK
<1>2. Import!CountIsExact
  <2>1. Dispatching = {}
    BY DEF Dispatching, Inside
  <2> QED
    BY <2>1, CountMeaning, FS_EmptySet
<1>3. ran["terminal"] = 0
  BY DEF Import!Callbacks
<1> QED
  BY <1>1, <1>2, <1>3 DEF ImportIInv, QuietBefore, AllOut, ContextFollowsMain, SlotsDecide, Serialized,
     TerminalCounted, LeakedIsInert

\* The host's thread: it moves between its places and leaves the dispatches alone.
LEMMA HostThreadStep ==
  ASSUME ImportIInv,
         \/ Import!Start \/ Import!StartRefused \/ Import!StartAccepted \/ Import!RejectDestroyed
         \/ Import!Join \/ Import!JoinReturns \/ Import!Reset \/ Import!ResetDestroyed
  PROVE  ImportIInv'
<1> USE DEF ImportIInv, Import!Start, Import!StartRefused, Import!StartAccepted, Import!RejectDestroyed,
        Import!Join, Import!JoinReturns, Import!Reset, Import!ResetDestroyed, Import!dispatch
<1>0. UNCHANGED <<disabled, in_flight, thunk, which, ran, calls, finished>>
  OBVIOUS
<1>1. Import!TypeOK'
  BY <1>0 DEF Import!TypeOK, Import!MainStates, Import!Slots
<1>2. Import!CountIsExact'
  BY <1>0 DEF Import!CountIsExact
<1>3. QuietBefore' /\ ContextFollowsMain'
  BY <1>0 DEF QuietBefore, AllOut, ContextFollowsMain, SlotsDecide
<1>4. SlotsDecide'
  BY <1>0 DEF SlotsDecide, QuietBefore, Import!Slots
<1>5. Serialized'
  BY <1>0 DEF Serialized, SlotsDecide, QuietBefore, AllOut, Import!JobOver
<1>6. TerminalCounted'
  BY <1>0 DEF TerminalCounted, SlotsDecide, QuietBefore, AllOut
<1>7. LeakedIsInert'
  BY <1>0 DEF LeakedIsInert, SlotsDecide
<1> QED
  BY <1>1, <1>2, <1>3, <1>4, <1>5, <1>6, <1>7

\* The check of the job disables dispatch exactly when the job has no destroy slot.
LEMMA CheckJobStep == ASSUME ImportIInv, Import!CheckJob PROVE ImportIInv'
<1> USE DEF ImportIInv, Import!CheckJob
<1>1. Import!TypeOK'
  BY DEF Import!TypeOK, Import!MainStates
<1>2. Import!CountIsExact'
  BY DEF Import!CountIsExact
<1>3. QuietBefore' /\ ContextFollowsMain' /\ SlotsDecide'
  BY DEF QuietBefore, ContextFollowsMain, SlotsDecide, Import!Slots
<1>4. Serialized' /\ TerminalCounted' /\ LeakedIsInert'
  BY DEF Serialized, TerminalCounted, LeakedIsInert, Import!JobOver
<1> QED
  BY <1>1, <1>2, <1>3, <1>4

\* quiesce() returns on a count of zero, which leaves no closure under way.
LEMMA QuiescedStep == ASSUME ImportIInv, Import!Quiesced PROVE ImportIInv'
<1> USE DEF ImportIInv, Import!Quiesced, Import!dispatch
<1>1. Import!TypeOK'
  BY DEF Import!TypeOK, Import!MainStates
<1>2. Import!CountIsExact'
  BY DEF Import!CountIsExact
<1>3. QuietBefore' /\ ContextFollowsMain' /\ SlotsDecide'
  BY DEF QuietBefore, ContextFollowsMain, SlotsDecide
<1>4. Serialized' /\ TerminalCounted'
  BY DEF Serialized, TerminalCounted, SlotsDecide
<1>5. LeakedIsInert'
  <2>1. Dispatching = {}
    BY CountMeaning, FS_EmptySet
  <2> QED
    BY <2>1 DEF LeakedIsInert, Dispatching, Inside
<1> QED
  BY <1>1, <1>2, <1>3, <1>4, <1>5

\* The provider calls back: nothing is counted yet.
LEMMA CallbackStep ==
  ASSUME ImportIInv, NEW c \in Threads, NEW k \in Import!Callbacks, Import!Callback(c, k)
  PROVE  ImportIInv'
<1> USE DEF ImportIInv, Import!Callback
<1>0. /\ thunk \in [Threads -> Import!ThunkStates] /\ which \in [Threads -> Import!Callbacks]
      /\ calls \in 0..MaxCalls /\ MaxCalls \in Nat
  BY ImportFinite DEF Import!TypeOK
<1>1. Import!TypeOK'
  <2>1. thunk' \in [Threads -> Import!ThunkStates] /\ which' \in [Threads -> Import!Callbacks]
    BY <1>0 DEF Import!ThunkStates
  <2>2. calls' \in 0..MaxCalls
    BY <1>0
  <2> QED
    BY <2>1, <2>2 DEF Import!TypeOK
<1>2. Import!CountIsExact'
  <2>1. Dispatching' = Dispatching
    BY <1>0 DEF Dispatching, Inside
  <2> QED
    BY <2>1, CountMeaning, CountMeaningNext
<1>3. QuietBefore' /\ ContextFollowsMain' /\ SlotsDecide'
  BY <1>0 DEF QuietBefore, ContextFollowsMain, SlotsDecide
<1>4. Serialized'
  BY <1>0 DEF Serialized, Import!KeepsContract, Import!JobOver
<1>5. TerminalCounted'
  BY <1>0 DEF TerminalCounted, Import!KeepsContract
<1>6. LeakedIsInert'
  BY <1>0 DEF LeakedIsInert
<1> QED
  BY <1>1, <1>2, <1>3, <1>4, <1>5, <1>6

\* fetch_add counts one dispatch more; only an enabled one enters its closure.
LEMMA ThunkEnterStep ==
  ASSUME ImportIInv, NEW c \in Threads, Import!ThunkEnter(c)
  PROVE  ImportIInv'
<1> USE DEF ImportIInv, Import!ThunkEnter
<1>0. /\ thunk \in [Threads -> Import!ThunkStates] /\ which \in [Threads -> Import!Callbacks]
      /\ ran \in [Import!Callbacks -> Nat] /\ in_flight \in Nat /\ which[c] \in Import!Callbacks
  BY DEF Import!TypeOK
<1>1. Import!TypeOK'
  <2>1. thunk' \in [Threads -> Import!ThunkStates]
    BY <1>0 DEF Import!ThunkStates
  <2>2. ran' \in [Import!Callbacks -> Nat]
    BY <1>0
  <2>3. in_flight' \in Nat
    BY <1>0
  <2> QED
    BY <2>1, <2>2, <2>3 DEF Import!TypeOK
<1>2. Import!CountIsExact'
  <2>1. c \notin Dispatching /\ Dispatching' = Dispatching \cup {c}
    BY <1>0 DEF Dispatching, Inside
  <2>2. Cardinality(Dispatching') = Cardinality(Dispatching) + 1
    BY <2>1, CountMeaning, FS_AddElement
  <2> QED
    BY <2>2, CountMeaning, CountMeaningNext
<1>3. QuietBefore' /\ ContextFollowsMain' /\ SlotsDecide'
  BY <1>0 DEF QuietBefore, AllOut, ContextFollowsMain, SlotsDecide
<1>4. Serialized'
  BY <1>0 DEF Serialized, Import!JobOver
<1>5. TerminalCounted'
  <2> SUFFICES ASSUME "destroy" \in slots PROVE TerminalCounted'
    BY DEF TerminalCounted
  <2>1. ~disabled
    BY DEF SlotsDecide
  <2>2. thunk' = [thunk EXCEPT ![c] = "closure"] /\ ran' = [ran EXCEPT ![which[c]] = @ + 1]
    BY <2>1, <1>0
  <2>3. \A d \in Threads : d # c => thunk[d] = "out"
    BY DEF Serialized
  <2>4. which[c] \notin finished
    BY DEF TerminalCounted
  <2>5. CASE which[c] = "terminal"
    BY <2>2, <2>3, <2>4, <2>5, <1>0 DEF TerminalCounted
  <2>6. CASE which[c] # "terminal"
    BY <2>2, <2>3, <2>4, <2>6, <1>0 DEF TerminalCounted, Import!Callbacks
  <2> QED
    BY <2>5, <2>6
<1>6. LeakedIsInert'
  BY <1>0 DEF LeakedIsInert, SlotsDecide
<1> QED
  BY <1>1, <1>2, <1>3, <1>4, <1>5, <1>6

\* A closure that returns, or throws, is still counted.
LEMMA ClosureReturnsStep ==
  ASSUME ImportIInv, NEW c \in Threads, Import!ClosureReturns(c)
  PROVE  ImportIInv'
<1> USE DEF ImportIInv, Import!ClosureReturns
<1>0. thunk \in [Threads -> Import!ThunkStates]
  BY DEF Import!TypeOK
<1>1. Import!TypeOK'
  <2>1. thunk' \in [Threads -> Import!ThunkStates]
    BY <1>0 DEF Import!ThunkStates
  <2> QED
    BY <2>1 DEF Import!TypeOK
<1>2. Import!CountIsExact'
  <2>1. Dispatching' = Dispatching
    BY <1>0 DEF Dispatching, Inside
  <2> QED
    BY <2>1, CountMeaning, CountMeaningNext
<1>3. QuietBefore' /\ ContextFollowsMain' /\ SlotsDecide'
  BY <1>0 DEF QuietBefore, AllOut, ContextFollowsMain, SlotsDecide
<1>4. Serialized'
  BY <1>0 DEF Serialized, Import!JobOver
<1>5. TerminalCounted'
  BY <1>0 DEF TerminalCounted
<1>6. LeakedIsInert'
  BY <1>0 DEF LeakedIsInert
<1> QED
  BY <1>1, <1>2, <1>3, <1>4, <1>5, <1>6

\* fetch_sub takes back one dispatch that was counted.
LEMMA ThunkLeaveStep ==
  ASSUME ImportIInv, NEW c \in Threads, Import!ThunkLeave(c)
  PROVE  ImportIInv'
<1> USE DEF ImportIInv, Import!ThunkLeave
<1>0. /\ thunk \in [Threads -> Import!ThunkStates] /\ which \in [Threads -> Import!Callbacks]
      /\ which[c] \in Import!Callbacks
  BY DEF Import!TypeOK
<1>2. in_flight' \in Nat /\ Import!CountIsExact'
  <2>1. c \in Dispatching /\ Dispatching' = Dispatching \ {c}
    BY <1>0 DEF Dispatching, Inside
  <2>2. Cardinality(Dispatching') = Cardinality(Dispatching) - 1 /\ IsFiniteSet(Dispatching')
    BY <2>1, CountMeaning, FS_RemoveElement
  <2>3. Cardinality(Dispatching') \in Nat
    BY <2>2, FS_CardinalityType
  <2> QED
    BY <2>2, <2>3, CountMeaning, CountMeaningNext
<1>1. Import!TypeOK'
  <2>1. thunk' \in [Threads -> Import!ThunkStates]
    BY <1>0 DEF Import!ThunkStates
  <2>2. finished' \subseteq Import!Callbacks
    BY <1>0 DEF Import!TypeOK
  <2> QED
    BY <1>2, <2>1, <2>2 DEF Import!TypeOK
<1>3. QuietBefore' /\ ContextFollowsMain' /\ SlotsDecide'
  BY <1>0 DEF QuietBefore, AllOut, ContextFollowsMain, SlotsDecide
<1>4. Serialized'
  BY <1>0 DEF Serialized, Import!JobOver
<1>5. TerminalCounted'
  <2> SUFFICES ASSUME "destroy" \in slots PROVE TerminalCounted'
    BY DEF TerminalCounted
  <2>1. \A d \in Threads : d # c => thunk[d] = "out"
    BY DEF Serialized
  <2>2. thunk' = [thunk EXCEPT ![c] = "out"] /\ thunk[c] = "leaving"
    BY DEF TerminalCounted
  <2> QED
    BY <2>1, <2>2, <1>0 DEF TerminalCounted
<1>6. LeakedIsInert'
  BY <1>0 DEF LeakedIsInert
<1> QED
  BY <1>1, <1>2, <1>3, <1>4, <1>5, <1>6

LEMMA ImportStep == ImportIInv /\ [Import!Next]_importVars => ImportIInv'
<1> SUFFICES ASSUME ImportIInv, [Import!Next]_importVars PROVE ImportIInv'
  OBVIOUS
<1>1. CASE UNCHANGED importVars
  <2>1. UNCHANGED <<main, slots, ctx, disabled, in_flight, thunk, which, ran, calls, finished>>
    BY <1>1 DEF importVars
  <2> QED
    BY <2>1 DEF ImportIInv, Import!TypeOK, Import!CountIsExact, QuietBefore, AllOut, ContextFollowsMain,
       SlotsDecide, Serialized, Import!JobOver, TerminalCounted, LeakedIsInert
<1>2. CASE Import!Finished
  BY <1>1, <1>2 DEF Import!Finished, Import!vars, importVars
<1> QED
  BY <1>1, <1>2, HostThreadStep, CheckJobStep, QuiescedStep, CallbackStep, ThunkEnterStep,
     ClosureReturnsStep, ThunkLeaveStep DEF Import!Next, Import!Thunk

\* A step of the host is a step of startImport() or leaves it alone.
LEMMA HostStepsImport == [MCNext]_allVars => [Import!Next]_importVars
BY DEF MCNext, Rest, allVars

LEMMA ImportIInvariance == MCSpec => []ImportIInv
<1>1. MCInit => ImportIInv
  BY ImportInit DEF MCInit
<1>2. ImportIInv /\ [MCNext]_allVars => ImportIInv'
  BY ImportStep, HostStepsImport
<1> QED
  BY <1>1, <1>2, PTL DEF MCSpec

\* startImport(), JoinableJob and the thunks, for any number of provider threads and
\* of calls: dispatch_state counts the dispatches under way exactly, and no thunk
\* touches a context that was freed.
THEOREM ImportSafety == MCSpec => []ImportInv
BY ImportIInvariance, ImportIInvSuffices, PTL

\* Once startImport() has failed or the job is gone no closure runs, and the owner of
\* a job has heard its end exactly once.
THEOREM ImportEndsWithJob == MCSpec => []ClosuresEndWithJob
BY ImportIInvariance, ImportIInvSuffices, PTL

-----------------------------------------------------------------------------
(* promoteToFileSource() and the settlement latch.                         *)

\* The block of the closure follows the request: raw until the result comes, the
\* thunk's from then on, freed with the thunk or by the rejected call.
BlockFollowsRequest ==
  \A r \in Requests :
    /\ host[r] = "idle" => closure[r] = "none"
    /\ host[r] \in {"called", "accepted"} => closure[r] = "raw"
    /\ host[r] \in {"settling", "settled"} => closure[r] = "thunk"
    /\ host[r] \in {"done", "rejected"} => closure[r] = "freed"

\* The inductive invariant of a promotion.
PromotionIInv == BlockInv /\ BlockFollowsRequest

LEMMA PromotionInit == Promotion!Init => PromotionIInv
<1> SUFFICES ASSUME Promotion!Init PROVE PromotionIInv
  OBVIOUS
<1> USE DEF Promotion!Init
<1>1. Promotion!TypeOK
  BY DEF Promotion!TypeOK, Promotion!Verdicts
<1>2. Promotion!FreedOnce /\ Promotion!ThunkOwnsBlock /\ BlockFollowsRequest
  BY DEF Promotion!FreedOnce, Promotion!ThunkOwnsBlock, BlockFollowsRequest
<1> QED
  BY <1>1, <1>2 DEF PromotionIInv, BlockInv, Promotion!BlockInv

\* The steps of promoteToFileSource(), of the host and of the thunk move the request
\* and its block together.
LEMMA RequestStep ==
  ASSUME PromotionIInv, NEW r \in Requests,
         \/ Promotion!Promote(r) \/ Promotion!Rejected(r) \/ Promotion!HostAccepts(r)
         \/ \E v \in Promotion!Verdicts : Promotion!ResultThunk(r, v)
         \/ Promotion!ThunkReturns(r)
  PROVE  PromotionIInv'
<1> USE DEF PromotionIInv, BlockInv, Promotion!BlockInv
<1>0. Promotion!TypeOK /\ Promotion!FreedOnce /\ BlockFollowsRequest
  OBVIOUS
<1>1. CASE Promotion!Promote(r)
  <2> USE <1>1 DEF Promotion!Promote, Promotion!Goes, Promotion!Host, Promotion!latch
  <2>1. Promotion!TypeOK'
    BY <1>0 DEF Promotion!TypeOK
  <2>2. Promotion!FreedOnce' /\ Promotion!ThunkOwnsBlock' /\ BlockFollowsRequest'
    BY <1>0 DEF Promotion!TypeOK, Promotion!FreedOnce, Promotion!ThunkOwnsBlock, BlockFollowsRequest
  <2> QED
    BY <2>1, <2>2
<1>2. CASE Promotion!Rejected(r)
  <2> USE <1>2 DEF Promotion!Rejected, Promotion!Goes, Promotion!Host, Promotion!Free, Promotion!latch
  <2>0. frees[r] = 0
    BY <1>0 DEF Promotion!FreedOnce
  <2>1. Promotion!TypeOK'
    BY <1>0, <2>0 DEF Promotion!TypeOK
  <2>2. Promotion!FreedOnce' /\ Promotion!ThunkOwnsBlock' /\ BlockFollowsRequest'
    BY <1>0, <2>0 DEF Promotion!TypeOK, Promotion!FreedOnce, Promotion!ThunkOwnsBlock, BlockFollowsRequest
  <2> QED
    BY <2>1, <2>2
<1>3. CASE Promotion!HostAccepts(r)
  <2> USE <1>3 DEF Promotion!HostAccepts, Promotion!Host, Promotion!latch
  <2>1. Promotion!TypeOK'
    BY <1>0 DEF Promotion!TypeOK
  <2>2. Promotion!FreedOnce' /\ Promotion!ThunkOwnsBlock' /\ BlockFollowsRequest'
    BY <1>0 DEF Promotion!TypeOK, Promotion!FreedOnce, Promotion!ThunkOwnsBlock, BlockFollowsRequest
  <2> QED
    BY <2>1, <2>2
<1>4. ASSUME NEW v \in Promotion!Verdicts, Promotion!ResultThunk(r, v) PROVE PromotionIInv'
  <2> USE <1>4 DEF Promotion!ResultThunk, Promotion!Host, Promotion!latch
  <2>1. Promotion!TypeOK'
    BY <1>0 DEF Promotion!TypeOK
  <2>2. Promotion!FreedOnce' /\ Promotion!ThunkOwnsBlock' /\ BlockFollowsRequest'
    BY <1>0 DEF Promotion!TypeOK, Promotion!FreedOnce, Promotion!ThunkOwnsBlock, BlockFollowsRequest
  <2> QED
    BY <2>1, <2>2
<1>5. CASE Promotion!ThunkReturns(r)
  <2> USE <1>5 DEF Promotion!ThunkReturns, Promotion!Host, Promotion!Free, Promotion!latch
  <2>0. frees[r] = 0
    BY <1>0 DEF Promotion!FreedOnce
  <2>1. Promotion!TypeOK'
    BY <1>0, <2>0 DEF Promotion!TypeOK
  <2>2. Promotion!FreedOnce' /\ Promotion!ThunkOwnsBlock' /\ BlockFollowsRequest'
    BY <1>0, <2>0 DEF Promotion!TypeOK, Promotion!FreedOnce, Promotion!ThunkOwnsBlock, BlockFollowsRequest
  <2> QED
    BY <2>1, <2>2
<1> QED
  BY <1>1, <1>2, <1>3, <1>4, <1>5

\* Settling and cancelling touch the latch, and a settling closure its request.
LEMMA LatchStep ==
  ASSUME PromotionIInv, NEW r \in Requests,
         Promotion!ClosureSettles(r) \/ Promotion!OtherSettles(r) \/ Promotion!Cancel(r)
  PROVE  PromotionIInv'
<1> USE DEF PromotionIInv, BlockInv, Promotion!BlockInv, Promotion!ClosureSettles, Promotion!OtherSettles,
        Promotion!Cancel, Promotion!Settle, Promotion!Host, Promotion!latch
<1>1. Promotion!TypeOK'
  <2>0. Promotion!TypeOK /\ "failed" \in Promotion!Verdicts
    BY DEF Promotion!Verdicts
  <2>1. CASE Promotion!ClosureSettles(r)
    BY <2>0, <2>1 DEF Promotion!TypeOK
  <2>2. CASE Promotion!OtherSettles(r)
    BY <2>0, <2>2 DEF Promotion!TypeOK
  <2>3. CASE Promotion!Cancel(r)
    BY <2>0, <2>3 DEF Promotion!TypeOK
  <2> QED
    BY <2>1, <2>2, <2>3
<1>2. Promotion!FreedOnce' /\ Promotion!ThunkOwnsBlock' /\ BlockFollowsRequest'
  BY DEF Promotion!TypeOK, Promotion!FreedOnce, Promotion!ThunkOwnsBlock, BlockFollowsRequest
<1> QED
  BY <1>1, <1>2

\* The provider's thread waits and reads; the block is none of its business.
LEMMA WaiterStep ==
  ASSUME PromotionIInv, NEW r \in Requests, Promotion!Waiter(r)
  PROVE  PromotionIInv'
<1> USE DEF PromotionIInv, BlockInv, Promotion!BlockInv, Promotion!Waiter, Promotion!Accepted, Promotion!Wait,
        Promotion!Wakes, Promotion!ReadsVerdict, Promotion!Goes, Promotion!latch
<1>1. Promotion!TypeOK'
  <2>1. UNCHANGED <<host, closure, frees, verdict, settled, ok, cancelled>>
    OBVIOUS
  <2>2. body' \in [Requests -> {"idle", "calling", "waiting", "asleep", "reading", "over"}]
    BY DEF Promotion!TypeOK
  <2>3. answer' \in [Requests -> Promotion!Verdicts \cup {"none", "rejected", "cancelled"}]
    BY DEF Promotion!TypeOK
  <2> QED
    BY <2>1, <2>2, <2>3 DEF Promotion!TypeOK
<1>2. Promotion!FreedOnce' /\ Promotion!ThunkOwnsBlock' /\ BlockFollowsRequest'
  BY DEF Promotion!FreedOnce, Promotion!ThunkOwnsBlock, BlockFollowsRequest
<1> QED
  BY <1>1, <1>2

LEMMA PromotionStep == PromotionIInv /\ [Promotion!Next]_promotionVars => PromotionIInv'
<1> SUFFICES ASSUME PromotionIInv, [Promotion!Next]_promotionVars PROVE PromotionIInv'
  OBVIOUS
<1>1. CASE UNCHANGED promotionVars
  <2>1. UNCHANGED <<body, host, closure, frees, verdict, settled, ok, cancelled, answer>>
    BY <1>1 DEF promotionVars
  <2> QED
    BY <2>1 DEF PromotionIInv, BlockInv, Promotion!BlockInv, Promotion!TypeOK, Promotion!FreedOnce,
       Promotion!ThunkOwnsBlock, BlockFollowsRequest
<1>2. CASE Promotion!Finished
  BY <1>1, <1>2 DEF Promotion!Finished, Promotion!vars, promotionVars
<1> QED
  BY <1>1, <1>2, RequestStep, LatchStep, WaiterStep DEF Promotion!Next, Promotion!Result

\* A step of the host is a step of a promotion or leaves all of them alone.
LEMMA HostStepsPromotion == [MCNext]_allVars => [Promotion!Next]_promotionVars
BY DEF MCNext, Rest, allVars

LEMMA PromotionIInvariance == MCSpec => []PromotionIInv
<1>1. MCInit => PromotionIInv
  BY PromotionInit DEF MCInit
<1>2. PromotionIInv /\ [MCNext]_allVars => PromotionIInv'
  BY PromotionStep, HostStepsPromotion
<1> QED
  BY <1>1, <1>2, PTL DEF MCSpec

\* The block of promoteToFileSource() is freed exactly once and the thunk runs on a
\* block that is there, for any number of promotions at the same time.
THEOREM PromotionSafety == MCSpec => []BlockInv
BY PromotionIInvariance, PTL DEF PromotionIInv

\* The first settle is final for the latch, and beats a cancel for who waits on it.
THEOREM LatchFirstSettleWins == MCSpec => FirstSettleWins
<1> DEFINE Stable == \A r \in Requests : settled[r] => settled'[r] /\ ok'[r] = ok[r]
           Wins == \A r \in Requests : settled[r] /\ answer[r] = "none" => answer'[r] # "cancelled"
<1>1. PromotionIInv /\ [Promotion!Next]_promotionVars => [Stable /\ Wins]_promotionVars
  <2> SUFFICES ASSUME Promotion!TypeOK, Promotion!Next,
                      NEW q \in Requests, settled[q],
                      ~UNCHANGED promotionVars
               PROVE  /\ settled'[q] /\ ok'[q] = ok[q]
                      /\ answer[q] = "none" => answer'[q] # "cancelled"
    BY DEF PromotionIInv, BlockInv, Promotion!BlockInv
  <2>0. PICK r \in Requests :
          \/ Promotion!Promote(r) \/ Promotion!Rejected(r) \/ Promotion!HostAccepts(r)
          \/ \E v \in Promotion!Verdicts : Promotion!ResultThunk(r, v)
          \/ Promotion!Result(r) \/ Promotion!OtherSettles(r) \/ Promotion!Cancel(r) \/ Promotion!Waiter(r)
    BY DEF Promotion!Next, Promotion!Finished, Promotion!vars, promotionVars
  <2>1. CASE \/ Promotion!Promote(r) \/ Promotion!HostAccepts(r) \/ Promotion!ThunkReturns(r)
             \/ (\E v \in Promotion!Verdicts : Promotion!ResultThunk(r, v)) \/ Promotion!Cancel(r)
             \/ Promotion!Accepted(r) \/ Promotion!Wakes(r)
    <3>1. UNCHANGED <<settled, ok, answer>>
      BY <2>1 DEF Promotion!Promote, Promotion!HostAccepts, Promotion!ThunkReturns, Promotion!ResultThunk,
         Promotion!Cancel, Promotion!Accepted, Promotion!Wakes, Promotion!latch
    <3> QED
      BY <3>1
  <2>2. CASE Promotion!Rejected(r)
    BY <2>2 DEF Promotion!Rejected, Promotion!latch, Promotion!TypeOK
  <2>3. CASE Promotion!ClosureSettles(r) \/ Promotion!OtherSettles(r)
    BY <2>3 DEF Promotion!ClosureSettles, Promotion!OtherSettles, Promotion!Settle, Promotion!TypeOK
  <2>4. CASE Promotion!Wait(r)
    BY <2>4 DEF Promotion!Wait, Promotion!latch, Promotion!TypeOK
  <2>5. CASE Promotion!ReadsVerdict(r)
    BY <2>5 DEF Promotion!ReadsVerdict, Promotion!latch, Promotion!TypeOK, Promotion!Verdicts
  <2> QED
    BY <2>0, <2>1, <2>2, <2>3, <2>4, <2>5 DEF Promotion!Result, Promotion!Waiter
<1>2. PromotionIInv /\ [MCNext]_allVars => [Stable]_promotionVars /\ [Wins]_promotionVars
  BY <1>1, HostStepsPromotion
<1>3. MCSpec => [][Stable]_promotionVars /\ [][Wins]_promotionVars
  BY <1>2, PromotionIInvariance, PTL DEF MCSpec
<1> QED
  BY <1>3 DEF FirstSettleWins, Promotion!FirstSettleWins, Promotion!VerdictStable, Promotion!SettledWins,
     Promotion!vars, promotionVars

-----------------------------------------------------------------------------
(* The stop poller.                                                        *)

\* The thread acts only after Stop, has not acted while it still runs, and a joined
\* thread has exited.
ThreadActsOnce ==
  \A p \in Pollers :
    /\ poller[p] = "act" => requested
    /\ poller[p] # "exited" => cancels[p] = 0

\* The inductive invariant of the poller.
PollerIInv == PollerInv /\ ThreadActsOnce

LEMMA PollerInit == Poller!Init => PollerIInv
<1> SUFFICES ASSUME Poller!Init PROVE PollerIInv
  OBVIOUS
<1> USE DEF Poller!Init
<1>1. Poller!TypeOK
  <2>1. cancels \in [Pollers -> 0..1]
    OBVIOUS
  <2>2. /\ requested \in BOOLEAN /\ locked \in [Pollers -> BOOLEAN] /\ stopped \in [Pollers -> BOOLEAN]
        /\ notified \in [Pollers -> BOOLEAN]
    OBVIOUS
  <2>3. poller \in [Pollers -> Poller!PollerStates] /\ owner \in [Pollers -> Poller!OwnerStates]
    BY DEF Poller!PollerStates, Poller!OwnerStates
  <2> QED
    BY <2>1, <2>2, <2>3 DEF Poller!TypeOK
<1>2. Poller!CancelsOnce /\ Poller!NothingAfterRelease /\ ThreadActsOnce
  BY DEF Poller!CancelsOnce, Poller!NothingAfterRelease, ThreadActsOnce
<1> QED
  BY <1>1, <1>2 DEF PollerIInv, PollerInv, Poller!PollerInv

\* The thread: every step but the action leaves the count alone, and an exited
\* thread makes none.
LEMMA ThreadStep ==
  ASSUME PollerIInv, NEW p \in Pollers, Poller!Thread(p)
  PROVE  PollerIInv'
<1> USE DEF PollerIInv, PollerInv, Poller!PollerInv, Poller!Thread, Poller!PollerGoes, Poller!Begin, Poller!Top,
        Poller!Check, Poller!Act, Poller!Relock, Poller!Predicate, Poller!Park, Poller!Wake, Poller!Timeout
<1>0. UNCHANGED <<requested, stopped, owner>>
  OBVIOUS
<1>1. /\ poller[p] # "exited"
      /\ \E to \in Poller!PollerStates, holds \in BOOLEAN :
           /\ poller' = [poller EXCEPT ![p] = to] /\ locked' = [locked EXCEPT ![p] = holds]
           /\ to = "act" => requested
  BY DEF Poller!PollerStates
<1>2. \/ cancels' = cancels
      \/ Poller!Act(p) /\ cancels' = [cancels EXCEPT ![p] = 1] /\ poller'[p] = "exited" /\ requested
  BY DEF Poller!TypeOK, ThreadActsOnce
<1>3. notified' \in [Pollers -> BOOLEAN]
  BY DEF Poller!TypeOK
<1>4. Poller!TypeOK'
  <2>1. poller' \in [Pollers -> Poller!PollerStates] /\ locked' \in [Pollers -> BOOLEAN]
    BY <1>1 DEF Poller!TypeOK
  <2>2. cancels' \in [Pollers -> 0..1]
    BY <1>2 DEF Poller!TypeOK
  <2> QED
    BY <1>0, <1>3, <2>1, <2>2 DEF Poller!TypeOK
<1>5. Poller!CancelsOnce' /\ ThreadActsOnce'
  <2> USE DEF Poller!TypeOK, Poller!CancelsOnce, ThreadActsOnce
  <2>1. CASE cancels' = cancels
    BY <1>0, <1>1, <2>1
  <2>2. CASE cancels' = [cancels EXCEPT ![p] = 1] /\ poller'[p] = "exited" /\ requested
    BY <1>0, <1>1, <2>2
  <2> QED
    BY <1>2, <2>1, <2>2
<1>6. Poller!NothingAfterRelease'
  BY <1>0, <1>1 DEF Poller!NothingAfterRelease, Poller!TypeOK
<1> QED
  BY <1>4, <1>5, <1>6

\* The owner and the user: a join waits for the thread to exit.
LEMMA OwnerStep ==
  ASSUME PollerIInv,
         \/ Poller!RequestStop
         \/ \E p \in Pollers : Poller!Stop(p) \/ Poller!StopAndJoin(p) \/ Poller!Release(p)
  PROVE  PollerIInv'
<1> USE DEF PollerIInv, PollerInv, Poller!PollerInv, Poller!RequestStop, Poller!Stop, Poller!StopAndJoin,
        Poller!Notify, Poller!Join, Poller!Release
<1>0. UNCHANGED <<locked, poller, cancels>> /\ (requested => requested')
  OBVIOUS
<1>1. Poller!TypeOK'
  <2>1. requested' \in BOOLEAN
    BY DEF Poller!TypeOK
  <2>2. stopped' \in [Pollers -> BOOLEAN] /\ notified' \in [Pollers -> BOOLEAN]
    BY DEF Poller!TypeOK
  <2>3. owner' \in [Pollers -> Poller!OwnerStates]
    BY DEF Poller!TypeOK, Poller!OwnerStates
  <2> QED
    BY <1>0, <2>1, <2>2, <2>3 DEF Poller!TypeOK
<1>2. Poller!CancelsOnce' /\ ThreadActsOnce'
  BY <1>0 DEF Poller!CancelsOnce, ThreadActsOnce, Poller!TypeOK
<1>3. Poller!NothingAfterRelease'
  BY <1>0 DEF Poller!NothingAfterRelease, Poller!TypeOK
<1> QED
  BY <1>1, <1>2, <1>3

LEMMA PollerStep == PollerIInv /\ [Poller!Next]_pollerVars => PollerIInv'
<1> SUFFICES ASSUME PollerIInv, [Poller!Next]_pollerVars PROVE PollerIInv'
  OBVIOUS
<1>1. CASE UNCHANGED pollerVars
  <2>1. UNCHANGED <<requested, locked, stopped, poller, notified, owner, cancels>>
    BY <1>1 DEF pollerVars
  <2> QED
    BY <2>1 DEF PollerIInv, PollerInv, Poller!PollerInv, Poller!TypeOK, Poller!CancelsOnce,
       Poller!NothingAfterRelease, ThreadActsOnce
<1>2. CASE Poller!Finished
  BY <1>1, <1>2 DEF Poller!Finished, Poller!vars, pollerVars
<1> QED
  BY <1>1, <1>2, ThreadStep, OwnerStep DEF Poller!Next

\* A step of the host is a step of a poller or leaves all of them alone.
LEMMA HostStepsPoller == [MCNext]_allVars => [Poller!Next]_pollerVars
BY DEF MCNext, Rest, allVars

\* The stop poller, for any number of pollers: the cancel action runs at most once,
\* only because Stop was pressed, and nothing of a poller runs after stopAndJoin().
THEOREM PollerSafety == MCSpec => []PollerInv
<1>1. MCInit => PollerIInv
  BY PollerInit DEF MCInit
<1>2. PollerIInv /\ [MCNext]_allVars => PollerIInv'
  BY PollerStep, HostStepsPoller
<1>3. PollerIInv => PollerInv
  BY DEF PollerIInv
<1> QED
  BY <1>1, <1>2, <1>3, PTL DEF MCSpec
=============================================================================
