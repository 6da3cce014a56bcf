------------------------- MODULE StrikeTrackerProofs -------------------------
(***************************************************************************)
(* Proofs about StrikeTracker for any number of claims and of faults.      *)
(***************************************************************************)
EXTENDS StrikeTracker, TLAPS

\* A new tracker has charged nothing.
LEMMA TrackerInit == Init => TrackerInv
BY TrackerAssumption DEF Init, TrackerInv, TypeOK, ChargesAddUp, HealthFollowsCounters, Byte, Strikes

\* A violation that is charged moves one claim one strike on.
LEMMA ViolationStep ==
  ASSUME TrackerInv, NEW k \in Claims, RecordViolation(k)
  PROVE  TrackerInv'
<1>0. /\ strikes[k] \in 0..2 /\ quarantine_count[k] \in 0..2
      /\ TypeOK /\ ChargesAddUp /\ HealthFollowsCounters
  <2>1. TypeOK /\ ChargesAddUp /\ HealthFollowsCounters
    BY DEF TrackerInv
  <2>2. strikes[k] \in 0..255 /\ strikes[k] < 3
    BY <2>1 DEF TypeOK, HealthFollowsCounters, Byte, Strikes
  <2>3. quarantine_count[k] \in 0..255 /\ quarantine_count[k] =< 2
    BY <2>1 DEF TypeOK, HealthFollowsCounters, Byte
  <2> QED
    BY <2>1, <2>2, <2>3
<1>1. CASE health[k] # "active"
  <2>1. UNCHANGED <<health, strikes, quarantine_count, charged, recreated>>
    BY <1>1 DEF RecordViolation
  <2>2. TypeOK'
    BY <1>0, <2>1, TrackerAssumption DEF RecordViolation, TypeOK
  <2> QED
    BY <1>0, <2>1, <2>2 DEF TrackerInv, ChargesAddUp, HealthFollowsCounters
<1>2. CASE health[k] = "active" /\ strikes[k] + 1 = Strikes
  <2>1. /\ strikes' = [strikes EXCEPT ![k] = 0]
        /\ quarantine_count' = [quarantine_count EXCEPT ![k] = @ + 1]
        /\ health' = [health EXCEPT ![k] =
                        IF quarantine_count[k] + 1 = 1 THEN "quarantined" ELSE "disabled"]
        /\ charged' = [charged EXCEPT ![k] = @ + 1]
        /\ reported' = [reported EXCEPT ![k] = @ + 1] /\ reported[k] < MaxFaults
        /\ recreated' = recreated
    BY <1>2 DEF RecordViolation, Strike
  <2>2. quarantine_count[k] \in {0, 1}
    BY <1>0, <1>2 DEF HealthFollowsCounters
  <2>3. TypeOK'
    BY <1>0, <2>1, <2>2, TrackerAssumption DEF TypeOK, Byte
  <2>4. ChargesAddUp'
    BY <1>0, <1>2, <2>1, <2>2 DEF ChargesAddUp, TypeOK, Strikes
  <2>5. HealthFollowsCounters'
    BY <1>0, <1>2, <2>1, <2>2 DEF HealthFollowsCounters, TypeOK, Strikes
  <2> QED
    BY <2>3, <2>4, <2>5 DEF TrackerInv
<1>3. CASE health[k] = "active" /\ strikes[k] + 1 # Strikes
  <2>1. /\ strikes' = [strikes EXCEPT ![k] = @ + 1]
        /\ UNCHANGED <<quarantine_count, health, recreated>>
        /\ charged' = [charged EXCEPT ![k] = @ + 1]
        /\ reported' = [reported EXCEPT ![k] = @ + 1] /\ reported[k] < MaxFaults
    BY <1>3 DEF RecordViolation, Strike
  <2>2. strikes[k] + 1 \in 0..2
    BY <1>0, <1>3 DEF Strikes
  <2>3. TypeOK'
    BY <1>0, <2>1, <2>2, TrackerAssumption DEF TypeOK, Byte
  <2>4. ChargesAddUp'
    BY <1>0, <2>1 DEF ChargesAddUp, TypeOK, Byte, Strikes
  <2>5. HealthFollowsCounters'
    BY <1>0, <2>1, <2>2 DEF HealthFollowsCounters, TypeOK, Strikes
  <2> QED
    BY <2>3, <2>4, <2>5 DEF TrackerInv
<1> QED
  BY <1>1, <1>2, <1>3

\* A recreation is granted to a first quarantine only.
LEMMA RecreationStep ==
  ASSUME TrackerInv, NEW k \in Claims, MarkRecreated(k)
  PROVE  TrackerInv'
BY DEF MarkRecreated, TrackerInv, TypeOK, ChargesAddUp, HealthFollowsCounters, Byte, Strikes

\* No step of the tracker breaks the accounts.
LEMMA TrackerStep == TrackerInv /\ [Next]_vars => TrackerInv'
<1>1. TrackerInv /\ UNCHANGED vars => TrackerInv'
  BY DEF TrackerInv, TypeOK, ChargesAddUp, HealthFollowsCounters, vars
<1> QED
  BY <1>1, ViolationStep, RecreationStep DEF Next, Finished

\* The counters of recordFault() and markRecreated() account for every charged
\* violation and for one second chance, for any number of faults.
THEOREM TrackerInvariance == Spec => []TrackerInv
BY TrackerInit, TrackerStep, PTL DEF Spec

\* Disabling is for good and needs three charged violations.
THEOREM TrackerDisables == Spec => DisabledForGood
<1> DEFINE Good(k) == /\ health[k] = "disabled" => health'[k] = "disabled"
                      /\ health[k] = "active" /\ health'[k] # "active" => charged'[k] % Strikes = 0
<1>1. TrackerInv /\ TrackerInv' /\ [Next]_vars => [\A k \in Claims : Good(k)]_vars
  <2> SUFFICES ASSUME TrackerInv, TrackerInv', Next, NEW k \in Claims PROVE Good(k)
    OBVIOUS
  <2>1. CASE UNCHANGED vars
    BY <2>1 DEF vars
  <2>2. ASSUME NEW c \in Claims, RecordViolation(c) PROVE Good(k)
    <3>1. health[k] = "disabled" => health'[k] = "disabled"
      BY <2>2 DEF RecordViolation, Strike, TrackerInv, TypeOK
    <3>2. ASSUME health[k] = "active", health'[k] # "active" PROVE charged'[k] % Strikes = 0
      <4>1. strikes'[k] = 0
        BY <2>2, <3>2 DEF RecordViolation, Strike, TrackerInv, TypeOK
      <4>2. quarantine_count'[k] \in Nat /\ charged'[k] = 3 * quarantine_count'[k]
        <5>1. quarantine_count'[k] \in 0..255 /\ charged'[k] = 3 * quarantine_count'[k] + strikes'[k]
          BY DEF TrackerInv, TypeOK, ChargesAddUp, Byte, Strikes
        <5> QED
          BY <4>1, <5>1
      <4> QED
        BY <4>2 DEF Strikes
    <3> QED
      BY <3>1, <3>2
  <2>3. ASSUME NEW c \in Claims, MarkRecreated(c) PROVE Good(k)
    BY <2>3 DEF MarkRecreated, TrackerInv, TypeOK
  <2> QED
    BY <2>1, <2>2, <2>3 DEF Next, Finished
<1> QED
  BY TrackerInit, TrackerStep, <1>1, PTL DEF Spec, DisabledForGood
=============================================================================
