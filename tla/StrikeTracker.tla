---------------------------- MODULE StrikeTracker ----------------------------
(***************************************************************************)
(* ParserModuleStrikeTracker (pj_plugins/src/parser_module_runtime.cpp):   *)
(* what a host does with the contract violations of a parser module's      *)
(* claim.  Three of them quarantine the claim; a host that has recreated   *)
(* its instance may reactivate it once; three more disable it for good.    *)
(*                                                                         *)
(* Several instances of one claim report to the tracker, so faults of      *)
(* instances that were parsing when the claim was quarantined arrive late, *)
(* before or after it is recreated.  A key absent from the map reads as    *)
(* the default state.                                                      *)
(***************************************************************************)
EXTENDS Naturals

CONSTANTS
  Claims,      \* (module id, claim id) keys
  MaxFaults    \* bound: contract violations reported for a claim

ASSUME TrackerAssumption == MaxFaults \in Nat

Strikes == 3
Byte    == 0..255    \* both counters are uint8_t

VARIABLES
  health, strikes, quarantine_count,   \* ParserModuleStrikeState of a claim
  reported,    \* contract violations reported for a claim
  charged,     \* those that arrived while it was active
  recreated    \* successful markRecreated() calls

vars == <<health, strikes, quarantine_count, reported, charged, recreated>>

TypeOK ==
  /\ health \in [Claims -> {"active", "quarantined", "disabled"}]
  /\ strikes \in [Claims -> Byte]
  /\ quarantine_count \in [Claims -> Byte]
  /\ reported \in [Claims -> 0..MaxFaults]
  /\ charged \in [Claims -> Nat]
  /\ recreated \in [Claims -> Nat]

Init ==
  /\ health = [k \in Claims |-> "active"]
  /\ strikes = [k \in Claims |-> 0]
  /\ quarantine_count = [k \in Claims |-> 0]
  /\ reported = [k \in Claims |-> 0]
  /\ charged = [k \in Claims |-> 0]
  /\ recreated = [k \in Claims |-> 0]

-----------------------------------------------------------------------------
\* recordFault() of a violation while the claim is active: a strike, and the
\* third one changes the health.
Strike(k) ==
  IF strikes[k] + 1 = Strikes
  THEN /\ strikes' = [strikes EXCEPT ![k] = 0]
       /\ quarantine_count' = [quarantine_count EXCEPT ![k] = @ + 1]
       /\ health' = [health EXCEPT ![k] =
                       IF quarantine_count[k] + 1 = 1 THEN "quarantined" ELSE "disabled"]
  ELSE /\ strikes' = [strikes EXCEPT ![k] = @ + 1]
       /\ UNCHANGED <<quarantine_count, health>>

\* Mutant: a late violation counts whatever the health.
RecordViolationAlways(k) ==
  /\ reported[k] < MaxFaults
  /\ reported' = [reported EXCEPT ![k] = @ + 1]
  /\ charged' = [charged EXCEPT ![k] = IF health[k] = "active" THEN @ + 1 ELSE @]
  /\ Strike(k)
  /\ UNCHANGED recreated

\* recordFault() of a contract violation.
RecordViolation(k) ==
  /\ reported[k] < MaxFaults
  /\ reported' = [reported EXCEPT ![k] = @ + 1]
  /\ \/ health[k] = "active" /\ charged' = [charged EXCEPT ![k] = @ + 1] /\ Strike(k)
     \/ health[k] # "active" /\ UNCHANGED <<charged, health, strikes, quarantine_count>>
  /\ UNCHANGED recreated

\* Mutant: any claim can be recreated.
MarkRecreatedAlways(k) ==
  /\ health[k] # "active"
  /\ health' = [health EXCEPT ![k] = "active"]
  /\ recreated' = [recreated EXCEPT ![k] = @ + 1]
  /\ UNCHANGED <<strikes, quarantine_count, reported, charged>>

\* markRecreated(), after the host has replayed create and bind.
MarkRecreated(k) ==
  /\ health[k] = "quarantined"
  /\ health' = [health EXCEPT ![k] = "active"]
  /\ recreated' = [recreated EXCEPT ![k] = @ + 1]
  /\ UNCHANGED <<strikes, quarantine_count, reported, charged>>

\* Data errors change nothing, and neither does a refused markRecreated().
Finished == (\A k \in Claims : reported[k] = MaxFaults) /\ UNCHANGED vars

Next == (\E k \in Claims : RecordViolation(k) \/ MarkRecreated(k)) \/ Finished

Spec == Init /\ [][Next]_vars

-----------------------------------------------------------------------------
(* Properties.                                                             *)

\* Every violation that is charged shows up in one of the counters: none is lost
\* at a change of health, and a late one is never charged twice.
ChargesAddUp ==
  \A k \in Claims : charged[k] = Strikes * quarantine_count[k] + strikes[k]

\* The health is what the counters say; in particular a claim gets one second
\* chance and no third.
HealthFollowsCounters ==
  \A k \in Claims :
    /\ quarantine_count[k] =< 2 /\ (quarantine_count[k] = 2 <=> health[k] = "disabled")
    /\ health[k] = "quarantined" => quarantine_count[k] = 1
    /\ recreated[k] = IF health[k] = "quarantined" THEN 0
                      ELSE IF quarantine_count[k] >= 1 THEN 1 ELSE 0
    /\ strikes[k] < Strikes

\* Both together are inductive, and keep the counters of recordFault() and
\* markRecreated() within a byte.
TrackerInv == TypeOK /\ ChargesAddUp /\ HealthFollowsCounters

\* A disabled claim stays disabled, and only three charged violations in a row
\* take an active one out of service.
DisabledForGood ==
  [][\A k \in Claims :
       /\ health[k] = "disabled" => health'[k] = "disabled"
       /\ health[k] = "active" /\ health'[k] # "active" => charged'[k] % Strikes = 0]_vars
=============================================================================
