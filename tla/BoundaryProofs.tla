---------------------------- MODULE BoundaryProofs --------------------------
(***************************************************************************)
(* Proofs about the contracts of PluginBoundary, the widget document and   *)
(* the numbers on the wire, for every set of holders, callers, ids,        *)
(* libraries, handles, schemas, types, values and paths, whatever the      *)
(* bounds and the sizes of the words.  Each machine has an inductive       *)
(* invariant of its own.                                                   *)
(***************************************************************************)
EXTENDS PluginBoundary, WidgetProtocol, WireNumbers, Integers, FiniteSetTheorems, SequenceTheorems,
        WellFoundedInduction, TLAPS

-----------------------------------------------------------------------------
(* Who releases what crosses the boundary.                                 *)

Unowned(r) == r \notin store /\ \A h \in Holders : holder[h] # r
Held(r) == r \notin store /\ \E h \in Holders : holder[h] = r /\ \A g \in Holders : holder[g] = r => g = h
Stored(r) == r \in store /\ \A h \in Holders : holder[h] # r

OwnershipType ==
  /\ made \in Nat /\ made =< MaxMade
  /\ holder \in [Holders -> 0..made]
  /\ store \subseteq 1..made /\ streams \subseteq 1..made
  /\ freed \in [1..MaxMade -> Nat]

\* A resource is released and forgotten, or unreleased with one owner; what is not
\* built yet was not released.
OwnershipIInv ==
  /\ OwnershipType
  /\ \A r \in 1..MaxMade : IF r =< made THEN \/ freed[r] = 1 /\ Unowned(r)
                                             \/ freed[r] = 0 /\ (Held(r) \/ Stored(r))
                                        ELSE freed[r] = 0

LEMMA MadeBound == MaxMade \in Nat
  BY BoundaryAssumption DEF BoundaryAssumption, Ownership!MadeAssumption

\* A release counts one more.
LEMMA ReleaseType ==
  ASSUME OwnershipType, NEW r \in 0..MaxMade
  PROVE  Ownership!Released(r) \in [1..MaxMade -> Nat]
  BY MadeBound DEF OwnershipType, Ownership!Released

LEMMA OwnershipStep ==
  ASSUME OwnershipIInv, [Ownership!Next]_(Ownership!ownVars)
  PROVE  OwnershipIInv'
<1> USE MadeBound DEF OwnershipIInv, OwnershipType, Ownership!Build, Ownership!Resources
<1> DEFINE Good(r) == IF r =< made THEN \/ freed[r] = 1 /\ Unowned(r)
                                        \/ freed[r] = 0 /\ (Held(r) \/ Stored(r))
                                   ELSE freed[r] = 0
<1>1. CASE UNCHANGED Ownership!ownVars
  BY <1>1 DEF Ownership!ownVars, Unowned, Held, Stored
<1>2. ASSUME NEW h \in Holders, Ownership!Acquire(h) PROVE OwnershipIInv'
  <2>1. OwnershipType'
    <3>1. holder[h] \in 0..MaxMade
      BY <1>2 DEF Ownership!Acquire
    <3>2. freed' \in [1..MaxMade -> Nat]
      BY <1>2, <3>1, ReleaseType DEF Ownership!Acquire
    <3>3. made' \in Nat /\ made' =< MaxMade
      BY <1>2 DEF Ownership!Acquire
    <3>4. holder' \in [Holders -> 0..made'] /\ store' \subseteq 1..made' /\ streams' \subseteq 1..made'
      BY <1>2 DEF Ownership!Acquire
    <3> QED
      BY <3>2, <3>3, <3>4
  <2>2. \A r \in 1..MaxMade : Good(r)'
    BY <1>2 DEF Ownership!Acquire, Ownership!Released, Unowned, Held, Stored
  <2> QED
    BY <2>1, <2>2
<1>3. ASSUME NEW h \in Holders, Ownership!BuildStream(h) PROVE OwnershipIInv'
  <2>1. OwnershipType'
    BY <1>3 DEF Ownership!BuildStream
  <2>2. \A r \in 1..MaxMade : Good(r)'
    BY <1>3 DEF Ownership!BuildStream, Unowned, Held, Stored
  <2> QED
    BY <2>1, <2>2
<1>4. ASSUME NEW h \in Holders, Ownership!ResetHolder(h) \/ Ownership!AppendStream(h) PROVE OwnershipIInv'
  <2>1. /\ made' = made /\ store' = store /\ streams' = streams
        /\ holder' = [holder EXCEPT ![h] = 0] /\ freed' = Ownership!Released(holder[h])
    BY <1>4 DEF Ownership!ResetHolder, Ownership!AppendStream
  <2>2. holder[h] \in 0..MaxMade /\ holder' \in [Holders -> 0..made']
    BY <2>1
  <2>3. freed' \in [1..MaxMade -> Nat]
    BY <2>1, <2>2, ReleaseType
  <2>4. \A r \in 1..MaxMade : Good(r)'
    BY <2>1 DEF Ownership!Released, Unowned, Held, Stored
  <2> QED
    BY <2>1, <2>2, <2>3, <2>4
<1>5. ASSUME NEW h \in Holders, Ownership!AppendStreamFailed(h) PROVE OwnershipIInv'
  BY <1>1, <1>5 DEF Ownership!AppendStreamFailed
<1>6. ASSUME NEW g \in Holders, NEW h \in Holders, Ownership!MoveHolder(g, h) PROVE OwnershipIInv'
  <2>1. OwnershipType'
    BY <1>6 DEF Ownership!MoveHolder, Ownership!Released
  <2>2. \A r \in 1..MaxMade : Good(r)'
    BY <1>6 DEF Ownership!MoveHolder, Ownership!Released, Unowned, Held, Stored
  <2> QED
    BY <2>1, <2>2
<1>7. ASSUME made < MaxMade, made' = made + 1, freed' = Ownership!Released(made + 1),
             UNCHANGED <<holder, streams, store>>
      PROVE  OwnershipIInv'
  <2>1. made + 1 \in 0..MaxMade /\ holder' \in [Holders -> 0..made']
    BY <1>7
  <2>2. freed' \in [1..MaxMade -> Nat]
    BY <1>7, <2>1, ReleaseType
  <2>3. store' \subseteq 1..made' /\ streams' \subseteq 1..made'
    BY <1>7
  <2>4. \A r \in 1..MaxMade : Good(r)'
    BY <1>7 DEF Ownership!Released, Unowned, Held, Stored
  <2> QED
    BY <1>7, <2>1, <2>2, <2>3, <2>4
<1>8. ASSUME made < MaxMade, made' = made + 1, store' = store \cup {made + 1},
             UNCHANGED <<holder, streams, freed>>
      PROVE  OwnershipIInv'
  <2>1. holder' \in [Holders -> 0..made']
    BY <1>8
  <2>2. store' \subseteq 1..made' /\ streams' \subseteq 1..made'
    BY <1>8
  <2>3. \A r \in 1..MaxMade : Good(r)'
    BY <1>8 DEF Unowned, Held, Stored
  <2> QED
    BY <1>8, <2>1, <2>2, <2>3
<1>10. CASE \/ Ownership!AcquireMalformed \/ Ownership!StoreRefused \/ Ownership!PushLazyFailed
            \/ Ownership!PushLazy \/ Ownership!PushMessage
  BY <1>7, <1>8, <1>10 DEF Ownership!AcquireMalformed, Ownership!StoreRefused, Ownership!PushLazyFailed,
                           Ownership!PushLazy, Ownership!PushMessage
<1>9. ASSUME NEW r \in 1..MaxMade, Ownership!Evict(r) PROVE OwnershipIInv'
  <2>1. OwnershipType'
    BY <1>9 DEF Ownership!Evict, Ownership!Released
  <2>2. \A s \in 1..MaxMade : Good(s)'
    BY <1>9 DEF Ownership!Evict, Ownership!Released, Unowned, Held, Stored
  <2> QED
    BY <2>1, <2>2
<1> QED
  BY <1>1, <1>2, <1>3, <1>4, <1>5, <1>6, <1>7, <1>8, <1>9, <1>10 DEF Ownership!Next

\* Every snapshot, Arrow struct, stream, fetch box and message fetcher that crosses
\* the boundary has one owner until its release runs, and it runs once, whatever
\* fails on the way (the holders of sdk/plugin_data_api.hpp).
THEOREM OwnershipReleasesOnce == Ownership!Spec => []ReleasedOnce
<1>1. Ownership!Init => OwnershipIInv
  BY BoundaryAssumption DEF BoundaryAssumption, Ownership!MadeAssumption, Ownership!Init, OwnershipIInv,
     OwnershipType, Ownership!Resources
<1>2. OwnershipIInv => ReleasedOnce
  <2> SUFFICES ASSUME OwnershipIInv, NEW r \in 1..made
               PROVE  \/ freed[r] = 1 /\ Ownership!Keepers(r) = {}
                      \/ freed[r] = 0 /\ \E k \in Ownership!Keepers(r) : Ownership!Keepers(r) = {k}
    BY DEF ReleasedOnce, Ownership!ReleasedOnce
  <2>1. r \in 1..MaxMade /\ r =< made
    BY BoundaryAssumption DEF BoundaryAssumption, Ownership!MadeAssumption, OwnershipIInv, OwnershipType
  <2>2. CASE freed[r] = 1 /\ Unowned(r)
    BY <2>2 DEF Unowned, Ownership!Keepers
  <2>3. CASE freed[r] = 0 /\ Held(r)
    <3>1. PICK h \in Holders : holder[h] = r /\ \A g \in Holders : holder[g] = r => g = h
      BY <2>3 DEF Held
    <3>2. Ownership!Keepers(r) = {h}
      BY <2>3, <3>1 DEF Held, Ownership!Keepers
    <3> QED
      BY <2>3, <3>2
  <2>4. CASE freed[r] = 0 /\ Stored(r)
    <3>1. Ownership!Keepers(r) = {"store"}
      BY <2>4 DEF Stored, Ownership!Keepers
    <3> QED
      BY <2>4, <3>1
  <2> QED
    BY <2>1, <2>2, <2>3, <2>4 DEF OwnershipIInv
<1> QED
  BY <1>1, <1>2, OwnershipStep, PTL DEF Ownership!Spec

-----------------------------------------------------------------------------
(* The functional parser.                                                  *)

ParseType ==
  /\ parse = [kind |-> parse.kind, table |-> parse.table, count |-> parse.count,
              record |-> parse.record, refused |-> parse.refused]
  /\ parse.kind \in {"idle", "scalars", "object"}
  /\ parse.count \in Nat
  /\ parse.record \in Types \cup {Parsers!NoType}
  /\ parse.refused \in BOOLEAN

\* A call that the sink has not seen has no record; after one call a record means that
\* the sink took it.  An anchor is with the plugin during a call only.
ParserIInv ==
  /\ ParseType
  /\ parse.kind = "idle" => parse = Parsers!Idle
  /\ parse.count = 0 => parse.record = Parsers!NoType /\ ~parse.refused
  /\ parse.count = 1 /\ parse.record # Parsers!NoType => ~parse.refused
  /\ anchor = "plugin" => parse.kind # "idle"
  /\ Parsers!SuccessIsOneRecord

\* What a call of the sink makes of the call under way.
LEMMA SinkStep ==
  ASSUME ParserIInv, parse.kind # "idle",
         UNCHANGED <<plugin, bound, expected, anchor, answered>>,
         \/ \E ok \in BOOLEAN : parse' = Parsers!acceptScalarRecord(ok)
         \/ \E type \in Types, decodes \in BOOLEAN : parse' = Parsers!acceptObject(type, decodes)
         \/ \E type \in Types, inside, decodes \in BOOLEAN :
              parse' = Parsers!acceptObjectSpliced(type, inside, decodes)
  PROVE  ParserIInv'
<1>1. ParseType /\ parse.count \in Nat
  BY DEF ParserIInv, ParseType
<1> DEFINE Made(record, refused) ==
             [kind |-> parse.kind, table |-> parse.table, count |-> parse.count + 1,
              record |-> record, refused |-> refused]
<1>2. PICK record \in Types \cup {Parsers!NoType}, refused \in BOOLEAN :
        parse' = Made(record, refused) /\ (record = parse.record \/ ~refused)
  <2>1. ASSUME NEW ok \in BOOLEAN, parse' = Parsers!acceptScalarRecord(ok)
        PROVE  parse' = Made(parse.record, parse.count # 0 \/ ~ok)
    BY <1>1, <2>1 DEF Parsers!acceptScalarRecord, ParseType
  <2>2. ASSUME NEW type \in Types, NEW decodes \in BOOLEAN, parse' = Parsers!acceptObject(type, decodes)
        PROVE  parse' = Made(parse.record, TRUE) \/ parse' = Made(type, FALSE)
    BY <1>1, <2>2 DEF Parsers!acceptObject, ParseType
  <2>3. ASSUME NEW type \in Types, NEW inside \in BOOLEAN, NEW decodes \in BOOLEAN,
               parse' = Parsers!acceptObjectSpliced(type, inside, decodes)
        PROVE  parse' = Made(parse.record, TRUE) \/ parse' = Made(type, FALSE)
    BY <1>1, <2>2, <2>3 DEF Parsers!acceptObjectSpliced, ParseType
  <2>4. parse.record \in Types \cup {Parsers!NoType}
    BY <1>1 DEF ParseType
  <2> HIDE DEF Made
  <2> QED
    BY <2>1, <2>2, <2>3, <2>4
<1>3. /\ parse'.kind = parse.kind /\ parse'.table = parse.table /\ parse'.count = parse.count + 1
      /\ parse'.record = record /\ parse'.refused = refused
  BY <1>2
<1>4. /\ ParseType' /\ parse'.kind = parse.kind /\ parse'.count = parse.count + 1
      /\ parse'.record = parse.record \/ ~parse'.refused
  BY <1>1, <1>2, <1>3 DEF ParseType
<1>5. Parsers!SuccessIsOneRecord'
  BY <1>4 DEF ParserIInv, Parsers!SuccessIsOneRecord, Parsers!Idle
<1> QED
  BY <1>1, <1>4, <1>5 DEF ParserIInv

LEMMA ParserStep ==
  ASSUME ParserIInv, [Parsers!Next]_(Parsers!parseVars)
  PROVE  ParserIInv'
<1>1. CASE UNCHANGED Parsers!parseVars
  BY <1>1 DEF Parsers!parseVars, ParserIInv, ParseType, Parsers!SuccessIsOneRecord
<1>2. ASSUME NEW s \in Schemas, Parsers!BindSchema(s) \/ Parsers!ClassifySchema(s) PROVE ParserIInv'
  <2>1. parse' = parse /\ anchor' = anchor /\ plugin' = plugin /\ answered' = Parsers!NoResult
    BY <1>2 DEF Parsers!BindSchema, Parsers!ClassifySchema
  <2> QED
    BY <2>1 DEF ParserIInv, ParseType, Parsers!SuccessIsOneRecord, Parsers!NoResult
<1>3. ASSUME NEW kind \in {"scalars", "object"}, NEW anchored \in BOOLEAN, Parsers!Enter(kind, anchored)
      PROVE  ParserIInv'
  <2>1. CASE Parsers!Table = 0
    <3>1. parse' = parse /\ anchor' = anchor /\ ~answered'.ok
      BY <1>3, <2>1 DEF Parsers!Enter, Parsers!NoResult
    <3> QED
      BY <3>1 DEF ParserIInv, ParseType, Parsers!SuccessIsOneRecord
  <2>2. CASE Parsers!Table # 0
    <3>1. /\ parse' = [Parsers!Idle EXCEPT !.kind = kind, !.table = Parsers!Table]
          /\ answered' = Parsers!NoResult
      BY <1>3, <2>2 DEF Parsers!Enter
    <3>2. ParseType' /\ parse'.kind = kind /\ parse'.count = 0 /\ parse'.record = Parsers!NoType /\ ~parse'.refused
      BY <3>1 DEF Parsers!Idle, ParseType
    <3>3. Parsers!SuccessIsOneRecord'
      BY <3>1, <3>2 DEF Parsers!SuccessIsOneRecord, Parsers!NoResult, Parsers!Idle
    <3> QED
      BY <3>2, <3>3 DEF ParserIInv
  <2> QED
    BY <2>1, <2>2
<1>4. CASE Parsers!SdkRuns
  BY <1>4, SinkStep DEF Parsers!SdkRuns
<1>5. CASE Parsers!RawCallsSink
  BY <1>5, SinkStep DEF Parsers!RawCallsSink
<1>6. CASE Parsers!Return
  <2>1. PICK answer \in BOOLEAN :
          /\ plugin.sdk => answer = (parse.count = 1 /\ ~parse.refused)
          /\ answered' = [kind |-> parse.kind, ok |-> Parsers!Verdict(answer), count |-> parse.count,
                          record |-> parse.record, refused |-> parse.refused]
    BY <1>6 DEF Parsers!Return
  <2>2. parse' = Parsers!Idle /\ anchor' # "plugin" /\ plugin' = plugin
    BY <1>6 DEF Parsers!Return
  <2>3. ParseType' /\ parse'.count = 0 /\ parse'.record = Parsers!NoType /\ ~parse'.refused
    BY <2>2 DEF ParseType, Parsers!Idle
  <2>4. Parsers!SuccessIsOneRecord'
    BY <2>1, <2>2 DEF Parsers!SuccessIsOneRecord, Parsers!Verdict, ParserIInv, ParseType
  <2> QED
    BY <2>2, <2>3, <2>4 DEF ParserIInv
<1> QED
  BY <1>1, <1>2, <1>3, <1>4, <1>5, <1>6 DEF Parsers!Next

\* A parse call that succeeds delivered one record, whatever a plugin without the SDK
\* does, for every set of schemas and object types and any number of sink calls
\* (MessageParserHandle::parseObjectFunctional() and parseScalarsFunctional()).
THEOREM ParserDeliversOnce == Parsers!Spec => []SuccessIsOneRecord
<1>1. Parsers!Init => ParserIInv
  BY DEF Parsers!Init, Parsers!Fresh, ParserIInv, ParseType, Parsers!Idle, Parsers!NoResult,
         Parsers!SuccessIsOneRecord
<1>2. ParserIInv => SuccessIsOneRecord
  BY DEF ParserIInv, SuccessIsOneRecord
<1> QED
  BY <1>1, <1>2, ParserStep, PTL DEF Parsers!Spec

-----------------------------------------------------------------------------
(* Count, then fill.                                                       *)

Smaller(a, b) == IF a =< b THEN a ELSE b

LEMMA MinOfTwo == \A a, b \in Nat : Lists!Min({a, b}) = Smaller(a, b)
  BY DEF Lists!Min, Smaller

\* The views that compare what was reported with what they asked for.
CarefulViews == {"listBorrowedStrings", "collectResolvedTopics"}

\* A filled buffer holds the smaller of its size and of the reported total.
ListsIInv ==
  /\ len \in Nat /\ buffer \in Nat /\ filled \in Nat /\ total \in Nat
  /\ pc \in {"idle", "counted", "again", "filled"}
  /\ pc # "idle" => caller \in CarefulViews
  /\ pc = "counted" => total = buffer /\ filled = 0
  /\ pc \in {"again", "filled"} => filled = Smaller(buffer, total)
  /\ Lists!EntriesWereWritten

LEMMA ListsStep ==
  ASSUME Callers \subseteq CarefulViews, ListsIInv, [Lists!Next]_(Lists!listVars)
  PROVE  ListsIInv'
<1> USE BoundaryAssumption DEF BoundaryAssumption, Lists!LenAssumption
<1>1. CASE UNCHANGED Lists!listVars
  BY <1>1 DEF Lists!listVars, ListsIInv, Lists!EntriesWereWritten
<1>2. CASE Lists!HostChanges
  BY <1>2 DEF Lists!HostChanges, ListsIInv, Lists!EntriesWereWritten
<1>3. CASE Lists!SlotFails
  BY <1>3 DEF Lists!SlotFails, Lists!Failed, ListsIInv, Lists!EntriesWereWritten
<1>4. ASSUME NEW m \in Callers, Lists!Count(m) PROVE ListsIInv'
  BY <1>4 DEF Lists!Count, ListsIInv, Lists!EntriesWereWritten
<1>5. CASE Lists!Fill
  <2>1. buffer # 0 => filled' = Smaller(buffer, len)
    BY <1>5, MinOfTwo DEF Lists!Fill, ListsIInv
  <2> QED
    BY <1>5, <2>1 DEF Lists!Fill, ListsIInv, Smaller, Lists!EntriesWereWritten
<1>6. ASSUME NEW declared \in 0..MaxLen, Lists!Upsert(declared) PROVE ListsIInv'
  <2>1. buffer' \in Nat /\ len \in Nat
    BY <1>6 DEF Lists!Upsert, ListsIInv
  <2>2. filled' = Smaller(buffer', len)
    BY <1>6, <2>1, MinOfTwo DEF Lists!Upsert
  <2> QED
    BY <1>6, <2>1, <2>2 DEF Lists!Upsert, ListsIInv, Smaller, CarefulViews, Lists!EntriesWereWritten
<1>7. CASE Lists!Reissue
  <2>1. total > buffer => filled' = Smaller(total, len)
    BY <1>7, MinOfTwo DEF Lists!Reissue, ListsIInv
  <2> QED
    BY <1>7, <2>1 DEF Lists!Reissue, ListsIInv, Smaller, Lists!EntriesWereWritten
<1>8. CASE Lists!Return
  <2>1. filled = Smaller(buffer, total) /\ caller \in CarefulViews
    BY <1>8 DEF Lists!Return, ListsIInv
  <2>2. \A n \in Nat : Lists!Listed(n, n).written = n /\ Lists!Listed(n, n).size = n
    BY MinOfTwo DEF Lists!Listed, Smaller
  <2>3. CASE caller = "listBorrowedStrings"
    <3>1. Lists!Answer = IF total > buffer THEN Lists!Failed ELSE Lists!Listed(total, filled)
      BY <2>3 DEF Lists!Answer
    <3>2. total =< buffer => filled = total
      BY <2>1 DEF Smaller, ListsIInv
    <3> QED
      BY <1>8, <2>2, <3>1, <3>2 DEF Lists!Return, ListsIInv, Lists!Failed, Lists!EntriesWereWritten
  <2>4. CASE caller = "collectResolvedTopics"
    <3>1. Lists!Answer = Lists!Listed(Lists!Min({total, buffer}), filled)
      BY <2>4 DEF Lists!Answer
    <3>2. Lists!Min({total, buffer}) = filled
      BY <2>1, MinOfTwo DEF ListsIInv, Smaller
    <3> QED
      BY <1>8, <2>2, <3>1, <3>2 DEF Lists!Return, ListsIInv, Lists!EntriesWereWritten
  <2> QED
    BY <2>1, <2>3, <2>4 DEF CarefulViews
<1> QED
  BY <1>1, <1>2, <1>3, <1>4, <1>5, <1>6, <1>7, <1>8 DEF Lists!Next

\* A list that listBorrowedStrings or collectResolvedTopics returns has only entries
\* the host wrote, however the host's list changes between the two calls.
THEOREM ListsAreWritten ==
  ASSUME Callers \subseteq CarefulViews
  PROVE  Lists!Spec => []EntriesWereWritten
<1>1. Lists!Init => ListsIInv
  BY BoundaryAssumption DEF BoundaryAssumption, Lists!LenAssumption, Lists!Init, Lists!Fresh, Lists!Failed,
     ListsIInv, Lists!EntriesWereWritten
<1>2. ListsIInv => EntriesWereWritten
  BY DEF ListsIInv, EntriesWereWritten
<1>3. ListsIInv /\ [Lists!Next]_(Lists!listVars) => ListsIInv'
  BY ListsStep
<1> QED
  BY <1>1, <1>2, <1>3, PTL DEF Lists!Spec

-----------------------------------------------------------------------------
(* The service tables.                                                     *)

\* What every view owes its vtable: a check that looks at struct_size, or a slot of
\* v1; and an error, not an empty answer, for a write.
Guarded(t) ==
  /\ t.v1 \in Nat
  /\ \A i \in 1..Len(t.slots) :
       LET check == t.view[t.slots[i]] IN
       /\ check.guard \in Guards /\ check.absent \in Answers
       /\ check.guard \in {"bound", "slot"} => i =< t.v1
       /\ check.absent \in {"empty", "void"} => t.slots[i] \notin ServiceCalls!Writes

LEMMA ToolboxGuarded == Guarded(Trait(PJ_toolbox_host_vtable, ToolboxWrites ++ ToolboxReads ++ ToolboxObjects))
<1> DEFINE t == Trait(PJ_toolbox_host_vtable, ToolboxWrites ++ ToolboxReads ++ ToolboxObjects)
<1>1. /\ t.v1 = 5 /\ Len(t.slots) = 13 /\ t.view = ToolboxWrites ++ ToolboxReads ++ ToolboxObjects
      /\ \A i \in 1..13 : t.slots[i] = PJ_toolbox_host_vtable.slots[i]
  BY DEF Trait, PJ_toolbox_host_vtable, Vtable
<1> HIDE DEF t
<1>2. \A i \in 1..5 : t.view[t.slots[i]] = [guard |-> "bound", absent |-> "error"]
  BY <1>1 DEF ToolboxWrites, ToolboxReads, ToolboxObjects, EachSlot, ++, PJ_toolbox_host_vtable, Vtable
<1>3. \A i \in 6..8 : t.view[t.slots[i]] = [guard |-> "tail", absent |-> "error"]
  BY <1>1 DEF ToolboxWrites, ToolboxReads, ToolboxObjects, EachSlot, ++, PJ_toolbox_host_vtable, Vtable
<1>4. \A i \in 9..12 : t.view[t.slots[i]] = [guard |-> "argument", absent |-> "error"]
  BY <1>1 DEF ToolboxWrites, ToolboxReads, ToolboxObjects, EachSlot, ++, PJ_toolbox_host_vtable, Vtable
<1>5. t.view[t.slots[13]] = [guard |-> "tail", absent |-> "error"]
  BY <1>1 DEF ToolboxWrites, ToolboxReads, ToolboxObjects, EachSlot, ++, PJ_toolbox_host_vtable, Vtable
<1>6. Guarded(t)
  BY <1>1, <1>2, <1>3, <1>4, <1>5 DEF Guarded, Guards, Answers
<1> QED
  BY <1>6 DEF t

LEMMA ObjectReadGuarded == Guarded(Trait(PJ_object_read_host_vtable, ToolboxObjectReadHostView ++ ObjectBytes))
<1> DEFINE t == Trait(PJ_object_read_host_vtable, ToolboxObjectReadHostView ++ ObjectBytes)
<1>1. /\ t.v1 = 8 /\ Len(t.slots) = 9 /\ t.view = ToolboxObjectReadHostView ++ ObjectBytes
      /\ \A i \in 1..9 : t.slots[i] = PJ_object_read_host_vtable.slots[i]
  BY DEF Trait, PJ_object_read_host_vtable, Vtable
<1> HIDE DEF t
<1>2. \A i \in 1..8 : t.view[t.slots[i]].guard = "slot" /\ t.view[t.slots[i]].absent \in Answers
  BY <1>1 DEF ToolboxObjectReadHostView, ObjectBytes, EachSlot, ++, PJ_object_read_host_vtable, Vtable, Answers
<1>3. t.view[t.slots[9]].guard = "tail" /\ t.view[t.slots[9]].absent \in Answers
  BY <1>1 DEF ToolboxObjectReadHostView, ObjectBytes, EachSlot, ++, PJ_object_read_host_vtable, Vtable, Answers
<1>4. \A i \in 1..9 : t.slots[i] \notin ServiceCalls!Writes
  BY <1>1 DEF PJ_object_read_host_vtable, Vtable, ServiceCalls!Writes
<1>5. Guarded(t)
  BY <1>1, <1>2, <1>3, <1>4 DEF Guarded, Guards
<1> QED
  BY <1>5 DEF t

LEMMA RuntimeGuarded ==
  Guarded(Trait(PJ_data_source_runtime_host_vtable, RuntimeSignals ++ RuntimePushMessage ++ RuntimeDatasets))
<1> DEFINE t == Trait(PJ_data_source_runtime_host_vtable,
                      RuntimeSignals ++ RuntimePushMessage ++ RuntimeDatasets)
           slots == <<"report_message", "progress_start", "progress_update", "progress_finish",
                      "is_stop_requested", "notify_state", "request_stop", "ensure_parser_binding",
                      "show_message_box", "list_available_encodings", "push_message",
                      "notify_available_topics", "attach_source_record", "complete_ingest",
                      "set_dataset_metadata">>
<1>1. /\ t.v1 = 10 /\ t.view = RuntimeSignals ++ RuntimePushMessage ++ RuntimeDatasets
      /\ t.slots = PJ_data_source_runtime_host_vtable.slots
  BY DEF Trait, PJ_data_source_runtime_host_vtable, Vtable
<1>2. Len(slots) = 15 /\ Len(t.slots) = 15 /\ \A i \in 1..15 : t.slots[i] = slots[i]
  <2>1. Len(PJ_data_source_runtime_host_vtable.slots) = 15 /\ Len(slots) = 15
    BY DEF PJ_data_source_runtime_host_vtable, Vtable, runtime_appended
  <2>2. \A i \in 1..15 : PJ_data_source_runtime_host_vtable.slots[i] = slots[i]
    BY DEF PJ_data_source_runtime_host_vtable, Vtable, runtime_appended
  <2> QED
    BY <1>1, <2>1, <2>2
<1> HIDE DEF t
<1>3. \A s \in {"report_message", "progress_finish", "notify_state", "request_stop"} :
        t.view[s] = [guard |-> "slot", absent |-> "void"]
  BY <1>1 DEF RuntimeSignals, RuntimePushMessage, RuntimeDatasets, EachSlot, ++
<1>4. \A s \in {"progress_update", "is_stop_requested", "list_available_encodings", "show_message_box"} :
        t.view[s] = [guard |-> "slot", absent |-> "empty"]
  BY <1>1 DEF RuntimeSignals, RuntimePushMessage, RuntimeDatasets, EachSlot, ++
<1>5. \A s \in {"progress_start", "ensure_parser_binding"} : t.view[s] = [guard |-> "slot", absent |-> "error"]
  BY <1>1 DEF RuntimeSignals, RuntimePushMessage, RuntimeDatasets, EachSlot, ++
<1>6. \A i \in 11..15 : t.view[slots[i]] = [guard |-> "tail", absent |-> "error"]
  BY <1>1 DEF RuntimeSignals, RuntimePushMessage, RuntimeDatasets, EachSlot, ++
<1>7. \A i \in 1..10 :
        /\ t.view[slots[i]].guard = "slot" /\ t.view[slots[i]].absent \in Answers
        /\ slots[i] \in ServiceCalls!Writes => t.view[slots[i]].absent = "error"
  BY <1>3, <1>4, <1>5 DEF Answers, ServiceCalls!Writes
<1> HIDE DEF slots
<1>8. Guarded(t)
  BY <1>1, <1>2, <1>6, <1>7 DEF Guarded, Guards, Answers
<1> QED
  BY <1>8 DEF t

\* The views of sdk/plugin_data_api.hpp agree with the vtables of plugin_data_api.h.
LEMMA TablesGuarded == \A name \in DOMAIN Services : Guarded(Services[name])
<1>1. Guarded(Trait(PJ_source_write_host_vtable, SourceWriteHostView))
  BY DEF PJ_source_write_host_vtable, SourceWriteHostView,
         Guarded, Guards, Answers, Trait, Vtable, EachSlot, ++, ServiceCalls!Writes
<1>2. Guarded(Trait(PJ_parser_write_host_vtable, ParserWriteHostView))
  BY DEF PJ_parser_write_host_vtable, ParserWriteHostView,
         Guarded, Guards, Answers, Trait, Vtable, EachSlot, ++, ServiceCalls!Writes
<1>3. Guarded(Trait(PJ_parser_runtime_host_vtable, ParserRuntimeHostView))
  BY DEF PJ_parser_runtime_host_vtable, ParserRuntimeHostView,
         Guarded, Guards, Answers, Trait, Vtable, EachSlot, ++, ServiceCalls!Writes
<1>4. Guarded(Trait(PJ_object_write_host_vtable, SourceObjectWriteHostView))
  BY DEF PJ_object_write_host_vtable, SourceObjectWriteHostView,
         Guarded, Guards, Answers, Trait, Vtable, EachSlot, ++, ServiceCalls!Writes
<1>5. Guarded(Trait(PJ_parser_object_write_host_vtable, ParserObjectWriteHostView))
  BY DEF PJ_parser_object_write_host_vtable, ParserObjectWriteHostView,
         Guarded, Guards, Answers, Trait, Vtable, EachSlot, ++, ServiceCalls!Writes
<1>6. Guarded(Trait(PJ_colormap_registry_vtable, ColorMapRegistryView))
  BY DEF PJ_colormap_registry_vtable, ColorMapRegistryView,
         Guarded, Guards, Answers, Trait, Vtable, EachSlot, ++, ServiceCalls!Writes
<1>7. Guarded(Trait(PJ_data_processors_host_vtable, DataProcessorsV1 ++ DataProcessorsTail))
  BY DEF PJ_data_processors_host_vtable, DataProcessorsV1, DataProcessorsTail, data_processors_appended,
         Guarded, Guards, Answers, Trait, Vtable, EachSlot, ++, ServiceCalls!Writes
<1>8. Guarded(Trait(PJ_playback_host_vtable, PlaybackHostView))
  BY DEF PJ_playback_host_vtable, PlaybackHostView,
         Guarded, Guards, Answers, Trait, Vtable, EachSlot, ++, ServiceCalls!Writes
<1>9. Guarded(Trait(PJ_viewport_host_vtable, ViewportHostView))
  BY DEF PJ_viewport_host_vtable, ViewportHostView,
         Guarded, Guards, Answers, Trait, Vtable, EachSlot, ++, ServiceCalls!Writes
<1>10. Guarded(Trait(PJ_plot_tab_host_vtable, PlotTabCurves ++ PlotTabScenes))
  BY DEF PJ_plot_tab_host_vtable, PlotTabCurves, PlotTabScenes,
         Guarded, Guards, Answers, Trait, Vtable, EachSlot, ++, ServiceCalls!Writes
<1>11. Guarded(Trait(PJ_settings_store_vtable, SettingsWrites ++ SettingsReads))
  BY DEF PJ_settings_store_vtable, SettingsWrites, SettingsReads,
         Guarded, Guards, Answers, Trait, Vtable, EachSlot, ++, ServiceCalls!Writes
<1>12. Guarded(Trait(PJ_feature_catalog_vtable, FeatureCatalogView))
  BY DEF PJ_feature_catalog_vtable, FeatureCatalogView,
         Guarded, Guards, Answers, Trait, Vtable, EachSlot, ++, ServiceCalls!Writes
<1> QED
  BY <1>1, <1>2, <1>3, <1>4, <1>5, <1>6, <1>7, <1>8, <1>9, <1>10, <1>11, <1>12,
     ToolboxGuarded, ObjectReadGuarded, RuntimeGuarded DEF Services

\* A host serves every v1 slot.
LEMMA HostFacts ==
  ASSUME NEW x \in ServiceCalls!Hosts
  PROVE  /\ x.service \in DOMAIN Services
         /\ \A i \in 1..Services[x.service].v1 : i \in x.set
<1>1. PICK name \in DOMAIN Services : x \in ServiceCalls!HostsOf(name)
  BY DEF ServiceCalls!Hosts
<1> DEFINE t == Services[name]
<1>2. PICK size \in t.v1..Len(t.slots) :
        x \in [service : {name}, version : 0..MaxVersion, struct_size : {size},
               set : ServiceCalls!SlotsSet(t.v1, size)]
  BY <1>1 DEF ServiceCalls!HostsOf
<1>3. x.service = name /\ x.set \in ServiceCalls!SlotsSet(t.v1, size)
  BY <1>2
<1>4. t.v1 \in Nat
  BY TablesGuarded DEF Guarded
<1> HIDE DEF t
<1>5. \A i \in 1..t.v1 : i \in x.set
  BY <1>2, <1>3, <1>4 DEF ServiceCalls!SlotsSet
<1> QED
  BY <1>1, <1>3, <1>5 DEF t

ServicesIInv == host \in ServiceCalls!Hosts /\ ServiceCalls!CallsAreServed

LEMMA ServiceCallStep ==
  ASSUME ServicesIInv, NEW i \in 1..Len(Services[host.service].slots), ServiceCalls!Call(i)
  PROVE  ServicesIInv'
<1> DEFINE t == Services[host.service]
           check == t.view[t.slots[i]]
<1>1. host.service \in DOMAIN Services /\ \A j \in 1..t.v1 : j \in host.set
  BY HostFacts DEF ServicesIInv
<1>2. Guarded(t)
  BY <1>1, TablesGuarded
<1>3. /\ t.v1 \in Nat /\ check.guard \in Guards /\ check.absent \in Answers
      /\ check.guard \in {"bound", "slot"} => i =< t.v1
      /\ check.absent \in {"empty", "void"} => t.slots[i] \notin ServiceCalls!Writes
  BY <1>2 DEF Guarded
<1>4. host' = host
  BY DEF ServiceCalls!Call
<1>5. call'.slot = i /\ call'.how \in {check.absent, "jump"}
  BY DEF ServiceCalls!Call
<1>6. ASSUME call'.how = "jump" PROVE i \in host.set
  <2>1. check.absent # "jump"
    BY <1>3 DEF Answers
  <2>2. PICK o \in ServiceCalls!Passes(check.guard, i) : o.jump
    BY <1>6, <2>1 DEF ServiceCalls!Call
  <2>3. CASE check.guard \in {"bound", "slot"}
    BY <1>1, <1>3, <2>3
  <2>4. CASE check.guard = "tail"
    BY <2>2, <2>4 DEF ServiceCalls!Passes, ServiceCalls!NonNull
  <2>5. CASE check.guard = "argument"
    <3>1. PICK p \in ServiceCalls!NonNull(i) : o = [jump |-> ServiceCalls!Covered(i) /\ p, read |-> {i}]
      BY <2>2, <2>5 DEF ServiceCalls!Passes
    <3>2. ServiceCalls!Covered(i) /\ p
      BY <2>2, <3>1
    <3> QED
      BY <3>1, <3>2 DEF ServiceCalls!NonNull
  <2> QED
    BY <1>3, <2>3, <2>4, <2>5 DEF Guards
<1>7. ServiceCalls!CallsAreServed'
  BY <1>3, <1>4, <1>5, <1>6 DEF ServiceCalls!CallsAreServed, Answers
<1> QED
  BY <1>4, <1>7 DEF ServicesIInv

LEMMA ServicesStep ==
  ASSUME ServicesIInv, [ServiceCalls!Next]_(ServiceCalls!svcVars)
  PROVE  ServicesIInv'
<1>1. ASSUME host' = host, call' = call PROVE ServicesIInv'
  BY <1>1 DEF ServicesIInv, ServiceCalls!CallsAreServed
<1>2. CASE ServiceCalls!Register \/ ServiceCalls!Unregister \/ ServiceCalls!Bind
  BY <1>1, <1>2 DEF ServiceCalls!Register, ServiceCalls!Unregister, ServiceCalls!Bind
<1>3. CASE UNCHANGED ServiceCalls!svcVars
  BY <1>1, <1>3 DEF ServiceCalls!svcVars
<1> QED
  BY <1>2, <1>3, ServiceCallStep DEF ServiceCalls!Next

\* Against every release of the host, a view of the SDK jumps only through a slot the
\* host set, and reports a write the host never saw as an error; the views of all
\* fifteen services are guarded accordingly (TablesGuarded).
THEOREM ServicesAreServed == ServiceCalls!Spec => []CallsAreServed
<1>1. ServiceCalls!Init => ServicesIInv
  BY DEF ServiceCalls!Init, ServiceCalls!Fresh, ServiceCalls!NoCall, ServicesIInv, ServiceCalls!CallsAreServed
<1>2. ServicesIInv => CallsAreServed
  BY DEF ServicesIInv, CallsAreServed
<1> QED
  BY <1>1, <1>2, ServicesStep, PTL DEF ServiceCalls!Spec

-----------------------------------------------------------------------------
(* Accepting or rejecting a tree snapshot.                                 *)

Closed(S) == \A i \in S : items[i].parent_id \in {items[j].id : j \in S}

WellRead ==
  /\ \A i \in DOMAIN items : items[i].wellformed /\ items[i].id # Trees!NoId
  /\ \A i, j \in DOMAIN items : items[i].id = items[j].id => i = j
  /\ \A i \in DOMAIN items :
       items[i].parent_id \in {Trees!NoId} \cup {items[j].id : j \in DOMAIN items}

TreesType ==
  /\ Len(items) \in Nat /\ DOMAIN items = 1..Len(items)
  /\ visit_state \in [DOMAIN items -> {0, 1, 2}]
  /\ start \in Nat \ {0}
  /\ current \in {0} \cup DOMAIN items
  /\ path \in SUBSET DOMAIN items

Verdicts ==
  /\ verdict \in {"reading", "walking", "accepted", "rejected"}
  /\ verdict = "reading" => Trees!Fresh
  /\ verdict \in {"walking", "accepted"} => WellRead
  /\ verdict = "accepted" => start > Len(items)
  /\ verdict = "rejected" => ~Trees!IsForest

\* What is done is on no cycle, and everything before the outer loop is done.
BeforeIsDone == \A i \in DOMAIN items : i < start => visit_state[i] = 2
DoneIsAcyclic ==
  verdict \in {"walking", "accepted"} =>
    \A S \in SUBSET DOMAIN items : Closed(S) => \A i \in S : visit_state[i] # 2

\* A cycle that the walk has touched goes through the item the walk is at.
PathLeadsHere ==
  verdict \in {"walking", "accepted"} =>
    \A S \in SUBSET DOMAIN items : Closed(S) /\ (\E i \in S : i \in path) => current \in S
OnPath == \A i \in DOMAIN items : visit_state[i] = 1 <=> i \in path
PathIsChain ==
  \A i \in path : \/ Trees!IsRoot(i) /\ current = i
                  \/ \E j \in DOMAIN items : (j \in path \/ j = current) /\ items[j].id = items[i].parent_id
WalkBegan ==
  /\ current = 0 => path = {}
  /\ current # 0 => \/ start \in path
                    \/ path = {} /\ current = start /\ visit_state[start] = 0

TreesIInv ==
  /\ TreesType /\ Verdicts /\ BeforeIsDone /\ DoneIsAcyclic
  /\ PathLeadsHere /\ OnPath /\ PathIsChain /\ WalkBegan

\* A root is in no closed set.
LEMMA RootIsFree ==
  ASSUME WellRead, NEW S \in SUBSET DOMAIN items, Closed(S), NEW i \in S
  PROVE  ~Trees!IsRoot(i)
  BY DEF WellRead, Closed, Trees!IsRoot

\* A closed set holds the parent of each of its items.
LEMMA ParentInClosed ==
  ASSUME WellRead, NEW S \in SUBSET DOMAIN items, Closed(S), NEW i \in S
  PROVE  Trees!IndexOf(items[i].parent_id) \in S
<1>1. PICK j \in S : items[j].id = items[i].parent_id
  BY DEF Closed
<1>2. \A k \in DOMAIN items : items[k].id = items[i].parent_id => k = j
  BY <1>1 DEF WellRead
<1>3. Trees!IndexOf(items[i].parent_id) = j
  BY <1>1, <1>2 DEF Trees!IndexOf
<1> QED
  BY <1>3

LEMMA ParentExists ==
  ASSUME WellRead, NEW i \in DOMAIN items, ~Trees!IsRoot(i)
  PROVE  /\ Trees!IndexOf(items[i].parent_id) \in DOMAIN items
         /\ items[Trees!IndexOf(items[i].parent_id)].id = items[i].parent_id
<1>1. \E j \in DOMAIN items : items[j].id = items[i].parent_id
  BY DEF WellRead, Trees!IsRoot
<1> QED
  BY <1>1 DEF Trees!IndexOf

LEMMA ReadStep ==
  ASSUME TreesIInv, Trees!ReadItems
  PROVE  TreesIInv'
<1> DEFINE pass == /\ \A i \in DOMAIN items : Trees!ReadItem(i)
                   /\ \A i \in DOMAIN items :
                        Trees!IsRoot(i) \/ \E j \in DOMAIN items : items[j].id = items[i].parent_id
<1>1. /\ verdict = "reading" /\ verdict' = IF pass THEN "walking" ELSE "rejected"
      /\ UNCHANGED <<items, visit_state, start, current, path>>
  BY DEF Trees!ReadItems
<1>2. /\ visit_state = [i \in DOMAIN items |-> 0] /\ start = 1 /\ current = 0 /\ path = {}
  BY <1>1 DEF TreesIInv, Verdicts, Trees!Fresh
<1>3. DOMAIN items = 1..Len(items) /\ Len(items) \in Nat
  BY DEF TreesIInv, TreesType
<1>4. ASSUME pass PROVE WellRead
  <2>1. ASSUME NEW i \in DOMAIN items, NEW j \in DOMAIN items, items[i].id = items[j].id PROVE i = j
    <3>1. ~(i < j) /\ ~(j < i)
      BY <1>3, <1>4, <2>1 DEF Trees!ReadItem
    <3> QED
      BY <1>3, <3>1
  <2> QED
    BY <1>4, <2>1 DEF WellRead, Trees!ReadItem, Trees!IsRoot
<1>5. ASSUME Trees!IsForest PROVE pass
  <2>1. ASSUME NEW i \in DOMAIN items PROVE Trees!ReadItem(i)
    <3>1. items[i].parent_id # items[i].id
      <4>1. {i} \in (SUBSET DOMAIN items) \ {{}}
        OBVIOUS
      <4> QED
        BY <1>5, <4>1 DEF Trees!IsForest
    <3>2. \A j \in 1..i - 1 : items[j].id # items[i].id
      BY <1>3, <1>5 DEF Trees!IsForest
    <3> QED
      BY <1>5, <3>1, <3>2 DEF Trees!ReadItem, Trees!IsForest
  <2> QED
    BY <1>5, <2>1 DEF Trees!IsForest, Trees!IsRoot
<1> HIDE DEF pass
<1>6. Verdicts'
  <2>1. WellRead' <=> WellRead
    BY <1>1 DEF WellRead
  <2>2. Trees!IsForest' <=> Trees!IsForest
    BY <1>1 DEF Trees!IsForest
  <2> QED
    BY <1>1, <1>4, <1>5, <2>1, <2>2 DEF Verdicts
<1>7. TreesType' /\ BeforeIsDone' /\ OnPath' /\ WalkBegan' /\ PathIsChain'
  BY <1>1, <1>2 DEF TreesIInv, TreesType, BeforeIsDone, OnPath, WalkBegan, PathIsChain
<1>8. DoneIsAcyclic' /\ PathLeadsHere'
  BY <1>1, <1>2 DEF DoneIsAcyclic, PathLeadsHere
<1> QED
  BY <1>6, <1>7, <1>8 DEF TreesIInv

LEMMA StartWalkStep ==
  ASSUME TreesIInv, Trees!StartWalk
  PROVE  TreesIInv'
<1>1. /\ verdict = "walking" /\ current = 0 /\ start =< Len(items)
      /\ UNCHANGED <<items, visit_state, path, verdict>>
      /\ path = {}
      /\ start \in DOMAIN items
  BY DEF Trees!StartWalk, TreesIInv, WalkBegan, TreesType
<1>2. /\ WellRead' <=> WellRead
      /\ \A S \in SUBSET DOMAIN items : Closed(S)' <=> Closed(S)
  BY <1>1 DEF WellRead, Closed
<1>3. CASE visit_state[start] = 2
  <2>1. start' = start + 1 /\ current' = current
    BY <1>3 DEF Trees!StartWalk
  <2>2. BeforeIsDone'
    BY <1>1, <1>3, <2>1 DEF TreesIInv, TreesType, BeforeIsDone
  <2> QED
    BY <1>1, <1>2, <2>1, <2>2
       DEF TreesIInv, TreesType, Verdicts, DoneIsAcyclic, PathLeadsHere, OnPath, PathIsChain, WalkBegan
<1>4. CASE visit_state[start] # 2
  <2>1. start' = start /\ current' = start
    BY <1>4 DEF Trees!StartWalk
  <2>2. visit_state[start] = 0
    BY <1>1, <1>4 DEF TreesIInv, TreesType, OnPath
  <2>3. WalkBegan'
    BY <1>1, <2>1, <2>2 DEF WalkBegan, TreesIInv, TreesType
  <2> QED
    BY <1>1, <1>2, <2>1, <2>3
       DEF TreesIInv, TreesType, Verdicts, BeforeIsDone, DoneIsAcyclic, PathLeadsHere, OnPath, PathIsChain
<1> QED
  BY <1>3, <1>4

LEMMA ClimbStep ==
  ASSUME TreesIInv, Trees!Climb
  PROVE  TreesIInv'
<1> DEFINE next == IF Trees!IsRoot(current) THEN current ELSE Trees!IndexOf(items[current].parent_id)
<1>1. /\ verdict = "walking" /\ current \in DOMAIN items /\ visit_state[current] = 0
      /\ UNCHANGED <<items, start, verdict>>
      /\ visit_state' = [visit_state EXCEPT ![current] = 1]
      /\ path' = path \cup {current} /\ current' = next
  BY DEF Trees!Climb, Trees!Walking, TreesIInv, TreesType
<1>2. WellRead /\ current \notin path
  BY <1>1 DEF TreesIInv, Verdicts, OnPath
<1>3. /\ next \in DOMAIN items
      /\ Trees!IsRoot(current) \/ items[next].id = items[current].parent_id
      /\ Trees!IsRoot(current) => next = current
  BY <1>1, <1>2, ParentExists
<1>4. /\ WellRead' <=> WellRead
      /\ \A S \in SUBSET DOMAIN items : Closed(S)' <=> Closed(S)
  BY <1>1 DEF WellRead, Closed
<1>5. ASSUME NEW S \in SUBSET DOMAIN items, Closed(S), current \in S PROVE next \in S
  BY <1>2, <1>5, RootIsFree, ParentInClosed
<1>6. 0 \notin DOMAIN items
  BY DEF TreesIInv, TreesType
<1> HIDE DEF next
<1>7. TreesType'
  BY <1>1, <1>3 DEF TreesIInv, TreesType
<1>8. /\ \A i \in DOMAIN items : i # current => visit_state'[i] = visit_state[i]
      /\ visit_state'[current] = 1
  BY <1>1 DEF TreesIInv, TreesType
<1>9. Verdicts'
  BY <1>1, <1>4 DEF TreesIInv, Verdicts
<1>10. BeforeIsDone' /\ OnPath'
  BY <1>1, <1>2, <1>8 DEF TreesIInv, BeforeIsDone, OnPath
<1>11. DoneIsAcyclic'
  BY <1>1, <1>4, <1>8 DEF TreesIInv, DoneIsAcyclic
<1>12. PathLeadsHere'
  BY <1>1, <1>4, <1>5 DEF TreesIInv, PathLeadsHere
<1>13. PathIsChain'
  <2> SUFFICES ASSUME NEW i \in path'
               PROVE  \/ Trees!IsRoot(i) /\ next = i
                      \/ \E j \in DOMAIN items :
                           (j \in path' \/ j = next) /\ items[j].id = items[i].parent_id
    BY <1>1 DEF PathIsChain, Trees!IsRoot
  <2>1. CASE i = current
    BY <1>3, <2>1
  <2>2. CASE i \in path
    BY <1>1, <1>2, <2>2 DEF TreesIInv, PathIsChain
  <2> QED
    BY <1>1, <2>1, <2>2
<1>14. WalkBegan'
  BY <1>1, <1>3, <1>6 DEF TreesIInv, WalkBegan
<1> QED
  BY <1>7, <1>9, <1>10, <1>11, <1>12, <1>13, <1>14 DEF TreesIInv

LEMMA EndWalkStep ==
  ASSUME TreesIInv, Trees!EndWalk
  PROVE  TreesIInv'
<1>1. /\ verdict = "walking" /\ current \in DOMAIN items /\ current # 0
      /\ visit_state[current] \in {1, 2} /\ items' = items
  BY DEF Trees!EndWalk, Trees!Walking, TreesIInv, TreesType
<1>2. WellRead
  BY <1>1 DEF TreesIInv, Verdicts
<1>3. /\ WellRead' <=> WellRead
      /\ Trees!IsForest' <=> Trees!IsForest
      /\ \A S \in SUBSET DOMAIN items : Closed(S)' <=> Closed(S)
  BY <1>1 DEF WellRead, Closed, Trees!IsForest
<1>4. CASE visit_state[current] = 1 /\ ~Trees!IsRoot(current)
  <2>1. verdict' = "rejected" /\ UNCHANGED <<visit_state, start, current, path>>
    BY <1>4 DEF Trees!EndWalk
  <2>2. current \in path /\ path \in (SUBSET DOMAIN items) \ {{}}
    BY <1>1, <1>4 DEF TreesIInv, TreesType, OnPath
  <2>3. Closed(path)
    BY <1>4, <2>2 DEF TreesIInv, PathIsChain, Closed
  <2>4. ~Trees!IsForest
    BY <2>2, <2>3 DEF Trees!IsForest, Closed
  <2>5. Verdicts'
    BY <1>3, <2>1, <2>4 DEF Verdicts
  <2> QED
    BY <1>1, <2>1, <2>5 DEF TreesIInv, TreesType, BeforeIsDone, DoneIsAcyclic, PathLeadsHere, OnPath,
                            PathIsChain, WalkBegan, Trees!IsRoot
<1>5. CASE ~(visit_state[current] = 1 /\ ~Trees!IsRoot(current))
  <2>1. /\ visit_state' = [i \in DOMAIN items |-> IF i \in path THEN 2 ELSE visit_state[i]]
        /\ start' = start + 1 /\ current' = 0 /\ path' = {} /\ verdict' = verdict
    BY <1>5 DEF Trees!EndWalk
  <2>2. start \in path
    BY <1>1 DEF TreesIInv, WalkBegan
  <2>3. TreesType'
    BY <1>1, <2>1 DEF TreesIInv, TreesType
  <2>4. BeforeIsDone'
    BY <1>1, <2>1, <2>2 DEF TreesIInv, TreesType, BeforeIsDone
  <2>5. ASSUME NEW S \in SUBSET DOMAIN items, Closed(S) PROVE current \notin S
    BY <1>1, <1>2, <1>5, <2>5, RootIsFree DEF TreesIInv, DoneIsAcyclic
  <2>6. DoneIsAcyclic'
    <3> SUFFICES ASSUME NEW S \in SUBSET DOMAIN items, Closed(S), NEW i \in S
                 PROVE  visit_state'[i] # 2
      BY <1>1, <1>3 DEF DoneIsAcyclic
    <3>1. i \notin path
      BY <1>1, <2>5 DEF TreesIInv, PathLeadsHere
    <3>2. visit_state[i] # 2
      BY <1>1 DEF TreesIInv, DoneIsAcyclic
    <3> QED
      BY <2>1, <3>1, <3>2
  <2>7. OnPath'
    BY <1>1, <2>1 DEF TreesIInv, OnPath
  <2>8. Verdicts'
    BY <1>1, <1>2, <1>3, <2>1 DEF Verdicts
  <2>9. PathLeadsHere' /\ PathIsChain' /\ WalkBegan'
    BY <2>1 DEF PathLeadsHere, PathIsChain, WalkBegan
  <2> QED
    BY <2>3, <2>4, <2>6, <2>7, <2>8, <2>9 DEF TreesIInv
<1> QED
  BY <1>4, <1>5

LEMMA TreesStep ==
  ASSUME TreesIInv, [Trees!Next]_(Trees!treeVars)
  PROVE  TreesIInv'
<1>1. ASSUME UNCHANGED Trees!treeVars PROVE TreesIInv'
  <2>1. UNCHANGED <<items, visit_state, start, current, path, verdict>>
    BY <1>1 DEF Trees!treeVars
  <2>2. /\ (Trees!Fresh <=> Trees!Fresh') /\ (Trees!IsForest <=> Trees!IsForest') /\ (WellRead <=> WellRead')
        /\ \A S \in SUBSET DOMAIN items : Closed(S)' <=> Closed(S)
    BY <2>1 DEF Trees!Fresh, Trees!IsForest, WellRead, Closed
  <2>3. Verdicts'
    BY <2>1, <2>2 DEF TreesIInv, Verdicts
  <2>4. DoneIsAcyclic' /\ PathLeadsHere'
    BY <2>1, <2>2 DEF TreesIInv, DoneIsAcyclic, PathLeadsHere
  <2> QED
    BY <2>1, <2>3, <2>4 DEF TreesIInv, TreesType, BeforeIsDone, OnPath, PathIsChain, WalkBegan, Trees!IsRoot
<1>2. CASE Trees!Accept
  <2>1. /\ verdict = "walking" /\ verdict' = "accepted" /\ start > Len(items)
        /\ UNCHANGED <<items, visit_state, start, current, path>>
    BY <1>2 DEF Trees!Accept
  <2>2. (WellRead <=> WellRead') /\ \A S \in SUBSET DOMAIN items : Closed(S)' <=> Closed(S)
    BY <2>1 DEF WellRead, Closed
  <2>3. Verdicts'
    BY <2>1, <2>2 DEF TreesIInv, Verdicts
  <2>4. DoneIsAcyclic' /\ PathLeadsHere'
    BY <2>1, <2>2 DEF TreesIInv, DoneIsAcyclic, PathLeadsHere
  <2> QED
    BY <2>1, <2>3, <2>4 DEF TreesIInv, TreesType, BeforeIsDone, OnPath, PathIsChain, WalkBegan, Trees!IsRoot
<1>3. CASE Trees!Settled
  BY <1>1, <1>3 DEF Trees!Settled
<1> QED
  BY <1>1, <1>2, <1>3, ReadStep, StartWalkStep, ClimbStep, EndWalkStep DEF Trees!Next

\* WidgetDataView::treeItems accepts a snapshot of any length exactly when it is a
\* forest: the colours it leaves behind, the parents it looks up and the walks it cuts
\* short on finished items let no cycle through and refuse no tree.
THEOREM TreeVerdict == Trees!Spec => []VerdictIsRight
<1>1. Trees!Init => TreesIInv
  <2> SUFFICES ASSUME Trees!Init PROVE TreesIInv
    OBVIOUS
  <2>1. PICK n \in 0..MaxItems : items \in [1..n -> Trees!Item]
    BY DEF Trees!Init, Trees!Snapshots
  <2>2. n \in Nat
    BY <2>1, BoundaryAssumption DEF BoundaryAssumption, Trees!ItemsAssumption
  <2> HIDE DEF Trees!Item
  <2>3. Len(items) \in Nat /\ DOMAIN items = 1..Len(items)
    BY <2>1, <2>2
  <2> QED
    BY <2>3 DEF Trees!Init, Trees!Fresh, TreesIInv, TreesType, Verdicts, BeforeIsDone, DoneIsAcyclic,
                PathLeadsHere, OnPath, PathIsChain, WalkBegan
<1>2. TreesIInv /\ [Trees!Next]_(Trees!treeVars) => TreesIInv'
  BY TreesStep
<1>3. TreesIInv => VerdictIsRight
  <2> SUFFICES ASSUME TreesIInv, verdict = "accepted" PROVE Trees!IsForest
    BY DEF VerdictIsRight, Trees!VerdictIsRight, TreesIInv, Verdicts
  <2>1. \A i \in DOMAIN items : visit_state[i] = 2
    BY DEF TreesIInv, TreesType, Verdicts, BeforeIsDone
  <2>2. \A S \in SUBSET DOMAIN items : Closed(S) => S = {}
    BY <2>1 DEF TreesIInv, DoneIsAcyclic
  <2>3. WellRead
    BY DEF TreesIInv, Verdicts
  <2> QED
    BY <2>2, <2>3 DEF Trees!IsForest, WellRead, Closed
<1> QED
  BY <1>1, <1>2, <1>3, PTL DEF Trees!Spec

-----------------------------------------------------------------------------
(* How long plugin code stays mapped.                                      *)

\* A loader demands every slot its handle calls unchecked, within the first release.
Demands(t, required, checks) ==
  /\ t.min \in Nat /\ DOMAIN t.slots = 1..Len(t.slots)
  /\ \A i, j \in DOMAIN t.slots : t.slots[i] = t.slots[j] => i = j
  /\ \A name \in required : \E i \in DOMAIN t.slots : i =< t.min /\ t.slots[i] = name
  /\ \A i \in DOMAIN t.slots :
       /\ t.slots[i] \notin DOMAIN checks => t.slots[i] \in required
       /\ t.slots[i] \in DOMAIN checks => \/ checks[t.slots[i]] = "tail"
                                          \/ checks[t.slots[i]] = "slot" /\ i =< t.min
  /\ "create" \in required /\ "destroy" \in required

LEMMA DataSourceDemands ==
  /\ Demands(Plugins!PJ_data_source_vtable, Plugins!RequiredDataSource, Plugins!DataSourceHandle)
  /\ "get_dialog" \in Plugins!RequiredDataSource
<1> DEFINE t == Plugins!PJ_data_source_vtable
           place == [create |-> 1, destroy |-> 2, manifest_json |-> 3, capabilities |-> 4, bind |-> 5,
                     save_config |-> 6, load_config |-> 7, start |-> 8, stop |-> 9, pause |-> 10, resume |-> 11,
                     poll |-> 12, current_state |-> 13, get_dialog |-> 14, get_plugin_extension |-> 15]
<1>1. t.min = 15 /\ Len(t.slots) = 15 /\ DOMAIN t.slots = 1..15
  BY DEF Plugins!PJ_data_source_vtable
<1>2. \A i \in 1..15 : place[t.slots[i]] = i
  BY DEF Plugins!PJ_data_source_vtable
<1>3. \A name \in Plugins!RequiredDataSource : place[name] \in 1..15 /\ t.slots[place[name]] = name
  BY DEF Plugins!PJ_data_source_vtable, Plugins!RequiredDataSource
<1>4. \A i \in 1..15 : t.slots[i] \in Plugins!RequiredDataSource
  BY DEF Plugins!PJ_data_source_vtable, Plugins!RequiredDataSource
<1>5. /\ DOMAIN Plugins!DataSourceHandle = {"get_dialog", "get_plugin_extension"}
      /\ \A name \in DOMAIN Plugins!DataSourceHandle : Plugins!DataSourceHandle[name] \in {"slot", "tail"}
  BY DEF Plugins!DataSourceHandle
<1>6. {"create", "destroy", "get_dialog"} \subseteq Plugins!RequiredDataSource
  BY DEF Plugins!RequiredDataSource
<1> HIDE DEF t, place
<1> QED
  BY <1>1, <1>2, <1>3, <1>4, <1>5, <1>6 DEF Demands, t

LEMMA MessageParserDemands ==
  Demands(Plugins!PJ_message_parser_vtable, Plugins!RequiredMessageParser, Plugins!MessageParserHandle)
<1> DEFINE t == Plugins!PJ_message_parser_vtable
           place == [create |-> 1, destroy |-> 2, manifest_json |-> 3, bind |-> 4, bind_schema |-> 5,
                     save_config |-> 6, load_config |-> 7, parse |-> 8, get_plugin_extension |-> 9,
                     classify_schema |-> 10]
<1>1. t.min = 9 /\ Len(t.slots) = 10 /\ DOMAIN t.slots = 1..10
  BY DEF Plugins!PJ_message_parser_vtable
<1>2. \A i \in 1..10 : place[t.slots[i]] = i
  BY DEF Plugins!PJ_message_parser_vtable
<1>3. \A name \in Plugins!RequiredMessageParser : place[name] \in 1..9 /\ t.slots[place[name]] = name
  BY DEF Plugins!PJ_message_parser_vtable, Plugins!RequiredMessageParser
<1>4. \A i \in 1..9 : t.slots[i] \in Plugins!RequiredMessageParser
  BY DEF Plugins!PJ_message_parser_vtable, Plugins!RequiredMessageParser
<1>5. /\ DOMAIN Plugins!MessageParserHandle = {"get_plugin_extension", "classify_schema"}
      /\ \A name \in DOMAIN Plugins!MessageParserHandle : Plugins!MessageParserHandle[name] = "tail"
      /\ t.slots[10] = "classify_schema"
  BY DEF Plugins!MessageParserHandle, Plugins!PJ_message_parser_vtable
<1>6. {"create", "destroy"} \subseteq Plugins!RequiredMessageParser
  BY DEF Plugins!RequiredMessageParser
<1> HIDE DEF t, place
<1> QED
  BY <1>1, <1>2, <1>3, <1>4, <1>5, <1>6 DEF Demands, t

LEMMA ToolboxDemands ==
  /\ Demands(Plugins!PJ_toolbox_vtable, Plugins!RequiredToolbox, Plugins!ToolboxHandle)
  /\ "get_dialog" \in Plugins!RequiredToolbox
<1> DEFINE t == Plugins!PJ_toolbox_vtable
           place == [create |-> 1, destroy |-> 2, manifest_json |-> 3, capabilities |-> 4, bind |-> 5,
                     save_config |-> 6, load_config |-> 7, get_dialog |-> 8, on_data_changed |-> 9,
                     get_plugin_extension |-> 10]
<1>1. t.min = 10 /\ Len(t.slots) = 10 /\ DOMAIN t.slots = 1..10
  BY DEF Plugins!PJ_toolbox_vtable
<1>2. \A i \in 1..10 : place[t.slots[i]] = i
  BY DEF Plugins!PJ_toolbox_vtable
<1>3. \A name \in Plugins!RequiredToolbox : place[name] \in 1..10 /\ t.slots[place[name]] = name
  BY DEF Plugins!PJ_toolbox_vtable, Plugins!RequiredToolbox
<1>4. \A i \in 1..10 : t.slots[i] \in Plugins!RequiredToolbox
  BY DEF Plugins!PJ_toolbox_vtable, Plugins!RequiredToolbox
<1>5. /\ DOMAIN Plugins!ToolboxHandle = {"get_dialog", "on_data_changed", "get_plugin_extension"}
      /\ \A name \in DOMAIN Plugins!ToolboxHandle : Plugins!ToolboxHandle[name] \in {"slot", "tail"}
  BY DEF Plugins!ToolboxHandle
<1>6. {"create", "destroy", "get_dialog"} \subseteq Plugins!RequiredToolbox
  BY DEF Plugins!RequiredToolbox
<1> HIDE DEF t, place
<1> QED
  BY <1>1, <1>2, <1>3, <1>4, <1>5, <1>6 DEF Demands, t

LEMMA DialogDemands ==
  /\ Demands(Plugins!PJ_dialog_vtable, Plugins!RequiredDialog, Plugins!DialogHandle)
  /\ "get_manifest" \in Plugins!RequiredDialog
<1> DEFINE t == Plugins!PJ_dialog_vtable
           place == [create |-> 1, destroy |-> 2, get_manifest |-> 3, get_ui_content |-> 4,
                     get_widget_data |-> 5, on_widget_event |-> 6, on_tick |-> 7, on_accepted |-> 8,
                     on_rejected |-> 9, save_config |-> 10, load_config |-> 11, manifest_json |-> 12,
                     set_host_info |-> 13]
<1>1. t.min = 11 /\ Len(t.slots) = 13 /\ DOMAIN t.slots = 1..13
  BY DEF Plugins!PJ_dialog_vtable
<1>2. \A i \in 1..13 : place[t.slots[i]] = i
  BY DEF Plugins!PJ_dialog_vtable
<1>3. \A name \in Plugins!RequiredDialog : place[name] \in 1..11 /\ t.slots[place[name]] = name
  BY DEF Plugins!PJ_dialog_vtable, Plugins!RequiredDialog
<1>4. \A i \in 1..11 : t.slots[i] \in Plugins!RequiredDialog
  BY DEF Plugins!PJ_dialog_vtable, Plugins!RequiredDialog
<1>5. /\ DOMAIN Plugins!DialogHandle = {"manifest_json", "set_host_info"}
      /\ \A name \in DOMAIN Plugins!DialogHandle : Plugins!DialogHandle[name] = "tail"
      /\ t.slots[12] = "manifest_json" /\ t.slots[13] = "set_host_info"
  BY DEF Plugins!DialogHandle, Plugins!PJ_dialog_vtable
<1>6. {"create", "destroy", "get_manifest"} \subseteq Plugins!RequiredDialog
  BY DEF Plugins!RequiredDialog
<1> HIDE DEF t, place
<1> QED
  BY <1>1, <1>2, <1>3, <1>4, <1>5, <1>6 DEF Demands, t

LEMMA WidgetDemands ==
  Demands(Plugins!PJ_widget_vtable, Plugins!RequiredWidget, Plugins!WidgetHandle)
<1> DEFINE t == Plugins!PJ_widget_vtable
           place == [create |-> 1, destroy |-> 2, manifest_json |-> 3, build_info |-> 4, bind |-> 5,
                     inputs |-> 6, create_qwidget |-> 7, on_update |-> 8, save_config |-> 9,
                     load_config |-> 10, get_plugin_extension |-> 11]
<1>1. t.min = 11 /\ Len(t.slots) = 11 /\ DOMAIN t.slots = 1..11
  BY DEF Plugins!PJ_widget_vtable
<1>2. \A i \in 1..11 : place[t.slots[i]] = i
  BY DEF Plugins!PJ_widget_vtable
<1>3. \A name \in Plugins!RequiredWidget : place[name] \in 1..11 /\ t.slots[place[name]] = name
  BY DEF Plugins!PJ_widget_vtable, Plugins!RequiredWidget
<1>4. \A i \in 1..11 : t.slots[i] \in Plugins!RequiredWidget
  BY DEF Plugins!PJ_widget_vtable, Plugins!RequiredWidget
<1>5. \A name \in DOMAIN Plugins!WidgetHandle : Plugins!WidgetHandle[name] = "tail"
  BY DEF Plugins!WidgetHandle
<1>6. {"create", "destroy"} \subseteq Plugins!RequiredWidget
  BY DEF Plugins!RequiredWidget
<1> HIDE DEF t, place
<1> QED
  BY <1>1, <1>2, <1>3, <1>4, <1>5, <1>6 DEF Demands, t

LEMMA LoadersDemand ==
  ASSUME NEW f \in Plugins!Families
  PROVE  /\ Demands(Plugins!Vtable(f), Plugins!Required(f), Plugins!Checks(f))
         /\ f \in {"data_source", "toolbox"} => "get_dialog" \in Plugins!Required(f)
         /\ f = "dialog" => "get_manifest" \in Plugins!Required(f)
<1>1. CASE f = "data_source"
  BY <1>1, DataSourceDemands DEF Plugins!Vtable, Plugins!Required, Plugins!Checks
<1>2. CASE f = "message_parser"
  BY <1>2, MessageParserDemands DEF Plugins!Vtable, Plugins!Required, Plugins!Checks
<1>3. CASE f = "toolbox"
  BY <1>3, ToolboxDemands DEF Plugins!Vtable, Plugins!Required, Plugins!Checks
<1>4. CASE f = "dialog"
  BY <1>4, DialogDemands DEF Plugins!Vtable, Plugins!Required, Plugins!Checks
<1>5. CASE f = "widget"
  BY <1>5, WidgetDemands DEF Plugins!Vtable, Plugins!Required, Plugins!Checks
<1> QED
  BY <1>1, <1>2, <1>3, <1>4, <1>5 DEF Plugins!Families

InUse(t) ==
  \/ \E l \in Libraries : lib[l] = t
  \/ \E h \in Handles : handle[h].token = t
  \/ t \in pinned \/ t \in anchors
Owns(h, c) == handle[h].ctx = c /\ handle[h].owned
ToClose == {t \in 1..opened : closing[t] /\ InUse(t)}
NeverClosed == {t \in 1..opened : ~closing[t]}

PluginType ==
  /\ file \in Plugins!Files
  /\ opened \in Nat /\ opened =< MaxLoads
  /\ closing \in [1..MaxLoads -> BOOLEAN]
  /\ lib \in [Libraries -> 0..opened]
  /\ handle \in [Handles -> [ctx : 0..instances, owned : BOOLEAN, token : 0..opened]]
  /\ pinned \subseteq 1..opened /\ anchors \subseteq 1..opened
  /\ instances \in Nat /\ instances =< MaxInstances
  /\ destroyed \in [1..MaxInstances -> Nat]

\* Somebody holds a token only of a file that passed the checks, and an instance is
\* reached only through a token.
HeldIsAdmitted ==
  /\ \A t \in 1..opened : InUse(t) => Plugins!Admitted
  /\ \A h \in Handles : handle[h].ctx # 0 => handle[h].token # 0

OneOwner ==
  \A c \in 1..MaxInstances :
    IF c =< instances
      THEN \/ destroyed[c] = 0 /\ \E h \in Handles : Owns(h, c) /\ \A g \in Handles : Owns(g, c) => g = h
           \/ destroyed[c] = 1 /\ \A h \in Handles : ~Owns(h, c)
      ELSE destroyed[c] = 0

OpensCounted ==
  opens = Cardinality(ToClose) + (IF file.native = "opens" THEN Cardinality(NeverClosed) ELSE 0)

PluginIInv ==
  /\ PluginType /\ HeldIsAdmitted /\ OneOwner /\ OpensCounted
  /\ landed \in {"none", "plugin"}

LEMMA LoadBounds == MaxLoads \in Nat /\ MaxInstances \in Nat
  BY BoundaryAssumption DEF BoundaryAssumption, Plugins!LoadsAssumption

LEMMA SameCardinality == \A S : Plugins!Cardinality(S) = Cardinality(S)
  BY DEF Plugins!Cardinality, Cardinality

LEMMA UnusedMeaning == \A t : Plugins!Unused(t) <=> ~InUse(t)
  BY DEF Plugins!Unused, Plugins!Copies, InUse

LEMMA UnusedMeaningNext == \A t : Plugins!Unused(t)' <=> ~InUse(t)'
  BY DEF Plugins!Unused, Plugins!Copies, InUse

\* The counts of the loader are counts of finite sets.
LEMMA Countable ==
  ASSUME opened \in Nat
  PROVE  /\ IsFiniteSet(ToClose) /\ Cardinality(ToClose) \in Nat
         /\ IsFiniteSet(NeverClosed) /\ Cardinality(NeverClosed) \in Nat
<1>1. IsFiniteSet(1..opened)
  BY FS_Interval
<1>2. IsFiniteSet(ToClose) /\ IsFiniteSet(NeverClosed)
  BY <1>1, FS_Subset DEF ToClose, NeverClosed
<1> QED
  BY <1>2, FS_CardinalityType

\* A file somebody holds a token of is mapped.
LEMMA HeldIsMapped ==
  ASSUME PluginIInv, NEW t \in 1..opened, InUse(t)
  PROVE  Plugins!Admitted /\ Plugins!Mapped(opens)
<1>1. Plugins!Admitted /\ file.native = "opens"
  BY DEF PluginIInv, HeldIsAdmitted, Plugins!Admitted, Plugins!loadLibraryHandle
<1>2. opened \in Nat
  BY DEF PluginIInv, PluginType
<1>3. t \in ToClose \/ t \in NeverClosed
  BY DEF ToClose, NeverClosed
<1>4. Cardinality(ToClose) # 0 \/ Cardinality(NeverClosed) # 0
  BY <1>2, <1>3, Countable, FS_EmptySet
<1>5. opens = Cardinality(ToClose) + Cardinality(NeverClosed)
  BY <1>1 DEF PluginIInv, OpensCounted
<1>6. opens > 0
  BY <1>2, <1>4, <1>5, Countable
<1> QED
  BY <1>1, <1>6 DEF Plugins!Mapped

LEMMA FileFacts ==
  ASSUME file \in Plugins!Files
  PROVE  /\ file.family \in Plugins!Families /\ file.struct_size \in Nat
         /\ Demands(Plugins!Vtable(file.family), Plugins!Required(file.family), Plugins!Checks(file.family))
         /\ file.family \in {"data_source", "toolbox"} => "get_dialog" \in Plugins!Required(file.family)
         /\ file.family = "dialog" => "get_manifest" \in Plugins!Required(file.family)
<1>1. file.family \in Plugins!Families /\ file.struct_size \in {8, 9, 10, 11, 12, 13, 15}
  BY DEF Plugins!Files
<1> QED
  BY <1>1, LoadersDemand

\* An admitted file has every required slot.
LEMMA RequiredLands ==
  ASSUME file \in Plugins!Files, Plugins!Admitted, NEW n, Plugins!Mapped(n),
         NEW name \in Plugins!Required(file.family)
  PROVE  Plugins!Landing(Plugins!Slot(name), n) = "plugin"
<1> DEFINE t == Plugins!Vtable(file.family)
<1>1. Demands(t, Plugins!Required(file.family), Plugins!Checks(file.family)) /\ file.struct_size \in Nat
  BY FileFacts
<1>2. PICK i \in DOMAIN t.slots : i =< t.min /\ t.slots[i] = name
  BY <1>1 DEF Demands
<1>3. \A j \in DOMAIN t.slots : t.slots[j] = name => j = i
  BY <1>1, <1>2 DEF Demands
<1>4. Plugins!Slot(name) = CHOOSE j \in DOMAIN t.slots : t.slots[j] = name
  BY DEF Plugins!Slot, Plugins!Slots
<1> HIDE DEF t
<1>5. Plugins!Slot(name) = i
  BY <1>2, <1>3, <1>4
<1>6. i \notin file.null
  BY <1>5 DEF Plugins!Admitted, Plugins!validateRequiredSlots
<1>7. t.min \in Nat /\ i \in Nat /\ file.struct_size >= t.min
  BY <1>1, <1>2 DEF Demands, Plugins!Admitted, t
<1>8. Plugins!Covered(i)
  BY <1>1, <1>2, <1>7 DEF Plugins!Covered
<1> QED
  BY <1>5, <1>6, <1>8 DEF Plugins!Landing

\* A held handle's destroy lands, and nothing else jumps when it goes.
LEMMA DestroyLanding ==
  ASSUME PluginIInv, NEW h \in Handles
  PROVE  Plugins!DestroyLands(h, opens) \in {"none", "plugin"}
<1>1. CASE handle[h].owned /\ handle[h].ctx # 0
  <2>1. handle[h].token \in 1..opened
    BY <1>1 DEF PluginIInv, PluginType, HeldIsAdmitted
  <2>2. Plugins!Admitted /\ Plugins!Mapped(opens)
    BY <2>1, HeldIsMapped DEF InUse
  <2>3. file \in Plugins!Files
    BY DEF PluginIInv, PluginType
  <2>4. "destroy" \in Plugins!Required(file.family)
    BY <2>3, FileFacts DEF Demands
  <2>5. Plugins!Landing(Plugins!Slot("destroy"), opens) = "plugin"
    BY <2>2, <2>3, <2>4, RequiredLands
  <2> QED
    BY <1>1, <2>5 DEF Plugins!DestroyLands
<1>2. CASE ~(handle[h].owned /\ handle[h].ctx # 0)
  BY <1>2 DEF Plugins!DestroyLands, PluginIInv
<1> QED
  BY <1>1, <1>2

LEMMA AdmittedStays ==
  ASSUME file' = file
  PROVE  Plugins!Admitted' <=> Plugins!Admitted
  BY DEF Plugins!Admitted, Plugins!loadLibraryHandle, Plugins!checkPluginAbiVersion,
         Plugins!verifySymbolProvenance, Plugins!validateRequiredSlots, Plugins!Slot, Plugins!Slots,
         Plugins!Required, Plugins!Vtable

\* A step that opens nothing closes what loses its last copy.
LEMMA CloseStep ==
  ASSUME PluginIInv, UNCHANGED <<file, opened, closing>>, Plugins!Close,
         \A t \in 1..opened : InUse(t)' => InUse(t)
  PROVE  OpensCounted'
<1> DEFINE gone == {t \in 1..opened : closing[t] /\ InUse(t) /\ ~InUse(t)'}
<1>1. opened \in Nat
  BY DEF PluginIInv, PluginType
<1>2. Plugins!LastCopies = gone
  BY UnusedMeaning, UnusedMeaningNext DEF Plugins!LastCopies
<1>3. opens' = opens - Cardinality(gone)
  BY <1>2, SameCardinality DEF Plugins!Close
<1>4. ToClose' = ToClose \ gone /\ ToClose \cap gone = gone /\ NeverClosed' = NeverClosed
  BY DEF ToClose, NeverClosed
<1>5. Cardinality(ToClose') = Cardinality(ToClose) - Cardinality(gone)
  BY <1>1, <1>4, Countable, FS_Difference
<1>6. IsFiniteSet(gone) /\ Cardinality(gone) \in Nat
  BY <1>1, <1>4, Countable, FS_Subset, FS_CardinalityType
<1> HIDE DEF gone
<1>7. OpensCounted /\ file'.native = file.native
  BY DEF PluginIInv
<1> QED
  BY <1>1, <1>3, <1>4, <1>5, <1>6, <1>7, Countable DEF OpensCounted

LEMMA CountStays ==
  ASSUME PluginIInv, UNCHANGED <<file, opened, closing, opens>>,
         \A t \in 1..opened : InUse(t)' <=> InUse(t)
  PROVE  OpensCounted'
<1>1. ToClose' = ToClose /\ NeverClosed' = NeverClosed
  BY DEF ToClose, NeverClosed
<1> QED
  BY <1>1 DEF PluginIInv, OpensCounted

\* Letting go of a handle's contents destroys the instance it owns.
LEMMA DestroyedMeaning ==
  ASSUME PluginIInv, NEW h \in Handles
  PROVE  /\ Plugins!Destroyed(h) \in [1..MaxInstances -> Nat]
         /\ \A c \in 1..MaxInstances :
              Plugins!Destroyed(h)[c] = IF Owns(h, c) THEN destroyed[c] + 1 ELSE destroyed[c]
<1>1. destroyed \in [1..MaxInstances -> Nat] /\ handle[h].ctx \in 0..MaxInstances
  BY LoadBounds DEF PluginIInv, PluginType
<1>2. CASE handle[h].owned /\ handle[h].ctx # 0
  <2>1. Plugins!Destroyed(h) = [destroyed EXCEPT ![handle[h].ctx] = @ + 1]
    BY <1>2 DEF Plugins!Destroyed
  <2> QED
    BY <1>1, <1>2, <2>1 DEF Owns
<1>3. CASE ~(handle[h].owned /\ handle[h].ctx # 0)
  <2>1. Plugins!Destroyed(h) = destroyed
    BY <1>3 DEF Plugins!Destroyed
  <2> QED
    BY <1>1, <1>3, <2>1 DEF Owns
<1> QED
  BY <1>2, <1>3

LEMMA TakeStep ==
  ASSUME PluginIInv, NEW l \in Libraries, NEW closes \in BOOLEAN, Plugins!Take(l, closes)
  PROVE  PluginIInv'
<1> DEFINE gone == {t \in 1..opened : closing[t] /\ InUse(t) /\ ~InUse(t)'}
<1>0. PluginType /\ MaxLoads \in Nat
  BY LoadBounds DEF PluginIInv
<1>n. PICK new \in Nat : new = opened + 1
  BY <1>0 DEF PluginType
<1>1. /\ opened < MaxLoads /\ opened' = new /\ closing' = [closing EXCEPT ![new] = closes]
      /\ lib' = IF Plugins!Admitted THEN [lib EXCEPT ![l] = new] ELSE lib
      /\ pinned' = IF Plugins!Admitted /\ file.family = "widget" THEN pinned \cup {new} ELSE pinned
      /\ UNCHANGED <<file, handle, anchors, instances, destroyed, landed>>
      /\ opens' = opens - Cardinality(Plugins!LastCopies)
                  + (IF file.native = "opens" /\ (Plugins!Admitted \/ ~closes) THEN 1 ELSE 0)
  BY <1>n, SameCardinality DEF Plugins!Take
<1>2. new \in Nat /\ new \in 1..MaxLoads /\ 1..opened' = (1..opened) \cup {new} /\ new \notin 1..opened
  BY <1>0, <1>n, <1>1 DEF PluginType
<1>3. PluginType'
  <2>1. closing' \in [1..MaxLoads -> BOOLEAN]
    BY <1>0, <1>1, <1>2 DEF PluginType
  <2>2. lib' \in [Libraries -> 0..opened']
    BY <1>0, <1>1, <1>2 DEF PluginType
  <2>3. handle' \in [Handles -> [ctx : 0..instances', owned : BOOLEAN, token : 0..opened']]
    <3>1. 0..opened \subseteq 0..opened'
      BY <1>0, <1>n, <1>1 DEF PluginType
    <3> QED
      BY <1>0, <1>1, <3>1 DEF PluginType
  <2>4. pinned' \subseteq 1..opened' /\ anchors' \subseteq 1..opened'
    BY <1>0, <1>1, <1>2 DEF PluginType
  <2>5. opened' \in Nat /\ opened' =< MaxLoads
    BY <1>1, <1>2
  <2> QED
    BY <1>0, <1>1, <2>1, <2>2, <2>3, <2>4, <2>5 DEF PluginType
<1>4. /\ \A t \in 1..opened : InUse(t)' => InUse(t)
      /\ InUse(new)' <=> Plugins!Admitted
  <2>1. ASSUME NEW t \in 1..opened, InUse(t)' PROVE InUse(t)
    BY <1>0, <1>1, <1>2, <2>1 DEF InUse, PluginType
  <2>2. ~InUse(new)
    BY <1>0, <1>2 DEF InUse, PluginType
  <2>3. CASE Plugins!Admitted
    BY <1>0, <1>1, <2>1, <2>3 DEF InUse, PluginType
  <2>4. CASE ~Plugins!Admitted
    BY <1>1, <2>1, <2>2, <2>4 DEF InUse
  <2> QED
    BY <2>1, <2>3, <2>4
<1>5. HeldIsAdmitted'
  BY <1>1, <1>2, <1>4, AdmittedStays DEF PluginIInv, HeldIsAdmitted
<1>6. OneOwner' /\ landed' \in {"none", "plugin"}
  BY <1>1 DEF PluginIInv, OneOwner, Owns
<1>7. Plugins!LastCopies = gone
  BY UnusedMeaning, UnusedMeaningNext DEF Plugins!LastCopies
<1>8. \A t \in 1..opened : closing'[t] = closing[t]
  BY <1>0, <1>1, <1>2 DEF PluginType
<1>9. closing'[new] = closes
  BY <1>0, <1>1, <1>2 DEF PluginType
<1>10. /\ ToClose' = (ToClose \ gone) \cup (IF closes /\ Plugins!Admitted THEN {new} ELSE {})
       /\ NeverClosed' = NeverClosed \cup (IF closes THEN {} ELSE {new})
       /\ ToClose \cap gone = gone /\ new \notin ToClose /\ new \notin NeverClosed
  <2>1. ToClose' = {t \in (1..opened) \cup {new} : closing'[t] /\ InUse(t)'}
    BY <1>2 DEF ToClose
  <2>2. NeverClosed' = {t \in (1..opened) \cup {new} : ~closing'[t]}
    BY <1>2 DEF NeverClosed
  <2> QED
    BY <1>2, <1>4, <1>8, <1>9, <2>1, <2>2 DEF ToClose, NeverClosed
<1> HIDE DEF gone
<1>11. opened \in Nat
  BY <1>0 DEF PluginType
<1>12. /\ IsFiniteSet(ToClose \ gone)
       /\ Cardinality(ToClose \ gone) = Cardinality(ToClose) - Cardinality(gone)
  BY <1>10, <1>11, Countable, FS_Difference
<1>13. IsFiniteSet(gone) /\ Cardinality(gone) \in Nat
  BY <1>10, <1>11, Countable, FS_Subset, FS_CardinalityType
<1>14. Cardinality(ToClose') =
         Cardinality(ToClose) - Cardinality(gone) + (IF closes /\ Plugins!Admitted THEN 1 ELSE 0)
  <2>1. CASE closes /\ Plugins!Admitted
    BY <1>10, <1>12, <2>1, FS_AddElement
  <2>2. CASE ~(closes /\ Plugins!Admitted)
    <3>1. ToClose' = ToClose \ gone
      BY <1>10, <2>2
    <3> QED
      BY <1>11, <1>12, <1>13, <2>2, <3>1, Countable
  <2> QED
    BY <2>1, <2>2
<1>15. Cardinality(NeverClosed') = Cardinality(NeverClosed) + (IF closes THEN 0 ELSE 1)
  <2>1. CASE closes
    <3>1. NeverClosed' = NeverClosed
      BY <1>10, <2>1
    <3> QED
      BY <1>11, <2>1, <3>1, Countable
  <2>2. CASE ~closes
    BY <1>10, <1>11, <2>2, Countable, FS_AddElement
  <2> QED
    BY <2>1, <2>2
<1>16. Plugins!Admitted => file.native = "opens"
  BY DEF Plugins!Admitted, Plugins!loadLibraryHandle
<1>17. OpensCounted'
  <2>1. opens = Cardinality(ToClose) + (IF file.native = "opens" THEN Cardinality(NeverClosed) ELSE 0)
    BY DEF PluginIInv, OpensCounted
  <2>2. opens' = Cardinality(ToClose') + (IF file.native = "opens" THEN Cardinality(NeverClosed') ELSE 0)
    <3>1. CASE closes
      BY <1>1, <1>7, <1>11, <1>13, <1>14, <1>15, <1>16, <2>1, <3>1, Countable
    <3>2. CASE ~closes
      BY <1>1, <1>7, <1>11, <1>13, <1>14, <1>15, <1>16, <2>1, <3>2, Countable
    <3> QED
      BY <3>1, <3>2
  <2> QED
    BY <1>1, <2>2 DEF OpensCounted
<1> QED
  BY <1>3, <1>5, <1>6, <1>17 DEF PluginIInv

\* A library object gives its token up or passes it on.
LEMMA LibraryStep ==
  ASSUME PluginIInv, NEW l \in Libraries,
         Plugins!ResetLibrary(l) \/ \E k \in Libraries : Plugins!MoveLibrary(k, l)
  PROVE  PluginIInv'
<1>1. /\ UNCHANGED <<file, opened, closing, handle, pinned, anchors, instances, destroyed, landed>>
      /\ Plugins!Close
  BY DEF Plugins!ResetLibrary, Plugins!MoveLibrary
<1>2. PluginType
  BY DEF PluginIInv
<1>3. /\ lib' \in [Libraries -> 0..opened]
      /\ \A m \in Libraries : lib'[m] = 0 \/ \E n \in Libraries : lib'[m] = lib[n]
  <2>1. 0 \in 0..opened /\ lib \in [Libraries -> 0..opened]
    BY <1>2 DEF PluginType
  <2>2. CASE Plugins!ResetLibrary(l)
    BY <2>1, <2>2 DEF Plugins!ResetLibrary
  <2>3. ASSUME NEW k \in Libraries, Plugins!MoveLibrary(k, l)
        PROVE  /\ lib' \in [Libraries -> 0..opened]
               /\ \A m \in Libraries : lib'[m] = 0 \/ \E n \in Libraries : lib'[m] = lib[n]
    <3>1. lib' = [m \in Libraries |-> IF m = k THEN 0 ELSE IF m = l THEN lib[k] ELSE lib[m]]
      BY <2>1, <2>3 DEF Plugins!MoveLibrary
    <3>2. lib' \in [Libraries -> 0..opened]
      BY <2>1, <3>1
    <3> QED
      BY <3>1, <3>2
  <2> QED
    BY <2>2, <2>3
<1>5. \A t \in 1..opened : InUse(t)' => InUse(t)
  BY <1>1, <1>3 DEF InUse
<1>6. PluginType'
  BY <1>1, <1>2, <1>3 DEF PluginType
<1>7. HeldIsAdmitted'
  BY <1>1, <1>5, AdmittedStays DEF PluginIInv, HeldIsAdmitted
<1>8. OneOwner' /\ landed' \in {"none", "plugin"}
  BY <1>1 DEF PluginIInv, OneOwner, Owns
<1>9. OpensCounted'
  BY <1>1, <1>5, CloseStep
<1> QED
  BY <1>6, <1>7, <1>8, <1>9 DEF PluginIInv

LEMMA CreateStep ==
  ASSUME PluginIInv, NEW h \in Handles, NEW l \in Libraries, Plugins!CreateHandle(h, l)
  PROVE  PluginIInv'
<1>1. PICK born \in BOOLEAN :
        /\ instances' = IF born THEN instances + 1 ELSE instances
        /\ handle' = [handle EXCEPT ![h] = [ctx |-> IF born THEN instances' ELSE 0, owned |-> TRUE,
                                            token |-> lib[l]]]
  BY DEF Plugins!CreateHandle
<1>2. /\ lib[l] # 0 /\ instances < MaxInstances
      /\ destroyed' = Plugins!Destroyed(h)
      /\ landed' = IF Plugins!Landing(Plugins!Slot("create"), opens) # "plugin"
                     THEN Plugins!Landing(Plugins!Slot("create"), opens)
                     ELSE Plugins!DestroyLands(h, opens)
      /\ UNCHANGED <<file, opened, closing, lib, pinned, anchors>>
      /\ Plugins!Close
  BY DEF Plugins!CreateHandle
<1>3. PluginType /\ MaxInstances \in Nat
  BY LoadBounds DEF PluginIInv
<1>4. lib[l] \in 1..opened /\ InUse(lib[l])
  BY <1>2, <1>3 DEF PluginType, InUse
<1>5. landed' \in {"none", "plugin"}
  <2>1. "create" \in Plugins!Required(file.family) /\ file \in Plugins!Files
    BY <1>3, FileFacts DEF PluginType, Demands
  <2>2. Plugins!Landing(Plugins!Slot("create"), opens) = "plugin"
    BY <1>4, <2>1, HeldIsMapped, RequiredLands
  <2> QED
    BY <1>2, <2>2, DestroyLanding
<1> DEFINE context == IF born THEN instances' ELSE 0
<1>6. /\ instances' \in Nat /\ instances' =< MaxInstances /\ instances =< instances' /\ context \in 0..instances'
  BY <1>1, <1>2, <1>3 DEF PluginType
<1>7. /\ handle'[h] = [ctx |-> context, owned |-> TRUE, token |-> lib[l]]
      /\ \A g \in Handles : g # h => handle'[g] = handle[g]
  BY <1>1, <1>3 DEF PluginType
<1>8. PluginType'
  <2>1. [ctx |-> context, owned |-> TRUE, token |-> lib[l]] \in [ctx : 0..instances', owned : BOOLEAN, token : 0..opened]
    BY <1>4, <1>6
  <2>2. 0..instances \subseteq 0..instances'
    BY <1>3, <1>6 DEF PluginType
  <2> HIDE DEF context
  <2>3. handle' \in [Handles -> [ctx : 0..instances', owned : BOOLEAN, token : 0..opened]]
    <3>1. handle \in [Handles -> [ctx : 0..instances', owned : BOOLEAN, token : 0..opened]]
      BY <1>3, <2>2 DEF PluginType
    <3>2. handle' = [handle EXCEPT ![h] = handle'[h]]
      BY <1>1, <1>3 DEF PluginType
    <3> QED
      BY <1>7, <2>1, <3>1, <3>2
  <2>4. destroyed' \in [1..MaxInstances -> Nat]
    BY <1>2, DestroyedMeaning
  <2> QED
    BY <1>2, <1>3, <1>6, <2>3, <2>4 DEF PluginType
<1>9. \A t \in 1..opened : InUse(t)' => InUse(t)
  BY <1>2, <1>4, <1>7 DEF InUse
<1>10. HeldIsAdmitted'
  BY <1>2, <1>7, <1>9, AdmittedStays DEF PluginIInv, HeldIsAdmitted
<1>11. OneOwner'
  <2> DEFINE Good(c) ==
        IF c =< instances
          THEN \/ destroyed[c] = 0 /\ \E o \in Handles : Owns(o, c) /\ \A g \in Handles : Owns(g, c) => g = o
               \/ destroyed[c] = 1 /\ \A o \in Handles : ~Owns(o, c)
          ELSE destroyed[c] = 0
  <2> SUFFICES ASSUME NEW c \in 1..MaxInstances PROVE Good(c)'
    BY <1>2 DEF OneOwner
  <2>1. Good(c)
    BY DEF PluginIInv, OneOwner
  <2>2. destroyed'[c] = IF Owns(h, c) THEN destroyed[c] + 1 ELSE destroyed[c]
    BY <1>2, DestroyedMeaning
  <2>3. \A g \in Handles : g # h => (Owns(g, c)' <=> Owns(g, c))
    BY <1>7 DEF Owns
  <2>4. Owns(h, c)' <=> born /\ c = instances + 1
    BY <1>1, <1>3, <1>7 DEF Owns, PluginType
  <2>5. \A g \in Handles : Owns(g, c) => c =< instances
    BY <1>3 DEF Owns, PluginType
  <2>6. CASE c =< instances
    <3>1. ~Owns(h, c)'
      BY <1>3, <2>4, <2>6 DEF PluginType
    <3>2. c =< instances'
      BY <1>3, <1>6, <2>6 DEF PluginType
    <3> QED
      BY <2>1, <2>2, <2>3, <2>6, <3>1, <3>2
  <2>7. CASE c = instances + 1 /\ born
    <3>1. destroyed'[c] = 0 /\ \A g \in Handles : Owns(g, c)' => g = h
      BY <1>3, <2>1, <2>2, <2>3, <2>5, <2>7 DEF PluginType
    <3>2. Owns(h, c)' /\ c =< instances'
      BY <1>1, <1>3, <2>4, <2>7 DEF PluginType
    <3> QED
      BY <3>1, <3>2
  <2>8. CASE c > instances /\ ~(c = instances + 1 /\ born)
    <3>1. ~(c =< instances')
      BY <1>1, <1>3, <2>8 DEF PluginType
    <3>2. destroyed'[c] = 0
      BY <1>3, <2>1, <2>2, <2>5, <2>8 DEF PluginType
    <3> QED
      BY <3>1, <3>2
  <2> QED
    BY <1>3, <2>6, <2>7, <2>8 DEF PluginType
<1>12. OpensCounted'
  BY <1>2, <1>9, CloseStep
<1> QED
  BY <1>5, <1>8, <1>10, <1>11, <1>12 DEF PluginIInv

\* A handle lets its contents go: what it owned is destroyed and nobody else owned it.
LEMMA ReleaseOwner ==
  ASSUME PluginIInv, NEW h \in Handles, destroyed' = Plugins!Destroyed(h), instances' = instances,
         \A g \in Handles : g # h => handle'[g] = handle[g],
         handle'[h].ctx = 0
  PROVE  OneOwner'
<1> DEFINE Good(c) ==
      IF c =< instances
        THEN \/ destroyed[c] = 0 /\ \E o \in Handles : Owns(o, c) /\ \A g \in Handles : Owns(g, c) => g = o
             \/ destroyed[c] = 1 /\ \A o \in Handles : ~Owns(o, c)
        ELSE destroyed[c] = 0
<1> SUFFICES ASSUME NEW c \in 1..MaxInstances PROVE Good(c)'
  BY DEF OneOwner
<1>1. Good(c) /\ c # 0
  BY DEF PluginIInv, OneOwner
<1>2. destroyed'[c] = IF Owns(h, c) THEN destroyed[c] + 1 ELSE destroyed[c]
  BY DestroyedMeaning
<1>3. /\ \A g \in Handles : g # h => (Owns(g, c)' <=> Owns(g, c))
      /\ ~Owns(h, c)'
  BY <1>1 DEF Owns
<1>4. \A g \in Handles : Owns(g, c) => c =< instances
  BY DEF Owns, PluginIInv, PluginType
<1> QED
  BY <1>1, <1>2, <1>3, <1>4

LEMMA DestroyStep ==
  ASSUME PluginIInv, NEW h \in Handles, Plugins!DestroyHandle(h) \/ Plugins!ResetWidget(h)
  PROVE  PluginIInv'
<1>1. PluginType
  BY DEF PluginIInv
<1>2. /\ destroyed' = Plugins!Destroyed(h) /\ landed' = Plugins!DestroyLands(h, opens)
      /\ UNCHANGED <<file, opened, closing, lib, pinned, anchors, instances>>
  BY DEF Plugins!DestroyHandle, Plugins!ResetWidget
<1>3. /\ handle' = [handle EXCEPT ![h] = handle'[h]]
      /\ handle'[h].ctx = 0 /\ handle'[h].owned \in BOOLEAN
      /\ handle'[h] = [ctx |-> handle'[h].ctx, owned |-> handle'[h].owned, token |-> handle'[h].token]
      /\ handle'[h].token \in {0, handle[h].token}
  <2>1. CASE Plugins!DestroyHandle(h)
    BY <1>1, <2>1 DEF Plugins!DestroyHandle, Plugins!NoHandle, PluginType
  <2>2. CASE Plugins!ResetWidget(h)
    <3>1. handle' = [handle EXCEPT ![h] = [ctx |-> 0, owned |-> handle[h].owned, token |-> handle[h].token]]
      <4>1. [handle[h] EXCEPT !.ctx = 0] = [ctx |-> 0, owned |-> handle[h].owned, token |-> handle[h].token]
        BY <1>1 DEF PluginType
      <4>2. handle' = [handle EXCEPT ![h] = [handle[h] EXCEPT !.ctx = 0]]
        BY <1>1, <2>2 DEF Plugins!ResetWidget, PluginType
      <4> QED
        BY <4>1, <4>2
    <3> QED
      BY <1>1, <3>1 DEF PluginType
  <2> QED
    BY <2>1, <2>2
<1>4. \A g \in Handles : g # h => handle'[g] = handle[g]
  BY <1>1, <1>3 DEF PluginType
<1>5. PluginType'
  <2>1. handle'[h] \in [ctx : 0..instances, owned : BOOLEAN, token : 0..opened]
    BY <1>1, <1>3 DEF PluginType
  <2>2. handle' \in [Handles -> [ctx : 0..instances, owned : BOOLEAN, token : 0..opened]]
    BY <1>1, <1>3, <2>1 DEF PluginType
  <2>3. destroyed' \in [1..MaxInstances -> Nat]
    BY <1>2, DestroyedMeaning
  <2> QED
    BY <1>1, <1>2, <2>2, <2>3 DEF PluginType
<1>6. \A t \in 1..opened : InUse(t)' => InUse(t)
  BY <1>2, <1>3, <1>4 DEF InUse
<1>7. HeldIsAdmitted'
  BY <1>2, <1>3, <1>4, <1>6, AdmittedStays DEF PluginIInv, HeldIsAdmitted
<1>8. OneOwner'
  BY <1>2, <1>3, <1>4, ReleaseOwner
<1>9. landed' \in {"none", "plugin"}
  BY <1>2, DestroyLanding
<1>10. OpensCounted'
  <2>1. CASE Plugins!DestroyHandle(h)
    BY <1>2, <1>6, <2>1, CloseStep DEF Plugins!DestroyHandle
  <2>2. CASE Plugins!ResetWidget(h)
    <3>1. \A g \in Handles : handle'[g].token = handle[g].token
      BY <1>1, <1>4, <2>2 DEF PluginType, Plugins!ResetWidget
    <3>2. \A t \in 1..opened : InUse(t)' <=> InUse(t)
      BY <1>2, <3>1 DEF InUse
    <3> QED
      BY <1>2, <2>2, <3>2, CountStays DEF Plugins!ResetWidget
  <2> QED
    BY <2>1, <2>2
<1> QED
  BY <1>5, <1>7, <1>8, <1>9, <1>10 DEF PluginIInv

LEMMA MoveStep ==
  ASSUME PluginIInv, NEW g \in Handles, NEW h \in Handles, Plugins!MoveHandle(g, h)
  PROVE  PluginIInv'
<1> DEFINE widget == file.family = "widget"
<1>1. PluginType
  BY DEF PluginIInv
<1>2. /\ g # h /\ handle[g].token # 0
      /\ handle' = [handle EXCEPT ![h] = handle[g], ![g] = IF widget THEN Plugins!NoHandle ELSE handle[h]]
      /\ destroyed' = IF widget THEN Plugins!Destroyed(h) ELSE destroyed
      /\ landed' = IF widget THEN Plugins!DestroyLands(h, opens) ELSE landed
      /\ UNCHANGED <<file, opened, closing, lib, pinned, anchors, instances>>
      /\ Plugins!Close
  BY DEF Plugins!MoveHandle
<1>3. /\ handle'[h] = handle[g] /\ handle'[g] = (IF widget THEN Plugins!NoHandle ELSE handle[h])
      /\ \A k \in Handles : k # h /\ k # g => handle'[k] = handle[k]
  BY <1>1, <1>2 DEF PluginType
<1>4. Plugins!NoHandle \in [ctx : 0..instances, owned : BOOLEAN, token : 0..opened]
  BY <1>1 DEF PluginType, Plugins!NoHandle
<1> HIDE DEF widget
<1>5. PluginType'
  <2>1. handle' \in [Handles -> [ctx : 0..instances, owned : BOOLEAN, token : 0..opened]]
    BY <1>1, <1>2, <1>4 DEF PluginType
  <2>2. destroyed' \in [1..MaxInstances -> Nat]
    BY <1>1, <1>2, DestroyedMeaning DEF PluginType
  <2> QED
    BY <1>1, <1>2, <2>1, <2>2 DEF PluginType
<1>6. \A t \in 1..opened : InUse(t)' => InUse(t)
  <2>1. \A k \in Handles : handle'[k] = Plugins!NoHandle \/ \E m \in Handles : handle'[k] = handle[m]
    BY <1>3
  <2>2. Plugins!NoHandle.token = 0
    BY DEF Plugins!NoHandle
  <2>3. \A k \in Handles : handle'[k].token = 0 \/ \E m \in Handles : handle'[k].token = handle[m].token
    BY <2>1, <2>2
  <2> SUFFICES ASSUME NEW t \in 1..opened, InUse(t)' PROVE InUse(t)
    OBVIOUS
  <2>4. t # 0
    BY <1>1 DEF PluginType
  <2>5. CASE \E k \in Handles : handle'[k].token = t
    BY <2>3, <2>4, <2>5 DEF InUse
  <2>6. CASE (\E l \in Libraries : lib'[l] = t) \/ t \in pinned' \/ t \in anchors'
    BY <1>2, <2>6 DEF InUse
  <2> QED
    BY <2>5, <2>6 DEF InUse
<1>7. HeldIsAdmitted'
  <2>1. \A k \in Handles : handle'[k].ctx # 0 => handle'[k].token # 0
    <3>1. \A k \in Handles : handle'[k] = Plugins!NoHandle \/ \E m \in Handles : handle'[k] = handle[m]
      BY <1>3
    <3>2. Plugins!NoHandle.ctx = 0
      BY DEF Plugins!NoHandle
    <3> QED
      BY <3>1, <3>2 DEF PluginIInv, HeldIsAdmitted
  <2> QED
    BY <1>2, <1>6, <2>1, AdmittedStays DEF PluginIInv, HeldIsAdmitted
<1>8. OneOwner'
  <2> DEFINE Good(c) ==
        IF c =< instances
          THEN \/ destroyed[c] = 0 /\ \E o \in Handles : Owns(o, c) /\ \A k \in Handles : Owns(k, c) => k = o
               \/ destroyed[c] = 1 /\ \A o \in Handles : ~Owns(o, c)
          ELSE destroyed[c] = 0
  <2> SUFFICES ASSUME NEW c \in 1..MaxInstances PROVE Good(c)'
    BY DEF OneOwner
  <2>1. Good(c) /\ c # 0
    BY DEF PluginIInv, OneOwner
  <2>2. \A k \in Handles : Owns(k, c) => c =< instances
    BY DEF Owns, PluginIInv, PluginType
  <2>3. /\ Owns(h, c)' <=> Owns(g, c)
        /\ \A k \in Handles : k # h /\ k # g => (Owns(k, c)' <=> Owns(k, c))
    BY <1>3 DEF Owns
  <2>4. CASE widget
    <3>1. destroyed'[c] = IF Owns(h, c) THEN destroyed[c] + 1 ELSE destroyed[c]
      BY <1>2, <2>4, DestroyedMeaning
    <3>2. ~Owns(g, c)'
      BY <1>3, <2>1, <2>4 DEF Owns, Plugins!NoHandle
    <3> QED
      BY <1>2, <2>1, <2>2, <2>3, <3>1, <3>2
  <2>5. CASE ~widget
    <3>1. Owns(g, c)' <=> Owns(h, c)
      BY <1>3, <2>5 DEF Owns
    <3> QED
      BY <1>2, <2>1, <2>3, <2>5, <3>1
  <2> QED
    BY <2>4, <2>5
<1>9. landed' \in {"none", "plugin"}
  BY <1>2, DestroyLanding DEF PluginIInv
<1>10. OpensCounted'
  BY <1>2, <1>6, CloseStep
<1> QED
  BY <1>5, <1>7, <1>8, <1>9, <1>10 DEF PluginIInv

LEMMA BorrowStep ==
  ASSUME PluginIInv, NEW h \in Handles, NEW g \in Handles, Plugins!BorrowDialog(h, g)
  PROVE  PluginIInv'
<1>1. PluginType
  BY DEF PluginIInv
<1>2. /\ file.family \in {"data_source", "toolbox"} /\ handle[h].ctx # 0 /\ handle[g] = Plugins!NoHandle
      /\ landed' = Plugins!Landing(Plugins!Slot("get_dialog"), opens)
      /\ UNCHANGED <<file, opened, closing, opens, lib, pinned, anchors, instances, destroyed>>
  BY DEF Plugins!BorrowDialog
<1>3. handle' = [handle EXCEPT ![g] = [ctx |-> handle[h].ctx, owned |-> FALSE, token |-> handle[h].token]]
  <2>1. [handle[h] EXCEPT !.owned = FALSE] = [ctx |-> handle[h].ctx, owned |-> FALSE, token |-> handle[h].token]
    <3>1. \A v : [handle[h] EXCEPT !.owned = v] = [ctx |-> handle[h].ctx, owned |-> v, token |-> handle[h].token]
      BY <1>1 DEF PluginType
    <3> QED
      BY <3>1, Zenon
  <2> QED
    BY <2>1 DEF Plugins!BorrowDialog
<1>4. /\ handle'[g] = [ctx |-> handle[h].ctx, owned |-> FALSE, token |-> handle[h].token]
      /\ \A k \in Handles : k # g => handle'[k] = handle[k]
  BY <1>1, <1>3 DEF PluginType
<1>5. PluginType'
  <2>1. handle' \in [Handles -> [ctx : 0..instances, owned : BOOLEAN, token : 0..opened]]
    BY <1>1, <1>3 DEF PluginType
  <2> QED
    BY <1>1, <1>2, <2>1 DEF PluginType
<1>6. handle[g].token = 0 /\ g # h /\ ~handle[g].owned
  BY <1>2 DEF Plugins!NoHandle
<1>7. \A t \in 1..opened : InUse(t)' <=> InUse(t)
  <2>1. \A t \in 1..opened : (\E k \in Handles : handle'[k].token = t) <=> (\E k \in Handles : handle[k].token = t)
    BY <1>4, <1>6
  <2> QED
    BY <1>2, <2>1 DEF InUse
<1>8. HeldIsAdmitted'
  BY <1>2, <1>4, <1>7, AdmittedStays DEF PluginIInv, HeldIsAdmitted
<1>9. OneOwner'
  <2>1. \A k \in Handles, c \in 1..MaxInstances : Owns(k, c)' <=> Owns(k, c)
    BY <1>4, <1>6 DEF Owns
  <2> QED
    BY <1>2, <2>1 DEF PluginIInv, OneOwner
<1>10. landed' \in {"none", "plugin"}
  <2>1. handle[h].token \in 1..opened
    BY <1>1, <1>2 DEF PluginIInv, PluginType, HeldIsAdmitted
  <2>2. Plugins!Admitted /\ Plugins!Mapped(opens)
    BY <2>1, HeldIsMapped DEF InUse
  <2>3. file \in Plugins!Files
    BY <1>1 DEF PluginType
  <2> QED
    BY <1>2, <2>2, <2>3, FileFacts, RequiredLands
<1>11. OpensCounted'
  BY <1>2, <1>7, CountStays
<1> QED
  BY <1>5, <1>8, <1>9, <1>10, <1>11 DEF PluginIInv

\* A call of a handle's method: the check it makes, or the loader's, covers the slot.
LEMMA CallStep ==
  ASSUME PluginIInv, NEW h \in Handles, NEW i \in DOMAIN Plugins!Slots, Plugins!CallPlugin(h, i)
  PROVE  landed' = "plugin"
<1> DEFINE t == Plugins!Vtable(file.family)
           checks == Plugins!Checks(file.family)
           check == IF t.slots[i] \in DOMAIN checks THEN checks[t.slots[i]] ELSE "none"
<1>1. PluginType
  BY DEF PluginIInv
<1>2. Demands(t, Plugins!Required(file.family), checks) /\ file.struct_size \in Nat
  BY <1>1, FileFacts DEF PluginType
<1>3. Plugins!Slots = t.slots
  BY DEF Plugins!Slots
<1>4. /\ handle[h].ctx # 0 /\ landed' = Plugins!Landing(i, opens)
      /\ CASE check = "none" -> TRUE
           [] check = "slot" -> i \notin file.null
           [] check = "tail" -> Plugins!Covered(i) /\ i \notin file.null
  BY <1>3 DEF Plugins!CallPlugin
<1>5. handle[h].token \in 1..opened
  BY <1>1, <1>4 DEF PluginIInv, PluginType, HeldIsAdmitted
<1>6. Plugins!Admitted /\ Plugins!Mapped(opens)
  BY <1>5, HeldIsMapped DEF InUse
<1>7. file.struct_size >= t.min
  BY <1>6 DEF Plugins!Admitted
<1> HIDE DEF t, checks
<1>8. t.min \in Nat /\ i \in Nat
  BY <1>2, <1>3 DEF Demands
<1>9. CASE t.slots[i] \notin DOMAIN checks
  <2>1. t.slots[i] \in Plugins!Required(file.family)
    BY <1>2, <1>3, <1>9 DEF Demands
  <2>2. Plugins!Slot(t.slots[i]) = i
    <3>1. \A j \in DOMAIN t.slots : t.slots[j] = t.slots[i] => j = i
      BY <1>2, <1>3 DEF Demands
    <3>2. Plugins!Slot(t.slots[i]) = CHOOSE j \in DOMAIN t.slots : t.slots[j] = t.slots[i]
      BY <1>3 DEF Plugins!Slot
    <3> QED
      BY <1>3, <3>1, <3>2
  <2> QED
    BY <1>1, <1>4, <1>6, <2>1, <2>2, RequiredLands DEF PluginType
<1>10. CASE t.slots[i] \in DOMAIN checks
  <2>1. check = "tail" \/ (check = "slot" /\ i =< t.min)
    BY <1>2, <1>3, <1>10 DEF Demands
  <2>2. i \notin file.null
    BY <1>4, <2>1
  <2>3. Plugins!Covered(i)
    <3>1. CASE check = "tail"
      BY <1>4, <3>1
    <3>2. CASE check = "slot" /\ i =< t.min
      BY <1>2, <1>7, <1>8, <3>2 DEF Plugins!Covered
    <3> QED
      BY <2>1, <3>1, <3>2
  <2> QED
    BY <1>4, <1>6, <2>2, <2>3 DEF Plugins!Landing
<1> QED
  BY <1>9, <1>10

\* A step that only jumps into the plugin.
LEMMA JumpStep ==
  ASSUME PluginIInv, landed' \in {"none", "plugin"},
         UNCHANGED <<file, opened, closing, opens, lib, handle, pinned, anchors, instances, destroyed>>
  PROVE  PluginIInv'
<1>1. PluginType'
  BY DEF PluginIInv, PluginType
<1>2. \A t : InUse(t)' <=> InUse(t)
  BY DEF InUse
<1>3. HeldIsAdmitted'
  BY <1>2, AdmittedStays DEF PluginIInv, HeldIsAdmitted
<1>4. OneOwner'
  BY DEF PluginIInv, OneOwner, Owns
<1>5. OpensCounted'
  BY <1>2, CountStays
<1> QED
  BY <1>1, <1>3, <1>4, <1>5 DEF PluginIInv

LEMMA InspectStep ==
  ASSUME PluginIInv, Plugins!Inspect
  PROVE  landed' \in {"none", "plugin"}
<1>1. file \in Plugins!Files /\ opened \in Nat
  BY DEF PluginIInv, PluginType
<1>2. opens + 1 > 0
  BY <1>1, Countable DEF PluginIInv, OpensCounted
<1>3. CASE file.family = "dialog"
  <2>1. Plugins!Landing(Plugins!Slot("get_manifest"), opens + 1) = "plugin"
    BY <1>1, <1>2, <1>3, FileFacts, RequiredLands DEF Plugins!Inspect, Plugins!Mapped
  <2> QED
    BY <1>3, <2>1 DEF Plugins!Inspect, Plugins!tryDialog
<1>4. CASE file.family # "dialog"
  BY <1>4 DEF Plugins!Inspect
<1> QED
  BY <1>3, <1>4

LEMMA AnchorStep ==
  ASSUME PluginIInv,
         \/ \E h \in Handles : Plugins!KeepAnchor(h)
         \/ \E t \in Plugins!Tokens : Plugins!ReleaseAnchor(t)
  PROVE  PluginIInv'
<1>1. PluginType
  BY DEF PluginIInv
<1>2. ASSUME NEW h \in Handles, Plugins!KeepAnchor(h) PROVE PluginIInv'
  <2>1. /\ handle[h].ctx # 0 /\ anchors' = anchors \cup {handle[h].token}
        /\ UNCHANGED <<file, opened, closing, opens, lib, handle, pinned, instances, destroyed, landed>>
    BY <1>2 DEF Plugins!KeepAnchor
  <2>2. handle[h].token \in 1..opened
    BY <1>1, <2>1 DEF PluginIInv, PluginType, HeldIsAdmitted
  <2>3. PluginType'
    BY <1>1, <2>1, <2>2 DEF PluginType
  <2>4. \A t \in 1..opened : InUse(t)' <=> InUse(t)
    BY <2>1 DEF InUse
  <2>5. HeldIsAdmitted'
    BY <2>1, <2>4, AdmittedStays DEF PluginIInv, HeldIsAdmitted
  <2>6. OneOwner' /\ landed' \in {"none", "plugin"}
    BY <2>1 DEF PluginIInv, OneOwner, Owns
  <2>7. OpensCounted'
    BY <2>1, <2>4, CountStays
  <2> QED
    BY <2>3, <2>5, <2>6, <2>7 DEF PluginIInv
<1>3. ASSUME NEW t \in Plugins!Tokens, Plugins!ReleaseAnchor(t) PROVE PluginIInv'
  <2>1. /\ t \in anchors /\ anchors' = anchors \ {t}
        /\ landed' = IF Plugins!Mapped(opens) THEN "plugin" ELSE "unmapped"
        /\ UNCHANGED <<file, opened, closing, lib, handle, pinned, instances, destroyed>>
        /\ Plugins!Close
    BY <1>3 DEF Plugins!ReleaseAnchor
  <2>2. t \in 1..opened /\ InUse(t)
    BY <1>1, <2>1 DEF PluginType, InUse
  <2>3. landed' = "plugin"
    BY <2>1, <2>2, HeldIsMapped
  <2>4. PluginType'
    BY <1>1, <2>1 DEF PluginType
  <2>5. \A u \in 1..opened : InUse(u)' => InUse(u)
    BY <2>1 DEF InUse
  <2>6. HeldIsAdmitted'
    BY <2>1, <2>5, AdmittedStays DEF PluginIInv, HeldIsAdmitted
  <2>7. OneOwner'
    BY <2>1 DEF PluginIInv, OneOwner, Owns
  <2>8. OpensCounted'
    BY <2>1, <2>5, CloseStep
  <2> QED
    BY <2>3, <2>4, <2>6, <2>7, <2>8 DEF PluginIInv
<1> QED
  BY <1>2, <1>3

LEMMA PluginStep ==
  ASSUME PluginIInv, [Plugins!Next]_(Plugins!plugVars)
  PROVE  PluginIInv'
<1>1. CASE UNCHANGED Plugins!plugVars
  BY <1>1, JumpStep DEF Plugins!plugVars, PluginIInv
<1>2. ASSUME NEW l \in Libraries, Plugins!Load(l) PROVE PluginIInv'
  BY <1>2, TakeStep DEF Plugins!Load
<1>3. ASSUME NEW l \in Libraries, Plugins!LoadFromHandle(l) PROVE PluginIInv'
  BY <1>3, TakeStep DEF Plugins!LoadFromHandle
<1>4. CASE Plugins!Inspect
  BY <1>4, InspectStep, JumpStep DEF Plugins!Inspect
<1>5. ASSUME NEW h \in Handles, NEW i \in DOMAIN Plugins!Slots, Plugins!CallPlugin(h, i) PROVE PluginIInv'
  BY <1>5, CallStep, JumpStep DEF Plugins!CallPlugin
<1> QED
  BY <1>1, <1>2, <1>3, <1>4, <1>5, LibraryStep, CreateStep, DestroyStep, MoveStep, BorrowStep, AnchorStep
     DEF Plugins!Next

\* Whatever order libraries, handles, borrowed dialogs and payload anchors are loaded,
\* moved and dropped in, and whichever release the plugin was built from: every jump of
\* the loaders and handles lands on a filled slot of a mapped file, an instance has one
\* owner until it is destroyed, once, and the native loader counts exactly the tokens
\* that are held and the widget files that are never closed.
THEOREM PluginsOutliveUsers == Plugins!Spec => []CodeOutlivesItsUsers
<1>1. Plugins!Init => PluginIInv
  <2> SUFFICES ASSUME Plugins!Init PROVE PluginIInv
    OBVIOUS
  <2> USE LoadBounds DEF Plugins!Init, Plugins!Fresh
  <2>1. PluginType
    BY DEF PluginType, Plugins!Tokens, Plugins!NoHandle
  <2>2. HeldIsAdmitted
    BY DEF HeldIsAdmitted, Plugins!NoHandle
  <2>3. OneOwner
    BY DEF OneOwner
  <2>4. ToClose = {} /\ NeverClosed = {}
    BY DEF ToClose, NeverClosed
  <2>5. OpensCounted
    BY <2>4, FS_EmptySet DEF OpensCounted
  <2> QED
    BY <2>1, <2>2, <2>3, <2>5 DEF PluginIInv
<1>2. PluginIInv /\ [Plugins!Next]_(Plugins!plugVars) => PluginIInv'
  BY PluginStep
<1>3. PluginIInv => CodeOutlivesItsUsers
  <2> SUFFICES ASSUME PluginIInv PROVE CodeOutlivesItsUsers
    OBVIOUS
  <2>1. ASSUME NEW c \in 1..instances PROVE Plugins!Cardinality(Plugins!Owners(c)) + destroyed[c] = 1
    <3>1. c \in 1..MaxInstances /\ c =< instances
      BY LoadBounds DEF PluginIInv, PluginType
    <3>2. Plugins!Owners(c) = {h \in Handles : Owns(h, c)}
      BY DEF Plugins!Owners, Owns
    <3>3. CASE destroyed[c] = 0 /\ \E h \in Handles : Owns(h, c) /\ \A g \in Handles : Owns(g, c) => g = h
      <4>1. PICK h \in Handles : Owns(h, c) /\ \A g \in Handles : Owns(g, c) => g = h
        BY <3>3
      <4>2. Plugins!Owners(c) = {h}
        BY <3>2, <4>1
      <4> QED
        BY <3>3, <4>2, FS_Singleton, SameCardinality
    <3>4. CASE destroyed[c] = 1 /\ \A h \in Handles : ~Owns(h, c)
      <4>1. Plugins!Owners(c) = {}
        BY <3>2, <3>4
      <4> QED
        BY <3>4, <4>1, FS_EmptySet, SameCardinality
    <3> QED
      BY <3>1, <3>3, <3>4 DEF PluginIInv, OneOwner
  <2>2. Plugins!JumpsLandInPlugin
    BY <2>1 DEF Plugins!JumpsLandInPlugin, PluginIInv
  <2>3. opens = Plugins!Cardinality({t \in 1..opened : closing[t] /\ ~Plugins!Unused(t)})
                + (IF file.native = "opens" THEN Plugins!Cardinality({t \in 1..opened : ~closing[t]}) ELSE 0)
    <3>1. {t \in 1..opened : closing[t] /\ ~Plugins!Unused(t)} = ToClose
      BY UnusedMeaning DEF ToClose
    <3> QED
      BY <3>1, SameCardinality DEF PluginIInv, OpensCounted, NeverClosed
  <2>4. pinned # {} => Plugins!Mapped(opens)
    <3> SUFFICES ASSUME NEW t \in pinned PROVE Plugins!Mapped(opens)
      OBVIOUS
    <3>1. t \in 1..opened /\ InUse(t)
      BY DEF PluginIInv, PluginType, InUse
    <3> QED
      BY <3>1, HeldIsMapped
  <2> QED
    BY <2>2, <2>3, <2>4 DEF CodeOutlivesItsUsers, Plugins!CodeOutlivesItsUsers, Plugins!OpensAreAccounted
<1> QED
  BY <1>1, <1>2, <1>3, PTL DEF Plugins!Spec
-----------------------------------------------------------------------------
(* The table deltas.  Rows are listed by their indexes: the lemmas up to   *)
(* RemovalsLeave say what the removal of rows one by one, the highest      *)
(* first, leaves of a table.                                               *)


\* A set of naturals has a least one.
LEMMA SomeLeast ==
  ASSUME NEW N \in SUBSET Nat, N # {}
  PROVE  \E n \in N : \A m \in N : n =< m
<1>1. PICK n \in N : \A m \in N : ~(<<m, n>> \in OpToRel(<, Nat))
  BY NatLessThanWellFounded, WFMin
<1>2. \A m, k \in Nat : m < k => <<m, k>> \in OpToRel(<, Nat)
  BY Zenon DEF OpToRel
<1>3. \A m \in N : ~(m < n)
  BY <1>1, <1>2, Zenon
<1> QED
  BY <1>3

\* e lists the set S of row indexes upwards.
Enumerates(e, S) ==
  /\ e \in [1..Cardinality(S) -> S]
  /\ \A x \in S : \E k \in 1..Cardinality(S) : e[k] = x
  /\ \A j, k \in 1..Cardinality(S) : j < k => e[j] < e[k]

LEMMA SameSize == \A S : Tables!Cardinality(S) = Cardinality(S)
  BY DEF Tables!Cardinality, Cardinality

LEMMA RowSets ==
  ASSUME NEW n \in Nat, NEW S \in SUBSET (1..n)
  PROVE  IsFiniteSet(S) /\ Cardinality(S) \in Nat
<1>1. IsFiniteSet(1..n)
  BY FS_Interval
<1> QED
  BY <1>1, FS_Subset, FS_CardinalityType

\* Every set of row indexes can be listed.
LEMMA CanEnumerate ==
  ASSUME NEW n \in Nat, NEW S \in SUBSET (1..n)
  PROVE  \E e : Enumerates(e, S)
<1> DEFINE Upto(m) == S \cap (1..m)
<1> DEFINE N == {m \in Nat : ~\E e : Enumerates(e, Upto(m))}
<1>1. N = {}
  <2> SUFFICES ASSUME N # {} PROVE FALSE
    OBVIOUS
  <2>1. PICK m \in N : \A k \in N : m =< k
    BY SomeLeast
  <2>2. m # 0
    <3> SUFFICES ASSUME m = 0 PROVE FALSE
      OBVIOUS
    <3>1. Upto(0) = {} /\ Cardinality({}) = 0
      BY FS_EmptySet
    <3>2. Enumerates([k \in 1..0 |-> 0], Upto(0))
      BY <3>1 DEF Enumerates
    <3> QED
      BY <2>1, <3>2
  <2>3. PICK e : Enumerates(e, Upto(m - 1))
    BY <2>1, <2>2
  <2>4. m \in S
    <3>1. m \notin S => Upto(m) = Upto(m - 1)
      BY <2>1, <2>2
    <3> QED
      BY <2>1, <2>3, <3>1
  <2>5. PICK T \in SUBSET (1..(m - 1)) : T = Upto(m - 1)
    BY <2>1, <2>2
  <2>0. m - 1 \in Nat
    BY <2>1, <2>2
  <2>6. PICK c \in Nat : c = Cardinality(T)
    BY <2>0, RowSets
  <2>7. Upto(m) = T \cup {m} /\ m \notin T
    BY <2>1, <2>2, <2>4, <2>5
  <2>8. Cardinality(Upto(m)) = c + 1
    <3>1. IsFiniteSet(T)
      BY <2>0, RowSets
    <3> QED
      BY <2>6, <2>7, <3>1, FS_AddElement
  <2> DEFINE f == [k \in 1..(c + 1) |-> IF k = c + 1 THEN m ELSE e[k]]
  <2>9. /\ e \in [1..c -> T] /\ \A x \in T : \E k \in 1..c : e[k] = x
        /\ \A j, k \in 1..c : j < k => e[j] < e[k]
    BY <2>3, <2>5, <2>6 DEF Enumerates
  <2>10. \A x \in T : x \in Nat /\ x < m
    BY <2>1, <2>2, <2>5
  <2>11. f \in [1..(c + 1) -> T \cup {m}]
    BY <2>9
  <2>12. \A x \in T \cup {m} : \E k \in 1..(c + 1) : f[k] = x
    <3>1. f[c + 1] = m /\ c + 1 \in 1..(c + 1)
      OBVIOUS
    <3>2. \A k \in 1..c : k \in 1..(c + 1) /\ f[k] = e[k]
      OBVIOUS
    <3> QED
      BY <2>9, <3>1, <3>2
  <2>13. ASSUME NEW j \in 1..(c + 1), NEW k \in 1..(c + 1), j < k PROVE f[j] < f[k]
    <3>1. j \in 1..c /\ f[j] = e[j] /\ e[j] \in T
      BY <2>9, <2>13
    <3>2. CASE k = c + 1
      BY <2>10, <3>1, <3>2
    <3>3. CASE k # c + 1
      BY <2>9, <2>13, <3>1, <3>3
    <3> QED
      BY <3>2, <3>3
  <2> HIDE DEF f, N
  <2>14. Enumerates(f, T \cup {m})
    BY <2>7, <2>8, <2>11, <2>12, <2>13 DEF Enumerates
  <2> QED
    BY <2>1, <2>7, <2>14 DEF N
<1>2. Upto(n) = S
  OBVIOUS
<1> QED
  BY <1>1, <1>2

\* ... in one way only.
LEMMA OneEnumeration ==
  ASSUME NEW n \in Nat, NEW S \in SUBSET (1..n), NEW e, NEW f, Enumerates(e, S), Enumerates(f, S)
  PROVE  e = f
<1>1. PICK c \in Nat : c = Cardinality(S)
  BY RowSets
<1>2. /\ e \in [1..c -> S] /\ f \in [1..c -> S]
      /\ \A x \in S : (\E k \in 1..c : e[k] = x) /\ (\E k \in 1..c : f[k] = x)
      /\ \A j, k \in 1..c : j < k => e[j] < e[k] /\ f[j] < f[k]
  BY <1>1 DEF Enumerates
<1> DEFINE N == {k \in 1..c : e[k] # f[k]}
<1>3. N = {}
  <2> SUFFICES ASSUME N # {} PROVE FALSE
    OBVIOUS
  <2>0. N \in SUBSET Nat
    OBVIOUS
  <2> HIDE DEF N
  <2>1. PICK k \in N : \A j \in N : k =< j
    BY <2>0, SomeLeast
  <2> USE DEF N
  <2>2. \A j \in 1..c : j < k => e[j] = f[j]
    BY <2>1
  <2>3. e[k] \in Nat /\ f[k] \in Nat /\ e[k] # f[k]
    <3>1. k \in 1..c /\ e[k] # f[k]
      BY <2>1
    <3>2. e[k] \in S /\ f[k] \in S
      BY <1>2, <3>1
    <3>3. \A x \in S : x \in Nat
      OBVIOUS
    <3> QED
      BY <3>1, <3>2, <3>3
  <2>4. CASE e[k] < f[k]
    <3>1. PICK j \in 1..c : f[j] = e[k]
      BY <1>2, <2>1
    <3>2. j < k \/ j = k \/ k < j
      OBVIOUS
    <3> QED
      BY <1>2, <2>1, <2>2, <2>3, <2>4, <3>1, <3>2
  <2>5. CASE f[k] < e[k]
    <3>1. PICK j \in 1..c : e[j] = f[k]
      BY <1>2, <2>1
    <3>2. j < k \/ j = k \/ k < j
      OBVIOUS
    <3> QED
      BY <1>2, <2>1, <2>2, <2>3, <2>5, <3>1, <3>2
  <2> QED
    BY <2>3, <2>4, <2>5
<1> QED
  BY <1>2, <1>3

LEMMA AscendingLists ==
  ASSUME NEW n \in Nat, NEW S \in SUBSET (1..n)
  PROVE  Enumerates(Tables!Ascending(S), S)
<1>1. PICK e : Enumerates(e, S)
  BY CanEnumerate
<1>2. e \in [1..Cardinality(S) -> S] /\ Tables!Range(e) = S /\ \A i, j \in DOMAIN e : i < j => e[i] < e[j]
  BY <1>1 DEF Enumerates, Tables!Range
<1>3. PICK a : a = Tables!Ascending(S)
  OBVIOUS
<1>4. a \in [1..Cardinality(S) -> S] /\ Tables!Range(a) = S /\ \A i, j \in DOMAIN a : i < j => a[i] < a[j]
  <2>1. a = CHOOSE x \in [1..Cardinality(S) -> S] : Tables!Range(x) = S /\ \A i, j \in DOMAIN x : i < j => x[i] < x[j]
    BY <1>3, SameSize DEF Tables!Ascending
  <2> QED
    BY <1>2, <2>1
<1> QED
  BY <1>3, <1>4 DEF Enumerates, Tables!Range

\* What the list a of the rows D becomes when the row i of it goes.
RowGone(D, i, a) ==
  /\ a[i] = i /\ i =< Cardinality(D) /\ Cardinality(D) \in Nat
  /\ Cardinality(D \ {i}) = Cardinality(D) - 1
  /\ Tables!Ascending(D \ {i}) = [k \in 1..(Cardinality(D) - 1) |-> IF k < i THEN a[k] ELSE a[k + 1]]

\* The row i goes while every row below it is there: the rows above move up by one.
LEMMA WithoutRow ==
  ASSUME NEW n \in Nat, NEW D \in SUBSET (1..n), NEW i \in D, 1..i \subseteq D,
         NEW a, a = Tables!Ascending(D)
  PROVE  RowGone(D, i, a)
<1>1. PICK c \in Nat : c = Cardinality(D)
  BY RowSets
<1>2. /\ a \in [1..c -> D] /\ \A x \in D : \E k \in 1..c : a[k] = x
      /\ \A j, k \in 1..c : j < k => a[j] < a[k]
  BY <1>1, AscendingLists DEF Enumerates
<1> DEFINE N == {k \in 1..i : ~(k =< c /\ a[k] = k)}
<1>3. N = {}
  <2> SUFFICES ASSUME N # {} PROVE FALSE
    OBVIOUS
  <2>0. N \in SUBSET Nat
    OBVIOUS
  <2> HIDE DEF N
  <2>1. PICK k \in N : \A j \in N : k =< j
    BY <2>0, SomeLeast
  <2> USE DEF N
  <2>2. \A j \in 1..i : j < k => a[j] = j /\ j =< c
    BY <2>1
  <2>3. PICK j \in 1..c : a[j] = k
    BY <1>2, <2>1
  <2>4. k < j
    BY <2>1, <2>2, <2>3
  <2>5. k \in 1..c /\ a[k] < k /\ a[k] \in 1..n
    <3>1. k \in 1..c
      BY <2>1, <2>4
    <3>2. a[k] < a[j] /\ a[k] \in D
      BY <1>2, <2>4, <3>1
    <3> QED
      BY <2>3, <3>1, <3>2
  <2>6. PICK m \in 1..n : m = a[k]
    BY <2>5
  <2>7. m < k /\ m \in 1..i /\ m \in 1..c /\ a[m] = m
    BY <2>1, <2>2, <2>5, <2>6
  <2> QED
    BY <1>2, <2>5, <2>6, <2>7
<1>4. i \in 1..c /\ a[i] = i
  BY <1>3
<1>5. Cardinality(D \ {i}) = c - 1
  BY <1>1, RowSets, FS_RemoveElement
<1>6. PICK f \in [1..(c - 1) -> D \ {i}] : \A k \in 1..(c - 1) : f[k] = IF k < i THEN a[k] ELSE a[k + 1]
  <2> DEFINE g == [k \in 1..(c - 1) |-> IF k < i THEN a[k] ELSE a[k + 1]]
  <2>1. ASSUME NEW k \in 1..(c - 1) PROVE g[k] \in D \ {i}
    <3>1. CASE k < i
      BY <1>2, <1>4, <3>1
    <3>2. CASE ~(k < i)
      <4>1. k + 1 \in 1..c /\ i < k + 1
        BY <1>4, <3>2
      <4> QED
        BY <1>2, <1>4, <3>2, <4>1
    <3> QED
      BY <3>1, <3>2
  <2>2. g \in [1..(c - 1) -> D \ {i}] /\ \A k \in 1..(c - 1) : g[k] = IF k < i THEN a[k] ELSE a[k + 1]
    BY <2>1
  <2> HIDE DEF g
  <2> QED
    BY <2>2
<1>7. \A x \in D \ {i} : \E k \in 1..(c - 1) : f[k] = x
  <2> SUFFICES ASSUME NEW x \in D \ {i} PROVE \E k \in 1..(c - 1) : f[k] = x
    OBVIOUS
  <2>1. PICK j \in 1..c : a[j] = x
    BY <1>2
  <2>2. CASE j < i
    BY <1>4, <1>6, <2>1, <2>2
  <2>3. CASE i < j
    <3>1. j - 1 \in 1..(c - 1) /\ ~(j - 1 < i) /\ (j - 1) + 1 = j
      BY <1>4, <2>3
    <3> QED
      BY <1>6, <2>1, <3>1
  <2> QED
    BY <1>4, <2>1, <2>2, <2>3
<1>8. \A j, k \in 1..(c - 1) : j < k => f[j] < f[k]
  <2> SUFFICES ASSUME NEW j \in 1..(c - 1), NEW k \in 1..(c - 1), j < k PROVE f[j] < f[k]
    OBVIOUS
  <2>1. j \in 1..c /\ k \in 1..c /\ j + 1 \in 1..c /\ k + 1 \in 1..c /\ j < k + 1 /\ j + 1 < k + 1
    OBVIOUS
  <2> QED
    BY <1>2, <1>6, <2>1
<1>9. Enumerates(f, D \ {i})
  BY <1>5, <1>6, <1>7, <1>8 DEF Enumerates
<1>10. Tables!Ascending(D \ {i}) = f
  <2>1. D \ {i} \in SUBSET (1..n)
    OBVIOUS
  <2>2. Enumerates(Tables!Ascending(D \ {i}), D \ {i})
    BY <2>1, AscendingLists
  <2> QED
    BY <1>9, <2>1, <2>2, OneEnumeration
<1>11. f = [k \in 1..(c - 1) |-> IF k < i THEN a[k] ELSE a[k + 1]]
  BY <1>6
<1> QED
  BY <1>1, <1>4, <1>5, <1>10, <1>11 DEF RowGone

\* The rows of u whose indexes are in D.
Pick(u, D) == [k \in 1..Cardinality(D) |-> u[Tables!Ascending(D)[k]]]

LEMMA PickType ==
  ASSUME NEW C, NEW u \in Seq(C), NEW D \in SUBSET DOMAIN u
  PROVE  Pick(u, D) \in Seq(C) /\ Len(Pick(u, D)) = Cardinality(D) /\ Cardinality(D) \in Nat
<1>1. PICK n \in Nat : DOMAIN u = 1..n /\ \A i \in 1..n : u[i] \in C
  BY LenProperties
<1>2. PICK c \in Nat : c = Cardinality(D)
  BY <1>1, RowSets
<1>3. PICK a \in [1..c -> D] : a = Tables!Ascending(D)
  BY <1>1, <1>2, AscendingLists DEF Enumerates
<1>4. Pick(u, D) = [k \in 1..c |-> u[a[k]]]
  BY <1>2, <1>3 DEF Pick
<1>5. \A k \in 1..c : u[a[k]] \in C
  BY <1>1, <1>3
<1>6. [k \in 1..c |-> u[a[k]]] \in Seq(C) /\ Len([k \in 1..c |-> u[a[k]]]) = c
  BY <1>5
<1> QED
  BY <1>2, <1>4, <1>6

LEMMA PickAll ==
  ASSUME NEW C, NEW u \in Seq(C)
  PROVE  Pick(u, DOMAIN u) = u
<1>1. PICK n \in Nat : DOMAIN u = 1..n /\ n = Len(u)
  BY LenProperties
<1>2. Cardinality(1..n) = n
  <2>1. Cardinality(1..n) = IF 1 > n THEN 0 ELSE n - 1 + 1
    BY FS_Interval
  <2> QED
    BY <2>1
<1>3. Enumerates([k \in 1..n |-> k], 1..n)
  BY <1>2 DEF Enumerates
<1>4. Tables!Ascending(1..n) = [k \in 1..n |-> k]
  BY <1>3, AscendingLists, OneEnumeration
<1>5. Pick(u, DOMAIN u) = [k \in 1..n |-> u[k]]
  BY <1>1, <1>2, <1>4 DEF Pick
<1> QED
  BY <1>1, <1>5

\* Removing one row that no earlier removal has moved.
LEMMA PickRemoves ==
  ASSUME NEW C, NEW u \in Seq(C), NEW D \in SUBSET DOMAIN u, NEW i \in D, 1..i \subseteq D
  PROVE  Tables!RemoveOne(Pick(u, D), i) = Pick(u, D \ {i})
<1>1. PICK n \in Nat : DOMAIN u = 1..n
  BY LenProperties
<1>2. PICK a : a = Tables!Ascending(D)
  OBVIOUS
<1>3. PICK c \in Nat : c = Cardinality(D)
  BY PickType
<1>4. /\ i \in 1..c /\ Cardinality(D \ {i}) = c - 1
      /\ Tables!Ascending(D \ {i}) = [k \in 1..(c - 1) |-> IF k < i THEN a[k] ELSE a[k + 1]]
  <2>1. i \in Nat /\ i > 0 /\ D \in SUBSET (1..n)
    BY <1>1
  <2>2. RowGone(D, i, a)
    BY <1>2, <2>1, WithoutRow
  <2> QED
    BY <1>3, <2>1, <2>2 DEF RowGone
<1>5. PICK p \in Seq(C) : p = Pick(u, D) /\ Len(p) = c
  BY <1>3, PickType
<1>6. PICK q \in Seq(C) : q = Pick(u, D \ {i}) /\ Len(q) = c - 1
  <2>1. D \ {i} \in SUBSET DOMAIN u
    OBVIOUS
  <2> QED
    BY <1>4, <2>1, PickType
<1>7. \A k \in 1..c : p[k] = u[a[k]]
  BY <1>2, <1>3, <1>5 DEF Pick
<1>8. \A k \in 1..(c - 1) : q[k] = IF k < i THEN u[a[k]] ELSE u[a[k + 1]]
  BY <1>4, <1>6 DEF Pick
<1>9. \A k \in 1..(c - 1) : q[k] = IF k < i THEN p[k] ELSE p[k + 1]
  <2> SUFFICES ASSUME NEW k \in 1..(c - 1) PROVE q[k] = IF k < i THEN p[k] ELSE p[k + 1]
    OBVIOUS
  <2>1. k \in 1..c /\ k + 1 \in 1..c
    BY <1>4
  <2> QED
    BY <1>7, <1>8, <2>1
<1>10. i \in DOMAIN p
  BY <1>4, <1>5
<1>11. Tables!RemoveOne(p, i) = SubSeq(p, 1, i - 1) \o SubSeq(p, i + 1, c)
  BY <1>5, <1>10 DEF Tables!RemoveOne, Tables!RemoveAt
<1>12. /\ SubSeq(p, 1, i - 1) \in Seq(C) /\ Len(SubSeq(p, 1, i - 1)) = i - 1
       /\ \A k \in 1..(i - 1) : SubSeq(p, 1, i - 1)[k] = p[k]
  BY <1>4, <1>5, SubSeqProperties
<1>13. /\ SubSeq(p, i + 1, c) \in Seq(C) /\ Len(SubSeq(p, i + 1, c)) = c - i
       /\ \A k \in 1..(c - i) : SubSeq(p, i + 1, c)[k] = p[i + k]
  BY <1>4, <1>5, SubSeqProperties
<1>14. PICK x \in Seq(C), y \in Seq(C) : x = SubSeq(p, 1, i - 1) /\ y = SubSeq(p, i + 1, c)
  BY <1>12, <1>13
<1>0. Len(x) = i - 1 /\ Len(y) = c - i /\ (\A k \in 1..(i - 1) : x[k] = p[k]) /\ \A k \in 1..(c - i) : y[k] = p[i + k]
  BY <1>12, <1>13, <1>14
<1>15. /\ x \o y \in Seq(C) /\ Len(x \o y) = c - 1
       /\ \A k \in 1..(c - 1) : (x \o y)[k] = IF k < i THEN p[k] ELSE p[k + 1]
  <2>1. x \o y \in Seq(C) /\ Len(x \o y) = c - 1
    <3>1. x \o y \in Seq(C) /\ Len(x \o y) = Len(x) + Len(y)
      BY ConcatProperties
    <3> QED
      BY <1>0, <1>4, <3>1
  <2>2. ASSUME NEW k \in 1..(c - 1) PROVE (x \o y)[k] = IF k < i THEN p[k] ELSE p[k + 1]
    <3>1. (x \o y)[k] = IF k =< Len(x) THEN x[k] ELSE y[k - Len(x)]
      BY <1>0, <1>4, ConcatProperties
    <3>2. CASE k < i
      BY <1>0, <1>4, <3>1, <3>2
    <3>3. CASE ~(k < i)
      <4>1. PICK m \in 1..(c - i) : m = k - (i - 1)
        BY <1>4, <3>3
      <4>2. i + m = k + 1 /\ (x \o y)[k] = y[m]
        BY <1>0, <1>4, <3>1, <3>3, <4>1
      <4> QED
        BY <1>0, <3>3, <4>2
    <3> QED
      BY <3>2, <3>3
  <2> QED
    BY <2>1, <2>2
<1>16. x \o y = q
  BY <1>4, <1>6, <1>9, <1>15, SeqEqual
<1> QED
  BY <1>5, <1>6, <1>11, <1>14, <1>16

(* Removals one by one, downwards, leave the rows that are not removed.    *)

LEMMA LeastRows ==
  ASSUME NEW S, IsFiniteSet(S), NEW B \in SUBSET SUBSET S, B # {}
  PROVE  \E s \in B : \A t \in B : t \subseteq s => t = s
<1>1. IsWellFoundedOn(StrictSubsetOrdering(S), SUBSET S)
  BY FS_StrictSubsetOrderingWellFounded, FS_FiniteSubsetsOfFinite
<1>2. PICK s \in B : \A t \in B : ~(<<t, s>> \in StrictSubsetOrdering(S))
  BY <1>1, WFMin
<1> QED
  BY <1>2 DEF StrictSubsetOrdering

LEMMA MaxRow ==
  ASSUME NEW n \in Nat, NEW s \in SUBSET (1..n), s # {}
  PROVE  Tables!Max(s) \in s /\ \A x \in s : x =< Tables!Max(s)
<1> DEFINE N == {k \in 1..n : \A x \in s : x =< k}
<1>0. PICK z \in s : TRUE
  OBVIOUS
<1>1. N \in SUBSET Nat /\ N # {}
  <2>1. n \in 1..n /\ \A y \in s : y =< n
    BY <1>0
  <2> QED
    BY <2>1
<1> HIDE DEF N
<1>2. PICK k \in N : \A j \in N : k =< j
  BY <1>1, SomeLeast
<1> USE DEF N
<1>3. k \in s
  <2> SUFFICES ASSUME k \notin s PROVE FALSE
    OBVIOUS
  <2>1. \A x \in s : x =< k - 1
    BY <1>2
  <2>3. k - 1 \in N
    BY <1>0, <1>2, <2>1
  <2> QED
    BY <1>2, <2>3
<1>4. \E x \in s : \A y \in s : x >= y
  BY <1>2, <1>3
<1> QED
  BY <1>4 DEF Tables!Max

\* The list of indexes is falls.
Falls(is) == \A j, k \in DOMAIN is : j < k => is[k] < is[j]

\* The steps of the fold: the rows left after the removals of the places s of is.
Left(u, is, s) == Pick(u, DOMAIN u \ {is[j] : j \in s})
FoldsTo(f, u, is) ==
  \A s \in SUBSET DOMAIN is :
    f[s] = IF s = {} THEN u ELSE Tables!RemoveOne(f[s \ {Tables!Max(s)}], is[Tables!Max(s)])

LEMMA LeftStep ==
  ASSUME NEW C, NEW u \in Seq(C), NEW n \in Nat, NEW is \in [1..n -> DOMAIN u], Falls(is),
         NEW s \in SUBSET (1..n)
  PROVE  /\ s = {} => Left(u, is, s) = u
         /\ s # {} => Left(u, is, s) = Tables!RemoveOne(Left(u, is, s \ {Tables!Max(s)}), is[Tables!Max(s)])
<1>1. CASE s = {}
  <2>1. DOMAIN u \ {is[j] : j \in s} = DOMAIN u
    BY <1>1
  <2> QED
    BY <1>1, <2>1, PickAll DEF Left
<1>2. CASE s # {}
  <2>1. PICK m \in s : m = Tables!Max(s) /\ \A x \in s : x =< m
    BY <1>2, MaxRow
  <2>2. PICK D : D = DOMAIN u \ {is[j] : j \in s \ {m}}
    OBVIOUS
  <2>3. PICK i \in DOMAIN u : i = is[m]
    BY <2>1
  <2>4. PICK l \in Nat : DOMAIN u = 1..l
    BY LenProperties
  <2>5. \A j \in s \ {m} : i < is[j] /\ is[j] \in 1..l
    BY <2>1, <2>3, <2>4 DEF Falls
  <2>6. D \in SUBSET DOMAIN u /\ i \in D /\ 1..i \subseteq D
    <3>1. i \in 1..l
      BY <2>3, <2>4
    <3>2. ASSUME NEW x \in 1..i PROVE x \in D
      <4>1. x \in 1..l
        BY <3>1
      <4>2. \A j \in s \ {m} : is[j] # x
        BY <2>5, <3>1
      <4> QED
        BY <2>2, <2>4, <4>1, <4>2
    <3> QED
      BY <2>2, <3>1, <3>2
  <2>7. D \ {i} = DOMAIN u \ {is[j] : j \in s}
    BY <2>1, <2>2, <2>3
  <2>8. Tables!RemoveOne(Pick(u, D), i) = Pick(u, D \ {i})
    BY <2>6, PickRemoves
  <2> QED
    BY <1>2, <2>1, <2>2, <2>3, <2>7, <2>8 DEF Left
<1> QED
  BY <1>1, <1>2

LEMMA FoldsAlike ==
  ASSUME NEW u, NEW is, NEW S, IsFiniteSet(S), DOMAIN is = S,
         \A s \in SUBSET S : s # {} => Tables!Max(s) \in s,
         NEW f, NEW g, FoldsTo(f, u, is), FoldsTo(g, u, is)
  PROVE  f[S] = g[S]
<1> DEFINE B == {s \in SUBSET S : f[s] # g[s]}
<1> SUFFICES ASSUME B # {} PROVE FALSE
  OBVIOUS
<1>0. B \in SUBSET SUBSET S
  OBVIOUS
<1>1. PICK s \in B : \A t \in B : t \subseteq s => t = s
  <2> HIDE DEF B
  <2> QED
    BY <1>0, LeastRows
<1>3. s # {}
  BY <1>1 DEF FoldsTo
<1>4. Tables!Max(s) \in s
  BY <1>1, <1>3
<1>5. s \ {Tables!Max(s)} \in SUBSET S /\ s \ {Tables!Max(s)} # s
  BY <1>4
<1>6. f[s \ {Tables!Max(s)}] = g[s \ {Tables!Max(s)}]
  BY <1>1, <1>5
<1> QED
  BY <1>1, <1>3, <1>6 DEF FoldsTo

LEMMA RemovalsLeave ==
  ASSUME NEW C, NEW u \in Seq(C), NEW n \in Nat, NEW is \in [1..n -> DOMAIN u], Falls(is)
  PROVE  Tables!FoldLeft(Tables!RemoveOne, u, is) = Pick(u, DOMAIN u \ {is[j] : j \in 1..n})
<1>0. DOMAIN is = 1..n
  OBVIOUS
<1> DEFINE F(f) == [s \in SUBSET DOMAIN is |->
                      IF s = {} THEN u ELSE Tables!RemoveOne(f[s \ {Tables!Max(s)}], is[Tables!Max(s)])]
<1>1. Tables!FoldLeft(Tables!RemoveOne, u, is) = (CHOOSE f : f = F(f))[DOMAIN is]
  BY DEF Tables!FoldLeft, Tables!MapThenFoldSet
<1> DEFINE h == [s \in SUBSET (1..n) |-> Left(u, is, s)]
<1>2. FoldsTo(h, u, is)
  <2> SUFFICES ASSUME NEW s \in SUBSET (1..n)
               PROVE  h[s] = IF s = {} THEN u ELSE Tables!RemoveOne(h[s \ {Tables!Max(s)}], is[Tables!Max(s)])
    BY <1>0 DEF FoldsTo
  <2>1. h[s] = Left(u, is, s) /\ h[s \ {Tables!Max(s)}] = Left(u, is, s \ {Tables!Max(s)})
    OBVIOUS
  <2>2. /\ s = {} => Left(u, is, s) = u
        /\ s # {} => Left(u, is, s) = Tables!RemoveOne(Left(u, is, s \ {Tables!Max(s)}), is[Tables!Max(s)])
    BY LeftStep
  <2> HIDE DEF h
  <2> QED
    BY <2>1, <2>2
<1>3. h = F(h)
  BY <1>0, <1>2 DEF FoldsTo
<1>4. (CHOOSE f : f = F(f)) = F(CHOOSE f : f = F(f))
  BY <1>3
<1>5. PICK g : g = (CHOOSE f : f = F(f)) /\ g = F(g)
  BY <1>4
<1>6. FoldsTo(g, u, is)
  BY <1>5 DEF FoldsTo
<1>7. g[1..n] = h[1..n]
  <2>1. PICK S : S = 1..n
    OBVIOUS
  <2>2. IsFiniteSet(S)
    BY <2>1, FS_Interval
  <2>3. \A s \in SUBSET S : s # {} => Tables!Max(s) \in s
    <3> SUFFICES ASSUME NEW s \in SUBSET (1..n), s # {} PROVE Tables!Max(s) \in s
      BY <2>1
    <3> QED
      BY MaxRow
  <2>4. DOMAIN is = S
    BY <1>0, <2>1
  <2> HIDE DEF h
  <2>5. g[S] = h[S]
    BY ONLY <1>2, <1>6, <2>2, <2>3, <2>4, FoldsAlike
  <2> QED
    BY <2>1, <2>5
<1>8. h[1..n] = Pick(u, DOMAIN u \ {is[j] : j \in 1..n})
  BY DEF Left
<1> QED
  BY <1>0, <1>1, <1>5, <1>7, <1>8

Rows == Seq(Tables!Cells)
Updates(D) == UNION {[S -> Tables!Cells] : S \in SUBSET D}
Operations(t) == [update : Updates(DOMAIN t), remove : SUBSET DOMAIN t, append : Rows]
Deltas == [seq : Nat, update_cells : Updates(Nat), remove_rows : Seq(Nat), append : Seq({1, 2}),
           append_values : Seq({0, 1})]

\* What the document's delta d and the plugin's operations o have in common.
Says(d, o) ==
  d.update_cells = o.update /\ Tables!Range(d.remove_rows) = o.remove /\ Tables!Appended(d) = o.append

TableType ==
  /\ base \in Rows /\ table \in Rows /\ rows \in Rows
  /\ ops \in Operations(base) /\ delta \in Deltas /\ seq \in Nat \ {0}

\* The inductive invariant of the table deltas.  Before the host has applied the plugin's
\* seq its table is the one the delta is about, afterwards it is the one the plugin means.
TableInv ==
  /\ TableType
  /\ rows # <<>> => rows = Tables!Intended(base, ops)
  /\ applied = seq => table = Tables!Intended(base, ops) /\ delta.seq = seq
  /\ applied # seq =>
       /\ table = base
       /\ fresh => ops = Tables!NoOps
       /\ IF delta.seq = seq THEN Says(delta, ops) ELSE ops = Tables!NoOps /\ delta.seq \in {0, applied}

LEMMA DownwardList ==
  ASSUME NEW n \in Nat, NEW R \in SUBSET (1..n)
  PROVE  \E c \in Nat : \E is \in [1..c -> R] :
           is = Tables!Descending(R) /\ Falls(is) /\ {is[j] : j \in 1..c} = R
<1>1. PICK c \in Nat : c = Cardinality(R)
  BY RowSets
<1>2. PICK a \in [1..c -> R] : /\ a = Tables!Ascending(R)
                               /\ \A x \in R : \E k \in 1..c : a[k] = x
                               /\ \A j, k \in 1..c : j < k => a[j] < a[k]
  <2>1. PICK a : a = Tables!Ascending(R) /\ Enumerates(a, R)
    BY AscendingLists
  <2>2. /\ a \in [1..c -> R]
        /\ \A x \in R : \E k \in 1..c : a[k] = x
        /\ \A j, k \in 1..c : j < k => a[j] < a[k]
    BY <1>1, <2>1 DEF Enumerates
  <2> QED
    BY <2>1, <2>2
<1>3. a \in Seq(R) /\ Len(a) = c
  BY <1>2
<1>4. Tables!Descending(R) = [i \in 1..c |-> a[(c - i) + 1]]
  BY <1>2, <1>3 DEF Tables!Descending, Tables!Reverse
<1>5. PICK is \in [1..c -> R] : is = Tables!Descending(R) /\ \A i \in 1..c : is[i] = a[(c - i) + 1]
  <2>1. \A i \in 1..c : (c - i) + 1 \in 1..c
    OBVIOUS
  <2> QED
    BY <1>2, <1>4, <2>1
<1>6. Falls(is)
  <2> SUFFICES ASSUME NEW j \in 1..c, NEW k \in 1..c, j < k PROVE is[k] < is[j]
    BY <1>5 DEF Falls
  <2>1. (c - j) + 1 \in 1..c /\ (c - k) + 1 \in 1..c /\ (c - k) + 1 < (c - j) + 1
    OBVIOUS
  <2> QED
    BY <1>2, <1>5, <2>1
<1>7. {is[j] : j \in 1..c} = R
  <2>1. ASSUME NEW x \in R PROVE x \in {is[j] : j \in 1..c}
    <3>1. PICK k \in 1..c : a[k] = x
      BY <1>2
    <3>2. PICK j \in 1..c : j = (c - k) + 1
      OBVIOUS
    <3>3. (c - j) + 1 = k
      BY <3>2
    <3> QED
      BY <1>5, <3>1, <3>3
  <2> QED
    BY <1>5, <2>1
<1> QED
  BY <1>5, <1>6, <1>7

\* The table the plugin means, as the rows of the updated table that stay.
LEMMA IntendedRows ==
  ASSUME NEW t \in Rows, NEW o \in Operations(t)
  PROVE  /\ Tables!Updated(t, o.update) \in Rows
         /\ DOMAIN Tables!Updated(t, o.update) = DOMAIN t
         /\ Tables!Intended(t, o) = Pick(Tables!Updated(t, o.update), DOMAIN t \ o.remove) \o o.append
         /\ Tables!Intended(t, o) \in Rows
<1>1. PICK n \in Nat : DOMAIN t = 1..n /\ \A i \in 1..n : t[i] \in Tables!Cells
  BY LenProperties DEF Rows
<1>2. /\ \A i \in DOMAIN o.update : o.update[i] \in Tables!Cells
      /\ o.append \in Rows
  BY DEF Operations, Updates
<1>3. PICK u : u = Tables!Updated(t, o.update)
  OBVIOUS
<1>4. /\ DOMAIN u = 1..n /\ u \in Rows
      /\ \A i \in 1..n : u[i] = IF i \in DOMAIN o.update THEN o.update[i] ELSE t[i]
  <2>1. u = [i \in 1..n |-> IF i \in DOMAIN o.update THEN o.update[i] ELSE t[i]]
    BY <1>1, <1>3 DEF Tables!Updated
  <2>2. \A i \in 1..n : u[i] \in Tables!Cells
    BY <1>1, <1>2, <2>1
  <2>3. u \in Seq(Tables!Cells)
    BY <2>1, <2>2
  <2> QED
    BY <2>1, <2>3 DEF Rows
<1>5. PICK D \in SUBSET (1..n) : D = DOMAIN t \ o.remove
  BY <1>1
<1>6. PICK c \in Nat : c = Cardinality(D)
  BY RowSets
<1>7. PICK a \in [1..c -> D] : a = Tables!Ascending(D)
  BY <1>6, AscendingLists DEF Enumerates
<1>8. Tables!Kept(t, o) = a /\ Len(a) = c
  BY <1>5, <1>7 DEF Tables!Kept
<1>9. Tables!Intended(t, o) =
        [k \in 1..c |-> IF a[k] \in DOMAIN o.update THEN o.update[a[k]] ELSE t[a[k]]] \o o.append
  BY <1>8 DEF Tables!Intended
<1>10. Pick(u, D) = [k \in 1..c |-> IF a[k] \in DOMAIN o.update THEN o.update[a[k]] ELSE t[a[k]]]
  <2>1. \A k \in 1..c : u[a[k]] = IF a[k] \in DOMAIN o.update THEN o.update[a[k]] ELSE t[a[k]]
    BY <1>4, <1>7
  <2> QED
    BY <1>6, <1>7, <2>1 DEF Pick
<1>11. Pick(u, D) \in Rows
  BY <1>4, PickType DEF Rows
<1>12. Pick(u, D) \o o.append \in Rows
  BY <1>2, <1>11, ConcatProperties DEF Rows
<1> QED
  BY <1>1, <1>3, <1>4, <1>5, <1>9, <1>10, <1>12

\* Nothing to do leaves the table as it is.
LEMMA IntendedNothing ==
  ASSUME NEW t \in Rows
  PROVE  Tables!NoOps \in Operations(t) /\ Tables!Intended(t, Tables!NoOps) = t
<1>1. Tables!NoOps \in Operations(t)
  <2>1. <<>> \in Updates(DOMAIN t)
    <3>1. <<>> \in [{} -> Tables!Cells]
      OBVIOUS
    <3> QED
      BY <3>1 DEF Updates
  <2>2. <<>> \in Rows
    BY DEF Rows
  <2> QED
    BY <2>1, <2>2 DEF Operations, Tables!NoOps
<1>2. /\ Tables!NoOps.update = <<>> /\ Tables!NoOps.remove = {} /\ Tables!NoOps.append = <<>>
  BY DEF Tables!NoOps
<1>3. Tables!Updated(t, <<>>) = t
  BY DEF Tables!Updated, Rows
<1>4. Tables!Intended(t, Tables!NoOps) = Pick(t, DOMAIN t) \o <<>>
  <2>1. DOMAIN t \ {} = DOMAIN t
    OBVIOUS
  <2> QED
    BY <1>1, <1>2, <1>3, <2>1, IntendedRows
<1>5. Pick(t, DOMAIN t) = t
  BY PickAll DEF Rows
<1> QED
  BY <1>1, <1>4, <1>5, ConcatEmptySeq DEF Rows

\* Applying a delta that says what the plugin did gives the table the plugin means: the
\* removals of TableDeltaView run downwards, so that none moves a row still to go.
LEMMA DeltaApplies ==
  ASSUME NEW t \in Rows, NEW o \in Operations(t), delta \in Deltas, Says(delta, o)
  PROVE  Tables!Applied(t, Tables!TableDeltaView) = Tables!Intended(t, o)
<1>1. PICK n \in Nat : DOMAIN t = 1..n
  BY LenProperties DEF Rows
<1>2. PICK R \in SUBSET (1..n) : R = o.remove
  BY <1>1 DEF Operations
<1>30. PICK c \in Nat : \E is \in [1..c -> R] :
        is = Tables!Descending(R) /\ Falls(is) /\ {is[j] : j \in 1..c} = R
  BY DownwardList
<1>3. PICK is \in [1..c -> R] : is = Tables!Descending(R) /\ Falls(is) /\ {is[j] : j \in 1..c} = R
  BY <1>30
<1>4. PICK v : v = Tables!TableDeltaView
  OBVIOUS
<1>5. v.remove_rows = is /\ v.update_cells = o.update /\ Tables!Appended(v) = o.append
  BY <1>2, <1>3, <1>4 DEF Tables!TableDeltaView, Deltas, Says, Tables!Appended
<1>6. PICK u \in Rows : u = Tables!Updated(t, o.update) /\ DOMAIN u = DOMAIN t
  BY IntendedRows
<1>7. Tables!FoldLeft(Tables!RemoveOne, u, is) = Pick(u, DOMAIN u \ {is[j] : j \in 1..c})
  <2>1. is \in [1..c -> DOMAIN u]
    BY <1>1, <1>6
  <2>2. PICK C : u \in Seq(C)
    BY <1>6 DEF Rows
  <2>3. Falls(is)
    BY <1>3
  <2> QED
    BY <2>1, <2>2, <2>3, RemovalsLeave
<1>8. Tables!Applied(t, v) = Tables!FoldLeft(Tables!RemoveOne, u, is) \o o.append
  BY <1>5, <1>6 DEF Tables!Applied
<1>9. Tables!Intended(t, o) = Pick(u, DOMAIN t \ R) \o o.append
  BY <1>2, <1>6, IntendedRows
<1>10. Tables!Applied(t, v) = Pick(u, DOMAIN t \ R) \o o.append
  BY <1>3, <1>6, <1>7, <1>8
<1> QED
  BY <1>4, <1>9, <1>10

\* The document's form of appended cells is read back as those cells.
LEMMA AppendedBack ==
  ASSUME NEW cells \in Rows, NEW d,
         d.append = Tables!Texts(cells),
         d.append_values = IF \E i \in DOMAIN cells : cells[i][2] # 0 THEN Tables!Keys(cells) ELSE <<>>
  PROVE  /\ Tables!Appended(d) = cells
         /\ d.append \in Seq({1, 2}) /\ d.append_values \in Seq({0, 1})
<1>1. PICK n \in Nat : DOMAIN cells = 1..n /\ \A i \in 1..n : cells[i] \in Tables!Cells
  BY LenProperties DEF Rows
<1>2. cells = [i \in 1..n |-> cells[i]]
  BY <1>1 DEF Rows
<1>3. \A c \in Tables!Cells : c[1] \in {1, 2} /\ c[2] \in {0, 1} /\ c = <<c[1], c[2]>>
  BY DEF Tables!Cells
<1>4. d.append = [i \in 1..n |-> cells[i][1]]
  BY <1>1 DEF Tables!Texts
<1>5. Tables!Keys(cells) = [i \in 1..n |-> cells[i][2]]
  BY <1>1 DEF Tables!Keys
<1>6. d.append \in Seq({1, 2}) /\ Tables!Keys(cells) \in Seq({0, 1})
  <2>1. \A i \in 1..n : cells[i][1] \in {1, 2} /\ cells[i][2] \in {0, 1}
    BY <1>1, <1>3
  <2>2. PICK x : x = d.append
    OBVIOUS
  <2>3. PICK y : y = Tables!Keys(cells)
    OBVIOUS
  <2>4. x \in [1..n -> {1, 2}]
    BY <1>4, <2>1, <2>2
  <2>5. y \in [1..n -> {0, 1}]
    BY <1>5, <2>1, <2>3
  <2> QED
    BY <2>2, <2>3, <2>4, <2>5, SeqDef
<1>7. <<>> \in Seq({0, 1})
  OBVIOUS
<1>8. \A i \in 1..n : (IF d.append_values = <<>> THEN 0 ELSE d.append_values[i]) = cells[i][2]
  <2> SUFFICES ASSUME NEW i \in 1..n
               PROVE  (IF d.append_values = <<>> THEN 0 ELSE d.append_values[i]) = cells[i][2]
    OBVIOUS
  <2>1. CASE \E j \in 1..n : cells[j][2] # 0
    <3>1. d.append_values = [j \in 1..n |-> cells[j][2]]
      BY <1>1, <1>5, <2>1
    <3>2. d.append_values # <<>>
      BY <3>1
    <3> QED
      BY <3>1, <3>2
  <2>2. CASE ~\E j \in 1..n : cells[j][2] # 0
    BY <1>1, <2>2
  <2> QED
    BY <2>1, <2>2
<1>9. Tables!Appended(d) = [i \in 1..n |-> <<cells[i][1], cells[i][2]>>]
  BY <1>4, <1>8 DEF Tables!Appended
<1>10. Tables!Appended(d) = cells
  BY <1>1, <1>2, <1>3, <1>9
<1> QED
  BY <1>6, <1>7, <1>10

LEMMA TableInit == Tables!Init => TableInv
<1> SUFFICES ASSUME Tables!Init PROVE TableInv
  OBVIOUS
<1>1. base \in Rows /\ table \in Rows /\ rows \in Rows
  BY DEF Tables!Init, Rows
<1>2. ops \in Operations(base)
  BY <1>1, IntendedNothing DEF Tables!Init
<1>3. delta \in Deltas
  <2>1. <<>> \in Updates(Nat)
    <3>1. <<>> \in [{} -> Tables!Cells]
      OBVIOUS
    <3> QED
      BY <3>1 DEF Updates
  <2> QED
    BY <2>1 DEF Tables!Init, Tables!Nothing, Deltas
<1>4. delta.seq = 0 /\ seq = 1 /\ applied = 0 /\ rows = <<>> /\ table = base /\ ops = Tables!NoOps
  BY DEF Tables!Init, Tables!Nothing
<1> QED
  BY <1>1, <1>2, <1>3, <1>4 DEF TableInv, TableType

\* The delta the plugin writes into: one of this seq, saying what it did so far.
LEMMA EntrySays ==
  ASSUME TableInv, applied # seq
  PROVE  /\ Tables!TableDeltaEntry \in Deltas /\ Tables!TableDeltaEntry.seq = seq
         /\ Says(Tables!TableDeltaEntry, ops)
<1>1. CASE delta.seq = seq
  BY <1>1 DEF TableInv, TableType, Tables!TableDeltaEntry
<1>2. CASE delta.seq # seq
  <2>1. ops = Tables!NoOps
    BY <1>2 DEF TableInv
  <2>2. PICK d : d = Tables!TableDeltaEntry
    OBVIOUS
  <2>3. d = [seq |-> seq, update_cells |-> <<>>, remove_rows |-> <<>>, append |-> <<>>, append_values |-> <<>>]
    BY <1>2, <2>2 DEF Tables!TableDeltaEntry, Tables!Nothing
  <2>4. d \in Deltas
    <3>1. <<>> \in Updates(Nat)
      <4>1. <<>> \in [{} -> Tables!Cells]
        OBVIOUS
      <4> QED
        BY <4>1 DEF Updates
    <3>2. seq \in Nat
      BY DEF TableInv, TableType
    <3> QED
      BY <2>3, <3>1, <3>2 DEF Deltas
  <2>5. Tables!Appended(d) = <<>>
    BY <2>3 DEF Tables!Appended
  <2>6. Tables!Range(d.remove_rows) = {}
    BY <2>3 DEF Tables!Range
  <2>7. Says(d, ops)
    BY <2>1, <2>3, <2>5, <2>6 DEF Says, Tables!NoOps
  <2> QED
    BY <2>2, <2>3, <2>4, <2>7
<1> QED
  BY <1>1, <1>2

\* A call that writes its part into the delta and into the operations.
LEMMA WritesKeep ==
  ASSUME TableInv, Tables!Unsent, NEW d \in Deltas, d.seq = seq, NEW o \in Operations(base), Says(d, o),
         Tables!Writes(d, o)
  PROVE  TableInv'
<1>1. /\ delta' = d /\ ops' = o /\ fresh' = FALSE /\ base' = base /\ seq' = seq
      /\ rows' = rows /\ table' = table /\ applied' = applied
  BY DEF Tables!Writes
<1>2. applied # seq /\ rows = <<>>
  BY DEF Tables!Unsent
<1>3. TableType'
  BY <1>1 DEF TableInv, TableType
<1>4. Says(delta', ops')
  BY <1>1
<1>5. table' = base' /\ delta'.seq = seq' /\ applied' # seq'
  BY <1>1, <1>2 DEF TableInv
<1> QED
  BY <1>1, <1>2, <1>3, <1>4, <1>5 DEF TableInv, Says

LEMMA AppendKeeps ==
  ASSUME TableInv, Tables!Unsent, NEW cells \in Rows, Tables!AppendTableRows(cells)
  PROVE  TableInv'
<1>1. PICK e \in Deltas : e = Tables!TableDeltaEntry /\ e.seq = seq /\ Says(e, ops)
  BY EntrySays DEF Tables!Unsent
<1>2. PICK v : v = IF \E i \in DOMAIN cells : cells[i][2] # 0 THEN Tables!Keys(cells) ELSE <<>>
  OBVIOUS
<1>3. PICK d : d = [[e EXCEPT !.append = Tables!Texts(cells)] EXCEPT !.append_values = v]
  OBVIOUS
<1>4. PICK o : o = [ops EXCEPT !.append = cells]
  OBVIOUS
<1>5. Tables!Writes(d, o)
  BY <1>1, <1>2, <1>3, <1>4 DEF Tables!AppendTableRows
<1>6. /\ d.append = Tables!Texts(cells) /\ d.append_values = v /\ d.seq = e.seq
      /\ d.update_cells = e.update_cells /\ d.remove_rows = e.remove_rows
      /\ d = [seq |-> e.seq, update_cells |-> e.update_cells, remove_rows |-> e.remove_rows,
              append |-> Tables!Texts(cells), append_values |-> v]
  BY <1>1, <1>3 DEF Deltas
<1>7. Tables!Appended(d) = cells /\ d.append \in Seq({1, 2}) /\ d.append_values \in Seq({0, 1})
  BY <1>2, <1>6, AppendedBack
<1>8. d \in Deltas
  BY <1>1, <1>6, <1>7 DEF Deltas
<1>9. /\ o \in Operations(base)
      /\ o.update = ops.update /\ o.remove = ops.remove /\ o.append = cells
  BY <1>4 DEF TableInv, TableType, Operations
<1>10. Says(d, o)
  BY <1>1, <1>6, <1>7, <1>9 DEF Says
<1> QED
  BY <1>1, <1>5, <1>6, <1>8, <1>9, <1>10, WritesKeep

LEMMA UpdateKeeps ==
  ASSUME TableInv, Tables!Unsent, NEW cells \in Updates(DOMAIN base), Tables!UpdateTableCells(cells)
  PROVE  TableInv'
<1>1. PICK e \in Deltas : e = Tables!TableDeltaEntry /\ e.seq = seq /\ Says(e, ops)
  BY EntrySays DEF Tables!Unsent
<1>2. PICK d : d = [e EXCEPT !.update_cells = cells]
  OBVIOUS
<1>3. PICK o : o = [ops EXCEPT !.update = cells]
  OBVIOUS
<1>4. Tables!Writes(d, o)
  BY <1>1, <1>2, <1>3 DEF Tables!UpdateTableCells
<1>5. /\ d.append = e.append /\ d.append_values = e.append_values /\ d.seq = e.seq
      /\ d.update_cells = cells /\ d.remove_rows = e.remove_rows
  BY <1>1, <1>2 DEF Deltas
<1>6. d \in Deltas
  <2>1. DOMAIN base \in SUBSET Nat
    BY LenProperties DEF TableInv, TableType, Rows
  <2>2. cells \in Updates(Nat)
    BY <2>1 DEF Updates
  <2> QED
    BY <1>1, <1>2, <2>2 DEF Deltas
<1>7. /\ o \in Operations(base)
      /\ o.update = cells /\ o.remove = ops.remove /\ o.append = ops.append
  BY <1>3 DEF TableInv, TableType, Operations
<1>8. Tables!Appended(d) = Tables!Appended(e)
  BY <1>5 DEF Tables!Appended
<1>9. Says(d, o)
  BY <1>1, <1>5, <1>7, <1>8 DEF Says
<1> QED
  BY <1>1, <1>4, <1>5, <1>6, <1>7, <1>9, WritesKeep

LEMMA RemoveKeeps ==
  ASSUME TableInv, Tables!Unsent, NEW indexes \in Seq(DOMAIN base), Tables!RemoveTableRows(indexes)
  PROVE  TableInv'
<1>1. PICK e \in Deltas : e = Tables!TableDeltaEntry /\ e.seq = seq /\ Says(e, ops)
  BY EntrySays DEF Tables!Unsent
<1>2. PICK d : d = [e EXCEPT !.remove_rows = indexes]
  OBVIOUS
<1>3. PICK o : o = [ops EXCEPT !.remove = Tables!Range(indexes)]
  OBVIOUS
<1>4. Tables!Writes(d, o)
  BY <1>1, <1>2, <1>3 DEF Tables!RemoveTableRows
<1>5. /\ d.append = e.append /\ d.append_values = e.append_values /\ d.seq = e.seq
      /\ d.update_cells = e.update_cells /\ d.remove_rows = indexes
  BY <1>1, <1>2 DEF Deltas
<1>6. d \in Deltas
  <2>1. DOMAIN base \in SUBSET Nat
    BY LenProperties DEF TableInv, TableType, Rows
  <2>2. indexes \in Seq(Nat)
    BY <2>1
  <2> QED
    BY <1>1, <1>2, <2>2 DEF Deltas
<1>7. /\ o \in Operations(base)
      /\ o.update = ops.update /\ o.remove = Tables!Range(indexes) /\ o.append = ops.append
  <2>1. Tables!Range(indexes) \in SUBSET DOMAIN base
    BY DEF Tables!Range
  <2> QED
    BY <1>3, <2>1 DEF TableInv, TableType, Operations
<1>8. Tables!Appended(d) = Tables!Appended(e)
  BY <1>5 DEF Tables!Appended
<1>9. Says(d, o)
  BY <1>1, <1>5, <1>7, <1>8 DEF Says
<1> QED
  BY <1>1, <1>4, <1>5, <1>6, <1>7, <1>9, WritesKeep

LEMMA SetRowsKeeps ==
  ASSUME TableInv, Tables!SetTableRows
  PROVE  TableInv'
<1>1. /\ rows' = Tables!Intended(base, ops)
      /\ base' = base /\ ops' = ops /\ seq' = seq /\ delta' = delta /\ table' = table
      /\ applied' = applied /\ fresh' = FALSE
  BY DEF Tables!SetTableRows
<1>2. Tables!Intended(base, ops) \in Rows
  BY IntendedRows DEF TableInv, TableType
<1>3. TableType'
  BY <1>1, <1>2 DEF TableInv, TableType
<1>4. rows' = Tables!Intended(base', ops')
  BY <1>1
<1>5. applied' = seq' => table' = Tables!Intended(base', ops') /\ delta'.seq = seq'
  BY <1>1 DEF TableInv
<1>6. applied' # seq' =>
        /\ table' = base'
        /\ IF delta'.seq = seq' THEN Says(delta', ops') ELSE ops' = Tables!NoOps /\ delta'.seq \in {0, applied'}
  BY <1>1 DEF TableInv
<1> QED
  BY <1>1, <1>3, <1>4, <1>5, <1>6 DEF TableInv, Says

LEMMA DropRowsKeeps ==
  ASSUME TableInv, Tables!DropRows
  PROVE  TableInv'
<1>1. /\ rows' = <<>>
      /\ base' = base /\ ops' = ops /\ seq' = seq /\ delta' = delta /\ table' = table
      /\ applied' = applied /\ fresh' = fresh
  BY DEF Tables!DropRows
<1>2. TableType'
  BY <1>1 DEF TableInv, TableType, Rows
<1>3. applied' = seq' => table' = Tables!Intended(base', ops') /\ delta'.seq = seq'
  BY <1>1 DEF TableInv
<1>4. applied' # seq' =>
        /\ table' = base' /\ (fresh' => ops' = Tables!NoOps)
        /\ IF delta'.seq = seq' THEN Says(delta', ops') ELSE ops' = Tables!NoOps /\ delta'.seq \in {0, applied'}
  BY <1>1 DEF TableInv
<1> QED
  BY <1>1, <1>2, <1>3, <1>4 DEF TableInv, Says

LEMMA NextDeltaKeeps ==
  ASSUME TableInv, Tables!NextDelta
  PROVE  TableInv'
<1>1. /\ rows = <<>> /\ applied = seq
      /\ base' = Tables!Intended(base, ops) /\ ops' = Tables!NoOps
      /\ seq' = IF seq = MaxSeq THEN 1 ELSE seq + 1
      /\ delta' = delta /\ rows' = rows /\ table' = table /\ applied' = applied
  BY DEF Tables!NextDelta
<1>2. table = Tables!Intended(base, ops) /\ delta.seq = seq
  BY <1>1 DEF TableInv
<1>3. base' = table /\ table' = base'
  BY <1>1, <1>2
<1>4. ops' \in Operations(base') /\ table' = Tables!Intended(base', ops')
  BY <1>1, <1>3, IntendedNothing DEF TableInv, TableType
<1>5. seq' \in Nat \ {0}
  BY <1>1 DEF TableInv, TableType
<1>6. TableType'
  BY <1>1, <1>3, <1>4, <1>5 DEF TableInv, TableType
<1>7. delta'.seq = applied'
  BY <1>1, <1>2
<1> QED
  BY <1>1, <1>3, <1>4, <1>6, <1>7 DEF TableInv

LEMMA RefreshKeeps ==
  ASSUME TableInv, Tables!Refresh
  PROVE  TableInv'
<1>1. /\ base' = base /\ ops' = ops /\ seq' = seq /\ delta' = delta /\ rows' = rows
      /\ applied' = IF delta.seq # 0 THEN delta.seq ELSE applied
      /\ table' = IF rows # <<>> THEN rows
                  ELSE IF delta.seq \notin {0, applied} THEN Tables!Applied(table, Tables!TableDeltaView) ELSE table
  BY DEF Tables!Refresh
<1>2. base \in Rows /\ ops \in Operations(base) /\ delta \in Deltas /\ seq # 0
  BY DEF TableInv, TableType
<1>3. PICK t \in Rows : t = Tables!Intended(base, ops)
  BY <1>2, IntendedRows
<1>4. rows # <<>> => rows = t
  BY <1>3 DEF TableInv
<1>5. CASE delta.seq = seq
  <2>1. applied' = seq
    BY <1>1, <1>2, <1>5
  <2>2. table' = t
    <3>1. CASE rows # <<>>
      BY <1>1, <1>4, <3>1
    <3>2. CASE rows = <<>> /\ applied = seq
      BY <1>1, <1>3, <1>5, <3>2 DEF TableInv
    <3>3. CASE rows = <<>> /\ applied # seq
      <4>1. table = base /\ Says(delta, ops)
        BY <1>5, <3>3 DEF TableInv
      <4>2. table' = Tables!Applied(base, Tables!TableDeltaView)
        BY <1>1, <1>2, <1>5, <3>3, <4>1
      <4> QED
        BY <1>2, <1>3, <4>1, <4>2, DeltaApplies
    <3> QED
      BY <3>1, <3>2, <3>3
  <2>3. TableType'
    BY <1>1, <1>3, <2>2 DEF TableInv, TableType
  <2>4. t = Tables!Intended(base', ops')
    BY <1>1, <1>3
  <2> QED
    BY <1>1, <1>4, <1>5, <2>1, <2>2, <2>3, <2>4 DEF TableInv
<1>6. CASE delta.seq # seq
  <2>1. applied # seq /\ table = base /\ ops = Tables!NoOps /\ delta.seq \in {0, applied}
    BY <1>6 DEF TableInv
  <2>2. applied' = applied
    BY <1>1, <2>1
  <2>3. t = base
    BY <1>2, <1>3, <2>1, IntendedNothing
  <2>4. table' = base
    BY <1>1, <1>4, <2>1, <2>3
  <2>5. TableType'
    BY <1>1, <1>2, <2>4 DEF TableInv, TableType
  <2>6. rows' # <<>> => rows' = Tables!Intended(base', ops')
    BY <1>1, <1>3, <1>4
  <2> QED
    BY <1>1, <1>6, <2>1, <2>2, <2>4, <2>5, <2>6 DEF TableInv
<1> QED
  BY <1>5, <1>6

LEMMA TableUnchanged ==
  ASSUME TableInv, UNCHANGED Tables!deltaVars
  PROVE  TableInv'
<1>1. /\ rows' = rows /\ base' = base /\ ops' = ops /\ seq' = seq /\ delta' = delta /\ table' = table
      /\ applied' = applied /\ fresh' = fresh
  BY DEF Tables!deltaVars
<1>2. TableType'
  BY <1>1 DEF TableInv, TableType
<1>3. rows' # <<>> => rows' = Tables!Intended(base', ops')
  BY <1>1 DEF TableInv
<1>4. applied' = seq' => table' = Tables!Intended(base', ops') /\ delta'.seq = seq'
  BY <1>1 DEF TableInv
<1>5. applied' # seq' =>
        /\ table' = base' /\ (fresh' => ops' = Tables!NoOps)
        /\ IF delta'.seq = seq' THEN Says(delta', ops') ELSE ops' = Tables!NoOps /\ delta'.seq \in {0, applied'}
  BY <1>1 DEF TableInv
<1> QED
  BY <1>2, <1>3, <1>4, <1>5 DEF TableInv, Says

LEMMA SeqOfIsSeq ==
  ASSUME NEW S, NEW n \in Int, NEW s \in Tables!SeqOf(S, n)
  PROVE  s \in Seq(S)
  BY SeqDef DEF Tables!SeqOf

LEMMA TableStep == TableInv /\ [Tables!Next]_(Tables!deltaVars) => TableInv'
<1> SUFFICES ASSUME TableInv, [Tables!Next]_(Tables!deltaVars) PROVE TableInv'
  OBVIOUS
<1>1. ASSUME Tables!Unsent, NEW cells \in Tables!SeqOf(Tables!Cells, MaxRows - Len(base)),
             Tables!AppendTableRows(cells)
      PROVE  TableInv'
  <2>1. MaxRows - Len(base) \in Int
    BY LenProperties, BoundaryAssumption DEF BoundaryAssumption, TableInv, TableType, Rows, Tables!RowsAssumption
  <2>2. cells \in Rows
    BY <1>1, <2>1, SeqOfIsSeq DEF Rows
  <2> QED
    BY <1>1, <2>2, AppendKeeps
<1>2. ASSUME Tables!Unsent, NEW is \in SUBSET DOMAIN base, NEW cells \in [is -> Tables!Cells],
             Tables!UpdateTableCells(cells)
      PROVE  TableInv'
  <2>1. cells \in Updates(DOMAIN base)
    BY DEF Updates
  <2> QED
    BY <1>2, <2>1, UpdateKeeps
<1>3. ASSUME Tables!Unsent, NEW indexes \in Tables!SeqOf(DOMAIN base, 2), Tables!RemoveTableRows(indexes)
      PROVE  TableInv'
  BY <1>3, SeqOfIsSeq, RemoveKeeps
<1> QED
  BY <1>1, <1>2, <1>3, SetRowsKeeps, DropRowsKeeps, NextDeltaKeeps, RefreshKeeps, TableUnchanged
  DEF Tables!Next

\* Whenever the host has read the plugin's last document its table is the one the plugin
\* means: for tables of any length, any operations under one seq in any order, refreshes that
\* repeat a delta, rows sent beside it and a counter that restarts (appendTableRows,
\* updateTableCells and removeTableRows of WidgetData, WidgetDataView::tableDelta).
THEOREM TablesFollow == Tables!Spec => []HostTableFollows
<1>1. TableInv => HostTableFollows
  <2> SUFFICES ASSUME TableInv, fresh PROVE table = Tables!Intended(base, ops)
    BY DEF HostTableFollows, Tables!HostTableFollows
  <2>1. CASE applied = seq
    BY <2>1 DEF TableInv
  <2>2. CASE applied # seq
    <3>1. table = base /\ ops = Tables!NoOps /\ base \in Rows
      BY <2>2 DEF TableInv, TableType
    <3> QED
      BY <3>1, IntendedNothing
  <2> QED
    BY <2>1, <2>2
<1> QED
  BY <1>1, TableInit, TableStep, PTL DEF Tables!Spec
-----------------------------------------------------------------------------
(* The widget document.  The tables of the two headers are compared first: *)
(* every setter fits every accessor (HeadersAgree).                        *)

\* How the setter s, which writes what e says, and the accessor w must fit: a setter that
\* touches a key of w gives all of them, in kinds w accepts, or makes one of them unreadable.
KeysOf(e) == DOMAIN e.put \cup e.erase
Touches(e, w) == KeysOf(e) \cap w.keys # {}
Gives(e, w) ==
  w.keys \subseteq DOMAIN e.put /\ w.keys \cap e.erase = {} /\ \A k \in w.keys : e.put[k] \in w.kinds
Spoils(e, w) == \E k \in w.keys : k \in e.erase \/ (k \in DOMAIN e.put /\ e.put[k] \notin w.kinds)
Fits(w, s, e) ==
  Touches(e, w) => \/ s \in w.reports \ w.withdraws /\ Gives(e, w)
                   \/ s \in w.withdraws \ w.reports /\ Spoils(e, w)

\* The keys of each table of setters.
InputKeys ==
  {"text", "placeholder", "read_only", "current_index", "items", "checked", "value", "min", "max"}
ListKeys ==
  {"list_items", "selected_items", "list_item_colors", "list_deletable", "list_disabled_items",
   "list_multi_select", "list_placeholder"}
TableKeys ==
  {"headers", "rows", "column_values", "sort_indicator", "selected_rows", "disabled_rows", "visible_rows",
   "row_colors", "cell_tooltips", "radio_column", "radio_checked_row"}
TreeKeys ==
  {"tree_headers", "tree_items", "tree_selected_ids", "tree_expanded_ids", "tree_visible_ids",
   "tree_multi_selection"}
ChartKeys ==
  {"chart_series", "chart_markers", "chart_zoom_enabled", "chart_auto_zoom", "chart_placeholder",
   "scene_view"}
TextKeys ==
  {"plain_text", "code_content", "code_language", "code_cursor", "code_caret_tracking", "label",
   "button_text", "button_icon_svg", "button_icon_name", "shortcut"}
PickerKeys ==
  {"filter", "default_suffix", "button_text", "title", "action", "file_picker"}
TimeKeys ==
  {"datetime", "datetime_min", "datetime_max", "date_range_earliest", "date_range_latest", "range_min",
   "range_max", "range_lower", "range_upper", "range_time_min_ns", "range_time_max_ns", "range_markers",
   "marker_timeline_min", "marker_timeline_max", "marker_timeline_marks", "marker_timeline_time_min_ns",
   "marker_timeline_time_max_ns"}
StateKeys ==
  {"valid", "valid_tooltip", "ok_enabled", "tab_index", "stacked_page", "stacked_index", "enabled",
   "visible", "drop_target"}
RequestKeys ==
  {"__request_accept", "__request_sub_dialog", "__request_sub_panel", "__request_sub_panel_close",
   "__request_close"}

PickerOwnKeys == PickerKeys \ {"button_text"}

\* The setters of t write, the accessors of t read, keys of K only; the accessors of g fit t.
Within(t, K) == \A s \in DOMAIN t : KeysOf(t[s]) \subseteq K
ReadsWithin(t, K) == \A a \in DOMAIN t : t[a].keys # {} /\ t[a].keys \subseteq K
TableFits(g, t) == \A a \in DOMAIN g, s \in DOMAIN t : Fits(g[a], s, t[s])

\* The row e writes the keys K of kind, the keys L of another one, and erases E.
Row(e, K, kind, L, other, E) ==
  /\ KeysOf(e) = K \cup L \cup E
  /\ DOMAIN e.put = K \cup L /\ e.erase = E
  /\ \A k \in K : e.put[k] = kind
  /\ \A k \in L : e.put[k] = other

\* The rows of the tables whose setters do more than one thing.
LEMMA TableRowsAre ==
  /\ DOMAIN SetTables =
       {"setTableHeaders", "setTableRows", "setTableRows_typed", "setTableRows_keyless",
        "setTableSortIndicator", "setSelectedRows", "setDisabledRows", "setVisibleRows",
        "clearVisibleRows", "setRowColor", "setCellTooltip", "setTableRadioColumn"}
  /\ Row(SetTables.setTableHeaders, {"headers"}, "strings", {}, "", {})
  /\ Row(SetTables.setTableRows, {"rows"}, "rows", {}, "", {"column_values"})
  /\ Row(SetTables.setTableRows_typed, {"rows"}, "rows", {"column_values"}, "object", {})
  /\ Row(SetTables.setTableRows_keyless, {"rows"}, "rows", {}, "", {"column_values"})
  /\ Row(SetTables.setTableSortIndicator, {"sort_indicator"}, "object", {}, "", {})
  /\ Row(SetTables.setSelectedRows, {"selected_rows"}, "ints", {}, "", {})
  /\ Row(SetTables.setDisabledRows, {"disabled_rows"}, "ints", {}, "", {})
  /\ Row(SetTables.setVisibleRows, {"visible_rows"}, "ints", {}, "", {})
  /\ Row(SetTables.clearVisibleRows, {"visible_rows"}, "null", {}, "", {})
  /\ Row(SetTables.setRowColor, {"row_colors"}, "object", {}, "", {})
  /\ Row(SetTables.setCellTooltip, {"cell_tooltips"}, "object", {}, "", {})
  /\ Row(SetTables.setTableRadioColumn, {"radio_column", "radio_checked_row"}, "int", {}, "", {})
<1> USE DEF Row, KeysOf, SetTables, Sets
<1>0. DOMAIN SetTables =
        {"setTableHeaders", "setTableRows", "setTableRows_typed", "setTableRows_keyless",
         "setTableSortIndicator", "setSelectedRows", "setDisabledRows", "setVisibleRows",
         "clearVisibleRows", "setRowColor", "setCellTooltip", "setTableRadioColumn"}
  OBVIOUS
<1>1. Row(SetTables.setTableHeaders, {"headers"}, "strings", {}, "", {})
  BY DEF And, Erases, Merge
<1>2. Row(SetTables.setTableRows, {"rows"}, "rows", {}, "", {"column_values"})
  BY DEF And, Erases, Merge
<1>3. Row(SetTables.setTableRows_typed, {"rows"}, "rows", {"column_values"}, "object", {})
  BY DEF And, Erases, Merge
<1>4. Row(SetTables.setTableRows_keyless, {"rows"}, "rows", {}, "", {"column_values"})
  BY DEF And, Erases, Merge
<1>5. Row(SetTables.setTableSortIndicator, {"sort_indicator"}, "object", {}, "", {})
  BY DEF And, Erases, Merge
<1>6. Row(SetTables.setSelectedRows, {"selected_rows"}, "ints", {}, "", {})
  BY DEF And, Erases, Merge
<1>7. Row(SetTables.setDisabledRows, {"disabled_rows"}, "ints", {}, "", {})
  BY DEF And, Erases, Merge
<1>8. Row(SetTables.setVisibleRows, {"visible_rows"}, "ints", {}, "", {})
  BY DEF And, Erases, Merge
<1>9. Row(SetTables.clearVisibleRows, {"visible_rows"}, "null", {}, "", {})
  BY DEF And, Erases, Merge
<1>10. Row(SetTables.setRowColor, {"row_colors"}, "object", {}, "", {})
  BY DEF And, Erases, Merge
<1>11. Row(SetTables.setCellTooltip, {"cell_tooltips"}, "object", {}, "", {})
  BY DEF And, Erases, Merge
<1>12. Row(SetTables.setTableRadioColumn, {"radio_column", "radio_checked_row"}, "int", {}, "", {})
  BY DEF And, Erases, Merge
<1> QED
  BY ONLY <1>0, <1>1, <1>2, <1>3, <1>4, <1>5, <1>6, <1>7, <1>8, <1>9, <1>10, <1>11, <1>12

LEMMA StateRowsAre ==
  /\ DOMAIN SetStates =
       {"setFieldValid", "setOkEnabled", "setTabIndex", "setStackedPage", "setStackedIndex", "setEnabled",
        "setVisible", "setDropTarget"}
  /\ Row(SetStates.setFieldValid, {"valid"}, "bool", {"valid_tooltip"}, "string", {})
  /\ Row(SetStates.setOkEnabled, {"ok_enabled"}, "bool", {}, "", {})
  /\ Row(SetStates.setTabIndex, {"tab_index"}, "int", {}, "", {})
  /\ Row(SetStates.setStackedPage, {"stacked_page"}, "string", {}, "", {})
  /\ Row(SetStates.setStackedIndex, {"stacked_index"}, "int", {}, "", {})
  /\ Row(SetStates.setEnabled, {"enabled"}, "bool", {}, "", {})
  /\ Row(SetStates.setVisible, {"visible"}, "bool", {}, "", {})
  /\ Row(SetStates.setDropTarget, {"drop_target"}, "bool", {}, "", {})
  BY DEF Row, KeysOf, SetStates, Sets, And, Merge

\* The structured picker's own object beside the legacy action, and what it erases.
LEMMA StructuredRow ==
  ASSUME NEW kind, NEW K, NEW E, "action" \notin K, "file_picker" \notin K
  PROVE  Row(StructuredPicker(kind, K, E), {"button_text", "title"} \cup K, "string",
             {"action", "file_picker"}, kind, E)
<1>1. PICK e : e = LegacyPicker(kind, K)
  OBVIOUS
<1>2. Row(e, {"button_text", "title"} \cup K, "string", {"action"}, kind, {})
  BY <1>1 DEF LegacyPicker, Row, KeysOf, And, Sets, Merge
<1>3. PICK f : f = And(e, Sets({"file_picker"}, kind))
  OBVIOUS
<1>4. Row(f, {"button_text", "title"} \cup K, "string", {"action", "file_picker"}, kind, {})
  BY <1>2, <1>3 DEF Row, KeysOf, And, Sets, Merge
<1>5. StructuredPicker(kind, K, E) = And(f, Erases(E))
  BY <1>1, <1>3 DEF StructuredPicker
<1> QED
  BY <1>4, <1>5 DEF Row, KeysOf, And, Erases, Merge

LEMMA PickerRowsAre ==
  /\ DOMAIN SetPickers =
       {"setFilePicker", "setSaveFilePicker", "setFolderPicker", "setFilePicker_Open",
        "setFilePicker_Save", "setFilePicker_Directory"}
  /\ Row(SetPickers.setFilePicker, {"button_text", "title", "filter"}, "string", {"action"},
         "file_picker", {})
  /\ Row(SetPickers.setSaveFilePicker, {"button_text", "title", "filter", "default_suffix"}, "string",
         {"action"}, "save_file_picker", {})
  /\ Row(SetPickers.setFolderPicker, {"button_text", "title"}, "string", {"action"}, "folder_picker", {})
  /\ Row(SetPickers.setFilePicker_Open, {"button_text", "title", "filter"}, "string",
         {"action", "file_picker"}, "file_picker", {"default_suffix"})
  /\ Row(SetPickers.setFilePicker_Save, {"button_text", "title", "filter", "default_suffix"}, "string",
         {"action", "file_picker"}, "save_file_picker", {})
  /\ Row(SetPickers.setFilePicker_Directory, {"button_text", "title"}, "string",
         {"action", "file_picker"}, "folder_picker", {"filter", "default_suffix"})
<1> USE DEF Row, KeysOf, SetPickers, Sets
<1>0. DOMAIN SetPickers =
        {"setFilePicker", "setSaveFilePicker", "setFolderPicker", "setFilePicker_Open",
         "setFilePicker_Save", "setFilePicker_Directory"}
  OBVIOUS
<1>1. Row(SetPickers.setFilePicker, {"button_text", "title", "filter"}, "string", {"action"},
            "file_picker", {})
  BY DEF LegacyPicker, StructuredPicker, And, Erases, Merge
<1>2. Row(SetPickers.setSaveFilePicker, {"button_text", "title", "filter", "default_suffix"}, "string",
            {"action"}, "save_file_picker", {})
  BY DEF LegacyPicker, StructuredPicker, And, Erases, Merge
<1>3. Row(SetPickers.setFolderPicker, {"button_text", "title"}, "string", {"action"}, "folder_picker", {})
  BY DEF LegacyPicker, StructuredPicker, And, Erases, Merge
<1>4. Row(SetPickers.setFilePicker_Open, {"button_text", "title", "filter"}, "string",
            {"action", "file_picker"}, "file_picker", {"default_suffix"})
  <2>1. Row(StructuredPicker("file_picker", {"filter"}, {"default_suffix"}),
              {"button_text", "title"} \cup {"filter"},
            "string", {"action", "file_picker"}, "file_picker", {"default_suffix"})
    BY StructuredRow
  <2>2. {"button_text", "title"} \cup {"filter"} = {"button_text", "title", "filter"}
    OBVIOUS
  <2> HIDE DEF Row
  <2> QED
    BY <2>1, <2>2
<1>5. Row(SetPickers.setFilePicker_Save, {"button_text", "title", "filter", "default_suffix"}, "string",
            {"action", "file_picker"}, "save_file_picker", {})
  <2>1. Row(StructuredPicker("save_file_picker", {"filter", "default_suffix"}, {}),
              {"button_text", "title"} \cup {"filter", "default_suffix"},
            "string", {"action", "file_picker"}, "save_file_picker", {})
    BY StructuredRow
  <2>2. {"button_text", "title"} \cup {"filter", "default_suffix"}
              = {"button_text", "title", "filter", "default_suffix"}
    OBVIOUS
  <2> HIDE DEF Row
  <2> QED
    BY <2>1, <2>2
<1>6. Row(SetPickers.setFilePicker_Directory, {"button_text", "title"}, "string",
            {"action", "file_picker"}, "folder_picker", {"filter", "default_suffix"})
  <2>1. Row(StructuredPicker("folder_picker", {}, {"filter", "default_suffix"}),
              {"button_text", "title"} \cup {},
            "string", {"action", "file_picker"}, "folder_picker", {"filter", "default_suffix"})
    BY StructuredRow
  <2>2. {"button_text", "title"} \cup {} = {"button_text", "title"}
    OBVIOUS
  <2> HIDE DEF Row
  <2> QED
    BY <2>1, <2>2
<1> QED
  BY ONLY <1>0, <1>1, <1>2, <1>3, <1>4, <1>5, <1>6

\* The keys the setters of each table write.
LEMMA InputsWrite == Within(SetInputs, InputKeys)
  BY DEF Within, KeysOf, SetInputs, Sets, InputKeys

LEMMA ListsWrite == Within(SetLists, ListKeys)
  BY DEF Within, KeysOf, SetLists, Sets, ListKeys

LEMMA TablesWrite == Within(SetTables, TableKeys)
  BY TableRowsAre DEF Within, Row, TableKeys

LEMMA TreesWrite == Within(SetTrees, TreeKeys)
  BY DEF Within, KeysOf, SetTrees, Sets, TreeKeys

LEMMA ChartsWrite == Within(SetCharts, ChartKeys)
  BY DEF Within, KeysOf, SetCharts, Sets, ChartKeys

LEMMA TextsWrite == Within(SetTexts, TextKeys)
  BY DEF Within, KeysOf, SetTexts, Sets, TextKeys

LEMMA PickersWrite == Within(SetPickers, PickerKeys)
  BY PickerRowsAre DEF Within, Row, PickerKeys

LEMMA TimesWrite == Within(SetTimes, TimeKeys)
  BY DEF Within, KeysOf, SetTimes, Sets, TimeKeys

LEMMA StatesWrite == Within(SetStates, StateKeys)
  BY StateRowsAre DEF Within, Row, StateKeys

LEMMA RequestsWrite == Within(SetRequests, RequestKeys)
  BY DEF Within, KeysOf, SetRequests, Sets, RequestKeys

\* The keys the accessors of each table read.
USE DEF Reads, Until, getString, getInt, getBool, getStringArray, getObject

ReadsOk(w, K) == w.keys # {} /\ w.keys \subseteq K

LEMMA InputsRead == ReadsWithin(GetInputs, InputKeys)
<1>0. DOMAIN GetInputs =
        {"text", "placeholder", "readOnly", "currentIndex", "items", "checked", "valueInt", "valueDouble",
         "rangeMin", "rangeMax"}
  BY DEF GetInputs
<1>1. /\ ReadsOk(GetInputs.text, InputKeys)
      /\ ReadsOk(GetInputs.placeholder, InputKeys)
      /\ ReadsOk(GetInputs.readOnly, InputKeys)
      /\ ReadsOk(GetInputs.currentIndex, InputKeys)
      /\ ReadsOk(GetInputs.items, InputKeys)
  BY DEF ReadsOk, GetInputs, InputKeys
<1>2. /\ ReadsOk(GetInputs.checked, InputKeys)
      /\ ReadsOk(GetInputs.valueInt, InputKeys)
      /\ ReadsOk(GetInputs.valueDouble, InputKeys)
      /\ ReadsOk(GetInputs.rangeMin, InputKeys)
      /\ ReadsOk(GetInputs.rangeMax, InputKeys)
  BY DEF ReadsOk, GetInputs, InputKeys
<1> QED
  BY ONLY <1>0, <1>1, <1>2 DEF ReadsOk, ReadsWithin

LEMMA ListsRead == ReadsWithin(GetLists, ListKeys)
  BY DEF ReadsWithin, GetLists, ListKeys

LEMMA TablesRead == ReadsWithin(GetTables, TableKeys)
  BY DEF ReadsWithin, GetTables, TableKeys

LEMMA RowSetsRead == ReadsWithin(GetRowSets, TableKeys)
  BY DEF ReadsWithin, GetRowSets, TableKeys

LEMMA RowStylesRead == ReadsWithin(GetRowStyles, TableKeys)
  BY DEF ReadsWithin, GetRowStyles, TableKeys

LEMMA TreesRead == ReadsWithin(GetTrees, TreeKeys)
  BY DEF ReadsWithin, GetTrees, TreeKeys

LEMMA ChartsRead == ReadsWithin(GetCharts, ChartKeys)
  BY DEF ReadsWithin, GetCharts, ChartKeys

LEMMA TextsRead == ReadsWithin(GetTexts, TextKeys)
  BY DEF ReadsWithin, GetTexts, TextKeys

LEMMA PickersRead == ReadsWithin(GetPickers, PickerOwnKeys)
<1>0. DOMAIN GetPickers =
        {"isFilePicker", "isSaveFilePicker", "isFolderPicker", "filePickerTitle", "filePickerOptions_Open",
         "filePickerOptions_Save", "filePickerOptions_Directory", "filePickerFilter",
         "saveFilePickerDefaultSuffix"}
  BY DEF GetPickers
<1>1. /\ ReadsOk(GetPickers.isFilePicker, PickerOwnKeys)
      /\ ReadsOk(GetPickers.isSaveFilePicker, PickerOwnKeys)
      /\ ReadsOk(GetPickers.isFolderPicker, PickerOwnKeys)
  BY DEF ReadsOk, GetPickers, PickerOwnKeys, PickerKeys, Action, Structured, Others
<1>2. /\ ReadsOk(GetPickers.filePickerTitle, PickerOwnKeys)
      /\ ReadsOk(GetPickers.filePickerOptions_Open, PickerOwnKeys)
      /\ ReadsOk(GetPickers.filePickerOptions_Save, PickerOwnKeys)
  BY DEF ReadsOk, GetPickers, PickerOwnKeys, PickerKeys, Action, Structured, Others
<1>3. /\ ReadsOk(GetPickers.filePickerOptions_Directory, PickerOwnKeys)
      /\ ReadsOk(GetPickers.filePickerFilter, PickerOwnKeys)
      /\ ReadsOk(GetPickers.saveFilePickerDefaultSuffix, PickerOwnKeys)
  BY DEF ReadsOk, GetPickers, PickerOwnKeys, PickerKeys, Action, Structured, Others
<1> QED
  BY ONLY <1>0, <1>1, <1>2, <1>3 DEF ReadsOk, ReadsWithin

LEMMA TimesRead == ReadsWithin(GetTimes, TimeKeys)
<1>0. DOMAIN GetTimes =
        {"dateTime", "dateTimeRange", "dateRangeEarliest", "dateRangeLatest", "rangeSliderMin",
         "rangeSliderMax", "rangeSliderLower", "rangeSliderUpper", "rangeSliderTimeSpan",
         "rangeSliderMarkers", "markerTimelineMin", "markerTimelineMax", "markerTimelineMarks",
         "markerTimelineTimeSpan"}
  BY DEF GetTimes
<1>1. /\ ReadsOk(GetTimes.dateTime, TimeKeys)
      /\ ReadsOk(GetTimes.dateTimeRange, TimeKeys)
      /\ ReadsOk(GetTimes.dateRangeEarliest, TimeKeys)
      /\ ReadsOk(GetTimes.dateRangeLatest, TimeKeys)
      /\ ReadsOk(GetTimes.rangeSliderMin, TimeKeys)
  BY DEF ReadsOk, GetTimes, TimeKeys
<1>2. /\ ReadsOk(GetTimes.rangeSliderMax, TimeKeys)
      /\ ReadsOk(GetTimes.rangeSliderLower, TimeKeys)
      /\ ReadsOk(GetTimes.rangeSliderUpper, TimeKeys)
      /\ ReadsOk(GetTimes.rangeSliderTimeSpan, TimeKeys)
      /\ ReadsOk(GetTimes.rangeSliderMarkers, TimeKeys)
  BY DEF ReadsOk, GetTimes, TimeKeys
<1>3. /\ ReadsOk(GetTimes.markerTimelineMin, TimeKeys)
      /\ ReadsOk(GetTimes.markerTimelineMax, TimeKeys)
      /\ ReadsOk(GetTimes.markerTimelineMarks, TimeKeys)
      /\ ReadsOk(GetTimes.markerTimelineTimeSpan, TimeKeys)
  BY DEF ReadsOk, GetTimes, TimeKeys
<1> QED
  BY ONLY <1>0, <1>1, <1>2, <1>3 DEF ReadsOk, ReadsWithin

LEMMA StatesRead == ReadsWithin(GetStates, StateKeys)
  BY DEF ReadsWithin, GetStates, StateKeys

LEMMA RequestsRead == ReadsWithin(GetRequests, RequestKeys)
  BY DEF ReadsWithin, GetRequests, RequestKeys

\* The setters and the accessors of the same keys fit.
LEMMA InputsFit == TableFits(GetInputs, SetInputs)
<1> USE DEF Fits, Touches, KeysOf, Gives, Spoils
<1>0. DOMAIN GetInputs =
        {"text", "placeholder", "readOnly", "currentIndex", "items", "checked", "valueInt", "valueDouble",
         "rangeMin", "rangeMax"}
  BY DEF GetInputs
<1>1. \A s \in DOMAIN SetInputs : Fits(GetInputs.text, s, SetInputs[s])
  BY DEF GetInputs, SetInputs, Sets
<1>2. \A s \in DOMAIN SetInputs : Fits(GetInputs.placeholder, s, SetInputs[s])
  BY DEF GetInputs, SetInputs, Sets
<1>3. \A s \in DOMAIN SetInputs : Fits(GetInputs.readOnly, s, SetInputs[s])
  BY DEF GetInputs, SetInputs, Sets
<1>4. \A s \in DOMAIN SetInputs : Fits(GetInputs.currentIndex, s, SetInputs[s])
  BY DEF GetInputs, SetInputs, Sets
<1>5. \A s \in DOMAIN SetInputs : Fits(GetInputs.items, s, SetInputs[s])
  BY DEF GetInputs, SetInputs, Sets
<1>6. \A s \in DOMAIN SetInputs : Fits(GetInputs.checked, s, SetInputs[s])
  BY DEF GetInputs, SetInputs, Sets
<1>7. \A s \in DOMAIN SetInputs : Fits(GetInputs.valueInt, s, SetInputs[s])
  BY DEF GetInputs, SetInputs, Sets
<1>8. \A s \in DOMAIN SetInputs : Fits(GetInputs.valueDouble, s, SetInputs[s])
  BY DEF GetInputs, SetInputs, Sets
<1>9. \A s \in DOMAIN SetInputs : Fits(GetInputs.rangeMin, s, SetInputs[s])
  BY DEF GetInputs, SetInputs, Sets
<1>10. \A s \in DOMAIN SetInputs : Fits(GetInputs.rangeMax, s, SetInputs[s])
  BY DEF GetInputs, SetInputs, Sets
<1> QED
  BY ONLY <1>0, <1>1, <1>2, <1>3, <1>4, <1>5, <1>6, <1>7, <1>8, <1>9, <1>10 DEF TableFits

LEMMA ListsFit == TableFits(GetLists, SetLists)
  BY DEF TableFits, Fits, Touches, KeysOf, Gives, Spoils, GetLists, SetLists, Sets

LEMMA TablesFit == TableFits(GetTables, SetTables)
<1> USE TableRowsAre DEF Fits, Touches, Gives, Spoils, Row
<1>0. DOMAIN GetTables =
        {"tableHeaders", "tableRows", "tableColumnValues", "tableSortIndicator", "tableRadioColumn",
         "tableRadioCheckedRow"}
  BY DEF GetTables
<1>1. \A s \in DOMAIN SetTables : Fits(GetTables.tableHeaders, s, SetTables[s])
  BY DEF GetTables
<1>2. \A s \in DOMAIN SetTables : Fits(GetTables.tableRows, s, SetTables[s])
  BY DEF GetTables
<1>3. \A s \in DOMAIN SetTables : Fits(GetTables.tableColumnValues, s, SetTables[s])
  BY DEF GetTables
<1>4. \A s \in DOMAIN SetTables : Fits(GetTables.tableSortIndicator, s, SetTables[s])
  BY DEF GetTables
<1>5. \A s \in DOMAIN SetTables : Fits(GetTables.tableRadioColumn, s, SetTables[s])
  BY DEF GetTables
<1>6. \A s \in DOMAIN SetTables : Fits(GetTables.tableRadioCheckedRow, s, SetTables[s])
  BY DEF GetTables
<1> QED
  BY ONLY <1>0, <1>1, <1>2, <1>3, <1>4, <1>5, <1>6 DEF TableFits

LEMMA RowSetsFit == TableFits(GetRowSets, SetTables)
<1> USE TableRowsAre DEF Fits, Touches, Gives, Spoils, Row
<1>0. DOMAIN GetRowSets =
        {"selectedRows", "disabledRows"}
  BY DEF GetRowSets
<1>1. \A s \in DOMAIN SetTables : Fits(GetRowSets.selectedRows, s, SetTables[s])
  BY DEF GetRowSets
<1>2. \A s \in DOMAIN SetTables : Fits(GetRowSets.disabledRows, s, SetTables[s])
  BY DEF GetRowSets
<1> QED
  BY ONLY <1>0, <1>1, <1>2 DEF TableFits

LEMMA RowStylesFit == TableFits(GetRowStyles, SetTables)
<1> USE TableRowsAre DEF Fits, Touches, Gives, Spoils, Row
<1>0. DOMAIN GetRowStyles =
        {"visibleRows", "rowColors", "cellTooltips"}
  BY DEF GetRowStyles
<1>1. \A s \in DOMAIN SetTables : Fits(GetRowStyles.visibleRows, s, SetTables[s])
  BY DEF GetRowStyles
<1>2. \A s \in DOMAIN SetTables : Fits(GetRowStyles.rowColors, s, SetTables[s])
  BY DEF GetRowStyles
<1>3. \A s \in DOMAIN SetTables : Fits(GetRowStyles.cellTooltips, s, SetTables[s])
  BY DEF GetRowStyles
<1> QED
  BY ONLY <1>0, <1>1, <1>2, <1>3 DEF TableFits

LEMMA TreesFit == TableFits(GetTrees, SetTrees)
  BY DEF TableFits, Fits, Touches, KeysOf, Gives, Spoils, GetTrees, SetTrees, Sets

LEMMA ChartsFit == TableFits(GetCharts, SetCharts)
  BY DEF TableFits, Fits, Touches, KeysOf, Gives, Spoils, GetCharts, SetCharts, Sets

LEMMA TextsFit == TableFits(GetTexts, SetTexts)
  BY DEF TableFits, Fits, Touches, KeysOf, Gives, Spoils, GetTexts, SetTexts, Sets

LEMMA PickersFit == TableFits(GetPickers, SetPickers)
<1> USE PickerRowsAre DEF Fits, Touches, Gives, Spoils, Row
<1>0. DOMAIN GetPickers =
        {"isFilePicker", "isSaveFilePicker", "isFolderPicker", "filePickerTitle", "filePickerOptions_Open",
         "filePickerOptions_Save", "filePickerOptions_Directory", "filePickerFilter",
         "saveFilePickerDefaultSuffix"}
  BY DEF GetPickers
<1>1. \A s \in DOMAIN SetPickers : Fits(GetPickers.isFilePicker, s, SetPickers[s])
  BY DEF GetPickers, Action, Structured, Others
<1>2. \A s \in DOMAIN SetPickers : Fits(GetPickers.isSaveFilePicker, s, SetPickers[s])
  BY DEF GetPickers, Action, Structured, Others
<1>3. \A s \in DOMAIN SetPickers : Fits(GetPickers.isFolderPicker, s, SetPickers[s])
  BY DEF GetPickers, Action, Structured, Others
<1>4. \A s \in DOMAIN SetPickers : Fits(GetPickers.filePickerTitle, s, SetPickers[s])
  BY DEF GetPickers, Action, Structured, Others
<1>5. \A s \in DOMAIN SetPickers : Fits(GetPickers.filePickerOptions_Open, s, SetPickers[s])
  BY DEF GetPickers, Action, Structured, Others
<1>6. \A s \in DOMAIN SetPickers : Fits(GetPickers.filePickerOptions_Save, s, SetPickers[s])
  BY DEF GetPickers, Action, Structured, Others
<1>7. \A s \in DOMAIN SetPickers : Fits(GetPickers.filePickerOptions_Directory, s, SetPickers[s])
  BY DEF GetPickers, Action, Structured, Others
<1>8. \A s \in DOMAIN SetPickers : Fits(GetPickers.filePickerFilter, s, SetPickers[s])
  BY DEF GetPickers, Action, Structured, Others
<1>9. \A s \in DOMAIN SetPickers : Fits(GetPickers.saveFilePickerDefaultSuffix, s, SetPickers[s])
  BY DEF GetPickers, Action, Structured, Others
<1> QED
  BY ONLY <1>0, <1>1, <1>2, <1>3, <1>4, <1>5, <1>6, <1>7, <1>8, <1>9 DEF TableFits

LEMMA TimesFit == TableFits(GetTimes, SetTimes)
<1> USE DEF Fits, Touches, KeysOf, Gives, Spoils
<1>0. DOMAIN GetTimes =
        {"dateTime", "dateTimeRange", "dateRangeEarliest", "dateRangeLatest", "rangeSliderMin",
         "rangeSliderMax", "rangeSliderLower", "rangeSliderUpper", "rangeSliderTimeSpan",
         "rangeSliderMarkers", "markerTimelineMin", "markerTimelineMax", "markerTimelineMarks",
         "markerTimelineTimeSpan"}
  BY DEF GetTimes
<1>1. \A s \in DOMAIN SetTimes : Fits(GetTimes.dateTime, s, SetTimes[s])
  BY DEF GetTimes, SetTimes, Sets
<1>2. \A s \in DOMAIN SetTimes : Fits(GetTimes.dateTimeRange, s, SetTimes[s])
  BY DEF GetTimes, SetTimes, Sets
<1>3. \A s \in DOMAIN SetTimes : Fits(GetTimes.dateRangeEarliest, s, SetTimes[s])
  BY DEF GetTimes, SetTimes, Sets
<1>4. \A s \in DOMAIN SetTimes : Fits(GetTimes.dateRangeLatest, s, SetTimes[s])
  BY DEF GetTimes, SetTimes, Sets
<1>5. \A s \in DOMAIN SetTimes : Fits(GetTimes.rangeSliderMin, s, SetTimes[s])
  BY DEF GetTimes, SetTimes, Sets
<1>6. \A s \in DOMAIN SetTimes : Fits(GetTimes.rangeSliderMax, s, SetTimes[s])
  BY DEF GetTimes, SetTimes, Sets
<1>7. \A s \in DOMAIN SetTimes : Fits(GetTimes.rangeSliderLower, s, SetTimes[s])
  BY DEF GetTimes, SetTimes, Sets
<1>8. \A s \in DOMAIN SetTimes : Fits(GetTimes.rangeSliderUpper, s, SetTimes[s])
  BY DEF GetTimes, SetTimes, Sets
<1>9. \A s \in DOMAIN SetTimes : Fits(GetTimes.rangeSliderTimeSpan, s, SetTimes[s])
  BY DEF GetTimes, SetTimes, Sets
<1>10. \A s \in DOMAIN SetTimes : Fits(GetTimes.rangeSliderMarkers, s, SetTimes[s])
  BY DEF GetTimes, SetTimes, Sets
<1>11. \A s \in DOMAIN SetTimes : Fits(GetTimes.markerTimelineMin, s, SetTimes[s])
  BY DEF GetTimes, SetTimes, Sets
<1>12. \A s \in DOMAIN SetTimes : Fits(GetTimes.markerTimelineMax, s, SetTimes[s])
  BY DEF GetTimes, SetTimes, Sets
<1>13. \A s \in DOMAIN SetTimes : Fits(GetTimes.markerTimelineMarks, s, SetTimes[s])
  BY DEF GetTimes, SetTimes, Sets
<1>14. \A s \in DOMAIN SetTimes : Fits(GetTimes.markerTimelineTimeSpan, s, SetTimes[s])
  BY DEF GetTimes, SetTimes, Sets
<1> QED
  BY ONLY <1>0, <1>1, <1>2, <1>3, <1>4, <1>5, <1>6, <1>7, <1>8, <1>9, <1>10, <1>11, <1>12, <1>13,
       <1>14 DEF TableFits

LEMMA StatesFit == TableFits(GetStates, SetStates)
<1> USE StateRowsAre DEF Fits, Touches, Gives, Spoils, Row
<1>0. DOMAIN GetStates =
        {"fieldValid", "fieldValidTooltip", "okEnabled", "tabIndex", "stackedPage", "stackedIndex",
         "enabled", "visible", "isDropTarget"}
  BY DEF GetStates
<1>1. \A s \in DOMAIN SetStates : Fits(GetStates.fieldValid, s, SetStates[s])
  BY DEF GetStates
<1>2. \A s \in DOMAIN SetStates : Fits(GetStates.fieldValidTooltip, s, SetStates[s])
  BY DEF GetStates
<1>3. \A s \in DOMAIN SetStates : Fits(GetStates.okEnabled, s, SetStates[s])
  BY DEF GetStates
<1>4. \A s \in DOMAIN SetStates : Fits(GetStates.tabIndex, s, SetStates[s])
  BY DEF GetStates
<1>5. \A s \in DOMAIN SetStates : Fits(GetStates.stackedPage, s, SetStates[s])
  BY DEF GetStates
<1>6. \A s \in DOMAIN SetStates : Fits(GetStates.stackedIndex, s, SetStates[s])
  BY DEF GetStates
<1>7. \A s \in DOMAIN SetStates : Fits(GetStates.enabled, s, SetStates[s])
  BY DEF GetStates
<1>8. \A s \in DOMAIN SetStates : Fits(GetStates.visible, s, SetStates[s])
  BY DEF GetStates
<1>9. \A s \in DOMAIN SetStates : Fits(GetStates.isDropTarget, s, SetStates[s])
  BY DEF GetStates
<1> QED
  BY ONLY <1>0, <1>1, <1>2, <1>3, <1>4, <1>5, <1>6, <1>7, <1>8, <1>9 DEF TableFits

LEMMA RequestsFit == TableFits(GetRequests, SetRequests)
  BY DEF TableFits, Fits, Touches, KeysOf, Gives, Spoils, GetRequests, SetRequests, Sets

LEMMA ButtonTextFit == TableFits(GetTexts, SetPickers)
<1> USE PickerRowsAre DEF Fits, Touches, Gives, Spoils, Row
<1>0. DOMAIN GetTexts =
        {"plainText", "codeContent", "codeLanguage", "codeCursor", "codeCaretTracking", "label",
         "buttonText", "buttonIconSvg", "buttonIconName", "shortcut"}
  BY DEF GetTexts
<1>1. \A s \in DOMAIN SetPickers : Fits(GetTexts.plainText, s, SetPickers[s])
  BY DEF GetTexts
<1>2. \A s \in DOMAIN SetPickers : Fits(GetTexts.codeContent, s, SetPickers[s])
  BY DEF GetTexts
<1>3. \A s \in DOMAIN SetPickers : Fits(GetTexts.codeLanguage, s, SetPickers[s])
  BY DEF GetTexts
<1>4. \A s \in DOMAIN SetPickers : Fits(GetTexts.codeCursor, s, SetPickers[s])
  BY DEF GetTexts
<1>5. \A s \in DOMAIN SetPickers : Fits(GetTexts.codeCaretTracking, s, SetPickers[s])
  BY DEF GetTexts
<1>6. \A s \in DOMAIN SetPickers : Fits(GetTexts.label, s, SetPickers[s])
  BY DEF GetTexts
<1>7. \A s \in DOMAIN SetPickers : Fits(GetTexts.buttonText, s, SetPickers[s])
  BY DEF GetTexts
<1>8. \A s \in DOMAIN SetPickers : Fits(GetTexts.buttonIconSvg, s, SetPickers[s])
  BY DEF GetTexts
<1>9. \A s \in DOMAIN SetPickers : Fits(GetTexts.buttonIconName, s, SetPickers[s])
  BY DEF GetTexts
<1>10. \A s \in DOMAIN SetPickers : Fits(GetTexts.shortcut, s, SetPickers[s])
  BY DEF GetTexts
<1> QED
  BY ONLY <1>0, <1>1, <1>2, <1>3, <1>4, <1>5, <1>6, <1>7, <1>8, <1>9, <1>10 DEF TableFits
HIDE DEF Reads, Until, getString, getInt, getBool, getStringArray, getObject

\* Setters that write no key an accessor reads fit it.
Apart(K, L) == K \cap L = {}

LEMMA ApartFits ==
  ASSUME NEW g, NEW t, NEW K, NEW L, ReadsWithin(g, K), Within(t, L), Apart(K, L)
  PROVE  TableFits(g, t)
  BY DEF ReadsWithin, Within, TableFits, Fits, Touches, Apart

LEMMA KeysApart ==
  /\ \A L \in {ListKeys, TableKeys, TreeKeys, ChartKeys, TextKeys, PickerKeys, TimeKeys, StateKeys,
           RequestKeys} : Apart(InputKeys, L)
  /\ \A L \in {InputKeys, TableKeys, TreeKeys, ChartKeys, TextKeys, PickerKeys, TimeKeys, StateKeys,
           RequestKeys} : Apart(ListKeys, L)
  /\ \A L \in {InputKeys, ListKeys, TreeKeys, ChartKeys, TextKeys, PickerKeys, TimeKeys, StateKeys,
           RequestKeys} : Apart(TableKeys, L)
  /\ \A L \in {InputKeys, ListKeys, TableKeys, ChartKeys, TextKeys, PickerKeys, TimeKeys, StateKeys,
           RequestKeys} : Apart(TreeKeys, L)
  /\ \A L \in {InputKeys, ListKeys, TableKeys, TreeKeys, TextKeys, PickerKeys, TimeKeys, StateKeys,
           RequestKeys} : Apart(ChartKeys, L)
  /\ \A L \in {InputKeys, ListKeys, TableKeys, TreeKeys, ChartKeys, TimeKeys, StateKeys, RequestKeys}
           : Apart(TextKeys, L)
  /\ \A L \in {InputKeys, ListKeys, TableKeys, TreeKeys, ChartKeys, TextKeys, TimeKeys, StateKeys,
           RequestKeys} : Apart(PickerOwnKeys, L)
  /\ \A L \in {InputKeys, ListKeys, TableKeys, TreeKeys, ChartKeys, TextKeys, PickerKeys, StateKeys,
           RequestKeys} : Apart(TimeKeys, L)
  /\ \A L \in {InputKeys, ListKeys, TableKeys, TreeKeys, ChartKeys, TextKeys, PickerKeys, TimeKeys,
           RequestKeys} : Apart(StateKeys, L)
  /\ \A L \in {InputKeys, ListKeys, TableKeys, TreeKeys, ChartKeys, TextKeys, PickerKeys, TimeKeys,
           StateKeys} : Apart(RequestKeys, L)
<1> USE DEF Apart, InputKeys, ListKeys, TableKeys, TreeKeys, ChartKeys, TextKeys, PickerKeys, TimeKeys,
     StateKeys, RequestKeys, PickerOwnKeys
<1>1. \A L \in {ListKeys, TableKeys, TreeKeys, ChartKeys, TextKeys, PickerKeys, TimeKeys, StateKeys,
            RequestKeys} : Apart(InputKeys, L)
  OBVIOUS
<1>2. \A L \in {InputKeys, TableKeys, TreeKeys, ChartKeys, TextKeys, PickerKeys, TimeKeys, StateKeys,
            RequestKeys} : Apart(ListKeys, L)
  OBVIOUS
<1>3. \A L \in {InputKeys, ListKeys, TreeKeys, ChartKeys, TextKeys, PickerKeys, TimeKeys, StateKeys,
            RequestKeys} : Apart(TableKeys, L)
  OBVIOUS
<1>4. \A L \in {InputKeys, ListKeys, TableKeys, ChartKeys, TextKeys, PickerKeys, TimeKeys, StateKeys,
            RequestKeys} : Apart(TreeKeys, L)
  OBVIOUS
<1>5. \A L \in {InputKeys, ListKeys, TableKeys, TreeKeys, TextKeys, PickerKeys, TimeKeys, StateKeys,
            RequestKeys} : Apart(ChartKeys, L)
  OBVIOUS
<1>6. \A L \in {InputKeys, ListKeys, TableKeys, TreeKeys, ChartKeys, TimeKeys, StateKeys, RequestKeys}
            : Apart(TextKeys, L)
  OBVIOUS
<1>7. \A L \in {InputKeys, ListKeys, TableKeys, TreeKeys, ChartKeys, TextKeys, TimeKeys, StateKeys,
            RequestKeys} : Apart(PickerOwnKeys, L)
  OBVIOUS
<1>8. \A L \in {InputKeys, ListKeys, TableKeys, TreeKeys, ChartKeys, TextKeys, PickerKeys, StateKeys,
            RequestKeys} : Apart(TimeKeys, L)
  OBVIOUS
<1>9. \A L \in {InputKeys, ListKeys, TableKeys, TreeKeys, ChartKeys, TextKeys, PickerKeys, TimeKeys,
            RequestKeys} : Apart(StateKeys, L)
  OBVIOUS
<1>10. \A L \in {InputKeys, ListKeys, TableKeys, TreeKeys, ChartKeys, TextKeys, PickerKeys, TimeKeys,
            StateKeys} : Apart(RequestKeys, L)
  OBVIOUS
<1> QED
  BY ONLY <1>1, <1>2, <1>3, <1>4, <1>5, <1>6, <1>7, <1>8, <1>9, <1>10

LEMMA AllWithin ==
  /\ Within(SetInputs, InputKeys)
  /\ Within(SetLists, ListKeys)
  /\ Within(SetTables, TableKeys)
  /\ Within(SetTrees, TreeKeys)
  /\ Within(SetCharts, ChartKeys)
  /\ Within(SetTexts, TextKeys)
  /\ Within(SetPickers, PickerKeys)
  /\ Within(SetTimes, TimeKeys)
  /\ Within(SetStates, StateKeys)
  /\ Within(SetRequests, RequestKeys)
  BY InputsWrite, ListsWrite, TablesWrite, TreesWrite, ChartsWrite, TextsWrite, PickersWrite, TimesWrite,
       StatesWrite, RequestsWrite

LEMMA InputsServed == \A t \in SetterTables : TableFits(GetInputs, t)
  BY InputsFit, InputsRead, KeysApart, AllWithin, ApartFits DEF SetterTables

LEMMA ListsServed == \A t \in SetterTables : TableFits(GetLists, t)
  BY ListsFit, ListsRead, KeysApart, AllWithin, ApartFits DEF SetterTables

LEMMA TablesServed == \A t \in SetterTables : TableFits(GetTables, t)
  BY TablesFit, TablesRead, KeysApart, AllWithin, ApartFits DEF SetterTables

LEMMA RowSetsServed == \A t \in SetterTables : TableFits(GetRowSets, t)
  BY RowSetsFit, RowSetsRead, KeysApart, AllWithin, ApartFits DEF SetterTables

LEMMA RowStylesServed == \A t \in SetterTables : TableFits(GetRowStyles, t)
  BY RowStylesFit, RowStylesRead, KeysApart, AllWithin, ApartFits DEF SetterTables

LEMMA TreesServed == \A t \in SetterTables : TableFits(GetTrees, t)
  BY TreesFit, TreesRead, KeysApart, AllWithin, ApartFits DEF SetterTables

LEMMA ChartsServed == \A t \in SetterTables : TableFits(GetCharts, t)
  BY ChartsFit, ChartsRead, KeysApart, AllWithin, ApartFits DEF SetterTables

LEMMA TextsServed == \A t \in SetterTables : TableFits(GetTexts, t)
  BY TextsFit, ButtonTextFit, TextsRead, KeysApart, AllWithin, ApartFits DEF SetterTables

LEMMA PickersServed == \A t \in SetterTables : TableFits(GetPickers, t)
  BY PickersFit, PickersRead, KeysApart, AllWithin, ApartFits DEF SetterTables

LEMMA TimesServed == \A t \in SetterTables : TableFits(GetTimes, t)
  BY TimesFit, TimesRead, KeysApart, AllWithin, ApartFits DEF SetterTables

LEMMA StatesServed == \A t \in SetterTables : TableFits(GetStates, t)
  BY StatesFit, StatesRead, KeysApart, AllWithin, ApartFits DEF SetterTables

LEMMA RequestsServed == \A t \in SetterTables : TableFits(GetRequests, t)
  BY RequestsFit, RequestsRead, KeysApart, AllWithin, ApartFits DEF SetterTables

\* Whatever the accessor and whatever the setter, the two headers fit.

LEMMA HeadersAgree ==
  ASSUME NEW a \in DOMAIN Accessors
  PROVE  Accessors[a].keys # {} /\ \A s \in DOMAIN Setters : Fits(Accessors[a], s, Setters[s])
<1>1. PICK g \in AccessorTables : a \in DOMAIN g /\ Accessors[a] = g[a]
  BY DEF Accessors, Joined
<1>2. \A t \in SetterTables : TableFits(g, t)
  BY InputsServed, ListsServed, TablesServed, RowSetsServed, RowStylesServed, TreesServed, ChartsServed,
     TextsServed, PickersServed, TimesServed, StatesServed, RequestsServed DEF AccessorTables
<1>3. \E K : ReadsWithin(g, K)
  BY InputsRead, ListsRead, TablesRead, RowSetsRead, RowStylesRead, TreesRead, ChartsRead, TextsRead,
     PickersRead, TimesRead, StatesRead, RequestsRead DEF AccessorTables
<1>4. g[a].keys # {}
  BY <1>1, <1>3 DEF ReadsWithin
<1>5. ASSUME NEW s \in DOMAIN Setters PROVE Fits(Accessors[a], s, Setters[s])
  <2>1. PICK t \in SetterTables : s \in DOMAIN t /\ Setters[s] = t[s]
    BY DEF Setters, Joined
  <2> QED
    BY <1>1, <1>2, <2>1 DEF TableFits
<1> QED
  BY <1>1, <1>4, <1>5

\* The key k of document d reads as the value v, or as nothing.
Carries(d, w, v) == \A k \in w.keys : k \in DOMAIN d /\ d[k].kind \in w.kinds /\ d[k].value = v
Silent(d, w) == \E k \in w.keys : k \notin DOMAIN d \/ d[k].kind \notin w.kinds

\* The inductive invariant of the widget document: the keys of the watched accessor all
\* carry the value of the last call about it, or one of them cannot be read.
WidgetInv ==
  /\ accessor \in DOMAIN Accessors
  /\ said = 0 => Silent(document, Watched)
  /\ said # 0 => said \in Values /\ Carries(document, Watched, said)

LEMMA SetKeeps ==
  ASSUME WidgetInv, NEW setter \in Relevant, NEW value \in Values, Set(setter, value)
  PROVE  WidgetInv'
<1>1. PICK w : w = Watched
  OBVIOUS
<1>2. setter \in DOMAIN Setters
  BY DEF Relevant
<1>3. PICK e : e = Setters[setter]
  OBVIOUS
<1>4. Fits(w, setter, e)
  BY <1>1, <1>2, <1>3, HeadersAgree DEF WidgetInv, Watched
<1>5. Touches(e, w)
  BY <1>1, <1>3 DEF Relevant, Touches, KeysOf
<1>6. PICK d : d = document'
  OBVIOUS
<1>7. /\ DOMAIN d = (DOMAIN e.put \cup DOMAIN document) \ e.erase
      /\ \A k \in DOMAIN d : k \in DOMAIN e.put => d[k] = [kind |-> e.put[k], value |-> value]
  BY <1>3, <1>6 DEF Set, Merge
<1>8. /\ setter \in w.reports \ w.withdraws => said' = value
      /\ setter \in w.withdraws \ w.reports => said' = 0
  BY <1>1 DEF Set
<1>9. accessor' = accessor /\ Watched' = w
  BY <1>1 DEF Set, Watched
<1>10. value # 0
  BY ValuesAssumption
<1>11. CASE setter \in w.reports \ w.withdraws /\ Gives(e, w)
  <2>1. Carries(d, w, value)
    <3> SUFFICES ASSUME NEW k \in w.keys
                 PROVE  k \in DOMAIN d /\ d[k].kind \in w.kinds /\ d[k].value = value
      BY DEF Carries
    <3>1. k \in DOMAIN e.put /\ k \notin e.erase /\ e.put[k] \in w.kinds
      BY <1>11 DEF Gives
    <3>2. k \in DOMAIN d /\ d[k] = [kind |-> e.put[k], value |-> value]
      BY <1>7, <3>1
    <3> QED
      BY <3>1, <3>2
  <2>2. said' = value
    BY <1>8, <1>11
  <2> QED
    BY <1>6, <1>9, <1>10, <2>1, <2>2 DEF WidgetInv
<1>12. CASE setter \in w.withdraws \ w.reports /\ Spoils(e, w)
  <2>1. Silent(d, w)
    <3>1. PICK k \in w.keys : k \in e.erase \/ (k \in DOMAIN e.put /\ e.put[k] \notin w.kinds)
      BY <1>12 DEF Spoils
    <3>2. CASE k \in e.erase
      BY <1>7, <3>2 DEF Silent
    <3>3. CASE k \in DOMAIN e.put /\ e.put[k] \notin w.kinds
      <4>1. k \in DOMAIN d => d[k] = [kind |-> e.put[k], value |-> value]
        BY <1>7, <3>3
      <4>2. k \in DOMAIN d => d[k].kind = e.put[k]
        BY <4>1
      <4> QED
        BY <3>3, <4>2 DEF Silent
    <3> QED
      BY <3>1, <3>2, <3>3
  <2>2. said' = 0
    BY <1>8, <1>12
  <2> QED
    BY <1>6, <1>9, <2>1, <2>2 DEF WidgetInv
<1> QED
  BY <1>4, <1>5, <1>11, <1>12 DEF Fits

LEMMA EmptyIsSilent ==
  ASSUME NEW a \in DOMAIN Accessors
  PROVE  Silent(<<>>, Accessors[a])
  BY HeadersAgree DEF Silent

\* After any sequence of setter calls, whatever their values, every accessor of WidgetDataView
\* answers the value of the last call of WidgetData that speaks about it and nothing when that
\* call withdrew it: for all 87 accessors against all 82 setters of the two headers.
THEOREM AccessorsReadBack == WidgetSpec => []ReadBack
<1>1. WidgetInit => WidgetInv
  BY EmptyIsSilent DEF WidgetInit, EmptyDocument, WidgetInv, Watched
<1>2. WidgetInv /\ [WidgetNext]_widgetVars => WidgetInv'
  <2> SUFFICES ASSUME WidgetInv, [WidgetNext]_widgetVars PROVE WidgetInv'
    OBVIOUS
  <2>1. ASSUME Clear PROVE WidgetInv'
    <3>1. accessor' = accessor /\ said' = 0 /\ document' = <<>>
      BY <2>1 DEF Clear
    <3>2. Silent(<<>>, Accessors[accessor])
      BY EmptyIsSilent DEF WidgetInv
    <3> QED
      BY <3>1, <3>2 DEF WidgetInv, Watched
  <2>2. ASSUME UNCHANGED widgetVars PROVE WidgetInv'
    BY <2>2 DEF widgetVars, WidgetInv, Watched
  <2> QED
    BY <2>1, <2>2, SetKeeps DEF WidgetNext
<1>3. WidgetInv => ReadBack
  <2> SUFFICES ASSUME WidgetInv PROVE Answer = said
    BY DEF ReadBack
  <2>1. PICK w : w = Watched
    OBVIOUS
  <2>2. w.keys # {}
    BY <2>1, HeadersAgree DEF WidgetInv, Watched
  <2>3. CASE said = 0
    BY <2>1, <2>3 DEF WidgetInv, Silent, Answer
  <2>4. CASE said # 0
    <3>1. said \in Values /\ Carries(document, w, said)
      BY <2>1, <2>4 DEF WidgetInv
    <3>2. Answer = CHOOSE v \in Values : \A k \in w.keys : document[k].value = v
      BY <2>1, <3>1 DEF Carries, Answer
    <3>3. \A v \in Values : (\A k \in w.keys : document[k].value = v) <=> v = said
      BY <2>2, <3>1 DEF Carries
    <3> QED
      BY <3>1, <3>2, <3>3
  <2> QED
    BY <2>3, <2>4
<1> QED
  BY <1>1, <1>2, <1>3, PTL DEF WidgetSpec

-----------------------------------------------------------------------------
(* The widget events.                                                      *)

LEMMA PathsAreNot == Events!PathsAssumption
  BY BoundaryAssumption DEF BoundaryAssumption


\* The chain, group by group.
LEMMA ChainIs ==
  /\ DOMAIN Events!LegacyChain = 1..22
  /\ \A i \in 1..8 : Events!LegacyChain[i] = Events!GestureChannels[i]
  /\ \A i \in 1..7 : Events!LegacyChain[8 + i] = Events!InputChannels[i]
  /\ \A i \in 1..5 : Events!LegacyChain[15 + i] = Events!IndexChannels[i]
  /\ \A i \in 1..2 : Events!LegacyChain[20 + i] = Events!ValueChannels[i]
  BY DEF Events!LegacyChain, Events!GestureChannels, Events!InputChannels, Events!IndexChannels,
         Events!ValueChannels

\* Where in the chain a key of a legacy channel is asked for first.
Home ==
  [ item_context_action |-> 1, chart_x_min |-> 2, chart_x_max |-> 2, chart_y_min |-> 2, chart_y_max |-> 2,
    range_lower |-> 3, range_upper |-> 3, marker_timeline_marks |-> 4, date_from_iso |-> 5,
    date_to_iso |-> 5, datetime_iso |-> 6, items_dropped |-> 7, code_changed |-> 8, text |-> 9,
    current_index |-> 10, checked |-> 11, file_selected |-> 12, folder_selected |-> 13, clicked |-> 14,
    selected_items |-> 15, tab_index |-> 16, item_double_clicked_index |-> 17, item_delete_index |-> 18,
    header_section |-> 19, table_radio_row |-> 20, value |-> 21 ]

AsksAt(i) ==
  LET c == Events!LegacyChain[i] IN
  c.keys # {} /\ \A k \in c.keys : k \in DOMAIN Home /\ Home[k] = IF i = 22 THEN 21 ELSE i

LEMMA ChannelsHaveHomes == \A i \in 1..22 : AsksAt(i)
  <1>1. ASSUME NEW i \in 1..8 PROVE AsksAt(i)
    <2>1. Events!LegacyChain[i] = Events!GestureChannels[i] BY ChainIs
    <2>2. i \in {1, 2, 3, 4, 5, 6, 7, 8} OBVIOUS
    <2> QED BY <2>1, <2>2 DEF AsksAt, Home, Events!GestureChannels, Events!Channel
  <1>2. ASSUME NEW i \in 9..15 PROVE AsksAt(i)
    <2>1. PICK j \in 1..7 : i = 8 + j BY <1>2
    <2>2. Events!LegacyChain[i] = Events!InputChannels[j] BY <2>1, ChainIs
    <2>3. j \in {1, 2, 3, 4, 5, 6, 7} OBVIOUS
    <2> QED BY <2>1, <2>2, <2>3 DEF AsksAt, Home, Events!InputChannels, Events!Channel
  <1>3. ASSUME NEW i \in 16..20 PROVE AsksAt(i)
    <2>1. PICK j \in 1..5 : i = 15 + j BY <1>3
    <2>2. Events!LegacyChain[i] = Events!IndexChannels[j] BY <2>1, ChainIs
    <2>3. j \in {1, 2, 3, 4, 5} OBVIOUS
    <2> QED BY <2>1, <2>2, <2>3 DEF AsksAt, Home, Events!IndexChannels, Events!Channel
  <1>4. ASSUME NEW i \in 21..22 PROVE AsksAt(i)
    <2>1. PICK j \in 1..2 : i = 20 + j BY <1>4
    <2>2. Events!LegacyChain[i] = Events!ValueChannels[j] BY <2>1, ChainIs
    <2>3. j \in {1, 2} OBVIOUS
    <2> QED BY <2>1, <2>2, <2>3 DEF AsksAt, Home, Events!ValueChannels, Events!Channel
  <1> QED BY <1>1, <1>2, <1>3, <1>4

Called(e, c) ==
  IF c.handler \in {"onFileSelected", "onFolderSelected"}
    THEN Events!CallsWith(c.handler, e[CHOOSE k \in c.keys : TRUE])
    ELSE Events!Calls(c.handler)

\* The accessor that answers first gives the callback.
LEMMA FirstAnswers ==
  ASSUME NEW e, NEW i \in 1..22, Events!Valid(e, Events!LegacyChain[i]),
         \A j \in 1..22 : j < i => ~Events!Valid(e, Events!LegacyChain[j])
  PROVE  Events!DispatchLegacy(e) = Called(e, Events!LegacyChain[i])
  <1> DEFINE able == {j \in DOMAIN Events!LegacyChain : Events!Valid(e, Events!LegacyChain[j])}
             f == CHOOSE n \in able : \A j \in able : n <= j
  <1>1. able = {j \in 1..22 : Events!Valid(e, Events!LegacyChain[j])} BY ChainIs
  <1>2. i \in able /\ \A j \in able : i <= j BY <1>1
  <1>3. f \in able /\ \A j \in able : f <= j BY <1>2
  <1>4. f = i BY <1>1, <1>2, <1>3
  <1>5. Events!DispatchLegacy(e) = IF able = {} THEN Events!Dropped ELSE Called(e, Events!LegacyChain[f])
    BY Zenon DEF Events!DispatchLegacy, Called
  <1> HIDE DEF able, f
  <1> QED BY <1>2, <1>4, <1>5

\* An event whose keys are asked for at one place of the chain, and not before.
LEMMA OwnChannelAnswers ==
  ASSUME NEW e, NEW i \in 1..21, Events!Valid(e, Events!LegacyChain[i]),
         \A k \in DOMAIN e : k \in DOMAIN Home => Home[k] = i
  PROVE  Events!DispatchLegacy(e) = Called(e, Events!LegacyChain[i])
  <1>1. ASSUME NEW j \in 1..22, j < i PROVE ~Events!Valid(e, Events!LegacyChain[j])
    <2>1. AsksAt(j) /\ j # 22 BY <1>1, ChannelsHaveHomes
    <2>2. PICK k \in Events!LegacyChain[j].keys : k \in DOMAIN Home /\ Home[k] = j BY <2>1 DEF AsksAt
    <2>3. k \notin DOMAIN e BY <1>1, <2>2
    <2> QED BY <2>2, <2>3 DEF Events!Valid
  <1> QED BY ONLY <1>1, FirstAnswers, i \in 1..21, Events!Valid(e, Events!LegacyChain[i])

\* Events with none of the keys of the structured channels go down the legacy chain.
ClaimingKeys == {"file_picker_result", "scene_view_error", "tree_selection_changed", "tree_item_activated",
                 "tree_expansion_changed", "tree_check_state_changed", "stacked_index", "stacked_page"}

LEMMA TreeKeysAre ==
  Events!TreeKeys = {"tree_selection_changed", "tree_item_activated", "tree_expansion_changed",
                     "tree_check_state_changed"}
  <1> DEFINE T == {"tree_selection_changed", "tree_item_activated", "tree_expansion_changed",
                   "tree_check_state_changed"}
  <1>1. ASSUME NEW c \in Events!TreeChannels PROVE c.keys \subseteq T
    BY DEF Events!TreeChannels, Events!Channel
  <1>2. ASSUME NEW k \in T PROVE \E c \in Events!TreeChannels : k \in c.keys
    BY DEF Events!TreeChannels, Events!Channel
  <1> HIDE DEF T
  <1>3. Events!TreeKeys = T BY <1>1, <1>2 DEF Events!TreeKeys
  <1> QED BY <1>3 DEF T

LEMMA GoesDownTheChain ==
  ASSUME NEW e, DOMAIN e \cap ClaimingKeys = {}
  PROVE  Events!OnWidgetEvent(e) = Events!DispatchLegacy(e)
  <1>1. /\ "file_picker_result" \notin DOMAIN e /\ "scene_view_error" \notin DOMAIN e
        /\ Events!TreeKeys \cap DOMAIN e = {} /\ Events!StackedKeys \cap DOMAIN e = {}
    BY TreeKeysAre DEF ClaimingKeys, Events!StackedKeys
  <1> QED BY <1>1 DEF Events!OnWidgetEvent

\* Keys no dispatcher asks for: they go with a channel's own.
Extra == {"current_text", "code_cursor", "items_dropped_data_sources"}

LEMMA EventKeysApart ==
  (\A k \in DOMAIN Home : k \notin ClaimingKeys /\ k \notin Extra) /\ Extra \cap ClaimingKeys = {}
  BY DEF Home, ClaimingKeys, Extra

\* A payload with the keys of one legacy channel, of the right kinds, and extra ones.
LEMMA LegacyPayload ==
  ASSUME NEW e, NEW i \in 1..21, NEW c, c = Events!LegacyChain[i], c.keys \subseteq DOMAIN e,
         \A k \in c.keys : e[k] \in c.kinds, DOMAIN e \subseteq c.keys \cup Extra
  PROVE  Events!OnWidgetEvent(e) = Called(e, c) /\ DOMAIN e \cap ClaimingKeys = {}
  <1>1. \A k \in c.keys : k \in DOMAIN Home /\ Home[k] = i
    <2>1. AsksAt(i) BY ChannelsHaveHomes
    <2> QED BY <2>1 DEF AsksAt
  <1>2. Events!Valid(e, c) BY DEF Events!Valid
  <1>3. \A k \in DOMAIN e : k \in DOMAIN Home => Home[k] = i BY <1>1, EventKeysApart
  <1>4. Events!DispatchLegacy(e) = Called(e, c) BY <1>2, <1>3, OwnChannelAnswers
  <1>5. DOMAIN e \cap ClaimingKeys = {} BY <1>1, EventKeysApart
  <1> QED BY <1>4, <1>5, GoesDownTheChain

\* The event reaches the callback of its action.  Only filePickerResult writes the
\* structured picker's key.
Reaches(x) ==
  /\ Events!OnWidgetEvent(x.payload).handler = x.handler
  /\ "file_picker_result" \notin DOMAIN x.payload

LEMMA CalledHandler ==
  ASSUME NEW e, NEW c PROVE Called(e, c).handler = c.handler
  BY DEF Called, Events!Calls, Events!CallsWith

\* A builder that writes the keys of one legacy channel, with extra keys or without.
LEMMA LegacyBuilds ==
  ASSUME NEW i \in 1..21, NEW c, c = Events!LegacyChain[i], NEW kind \in c.kinds
  PROVE  /\ Reaches(Events!Builds(c.keys, kind, c.handler))
         /\ \A X \in SUBSET Extra : \A other :
              Reaches(Events!Adds(Events!Builds(c.keys, kind, c.handler), X, other))
  <1>1. ASSUME NEW x, x.handler = c.handler, c.keys \subseteq DOMAIN x.payload,
               \A k \in c.keys : x.payload[k] = kind, DOMAIN x.payload \subseteq c.keys \cup Extra
        PROVE  Reaches(x)
    <2> DEFINE e == x.payload
    <2>1. Events!OnWidgetEvent(e) = Called(e, c) /\ DOMAIN e \cap ClaimingKeys = {} BY <1>1, LegacyPayload
    <2> QED BY <1>1, <2>1, CalledHandler DEF Reaches, ClaimingKeys
  <1>2. Reaches(Events!Builds(c.keys, kind, c.handler))
    <2> DEFINE x == Events!Builds(c.keys, kind, c.handler)
    <2>1. x.handler = c.handler /\ x.payload = [k \in c.keys |-> kind] BY DEF Events!Builds, Events!Payload
    <2> HIDE DEF x
    <2>2. Reaches(x) BY <1>1, <2>1
    <2> QED BY <2>2 DEF x
  <1>3. ASSUME NEW X \in SUBSET Extra, NEW other
        PROVE  Reaches(Events!Adds(Events!Builds(c.keys, kind, c.handler), X, other))
    <2> DEFINE x == Events!Adds(Events!Builds(c.keys, kind, c.handler), X, other)
    <2>1. x.handler = c.handler
          /\ x.payload = [k \in c.keys \cup X |-> IF k \in c.keys THEN kind ELSE other]
      BY DEF Events!Adds, Events!Builds, Events!Payload, Events!Merge
    <2> HIDE DEF x
    <2>2. Reaches(x) BY <1>1, <2>1
    <2> QED BY <2>2 DEF x
  <1> QED BY <1>2, <1>3
\* Every builder of a legacy channel, but for the fractional value, which the integer
\* accessor refuses first.
LegacyBuilders ==
  {"textChanged", "indexChanged", "indexChanged_text", "toggled", "selectionChanged", "clicked",
   "tabChanged", "itemDoubleClicked", "itemDeleteRequested", "itemContextAction", "headerClicked",
   "tableRadioSelected", "codeChanged", "codeChanged_cursor", "itemsDropped", "itemsDropped_sources",
   "dateRangeChanged", "dateTimeChanged", "rangeChanged", "markerTimelineChanged", "chartViewChanged",
   "valueChanged_int"}

LEMMA LegacyBuildersReach == \A b \in LegacyBuilders : Reaches(Events!WidgetEventBuilder[b])
  <1>1. Reaches(Events!WidgetEventBuilder["textChanged"])
    <2> DEFINE c == Events!LegacyChain[9]
    <2>1. c = Events!InputChannels[1] BY ChainIs
    <2>2. "string" \in c.kinds BY <2>1 DEF Events!InputChannels, Events!Channel
    <2>3. Events!WidgetEventBuilder["textChanged"] = Events!Builds(c.keys, "string", c.handler)
      BY <2>1 DEF Events!WidgetEventBuilder, Events!InputChannels, Events!Channel
    <2> HIDE DEF c
    <2> QED BY <2>2, <2>3, LegacyBuilds DEF c
  <1>2. Reaches(Events!WidgetEventBuilder["indexChanged"])
    <2> DEFINE c == Events!LegacyChain[10]
    <2>1. c = Events!InputChannels[2] BY ChainIs
    <2>2. "int" \in c.kinds BY <2>1 DEF Events!InputChannels, Events!Channel
    <2>3. Events!WidgetEventBuilder["indexChanged"] = Events!Builds(c.keys, "int", c.handler)
      BY <2>1 DEF Events!WidgetEventBuilder, Events!InputChannels, Events!Channel
    <2> HIDE DEF c
    <2> QED BY <2>2, <2>3, LegacyBuilds DEF c
  <1>3. Reaches(Events!WidgetEventBuilder["indexChanged_text"])
    <2> DEFINE c == Events!LegacyChain[10]
    <2>1. c = Events!InputChannels[2] BY ChainIs
    <2>2. "int" \in c.kinds BY <2>1 DEF Events!InputChannels, Events!Channel
    <2>3. Events!WidgetEventBuilder["indexChanged_text"] =
            Events!Adds(Events!Builds(c.keys, "int", c.handler), {"current_text"}, "string")
      BY <2>1 DEF Events!WidgetEventBuilder, Events!InputChannels, Events!Channel
    <2>4. {"current_text"} \in SUBSET Extra BY DEF Extra
    <2> HIDE DEF c
    <2> QED BY <2>2, <2>3, <2>4, LegacyBuilds DEF c
  <1>4. Reaches(Events!WidgetEventBuilder["toggled"])
    <2> DEFINE c == Events!LegacyChain[11]
    <2>1. c = Events!InputChannels[3] BY ChainIs
    <2>2. "bool" \in c.kinds BY <2>1 DEF Events!InputChannels, Events!Channel
    <2>3. Events!WidgetEventBuilder["toggled"] = Events!Builds(c.keys, "bool", c.handler)
      BY <2>1 DEF Events!WidgetEventBuilder, Events!InputChannels, Events!Channel
    <2> HIDE DEF c
    <2> QED BY <2>2, <2>3, LegacyBuilds DEF c
  <1>5. Reaches(Events!WidgetEventBuilder["selectionChanged"])
    <2> DEFINE c == Events!LegacyChain[15]
    <2>1. c = Events!InputChannels[7] BY ChainIs
    <2>2. "strings" \in c.kinds BY <2>1 DEF Events!InputChannels, Events!Channel
    <2>3. Events!WidgetEventBuilder["selectionChanged"] = Events!Builds(c.keys, "strings", c.handler)
      BY <2>1 DEF Events!WidgetEventBuilder, Events!InputChannels, Events!Channel
    <2> HIDE DEF c
    <2> QED BY <2>2, <2>3, LegacyBuilds DEF c
  <1>6. Reaches(Events!WidgetEventBuilder["clicked"])
    <2> DEFINE c == Events!LegacyChain[14]
    <2>1. c = Events!InputChannels[6] BY ChainIs
    <2>2. "bool" \in c.kinds BY <2>1 DEF Events!InputChannels, Events!Channel
    <2>3. Events!WidgetEventBuilder["clicked"] = Events!Builds(c.keys, "bool", c.handler)
      BY <2>1 DEF Events!WidgetEventBuilder, Events!InputChannels, Events!Channel
    <2> HIDE DEF c
    <2> QED BY <2>2, <2>3, LegacyBuilds DEF c
  <1>7. Reaches(Events!WidgetEventBuilder["tabChanged"])
    <2> DEFINE c == Events!LegacyChain[16]
    <2>1. c = Events!IndexChannels[1] BY ChainIs
    <2>2. "int" \in c.kinds BY <2>1 DEF Events!IndexChannels, Events!Channel
    <2>3. Events!WidgetEventBuilder["tabChanged"] = Events!Builds(c.keys, "int", c.handler)
      BY <2>1 DEF Events!WidgetEventBuilder, Events!IndexChannels, Events!Channel
    <2> HIDE DEF c
    <2> QED BY <2>2, <2>3, LegacyBuilds DEF c
  <1>8. Reaches(Events!WidgetEventBuilder["itemDoubleClicked"])
    <2> DEFINE c == Events!LegacyChain[17]
    <2>1. c = Events!IndexChannels[2] BY ChainIs
    <2>2. "int" \in c.kinds BY <2>1 DEF Events!IndexChannels, Events!Channel
    <2>3. Events!WidgetEventBuilder["itemDoubleClicked"] = Events!Builds(c.keys, "int", c.handler)
      BY <2>1 DEF Events!WidgetEventBuilder, Events!IndexChannels, Events!Channel
    <2> HIDE DEF c
    <2> QED BY <2>2, <2>3, LegacyBuilds DEF c
  <1>9. Reaches(Events!WidgetEventBuilder["itemDeleteRequested"])
    <2> DEFINE c == Events!LegacyChain[18]
    <2>1. c = Events!IndexChannels[3] BY ChainIs
    <2>2. "int" \in c.kinds BY <2>1 DEF Events!IndexChannels, Events!Channel
    <2>3. Events!WidgetEventBuilder["itemDeleteRequested"] = Events!Builds(c.keys, "int", c.handler)
      BY <2>1 DEF Events!WidgetEventBuilder, Events!IndexChannels, Events!Channel
    <2> HIDE DEF c
    <2> QED BY <2>2, <2>3, LegacyBuilds DEF c
  <1>10. Reaches(Events!WidgetEventBuilder["itemContextAction"])
    <2> DEFINE c == Events!LegacyChain[1]
    <2>1. c = Events!GestureChannels[1] BY ChainIs
    <2>2. "object" \in c.kinds BY <2>1 DEF Events!GestureChannels, Events!Channel
    <2>3. Events!WidgetEventBuilder["itemContextAction"] = Events!Builds(c.keys, "object", c.handler)
      BY <2>1 DEF Events!WidgetEventBuilder, Events!GestureChannels, Events!Channel
    <2> HIDE DEF c
    <2> QED BY <2>2, <2>3, LegacyBuilds DEF c
  <1>11. Reaches(Events!WidgetEventBuilder["headerClicked"])
    <2> DEFINE c == Events!LegacyChain[19]
    <2>1. c = Events!IndexChannels[4] BY ChainIs
    <2>2. "int" \in c.kinds BY <2>1 DEF Events!IndexChannels, Events!Channel
    <2>3. Events!WidgetEventBuilder["headerClicked"] = Events!Builds(c.keys, "int", c.handler)
      BY <2>1 DEF Events!WidgetEventBuilder, Events!IndexChannels, Events!Channel
    <2> HIDE DEF c
    <2> QED BY <2>2, <2>3, LegacyBuilds DEF c
  <1>12. Reaches(Events!WidgetEventBuilder["tableRadioSelected"])
    <2> DEFINE c == Events!LegacyChain[20]
    <2>1. c = Events!IndexChannels[5] BY ChainIs
    <2>2. "int" \in c.kinds BY <2>1 DEF Events!IndexChannels, Events!Channel
    <2>3. Events!WidgetEventBuilder["tableRadioSelected"] = Events!Builds(c.keys, "int", c.handler)
      BY <2>1 DEF Events!WidgetEventBuilder, Events!IndexChannels, Events!Channel
    <2> HIDE DEF c
    <2> QED BY <2>2, <2>3, LegacyBuilds DEF c
  <1>13. Reaches(Events!WidgetEventBuilder["codeChanged"])
    <2> DEFINE c == Events!LegacyChain[8]
    <2>1. c = Events!GestureChannels[8] BY ChainIs
    <2>2. "string" \in c.kinds BY <2>1 DEF Events!GestureChannels, Events!Channel
    <2>3. Events!WidgetEventBuilder["codeChanged"] = Events!Builds(c.keys, "string", c.handler)
      BY <2>1 DEF Events!WidgetEventBuilder, Events!GestureChannels, Events!Channel
    <2> HIDE DEF c
    <2> QED BY <2>2, <2>3, LegacyBuilds DEF c
  <1>14. Reaches(Events!WidgetEventBuilder["codeChanged_cursor"])
    <2> DEFINE c == Events!LegacyChain[8]
    <2>1. c = Events!GestureChannels[8] BY ChainIs
    <2>2. "string" \in c.kinds BY <2>1 DEF Events!GestureChannels, Events!Channel
    <2>3. Events!WidgetEventBuilder["codeChanged_cursor"] =
            Events!Adds(Events!Builds(c.keys, "string", c.handler), {"code_cursor"}, "int")
      BY <2>1 DEF Events!WidgetEventBuilder, Events!GestureChannels, Events!Channel
    <2>4. {"code_cursor"} \in SUBSET Extra BY DEF Extra
    <2> HIDE DEF c
    <2> QED BY <2>2, <2>3, <2>4, LegacyBuilds DEF c
  <1>15. Reaches(Events!WidgetEventBuilder["itemsDropped"])
    <2> DEFINE c == Events!LegacyChain[7]
    <2>1. c = Events!GestureChannels[7] BY ChainIs
    <2>2. "strings" \in c.kinds BY <2>1 DEF Events!GestureChannels, Events!Channel
    <2>3. Events!WidgetEventBuilder["itemsDropped"] = Events!Builds(c.keys, "strings", c.handler)
      BY <2>1 DEF Events!WidgetEventBuilder, Events!GestureChannels, Events!Channel
    <2> HIDE DEF c
    <2> QED BY <2>2, <2>3, LegacyBuilds DEF c
  <1>16. Reaches(Events!WidgetEventBuilder["itemsDropped_sources"])
    <2> DEFINE c == Events!LegacyChain[7]
    <2>1. c = Events!GestureChannels[7] BY ChainIs
    <2>2. "strings" \in c.kinds BY <2>1 DEF Events!GestureChannels, Events!Channel
    <2>3. Events!WidgetEventBuilder["itemsDropped_sources"] =
            Events!Adds(Events!Builds(c.keys, "strings", c.handler), {"items_dropped_data_sources"}, "ints")
      BY <2>1 DEF Events!WidgetEventBuilder, Events!GestureChannels, Events!Channel
    <2>4. {"items_dropped_data_sources"} \in SUBSET Extra BY DEF Extra
    <2> HIDE DEF c
    <2> QED BY <2>2, <2>3, <2>4, LegacyBuilds DEF c
  <1>17. Reaches(Events!WidgetEventBuilder["dateRangeChanged"])
    <2> DEFINE c == Events!LegacyChain[5]
    <2>1. c = Events!GestureChannels[5] BY ChainIs
    <2>2. "string" \in c.kinds BY <2>1 DEF Events!GestureChannels, Events!Channel
    <2>3. Events!WidgetEventBuilder["dateRangeChanged"] = Events!Builds(c.keys, "string", c.handler)
      BY <2>1 DEF Events!WidgetEventBuilder, Events!GestureChannels, Events!Channel
    <2> HIDE DEF c
    <2> QED BY <2>2, <2>3, LegacyBuilds DEF c
  <1>18. Reaches(Events!WidgetEventBuilder["dateTimeChanged"])
    <2> DEFINE c == Events!LegacyChain[6]
    <2>1. c = Events!GestureChannels[6] BY ChainIs
    <2>2. "string" \in c.kinds BY <2>1 DEF Events!GestureChannels, Events!Channel
    <2>3. Events!WidgetEventBuilder["dateTimeChanged"] = Events!Builds(c.keys, "string", c.handler)
      BY <2>1 DEF Events!WidgetEventBuilder, Events!GestureChannels, Events!Channel
    <2> HIDE DEF c
    <2> QED BY <2>2, <2>3, LegacyBuilds DEF c
  <1>19. Reaches(Events!WidgetEventBuilder["rangeChanged"])
    <2> DEFINE c == Events!LegacyChain[3]
    <2>1. c = Events!GestureChannels[3] BY ChainIs
    <2>2. "int" \in c.kinds BY <2>1 DEF Events!GestureChannels, Events!Channel
    <2>3. Events!WidgetEventBuilder["rangeChanged"] = Events!Builds(c.keys, "int", c.handler)
      BY <2>1 DEF Events!WidgetEventBuilder, Events!GestureChannels, Events!Channel
    <2> HIDE DEF c
    <2> QED BY <2>2, <2>3, LegacyBuilds DEF c
  <1>20. Reaches(Events!WidgetEventBuilder["markerTimelineChanged"])
    <2> DEFINE c == Events!LegacyChain[4]
    <2>1. c = Events!GestureChannels[4] BY ChainIs
    <2>2. "array" \in c.kinds BY <2>1 DEF Events!GestureChannels, Events!Channel
    <2>3. Events!WidgetEventBuilder["markerTimelineChanged"] = Events!Builds(c.keys, "array", c.handler)
      BY <2>1 DEF Events!WidgetEventBuilder, Events!GestureChannels, Events!Channel
    <2> HIDE DEF c
    <2> QED BY <2>2, <2>3, LegacyBuilds DEF c
  <1>21. Reaches(Events!WidgetEventBuilder["chartViewChanged"])
    <2> DEFINE c == Events!LegacyChain[2]
    <2>1. c = Events!GestureChannels[2] BY ChainIs
    <2>2. "float" \in c.kinds BY <2>1 DEF Events!GestureChannels, Events!Channel
    <2>3. Events!WidgetEventBuilder["chartViewChanged"] = Events!Builds(c.keys, "float", c.handler)
      BY <2>1 DEF Events!WidgetEventBuilder, Events!GestureChannels, Events!Channel
    <2> HIDE DEF c
    <2> QED BY <2>2, <2>3, LegacyBuilds DEF c
  <1>22. Reaches(Events!WidgetEventBuilder["valueChanged_int"])
    <2> DEFINE c == Events!LegacyChain[21]
    <2>1. c = Events!ValueChannels[1] BY ChainIs
    <2>2. "int" \in c.kinds BY <2>1 DEF Events!ValueChannels, Events!Channel
    <2>3. Events!WidgetEventBuilder["valueChanged_int"] = Events!Builds(c.keys, "int", c.handler)
      BY <2>1 DEF Events!WidgetEventBuilder, Events!ValueChannels, Events!Channel
    <2> HIDE DEF c
    <2> QED BY <2>2, <2>3, LegacyBuilds DEF c
  <1> QED BY <1>1, <1>2, <1>3, <1>4, <1>5, <1>6, <1>7, <1>8, <1>9, <1>10, <1>11, <1>12, <1>13, <1>14, <1>15,
             <1>16, <1>17, <1>18, <1>19, <1>20, <1>21, <1>22 DEF LegacyBuilders

LEMMA FractionReaches == Reaches(Events!WidgetEventBuilder.valueChanged_double)
  <1> DEFINE x == Events!WidgetEventBuilder.valueChanged_double
             e == x.payload
  <1>1. x.handler = "onValueChanged_double" /\ e = [k \in {"value"} |-> "float"]
    BY DEF Events!WidgetEventBuilder, Events!Builds, Events!Payload
  <1> HIDE DEF x, e
  <1>2. Events!LegacyChain[21] = Events!ValueChannels[1] /\ Events!LegacyChain[22] = Events!ValueChannels[2]
    BY ChainIs
  <1>3. Events!LegacyChain[22].handler = "onValueChanged_double" /\ Events!Valid(e, Events!LegacyChain[22])
    BY <1>1, <1>2 DEF Events!ValueChannels, Events!Channel, Events!Valid
  <1>4. ASSUME NEW j \in 1..22, j < 22 PROVE ~Events!Valid(e, Events!LegacyChain[j])
    <2>1. CASE j = 21 BY <1>1, <1>2, <2>1 DEF Events!ValueChannels, Events!Channel, Events!Valid
    <2>2. CASE j # 21
      <3>1. AsksAt(j) BY ChannelsHaveHomes
      <3>2. PICK k \in Events!LegacyChain[j].keys : k \in DOMAIN Home /\ Home[k] = j BY <1>4, <3>1 DEF AsksAt
      <3>3. Home["value"] = 21 BY DEF Home
      <3> QED BY <1>1, <2>2, <3>2, <3>3 DEF Events!Valid
    <2> QED BY <2>1, <2>2
  <1>5. Events!DispatchLegacy(e) = Called(e, Events!LegacyChain[22]) BY <1>3, <1>4, FirstAnswers
  <1>6. DOMAIN e \cap ClaimingKeys = {} BY <1>1 DEF ClaimingKeys
  <1>7. Reaches(x) BY <1>1, <1>3, <1>5, <1>6, GoesDownTheChain, CalledHandler DEF Reaches, e
  <1> QED BY <1>7 DEF x

LEMMA SameCount == \A S : Events!Cardinality(S) = Cardinality(S)
  BY DEF Events!Cardinality, Cardinality

LEMMA OneTreeChannel ==
  ASSUME NEW e, NEW d, {c \in Events!TreeChannels : Events!Valid(e, c)} = {d}, Events!Cardinality(DOMAIN e) = 1
  PROVE  Events!DispatchTree(e) = Events!Calls(d.handler)
  <1> DEFINE named == {c \in Events!TreeChannels : Events!Valid(e, c)}
  <1>1. named = {d} OBVIOUS
  <1>2. Events!DispatchTree(e) =
          IF Events!Cardinality(DOMAIN e) = 1 /\ named # {}
            THEN Events!Calls((CHOOSE c \in named : TRUE).handler)
            ELSE Events!Dropped
    BY ONLY DEF Events!DispatchTree
  <1> HIDE DEF named
  <1>3. (CHOOSE c \in named : TRUE) = d BY <1>1
  <1> QED BY <1>1, <1>2, <1>3

\* The structured channels but for the picker.
LEMMA StructuredReach ==
  \A b \in {"sceneViewError", "stackedPageChanged", "treeSelectionChanged", "treeItemActivated",
            "treeExpansionChanged", "treeCheckStateChanged"} : Reaches(Events!WidgetEventBuilder[b])
  <1>1. Reaches(Events!WidgetEventBuilder.sceneViewError)
    <2> DEFINE x == Events!WidgetEventBuilder.sceneViewError
    <2>1. x.handler = "onSceneViewError" /\ x.payload = [k \in {"scene_view_error"} |-> "object"]
      BY DEF Events!WidgetEventBuilder, Events!Builds, Events!Payload
    <2> HIDE DEF x
    <2>2. Events!OnWidgetEvent(x.payload) = Events!Calls("onSceneViewError")
      BY <2>1 DEF Events!OnWidgetEvent
    <2>3. Reaches(x) BY <2>1, <2>2 DEF Reaches, Events!Calls
    <2> QED BY <2>3 DEF x
  <1>2. Reaches(Events!WidgetEventBuilder.stackedPageChanged)
    <2> DEFINE x == Events!WidgetEventBuilder.stackedPageChanged
    <2>1. /\ x.handler = "onStackedPageChanged"
          /\ x.payload = [k \in {"stacked_index", "stacked_page"} |->
                            IF k = "stacked_index" THEN "int" ELSE "string"]
      BY DEF Events!WidgetEventBuilder, Events!Builds, Events!Payload, Events!Adds, Events!Merge
    <2> HIDE DEF x
    <2>2. Events!DispatchStacked(x.payload) = Events!Calls("onStackedPageChanged")
      BY <2>1 DEF Events!DispatchStacked, Events!Valid, Events!Channel
    <2>3. Events!OnWidgetEvent(x.payload) = Events!DispatchStacked(x.payload)
      <3>1. /\ "file_picker_result" \notin DOMAIN x.payload /\ "scene_view_error" \notin DOMAIN x.payload
            /\ Events!TreeKeys \cap DOMAIN x.payload = {} /\ Events!StackedKeys \cap DOMAIN x.payload # {}
        BY <2>1, TreeKeysAre DEF Events!StackedKeys
      <3> QED BY <3>1 DEF Events!OnWidgetEvent
    <2>4. Reaches(x) BY <2>1, <2>2, <2>3 DEF Reaches, Events!Calls
    <2> QED BY <2>4 DEF x
  <1>3. ASSUME NEW c \in Events!TreeChannels, NEW kind \in c.kinds
        PROVE  Reaches(Events!Builds(c.keys, kind, c.handler))
    <2> DEFINE x == Events!Builds(c.keys, kind, c.handler)
               e == x.payload
    <2>1. x.handler = c.handler /\ e = [k \in c.keys |-> kind] BY DEF Events!Builds, Events!Payload
    <2> HIDE DEF x, e
    <2>2. PICK key \in Events!TreeKeys : c.keys = {key}
      BY TreeKeysAre DEF Events!TreeChannels, Events!Channel
    <2>3. \A d \in Events!TreeChannels : Events!Valid(e, d) => d = c
      BY <2>1, <2>2 DEF Events!TreeChannels, Events!Channel, Events!Valid
    <2>4. Events!Valid(e, c) BY <2>1 DEF Events!Valid
    <2>5. Events!Cardinality(DOMAIN e) = 1 BY <2>1, <2>2, FS_Singleton, SameCount
    <2>6. Events!DispatchTree(e) = Events!Calls(c.handler)
      <3>1. {d \in Events!TreeChannels : Events!Valid(e, d)} = {c} BY <2>3, <2>4
      <3> QED BY <2>5, <3>1, OneTreeChannel
    <2>7. Events!OnWidgetEvent(e) = Events!DispatchTree(e)
      <3>1. /\ "file_picker_result" \notin DOMAIN e /\ "scene_view_error" \notin DOMAIN e
            /\ Events!TreeKeys \cap DOMAIN e # {}
        BY <2>1, <2>2, TreeKeysAre
      <3> QED BY <3>1 DEF Events!OnWidgetEvent
    <2>8. "file_picker_result" \notin DOMAIN e BY <2>1, <2>2, TreeKeysAre
    <2>9. Reaches(x) BY <2>1, <2>6, <2>7, <2>8 DEF Reaches, Events!Calls, e
    <2> QED BY <2>9 DEF x
  <1>4. ASSUME NEW b \in {"treeSelectionChanged", "treeItemActivated", "treeExpansionChanged",
                          "treeCheckStateChanged"}
        PROVE  Reaches(Events!WidgetEventBuilder[b])
    <2>1. PICK c \in Events!TreeChannels :
            \E kind \in c.kinds : Events!WidgetEventBuilder[b] = Events!Builds(c.keys, kind, c.handler)
      BY DEF Events!TreeChannels, Events!Channel, Events!WidgetEventBuilder
    <2> QED BY <1>3, <2>1
  <1> QED BY <1>1, <1>2, <1>4

\* The legacy selections.
LEMMA SelectionsReach ==
  ASSUME NEW p \in Paths PROVE Reaches(Events!FileSelected(p)) /\ Reaches(Events!FolderSelected(p))
  <1>1. Reaches(Events!FileSelected(p))
    <2> DEFINE c == Events!LegacyChain[12]
    <2>1. c = Events!Channel({"file_selected"}, Paths, "onFileSelected") BY ChainIs DEF Events!InputChannels
    <2>2. p \in c.kinds /\ c.keys = {"file_selected"} /\ c.handler = "onFileSelected" BY <2>1 DEF Events!Channel
    <2>3. 12 \in 1..21 OBVIOUS
    <2>4. Reaches(Events!Builds(c.keys, p, c.handler)) BY ONLY <2>2, <2>3, LegacyBuilds
    <2> HIDE DEF c
    <2> QED BY <2>2, <2>4 DEF Events!FileSelected
  <1>2. Reaches(Events!FolderSelected(p))
    <2> DEFINE c == Events!LegacyChain[13]
    <2>1. c = Events!Channel({"folder_selected"}, Paths, "onFolderSelected")
      BY ChainIs DEF Events!InputChannels
    <2>2. p \in c.kinds /\ c.keys = {"folder_selected"} /\ c.handler = "onFolderSelected"
      BY <2>1 DEF Events!Channel
    <2>3. 13 \in 1..21 OBVIOUS
    <2>4. Reaches(Events!Builds(c.keys, p, c.handler)) BY ONLY <2>2, <2>3, LegacyBuilds
    <2> HIDE DEF c
    <2> QED BY <2>2, <2>4 DEF Events!FolderSelected
  <1> QED BY <1>1, <1>2

\* What filePickerResult puts on the wire.
LEMMA PickerPayload ==
  ASSUME NEW r \in Events!PickerResults
  PROVE  LET e == Events!FilePickerResult(r).payload
             key == Events!FilePickerLegacySelection(r)
         IN /\ key \in {"file_selected", "folder_selected"}
            /\ r.status = "Selected" =>
                 e = [k \in {"file_picker_result", key} |-> IF k = "file_picker_result" THEN r ELSE r.path]
            /\ r.status # "Selected" => e = [k \in {"file_picker_result"} |-> r]
            /\ Events!FilePickerResult(r).handler = "onFilePickerResult"
  BY DEF Events!FilePickerResult, Events!FilePickerLegacySelection, Events!Merge, Events!Payload

\* The callback of a selection.
SelectionOf(r) ==
  Events!CallsWith(IF r.mode = "SelectDirectory" THEN "onFolderSelected" ELSE "onFileSelected", r.path)

\* A picker result reaches its callback; a selection reaches the same one, with the same
\* path, in a plugin built before the structured picker.
LEMMA PickersReach ==
  ASSUME NEW r \in Events!PickerResults
  PROVE  LET e == Events!FilePickerResult(r).payload IN
         /\ r.status # "Selected" => Events!OnWidgetEvent(e) = Events!Calls("onFilePickerResult")
         /\ r.status = "Selected" =>
              Events!OnWidgetEvent(e) = SelectionOf(r) /\ Events!DispatchLegacy(e) = SelectionOf(r)
  <1> DEFINE e == Events!FilePickerResult(r).payload
             key == Events!FilePickerLegacySelection(r)
  <1>1. /\ key \in {"file_selected", "folder_selected"}
        /\ r.status = "Selected" =>
             e = [k \in {"file_picker_result", key} |-> IF k = "file_picker_result" THEN r ELSE r.path]
        /\ r.status # "Selected" => e = [k \in {"file_picker_result"} |-> r]
    BY PickerPayload
  <1>2. key = IF r.mode = "SelectDirectory" THEN "folder_selected" ELSE "file_selected"
    BY DEF Events!FilePickerLegacySelection
  <1>3. r.status # Events!Bad /\ r.path \in Paths BY DEF Events!PickerResults, Events!Bad
  <1> HIDE DEF e
  <1>4. e["file_picker_result"] = r /\ "file_picker_result" \in DOMAIN e BY <1>1
  <1>5. Events!OnWidgetEvent(e) = Events!DispatchPicker(e) BY <1>4 DEF Events!OnWidgetEvent
  <1>6. Events!DispatchPicker(e) = Events!OnFilePickerResult(r)
    <2>1. CASE r.status = "Selected"
      <3>1. DOMAIN e \cap {"file_selected", "folder_selected"} = {key} /\ e[key] = r.path BY <1>1, <2>1
      <3> QED BY <1>3, <1>4, <2>1, <3>1 DEF Events!DispatchPicker
    <2>2. CASE r.status # "Selected"
      <3>1. DOMAIN e \cap {"file_selected", "folder_selected"} = {} BY <1>1, <2>2
      <3> QED BY <1>3, <1>4, <2>2, <3>1 DEF Events!DispatchPicker
    <2> QED BY <2>1, <2>2
  <1>7. ASSUME r.status = "Selected" PROVE Events!DispatchLegacy(e) = SelectionOf(r)
    <2> DEFINE i == IF r.mode = "SelectDirectory" THEN 13 ELSE 12
               c == Events!LegacyChain[i]
    <2>1. c = Events!Channel({key}, Paths,
                             IF r.mode = "SelectDirectory" THEN "onFolderSelected" ELSE "onFileSelected")
      BY <1>2, ChainIs DEF Events!InputChannels
    <2>2. /\ c.keys = {key} /\ c.kinds = Paths
          /\ c.handler = IF r.mode = "SelectDirectory" THEN "onFolderSelected" ELSE "onFileSelected"
      BY <2>1 DEF Events!Channel
    <2>3. i \in 1..21 OBVIOUS
    <2>4. DOMAIN e = {"file_picker_result", key} /\ e[key] = r.path BY <1>1, <1>7
    <2>5. Events!Valid(e, c) BY <1>3, <2>2, <2>4 DEF Events!Valid
    <2>6. Home[key] = i /\ "file_picker_result" \notin DOMAIN Home BY <1>2 DEF Home
    <2> HIDE DEF i
    <2>7. Events!DispatchLegacy(e) = Called(e, c) BY <2>3, <2>4, <2>5, <2>6, OwnChannelAnswers
    <2> HIDE DEF c
    <2>8. (CHOOSE k \in c.keys : TRUE) = key BY <2>2
    <2> QED BY <2>2, <2>4, <2>7, <2>8 DEF Called, SelectionOf
  <1> QED BY <1>5, <1>6, <1>7 DEF Events!OnFilePickerResult, SelectionOf, e

\* What the host can send.
LEMMA BuiltIs ==
  ASSUME NEW x \in Events!Built
  PROVE  Reaches(x) \/ \E r \in Events!PickerResults : x = Events!FilePickerResult(r)
  <1>1. ASSUME NEW b \in DOMAIN Events!WidgetEventBuilder PROVE Reaches(Events!WidgetEventBuilder[b])
    <2>1. b \in LegacyBuilders \/ b = "valueChanged_double"
          \/ b \in {"sceneViewError", "stackedPageChanged", "treeSelectionChanged", "treeItemActivated",
                    "treeExpansionChanged", "treeCheckStateChanged"}
      BY DEF Events!WidgetEventBuilder, LegacyBuilders
    <2> QED BY <2>1, LegacyBuildersReach, FractionReaches, StructuredReach
  <1> QED BY <1>1, SelectionsReach DEF Events!Built

\* One value of a payload gone wrong.
Spoiled(e, k) ==
  [e EXCEPT ![k] = IF k = "file_picker_result" THEN [@ EXCEPT !.status = Events!Bad] ELSE Events!Bad]

EventInv ==
  /\ action \in Events!Built
  /\ outcome \in {<<>>, <<Events!OnWidgetEvent(event), Events!DispatchLegacy(event)>>}
  /\ damage \in {"none", "bad", "mixed"}
  /\ damage = "none" => event = action.payload
  /\ damage = "bad" => \E k \in DOMAIN action.payload : event = Spoiled(action.payload, k)

\* An undamaged event reaches the callback of its action.
LEMMA UndamagedArrives ==
  ASSUME NEW x \in Events!Built
  PROVE  LET new == Events!OnWidgetEvent(x.payload) IN
         \/ new.handler = x.handler
         \/ x.handler = "onFilePickerResult" /\ new.path # "none" /\ new = Events!DispatchLegacy(x.payload)
  <1>1. CASE Reaches(x) BY <1>1 DEF Reaches
  <1>2. ASSUME NEW r \in Events!PickerResults, x = Events!FilePickerResult(r)
        PROVE  LET new == Events!OnWidgetEvent(x.payload) IN
               \/ new.handler = x.handler
               \/ /\ x.handler = "onFilePickerResult"
                  /\ new.path # "none" /\ new = Events!DispatchLegacy(x.payload)
    <2>1. x.handler = "onFilePickerResult" BY <1>2, PickerPayload
    <2>2. r.path # "none" BY PathsAreNot DEF Events!PickerResults, Events!PathsAssumption
    <2>3. SelectionOf(r).path = r.path BY DEF SelectionOf, Events!CallsWith
    <2>4. Events!Calls("onFilePickerResult").handler = "onFilePickerResult" BY DEF Events!Calls
    <2> QED BY <1>2, <2>1, <2>2, <2>3, <2>4, PickersReach
  <1> QED BY <1>1, <1>2, BuiltIs

\* A picker event one of whose values went wrong is dropped.
LEMMA SpoiledPickerDrops ==
  ASSUME NEW r \in Events!PickerResults, NEW k \in DOMAIN Events!FilePickerResult(r).payload
  PROVE  Events!OnWidgetEvent(Spoiled(Events!FilePickerResult(r).payload, k)) = Events!Dropped
  <1> DEFINE p == Events!FilePickerResult(r).payload
             e == Spoiled(p, k)
             key == Events!FilePickerLegacySelection(r)
  <1>1. /\ key \in {"file_selected", "folder_selected"}
        /\ r.status = "Selected" =>
             p = [j \in {"file_picker_result", key} |-> IF j = "file_picker_result" THEN r ELSE r.path]
        /\ r.status # "Selected" => p = [j \in {"file_picker_result"} |-> r]
    BY PickerPayload
  <1>2. r = [status |-> r.status, mode |-> r.mode, path |-> r.path] /\ r.path \in Paths
    BY DEF Events!PickerResults
  <1>3. r.path # Events!Bad BY <1>2, PathsAreNot DEF Events!PathsAssumption
  <1>4. k \in DOMAIN p OBVIOUS
  <1> HIDE DEF p, key
  <1>5. DOMAIN e = DOMAIN p /\ "file_picker_result" \in DOMAIN e BY <1>1 DEF Spoiled
  <1>6. Events!OnWidgetEvent(e) = Events!DispatchPicker(e) BY <1>5 DEF Events!OnWidgetEvent
  <1>7. CASE k = "file_picker_result"
    <2>1. e[k] = [p[k] EXCEPT !.status = Events!Bad] BY <1>4, <1>7 DEF Spoiled
    <2>2. p[k] = r BY <1>1, <1>7
    <2>3. e["file_picker_result"].status = Events!Bad BY <1>2, <1>7, <2>1, <2>2
    <2> QED BY <1>6, <2>3 DEF Events!DispatchPicker, p
  <1>8. CASE k # "file_picker_result"
    <2>1. r.status = "Selected" /\ k = key BY <1>1, <1>4, <1>8
    <2>2. e["file_picker_result"] = r /\ e[key] = Events!Bad BY <1>1, <1>4, <2>1, <1>8 DEF Spoiled
    <2>3. DOMAIN e \cap {"file_selected", "folder_selected"} = {key} BY <1>1, <1>5, <2>1
    <2>4. Events!DispatchPicker(e) = Events!Dropped
      <3> HIDE DEF e
      <3> QED BY <1>3, <2>1, <2>2, <2>3 DEF Events!DispatchPicker
    <2> QED BY <1>6, <2>4 DEF p
  <1> QED BY <1>7, <1>8

\* Which channel claims the event.
LEMMA ClaimsAre ==
  /\ Events!Priority = <<{"file_picker_result"}, {"scene_view_error"}, Events!TreeKeys, Events!StackedKeys>>
  /\ Events!Claimed({"file_picker_result"}) => "file_picker_result" \in DOMAIN event
  /\ Events!Claimed({"scene_view_error"}) =>
       "file_picker_result" \notin DOMAIN event /\ "scene_view_error" \in DOMAIN event
  /\ Events!Claimed(Events!TreeKeys) =>
       /\ "file_picker_result" \notin DOMAIN event /\ "scene_view_error" \notin DOMAIN event
       /\ Events!TreeKeys \cap DOMAIN event # {}
  /\ Events!Claimed(Events!StackedKeys) =>
       /\ "file_picker_result" \notin DOMAIN event /\ "scene_view_error" \notin DOMAIN event
       /\ Events!TreeKeys \cap DOMAIN event = {} /\ Events!StackedKeys \cap DOMAIN event # {}
  <1> DEFINE P == Events!Priority
  <1>1. P = <<{"file_picker_result"}, {"scene_view_error"}, Events!TreeKeys, Events!StackedKeys>>
    BY DEF Events!Priority
  <1>2. DOMAIN P = {1, 2, 3, 4} BY <1>1
  <1>3. /\ P[1] = {"file_picker_result"} /\ P[2] = {"scene_view_error"}
        /\ P[3] = Events!TreeKeys /\ P[4] = Events!StackedKeys
    BY <1>1
  <1>4. \A i, j \in {1, 2, 3, 4} : P[i] = P[j] => i = j BY <1>3, TreeKeysAre DEF Events!StackedKeys
  <1> HIDE DEF P
  <1>5. ASSUME NEW i \in {1, 2, 3, 4}, Events!Claimed(P[i])
        PROVE  P[i] \cap DOMAIN event # {} /\ \A j \in 1..(i - 1) : P[j] \cap DOMAIN event = {}
    BY <1>2, <1>4, <1>5 DEF Events!Claimed, P
  <1>6. Events!Claimed(P[1]) => "file_picker_result" \in DOMAIN event BY <1>3, <1>5
  <1>7. Events!Claimed(P[2]) =>
          "file_picker_result" \notin DOMAIN event /\ "scene_view_error" \in DOMAIN event
    BY <1>3, <1>5
  <1>8. Events!Claimed(P[3]) =>
          /\ "file_picker_result" \notin DOMAIN event /\ "scene_view_error" \notin DOMAIN event
          /\ Events!TreeKeys \cap DOMAIN event # {}
    BY <1>3, <1>5
  <1>9. Events!Claimed(P[4]) =>
          /\ "file_picker_result" \notin DOMAIN event /\ "scene_view_error" \notin DOMAIN event
          /\ Events!TreeKeys \cap DOMAIN event = {} /\ Events!StackedKeys \cap DOMAIN event # {}
    BY <1>3, <1>5
  <1> QED BY <1>1, <1>3, <1>6, <1>7, <1>8, <1>9 DEF P

\* Whatever an event holds, the channel that claims it decides: its own callbacks or none,
\* and a tree event that carries anything else reaches nothing.
LEMMA ClaimDecides ==
  LET new == Events!OnWidgetEvent(event) IN
  /\ \A i \in DOMAIN Events!Priority :
       Events!Claimed(Events!Priority[i]) => new.handler \in Events!HandlersOf[i] \cup {"none"}
  /\ Events!Claimed(Events!TreeKeys) /\ Events!Cardinality(DOMAIN event) > 1 => new = Events!Dropped
  <1> DEFINE new == Events!OnWidgetEvent(event)
  <1>1. /\ Events!Dropped.handler = "none"
        /\ \A h : Events!Calls(h).handler = h
        /\ \A h : \A p : Events!CallsWith(h, p).handler = h
    BY DEF Events!Dropped, Events!Calls, Events!CallsWith
  <1>2. Events!Claimed({"file_picker_result"}) =>
          new.handler \in {"onFilePickerResult", "onFileSelected", "onFolderSelected", "none"}
    <2> HAVE Events!Claimed({"file_picker_result"})
    <2>1. new = Events!DispatchPicker(event) BY ClaimsAre DEF Events!OnWidgetEvent
    <2>2. new = Events!Dropped \/ new = Events!OnFilePickerResult(event["file_picker_result"])
      BY <2>1 DEF Events!DispatchPicker
    <2> QED BY <1>1, <2>2 DEF Events!OnFilePickerResult
  <1>3. Events!Claimed({"scene_view_error"}) => new.handler \in {"onSceneViewError", "none"}
    <2> HAVE Events!Claimed({"scene_view_error"})
    <2>1. new = Events!Calls("onSceneViewError") \/ new = Events!Dropped
      BY ClaimsAre DEF Events!OnWidgetEvent
    <2> QED BY <1>1, <2>1
  <1>4. Events!Claimed(Events!TreeKeys) =>
          /\ new.handler \in {c.handler : c \in Events!TreeChannels} \cup {"none"}
          /\ Events!Cardinality(DOMAIN event) > 1 => new = Events!Dropped
    <2> HAVE Events!Claimed(Events!TreeKeys)
    <2>1. new = Events!DispatchTree(event) BY ClaimsAre DEF Events!OnWidgetEvent
    <2> DEFINE named == {c \in Events!TreeChannels : Events!Valid(event, c)}
               d == CHOOSE c \in named : TRUE
    <2>2. new = IF Events!Cardinality(DOMAIN event) = 1 /\ named # {} THEN Events!Calls(d.handler)
                ELSE Events!Dropped
      BY <2>1 DEF Events!DispatchTree
    <2>3. named # {} => d \in Events!TreeChannels OBVIOUS
    <2> HIDE DEF named, d, new
    <2>4. new.handler \in {c.handler : c \in Events!TreeChannels} \cup {"none"}
      BY <1>1, <2>2, <2>3
    <2>5. Events!Cardinality(DOMAIN event) > 1 => Events!Cardinality(DOMAIN event) # 1 OBVIOUS
    <2> QED BY <2>2, <2>4, <2>5
  <1>5. Events!Claimed(Events!StackedKeys) => new.handler \in {"onStackedPageChanged", "none"}
    <2> HAVE Events!Claimed(Events!StackedKeys)
    <2>1. new = Events!DispatchStacked(event) BY ClaimsAre DEF Events!OnWidgetEvent
    <2> QED BY <1>1, <2>1 DEF Events!DispatchStacked
  <1> HIDE DEF new
  <1>6. ASSUME NEW i \in DOMAIN Events!Priority, Events!Claimed(Events!Priority[i])
        PROVE  new.handler \in Events!HandlersOf[i] \cup {"none"}
    <2>1. i \in {1, 2, 3, 4} BY ClaimsAre
    <2>2. CASE i = 1 BY <1>2, <1>6, <2>2, ClaimsAre DEF Events!HandlersOf
    <2>3. CASE i = 2 BY <1>3, <1>6, <2>3, ClaimsAre DEF Events!HandlersOf
    <2>4. CASE i = 3 BY <1>4, <1>6, <2>4, ClaimsAre DEF Events!HandlersOf
    <2>5. CASE i = 4 BY <1>5, <1>6, <2>5, ClaimsAre DEF Events!HandlersOf
    <2> QED BY <2>1, <2>2, <2>3, <2>4, <2>5
  <1> QED BY <1>4, <1>6 DEF new

LEMMA EventInvEnough == EventInv => EventsReachTheirHandler
  <1> SUFFICES ASSUME EventInv, outcome # <<>> PROVE EventsReachTheirHandler
    BY DEF EventsReachTheirHandler, Events!EventsReachTheirHandler
  <1> DEFINE new == Events!OnWidgetEvent(event)
             old == Events!DispatchLegacy(event)
  <1>1. Events!New = new /\ Events!Old = old BY DEF EventInv, Events!New, Events!Old
  <1>2. ASSUME damage = "none"
        PROVE  \/ new.handler = action.handler
               \/ action.handler = "onFilePickerResult" /\ new.path # "none" /\ new = old
    BY <1>2, UndamagedArrives DEF EventInv
  <1>3. ASSUME "file_picker_result" \in DOMAIN event, new.path # "none", damage # "mixed"
        PROVE  old \in {new, Events!Dropped}
    <2>1. "file_picker_result" \in DOMAIN action.payload BY <1>3 DEF EventInv, Spoiled
    <2>2. PICK r \in Events!PickerResults : action = Events!FilePickerResult(r)
      BY <2>1, BuiltIs DEF EventInv, Reaches
    <2>3. Events!Dropped.path = "none" /\ Events!Calls("onFilePickerResult").path = "none"
      BY DEF Events!Dropped, Events!Calls
    <2>4. CASE damage = "bad"
      <3>1. new = Events!Dropped BY <2>2, <2>4, SpoiledPickerDrops DEF EventInv
      <3> QED BY <1>3, <2>3, <3>1
    <2>5. CASE damage = "none"
      <3>1. event = Events!FilePickerResult(r).payload BY <2>2, <2>5 DEF EventInv
      <3> QED BY <1>3, <2>3, <3>1, PickersReach
    <2> QED BY <1>3, <2>4, <2>5 DEF EventInv
  <1>4. /\ \A i \in DOMAIN Events!Priority :
             Events!Claimed(Events!Priority[i]) => new.handler \in Events!HandlersOf[i] \cup {"none"}
        /\ Events!Claimed(Events!TreeKeys) /\ Events!Cardinality(DOMAIN event) > 1 => new = Events!Dropped
    BY ClaimDecides
  <1> HIDE DEF new, old
  <1> QED BY <1>1, <1>2, <1>3, <1>4 DEF EventsReachTheirHandler, Events!EventsReachTheirHandler

\* The events of a dialog, however a writer damages them, reach the callback of the action
\* that made them or none below the channel that claims them (DialogPluginTyped's
\* onWidgetEvent), for every set of paths.
THEOREM EventsArrive == Events!Spec => []EventsReachTheirHandler
  <1>1. Events!Init => EventInv BY DEF Events!Init, Events!Fresh, EventInv
  <1>2. EventInv /\ [Events!Next]_(Events!eventVars) => EventInv'
    <2> SUFFICES ASSUME EventInv, [Events!Next]_(Events!eventVars) PROVE EventInv' OBVIOUS
    <2>1. ASSUME NEW k \in DOMAIN event, Events!WrongValue(k) PROVE EventInv'
      <3>1. event = action.payload /\ event' = Spoiled(event, k) /\ damage' = "bad"
            /\ action' = action /\ outcome' = <<>>
        BY <2>1 DEF EventInv, Events!WrongValue, Spoiled
      <3> QED BY <3>1 DEF EventInv
    <2>2. ASSUME NEW other \in Events!Built, Events!MixIn(other) PROVE EventInv'
      BY <2>2 DEF EventInv, Events!MixIn
    <2>3. CASE Events!Dispatch BY <2>3 DEF EventInv, Events!Dispatch
    <2>4. CASE Events!Again BY <2>4 DEF EventInv, Events!Again
    <2>5. CASE UNCHANGED Events!eventVars BY <2>5 DEF EventInv, Events!eventVars
    <2> QED BY <2>1, <2>2, <2>3, <2>4, <2>5 DEF Events!Next
  <1> QED BY <1>1, <1>2, EventInvEnough, PTL DEF Events!Spec

-----------------------------------------------------------------------------
(* Numbers on their way to the wire and back.                              *)

LEMMA DivAtMost ==
  ASSUME NEW a \in Int, NEW b \in Nat \ {0}
  PROVE  a \div b \in Int /\ (a \div b) * b =< a /\ a < (a \div b) * b + b
  OBVIOUS

LEMMA ProductsGrow ==
  ASSUME NEW x \in Int, NEW y \in Int, NEW b \in Nat \ {0}
  PROVE  (x =< y => x * b =< y * b) /\ (y < x => y * b + b =< x * b)
  OBVIOUS

\* A whole number is at most a quotient when its product is at most the dividend.
LEMMA AtMostQuotient ==
  ASSUME NEW a \in Int, NEW x \in Int, NEW b \in Nat \ {0}
  PROVE  x =< a \div b <=> x * b =< a
  <1> DEFINE q == a \div b
  <1>1. q \in Int /\ q * b =< a /\ a < q * b + b BY DivAtMost
  <1>2. (x =< q => x * b =< q * b) /\ (q < x => q * b + b =< x * b) BY <1>1, ProductsGrow
  <1>3. x * b \in Int /\ q * b \in Int BY <1>1
  <1> HIDE DEF q
  <1>4. x =< q <=> x * b =< a BY <1>1, <1>2, <1>3
  <1> QED BY <1>4 DEF q

LEMMA Sizes ==
  /\ Word \in Nat \ {0} /\ Word32 \in Nat \ {0} /\ kNanosecondsPerSecond \in Nat \ {0}
  /\ Word \div 2 \in Nat /\ Word = 2 * (Word \div 2)
  /\ Word32 \div 2 \in Nat /\ Word32 = 2 * (Word32 \div 2)
  /\ kNanosecondsPerSecond =< Word32 \div 2 /\ kNanosecondsPerSecond =< Word \div 2
  /\ MinTime \in Int /\ MaxTime \in Int /\ MaxTime = -MinTime - 1 /\ kNanosecondsPerSecond - 1 =< MaxTime
  BY WordAssumption DEF WordAssumption, MinTime, MaxTime

\* Negative seconds, rebased: the quotient of a bound below, towards zero.
LEMMA AtLeastQuotient ==
  ASSUME NEW a \in Int, a =< 0, NEW x \in Int, NEW b \in Nat \ {0}
  PROVE  x >= Quotient(a, b) <=> x * b >= a
  <1>1. Quotient(a, b) = -((-a) \div b)
    <2>1. CASE a = 0 BY <2>1 DEF Quotient
    <2>2. CASE a < 0 BY <2>2 DEF Quotient
    <2> QED BY <2>1, <2>2
  <1>2. -x =< (-a) \div b <=> (-x) * b =< -a BY AtMostQuotient
  <1>3. (-x) * b = -(x * b) /\ x * b \in Int OBVIOUS
  <1>4. (-a) \div b \in Int OBVIOUS
  <1> QED BY <1>1, <1>2, <1>3, <1>4

TimeRange == MinTime..MaxTime
Nanos == 0..(kNanosecondsPerSecond - 1)
TimeOf(s, n) == s * kNanosecondsPerSecond + n

\* Rebasing moves a second between the parts.
LEMMA RebasedIsSame ==
  ASSUME NEW s \in Int, NEW n \in Int
  PROVE  /\ Rebased(s, n).seconds \in Int /\ Rebased(s, n).nanos \in Int
         /\ Combined(s, n) = TimeOf(s, n)
  BY Sizes DEF Rebased, Combined, TimeOf

\* combineSecondsAndNanos accepts exactly the pairs whose nanoseconds are less than a
\* second and whose time the word holds, and gives that time.
THEOREM CombineIsExact ==
  ASSUME NEW s \in TimeRange, NEW n \in TimeRange
  PROVE  /\ TimeFits(s, n) <=> n \in Nanos /\ TimeOf(s, n) \in TimeRange
         /\ Combined(s, n) = TimeOf(s, n)
  <1> DEFINE k == kNanosecondsPerSecond
  <1>1. s \in Int /\ n \in Int /\ k \in Nat \ {0} BY Sizes DEF TimeRange
  <1>2. Combined(s, n) = TimeOf(s, n) BY <1>1, RebasedIsSame
  <1>3. ASSUME n \in Nanos PROVE TimeFits(s, n) <=> TimeOf(s, n) \in TimeRange
    <2>0. n >= 0 /\ n < k BY <1>1, <1>3 DEF Nanos
    <2>1. CASE s >= 0
      <3>1. TimeFits(s, n) <=> s =< Quotient(MaxTime - n, k) BY <1>1, <1>3, <2>1 DEF TimeFits, Rebased, Nanos
      <3>2. MaxTime - n \in Int /\ MaxTime - n >= 0 BY <1>1, <2>0, Sizes
      <3>3. Quotient(MaxTime - n, k) = (MaxTime - n) \div k BY <3>2 DEF Quotient
      <3>4. s =< (MaxTime - n) \div k <=> s * k =< MaxTime - n BY <1>1, <3>2, AtMostQuotient
      <3>5. s * k \in Int /\ s * k >= 0 BY <1>1, <2>1
      <3>6. TimeOf(s, n) \in TimeRange <=> s * k =< MaxTime - n
        BY <1>1, <2>0, <3>5, Sizes DEF TimeOf, TimeRange
      <3> QED BY <3>1, <3>3, <3>4, <3>6
    <2>2. CASE s < 0
      <3> DEFINE back == n - k
      <3>1. TimeFits(s, n) <=> s + 1 >= Quotient(MinTime - back, k)
        BY <1>1, <1>3, <2>2 DEF TimeFits, Rebased, Nanos
      <3>2. MinTime - back \in Int /\ MinTime - back =< 0 BY <1>1, <2>0, Sizes
      <3>4. s + 1 >= Quotient(MinTime - back, k) <=> (s + 1) * k >= MinTime - back
        <4>1. s + 1 \in Int BY <1>1
        <4> HIDE DEF back
        <4> QED BY <1>1, <3>2, <4>1, AtLeastQuotient
      <3>5. (s + 1) * k = s * k + k /\ s * k \in Int /\ s * k =< -k
        <4>1. s =< -1 BY <1>1, <2>2
        <4>2. s * k =< (-1) * k BY <1>1, <4>1, ProductsGrow
        <4> QED BY <1>1, <4>2
      <3>6. TimeOf(s, n) \in TimeRange <=> s * k + k >= MinTime - back
        BY <1>1, <2>0, <3>5, Sizes DEF TimeOf, TimeRange
      <3> QED BY <3>1, <3>4, <3>5, <3>6
    <2> QED BY <1>1, <2>1, <2>2
  <1>4. TimeFits(s, n) => n \in Nanos BY DEF TimeFits, Nanos
  <1> QED BY <1>2, <1>3, <1>4

\* No step of combineSecondsAndNanos leaves the word: not the rebasing, not the bound the
\* seconds are compared with, and not the product, which is only formed when the pair is
\* accepted ("rebase toward zero so the seconds product fits whenever the final timestamp
\* does").
THEOREM CombineStaysInTheWord ==
  ASSUME NEW s \in TimeRange, NEW n \in Nanos
  PROVE  LET r == Rebased(s, n) IN
         /\ r.seconds \in TimeRange /\ r.nanos \in TimeRange
         /\ (IF s < 0 THEN MinTime ELSE MaxTime) - r.nanos \in TimeRange
         /\ TimeFits(s, n) => r.seconds * kNanosecondsPerSecond \in TimeRange /\ Combined(s, n) \in TimeRange
  <1> DEFINE k == kNanosecondsPerSecond
             r == Rebased(s, n)
  <1>1. s \in Int /\ n \in Int /\ k \in Nat \ {0} /\ n >= 0 /\ n < k BY Sizes DEF TimeRange, Nanos
  <1>2. n \in TimeRange BY <1>1, Sizes DEF TimeRange
  <1>3. CASE s >= 0
    <2>1. r.seconds = s /\ r.nanos = n BY <1>1, <1>3 DEF Rebased
    <2>2. MaxTime - n \in TimeRange BY <1>1, Sizes DEF TimeRange
    <2>3. s * k \in Int /\ s * k >= 0 BY <1>1, <1>3
    <2>4. ASSUME TimeFits(s, n) PROVE s * k \in TimeRange /\ Combined(s, n) \in TimeRange
      <3>1. Combined(s, n) \in TimeRange /\ Combined(s, n) = s * k + n
        BY <1>2, <2>4, CombineIsExact DEF TimeOf
      <3> QED BY <1>1, <2>3, <3>1, Sizes DEF TimeRange
    <2> QED BY <1>1, <1>2, <1>3, <2>1, <2>2, <2>4
  <1>4. CASE s < 0
    <2>1. r.seconds = s + 1 /\ r.nanos = n - k BY <1>1, <1>4 DEF Rebased
    <2>2. s + 1 \in TimeRange /\ n - k \in TimeRange /\ MinTime - (n - k) \in TimeRange
      BY <1>1, <1>4, Sizes DEF TimeRange
    <2>3. (s + 1) * k \in Int /\ (s + 1) * k =< 0 /\ (s + 1) * k = s * k + k /\ s * k \in Int
      <3>1. s + 1 =< 0 /\ s + 1 \in Int BY <1>1, <1>4
      <3>2. (s + 1) * k =< 0 * k BY <1>1, <3>1, ProductsGrow
      <3> QED BY <1>1, <3>1, <3>2
    <2>4. ASSUME TimeFits(s, n) PROVE (s + 1) * k \in TimeRange /\ Combined(s, n) \in TimeRange
      <3>1. Combined(s, n) \in TimeRange /\ Combined(s, n) = s * k + n
        BY <1>2, <2>4, CombineIsExact DEF TimeOf
      <3> QED BY <1>1, <2>3, <3>1, Sizes DEF TimeRange
    <2> QED BY <1>1, <1>4, <2>1, <2>2, <2>4
  <1> QED BY <1>1, <1>3, <1>4

\* What splitTimestamp writes: the floored seconds and what is left.
LEMMA SplitIsExact ==
  ASSUME NEW t \in TimeRange
  PROVE  LET p == splitTimestamp(t) IN
         p.seconds \in TimeRange /\ p.nanos \in Nanos /\ TimeOf(p.seconds, p.nanos) = t
  <1> DEFINE k == kNanosecondsPerSecond
             q == Quotient(t, k)
             r == Remainder(t, k)
             p == splitTimestamp(t)
  <1>1. t \in Int /\ k \in Nat \ {0} /\ MinTime =< t /\ t =< MaxTime BY Sizes DEF TimeRange
  <1>2. q \in Int /\ q * k \in Int /\ r = t - q * k /\ r < k /\ -k < r
        /\ (t >= 0 => q >= 0 /\ q =< t /\ r >= 0) /\ (t < 0 => q =< 0 /\ t =< q /\ r =< 0)
        /\ (r < 0 => t < q)
    <2>1. CASE t >= 0
      <3>1. q = t \div k BY <1>1, <2>1 DEF Quotient
      <3>2. q \in Int /\ q * k =< t /\ t < q * k + k BY <1>1, <3>1, DivAtMost
      <3>3. q >= 0 /\ q =< t
        <4>1. 0 =< t \div k <=> 0 * k =< t BY <1>1, AtMostQuotient
        <4>2. q >= 0 BY <1>1, <2>1, <3>1, <4>1
        <4>3. q =< q * k BY <1>1, <3>2, <4>2
        <4> QED BY <1>1, <3>2, <4>2, <4>3
      <3> QED BY <1>1, <2>1, <3>2, <3>3 DEF Remainder
    <2>2. CASE t < 0
      <3> DEFINE m == (-t) \div k
      <3>1. q = -m BY <1>1, <2>2 DEF Quotient
      <3>2. m \in Int /\ m * k =< -t /\ -t < m * k + k BY <1>1, DivAtMost
      <3>3. m >= 0 /\ m =< m * k
        <4>1. 0 =< m <=> 0 * k =< -t BY <1>1, AtMostQuotient
        <4>2. m >= 0 BY <1>1, <2>2, <4>1
        <4> QED BY <1>1, <3>2, <4>2
      <3>4. q * k = -(m * k) /\ m * k \in Int BY <1>1, <3>1, <3>2
      <3>5. r = t - q * k BY DEF Remainder
      <3> HIDE DEF m, q, r
      <3> QED BY <1>1, <2>2, <3>1, <3>2, <3>3, <3>4, <3>5
    <2> QED BY <1>1, <2>1, <2>2
  <1>3. CASE r < 0
    <2>1. p.seconds = q - 1 /\ p.nanos = r + k BY <1>3 DEF splitTimestamp
    <2>2. (q - 1) * k = q * k - k BY <1>1, <1>2
    <2> HIDE DEF q, r, p
    <2>3. q - 1 \in TimeRange BY <1>1, <1>2, <1>3, Sizes DEF TimeRange
    <2>4. r + k \in Nanos BY <1>1, <1>2, <1>3 DEF Nanos
    <2>5. (q - 1) * k + (r + k) = t BY <1>1, <1>2, <2>2
    <2> QED BY <2>1, <2>3, <2>4, <2>5 DEF TimeOf, p
  <1>4. CASE r >= 0
    <2>1. p.seconds = q /\ p.nanos = r BY <1>1, <1>2, <1>4 DEF splitTimestamp
    <2> HIDE DEF q, r, p
    <2>2. q \in TimeRange BY <1>1, <1>2, Sizes DEF TimeRange
    <2>3. r \in Nanos BY <1>1, <1>2, <1>4 DEF Nanos
    <2>4. q * k + r = t BY <1>1, <1>2
    <2> QED BY <2>1, <2>2, <2>3, <2>4 DEF TimeOf, p
  <1> QED BY <1>1, <1>2, <1>3, <1>4

\* The kinds of members that travel as a varint, and the values each holds in memory.
VarintMembers == [word |-> TimeRange, i32 |-> -(Word32 \div 2)..(Word32 \div 2 - 1), u32 |-> 0..(Word32 - 1),
                  bool |-> {0, 1}]

\* The wire numbers of the enumerators this release declares.
NumbersOf(k) == {ToWire(k, e) : e \in Enumerators[k]}

\* A signed value through the unsigned word and back.
LEMMA SignedComesBack ==
  ASSUME NEW m \in Nat, m = 2 * (m \div 2), m # 0, NEW v \in -(m \div 2)..(m \div 2 - 1)
  PROVE  v % m \in 0..(m - 1) /\ Signed(v % m, m) = v
  <1>1. m \div 2 \in Nat /\ v \in Int /\ -(m \div 2) =< v /\ v < m \div 2 OBVIOUS
  <1>2. v % m = IF v >= 0 THEN v ELSE v + m
    <2>1. CASE v >= 0 BY <1>1, <2>1
    <2>2. CASE v < 0 BY <1>1, <2>2
    <2> QED BY <1>1, <2>1, <2>2
  <1> DEFINE h == m \div 2
             u == v % m
  <1>3. m = 2 * h /\ h \in Nat BY <1>1
  <1>4. u = IF v >= 0 THEN v ELSE v + m BY <1>2
  <1>5. -h =< v /\ v < h /\ v \in Int /\ m # 0 BY <1>1
  <1>6. Signed(u, m) = IF u >= h THEN u - m ELSE u BY DEF Signed
  <1> HIDE DEF h, u
  <1>7. u \in 0..(m - 1) /\ Signed(u, m) = v BY <1>3, <1>4, <1>5, <1>6
  <1> QED BY <1>7 DEF u

\* Every value a number or a bool of a builtin object may hold fits the 64-bit word the
\* writer encodes, and the reader's conversion gives it back, a negative one through the
\* unsigned word.
THEOREM MembersComeBack ==
  ASSUME NEW k \in DOMAIN VarintMembers, NEW v \in VarintMembers[k]
  PROVE  ToWire(k, v) \in 0..(Word - 1) /\ FromWire(k, ToWire(k, v)) = v
  <1>0. k \in {"word", "i32", "u32", "bool"} BY DEF VarintMembers
  <1>w. 16 =< Word32 /\ Word32 =< Word BY WordAssumption DEF WordAssumption
  <1>e. k \notin DOMAIN Enumerators BY <1>0 DEF Enumerators
  <1>1. CASE k = "word"
    <2>1. v \in -(Word \div 2)..(Word \div 2 - 1) BY <1>1 DEF VarintMembers, TimeRange, MinTime, MaxTime
    <2>2. v % Word \in 0..(Word - 1) /\ Signed(v % Word, Word) = v BY <2>1, Sizes, SignedComesBack
    <2>3. ToWire(k, v) = v % Word BY <1>1 DEF ToWire
    <2>4. FromWire(k, v % Word) = Signed(v % Word, Word) BY <1>1, <1>e DEF FromWire
    <2> QED BY <2>2, <2>3, <2>4
  <1>2. CASE k = "i32"
    <2>1. v \in -(Word32 \div 2)..(Word32 \div 2 - 1) BY <1>2 DEF VarintMembers
    <2> DEFINE u == v % Word32
    <2>2. u \in 0..(Word32 - 1) /\ Signed(u, Word32) = v BY <2>1, Sizes, SignedComesBack
    <2>3. ToWire(k, v) = u BY <1>2 DEF ToWire
    <2>4. FromWire(k, u) = Signed(u % Word32, Word32) BY <1>2, <1>e DEF FromWire
    <2> HIDE DEF u
    <2>5. u % Word32 = u /\ u \in 0..(Word - 1) BY <1>w, <2>2, Sizes
    <2> QED BY <2>2, <2>3, <2>4, <2>5
  <1>3. CASE k = "u32"
    <2>1. v \in 0..(Word32 - 1) BY <1>3 DEF VarintMembers
    <2>2. ToWire(k, v) = v /\ FromWire(k, v) = v % Word32 BY <1>3, <1>e DEF ToWire, FromWire
    <2>3. v % Word32 = v /\ v \in 0..(Word - 1) BY <1>w, <2>1, Sizes
    <2> QED BY <2>2, <2>3
  <1>4. CASE k = "bool"
    <2>1. v \in {0, 1} BY <1>4 DEF VarintMembers
    <2>2. ToWire(k, v) = v /\ FromWire(k, v) = (IF v # 0 THEN 1 ELSE 0) BY <1>4, <1>e DEF ToWire, FromWire
    <2> QED BY <1>w, <2>1, <2>2, Sizes
  <1> QED BY <1>0, <1>1, <1>2, <1>3, <1>4

\* The conversions each kind of enumeration is written and read with.
LEMMA EnumConversions ==
  ASSUME NEW v
  PROVE  /\ ToWire("line_type", v) = v + 1 /\ FromWire("line_type", v) = lineTypeFromWire(v)
         /\ ToWire("topology", v) = topologyToEnum(v) /\ FromWire("topology", v) = mapTopology(v)
         /\ ToWire("deletion_type", v) = v /\ FromWire("deletion_type", v) = deletionType(v)
         /\ ToWire("marker_kind", v) = v /\ FromWire("marker_kind", v) = mapKind(v)
         /\ ToWire("marker_status", v) = v /\ FromWire("marker_status", v) = mapStatus(v)
         /\ ToWire("marker_severity", v) = v /\ FromWire("marker_severity", v) = mapSeverity(v)
         /\ ToWire("log_level", v) = v /\ FromWire("log_level", v) = levelFromWire(v)
         /\ ToWire("datatype", v) = v /\ FromWire("datatype", v) = pointFieldDatatypeFromWire(v)
  <1>1. ToWire("line_type", v) = v + 1 /\ FromWire("line_type", v) = lineTypeFromWire(v)
    <2>1. "line_type" \in DOMAIN Enumerators BY DEF Enumerators
    <2>2. FromWire("line_type", v) = EnumFromWire("line_type", v) BY <2>1 DEF FromWire
    <2>3. EnumFromWire("line_type", v) = lineTypeFromWire(v) BY DEF EnumFromWire
    <2>4. ToWire("line_type", v) = v + 1 BY DEF ToWire, lineTypeToWire
    <2> QED BY <2>2, <2>3, <2>4
  <1>2. ToWire("topology", v) = topologyToEnum(v) /\ FromWire("topology", v) = mapTopology(v)
    <2>1. "topology" \in DOMAIN Enumerators BY DEF Enumerators
    <2>2. FromWire("topology", v) = EnumFromWire("topology", v) BY <2>1 DEF FromWire
    <2>3. EnumFromWire("topology", v) = mapTopology(v) BY DEF EnumFromWire
    <2>4. ToWire("topology", v) = topologyToEnum(v) BY DEF ToWire
    <2> QED BY <2>2, <2>3, <2>4
  <1>3. ToWire("deletion_type", v) = v /\ FromWire("deletion_type", v) = deletionType(v)
    <2>1. "deletion_type" \in DOMAIN Enumerators BY DEF Enumerators
    <2>2. FromWire("deletion_type", v) = EnumFromWire("deletion_type", v) BY <2>1 DEF FromWire
    <2>3. EnumFromWire("deletion_type", v) = deletionType(v) BY DEF EnumFromWire
    <2>4. ToWire("deletion_type", v) = v BY DEF ToWire
    <2> QED BY <2>2, <2>3, <2>4
  <1>4. ToWire("marker_kind", v) = v /\ FromWire("marker_kind", v) = mapKind(v)
    <2>1. "marker_kind" \in DOMAIN Enumerators BY DEF Enumerators
    <2>2. FromWire("marker_kind", v) = EnumFromWire("marker_kind", v) BY <2>1 DEF FromWire
    <2>3. EnumFromWire("marker_kind", v) = mapKind(v) BY DEF EnumFromWire
    <2>4. ToWire("marker_kind", v) = v BY DEF ToWire
    <2> QED BY <2>2, <2>3, <2>4
  <1>5. ToWire("marker_status", v) = v /\ FromWire("marker_status", v) = mapStatus(v)
    <2>1. "marker_status" \in DOMAIN Enumerators BY DEF Enumerators
    <2>2. FromWire("marker_status", v) = EnumFromWire("marker_status", v) BY <2>1 DEF FromWire
    <2>3. EnumFromWire("marker_status", v) = mapStatus(v) BY DEF EnumFromWire
    <2>4. ToWire("marker_status", v) = v BY DEF ToWire
    <2> QED BY <2>2, <2>3, <2>4
  <1>6. ToWire("marker_severity", v) = v /\ FromWire("marker_severity", v) = mapSeverity(v)
    <2>1. "marker_severity" \in DOMAIN Enumerators BY DEF Enumerators
    <2>2. FromWire("marker_severity", v) = EnumFromWire("marker_severity", v) BY <2>1 DEF FromWire
    <2>3. EnumFromWire("marker_severity", v) = mapSeverity(v) BY DEF EnumFromWire
    <2>4. ToWire("marker_severity", v) = v BY DEF ToWire
    <2> QED BY <2>2, <2>3, <2>4
  <1>7. ToWire("log_level", v) = v /\ FromWire("log_level", v) = levelFromWire(v)
    <2>1. "log_level" \in DOMAIN Enumerators BY DEF Enumerators
    <2>2. FromWire("log_level", v) = EnumFromWire("log_level", v) BY <2>1 DEF FromWire
    <2>3. EnumFromWire("log_level", v) = levelFromWire(v) BY DEF EnumFromWire
    <2>4. ToWire("log_level", v) = v BY DEF ToWire
    <2> QED BY <2>2, <2>3, <2>4
  <1>8. ToWire("datatype", v) = v /\ FromWire("datatype", v) = pointFieldDatatypeFromWire(v)
    <2>1. "datatype" \in DOMAIN Enumerators BY DEF Enumerators
    <2>2. FromWire("datatype", v) = EnumFromWire("datatype", v) BY <2>1 DEF FromWire
    <2>3. EnumFromWire("datatype", v) = pointFieldDatatypeFromWire(v) BY DEF EnumFromWire
    <2>4. ToWire("datatype", v) = v BY DEF ToWire
    <2> QED BY <2>2, <2>3, <2>4
  <1> QED BY <1>1, <1>2, <1>3, <1>4, <1>5, <1>6, <1>7, <1>8

\* The enumerators and their conversions, spelled out.
LEMMA EnumTable ==
  ASSUME NEW k \in DOMAIN Enumerators
  PROVE  /\ Enumerators[k] \subseteq 0..8 /\ 0 \in Enumerators[k]
         /\ \A v \in Enumerators[k] : ToWire(k, v) \in 0..8 /\ FromWire(k, ToWire(k, v)) = v
         /\ \A v \in Nat : FromWire(k, v) # 0 => FromWire(k, v) \in Enumerators[k] /\ v = ToWire(k, FromWire(k, v))
  <1>0. k \in {"line_type", "topology", "deletion_type", "marker_kind", "marker_status", "marker_severity",
               "log_level", "datatype"}
    BY DEF Enumerators
  <1>1. CASE k = "line_type"
    <2>1. Enumerators[k] = 0..2 BY <1>1 DEF Enumerators
    <2>2. \A v : ToWire(k, v) = v + 1 /\ FromWire(k, v) = lineTypeFromWire(v) BY <1>1, EnumConversions
    <2> QED BY <2>1, <2>2 DEF lineTypeFromWire
  <1>2. CASE k = "topology"
    <2>1. Enumerators[k] = 0..3 BY <1>2 DEF Enumerators
    <2>2. \A v : ToWire(k, v) = topologyToEnum(v) /\ FromWire(k, v) = mapTopology(v) BY <1>2, EnumConversions
    <2> QED BY <2>1, <2>2 DEF mapTopology, topologyToEnum
  <1>3. CASE k = "deletion_type"
    <2>1. Enumerators[k] = 0..1 BY <1>3 DEF Enumerators
    <2>2. \A v : ToWire(k, v) = v /\ FromWire(k, v) = deletionType(v) BY <1>3, EnumConversions
    <2> QED BY <2>1, <2>2 DEF deletionType
  <1>4. CASE k = "marker_kind"
    <2>1. Enumerators[k] = 0..3 BY <1>4 DEF Enumerators
    <2>2. \A v : ToWire(k, v) = v /\ FromWire(k, v) = mapKind(v) BY <1>4, EnumConversions
    <2> QED BY <2>1, <2>2 DEF mapKind
  <1>5. CASE k = "marker_status"
    <2>1. Enumerators[k] = 0..2 BY <1>5 DEF Enumerators
    <2>2. \A v : ToWire(k, v) = v /\ FromWire(k, v) = mapStatus(v) BY <1>5, EnumConversions
    <2> QED BY <2>1, <2>2 DEF mapStatus
  <1>6. CASE k = "marker_severity"
    <2>1. Enumerators[k] = 0..3 BY <1>6 DEF Enumerators
    <2>2. \A v : ToWire(k, v) = v /\ FromWire(k, v) = mapSeverity(v) BY <1>6, EnumConversions
    <2> QED BY <2>1, <2>2 DEF mapSeverity
  <1>7. CASE k = "log_level"
    <2>1. Enumerators[k] = 0..5 BY <1>7 DEF Enumerators
    <2>2. \A v : ToWire(k, v) = v /\ FromWire(k, v) = levelFromWire(v) BY <1>7, EnumConversions
    <2> QED BY <2>1, <2>2 DEF levelFromWire
  <1>8. CASE k = "datatype"
    <2>1. Enumerators[k] = 0..8 BY <1>8 DEF Enumerators
    <2>2. \A v : ToWire(k, v) = v /\ FromWire(k, v) = pointFieldDatatypeFromWire(v) BY <1>8, EnumConversions
    <2> QED BY <2>1, <2>2 DEF pointFieldDatatypeFromWire
  <1> QED BY <1>0, <1>1, <1>2, <1>3, <1>4, <1>5, <1>6, <1>7, <1>8

\* Every enumerator of every enumeration of the builtin objects comes back as itself, also
\* those whose wire numbering starts at 1 or runs in another order.
THEOREM EnumeratorsComeBack ==
  ASSUME NEW k \in DOMAIN Enumerators, NEW e \in Enumerators[k]
  PROVE  ToWire(k, e) \in 0..(Word - 1) /\ FromWire(k, ToWire(k, e)) = e
  <1>1. 16 =< Word BY WordAssumption DEF WordAssumption
  <1>2. Word \in Nat BY Sizes
  <1>3. ToWire(k, e) \in 0..8 /\ FromWire(k, ToWire(k, e)) = e BY EnumTable
  <1> QED BY <1>1, <1>2, <1>3

\* Any other number, of a newer release or of none, is read as the default enumerator: no
\* number on the wire becomes a value the enumeration does not have.
THEOREM UnknownNumbersFallBack ==
  ASSUME NEW k \in DOMAIN Enumerators, NEW v \in Nat
  PROVE  FromWire(k, v) \in Enumerators[k] /\ (v \notin NumbersOf(k) => FromWire(k, v) = 0)
  BY EnumTable DEF NumbersOf

\* Every time a builtin object may hold, the least and the greatest included, is written
\* as a pair of varint members that, read back, combineSecondsAndNanos accepts and turns
\* into the same time.
THEOREM TimesComeBack ==
  ASSUME NEW t \in TimeRange
  PROVE  LET p == splitTimestamp(t)
             seconds == FromWire("word", ToWire("word", p.seconds))
             nanos == FromWire("u32", ToWire("u32", p.nanos))
         IN TimeFits(seconds, nanos) /\ Combined(seconds, nanos) = t
  <1> DEFINE p == splitTimestamp(t)
  <1>1. p.seconds \in TimeRange /\ p.nanos \in Nanos /\ TimeOf(p.seconds, p.nanos) = t BY SplitIsExact
  <1> HIDE DEF p
  <1>2. p.nanos \in TimeRange /\ p.nanos \in 0..(Word32 - 1) BY <1>1, Sizes DEF TimeRange, Nanos
  <1>3. TimeFits(p.seconds, p.nanos) /\ Combined(p.seconds, p.nanos) = t BY <1>1, <1>2, CombineIsExact
  <1>4. p.seconds \in VarintMembers["word"] /\ p.nanos \in VarintMembers["u32"]
    BY <1>1, <1>2 DEF VarintMembers
  <1>5. "word" \in DOMAIN VarintMembers /\ "u32" \in DOMAIN VarintMembers BY DEF VarintMembers
  <1>6. FromWire("word", ToWire("word", p.seconds)) = p.seconds BY <1>4, <1>5, MembersComeBack
  <1>7. FromWire("u32", ToWire("u32", p.nanos)) = p.nanos BY <1>4, <1>5, MembersComeBack
  <1> QED BY <1>3, <1>6, <1>7 DEF p
=============================================================================
