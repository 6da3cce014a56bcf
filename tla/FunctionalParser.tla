-------------------------- MODULE FunctionalParser --------------------------
(***************************************************************************)
(* One message through the functional parser extensions: the host's        *)
(* MessageParserHandle calls into the plugin, which calls back into a sink *)
(* on the host's stack before it returns.  A plugin built with the SDK     *)
(* (MessageParserPluginBase and its trampolines) offers the functional     *)
(* tables for schemas it has a handler for; any other plugin may call the  *)
(* sink as often as it likes and answer what it likes.  The handle         *)
(* remembers which object type the bound schema announces and refuses      *)
(* others; a payload anchor is handed to the plugin for one release.       *)
(***************************************************************************)
EXTENDS Naturals, FiniteSets

CONSTANTS
  Schemas,     \* schema type names
  Types,       \* builtin object types other than kNone
  SpliceTypes, \* those with a bulk field that may be spliced
  MaxCalls     \* bound: calls of a sink by a plugin that breaks the contract

VARIABLES
  plugin,    \* the plugin: built with the SDK or not, tables it exposes, handlers
  bound,     \* the plugin's bound_type_name_
  expected,  \* the handle's expected_object_type_
  parse,     \* the call in progress, from the handle's entry to its answer
  anchor,    \* "none", "plugin" (one reference handed over) or "released"
  answered   \* what the last call answered, if it was a parse call

parseVars == <<plugin, bound, expected, parse, anchor, answered>>

NoSchema == "unbound"
NoType == "kNone"
Unset == "unset"
Idle == [kind |-> "idle", table |-> 0, count |-> 0, record |-> NoType, refused |-> FALSE]
NoResult == [kind |-> "idle", ok |-> FALSE, count |-> 0, record |-> NoType, refused |-> FALSE]

(* A schema handler announces a type and has a scalar route, an object     *)
(* route, both or neither.                                                 *)
SchemaHandlers == [object_type : Types \cup {NoType}, scalars : BOOLEAN, object : BOOLEAN]

(* The plugin's handler table, for one schema at most: the others stand    *)
(* for those a plugin leaves to its legacy parse(); the SDK generation: 0  *)
(* without functional tables, 1 with v1, 2 with v1 and v2; whether its     *)
(* vtable covers classify_schema.                                          *)
Plugins ==
  [sdk : BOOLEAN, tables : {0, 1, 2}, classifies : BOOLEAN,
   handlers : {<<>>} \cup UNION {[{s} -> SchemaHandlers] : s \in Schemas}]

Fresh ==
  /\ bound = NoSchema
  /\ expected = Unset
  /\ parse = Idle
  /\ anchor = "none"
  /\ answered = NoResult

Init == plugin \in Plugins /\ Fresh

findSchemaHandler(s) == s \in DOMAIN plugin.handlers
classify_schema(s) == IF findSchemaHandler(s) THEN plugin.handlers[s].object_type ELSE NoType

(* trampoline_get_plugin_extension: before a schema is bound any handler   *)
(* offers the functional tables, afterwards only the bound schema's own.   *)
FunctionalRoute ==
  IF ~plugin.sdk THEN TRUE
  ELSE IF bound = NoSchema THEN DOMAIN plugin.handlers # {} ELSE findSchemaHandler(bound)

(* functionalExtensions: v2 is preferred.                                  *)
Table == IF FunctionalRoute THEN plugin.tables ELSE 0

(* bindSchema: the expectation is cleared first, so a failed bind leaves   *)
(* none; a plugin that does not classify, or fails to, leaves none either. *)
BindSchema(s) ==
  /\ parse = Idle
  /\ \/ /\ bound' = s
        /\ \/ expected' = IF plugin.classifies THEN classify_schema(s) ELSE Unset
           \/ ~plugin.sdk /\ expected' = Unset
     \/ /\ ~plugin.sdk                      \* bind_schema fails
        /\ UNCHANGED bound
        /\ expected' = Unset
  /\ answered' = NoResult
  /\ UNCHANGED <<plugin, parse, anchor>>

(* classifySchema for any schema name; it also replaces the expectation.   *)
ClassifySchema(s) ==
  /\ parse = Idle
  /\ expected' = IF plugin.classifies THEN classify_schema(s) ELSE expected
  /\ answered' = NoResult
  /\ UNCHANGED <<plugin, bound, parse, anchor>>

(* parseScalarsFunctional / parseObjectFunctional up to the jump.  Without *)
(* a table the call fails at once; the anchored overload has not made its  *)
(* reference yet.                                                          *)
Enter(kind, anchored) ==
  /\ parse = Idle
  /\ kind = "scalars" => ~anchored
  /\ IF Table = 0
     THEN /\ answered' = [NoResult EXCEPT !.kind = kind]
          /\ UNCHANGED <<parse, anchor>>
     ELSE /\ parse' = [Idle EXCEPT !.kind = kind, !.table = Table]
          /\ anchor' = IF anchored THEN "plugin" ELSE "none"
          /\ answered' = NoResult
  /\ UNCHANGED <<plugin, bound, expected>>

(* acceptScalarRecord: the second call is refused; the first one is passed *)
(* to the host's sink, which may refuse it or throw.                       *)
acceptScalarRecord(ok) ==
  [parse EXCEPT !.count = @ + 1, !.refused = parse.count # 0 \/ ~ok]

(* acceptObject / acceptObjectSpliced: one call, the expected type, and a  *)
(* wire image (with the bytes spliced in) that decodes.                    *)
acceptObject(type, decodes) ==
  LET ok == parse.count = 0 /\ decodes /\ (expected \in {Unset, NoType} \/ expected = type) IN
  [parse EXCEPT !.count = @ + 1, !.refused = ~ok, !.record = IF ok THEN type ELSE @]

acceptObjectSpliced(type, inside, decodes) ==
  IF type \in SpliceTypes /\ inside THEN acceptObject(type, decodes)
  ELSE [parse EXCEPT !.count = @ + 1, !.refused = TRUE]

(* The handler's outcome for the bound schema, then the trampoline's one   *)
(* call of the sink: no sink call when there is no handler, no route, or   *)
(* the handler fails or throws.                                            *)
SdkRuns ==
  /\ plugin.sdk /\ parse.kind # "idle" /\ parse.count = 0 /\ ~parse.refused
  /\ findSchemaHandler(bound)
  /\ \/ /\ parse.kind = "scalars" /\ plugin.handlers[bound].scalars
        /\ \E ok \in BOOLEAN : parse' = acceptScalarRecord(ok)
     \/ /\ parse.kind = "object" /\ plugin.handlers[bound].object
        /\ \E type \in Types : parse' = acceptObject(type, TRUE)
  /\ UNCHANGED <<plugin, bound, expected, anchor, answered>>

(* A plugin without the SDK calls the sink as it pleases.                  *)
RawCallsSink ==
  /\ ~plugin.sdk /\ parse.kind # "idle" /\ parse.count < MaxCalls
  /\ \/ parse.kind = "scalars" /\ \E ok \in BOOLEAN : parse' = acceptScalarRecord(ok)
     \/ /\ parse.kind = "object"
        /\ \E type \in Types, decodes \in BOOLEAN :
             \/ parse' = acceptObject(type, decodes)
             \/ /\ parse.table = 2
                /\ \E inside \in BOOLEAN : parse' = acceptObjectSpliced(type, inside, decodes)
  /\ UNCHANGED <<plugin, bound, expected, anchor, answered>>

(* A verdict that only believes the plugin.                                *)
Verdict_trusting(answer) == answer

(* The handle's verdict on a plugin that answered "answer".                *)
Verdict(answer) ==
  /\ answer
  /\ parse.count = 1
  /\ parse.kind = "object" => parse.record # NoType

(* The plugin returns.  The trampoline answers what the sink answered,     *)
(* after the adopted anchor has gone with its local objects; a plugin      *)
(* without the SDK answers anything, but releases its anchor.              *)
Return ==
  /\ parse.kind # "idle"
  /\ \E answer \in BOOLEAN :
       /\ plugin.sdk => answer = (parse.count = 1 /\ ~parse.refused)
       /\ answered' = [kind |-> parse.kind, ok |-> Verdict(answer), count |-> parse.count, record |-> parse.record,
                     refused |-> parse.refused]
  /\ anchor' = IF anchor = "plugin" THEN "released" ELSE anchor
  /\ parse' = Idle
  /\ UNCHANGED <<plugin, bound, expected>>

Next ==
  \/ \E s \in Schemas : BindSchema(s) \/ ClassifySchema(s)
  \/ \E kind \in {"scalars", "object"}, anchored \in BOOLEAN : Enter(kind, anchored)
  \/ SdkRuns
  \/ RawCallsSink
  \/ Return

Spec == Init /\ [][Next]_parseVars
-----------------------------------------------------------------------------
(* A parse call that reports success delivered exactly one record: an      *)
(* object the handle decoded itself whatever the plugin did, a scalar      *)
(* record the host's sink took if the plugin keeps to the SDK.  A failed   *)
(* object call hands no object to the caller, and the anchor reference     *)
(* given away has been released by the time the call returns.              *)
SuccessIsOneRecord ==
  /\ answered.ok =>
       /\ answered.count = 1
       /\ answered.kind = "object" => answered.record \in Types /\ ~answered.refused
       /\ answered.kind = "scalars" /\ plugin.sdk => ~answered.refused
  /\ parse = Idle => anchor # "plugin"

=============================================================================
