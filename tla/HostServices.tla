---------------------------- MODULE HostServices ----------------------------
(***************************************************************************)
(* The service boundary between a plugin and its host (pj_base/            *)
(* plugin_data_api.h and sdk/plugin_data_api.hpp).  A host registers named *)
(* services, each a vtable of function slots; the plugin looks one up at   *)
(* bind time and calls it through a C++ view.  Host and plugin are built   *)
(* from different releases of the headers: an older host's struct_size     *)
(* covers only a prefix of the slots the plugin knows, and a tail slot it  *)
(* does cover may be NULL.  HostTables holds the services.                 *)
(***************************************************************************)
EXTENDS Naturals, Sequences

CONSTANTS
  Services,    \* the services, as HostTables describes them
  MaxVersion   \* highest service version a host registers

VersionAssumption == MaxVersion \in Nat \ {0}

VARIABLES
  host,     \* the host object behind one service: its struct_size, the slots it set, its version
  entries,  \* "absent" | "listed": whether the registry lists the service
  view,     \* "empty" | "bound": the plugin's view of the service
  call      \* the plugin's last call: slot, what became of it and the slots it read

svcVars == <<host, entries, view, call>>

NoCall == [slot |-> 0, how |-> "none", read |-> {}]

(* An implementation of a service as some release of the host builds it:   *)
(* struct_size counts the slots of that release's header and every v1 slot *)
(* is set; of the later ones it covers, any one or all may be NULL.        *)
SlotsSet(v1, size) == {1..v1, 1..size} \cup {(1..size) \ {i} : i \in v1 + 1..size}
HostsOf(name) ==
  LET t == Services[name] IN
  UNION {[service : {name}, version : 0..MaxVersion, struct_size : {size}, set : SlotsSet(t.v1, size)] :
           size \in t.v1..Len(t.slots)}

Hosts == UNION {HostsOf(name) : name \in DOMAIN Services}

Fresh ==
  /\ entries = "absent"
  /\ view = "empty"
  /\ call = NoCall

Init == host \in Hosts /\ Fresh

(* tryRegisterService: a name is listed once; unregisterService erases it. *)
Register ==
  /\ entries = "absent"
  /\ entries' = "listed"
  /\ UNCHANGED <<host, view, call>>

Unregister ==
  /\ entries' = "absent"
  /\ UNCHANGED <<host, view, call>>

(* get_service answers a listed service of at least the version asked for. *)
GetService == entries = "listed" /\ host.version >= Services[host.service].kMinVersion

(* ServiceRegistry::get / require: the view keeps the raw pointers; it is  *)
(* not told of a later unregisterService.                                  *)
Bind ==
  /\ view' = IF GetService THEN "bound" ELSE "empty"
  /\ UNCHANGED <<host, entries, call>>

(* What a guard makes of slot i: the slots it reads on the way, and        *)
(* whether it jumps.  Reading past struct_size finds anything.             *)
Covered(i) == i <= host.struct_size
NonNull(i) == IF Covered(i) THEN {i \in host.set} ELSE BOOLEAN

Passes(guard, i) ==
  CASE guard = "bound"    -> {[jump |-> TRUE, read |-> {i}]}
    [] guard = "slot"     -> {[jump |-> p, read |-> {i}] : p \in NonNull(i)}
    [] guard = "tail"     -> IF Covered(i) THEN {[jump |-> p, read |-> {i}] : p \in NonNull(i)}
                                           ELSE {[jump |-> FALSE, read |-> {}]}
    [] guard = "argument" -> {[jump |-> Covered(i) /\ p, read |-> {i}] : p \in NonNull(i)}

(* A method of the view that needs slot i.                                 *)
Call(i) ==
  LET check == Services[host.service].view[Services[host.service].slots[i]] IN
  /\ call' \in IF view = "empty"
               THEN {[slot |-> i, how |-> check.absent, read |-> {}]}
               ELSE {[slot |-> i, how |-> IF o.jump THEN "jump" ELSE check.absent, read |-> o.read] :
                       o \in Passes(check.guard, i)}
  /\ UNCHANGED <<host, entries, view>>

Next ==
  \/ Register
  \/ Unregister
  \/ Bind
  \/ \E i \in 1..Len(Services[host.service].slots) : Call(i)

Spec == Init /\ [][Next]_svcVars
-----------------------------------------------------------------------------
(* The slots that change the host's data or state and report a result.     *)
Writes ==
  {"ensure_topic", "ensure_field", "append_record", "append_bound_record", "append_arrow_stream",
   "create_data_source", "register_object_topic", "push_owned_object", "register_object_topic_on_dataset",
   "set_object_topic_retention", "register_topic", "push_owned", "push_lazy", "register_map", "unregister_map",
   "create_data_processor", "remove_data_processor", "create_data_processor_v2", "submit_evaluation",
   "release_evaluation", "play", "pause", "seek", "set_playback_rate", "zoom_to_time_range", "zoom_reset",
   "create_tab", "close_tab", "add_curve", "remove_curve", "clear_tab", "create_tab_v2", "attach_topic",
   "detach_topic", "focus_tab", "set_string", "set_string_list", "remove_key", "ensure_parser_binding",
   "push_message", "notify_available_topics", "attach_source_record", "complete_ingest", "set_dataset_metadata"}

(* Against every release of the host, a view jumps only through a slot the *)
(* host really set: a slot appended after v1 is never reached by a check   *)
(* that ignores struct_size, a v1 slot may be.  And a write the host never *)
(* saw is reported as an error, not as an empty success.                   *)
CallsAreServed ==
  /\ call.how = "jump" => call.slot \in host.set
  /\ call.how \in {"empty", "void"} => Services[host.service].slots[call.slot] \notin Writes

(* "Every tail slot read must be guarded by PJ_HAS_TAIL_SLOT", which tests *)
(* struct_size before it reads the slot (plugin_data_api.h:74-76): no view *)
(* reads a slot beyond the host's struct_size.                             *)
ReadsStayInside == \A i \in call.read : Covered(i)

=============================================================================
