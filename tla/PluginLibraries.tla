--------------------------- MODULE PluginLibraries --------------------------
(***************************************************************************)
(* How a host admits a plugin DSO and how long its code stays mapped.  A   *)
(* library object opens the file, checks it and keeps a shared token whose *)
(* last copy closes the file; handles, payload anchors and borrowed        *)
(* dialogs copy the token.  Widget libraries are never closed.  The plugin *)
(* may be built from any release of the headers: its vtable ends anywhere  *)
(* and slots may be NULL, so what validateRequiredSlots demands must cover *)
(* every slot a handle calls without a check of its own.                   *)
(***************************************************************************)
EXTENDS Naturals, Sequences, FiniteSets

CONSTANTS
  Libraries,   \* library objects of the host
  Handles,     \* plugin handles of the host
  MaxLoads,    \* bound: files opened in a behaviour
  MaxInstances      \* bound: plugin instances created in a behaviour

LoadsAssumption == MaxLoads \in Nat /\ MaxInstances \in Nat

(***************************************************************************)
(* The vtables in slot order.  "min" is the last slot of the pinned first  *)
(* release, the struct_size a loader insists on.                           *)
(***************************************************************************)
PJ_data_source_vtable ==
  [min |-> 15,
   slots |-> <<"create", "destroy", "manifest_json", "capabilities", "bind", "save_config", "load_config", "start",
               "stop", "pause", "resume", "poll", "current_state", "get_dialog", "get_plugin_extension">>]

PJ_message_parser_vtable ==
  [min |-> 9,
   slots |-> <<"create", "destroy", "manifest_json", "bind", "bind_schema", "save_config", "load_config", "parse",
               "get_plugin_extension", "classify_schema">>]

PJ_toolbox_vtable ==
  [min |-> 10,
   slots |-> <<"create", "destroy", "manifest_json", "capabilities", "bind", "save_config", "load_config",
               "get_dialog", "on_data_changed", "get_plugin_extension">>]

PJ_dialog_vtable ==
  [min |-> 11,
   slots |-> <<"create", "destroy", "get_manifest", "get_ui_content", "get_widget_data", "on_widget_event",
               "on_tick", "on_accepted", "on_rejected", "save_config", "load_config", "manifest_json",
               "set_host_info">>]

PJ_widget_vtable ==
  [min |-> 11,
   slots |-> <<"create", "destroy", "manifest_json", "build_info", "bind", "inputs", "create_qwidget", "on_update",
               "save_config", "load_config", "get_plugin_extension">>]

Families == {"data_source", "message_parser", "toolbox", "dialog", "widget"}

Vtable(family) ==
  CASE family = "data_source" -> PJ_data_source_vtable
    [] family = "message_parser" -> PJ_message_parser_vtable
    [] family = "toolbox" -> PJ_toolbox_vtable
    [] family = "dialog" -> PJ_dialog_vtable
    [] family = "widget" -> PJ_widget_vtable

(* The validators, family by family.                                       *)
RequiredDataSource ==
  {"create", "destroy", "manifest_json", "capabilities", "bind", "save_config", "load_config", "start", "stop",
   "pause", "resume", "poll", "current_state", "get_dialog", "get_plugin_extension"}
RequiredMessageParser ==
  {"create", "destroy", "manifest_json", "bind", "bind_schema", "save_config", "load_config", "parse",
   "get_plugin_extension"}
RequiredToolbox ==
  {"create", "destroy", "manifest_json", "capabilities", "bind", "save_config", "load_config", "get_dialog",
   "on_data_changed", "get_plugin_extension"}
RequiredDialog ==
  {"create", "destroy", "get_manifest", "get_ui_content", "get_widget_data", "on_widget_event", "on_tick",
   "on_accepted", "on_rejected", "save_config", "load_config"}
RequiredWidget ==
  {"create", "destroy", "manifest_json", "build_info", "bind", "inputs", "create_qwidget", "on_update",
   "save_config", "load_config", "get_plugin_extension"}

Required(family) ==
  CASE family = "data_source" -> RequiredDataSource
    [] family = "message_parser" -> RequiredMessageParser
    [] family = "toolbox" -> RequiredToolbox
    [] family = "dialog" -> RequiredDialog
    [] family = "widget" -> RequiredWidget

(* The slots a handle jumps through only after a check: "slot" tests the   *)
(* pointer, "tail" struct_size and then the pointer.  Every other slot is  *)
(* called without one.                                                     *)
DataSourceHandle == [get_dialog |-> "slot", get_plugin_extension |-> "tail"]
MessageParserHandle == [get_plugin_extension |-> "tail", classify_schema |-> "tail"]
ToolboxHandle == [get_dialog |-> "slot", on_data_changed |-> "slot", get_plugin_extension |-> "tail"]
DialogHandle == [set_host_info |-> "tail", manifest_json |-> "tail"]
WidgetHandle == [get_plugin_extension |-> "tail"]

Checks(family) ==
  CASE family = "data_source" -> DataSourceHandle
    [] family = "message_parser" -> MessageParserHandle
    [] family = "toolbox" -> ToolboxHandle
    [] family = "dialog" -> DialogHandle
    [] family = "widget" -> WidgetHandle
-----------------------------------------------------------------------------
VARIABLES
  file,      \* the plugin file, as its author built it
  opened,    \* number of tokens made so far; token t is one open of the file
  closing,   \* closing[t]: whether the last copy of token t closes the file
  opens,     \* opens the native loader still counts
  lib,       \* lib[l]: the token a library object holds, 0 when it is reset
  handle,    \* handle[h]: instance, whether h owns it, and the token h holds
  pinned,    \* tokens of admitted widget libraries
  anchors,   \* tokens kept by payload anchors that outlive their handle
  instances, \* number of instances created
  destroyed, \* destroyed[c]: how often destroy ran on instance c
  landed     \* where the last jump into the plugin went

plugVars == <<file, opened, closing, opens, lib, handle, pinned, anchors, instances, destroyed, landed>>

Tokens == 1..MaxLoads
NoHandle == [ctx |-> 0, owned |-> FALSE, token |-> 0]
Covered(i) == i <= file.struct_size
Slots == Vtable(file.family).slots
Slot(name) == LET slots == Slots IN CHOOSE i \in DOMAIN slots : slots[i] = name
Mapped(n) == n > 0

(* Where a jump through slot i goes when the loader counts n opens.        *)
Landing(i, n) ==
  IF ~Mapped(n) THEN "unmapped" ELSE IF Covered(i) /\ i \notin file.null THEN "plugin" ELSE "null"

(* The token copies in force.                                              *)
Copies(t) ==
  [libs |-> {l \in Libraries : lib[l] = t}, handles |-> {h \in Handles : handle[h].token = t},
   kept |-> t \in pinned \cup anchors]
Unused(t) == Copies(t).libs = {} /\ Copies(t).handles = {} /\ ~Copies(t).kept

(* The tokens whose last copy goes in this step close the file.            *)
LastCopies == {t \in 1..opened : closing[t] /\ ~Unused(t) /\ Unused(t)'}
Close == opens' = opens - Cardinality(LastCopies)

(* The files an author may ship: rejected by the native loader, without    *)
(* its own symbols, of another ABI, protocol or shape, or with one slot    *)
(* left NULL.                                                              *)
Files ==
  { f \in [family : Families, native : {"opens", "refused"}, symbols : {"own", "dependency"},
           abi : {"same", "other"}, protocol : {"same", "other"}, struct_size : {8, 9, 10, 11, 12, 13, 15},
           null : {{}} \cup {{i} : i \in 1..15}] :
      /\ f.null \subseteq 1..Len(Vtable(f.family).slots)
      /\ f.struct_size <= Len(Vtable(f.family).slots)
      /\ f.native = "refused" \/ f.symbols = "dependency" \/ f.abi = "other" \/ f.protocol = "other"
         => f.null = {} /\ f.struct_size = Vtable(f.family).min }

(* The checks of a load in their order: the native loader takes the file,  *)
(* its ABI version is this host's, the entry symbol belongs to the file    *)
(* itself and not to a library it depends on, and its vtable has the       *)
(* protocol version, the size of the first release and the required slots. *)
loadLibraryHandle == file.native = "opens"
checkPluginAbiVersion == file.abi = "same"
verifySymbolProvenance == file.symbols = "own"
validateRequiredSlots == \A name \in Required(file.family) : Slot(name) \notin file.null

Admitted ==
  /\ loadLibraryHandle
  /\ checkPluginAbiVersion
  /\ verifySymbolProvenance
  /\ file.protocol = "same"
  /\ file.struct_size >= Vtable(file.family).min
  /\ validateRequiredSlots

Fresh ==
  /\ opened = 0
  /\ closing = [t \in Tokens |-> FALSE]
  /\ opens = 0
  /\ lib = [l \in Libraries |-> 0]
  /\ handle = [h \in Handles |-> NoHandle]
  /\ pinned = {}
  /\ anchors = {}
  /\ instances = 0
  /\ destroyed = [c \in 1..MaxInstances |-> 0]
  /\ landed = "none"

Init == file \in Files /\ Fresh

(* A loader that adopts the native handle only after the checks.           *)
Take_leaks(l, closes) ==
  /\ opened < MaxLoads
  /\ opened' = opened + 1
  /\ closing' = [closing EXCEPT ![opened'] = closes]
  /\ lib' = IF Admitted THEN [lib EXCEPT ![l] = opened'] ELSE lib
  /\ pinned' = IF Admitted /\ file.family = "widget" THEN pinned \cup {opened'} ELSE pinned
  /\ UNCHANGED <<file, handle, anchors, instances, destroyed, landed>>
  /\ opens' = opens - Cardinality(LastCopies) + (IF file.native = "opens" THEN 1 ELSE 0)

(* A token for one more open of the file, into library object l if the     *)
(* file is admitted; what l held is reset first.                           *)
Take(l, closes) ==
  /\ opened < MaxLoads
  /\ opened' = opened + 1
  /\ closing' = [closing EXCEPT ![opened'] = closes]
  /\ lib' = IF Admitted THEN [lib EXCEPT ![l] = opened'] ELSE lib
  /\ pinned' = IF Admitted /\ file.family = "widget" THEN pinned \cup {opened'} ELSE pinned
  /\ UNCHANGED <<file, handle, anchors, instances, destroyed, landed>>
  /\ opens' = opens - Cardinality(LastCopies)
              + (IF file.native = "opens" /\ (Admitted \/ ~closes) THEN 1 ELSE 0)

(* XLibrary::load and the move assignment of its result.  A widget file is *)
(* opened with a no-op deleter and pinned once it is admitted, so it stays *)
(* open whatever the outcome; any other rejected file is closed before     *)
(* load returns.                                                           *)
Load(l) == Take(l, file.family # "widget")

(* loadFromHandle: the caller's own open is shared; it is closed by its    *)
(* last copy, unless a widget library pinned it.                           *)
LoadFromHandle(l) == file.native = "opens" /\ Take(l, TRUE)

(* reset(), the destructor, and a move out of the object.                  *)
ResetLibrary(l) ==
  /\ lib[l] # 0
  /\ lib' = [lib EXCEPT ![l] = 0]
  /\ UNCHANGED <<file, opened, closing, handle, pinned, anchors, instances, destroyed, landed>>
  /\ Close

MoveLibrary(k, l) ==
  /\ k # l
  /\ lib' = [lib EXCEPT ![l] = lib[k], ![k] = 0]
  /\ UNCHANGED <<file, opened, closing, handle, pinned, anchors, instances, destroyed, landed>>
  /\ Close

(* A dialog without a static manifest is instantiated and asked for it.    *)
tryDialog ==
  LET manifest == Slot("manifest_json") IN
  IF ~Covered(manifest) \/ manifest \in file.null THEN Landing(Slot("get_manifest"), opens + 1) ELSE "none"

(* inspectPluginDso: the file is opened, the families are tried and the    *)
(* manifest is copied before the file is closed.                           *)
Inspect ==
  /\ Admitted
  /\ landed' = IF file.family = "dialog" THEN tryDialog ELSE "none"
  /\ UNCHANGED <<file, opened, closing, opens, lib, handle, pinned, anchors, instances, destroyed>>

(* What destroying h's contents does to the instance: destroy runs only on *)
(* an owned context, and while h still holds its token.                    *)
Destroyed(h) ==
  IF handle[h].owned /\ handle[h].ctx # 0 THEN [destroyed EXCEPT ![handle[h].ctx] = @ + 1] ELSE destroyed
DestroyLands(h, n) ==
  IF handle[h].owned /\ handle[h].ctx # 0 THEN Landing(Slot("destroy"), n) ELSE landed

(* createHandle assigned to h: create runs, and what h held is destroyed.  *)
(* A create that answers NULL leaves a handle without a context, or, for a *)
(* widget, no handle at all.                                               *)
CreateHandle(h, l) ==
  /\ lib[l] # 0
  /\ instances < MaxInstances
  /\ \E made \in BOOLEAN :
       /\ made \/ file.family # "widget"
       /\ instances' = IF made THEN instances + 1 ELSE instances
       /\ handle' = [handle EXCEPT ![h] = [ctx |-> IF made THEN instances' ELSE 0, owned |-> TRUE,
                                           token |-> lib[l]]]
  /\ destroyed' = Destroyed(h)
  /\ landed' = IF Landing(Slot("create"), opens) # "plugin" THEN Landing(Slot("create"), opens)
               ELSE DestroyLands(h, opens)
  /\ UNCHANGED <<file, opened, closing, lib, pinned, anchors>>
  /\ Close

(* A destructor that gives up the token before it calls destroy.           *)
DestroyHandle_unmapsFirst(h) ==
  /\ handle[h].token # 0
  /\ handle' = [handle EXCEPT ![h] = NoHandle]
  /\ destroyed' = Destroyed(h)
  /\ UNCHANGED <<file, opened, closing, lib, pinned, anchors, instances>>
  /\ Close
  /\ landed' = DestroyLands(h, opens')

(* The destructor; WidgetHandle::reset also drops the context, but keeps   *)
(* the token until the object goes.                                        *)
DestroyHandle(h) ==
  /\ handle[h].token # 0
  /\ handle' = [handle EXCEPT ![h] = NoHandle]
  /\ destroyed' = Destroyed(h)
  /\ landed' = DestroyLands(h, opens)
  /\ UNCHANGED <<file, opened, closing, lib, pinned, anchors, instances>>
  /\ Close

ResetWidget(h) ==
  /\ file.family = "widget"
  /\ handle[h].ctx # 0
  /\ handle' = [handle EXCEPT ![h].ctx = 0]
  /\ destroyed' = Destroyed(h)
  /\ landed' = DestroyLands(h, opens)
  /\ UNCHANGED <<file, opened, closing, opens, lib, pinned, anchors, instances>>

(* Move assignment: a widget handle destroys what it held and takes the    *)
(* source's contents, every other handle swaps with the source.            *)
MoveHandle(g, h) ==
  /\ g # h
  /\ handle[g].token # 0
  /\ handle' = [handle EXCEPT ![h] = handle[g], ![g] = IF file.family = "widget" THEN NoHandle ELSE handle[h]]
  /\ destroyed' = IF file.family = "widget" THEN Destroyed(h) ELSE destroyed
  /\ landed' = IF file.family = "widget" THEN DestroyLands(h, opens) ELSE landed
  /\ UNCHANGED <<file, opened, closing, lib, pinned, anchors, instances>>
  /\ Close

(* DialogHandle::fromBorrowed(h.getDialog(), h.libraryOwner()): g shares   *)
(* the token and never destroys the context.                               *)
BorrowDialog(h, g) ==
  /\ file.family \in {"data_source", "toolbox"}
  /\ handle[h].ctx # 0
  /\ handle[g] = NoHandle
  /\ handle' = [handle EXCEPT ![g] = [handle[h] EXCEPT !.owned = FALSE]]
  /\ landed' = Landing(Slot("get_dialog"), opens)
  /\ UNCHANGED <<file, opened, closing, opens, lib, pinned, anchors, instances, destroyed>>

(* A method of a valid handle that needs slot i.  A borrowed dialog has a  *)
(* vtable of its own, which the plugin's SDK fills completely.             *)
CallPlugin(h, i) ==
  LET name == Slots[i]
      checks == Checks(file.family)
      check == IF name \in DOMAIN checks THEN checks[name] ELSE "none"
      jumps == CASE check = "none" -> TRUE
                 [] check = "slot" -> i \notin file.null
                 [] check = "tail" -> Covered(i) /\ i \notin file.null IN
  /\ handle[h].ctx # 0 /\ handle[h].owned
  /\ name \notin {"create", "destroy"}
  /\ jumps
  /\ landed' = Landing(i, opens)
  /\ UNCHANGED <<file, opened, closing, opens, lib, handle, pinned, anchors, instances, destroyed>>

(* A payload anchor the plugin made: the host keeps libraryOwner() with    *)
(* it, and its release runs plugin code at any later time.                 *)
KeepAnchor(h) ==
  /\ handle[h].ctx # 0
  /\ anchors' = anchors \cup {handle[h].token}
  /\ UNCHANGED <<file, opened, closing, opens, lib, handle, pinned, instances, destroyed, landed>>

ReleaseAnchor(t) ==
  /\ t \in anchors
  /\ landed' = IF Mapped(opens) THEN "plugin" ELSE "unmapped"
  /\ anchors' = anchors \ {t}
  /\ UNCHANGED <<file, opened, closing, lib, handle, pinned, instances, destroyed>>
  /\ Close

Next ==
  \/ \E l \in Libraries : \/ Load(l) \/ LoadFromHandle(l) \/ ResetLibrary(l)
                          \/ \E k \in Libraries : MoveLibrary(k, l)
                          \/ \E h \in Handles : CreateHandle(h, l)
  \/ Inspect
  \/ \E h \in Handles : \/ DestroyHandle(h) \/ ResetWidget(h) \/ KeepAnchor(h)
                        \/ \E g \in Handles : MoveHandle(g, h) \/ BorrowDialog(h, g)
                        \/ \E i \in DOMAIN Slots : CallPlugin(h, i)
  \/ \E t \in Tokens : ReleaseAnchor(t)

Spec == Init /\ [][Next]_plugVars
-----------------------------------------------------------------------------
Owners(c) == {h \in Handles : handle[h].ctx = c /\ handle[h].owned}

(* Every jump into the plugin lands on code: the file is mapped and the    *)
(* slot is one the author really filled, for instances, borrowed dialogs   *)
(* and payload anchors alike, whatever order handles, libraries and        *)
(* anchors are dropped or moved in.  An instance has one owner and is      *)
(* destroyed once, when that owner goes.                                   *)
JumpsLandInPlugin ==
  /\ landed \in {"none", "plugin"}
  /\ \A c \in 1..instances : Cardinality(Owners(c)) + destroyed[c] = 1

(* The native loader's count is the number of tokens somebody holds, plus  *)
(* the widget files nobody may close: no file is closed twice or kept open *)
(* by a rejected load, and an admitted widget file is never closed.        *)
OpensAreAccounted ==
  /\ opens = Cardinality({t \in 1..opened : closing[t] /\ ~Unused(t)})
             + (IF file.native = "opens" THEN Cardinality({t \in 1..opened : ~closing[t]}) ELSE 0)
  /\ pinned # {} => Mapped(opens)

(* Plugin code is there exactly as long as somebody can reach it.          *)
CodeOutlivesItsUsers == JumpsLandInPlugin /\ OpensAreAccounted

=============================================================================
