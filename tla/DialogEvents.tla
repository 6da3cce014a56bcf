---------------------------- MODULE DialogEvents ----------------------------
(***************************************************************************)
(* The events of the dialog protocol.  The host builds one JSON object per *)
(* user action (host/widget_event_builder.hpp), the plugin decodes it      *)
(* (sdk/widget_event.hpp) and DialogPluginTyped dispatches it to one typed *)
(* callback (sdk/dialog_plugin_typed.hpp).  Host and plugin are built from *)
(* different releases: a newer host adds keys, an older plugin knows only  *)
(* the legacy channels, and a writer in another language may get a value   *)
(* wrong.                                                                  *)
(*                                                                         *)
(* A value is its JSON kind, or a path; "bad" is a value of the wrong      *)
(* kind, or an empty id, page or path.                                     *)
(***************************************************************************)
EXTENDS Naturals, FiniteSets, Sequences

CONSTANT Paths   \* what a picker may select

Bad == "bad"
PathsAssumption == {"none", Bad} \cap Paths = {}

Merge(f, g) == [k \in DOMAIN f \cup DOMAIN g |-> IF k \in DOMAIN f THEN f[k] ELSE g[k]]
Payload(keys, kind) == [k \in keys |-> kind]
Builds(keys, kind, handler) == [payload |-> Payload(keys, kind), handler |-> handler]
Adds(event, keys, kind) == [event EXCEPT !.payload = Merge(@, Payload(keys, kind))]

(* A picker result, with the legacy key of its mode when it is Selected    *)
(* and every path is there.                                                *)
FilePickerLegacySelection(result) == IF result.mode = "SelectDirectory" THEN "folder_selected" ELSE "file_selected"

FilePickerResult(result) ==
  LET structured == Payload({"file_picker_result"}, result) IN
  [payload |-> IF result.status = "Selected"
                 THEN Merge(structured, Payload({FilePickerLegacySelection(result)}, result.path))
                 ELSE structured,
   handler |-> "onFilePickerResult"]

PickerResults ==
  [status : {"Selected", "Cancelled", "Unsupported", "Error"}, mode : {"OpenFile", "SelectDirectory"}, path : Paths]

(* WidgetEventBuilder.                                                     *)
WidgetEventBuilder ==
  [ textChanged           |-> Builds({"text"}, "string", "onTextChanged"),
    indexChanged          |-> Builds({"current_index"}, "int", "onIndexChanged"),
    indexChanged_text     |-> Adds(Builds({"current_index"}, "int", "onIndexChanged"), {"current_text"}, "string"),
    toggled               |-> Builds({"checked"}, "bool", "onToggled"),
    valueChanged_int      |-> Builds({"value"}, "int", "onValueChanged_int"),
    valueChanged_double   |-> Builds({"value"}, "float", "onValueChanged_double"),
    selectionChanged      |-> Builds({"selected_items"}, "strings", "onSelectionChanged"),
    clicked               |-> Builds({"clicked"}, "bool", "onClicked"),
    sceneViewError        |-> Builds({"scene_view_error"}, "object", "onSceneViewError"),
    tabChanged            |-> Builds({"tab_index"}, "int", "onTabChanged"),
    stackedPageChanged    |-> Adds(Builds({"stacked_index"}, "int", "onStackedPageChanged"), {"stacked_page"}, "string"),
    treeSelectionChanged  |-> Builds({"tree_selection_changed"}, "strings", "onTreeSelectionChanged"),
    treeItemActivated     |-> Builds({"tree_item_activated"}, "object", "onTreeItemActivated"),
    treeExpansionChanged  |-> Builds({"tree_expansion_changed"}, "object", "onTreeExpansionChanged"),
    treeCheckStateChanged |-> Builds({"tree_check_state_changed"}, "object", "onTreeCheckStateChanged"),
    itemDoubleClicked     |-> Builds({"item_double_clicked_index"}, "int", "onItemDoubleClicked"),
    itemDeleteRequested   |-> Builds({"item_delete_index"}, "int", "onItemDeleteRequested"),
    itemContextAction     |-> Builds({"item_context_action"}, "object", "onItemContextAction"),
    headerClicked         |-> Builds({"header_section"}, "int", "onHeaderClicked"),
    tableRadioSelected    |-> Builds({"table_radio_row"}, "int", "onTableRadioSelected"),
    codeChanged           |-> Builds({"code_changed"}, "string", "onCodeChangedWithCursor"),
    codeChanged_cursor    |-> Adds(Builds({"code_changed"}, "string", "onCodeChangedWithCursor"), {"code_cursor"}, "int"),
    itemsDropped          |-> Builds({"items_dropped"}, "strings", "onDroppedItems"),
    itemsDropped_sources  |-> Adds(Builds({"items_dropped"}, "strings", "onDroppedItems"),
                                   {"items_dropped_data_sources"}, "ints"),
    dateRangeChanged      |-> Builds({"date_from_iso", "date_to_iso"}, "string", "onDateRangeChanged"),
    dateTimeChanged       |-> Builds({"datetime_iso"}, "string", "onDateTimeChanged"),
    rangeChanged          |-> Builds({"range_lower", "range_upper"}, "int", "onRangeChanged"),
    markerTimelineChanged |-> Builds({"marker_timeline_marks"}, "array", "onMarkerTimelineChanged"),
    chartViewChanged      |-> Builds({"chart_x_min", "chart_x_max", "chart_y_min", "chart_y_max"}, "float",
                                     "onChartViewChanged") ]

FileSelected(path) == Builds({"file_selected"}, path, "onFileSelected")
FolderSelected(path) == Builds({"folder_selected"}, path, "onFolderSelected")

(* What the host can send.                                                 *)
Built == {WidgetEventBuilder[b] : b \in DOMAIN WidgetEventBuilder} \cup {FileSelected(p) : p \in Paths}
           \cup {FolderSelected(p) : p \in Paths} \cup {FilePickerResult(r) : r \in PickerResults}
-----------------------------------------------------------------------------
(* WidgetEvent: the accessors of the legacy channels, in the order of the  *)
(* dispatch chain: the keys each needs, the kinds it accepts and the       *)
(* callback.  The first accessor that answers wins.                        *)
Channel(keys, kinds, handler) == [keys |-> keys, kinds |-> kinds, handler |-> handler]

GestureChannels ==
  << Channel({"item_context_action"}, {"object"}, "onItemContextAction"),
     Channel({"chart_x_min", "chart_x_max", "chart_y_min", "chart_y_max"}, {"int", "float"}, "onChartViewChanged"),
     Channel({"range_lower", "range_upper"}, {"int"}, "onRangeChanged"),
     Channel({"marker_timeline_marks"}, {"array"}, "onMarkerTimelineChanged"),
     Channel({"date_from_iso", "date_to_iso"}, {"string"}, "onDateRangeChanged"),
     Channel({"datetime_iso"}, {"string"}, "onDateTimeChanged"),
     Channel({"items_dropped"}, {"strings"}, "onDroppedItems"),
     Channel({"code_changed"}, {"string"}, "onCodeChangedWithCursor") >>

InputChannels ==
  << Channel({"text"}, {"string"}, "onTextChanged"),
     Channel({"current_index"}, {"int"}, "onIndexChanged"),
     Channel({"checked"}, {"bool"}, "onToggled"),
     Channel({"file_selected"}, Paths, "onFileSelected"),
     Channel({"folder_selected"}, Paths, "onFolderSelected"),
     Channel({"clicked"}, {"bool"}, "onClicked"),
     Channel({"selected_items"}, {"strings"}, "onSelectionChanged") >>

IndexChannels ==
  << Channel({"tab_index"}, {"int"}, "onTabChanged"),
     Channel({"item_double_clicked_index"}, {"int"}, "onItemDoubleClicked"),
     Channel({"item_delete_index"}, {"int"}, "onItemDeleteRequested"),
     Channel({"header_section"}, {"int"}, "onHeaderClicked"),
     Channel({"table_radio_row"}, {"int"}, "onTableRadioSelected") >>

ValueChannels ==
  << Channel({"value"}, {"int"}, "onValueChanged_int"),
     Channel({"value"}, {"int", "float"}, "onValueChanged_double") >>

LegacyChain == GestureChannels \o InputChannels \o IndexChannels \o ValueChannels

TreeChannels ==
  {Channel({"tree_selection_changed"}, {"strings"}, "onTreeSelectionChanged"),
   Channel({"tree_item_activated"}, {"object"}, "onTreeItemActivated"),
   Channel({"tree_expansion_changed"}, {"object"}, "onTreeExpansionChanged"),
   Channel({"tree_check_state_changed"}, {"object"}, "onTreeCheckStateChanged")}
TreeKeys == UNION {c.keys : c \in TreeChannels}
StackedKeys == {"stacked_index", "stacked_page"}

Valid(event, c) == \A k \in c.keys : k \in DOMAIN event /\ event[k] \in c.kinds
Dropped == [handler |-> "none", path |-> "none"]
Calls(handler) == [handler |-> handler, path |-> "none"]
CallsWith(handler, path) == [handler |-> handler, path |-> path]

(* The chain of an older plugin, and the tail of today's.                  *)
DispatchLegacy(event) ==
  LET able == {i \in DOMAIN LegacyChain : Valid(event, LegacyChain[i])}
      first == LegacyChain[CHOOSE i \in able : \A j \in able : i <= j]
  IN IF able = {} THEN Dropped
     ELSE IF first.handler \in {"onFileSelected", "onFolderSelected"}
            THEN CallsWith(first.handler, event[CHOOSE k \in first.keys : TRUE])
            ELSE Calls(first.handler)

(* onFilePickerResult, not overridden: one legacy callback, by the mode.   *)
OnFilePickerResult(result) ==
  IF result.status # "Selected" THEN Calls("onFilePickerResult")
  ELSE CallsWith(IF result.mode = "SelectDirectory" THEN "onFolderSelected" ELSE "onFileSelected", result.path)

(* The structured picker: a legacy co-key must be the one of the mode and  *)
(* carry the same path; a result that selected nothing has none.           *)
DispatchPicker(event) ==
  LET result == event["file_picker_result"]
      legacy == DOMAIN event \cap {"file_selected", "folder_selected"}
      agrees == IF result.status = "Selected"
                  THEN \/ legacy = {}
                       \/ legacy = {FilePickerLegacySelection(result)} /\ \A k \in legacy : event[k] = result.path
                  ELSE legacy = {}
  IN IF result.status # Bad /\ agrees THEN OnFilePickerResult(result) ELSE Dropped

(* A dispatcher that takes a tree key out of a mixed event.                *)
DispatchTree_mixed(event) ==
  LET named == {c \in TreeChannels : Valid(event, c)} IN
  IF named # {} THEN Calls((CHOOSE c \in named : TRUE).handler) ELSE Dropped

DispatchTree(event) ==
  LET named == {c \in TreeChannels : Valid(event, c)} IN
  IF Cardinality(DOMAIN event) = 1 /\ named # {} THEN Calls((CHOOSE c \in named : TRUE).handler) ELSE Dropped

DispatchStacked(event) ==
  IF Valid(event, Channel({"stacked_index"}, {"int"}, "")) /\ Valid(event, Channel({"stacked_page"}, {"string"}, ""))
    THEN Calls("onStackedPageChanged") ELSE Dropped

(* DialogPluginTyped::onWidgetEvent: each channel claims the event by the  *)
(* presence of its keys.                                                   *)
OnWidgetEvent(event) ==
  CASE "file_picker_result" \in DOMAIN event -> DispatchPicker(event)
    [] /\ "file_picker_result" \notin DOMAIN event
       /\ "scene_view_error" \in DOMAIN event ->
         IF event["scene_view_error"] = "object" THEN Calls("onSceneViewError") ELSE Dropped
    [] /\ {"file_picker_result", "scene_view_error"} \cap DOMAIN event = {}
       /\ TreeKeys \cap DOMAIN event # {} -> DispatchTree(event)
    [] /\ ({"file_picker_result", "scene_view_error"} \cup TreeKeys) \cap DOMAIN event = {}
       /\ StackedKeys \cap DOMAIN event # {} -> DispatchStacked(event)
    [] OTHER -> DispatchLegacy(event)
-----------------------------------------------------------------------------
VARIABLES
  action,   \* the user action: what the host's builder was asked for
  event,    \* the JSON object on its way to the plugin
  damage,   \* what happened to it: "none", "bad" (a wrong value), "mixed" (keys of a second channel)
  outcome   \* the callbacks it reached, in order; <<>> before the dispatch

eventVars == <<action, event, damage, outcome>>

Fresh ==
  /\ event = action.payload
  /\ damage = "none"
  /\ outcome = <<>>

Init == action \in Built /\ Fresh

(* A writer that gets one value wrong.                                     *)
WrongValue(k) ==
  /\ outcome = <<>> /\ damage = "none"
  /\ event' = [event EXCEPT ![k] = IF k = "file_picker_result" THEN [@ EXCEPT !.status = Bad] ELSE Bad]
  /\ damage' = "bad"
  /\ UNCHANGED <<action, outcome>>

(* A host that puts the keys of another channel beside the action's own.   *)
MixIn(other) ==
  /\ outcome = <<>> /\ damage = "none"
  /\ event' = Merge(event, other.payload)
  /\ event' # event
  /\ damage' = "mixed"
  /\ UNCHANGED <<action, outcome>>

(* Today's plugin, and one built before the structured channels.           *)
Dispatch ==
  /\ outcome = <<>>
  /\ outcome' = << OnWidgetEvent(event), DispatchLegacy(event) >>
  /\ UNCHANGED <<action, event, damage>>

(* The next user action.                                                   *)
Again ==
  /\ outcome # <<>>
  /\ outcome' = <<>>
  /\ event' = action.payload
  /\ damage' = "none"
  /\ UNCHANGED action

Next ==
  \/ \E k \in DOMAIN event : WrongValue(k)
  \/ \E other \in Built : MixIn(other)
  \/ Dispatch
  \/ Again

Spec == Init /\ [][Next]_eventVars
-----------------------------------------------------------------------------
(* The channels, highest priority first.                                   *)
Priority == <<{"file_picker_result"}, {"scene_view_error"}, TreeKeys, StackedKeys>>
HandlersOf ==
  << {"onFilePickerResult", "onFileSelected", "onFolderSelected"}, {"onSceneViewError"},
     {c.handler : c \in TreeChannels}, {"onStackedPageChanged"} >>
Claimed(keys) ==
  \E i \in DOMAIN Priority :
    /\ Priority[i] = keys
    /\ keys \cap DOMAIN event # {}
    /\ \A j \in 1..i - 1 : Priority[j] \cap DOMAIN event = {}
New == outcome[1]
Old == outcome[2]

(* An event the builder made reaches the callback of the action that made  *)
(* it; a damaged one never falls through to a channel below the one that   *)
(* claims it, and a tree event that carries anything else reaches nothing  *)
(* ("A present higher-priority channel claims the event; if that channel   *)
(* is malformed, dispatch returns false without falling through",          *)
(* docs/dialog-sdk-reference.md).  A selection reaches the same callback,  *)
(* with the same path, in a plugin built before the structured picker.     *)
EventsReachTheirHandler ==
  outcome # <<>> =>
    /\ damage = "none" =>
         \/ New.handler = action.handler
         \/ action.handler = "onFilePickerResult" /\ New.path # "none" /\ New = Old
    /\ \A i \in DOMAIN Priority : Claimed(Priority[i]) => New.handler \in HandlersOf[i] \cup {"none"}
    /\ Claimed(TreeKeys) /\ Cardinality(DOMAIN event) > 1 => New = Dropped
    /\ "file_picker_result" \in DOMAIN event /\ New.path # "none" => Old \in {New, Dropped} \/ damage = "mixed"

=============================================================================
