----------------------------- MODULE HostTables -----------------------------
(***************************************************************************)
(* The services a host offers its plugins.  Per service, the slots in      *)
(* vtable order (pj_base/plugin_data_api.h, a C header) and, per slot, the *)
(* check the plugin's view makes before it jumps and what it answers when  *)
(* the check fails (pj_base/sdk/plugin_data_api.hpp, its C++ side).        *)
(***************************************************************************)
EXTENDS Sequences

(* The checks: "bound" tests ctx and vtable only, "slot" also tests the    *)
(* pointer, "tail" tests struct_size and then the pointer, "argument"      *)
(* evaluates the pointer first, as an argument of hasTailSlot, and then    *)
(* tests both.                                                             *)
Guards == {"bound", "slot", "tail", "argument"}

(* The answers of a view whose check failed: an error, a value that reads  *)
(* as "nothing there", or nothing (a method that returns void).            *)
Answers == {"error", "empty", "void"}

(***************************************************************************)
(* The vtables, in slot order; the first "v1" slots are served by every    *)
(* host that registers the service, the others were appended later.        *)
(***************************************************************************)
Vtable(v1, slots) == [v1 |-> v1, slots |-> slots]

PJ_source_write_host_vtable ==
  Vtable(4, <<"ensure_topic", "ensure_field", "append_record", "append_bound_record", "append_arrow_stream">>)

PJ_parser_write_host_vtable ==
  Vtable(3, <<"ensure_field", "append_record", "append_bound_record", "append_arrow_stream">>)

PJ_parser_runtime_host_vtable == Vtable(0, <<"report_diagnostic">>)

PJ_toolbox_host_vtable ==
  Vtable(5, <<"create_data_source", "ensure_topic", "ensure_field", "append_record", "append_bound_record",
              "append_arrow_stream", "acquire_catalog_snapshot", "read_series_arrow", "register_object_topic",
              "push_owned_object", "register_object_topic_on_dataset", "set_object_topic_retention",
              "acquire_catalog_snapshot_v2">>)

PJ_object_write_host_vtable == Vtable(4, <<"register_topic", "push_owned", "push_lazy", "set_retention_budget">>)

PJ_parser_object_write_host_vtable == Vtable(2, <<"push_owned", "push_lazy">>)

PJ_object_read_host_vtable ==
  Vtable(8, <<"lookup_topic", "list_topics", "topic_metadata", "read_latest_at", "get_bytes", "release_bytes",
              "entry_count", "time_range", "lookup_topic_on_dataset">>)

PJ_colormap_registry_vtable == Vtable(2, <<"register_map", "unregister_map">>)

data_processors_appended ==
  <<"create_data_processor_v2", "submit_evaluation", "poll_evaluation", "release_evaluation",
    "check_data_processor_script">>

PJ_data_processors_host_vtable ==
  Vtable(4, <<"create_data_processor", "remove_data_processor", "list_data_processor_ids", "data_processor_config",
              "validate_data_processor_script">> \o data_processors_appended)

PJ_settings_store_vtable ==
  Vtable(6, <<"get_string", "set_string", "get_string_list", "set_string_list", "contains", "remove_key">>)

PJ_feature_catalog_vtable == Vtable(1, <<"get_feature_catalog">>)

PJ_playback_host_vtable ==
  Vtable(6, <<"play", "pause", "seek", "set_playback_rate", "get_state", "to_display_time",
              "to_display_time_for_source">>)

PJ_viewport_host_vtable == Vtable(2, <<"zoom_to_time_range", "zoom_reset">>)

PJ_plot_tab_host_vtable ==
  Vtable(7, <<"create_tab", "close_tab", "list_tab_ids", "tab_config", "add_curve", "remove_curve", "clear_tab",
              "create_tab_v2", "attach_topic", "detach_topic", "focus_tab">>)

runtime_appended ==
  <<"push_message", "notify_available_topics", "attach_source_record", "complete_ingest", "set_dataset_metadata">>

PJ_data_source_runtime_host_vtable ==
  Vtable(10, <<"report_message", "progress_start", "progress_update", "progress_finish", "is_stop_requested",
               "notify_state", "request_stop", "ensure_parser_binding", "show_message_box",
               "list_available_encodings">> \o runtime_appended)

(***************************************************************************)
(* The views: the check each method makes before it jumps through a slot   *)
(* and its answer when the check fails.                                    *)
(***************************************************************************)
\* The methods of one view and then those of another.
f ++ g == [s \in DOMAIN f \cup DOMAIN g |-> IF s \in DOMAIN f THEN f[s] ELSE g[s]]

EachSlot(slots, guard, answer) == [s \in slots |-> [guard |-> guard, absent |-> answer]]

SourceWriteHostView ==
  EachSlot({"ensure_topic", "ensure_field", "append_record", "append_bound_record"}, "bound", "error")
    ++ EachSlot({"append_arrow_stream"}, "tail", "error")

ParserWriteHostView ==
  EachSlot({"ensure_field", "append_record", "append_bound_record"}, "bound", "error")
    ++ EachSlot({"append_arrow_stream"}, "tail", "error")

ParserRuntimeHostView == EachSlot({"report_diagnostic"}, "tail", "void")

ToolboxObjectReadHostView ==
  EachSlot({"lookup_topic", "topic_metadata", "entry_count", "time_range"}, "slot", "empty")
    ++ EachSlot({"list_topics", "read_latest_at"}, "slot", "error")
    ++ EachSlot({"lookup_topic_on_dataset"}, "tail", "empty")

ObjectBytes == EachSlot({"get_bytes"}, "slot", "empty") ++ EachSlot({"release_bytes"}, "slot", "void")

SourceObjectWriteHostView ==
  EachSlot({"register_topic", "push_owned", "push_lazy"}, "bound", "error")
    ++ EachSlot({"set_retention_budget"}, "bound", "void")

ParserObjectWriteHostView == EachSlot({"push_owned", "push_lazy"}, "bound", "error")

ToolboxWrites ==
  EachSlot({"create_data_source", "ensure_topic", "ensure_field", "append_record", "append_bound_record"},
       "bound", "error")
    ++ EachSlot({"append_arrow_stream"}, "tail", "error")

ToolboxReads ==
  EachSlot({"acquire_catalog_snapshot", "acquire_catalog_snapshot_v2", "read_series_arrow"}, "tail", "error")

ToolboxObjects ==
  EachSlot({"register_object_topic", "push_owned_object", "register_object_topic_on_dataset",
        "set_object_topic_retention"}, "argument", "error")

ColorMapRegistryView == EachSlot({"register_map", "unregister_map"}, "slot", "error")

DataProcessorsV1 ==
  EachSlot({"create_data_processor", "remove_data_processor", "list_data_processor_ids", "data_processor_config"},
       "slot", "error")

DataProcessorsTail ==
  EachSlot({"validate_data_processor_script", "create_data_processor_v2", "submit_evaluation", "poll_evaluation",
        "release_evaluation", "check_data_processor_script"}, "tail", "error")

PlaybackHostView ==
  EachSlot({"play", "pause", "seek", "set_playback_rate", "get_state", "to_display_time"}, "slot", "error")
    ++ EachSlot({"to_display_time_for_source"}, "tail", "error")

ViewportHostView == EachSlot({"zoom_to_time_range", "zoom_reset"}, "slot", "error")

PlotTabCurves ==
  EachSlot({"create_tab", "close_tab", "list_tab_ids", "tab_config", "add_curve", "remove_curve", "clear_tab"},
       "slot", "error")

(* A view that forgets that these slots were appended.                     *)
PlotTabScenes_slot == EachSlot({"create_tab_v2", "attach_topic", "detach_topic", "focus_tab"}, "slot", "error")

PlotTabScenes == EachSlot({"create_tab_v2", "attach_topic", "detach_topic", "focus_tab"}, "tail", "error")

SettingsWrites == EachSlot({"set_string", "set_string_list", "remove_key"}, "slot", "error")

SettingsReads == EachSlot({"get_string", "get_string_list", "contains"}, "slot", "empty")

FeatureCatalogView == EachSlot({"get_feature_catalog"}, "slot", "error")

RuntimeSignals ==
  EachSlot({"report_message", "progress_finish", "notify_state", "request_stop"}, "slot", "void")
    ++ EachSlot({"progress_update", "is_stop_requested", "list_available_encodings", "show_message_box"},
            "slot", "empty")
    ++ EachSlot({"progress_start", "ensure_parser_binding"}, "slot", "error")

RuntimePushMessage == EachSlot({"push_message"}, "tail", "error")

RuntimeDatasets ==
  EachSlot({"notify_available_topics", "attach_source_record", "complete_ingest", "set_dataset_metadata"},
       "tail", "error")

(***************************************************************************)
(* The services a plugin can ask for, by their traits: the vtable behind   *)
(* the name, the view over it, and the lowest version the view accepts.    *)
(***************************************************************************)
Trait(vtable, view) == [v1 |-> vtable.v1, slots |-> vtable.slots, view |-> view, kMinVersion |-> 1]

Services ==
  [ source_write        |-> Trait(PJ_source_write_host_vtable, SourceWriteHostView),
    parser_write        |-> Trait(PJ_parser_write_host_vtable, ParserWriteHostView),
    parser_runtime      |-> Trait(PJ_parser_runtime_host_vtable, ParserRuntimeHostView),
    toolbox_write       |-> Trait(PJ_toolbox_host_vtable, ToolboxWrites ++ ToolboxReads ++ ToolboxObjects),
    source_object_write |-> Trait(PJ_object_write_host_vtable, SourceObjectWriteHostView),
    parser_object_write |-> Trait(PJ_parser_object_write_host_vtable, ParserObjectWriteHostView),
    toolbox_object_read |-> Trait(PJ_object_read_host_vtable, ToolboxObjectReadHostView ++ ObjectBytes),
    colormap            |-> Trait(PJ_colormap_registry_vtable, ColorMapRegistryView),
    data_processors     |-> Trait(PJ_data_processors_host_vtable, DataProcessorsV1 ++ DataProcessorsTail),
    playback            |-> Trait(PJ_playback_host_vtable, PlaybackHostView),
    viewport            |-> Trait(PJ_viewport_host_vtable, ViewportHostView),
    plot_tabs           |-> Trait(PJ_plot_tab_host_vtable, PlotTabCurves ++ PlotTabScenes),
    settings            |-> Trait(PJ_settings_store_vtable, SettingsWrites ++ SettingsReads),
    feature_catalog     |-> Trait(PJ_feature_catalog_vtable, FeatureCatalogView),
    runtime             |-> Trait(PJ_data_source_runtime_host_vtable,
                                  RuntimeSignals ++ RuntimePushMessage ++ RuntimeDatasets) ]
=============================================================================
