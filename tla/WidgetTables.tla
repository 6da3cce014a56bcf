---------------------------- MODULE WidgetTables ----------------------------
(***************************************************************************)
(* The keys of a widget's JSON entry: what each setter of WidgetData (sdk/ *)
(* widget_data.hpp) writes and erases, and what each accessor of           *)
(* WidgetDataView (host/widget_data_view.hpp) reads.                       *)
(***************************************************************************)
(* The keys of f and of g, with the values of f where both have one.       *)
Merge(f, g) == [k \in DOMAIN f \cup DOMAIN g |-> IF k \in DOMAIN f THEN f[k] ELSE g[k]]

(* The rows of a set of tables, as one table.                              *)
Joined(tables) ==
  [r \in UNION {DOMAIN t : t \in tables} |-> (CHOOSE t \in tables : r \in DOMAIN t)[r]]

(* A setter: the keys it assigns, with the JSON kind of the value, and the *)
(* keys it erases.                                                         *)
Sets(keys, kind) == [put |-> [k \in keys |-> kind], erase |-> {}]
And(s, t) == [put |-> Merge(s.put, t.put), erase |-> s.erase \cup t.erase]
Erases(keys) == [put |-> <<>>, erase |-> keys]

SetInputs ==
  [ setText           |-> Sets({"text"}, "string"),
    setPlaceholder    |-> Sets({"placeholder"}, "string"),
    setReadOnly       |-> Sets({"read_only"}, "bool"),
    setCurrentIndex   |-> Sets({"current_index"}, "int"),
    setItems          |-> Sets({"items"}, "strings"),
    setChecked        |-> Sets({"checked"}, "bool"),
    setValue_int      |-> Sets({"value"}, "int"),
    setValue_double   |-> Sets({"value"}, "float"),
    setRange          |-> Sets({"min", "max"}, "int") ]

SetLists ==
  [ setListItems          |-> Sets({"list_items"}, "strings"),
    setSelectedItems      |-> Sets({"selected_items"}, "strings"),
    setListItemColors     |-> Sets({"list_item_colors"}, "strings"),
    setListItemsDeletable |-> Sets({"list_deletable"}, "bool"),
    setListItemsDisabled  |-> Sets({"list_disabled_items"}, "strings"),
    setListSelectionMode  |-> Sets({"list_multi_select"}, "bool"),
    setListPlaceholder    |-> Sets({"list_placeholder"}, "string") ]

(* A typed or plain setTableRows that leaves the old sort keys behind.     *)
SetTables_stale ==
  [ setTableHeaders       |-> Sets({"headers"}, "strings"),
    setTableRows          |-> Sets({"rows"}, "rows"),
    setTableRows_typed    |-> And(Sets({"rows"}, "rows"), Sets({"column_values"}, "object")),
    setTableRows_keyless  |-> Sets({"rows"}, "rows") ]

(* Rows without sort keys drop the keys of an earlier typed call, and so   *)
(* do typed rows of which no cell has a key.                               *)
SetTables ==
  [ setTableHeaders       |-> Sets({"headers"}, "strings"),
    setTableRows          |-> And(Sets({"rows"}, "rows"), Erases({"column_values"})),
    setTableRows_typed    |-> And(Sets({"rows"}, "rows"), Sets({"column_values"}, "object")),
    setTableRows_keyless  |-> And(Sets({"rows"}, "rows"), Erases({"column_values"})),
    setTableSortIndicator |-> Sets({"sort_indicator"}, "object"),
    setSelectedRows       |-> Sets({"selected_rows"}, "ints"),
    setDisabledRows       |-> Sets({"disabled_rows"}, "ints"),
    setVisibleRows        |-> Sets({"visible_rows"}, "ints"),
    clearVisibleRows      |-> Sets({"visible_rows"}, "null"),
    setRowColor           |-> Sets({"row_colors"}, "object"),
    setCellTooltip        |-> Sets({"cell_tooltips"}, "object"),
    setTableRadioColumn   |-> Sets({"radio_column", "radio_checked_row"}, "int") ]

SetTrees ==
  [ setTreeHeaders       |-> Sets({"tree_headers"}, "strings"),
    setTreeItems         |-> Sets({"tree_items"}, "items"),
    setTreeSelectedIds   |-> Sets({"tree_selected_ids"}, "strings"),
    setTreeExpandedIds   |-> Sets({"tree_expanded_ids"}, "strings"),
    setTreeVisibleIds    |-> Sets({"tree_visible_ids"}, "strings"),
    clearTreeVisibleIds  |-> Sets({"tree_visible_ids"}, "null"),
    setTreeSelectionMode |-> Sets({"tree_multi_selection"}, "bool") ]

SetCharts ==
  [ setChartSeries      |-> Sets({"chart_series"}, "series"),
    setChartMarkers     |-> Sets({"chart_markers"}, "markers"),
    clearChart          |-> Sets({"chart_series", "chart_markers"}, "empty"),
    setChartZoomEnabled |-> Sets({"chart_zoom_enabled"}, "bool"),
    setChartAutoZoom    |-> Sets({"chart_auto_zoom"}, "bool"),
    setChartPlaceholder |-> Sets({"chart_placeholder"}, "string"),
    setSceneView        |-> Sets({"scene_view"}, "object"),
    clearSceneView      |-> Sets({"scene_view"}, "null") ]

SetTexts ==
  [ setPlainText         |-> Sets({"plain_text"}, "string"),
    setCodeContent       |-> Sets({"code_content"}, "string"),
    setCodeLanguage      |-> Sets({"code_language"}, "string"),
    setCodeCursor        |-> Sets({"code_cursor"}, "int"),
    setCodeCaretTracking |-> Sets({"code_caret_tracking"}, "bool"),
    setLabel             |-> Sets({"label"}, "string"),
    setButtonText        |-> Sets({"button_text"}, "string"),
    setButtonIcon        |-> Sets({"button_icon_svg"}, "string"),
    setButtonIconNamed   |-> Sets({"button_icon_name"}, "string"),
    setShortcut          |-> Sets({"shortcut"}, "string") ]

(* The pickers.  The value of "action" names the dialog, so its kind does  *)
(* here; the structured picker writes the closest legacy action beside its *)
(* own object and clears what that action does not use.                    *)
LegacyPicker(action, keys) == And(Sets({"button_text", "title"} \cup keys, "string"), Sets({"action"}, action))
StructuredPicker(action, keys, stale) ==
  And(And(LegacyPicker(action, keys), Sets({"file_picker"}, action)), Erases(stale))

SetPickers ==
  [ setFilePicker           |-> LegacyPicker("file_picker", {"filter"}),
    setSaveFilePicker       |-> LegacyPicker("save_file_picker", {"filter", "default_suffix"}),
    setFolderPicker         |-> LegacyPicker("folder_picker", {}),
    setFilePicker_Open      |-> StructuredPicker("file_picker", {"filter"}, {"default_suffix"}),
    setFilePicker_Save      |-> StructuredPicker("save_file_picker", {"filter", "default_suffix"}, {}),
    setFilePicker_Directory |-> StructuredPicker("folder_picker", {}, {"filter", "default_suffix"}) ]

SetTimes ==
  [ setDateTime               |-> Sets({"datetime"}, "string"),
    setDateTimeRange          |-> Sets({"datetime_min", "datetime_max"}, "string"),
    setDateRangePlaceholder   |-> Sets({"date_range_earliest", "date_range_latest"}, "string"),
    setRangeSliderBounds      |-> Sets({"range_min", "range_max"}, "int"),
    setRangeSliderValues      |-> Sets({"range_lower", "range_upper"}, "int"),
    setRangeSliderTimeSpan    |-> Sets({"range_time_min_ns", "range_time_max_ns"}, "string"),
    setRangeSliderMarkers     |-> Sets({"range_markers"}, "markers"),
    setMarkerTimelineBounds   |-> Sets({"marker_timeline_min", "marker_timeline_max"}, "int"),
    setMarkerTimelineMarks    |-> Sets({"marker_timeline_marks"}, "markers"),
    setMarkerTimelineTimeSpan |-> Sets({"marker_timeline_time_min_ns", "marker_timeline_time_max_ns"}, "string") ]

SetStates ==
  [ setFieldValid   |-> And(Sets({"valid"}, "bool"), Sets({"valid_tooltip"}, "string")),
    setOkEnabled    |-> Sets({"ok_enabled"}, "bool"),
    setTabIndex     |-> Sets({"tab_index"}, "int"),
    setStackedPage  |-> Sets({"stacked_page"}, "string"),
    setStackedIndex |-> Sets({"stacked_index"}, "int"),
    setEnabled      |-> Sets({"enabled"}, "bool"),
    setVisible      |-> Sets({"visible"}, "bool"),
    setDropTarget   |-> Sets({"drop_target"}, "bool") ]

SetRequests ==
  [ requestAccept    |-> Sets({"__request_accept"}, "bool"),
    requestSubDialog |-> Sets({"__request_sub_dialog"}, "object"),
    requestSubPanel  |-> Sets({"__request_sub_panel"}, "object"),
    closeSubPanel    |-> Sets({"__request_sub_panel_close"}, "bool"),
    requestClose     |-> Sets({"__request_close"}, "string") ]

SetterTables ==
  {SetInputs, SetLists, SetTables, SetTrees, SetCharts, SetTexts, SetPickers, SetTimes, SetStates, SetRequests}
Setters == Joined(SetterTables)
-----------------------------------------------------------------------------
(* An accessor: the keys it reads, the JSON kinds it accepts for them (any *)
(* other kind reads as "not set"), the setters it reports and the setters  *)
(* that withdraw what it reported.  It answers only when all its keys are  *)
(* there and speak of one call.                                            *)
Reads(keys, kinds, setters) == [keys |-> keys, kinds |-> kinds, reports |-> setters, withdraws |-> {}]
Until(accessor, setters) == [accessor EXCEPT !.withdraws = setters]

getString(key, setter) == Reads({key}, {"string"}, {setter})
getInt(key, setter) == Reads({key}, {"int"}, {setter})
getBool(key, setter) == Reads({key}, {"bool"}, {setter})
getStringArray(key, setter) == Reads({key}, {"strings"}, {setter})
getObject(key, setter) == Reads({key}, {"object"}, {setter})

GetInputs ==
  [ text         |-> getString("text", "setText"),
    placeholder  |-> getString("placeholder", "setPlaceholder"),
    readOnly     |-> getBool("read_only", "setReadOnly"),
    currentIndex |-> getInt("current_index", "setCurrentIndex"),
    items        |-> getStringArray("items", "setItems"),
    checked      |-> getBool("checked", "setChecked"),
    valueInt     |-> Until(getInt("value", "setValue_int"), {"setValue_double"}),
    valueDouble  |-> Reads({"value"}, {"int", "float"}, {"setValue_int", "setValue_double"}),
    rangeMin     |-> getInt("min", "setRange"),
    rangeMax     |-> getInt("max", "setRange") ]

GetLists ==
  [ listItems         |-> getStringArray("list_items", "setListItems"),
    selectedItems     |-> getStringArray("selected_items", "setSelectedItems"),
    listDeletable     |-> getBool("list_deletable", "setListItemsDeletable"),
    listPlaceholder   |-> getString("list_placeholder", "setListPlaceholder"),
    listItemColors    |-> getStringArray("list_item_colors", "setListItemColors"),
    listDisabledItems |-> getStringArray("list_disabled_items", "setListItemsDisabled"),
    listMultiSelect   |-> getBool("list_multi_select", "setListSelectionMode") ]

GetTables ==
  [ tableHeaders         |-> getStringArray("headers", "setTableHeaders"),
    tableRows            |-> Reads({"rows"}, {"rows"}, {"setTableRows", "setTableRows_typed", "setTableRows_keyless"}),
    tableColumnValues    |-> Until(Reads({"rows", "column_values"}, {"rows", "object"}, {"setTableRows_typed"}),
                                   {"setTableRows", "setTableRows_keyless"}),
    tableSortIndicator   |-> getObject("sort_indicator", "setTableSortIndicator"),
    tableRadioColumn     |-> getInt("radio_column", "setTableRadioColumn"),
    tableRadioCheckedRow |-> getInt("radio_checked_row", "setTableRadioColumn") ]

GetRowSets ==
  [ selectedRows |-> Reads({"selected_rows"}, {"ints"}, {"setSelectedRows"}),
    disabledRows |-> Reads({"disabled_rows"}, {"ints"}, {"setDisabledRows"}) ]

GetRowStyles ==
  [ visibleRows  |-> Until(Reads({"visible_rows"}, {"ints"}, {"setVisibleRows"}), {"clearVisibleRows"}),
    rowColors    |-> getObject("row_colors", "setRowColor"),
    cellTooltips |-> getObject("cell_tooltips", "setCellTooltip") ]

GetTrees ==
  [ treeHeaders          |-> getStringArray("tree_headers", "setTreeHeaders"),
    treeItems            |-> Reads({"tree_items"}, {"items"}, {"setTreeItems"}),
    treeSelectedIds      |-> getStringArray("tree_selected_ids", "setTreeSelectedIds"),
    treeExpandedIds      |-> getStringArray("tree_expanded_ids", "setTreeExpandedIds"),
    treeVisibilityUpdate |-> Reads({"tree_visible_ids"}, {"strings", "null"}, {"setTreeVisibleIds", "clearTreeVisibleIds"}),
    treeMultiSelection   |-> getBool("tree_multi_selection", "setTreeSelectionMode") ]

GetCharts ==
  [ chartSeries      |-> Reads({"chart_series"}, {"series", "empty"}, {"setChartSeries", "clearChart"}),
    chartMarkers     |-> Reads({"chart_markers"}, {"markers", "empty"}, {"setChartMarkers", "clearChart"}),
    chartZoomEnabled |-> getBool("chart_zoom_enabled", "setChartZoomEnabled"),
    chartAutoZoom    |-> getBool("chart_auto_zoom", "setChartAutoZoom"),
    chartPlaceholder |-> getString("chart_placeholder", "setChartPlaceholder"),
    sceneView        |-> Reads({"scene_view"}, {"object", "null"}, {"setSceneView", "clearSceneView"}) ]

GetTexts ==
  [ plainText         |-> getString("plain_text", "setPlainText"),
    codeContent       |-> getString("code_content", "setCodeContent"),
    codeLanguage      |-> getString("code_language", "setCodeLanguage"),
    codeCursor        |-> getInt("code_cursor", "setCodeCursor"),
    codeCaretTracking |-> getBool("code_caret_tracking", "setCodeCaretTracking"),
    label             |-> getString("label", "setLabel"),
    buttonText        |-> Reads({"button_text"}, {"string"}, {"setButtonText"} \cup DOMAIN SetPickers),
    buttonIconSvg     |-> getString("button_icon_svg", "setButtonIcon"),
    buttonIconName    |-> getString("button_icon_name", "setButtonIconNamed"),
    shortcut          |-> getString("shortcut", "setShortcut") ]

(* The pickers a host sees: one that reads the structured object, and one  *)
(* that knows only the action.  A legacy setter after a structured one     *)
(* leaves the object in place, so filePickerOptions keeps reporting it.    *)
Others(setters) == DOMAIN SetPickers \ setters
Action(kind, setters) == Until(Reads({"action"}, {kind}, setters), Others(setters))
Structured(kind, setter) ==
  Until(Reads({"file_picker"}, {kind}, {setter}),
        {"setFilePicker_Open", "setFilePicker_Save", "setFilePicker_Directory"} \ {setter})

GetPickers ==
  [ isFilePicker                |-> Action("file_picker", {"setFilePicker", "setFilePicker_Open"}),
    isSaveFilePicker            |-> Action("save_file_picker", {"setSaveFilePicker", "setFilePicker_Save"}),
    isFolderPicker              |-> Action("folder_picker", {"setFolderPicker", "setFilePicker_Directory"}),
    filePickerTitle             |-> Reads({"title"}, {"string"}, DOMAIN SetPickers),
    filePickerOptions_Open      |-> Structured("file_picker", "setFilePicker_Open"),
    filePickerOptions_Save      |-> Structured("save_file_picker", "setFilePicker_Save"),
    filePickerOptions_Directory |-> Structured("folder_picker", "setFilePicker_Directory"),
    filePickerFilter            |-> Until(Reads({"filter"}, {"string"},
                                                {"setFilePicker", "setSaveFilePicker", "setFilePicker_Open",
                                                 "setFilePicker_Save"}), {"setFilePicker_Directory"}),
    saveFilePickerDefaultSuffix |-> Until(Reads({"default_suffix"}, {"string"},
                                                {"setSaveFilePicker", "setFilePicker_Save"}),
                                          {"setFilePicker_Open", "setFilePicker_Directory"}) ]

GetTimes ==
  [ dateTime               |-> getString("datetime", "setDateTime"),
    dateTimeRange          |-> Reads({"datetime_min", "datetime_max"}, {"string"}, {"setDateTimeRange"}),
    dateRangeEarliest      |-> getString("date_range_earliest", "setDateRangePlaceholder"),
    dateRangeLatest        |-> getString("date_range_latest", "setDateRangePlaceholder"),
    rangeSliderMin         |-> getInt("range_min", "setRangeSliderBounds"),
    rangeSliderMax         |-> getInt("range_max", "setRangeSliderBounds"),
    rangeSliderLower       |-> getInt("range_lower", "setRangeSliderValues"),
    rangeSliderUpper       |-> getInt("range_upper", "setRangeSliderValues"),
    rangeSliderTimeSpan    |-> Reads({"range_time_min_ns", "range_time_max_ns"}, {"string"}, {"setRangeSliderTimeSpan"}),
    rangeSliderMarkers     |-> Reads({"range_markers"}, {"markers"}, {"setRangeSliderMarkers"}),
    markerTimelineMin      |-> getInt("marker_timeline_min", "setMarkerTimelineBounds"),
    markerTimelineMax      |-> getInt("marker_timeline_max", "setMarkerTimelineBounds"),
    markerTimelineMarks    |-> Reads({"marker_timeline_marks"}, {"markers"}, {"setMarkerTimelineMarks"}),
    markerTimelineTimeSpan |-> Reads({"marker_timeline_time_min_ns", "marker_timeline_time_max_ns"}, {"string"},
                                     {"setMarkerTimelineTimeSpan"}) ]

GetStates ==
  [ fieldValid        |-> getBool("valid", "setFieldValid"),
    fieldValidTooltip |-> getString("valid_tooltip", "setFieldValid"),
    okEnabled         |-> getBool("ok_enabled", "setOkEnabled"),
    tabIndex          |-> getInt("tab_index", "setTabIndex"),
    stackedPage       |-> getString("stacked_page", "setStackedPage"),
    stackedIndex      |-> getInt("stacked_index", "setStackedIndex"),
    enabled           |-> getBool("enabled", "setEnabled"),
    visible           |-> getBool("visible", "setVisible"),
    isDropTarget      |-> getBool("drop_target", "setDropTarget") ]

GetRequests ==
  [ requestAccept |-> getBool("__request_accept", "requestAccept"),
    subDialogUi   |-> getObject("__request_sub_dialog", "requestSubDialog"),
    subPanelUi    |-> getObject("__request_sub_panel", "requestSubPanel"),
    subPanelClose |-> getBool("__request_sub_panel_close", "closeSubPanel"),
    requestClose  |-> getString("__request_close", "requestClose") ]

AccessorTables ==
  {GetInputs, GetLists, GetTables, GetRowSets, GetRowStyles, GetTrees, GetCharts, GetTexts, GetPickers, GetTimes,
   GetStates, GetRequests}
Accessors == Joined(AccessorTables)
=============================================================================
