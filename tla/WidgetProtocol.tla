--------------------------- MODULE WidgetProtocol ---------------------------
(***************************************************************************)
(* The widget document of the dialog protocol.  A plugin describes the     *)
(* state of each widget with the setters of WidgetData (sdk/               *)
(* widget_data.hpp); the document crosses the boundary as JSON and the     *)
(* host reads it with the accessors of WidgetDataView (host/               *)
(* widget_data_view.hpp).  The two headers meet only in the names and the  *)
(* JSON kinds of the keys, the tables of WidgetTables.                     *)
(*                                                                         *)
(* Widgets are independent of each other (entry(name)), so one widget is   *)
(* enough, and a behaviour watches one accessor: the setters that touch no *)
(* key it reads are left out of that behaviour.                            *)
(***************************************************************************)
EXTENDS WidgetTables, Naturals

CONSTANT Values   \* what a setter is given

ASSUME ValuesAssumption == 0 \notin Values

VARIABLES
  accessor,  \* the accessor this behaviour watches
  document,  \* the keys of the widget's entry that are set: their JSON kind and value
  said       \* history: the value of the last call the accessor reports, 0 if none stands

widgetVars == <<accessor, document, said>>

Watched == Accessors[accessor]

(* The setters that touch a key the accessor reads.                        *)
Relevant ==
  LET all == Setters
      keys == Watched.keys
  IN {s \in DOMAIN all : (DOMAIN all[s].put \cup all[s].erase) \cap keys # {}}

EmptyDocument == document = <<>> /\ said = 0

WidgetInit == accessor \in DOMAIN Accessors /\ EmptyDocument

(* One setter call: entry(name)[key] = value for each of its keys, then    *)
(* the erasures.                                                           *)
Set(setter, value) ==
  LET s == Setters[setter]
      written == Merge([k \in DOMAIN s.put |-> [kind |-> s.put[k], value |-> value]], document)
  IN /\ document' = [k \in DOMAIN written \ s.erase |-> written[k]]
     /\ said' = CASE setter \in Watched.reports   -> value
                  [] setter \in Watched.withdraws -> 0
                  [] OTHER                        -> said
     /\ UNCHANGED accessor

(* clear(): the builder is reused for the next document.                   *)
Clear ==
  /\ document' = <<>>
  /\ said' = 0
  /\ UNCHANGED accessor

WidgetNext ==
  \/ \E setter \in Relevant, value \in Values : Set(setter, value)
  \/ Clear

WidgetSpec == WidgetInit /\ [][WidgetNext]_widgetVars

(* What the accessor answers from the document.                            *)
Answer ==
  LET w == Watched IN
  IF \A k \in w.keys : /\ k \in DOMAIN document /\ document[k].kind \in w.kinds
                       /\ \A j \in w.keys : j \in DOMAIN document => document[j].value = document[k].value
    THEN (CHOOSE v \in Values : \A k \in w.keys : document[k].value = v)
    ELSE 0
-----------------------------------------------------------------------------
(* After any sequence of setter calls the host reads, from each accessor,  *)
(* the value of the last call that speaks about it, and nothing when that  *)
(* call withdrew it: no key of an earlier call survives to be paired with  *)
(* a later one, and the two headers agree on every key and kind.           *)
ReadBack == Answer = said

=============================================================================
