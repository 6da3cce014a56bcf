------------------------------ MODULE TreeItems -----------------------------
(***************************************************************************)
(* WidgetDataView::treeItems (host/widget_data_view.hpp): a flat, keyed    *)
(* tree snapshot is accepted whole or rejected whole.  The items are read  *)
(* in order, then every parent is looked up, then an iterative walk with   *)
(* three colours looks for a cycle of parents.  A step of the walk is one  *)
(* iteration of its loops.                                                 *)
(***************************************************************************)
EXTENDS Naturals, Sequences, FiniteSets

CONSTANTS
  Ids,       \* the ids items may carry
  MaxItems   \* bound: items of a snapshot

ItemsAssumption == MaxItems \in Nat

NoId == "empty"      \* the empty string: no id, or a root's parent
Missing == "missing" \* an id no item carries

(* An encoded item: one that decodes to these fields, or one that does not *)
(* decode.                                                                 *)
Item ==
  [id : Ids \cup {NoId}, parent_id : Ids \cup {NoId, Missing}, wellformed : {TRUE}]
    \cup {[id |-> NoId, parent_id |-> NoId, wellformed |-> FALSE]}

VARIABLES
  items,        \* the decoded snapshot
  visit_state,  \* per item: 0 unseen, 1 on the current path, 2 done
  start,        \* the item the outer loop is at
  current,      \* the item the inner walk is at, 0 when it is not walking
  path,         \* the items of this walk
  verdict       \* "reading", "walking", "accepted" or "rejected"

treeVars == <<items, visit_state, start, current, path, verdict>>

Snapshots == UNION {[1..n -> Item] : n \in 0..MaxItems}

Fresh ==
  /\ visit_state = [i \in DOMAIN items |-> 0]
  /\ start = 1 /\ current = 0 /\ path = {}
  /\ verdict = "reading"

Init == items \in Snapshots /\ Fresh

(* One pass over the encoded items: a malformed field, an empty or repeated *)
(* id, an item that is its own parent, or (after the pass) a parent that no *)
(* item has, rejects the update.                                            *)
ReadItem(i) ==
  /\ items[i].wellformed
  /\ items[i].id # NoId
  /\ \A j \in 1..i - 1 : items[j].id # items[i].id
  /\ items[i].parent_id # items[i].id

IndexOf(id) == CHOOSE i \in DOMAIN items : items[i].id = id
IsRoot(i) == items[i].parent_id = NoId

ReadItems ==
  /\ verdict = "reading"
  /\ verdict' = IF /\ \A i \in DOMAIN items : ReadItem(i)
                   /\ \A i \in DOMAIN items : IsRoot(i) \/ \E j \in DOMAIN items : items[j].id = items[i].parent_id
                  THEN "walking" ELSE "rejected"
  /\ UNCHANGED <<items, visit_state, start, current, path>>

(* The outer loop: skip an item that is done, or begin a walk at it.       *)
StartWalk ==
  /\ verdict = "walking" /\ current = 0 /\ start <= Len(items)
  /\ IF visit_state[start] = 2 THEN start' = start + 1 /\ UNCHANGED current
                               ELSE current' = start /\ UNCHANGED start
  /\ UNCHANGED <<items, visit_state, path, verdict>>

(* The inner loop: an unseen item joins the path and the walk goes to its  *)
(* parent; at a root it stops.                                             *)
Walking == verdict = "walking" /\ current # 0
Climb ==
  /\ Walking /\ visit_state[current] = 0
  /\ visit_state' = [visit_state EXCEPT ![current] = 1]
  /\ path' = path \cup {current}
  /\ current' = IF IsRoot(current) THEN current ELSE IndexOf(items[current].parent_id)
  /\ UNCHANGED <<items, start, verdict>>

(* The walk ended on an item it has seen: on the path of this walk and not *)
(* a root is a cycle; otherwise the path is done.                          *)
EndWalk_anyPath ==
  /\ Walking /\ visit_state[current] # 0
  /\ IF visit_state[current] = 1
       THEN verdict' = "rejected" /\ UNCHANGED <<visit_state, start, current, path>>
       ELSE /\ visit_state' = [i \in DOMAIN items |-> IF i \in path THEN 2 ELSE visit_state[i]]
            /\ start' = start + 1 /\ current' = 0 /\ path' = {}
            /\ UNCHANGED verdict
  /\ UNCHANGED items
EndWalk ==
  /\ Walking /\ visit_state[current] # 0
  /\ IF visit_state[current] = 1 /\ ~IsRoot(current)
       THEN verdict' = "rejected" /\ UNCHANGED <<visit_state, start, current, path>>
       ELSE /\ visit_state' = [i \in DOMAIN items |-> IF i \in path THEN 2 ELSE visit_state[i]]
            /\ start' = start + 1 /\ current' = 0 /\ path' = {}
            /\ UNCHANGED verdict
  /\ UNCHANGED items

Accept ==
  /\ verdict = "walking" /\ current = 0 /\ start > Len(items)
  /\ verdict' = "accepted"
  /\ UNCHANGED <<items, visit_state, start, current, path>>

(* The host is done with the verdict and keeps it.                         *)
Settled == verdict \in {"accepted", "rejected"} /\ UNCHANGED treeVars

Next == ReadItems \/ StartWalk \/ Climb \/ EndWalk \/ Accept \/ Settled

Spec == Init /\ [][Next]_treeVars /\ WF_treeVars(Next)
-----------------------------------------------------------------------------
(* A forest: unique, non-empty ids, every parent present, and no non-empty *)
(* set of items closed under "parent of", which is what a cycle is.        *)
IsForest ==
  /\ \A i \in DOMAIN items : items[i].wellformed /\ items[i].id # NoId
  /\ \A i, j \in DOMAIN items : items[i].id = items[j].id => i = j
  /\ \A i \in DOMAIN items : items[i].parent_id \in {NoId} \cup {items[j].id : j \in DOMAIN items}
  /\ \A S \in (SUBSET DOMAIN items) \ {{}} :
       \E i \in S : items[i].parent_id \notin {items[j].id : j \in S}

(* A snapshot is accepted exactly when it is a forest: no cycle slips      *)
(* through a walk that meets an earlier one's path, and no tree is taken   *)
(* for one.                                                                *)
VerdictIsRight == verdict \in {"accepted", "rejected"} => (verdict = "accepted" <=> IsForest)

=============================================================================
