----------------------------- MODULE TableDelta -----------------------------
(***************************************************************************)
(* Table deltas of the dialog protocol.  A plugin mutates a large table    *)
(* without resending its rows: it writes operations under a sequence       *)
(* number it owns (WidgetData::appendTableRows and friends), the document  *)
(* is refreshed any number of times, and the host decodes the delta        *)
(* (WidgetDataView::tableDelta) and applies it once.  The host's side of   *)
(* the contract, which is code outside this repository, is the comment on  *)
(* TableDeltaView: apply when seq differs from the last one applied, cell  *)
(* updates first, then removals in the order given, then the append.       *)
(*                                                                         *)
(* A table has one column; a cell is its text and its sort key, 0 for a    *)
(* cell that sorts by its text.                                            *)
(***************************************************************************)
EXTENDS Naturals, Sequences, SequencesExt, FiniteSets, FiniteSetsExt

CONSTANTS
  MaxRows,   \* bound: rows of the table
  MaxSeq     \* bound: deltas the plugin issues; then its counter restarts

RowsAssumption == MaxRows \in Nat

Cells == {<<1, 0>>, <<1, 1>>, <<2, 0>>}
Keys(cells) == [i \in DOMAIN cells |-> cells[i][2]]
Texts(cells) == [i \in DOMAIN cells |-> cells[i][1]]

VARIABLES
  base,     \* the plugin's table when it began the current delta
  ops,      \* the plugin's operations of this delta: updated cells, removed rows, appended cells
  seq,      \* the sequence number it uses for them
  delta,    \* the document's table_delta object
  rows,     \* the document's rows, <<>> when it carries none
  table,    \* the host's table
  applied,  \* the last sequence number the host applied, 0 before the first
  fresh     \* whether the host has read the document since the plugin wrote it

deltaVars == <<base, ops, seq, delta, rows, table, applied, fresh>>

NoOps == [update |-> <<>>, remove |-> {}, append |-> <<>>]
Nothing == [seq |-> 0, update_cells |-> <<>>, remove_rows |-> <<>>, append |-> <<>>, append_values |-> <<>>]

(* Row indexes in order.                                                   *)
Ascending(S) ==
  CHOOSE e \in [1..Cardinality(S) -> S] : Range(e) = S /\ \A i, j \in DOMAIN e : i < j => e[i] < e[j]
Descending(S) == Reverse(Ascending(S))

(* The table the plugin means: indexes address the rows before the delta.  *)
Kept(t, o) == Ascending(DOMAIN t \ o.remove)
Intended(t, o) ==
  [k \in 1..Len(Kept(t, o)) |-> LET i == Kept(t, o)[k] IN IF i \in DOMAIN o.update THEN o.update[i] ELSE t[i]]
    \o o.append

Init ==
  /\ base = <<>> /\ ops = NoOps /\ seq = 1
  /\ delta = Nothing /\ rows = <<>>
  /\ table = <<>> /\ applied = 0 /\ fresh = TRUE

(* tableDeltaEntry: a differing seq starts a fresh delta.                  *)
TableDeltaEntry_stale == IF delta.seq = 0 THEN [Nothing EXCEPT !.seq = seq] ELSE [delta EXCEPT !.seq = seq]
TableDeltaEntry == IF delta.seq # seq THEN [Nothing EXCEPT !.seq = seq] ELSE delta

Writes(d, o) ==
  /\ delta' = d /\ ops' = o /\ fresh' = FALSE
  /\ UNCHANGED <<base, seq, rows, table, applied>>

(* appendTableRows, plain and typed.  encodeTypedRows drops a column of    *)
(* which no cell has a key, and then the earlier keys are erased as they   *)
(* are by a plain append.                                                  *)
AppendTableRows_stale(cells) ==
  LET keyed == \E i \in DOMAIN cells : cells[i][2] # 0
      d == [TableDeltaEntry EXCEPT !.append = Texts(cells)]
  IN Writes(IF keyed THEN [d EXCEPT !.append_values = Keys(cells)] ELSE d, [ops EXCEPT !.append = cells])
AppendTableRows(cells) ==
  LET keyed == \E i \in DOMAIN cells : cells[i][2] # 0
      d == [TableDeltaEntry EXCEPT !.append = Texts(cells)]
  IN Writes([d EXCEPT !.append_values = IF keyed THEN Keys(cells) ELSE <<>>], [ops EXCEPT !.append = cells])

(* updateTableCells: the last call under one seq wins.                     *)
UpdateTableCells(cells) ==
  Writes([TableDeltaEntry EXCEPT !.update_cells = cells], [ops EXCEPT !.update = cells])

(* removeTableRows: indexes in any order, duplicates included.             *)
RemoveTableRows(indexes) ==
  Writes([TableDeltaEntry EXCEPT !.remove_rows = indexes], [ops EXCEPT !.remove = Range(indexes)])

(* setTableRows beside a delta of the same refresh: the plugin sends the   *)
(* table it means in full.                                                 *)
SetTableRows ==
  /\ rows' = Intended(base, ops)
  /\ rows' # <<>>
  /\ fresh' = FALSE
  /\ UNCHANGED <<base, ops, seq, delta, table, applied>>

(* The next refresh no longer carries the rows.                            *)
DropRows ==
  /\ fresh
  /\ rows # <<>>
  /\ rows' = <<>>
  /\ UNCHANGED <<base, ops, seq, delta, table, applied, fresh>>

(* The plugin goes on to its next delta; its counter may restart.          *)
NextDelta ==
  /\ fresh
  /\ rows = <<>>
  /\ applied = seq
  /\ base' = Intended(base, ops) /\ ops' = NoOps
  /\ seq' = IF seq = MaxSeq THEN 1 ELSE seq + 1
  /\ UNCHANGED <<delta, rows, table, applied, fresh>>

(* tableDelta: all or nothing, removals descending and duplicate-free.     *)
TableDeltaView_raw == delta
TableDeltaView ==
  [delta EXCEPT !.remove_rows = Descending(Range(delta.remove_rows))]

(* The host, by the contract: removals one by one in vector order.         *)
Updated(t, cells) == [i \in DOMAIN t |-> IF i \in DOMAIN cells THEN cells[i] ELSE t[i]]
RemoveOne(t, i) == IF i \in DOMAIN t THEN RemoveAt(t, i) ELSE t
Appended(v) ==
  [i \in DOMAIN v.append |-> <<v.append[i], IF v.append_values = <<>> THEN 0 ELSE v.append_values[i]>>]
Applied(t, v) == FoldLeft(RemoveOne, Updated(t, v.update_cells), v.remove_rows) \o Appended(v)

(* One refresh: rows replace the table and consume the delta; a delta the  *)
(* host has not applied yet is applied; any other is left alone.           *)
Refresh ==
  /\ table' = IF rows # <<>> THEN rows
              ELSE IF delta.seq \notin {0, applied} THEN Applied(table, TableDeltaView) ELSE table
  /\ applied' = IF delta.seq # 0 THEN delta.seq ELSE applied
  /\ fresh' = TRUE
  /\ UNCHANGED <<base, ops, seq, delta, rows>>

(* Operations under a seq the host has already applied, or beside rows     *)
(* already sent, would be lost: the plugin writes them before either.      *)
Unsent == applied # seq /\ rows = <<>>

Next ==
  \/ /\ Unsent
     /\ \/ \E cells \in SeqOf(Cells, MaxRows - Len(base)) : AppendTableRows(cells)
        \/ \E is \in SUBSET DOMAIN base : \E cells \in [is -> Cells] : UpdateTableCells(cells)
        \/ \E indexes \in SeqOf(DOMAIN base, 2) : RemoveTableRows(indexes)
  \/ SetTableRows
  \/ DropRows
  \/ NextDelta
  \/ Refresh

Spec == Init /\ [][Next]_deltaVars
-----------------------------------------------------------------------------
(* Whenever the host has read the plugin's last document its table is the  *)
(* one the plugin means: whatever the order of the calls under one seq,    *)
(* however often a refresh repeats the delta, with rows in between or not, *)
(* and after the plugin's counter restarts.                                *)
HostTableFollows == fresh => table = Intended(base, ops)

=============================================================================
