-------------------------------- MODULE ListPanel --------------------------------
(***************************************************************************)
(* The list of a panel (src/list-panel.vala), with the search and the       *)
(* selection of the window (src/window.vala).                               *)
(*                                                                          *)
(* The list box shows the rows of the model it is bound to: the store of    *)
(* all items, or what a search has copied from it.  Check marks live in the *)
(* rows, and rows are remade whenever their model says so.  What is opened, *)
(* exported and deleted is found by the number of a row in the store.       *)
(* Where an item is sorted in, and which items a text matches, is left      *)
(* open.                                                                    *)
(***************************************************************************)
EXTENDS Naturals, SequencesExt

CONSTANTS
  Items,       \* items that may ever be listed
  InitialItems,
  MaxChanges   \* bound: changes of items, searches and removals by other programs

ASSUME PanelAssumption ==
  /\ InitialItems \subseteq Items /\ IsFiniteSet(InitialItems)
  /\ MaxChanges \in Nat

VARIABLES
  status,     \* of each item: not there yet, listed, gone but listed, removed
  store,      \* _store
  rows,       \* the rows of the list box
  bound,      \* the model it is bound to
  page,       \* visible_child_name
  filters,    \* filter_items has connected to the cancellable
  cancelled,  \* Window._cancellable
  selecting,  \* selection_mode
  count,      \* selection_count, as label and buttons last saw it
  deleting,   \* delete_selected: what it still has to delete
  crashed,    \* a row that is not there was looked at
  remade,     \* a row with a check mark has gone since the last count
  changes     \* counts up to MaxChanges

panelVars == <<status, store, rows, bound, page, filters, cancelled, selecting, count,
          deleting, crashed, remade, changes>>

NoDelete == [busy |-> FALSE, queue |-> << >>, checked |-> {}, filtered |-> FALSE]

Slip_RowOfTheMode(i) == [item |-> i, active |-> selecting]
Row(i) == [item |-> i, active |-> FALSE]
RowsOf(s) == [n \in DOMAIN s |-> Row(s[n])]

\* A walk over s that appends what is at the positions in chosen.
Walk(s, chosen) ==
  LET found[n \in 0..Len(s)] ==
        IF n = 0 THEN << >>
        ELSE IF n \in chosen THEN Append(found[n - 1], s[n]) ELSE found[n - 1]
  IN found[Len(s)]

Checked == {rows[n].item : n \in {m \in DOMAIN rows : rows[m].active}}

PanelInit ==
  /\ status = [i \in Items |-> IF i \in InitialItems THEN "listed" ELSE "new"]
  /\ store = SetToSeq(InitialItems)
  /\ selecting = FALSE /\ count = 0
  /\ rows = RowsOf(store)
  /\ bound = "store"
  /\ page = IF store = << >> THEN "empty" ELSE "listing"
  /\ filters = FALSE /\ cancelled = FALSE
  /\ deleting = NoDelete
  /\ crashed = FALSE /\ remade = FALSE
  /\ changes = 0

Change == changes < MaxChanges /\ changes' = changes + 1

---------------------------------------------------------------------------
(* The store and the rows.                                                  *)

SyncVisibleChild(s) == page' = IF s = << >> THEN "empty" ELSE "listing"

\* The list box follows the model it is bound to; remade records lost check marks.
Show(r) ==
  /\ rows' = r
  /\ remade' = (remade \/ \E i \in Checked : ~ \E n \in DOMAIN r : r[n] = [item |-> i, active |-> TRUE])

Announced(i) == status[i] = "new"

\* on_item_added: sorted into the store.
ItemAdded(i) ==
  /\ ~crashed
  /\ Announced(i)
  /\ status' = [status EXCEPT ![i] = "listed"]
  /\ \E n \in 1..(Len(store) + 1) :
       /\ store' = InsertAt(store, n, i)
       /\ IF bound = "store" THEN Show(InsertAt(rows, n, Row(i))) ELSE UNCHANGED <<rows, remade>>
  /\ SyncVisibleChild(store')
  /\ UNCHANGED <<bound, filters, cancelled, selecting, count, deleting, crashed, changes>>

\* on_item_removed, with its effect on the rows.
PositionOf(i) == SelectInSeq(store, LAMBDA x : x = i)
RemoveItem(i) ==
  /\ store' = RemoveAt(store, PositionOf(i))
  /\ IF bound = "store" THEN Show(RemoveAt(rows, PositionOf(i))) ELSE UNCHANGED <<rows, remade>>
  /\ SyncVisibleChild(store')
  /\ status' = [status EXCEPT ![i] = "removed"]

ItemVanishes(i) ==
  /\ ~crashed
  /\ Change
  /\ status[i] = "listed"
  /\ status' = [status EXCEPT ![i] = "gone"]
  /\ UNCHANGED <<store, rows, bound, page, filters, cancelled, selecting, count, deleting,
                 crashed, remade>>

ItemRemoved(i) ==
  /\ ~crashed
  /\ status[i] = "gone"
  /\ RemoveItem(i)
  /\ UNCHANGED <<bound, filters, cancelled, selecting, count, deleting, crashed, changes>>

\* item.changed: the row of the item is made anew, in the same place.
ItemChanged(i) ==
  /\ ~crashed
  /\ Change
  /\ status[i] = "listed"
  /\ bound = "store"
  /\ Show([n \in DOMAIN rows |-> IF rows[n].item = i THEN Row(i) ELSE rows[n]])
  /\ UNCHANGED <<status, store, bound, page, filters, cancelled, selecting, count,
                 deleting, crashed>>

---------------------------------------------------------------------------
(* The search.                                                              *)

\* Every handler connected by an earlier search binds the store again.
Slip_LeaveFilter == FALSE
RebindsStore == filters /\ ~cancelled

Rebind == /\ bound' = "store"
          /\ Show(RowsOf(store))
          /\ SyncVisibleChild(store)

\* on_stop_search, and a change of the visible panel.
StopSearch ==
  /\ ~crashed
  /\ ~cancelled
  /\ cancelled' = TRUE
  /\ IF RebindsStore THEN Rebind ELSE UNCHANGED <<bound, rows, remade, page>>
  /\ UNCHANGED <<status, store, filters, selecting, count, deleting, crashed, changes>>

\* on_search_changed: the cancellable is cancelled and reset; then filter_items.
ClearText ==
  /\ ~crashed
  /\ cancelled' = FALSE
  /\ IF RebindsStore THEN Rebind ELSE UNCHANGED <<bound, rows, remade, page>>
  /\ UNCHANGED <<status, store, filters, selecting, count, deleting, crashed, changes>>

FilterItems ==
  /\ ~crashed
  /\ Change
  /\ cancelled' = FALSE
  /\ filters' = TRUE
  /\ bound' = "filtered"
  /\ \E found \in SUBSET DOMAIN store :
       /\ Show(RowsOf(Walk(store, found)))
       /\ page' = IF found = {} THEN "unavailable" ELSE "listing"
  /\ UNCHANGED <<status, store, selecting, count, deleting, crashed>>

---------------------------------------------------------------------------
(* The selection.                                                           *)

\* get_selected_items walks the store and looks at the row with the same number; there
\* may be none.
Slip_NextItem(r) == Walk(store, {n \in 1..(Len(r) - 1) : r[n + 1].active})
MissingRow(r) == Len(r) < Len(store)
SelectedItems(r) == Walk(store, {n \in DOMAIN store : r[n].active})

\* selection_changed: the window asks for the number of selected items.
Recount(r) ==
  /\ rows' = r
  /\ IF MissingRow(r) THEN crashed' = TRUE /\ UNCHANGED <<count, remade>>
     ELSE /\ count' = Len(SelectedItems(r))
          /\ remade' = (bound = "filtered")
          /\ UNCHANGED crashed

Toggle ==
  /\ ~crashed
  /\ selecting
  /\ \E n \in DOMAIN rows : Recount([rows EXCEPT ![n].active = ~@])
  /\ UNCHANGED <<status, store, bound, page, filters, cancelled, selecting, deleting, changes>>

\* select-all and unselect-all walk the rows the same way; a button that already shows
\* what it is set to announces nothing.
SelectAll(active) ==
  /\ ~crashed
  /\ selecting
  /\ LET r == [n \in DOMAIN rows |-> IF n <= Len(store) THEN [rows[n] EXCEPT !.active = active]
                                     ELSE rows[n]] IN
     IF r = rows /\ ~MissingRow(r) THEN UNCHANGED <<rows, count, crashed, remade>>
     ELSE Recount(r)
  /\ UNCHANGED <<status, store, bound, page, filters, cancelled, selecting, deleting, changes>>

Unchecked == [n \in DOMAIN rows |-> Row(rows[n].item)]

SetSelectionMode ==
  /\ ~crashed
  /\ selecting' = ~selecting
  /\ Recount(IF selecting THEN Unchecked ELSE rows)
  /\ UNCHANGED <<status, store, bound, page, filters, cancelled, deleting, changes>>

---------------------------------------------------------------------------
(* delete_selected, one at a time.  The buttons are sensitive by the count. *)

DeleteSelected ==
  /\ ~crashed
  /\ selecting /\ count > 0
  /\ ~deleting.busy
  /\ IF MissingRow(rows) THEN crashed' = TRUE /\ UNCHANGED deleting
     ELSE /\ deleting' = [busy |-> TRUE, queue |-> SelectedItems(rows), checked |-> Checked,
                          filtered |-> bound = "filtered"]
          /\ UNCHANGED crashed
  /\ UNCHANGED <<status, store, rows, bound, page, filters, cancelled, selecting, count,
                 remade, changes>>

\* item.delete, to its end: the item is removed, as a rule with its row.
DeleteNext ==
  /\ ~crashed
  /\ deleting.queue # << >>
  /\ LET i == Head(deleting.queue) IN
     /\ status[i] = "listed"
     /\ RemoveItem(i)
  /\ deleting' = [deleting EXCEPT !.queue = Tail(@)]
  /\ UNCHANGED <<bound, filters, cancelled, selecting, count, crashed, changes>>

\* An error, always when the item has gone, ends the deletion.
DeleteFails ==
  /\ ~crashed
  /\ deleting.queue # << >>
  /\ deleting' = NoDelete
  /\ UNCHANGED <<status, store, rows, bound, page, filters, cancelled, selecting, count,
                 crashed, remade, changes>>

DeleteEnds ==
  /\ ~crashed
  /\ deleting.busy /\ deleting.queue = << >>
  /\ deleting' = NoDelete
  /\ UNCHANGED <<status, store, rows, bound, page, filters, cancelled, selecting, count,
                 crashed, remade, changes>>

\* row_activated: the item that is opened from a row, if there is one.
Opened(n) == IF n <= Len(store) THEN {store[n]} ELSE {}

PanelNext ==
  \/ \E i \in Items : ItemAdded(i) \/ ItemVanishes(i) \/ ItemRemoved(i) \/ ItemChanged(i)
  \/ StopSearch \/ ClearText \/ FilterItems
  \/ Toggle \/ (\E active \in BOOLEAN : SelectAll(active)) \/ SetSelectionMode
  \/ DeleteSelected \/ DeleteNext \/ DeleteFails \/ DeleteEnds

PanelSpec == PanelInit /\ [][PanelNext]_panelVars

---------------------------------------------------------------------------
(* Properties                                                               *)

\* The type of the state; no item has two rows.
PanelTypeOK ==
  /\ status \in [Items -> {"new", "listed", "gone", "removed"}]
  /\ store \in Seq(Items) /\ IsInjective(store)
  /\ rows \in Seq([item : Items, active : BOOLEAN])
  /\ bound \in {"store", "filtered"} /\ page \in {"empty", "listing", "unavailable"}
  /\ {filters, cancelled, selecting, crashed, remade} \subseteq BOOLEAN
  /\ count \in Nat /\ changes \in 0..MaxChanges
  /\ deleting \in [busy : BOOLEAN, queue : Seq(Items), checked : SUBSET Items,
                   filtered : BOOLEAN]

\* A search that has been stopped or cleared is over: all items are shown, and nothing
\* but a search makes the program look for a missing row.
SearchIsOver ==
  /\ cancelled => bound = "store"
  /\ crashed => bound = "filtered"

\* As long as no search is on, whatever is added, removed, changed or deleted in between,
\* the row with a number is that of the item with the same number: what is opened is
\* what was clicked, and no row is missing.
RowsNumberTheStore ==
  /\ PanelTypeOK
  /\ SearchIsOver
  /\ bound = "store" => /\ Len(rows) = Len(store)
                        /\ \A n \in DOMAIN rows : Opened(n) = {rows[n].item}
                        /\ page = IF store = << >> THEN "empty" ELSE "listing"

\* No search on, the number of selected items the window shows is right, unless a row with
\* a check mark has been removed or made anew since it was counted.
CountIsRight ==
  selecting /\ bound = "store" /\ ~remade => count = Cardinality(Checked)

\* A deletion that was begun while no search was on deletes what was checked then: the
\* window's "Click on items to select them" is not true of one begun under a search.
DeletesTheChecked == ~deleting.filtered => ToSet(deleting.queue) \subseteq deleting.checked
=============================================================================
