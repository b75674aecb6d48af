------------------------------ MODULE SecretEditor ------------------------------
(***************************************************************************)
(* The dialog for one password (secret-editor.vala) over the collections of *)
(* SecretKeyring: a change of an entry schedules one idle callback for its  *)
(* field, which writes what the entry holds when it runs, unless that is    *)
(* what libsecret has.  Writes are calls to the service that take time and  *)
(* may fail; other programs change the item; the item may be deleted, or    *)
(* its collection locked, while the dialog is open.                         *)
(***************************************************************************)
EXTENDS SecretKeyring

CONSTANTS
  Edited,          \* the item that is opened and that other programs change
  Shown, Hidden,   \* its attributes: those with an entry, and the others
  Format,          \* format_attribute: what the entry shows for each value
  Initial,         \* what the item holds at first
  Typed, Theirs    \* values the user and other programs choose from

Texts == {"secret", "label"}
Fields == Texts \cup {"attributes"}
Attributes == Shown \cup Hidden
Parts == Texts \cup Attributes         \* an item holds a value for each part
PartsOf(f) == IF f \in Texts THEN {f} ELSE Attributes
FieldOf(p) == IF p \in Texts THEN p ELSE "attributes"

Values == DOMAIN Format

ASSUME SecretEditorAssumption ==
  /\ Edited \in Known \ New
  /\ Shown \cap Hidden = {} /\ Texts \cap Attributes = {}
  /\ Format \in [Values -> Values]
  /\ Initial \in [Parts -> Values]
  /\ Typed \cup Theirs \cup {""} \subseteq Values

VARIABLES
  item,      \* the item in the service
  copy,      \* libsecret's copy of it
  dialog,    \* the editor: what it shows, what is scheduled, and whose item it has
  writes,    \* calls on their way, in their order
  row,       \* the attributes the row of the item shows
  others,    \* parts that other programs have changed
  unsaved    \* parts whose last write has failed or was not thought necessary

editorVars == <<item, copy, dialog, writes, row, others, unsaved>>
vars == <<keyringVars, editorVars>>

Closed ==
  [open |-> FALSE, dropped |-> FALSE, secret |-> "none", text |-> << >>, pending |-> {}, typed |-> {}]

Init ==
  /\ KeyringInit
  /\ item = Initial /\ copy = Initial
  /\ dialog = Closed
  /\ writes = << >>
  /\ row = [a \in Shown |-> Initial[a]]
  /\ others = {} /\ unsaved = {}

---------------------------------------------------------------------------
(* The item outside the dialog.                                             *)

OutsideChanges(p, v) ==
  /\ Unasked
  /\ Edited \in service.items /\ v # item[p]
  /\ item' = [item EXCEPT ![p] = v]
  /\ others' = others \cup {p}
  /\ UNCHANGED <<service, cache, panel, calls, copy, dialog, writes, row, unsaved>>

\* libsecret is told about labels and attributes, not about passwords.
ItemChanged ==
  /\ copy' = [item EXCEPT !["secret"] = copy["secret"]]
  /\ copy' # copy
  /\ UNCHANGED <<keyringVars, item, dialog, writes, row, others, unsaved>>

\* What a step of the keyring does to the dialog, the writes and the row: they may be left with
\* a SecretItem that is no longer in the table, and a new row shows what libsecret has.
Follow ==
  LET dropped == Edited \in table \ table'
  IN /\ dialog' = IF dropped THEN [dialog EXCEPT !.dropped = TRUE] ELSE dialog
     /\ writes' = IF dropped THEN [i \in DOMAIN writes |-> [writes[i] EXCEPT !.dropped = TRUE]] ELSE writes
     /\ row' = IF Edited \in rows' \ rows THEN [a \in Shown |-> copy[a]] ELSE row
     /\ UNCHANGED <<item, copy, others, unsaved>>

---------------------------------------------------------------------------
(* Opening and closing.                                                     *)

\* What the entries show: attributes are formatted, and the password is loaded later.
Entries ==
  [p \in Texts \cup Shown |->
     CASE p = "label" -> copy[p] [] p = "secret" -> "" [] OTHER -> Format[copy[p]]]

\* The dialog of a row; one at a time (bound), when nothing of the last one is left.
Open ==
  /\ Edited \in rows
  /\ ~dialog.open /\ dialog.pending = {} /\ writes = << >>
  /\ dialog' = [open |-> TRUE, dropped |-> FALSE, secret |-> "loading", text |-> Entries,
                pending |-> {}, typed |-> {}]
  /\ unsaved' = {}
  /\ UNCHANGED <<keyringVars, item, copy, writes, row, others>>

\* load_secret returns; changes of the password entry are connected only now.
SecretLoaded ==
  /\ dialog.open /\ dialog.secret = "loading"
  /\ Edited \in service.items /\ Home[Edited] \notin service.locked
  /\ copy' = [copy EXCEPT !["secret"] = item["secret"]]
  /\ dialog' = [dialog EXCEPT !.secret = "loaded", !.text["secret"] = item["secret"]]
  /\ UNCHANGED <<keyringVars, item, writes, row, others, unsaved>>

SecretNotLoaded ==
  /\ dialog.open /\ dialog.secret = "loading"
  /\ dialog' = [dialog EXCEPT !.secret = "failed"]
  /\ UNCHANGED <<keyringVars, item, copy, writes, row, others, unsaved>>

\* The dialog is destroyed.  What is scheduled still runs; whether the destroyed entries still
\* hold their texts by then is GTK's business.
Destroyed ==
  \E text \in {dialog.text, [p \in Texts \cup Shown |-> ""]} :
    dialog' = [dialog EXCEPT !.open = FALSE,
                             !.text = IF dialog.pending = {} THEN << >> ELSE text]

Close ==
  /\ dialog.open
  /\ Destroyed
  /\ UNCHANGED <<keyringVars, item, copy, writes, row, others, unsaved>>

DeleteItem ==
  /\ Unasked
  /\ dialog.open
  /\ Destroyed
  /\ StartDelete(Edited, dialog.dropped)
  /\ UNCHANGED <<service, cache, panel, unlocks, generating, item, copy, writes, row, others, unsaved>>

---------------------------------------------------------------------------
(* Editing.                                                                 *)

\* One callback per field: an earlier one that has not run is replaced.  Before the password
\* has been loaded, and after that has failed, its entry schedules nothing.
Watched(p) == p = "secret" => dialog.secret = "loaded"
Type(p, v) ==
  /\ Unasked
  /\ dialog.open /\ v # dialog.text[p]
  /\ dialog' = [dialog EXCEPT !.text[p] = v, !.typed = @ \cup {p},
                              !.pending = IF Watched(p) THEN @ \cup {FieldOf(p)} ELSE @]
  /\ UNCHANGED <<service, cache, panel, calls, item, copy, writes, row, others, unsaved>>

\* What a callback writes: one text, or all attributes with the entries in place of theirs.
Slip_EntriesOnly(f) ==
  [p \in PartsOf(f) |-> IF p \in DOMAIN dialog.text THEN dialog.text[p] ELSE ""]
Value(f) ==
  [p \in PartsOf(f) |-> IF p \in DOMAIN dialog.text THEN dialog.text[p] ELSE copy[p]]

Writing(f) == \E i \in DOMAIN writes : DOMAIN writes[i].value = PartsOf(f)

\* A text is compared with libsecret's copy, which is the old one while a write is on its way.
Slip_DiffersAtRest(f) == ~Writing(f) /\ (f = "attributes" \/ dialog.text[f] # copy[f])
Differs(f) == f = "attributes" \/ dialog.text[f] # copy[f]

Idle(f) ==
  /\ f \in dialog.pending
  /\ dialog' = [dialog EXCEPT !.pending = @ \ {f}, !.text = IF dialog.open \/ dialog.pending # {f} THEN @ ELSE << >>]
  /\ IF Differs(f)
     THEN /\ writes' = Append(writes, [value |-> Value(f), typed |-> dialog.typed,
                                       late |-> ~dialog.open, dropped |-> dialog.dropped])
          /\ unsaved' = unsaved \ PartsOf(f)
     ELSE /\ writes' = writes
          /\ unsaved' = IF Writing(f) THEN unsaved \cup {f} ELSE unsaved \ {f}
  /\ UNCHANGED <<keyringVars, item, copy, row, others>>

Over(value, old) == [p \in Parts |-> IF p \in DOMAIN value THEN value[p] ELSE old[p]]

\* The first call comes back.  _item.changed remakes the row of this SecretItem.
Slip_NeverRemade(w) == FALSE
RowIsRemade(w) == DOMAIN w.value = Attributes /\ ~w.dropped /\ Edited \in rows
Written ==
  /\ writes # << >>
  /\ Edited \in service.items /\ Home[Edited] \notin service.locked
  /\ LET w == Head(writes)
     IN /\ item' = Over(w.value, item)
        /\ copy' = Over(w.value, copy)
        /\ row' = IF RowIsRemade(w) THEN [a \in Shown |-> w.value[a]] ELSE row
        /\ others' = IF w.dropped THEN others \cup DOMAIN w.value ELSE others
  /\ writes' = Tail(writes)
  /\ UNCHANGED <<keyringVars, dialog, unsaved>>

NotWritten ==
  /\ writes # << >>
  /\ writes' = Tail(writes)
  /\ unsaved' = unsaved \cup DOMAIN Head(writes).value
  /\ UNCHANGED <<keyringVars, item, copy, dialog, row, others>>

---------------------------------------------------------------------------
Unscheduled ==
  \/ (Others \/ KeyringUser) /\ Follow
  \/ \E p \in Parts, v \in Theirs : OutsideChanges(p, v)
  \/ Open \/ Close \/ DeleteItem
  \/ \E p \in Texts \cup Shown, v \in Typed : Type(p, v)

Loop ==
  \/ KeyringLoop /\ Follow
  \/ ItemChanged \/ SecretLoaded \/ SecretNotLoaded \/ Written \/ NotWritten
  \/ \E f \in Fields : Idle(f)

Next == Unscheduled \/ Loop

\* The user answers the questions, which are modal, in one way or the other.
Answering == (\E c \in Collections : Answer(c, TRUE) \/ Answer(c, FALSE)) /\ Follow
Spec == Init /\ [][Next]_vars /\ WF_vars(Answering)

---------------------------------------------------------------------------
(* Properties.                                                              *)

\* When the callbacks have run and the writes have come back, the item holds what the entries of
\* every field show that was typed in.  Exceptions: the last write failed, the entry was back at
\* libsecret's copy while a write was on its way, the password had not been loaded, or another
\* program has changed the part.
EditsAreSaved ==
  dialog.open /\ dialog.pending = {} /\ writes = << >> =>
    \A p \in Texts \cup Shown :
      \/ dialog.text[p] = item[p]
      \/ dialog.typed \cap PartsOf(FieldOf(p)) = {}
      \/ p \in unsaved \cup others
      \/ ~Watched(p)

\* A write changes only what was typed in since the dialog was opened.  Exceptions: an attribute
\* may become its formatted value, and the entries do not follow what other programs change or
\* what a dialog that is closed at once leaves behind.
EditsLeaveTheRest ==
  [][writes # << >> /\ writes' = Tail(writes) =>
       \A p \in Parts :
         \/ item'[p] = item[p]
         \/ Head(writes).late
         \/ p \in Head(writes).typed \cup others
         \/ p \in Shown /\ item'[p] = Format[item[p]]]_vars

\* The row shows the attributes the item has in the service, also while writes are on their way
\* and however often it has been locked and unlocked.  Exceptions: other programs, or an editor
\* that was opened before the collection was locked, have changed them.
RowShowsTheItem ==
  Edited \in rows => \A a \in Shown : row[a] = item[a] \/ a \in others
=============================================================================
