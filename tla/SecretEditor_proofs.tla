------------------------- MODULE SecretEditor_proofs -------------------------
(***************************************************************************)
(* Proofs about SecretEditor and SecretKeyring for every number of          *)
(* collections, items and attributes, and any behaviour of the user and of  *)
(* other programs: the panel shows the keyring, its row the item, what is   *)
(* typed into the editor is saved, and nothing else is changed.             *)
(***************************************************************************)
EXTENDS SecretEditor, SequenceTheorems, TLAPS

---------------------------------------------------------------------------
(* The keyring.                                                             *)

Copies == [locked : SUBSET Collections, items : SUBSET Items]
Deletions == [item : {Edited}, dropped : BOOLEAN, done : BOOLEAN]

KTyped ==
  /\ service \in Copies /\ cache \in Copies
  /\ collections \subseteq Collections
  /\ deletes \subseteq Deletions
  /\ generating \in [asked : SUBSET New, created : SUBSET New]
  /\ \A i \in generating.asked \cup generating.created : Home[i] \in collections

TableFollows == table = ItemsOf(cache, collections \ cache.locked) \cap Known

\* A row is missing only for the item that has been deleted here.
RowsFollow ==
  /\ rows \subseteq table /\ table \ rows \subseteq {Edited}
  /\ table # rows => Edited \notin service.items
  /\ \A d \in deletes : d.done => Edited \notin service.items

ButtonFollows == collections # {} => button = HasLocked(cache, collections)

KInv == KTyped /\ TableFollows /\ RowsFollow /\ ButtonFollows

---------------------------------------------------------------------------
(* The item and its editor.                                                 *)

Contents == UNION {[PartsOf(f) -> Values] : f \in Fields}
Writes == [value : Contents, typed : SUBSET Parts, late : BOOLEAN, dropped : BOOLEAN]
Entry == Texts \cup Shown

Dialogs ==
  [open : BOOLEAN, dropped : BOOLEAN, secret : {"none", "loading", "loaded", "failed"},
   text : [Entry -> Values] \cup {<< >>}, pending : SUBSET Fields, typed : SUBSET Parts]

ETyped ==
  /\ item \in [Parts -> Values] /\ copy \in [Parts -> Values]
  /\ row \in [Shown -> Values]
  /\ writes \in Seq(Writes)
  /\ dialog \in Dialogs
  /\ dialog.open \/ dialog.pending # {} => dialog.text \in [Entry -> Values]

\* Only what other programs have changed is not in libsecret's copy, or not in the row.
CopyFollows == \A p \in Parts : copy[p] = item[p] \/ p \in others
RowFollows == RowShowsTheItem

OfField(w, f) == DOMAIN w.value = PartsOf(f)

\* What is written was typed in, or is an attribute as it was when the dialog was opened, or as
\* libsecret has it; and so is what may still be written.
Unchanged(v, p, old) == v = old \/ (p \in Shown /\ v = Format[old])
PendingIsTyped == \A f \in Texts : f \in dialog.pending => f \in dialog.typed
WrittenIsTyped ==
  \A i \in DOMAIN writes : ~writes[i].late =>
    \A p \in DOMAIN writes[i].value :
      \/ p \in writes[i].typed \cup others
      \/ p \in Attributes /\ Unchanged(writes[i].value[p], p, item[p])
ShownIsTyped ==
  dialog.open => \A p \in Shown : p \in dialog.typed \cup others \/ Unchanged(dialog.text[p], p, item[p])
HiddenIsKept ==
  \A i \in DOMAIN writes : OfField(writes[i], "attributes") =>
    \A p \in Hidden : writes[i].value[p] = item[p] \/ p \in others

\* The writes on their way are all of one dialog, in its order.
OfThisDialog ==
  dialog.open => \A i \in DOMAIN writes :
    /\ ~writes[i].late /\ writes[i].typed \subseteq dialog.typed
    /\ OfField(writes[i], "attributes") =>
         \A p \in Shown \ dialog.typed : writes[i].value[p] = dialog.text[p]
InOrder ==
  \A i, j \in DOMAIN writes : i < j /\ ~writes[j].late =>
    /\ ~writes[i].late /\ writes[i].typed \subseteq writes[j].typed
    /\ OfField(writes[i], "attributes") /\ OfField(writes[j], "attributes") =>
         \A p \in Shown \ writes[j].typed : writes[i].value[p] = writes[j].value[p]

Edits ==
  PendingIsTyped /\ WrittenIsTyped /\ ShownIsTyped /\ HiddenIsKept /\ OfThisDialog /\ InOrder

\* What has been typed in is still to be written, or on its way, or has arrived.
OnItsWay(p) ==
  \/ FieldOf(p) \in dialog.pending
  \/ p \in unsaved \cup others
  \/ \E i \in DOMAIN writes :
       /\ OfField(writes[i], FieldOf(p)) /\ writes[i].value[p] = dialog.text[p]
       /\ \A j \in DOMAIN writes : j > i => ~OfField(writes[j], FieldOf(p))
  \/ /\ \A j \in DOMAIN writes : ~OfField(writes[j], FieldOf(p))
     /\ dialog.text[p] = item[p]
TypedArrives ==
  \A p \in Entry : dialog.typed \cap PartsOf(FieldOf(p)) # {} /\ Watched(p) => OnItsWay(p)
SecretWaits ==
  dialog.secret # "loaded" =>
    "secret" \notin dialog.pending /\ \A i \in DOMAIN writes : ~OfField(writes[i], "secret")
EditsArrive == dialog.open => TypedArrives /\ SecretWaits

---------------------------------------------------------------------------
(* Steps of the keyring.                                                    *)

LEMMA KInvInit == KeyringInit => KInv
<1>. SUFFICES ASSUME KeyringInit PROVE KInv
  OBVIOUS
<1>. USE SecretKeyringAssumption DEF KeyringInit
<1>1. KTyped
  BY DEF KTyped, Copies
<1>2. TableFollows
  BY DEF TableFollows, ItemsOf
<1>. QED
  BY <1>1, <1>2 DEF KInv, RowsFollow, ButtonFollows

\* Only the service changes: what is deleted is gone, and what is created is a new item.
LEMMA ServiceStep ==
  ASSUME KInv, UNCHANGED <<cache, panel>>, service' \in Copies,
         Edited \notin service.items => Edited \notin service'.items,
         deletes' \subseteq Deletions,
         \A d \in deletes' : d.done => d \in deletes \/ Edited \notin service'.items,
         generating' \in [asked : SUBSET New, created : SUBSET New],
         generating'.asked \cup generating'.created \subseteq generating.asked \cup generating.created
  PROVE  KInv'
<1>. USE DEF panel
<1>1. KTyped'
  BY DEF KInv, KTyped
<1>2. TableFollows'
  BY DEF KInv, TableFollows, ItemsOf
<1>3. RowsFollow'
  BY DEF KInv, RowsFollow
<1>4. ButtonFollows'
  BY DEF KInv, ButtonFollows
<1>. QED
  BY <1>1, <1>2, <1>3, <1>4 DEF KInv

LEMMA OthersStep == ASSUME KInv, Others PROVE KInv'
<1>. USE DEF KInv, KTyped
<1>1. ASSUME NEW c \in Collections, OutsideLocks(c) \/ OutsideUnlocks(c) PROVE KInv'
  <2>1. service' \in Copies /\ service'.items = service.items
    BY <1>1 DEF OutsideLocks, OutsideUnlocks, Copies
  <2>. QED
    BY <1>1, <2>1, ServiceStep DEF OutsideLocks, OutsideUnlocks, calls, RowsFollow
<1>2. ASSUME NEW i \in Items, OutsideDeletes(i) PROVE KInv'
  <2>1. service' \in Copies /\ service'.items \subseteq service.items
    BY <1>2 DEF OutsideDeletes, Copies
  <2>. QED
    BY <1>2, <2>1, ServiceStep DEF OutsideDeletes, calls, RowsFollow
<1>. QED
  BY <1>1, <1>2 DEF Others

LEMMA UnlockClickedStep == ASSUME KInv, UnlockClicked PROVE KInv'
<1>1. UNCHANGED <<service, cache, collections, table, rows, button, deletes, generating>>
  BY DEF UnlockClicked, calls
<1>. QED
  BY <1>1 DEF KInv, KTyped, TableFollows, RowsFollow, ButtonFollows, ItemsOf, HasLocked

\* An answer to a question, and what comes of the unlocking it asks for.
LEMMA UnlockStep ==
  ASSUME KInv, NEW c \in Collections,
         Answer(c, TRUE) \/ Answer(c, FALSE) \/ Granted(c) \/ Refused(c) \/ Unlocked(c)
  PROVE  KInv'
<1>1. /\ service' \in Copies /\ service'.items = service.items
      /\ UNCHANGED <<cache, collections, table, rows, deletes, generating>>
      /\ button' \in {button, HasLocked(cache, collections)}
  BY DEF KInv, KTyped, Copies, Answer, Granted, Refused, NothingUnlocked, Unlocked,
         NotifyHasLocked, panel, calls
<1>2. KTyped'
  BY <1>1 DEF KInv, KTyped
<1>3. TableFollows' /\ RowsFollow'
  BY <1>1 DEF KInv, TableFollows, RowsFollow, ItemsOf
<1>4. ButtonFollows'
  BY <1>1 DEF KInv, ButtonFollows, HasLocked
<1>. QED
  BY <1>2, <1>3, <1>4 DEF KInv

LEMMA LoadCollectionsStep == ASSUME KInv, LoadCollections PROVE KInv'
<1>. USE SecretKeyringAssumption
<1>1. /\ collections = {} /\ collections' \subseteq Collections
      /\ Loaded(cache, collections')
      /\ button' = HasLocked(cache, collections')
      /\ UNCHANGED <<service, cache, deletes, generating>>
  BY DEF LoadCollections, NotifyHasLocked, calls
<1>2. table = {} /\ rows = {}
  BY <1>1 DEF KInv, TableFollows, RowsFollow, ItemsOf
<1>3. KTyped'
  BY <1>1 DEF KInv, KTyped
<1>4. TableFollows' /\ rows' = table'
  BY <1>1, <1>2 DEF TableFollows, Loaded, Fresh, ItemsOf
<1>5. RowsFollow'
  BY <1>1, <1>4 DEF KInv, RowsFollow
<1>6. ButtonFollows'
  BY <1>1 DEF ButtonFollows, HasLocked
<1>. QED
  BY <1>3, <1>4, <1>5, <1>6 DEF KInv

\* What on_items_changed and on_locked_changed of one collection leave behind.
LEMMA SyncedStep ==
  ASSUME KInv, NEW c \in collections, Synced(cache', c), cache' \in Copies,
         ItemsOf(cache', Collections \ {c}) = ItemsOf(cache, Collections \ {c}),
         cache'.locked \ {c} = cache.locked \ {c},
         UNCHANGED <<service, collections, generating>>
  PROVE  KTyped' /\ TableFollows' /\ RowsFollow'
<1>. USE SecretKeyringAssumption
<1>1. deletes' \subseteq Deletions /\ \A d \in deletes' : d.done => \E e \in deletes : e.done
  BY DEF KInv, KTyped, Deletions, Synced
<1>2. KTyped'
  BY <1>1 DEF KInv, KTyped
<1>3. TableFollows'
  <2>1. ASSUME NEW i \in Items, Home[i] # c
        PROVE  i \in table' <=> i \in ItemsOf(cache', collections \ cache'.locked) \cap Known
    <3>1. i \in cache'.items <=> i \in cache.items
      BY <2>1 DEF ItemsOf, KInv, KTyped, Copies
    <3>2. Home[i] \in cache'.locked <=> Home[i] \in cache.locked
      BY <2>1
    <3>3. i \in table' <=> i \in table
      BY <2>1, <3>1 DEF Synced, Fresh, Gone, ItemsOf
    <3>. QED
      BY <3>1, <3>2, <3>3 DEF KInv, TableFollows, ItemsOf
  <2>2. ASSUME NEW i \in Items, Home[i] = c
        PROVE  i \in table' <=> i \in ItemsOf(cache', collections \ cache'.locked) \cap Known
    BY <2>2 DEF Synced, Fresh, Gone, ItemsOf, KInv, TableFollows
  <2>3. table' \subseteq Items
    BY DEF Synced, Fresh, ItemsOf, KInv, KTyped, TableFollows, Copies
  <2>4. ItemsOf(cache', collections \ cache'.locked) \cap Known \subseteq Items
    BY DEF ItemsOf, Copies
  <2>. QED
    BY <2>1, <2>2, <2>3, <2>4 DEF TableFollows
<1>4. RowsFollow'
  <2>1. rows' \subseteq table' /\ table' \ rows' \subseteq table \ rows
    BY DEF KInv, RowsFollow, Synced
  <2>. QED
    BY <1>1, <2>1 DEF KInv, RowsFollow
<1>. QED
  BY <1>2, <1>3, <1>4

LEMMA ItemsChangedStep == ASSUME KInv, NEW c \in Collections, ItemsChanged(c) PROVE KInv'
<1>. USE SecretKeyringAssumption
<1>1. /\ cache' = [cache EXCEPT !.items = (@ \ ItemsOf(cache, {c})) \cup ItemsOf(service, {c})]
      /\ UNCHANGED <<service, collections, generating>>
      /\ c \in collections => Synced(cache', c) /\ UNCHANGED button
      /\ c \notin collections => UNCHANGED <<table, rows, deletes, button>>
  BY DEF ItemsChanged
<1>2. /\ cache' \in Copies /\ cache'.locked = cache.locked
      /\ cache'.items = (cache.items \ ItemsOf(cache, {c})) \cup ItemsOf(service, {c})
  BY <1>1 DEF KInv, KTyped, Copies, ItemsOf
<1>3. \A i \in Items : Home[i] # c => (i \in cache'.items <=> i \in cache.items)
  BY <1>2 DEF ItemsOf
<1>4. ItemsOf(cache', Collections \ {c}) = ItemsOf(cache, Collections \ {c})
  BY <1>2, <1>3 DEF ItemsOf, KInv, KTyped, Copies
<1>5. ButtonFollows'
  BY <1>1, <1>2 DEF KInv, ButtonFollows, HasLocked
<1>6. CASE c \in collections
  BY <1>1, <1>2, <1>4, <1>5, <1>6, SyncedStep DEF KInv
<1>7. CASE c \notin collections
  <2>1. KTyped' /\ RowsFollow'
    BY <1>1, <1>2, <1>7 DEF KInv, KTyped, RowsFollow
  <2>2. TableFollows'
    BY <1>1, <1>2, <1>3, <1>7 DEF KInv, KTyped, Copies, TableFollows, ItemsOf
  <2>. QED
    BY <1>5, <2>1, <2>2 DEF KInv
<1>. QED
  BY <1>6, <1>7

LEMMA LockedChangedStep == ASSUME KInv, NEW c \in Collections, LockedChanged(c) PROVE KInv'
<1>. USE SecretKeyringAssumption
<1>1. /\ cache' = [cache EXCEPT !.locked = IF c \in @ THEN @ \ {c} ELSE @ \cup {c}]
      /\ UNCHANGED <<service, collections, generating>>
      /\ c \in collections => Synced(cache', c) /\ button' = HasLocked(cache', collections)
      /\ c \notin collections => UNCHANGED <<table, rows, deletes, button>>
  BY DEF LockedChanged, NotifyHasLocked
<1>2. /\ cache' \in Copies /\ cache'.items = cache.items
      /\ cache'.locked \ {c} = cache.locked \ {c}
  BY <1>1 DEF KInv, KTyped, Copies
<1>3. ItemsOf(cache', Collections \ {c}) = ItemsOf(cache, Collections \ {c})
  BY <1>2 DEF ItemsOf
<1>4. CASE c \in collections
  <2>1. ButtonFollows'
    BY <1>1, <1>4 DEF ButtonFollows, HasLocked
  <2>. QED
    BY <1>1, <1>2, <1>3, <1>4, <2>1, SyncedStep DEF KInv
<1>5. CASE c \notin collections
  <2>1. collections \ cache'.locked = collections \ cache.locked
    BY <1>2, <1>5
  <2>2. KTyped' /\ RowsFollow'
    BY <1>1, <1>2, <1>5 DEF KInv, KTyped, RowsFollow
  <2>3. TableFollows'
    BY <1>1, <1>2, <1>5, <2>1 DEF KInv, TableFollows, ItemsOf
  <2>4. ButtonFollows'
    BY <1>1, <1>5, <2>1 DEF KInv, ButtonFollows, HasLocked
  <2>. QED
    BY <2>2, <2>3, <2>4 DEF KInv
<1>. QED
  BY <1>4, <1>5

LEMMA GenerateStep ==
  ASSUME KInv, NEW i \in New, Generate(i) \/ Created(i) \/ NotCreated(i) \/ Generated(i)
  PROVE  KInv'
<1>. USE SecretKeyringAssumption, SecretEditorAssumption
<1>1. CASE Generate(i)
  <2>1. UNCHANGED <<service, cache, panel, deletes>>
        /\ generating' \in [asked : SUBSET New, created : SUBSET New]
        /\ \A j \in generating'.asked \cup generating'.created : Home[j] \in collections
    BY <1>1 DEF Generate, KInv, KTyped
  <2>. QED
    BY <2>1 DEF KInv, KTyped, TableFollows, RowsFollow, ButtonFollows, panel, ItemsOf
<1>2. CASE Created(i)
  <2>0. service \in Copies /\ i \in Items
    BY DEF KInv, KTyped
  <2>. HIDE SecretKeyringAssumption, SecretEditorAssumption
  <2>1. service' \in Copies /\ service'.items = service.items \cup {i}
    <3>1. service' = [service EXCEPT !.items = @ \cup {i}]
      BY <1>2 DEF Created
    <3>. QED
      BY <2>0, <3>1 DEF Copies
  <2>. USE SecretKeyringAssumption, SecretEditorAssumption
  <2>2. /\ generating' \in [asked : SUBSET New, created : SUBSET New]
        /\ generating'.asked \cup generating'.created \subseteq generating.asked \cup generating.created
    BY <1>2 DEF Created, KInv, KTyped
  <2>3. UNCHANGED <<cache, panel, deletes>> /\ Edited # i
    BY <1>2 DEF Created
  <2>. QED
    BY <2>1, <2>2, <2>3, ServiceStep DEF KInv, KTyped
<1>3. CASE NotCreated(i)
  <2>1. /\ UNCHANGED <<service, cache, panel, deletes>>
        /\ generating' \in [asked : SUBSET New, created : SUBSET New]
        /\ generating'.asked \cup generating'.created \subseteq generating.asked \cup generating.created
    BY <1>3 DEF NotCreated, KInv, KTyped
  <2>. QED
    BY <2>1, ServiceStep DEF KInv, KTyped
<1>4. CASE Generated(i)
  <2>1. /\ generating' \in [asked : SUBSET New, created : SUBSET New]
        /\ generating'.asked \cup generating'.created \subseteq generating.asked \cup generating.created
        /\ Home[i] \in collections
        /\ UNCHANGED <<service, cache, collections, button, deletes>>
        /\ Loaded(cache, {Home[i]})
    BY <1>4 DEF Generated, KInv, KTyped
  <2>2. Fresh(cache, {Home[i]}) = {}
    BY <2>1 DEF Fresh, KInv, TableFollows, ItemsOf
  <2>3. UNCHANGED <<table, rows>>
    BY <2>1, <2>2 DEF Loaded
  <2>. QED
    BY <2>1, <2>3, ServiceStep DEF KInv, KTyped, panel, TableFollows, RowsFollow, ButtonFollows, ItemsOf
<1>. QED
  BY <1>1, <1>2, <1>3, <1>4

LEMMA DeleteStep ==
  ASSUME KInv, NEW d \in deletes, Deleted(d) \/ NotDeleted(d) \/ DeleteReturns(d)
  PROVE  KInv'
<1>. USE SecretKeyringAssumption
<1>0. d \in Deletions
  BY DEF KInv, KTyped
<1>1. CASE Deleted(d)
  <2>1. [d EXCEPT !.done = TRUE] \in Deletions
    BY <1>0 DEF Deletions
  <2>2. service' \in Copies /\ Edited \notin service'.items
    BY <1>0, <1>1 DEF Deleted, KInv, KTyped, Copies, Deletions
  <2>. QED
    BY <1>1, <2>1, <2>2, ServiceStep DEF Deleted, KInv, KTyped
<1>2. CASE NotDeleted(d)
  BY <1>2, ServiceStep DEF NotDeleted, KInv, KTyped
<1>3. CASE DeleteReturns(d)
  <2>1. /\ UNCHANGED <<service, cache, collections, table, button, generating>>
        /\ deletes' = deletes \ {d} /\ rows' \in {rows, rows \ {Edited}} /\ d.done
    BY <1>0, <1>3 DEF DeleteReturns, Deletions
  <2>2. KTyped'
    BY <2>1 DEF KInv, KTyped
  <2>3. TableFollows' /\ ButtonFollows'
    BY <2>1 DEF KInv, TableFollows, ButtonFollows, ItemsOf
  <2>4. RowsFollow'
    BY <2>1 DEF KInv, RowsFollow
  <2>. QED
    BY <2>2, <2>3, <2>4 DEF KInv
<1>. QED
  BY <1>1, <1>2, <1>3

LEMMA KeyringStep == ASSUME KInv, Others \/ KeyringUser \/ KeyringLoop PROVE KInv'
<1>1. CASE Others
  BY <1>1, OthersStep
<1>2. CASE KeyringUser
  BY <1>2, UnlockClickedStep, GenerateStep DEF KeyringUser
<1>3. CASE KeyringLoop
  BY <1>3, LoadCollectionsStep, ItemsChangedStep, LockedChangedStep, UnlockStep, GenerateStep,
     DeleteStep DEF KeyringLoop
<1>. QED
  BY <1>1, <1>2, <1>3
---------------------------------------------------------------------------
(* Types of the item and its editor.                                        *)

LEMMA InitTyped == Init => ETyped
<1>. SUFFICES ASSUME Init PROVE ETyped
  OBVIOUS
<1>. USE SecretEditorAssumption
<1>1. row \in [Shown -> Values]
  BY DEF Init, Parts, Attributes
<1>2. dialog \in Dialogs /\ ~dialog.open /\ dialog.pending = {}
  BY DEF Init, Closed, Dialogs
<1>3. writes = << >>
  BY DEF Init
<1>. QED
  <2>1. << >> \in Seq(Writes)
    BY EmptySeq
  <2>. QED
    BY <1>1, <1>2, <1>3, <2>1 DEF Init, ETyped

\* All calls on their way have lost their SecretItem.
Drop(ws) == [i \in DOMAIN ws |-> [ws[i] EXCEPT !.dropped = TRUE]]

LEMMA DropTyped ==
  ASSUME NEW ws \in Seq(Writes)
  PROVE  /\ Drop(ws) \in Seq(Writes) /\ DOMAIN Drop(ws) = DOMAIN ws
         /\ \A i \in DOMAIN ws :
              /\ Drop(ws)[i].value = ws[i].value /\ Drop(ws)[i].typed = ws[i].typed
              /\ Drop(ws)[i].late = ws[i].late
<1>1. \A i \in DOMAIN ws : ws[i] \in Writes
  OBVIOUS
<1>2. \A w \in Writes : LET d == [w EXCEPT !.dropped = TRUE]
                        IN  d \in Writes /\ d.value = w.value /\ d.typed = w.typed /\ d.late = w.late
  BY DEF Writes
<1>3. DOMAIN ws = 1..Len(ws) /\ Len(ws) \in Nat
  OBVIOUS
<1>4. Drop(ws) \in [1..Len(ws) -> Writes]
  BY <1>1, <1>2, <1>3 DEF Drop
<1>5. Drop(ws) \in Seq(Writes)
  BY <1>3, <1>4, SeqDef
<1>. QED
  BY <1>1, <1>2, <1>5 DEF Drop

LEMMA FollowTyped == ASSUME ETyped, Follow PROVE ETyped'
<1>1. dialog' \in Dialogs /\ dialog'.open = dialog.open /\ dialog'.pending = dialog.pending
                          /\ dialog'.text = dialog.text
  BY DEF Follow, ETyped, Dialogs
<1>2. writes' \in Seq(Writes)
  <2>1. writes' = writes \/ writes' = Drop(writes)
    BY DEF Follow, Drop
  <2>. QED
    BY <2>1, DropTyped DEF ETyped
<1>3. row' \in [Shown -> Values]
  BY DEF Follow, ETyped, Parts, Attributes
<1>. QED
  BY <1>1, <1>2, <1>3 DEF Follow, ETyped

LEMMA ItemTyped ==
  ASSUME ETyped, ItemChanged \/ \E p \in Parts, v \in Theirs : OutsideChanges(p, v)
  PROVE  ETyped'
<1>1. item' \in [Parts -> Values] /\ copy' \in [Parts -> Values]
  BY SecretEditorAssumption DEF ItemChanged, OutsideChanges, ETyped
<1>2. UNCHANGED <<dialog, writes, row>>
  BY DEF ItemChanged, OutsideChanges
<1>. QED
  BY <1>1, <1>2 DEF ETyped

LEMMA OpenTyped ==
  ASSUME ETyped, Open \/ SecretLoaded \/ SecretNotLoaded
  PROVE  ETyped'
<1>1. UNCHANGED <<item, writes, row>> /\ copy' \in [Parts -> Values]
  BY DEF Open, SecretLoaded, SecretNotLoaded, ETyped, Parts, Texts
<1>2. dialog' \in Dialogs /\ dialog'.text \in [Entry -> Values]
  <2>1. CASE Open
    <3>1. Entries \in [Entry -> Values]
      BY SecretEditorAssumption DEF Entries, Entry, ETyped, Parts, Attributes, Texts
    <3>. QED
      BY <2>1, <3>1 DEF Open, Dialogs
  <2>2. CASE SecretLoaded
    <3>1. item["secret"] \in Values
      BY DEF ETyped, Parts, Texts
    <3>2. dialog \in Dialogs /\ dialog.text \in [Entry -> Values]
      BY <2>2 DEF SecretLoaded, ETyped
    <3>3. [dialog.text EXCEPT !["secret"] = item["secret"]] \in [Entry -> Values]
      BY <3>1, <3>2
    <3>4. dialog' = [dialog EXCEPT !.secret = "loaded",
                                   !.text = [dialog.text EXCEPT !["secret"] = item["secret"]]]
      BY <2>2, Zenon DEF SecretLoaded
    <3>. QED
      BY <3>2, <3>3, <3>4 DEF Dialogs
  <2>3. CASE SecretNotLoaded
    <3>1. dialog \in Dialogs /\ dialog.text \in [Entry -> Values]
      BY <2>3 DEF SecretNotLoaded, ETyped
    <3>. QED
      BY <2>3, <3>1 DEF SecretNotLoaded, Dialogs
  <2>. QED
    BY <2>1, <2>2, <2>3
<1>. QED
  BY <1>1, <1>2 DEF ETyped

LEMMA CloseTyped == ASSUME ETyped, Close \/ DeleteItem PROVE ETyped'
<1>1. dialog \in Dialogs /\ dialog.text \in [Entry -> Values]
  BY DEF Close, DeleteItem, ETyped
<1>2. PICK text \in {dialog.text, [p \in Texts \cup Shown |-> ""]} :
        dialog' = [dialog EXCEPT !.open = FALSE,
                                 !.text = IF dialog.pending = {} THEN << >> ELSE text]
  BY DEF Close, DeleteItem, Destroyed
<1>3. text \in [Entry -> Values]
  BY <1>1, SecretEditorAssumption DEF Entry
<1>4. /\ dialog' \in Dialogs /\ ~dialog'.open /\ dialog'.pending = dialog.pending
      /\ dialog.pending # {} => dialog'.text \in [Entry -> Values]
  BY <1>1, <1>2, <1>3 DEF Dialogs
<1>. QED
  BY <1>4 DEF Close, DeleteItem, ETyped

LEMMA TypeTyped ==
  ASSUME ETyped, NEW p \in Texts \cup Shown, NEW v \in Typed, Type(p, v)
  PROVE  ETyped'
<1>1. dialog \in Dialogs /\ dialog.text \in [Entry -> Values] /\ v \in Values
  BY SecretEditorAssumption DEF Type, ETyped
<1>. DEFINE text == [dialog.text EXCEPT ![p] = v]
            pending == IF Watched(p) THEN dialog.pending \cup {FieldOf(p)} ELSE dialog.pending
<1>2. text \in [Entry -> Values]
  BY <1>1
<1>3. p \in Parts /\ FieldOf(p) \in Fields
  BY DEF Parts, Attributes, FieldOf, Fields
<1>4. pending \subseteq Fields
  BY <1>1, <1>3 DEF Dialogs
<1>5. dialog' = [dialog EXCEPT !.text = text, !.typed = dialog.typed \cup {p}, !.pending = pending]
  BY Zenon DEF Type
<1>. HIDE DEF text, pending
<1>6. dialog' \in Dialogs /\ dialog'.text = text
  BY <1>1, <1>2, <1>3, <1>4, <1>5 DEF Dialogs
<1>. QED
  BY <1>2, <1>6 DEF Type, ETyped

LEMMA ValueTyped ==
  ASSUME ETyped, NEW f \in Fields, dialog.text \in [Entry -> Values]
  PROVE  Value(f) \in [PartsOf(f) -> Values]
BY DEF Value, ETyped, Entry, PartsOf, Fields, Parts

LEMMA IdleTyped == ASSUME ETyped, NEW f \in Fields, Idle(f) PROVE ETyped'
<1>. DEFINE text == IF dialog.open \/ dialog.pending # {f} THEN dialog.text ELSE << >>
            w == [value |-> Value(f), typed |-> dialog.typed, late |-> ~dialog.open,
                  dropped |-> dialog.dropped]
<1>1. dialog \in Dialogs /\ dialog.text \in [Entry -> Values] /\ f \in dialog.pending
  BY DEF Idle, ETyped
<1>2. dialog' = [dialog EXCEPT !.pending = dialog.pending \ {f}, !.text = text]
  BY DEF Idle
<1>3. text \in [Entry -> Values] \cup {<< >>}
  BY <1>1
<1>4. w \in Writes
  BY <1>1, ValueTyped DEF Writes, Contents, Dialogs
<1>5. writes' = writes \/ writes' = Append(writes, w)
  BY DEF Idle
<1>6. writes' \in Seq(Writes)
  <2>. HIDE DEF w
  <2>. QED
    BY <1>4, <1>5 DEF ETyped
<1>7. dialog'.open \/ dialog'.pending # {} => text = dialog.text
  <2>1. dialog'.open = dialog.open /\ dialog'.pending = dialog.pending \ {f}
    <3>. HIDE DEF text
    <3>. QED
      BY <1>1, <1>2 DEF Dialogs
  <2>. QED
    BY <1>1, <2>1
<1>8. dialog' \in Dialogs /\ dialog'.text = text
  <2>. HIDE DEF text
  <2>. QED
    BY <1>1, <1>2, <1>3 DEF Dialogs
<1>. QED
  BY <1>1, <1>6, <1>7, <1>8 DEF Idle, ETyped

\* What a call that comes back has done to the item and to libsecret's copy.
LEMMA ValueOver ==
  ASSUME NEW f \in Fields, NEW v \in [PartsOf(f) -> Values], NEW old \in [Parts -> Values]
  PROVE  /\ Over(v, old) \in [Parts -> Values]
         /\ \A p \in Parts : Over(v, old)[p] = IF p \in PartsOf(f) THEN v[p] ELSE old[p]
<1>1. PartsOf(f) \subseteq Parts
  BY DEF Fields, PartsOf, Parts
<1>. QED
  BY <1>1 DEF Over

LEMMA WriteTyped == ASSUME ETyped, Written \/ NotWritten PROVE ETyped'
<1>1. writes # << >> /\ writes \in Seq(Writes) /\ writes' = Tail(writes) /\ dialog' = dialog
  BY DEF Written, NotWritten, ETyped
<1>2. writes' \in Seq(Writes) /\ Head(writes) \in Writes
  BY <1>1
<1>3. CASE NotWritten
  BY <1>1, <1>2, <1>3 DEF NotWritten, ETyped
<1>4. CASE Written
  <2>. DEFINE w == Head(writes)
  <2>1. PICK f \in Fields : w.value \in [PartsOf(f) -> Values]
    BY <1>2 DEF Writes, Contents
  <2>2. item' = Over(w.value, item) /\ copy' = Over(w.value, copy)
    BY <1>4 DEF Written
  <2>3. item' \in [Parts -> Values] /\ copy' \in [Parts -> Values]
    BY <2>1, <2>2, ValueOver DEF ETyped
  <2>4. row' \in [Shown -> Values]
    BY <1>4, <2>1 DEF Written, RowIsRemade, ETyped, Attributes
  <2>. QED
    BY <1>1, <1>2, <2>3, <2>4 DEF ETyped
<1>. QED
  BY <1>3, <1>4 DEF Written, NotWritten

LEMMA TypedStep == ASSUME ETyped, [Next]_vars PROVE ETyped'
<1>1. CASE UNCHANGED vars
  BY <1>1 DEF vars, editorVars, ETyped
<1>2. CASE Unscheduled
  BY <1>2, FollowTyped, ItemTyped, OpenTyped, CloseTyped, TypeTyped DEF Unscheduled
<1>3. CASE Loop
  BY <1>3, FollowTyped, ItemTyped, OpenTyped, WriteTyped, IdleTyped DEF Loop
<1>. QED
  BY <1>1, <1>2, <1>3 DEF Next

---------------------------------------------------------------------------
(* The panel shows the keyring.                                             *)

LEMMA DeleteItemStep == ASSUME KInv, ETyped, DeleteItem PROVE KInv'
<1>1. UNCHANGED <<service, cache, collections, table, rows, button, generating>>
  BY DEF DeleteItem, panel
<1>2. dialog.dropped \in BOOLEAN
  BY DEF ETyped, Dialogs
<1>3. /\ deletes' \subseteq Deletions
      /\ \A d \in deletes' : d.done => d \in deletes
  <2>. DEFINE d == [item |-> Edited, dropped |-> dialog.dropped, done |-> FALSE]
  <2>1. d \in Deletions /\ ~d.done
    BY <1>2 DEF Deletions
  <2>2. deletes' = deletes \cup {d}
    BY DEF DeleteItem, StartDelete
  <2>. QED
    BY <2>1, <2>2 DEF KInv, KTyped
<1>. QED
  BY <1>1, <1>3 DEF KInv, KTyped, TableFollows, RowsFollow, ButtonFollows, ItemsOf, HasLocked

LEMMA KInvStep == ASSUME KInv, ETyped, [Next]_vars PROVE KInv'
<1>1. CASE UNCHANGED <<service, cache, panel, calls>>
  BY <1>1 DEF KInv, KTyped, TableFollows, RowsFollow, ButtonFollows, ItemsOf, HasLocked, panel, calls
<1>2. CASE Others \/ KeyringUser \/ KeyringLoop
  BY <1>2, KeyringStep
<1>3. CASE DeleteItem
  BY <1>3, DeleteItemStep
<1>4. \/ Others \/ KeyringUser \/ KeyringLoop \/ DeleteItem
      \/ UNCHANGED <<service, cache, panel, calls>>
  BY DEF Next, Unscheduled, Loop, OutsideChanges, Open, Close, Type, ItemChanged, SecretLoaded,
         SecretNotLoaded, Written, NotWritten, Idle, vars, keyringVars
<1>. QED
  BY <1>1, <1>2, <1>3, <1>4

LEMMA RowsAreTheTable == KInv => ShowsTheKeyring
<1>. SUFFICES ASSUME KInv, Told, collections # {} PROVE
       /\ rows = ItemsOf(service, collections \ service.locked) \cap Known
       /\ button = HasLocked(service, collections)
  BY DEF ShowsTheKeyring
<1>1. cache = service
  BY DEF Told
<1>2. table = ItemsOf(service, collections \ service.locked) \cap Known
  BY <1>1 DEF KInv, TableFollows
<1>3. rows = table
  BY <1>2 DEF KInv, RowsFollow, ItemsOf
<1>. QED
  BY <1>1, <1>2, <1>3 DEF KInv, ButtonFollows

\* Once the notifications have been delivered, the panel shows the known items of the collections
\* that are not locked, and the unlock button if one is locked: for every keyring, in whatever
\* order "items" and "locked" are told, and whatever is being deleted, generated or unlocked.
THEOREM PanelShowsTheKeyring == Spec => []ShowsTheKeyring
<1>1. Init => KInv /\ ETyped
  BY KInvInit, InitTyped DEF Init
<1>2. (KInv /\ ETyped) /\ [Next]_vars => (KInv /\ ETyped)'
  BY KInvStep, TypedStep
<1>3. KInv => ShowsTheKeyring
  BY RowsAreTheTable
<1>. QED
  BY <1>1, <1>2, <1>3, PTL DEF Spec
---------------------------------------------------------------------------
(* The row shows the item.                                                  *)

Keeps == CopyFollows /\ RowFollows

LEMMA KeepsInit == Init => Keeps
BY DEF Init, Keeps, CopyFollows, RowFollows, RowShowsTheItem

\* libsecret's copy goes into a new row.
LEMMA FollowKeeps == ASSUME Keeps, Follow PROVE Keeps'
<1>1. CopyFollows'
  BY DEF Keeps, CopyFollows, Follow
<1>2. RowFollows'
  <2>1. CASE Edited \in rows' \ rows
    BY <2>1 DEF Keeps, CopyFollows, RowFollows, RowShowsTheItem, Follow, Parts, Attributes
  <2>2. CASE Edited \notin rows' \ rows
    BY <2>2 DEF Keeps, RowFollows, RowShowsTheItem, Follow
  <2>. QED
    BY <2>1, <2>2
<1>. QED
  BY <1>1, <1>2 DEF Keeps

LEMMA ChangesKeep ==
  ASSUME ETyped, Keeps, NEW p \in Parts, NEW v \in Theirs, OutsideChanges(p, v)
  PROVE  Keeps'
<1>1. /\ \A q \in Parts : q # p => item'[q] = item[q]
      /\ others' = others \cup {p} /\ UNCHANGED <<copy, rows, row>>
  BY DEF OutsideChanges, ETyped, panel
<1>. QED
  BY <1>1 DEF Keeps, CopyFollows, RowFollows, RowShowsTheItem, Parts, Attributes

\* Being told, and loading the password, bring the copy closer to the item.
LEMMA TellingKeeps == ASSUME ETyped, Keeps, ItemChanged \/ SecretLoaded PROVE Keeps'
<1>1. UNCHANGED <<item, rows, row, others>>
  BY DEF ItemChanged, SecretLoaded, keyringVars, panel
<1>2. \A p \in Parts : copy'[p] \in {copy[p], item[p]}
  BY DEF ItemChanged, SecretLoaded, ETyped
<1>. QED
  BY <1>1, <1>2 DEF Keeps, CopyFollows, RowFollows, RowShowsTheItem

\* A write changes the item, the copy and the row alike, unless the row is not of its SecretItem.
LEMMA WriteKeeps == ASSUME ETyped, Keeps, Written PROVE Keeps'
<1>. DEFINE w == Head(writes)
<1>1. w \in Writes
  BY DEF Written, ETyped
<1>2. PICK f \in Fields : w.value \in [PartsOf(f) -> Values]
  BY <1>1 DEF Writes, Contents
<1>3. /\ item' = Over(w.value, item) /\ copy' = Over(w.value, copy)
      /\ row' = IF RowIsRemade(w) THEN [a \in Shown |-> w.value[a]] ELSE row
      /\ others' = IF w.dropped THEN others \cup DOMAIN w.value ELSE others
      /\ rows' = rows
  BY DEF Written, keyringVars, panel
<1>. HIDE DEF w
<1>4. \A p \in Parts : /\ item'[p] = IF p \in PartsOf(f) THEN w.value[p] ELSE item[p]
                       /\ copy'[p] = IF p \in PartsOf(f) THEN w.value[p] ELSE copy[p]
  BY <1>2, <1>3 DEF Over
<1>5. CopyFollows'
  BY <1>3, <1>4 DEF Keeps, CopyFollows
<1>6. \A a \in Shown : row[a] = item[a] \/ a \in others \/ Edited \notin rows
  BY DEF Keeps, RowFollows, RowShowsTheItem
<1>7. ASSUME Edited \in rows, NEW a \in Shown PROVE row'[a] = item'[a] \/ a \in others'
  <2>1. a \in Parts /\ a \notin Texts
    BY SecretEditorAssumption DEF Parts, Attributes
  <2>2. CASE RowIsRemade(w)
    <3>1. a \in PartsOf(f)
      BY <1>2, <2>2 DEF RowIsRemade, Attributes
    <3>. QED
      BY <1>3, <1>4, <2>1, <2>2, <3>1
  <2>3. CASE ~RowIsRemade(w) /\ a \in PartsOf(f)
    <3>1. w.dropped
      BY <1>2, <1>7, <2>1, <2>3 DEF RowIsRemade, PartsOf
    <3>. QED
      BY <1>2, <1>3, <2>3, <3>1
  <2>4. CASE ~RowIsRemade(w) /\ a \notin PartsOf(f)
    BY <1>3, <1>4, <1>6, <1>7, <2>1, <2>4
  <2>. QED
    BY <2>2, <2>3, <2>4
<1>. QED
  BY <1>3, <1>5, <1>7 DEF Keeps, RowFollows, RowShowsTheItem

LEMMA KeepsStep == ASSUME ETyped, Keeps, [Next]_vars PROVE Keeps'
<1>1. CASE UNCHANGED <<item, copy, row, rows, others>>
  BY <1>1 DEF Keeps, CopyFollows, RowFollows, RowShowsTheItem
<1>2. \/ Follow \/ ItemChanged \/ SecretLoaded \/ Written
      \/ \E p \in Parts, v \in Theirs : OutsideChanges(p, v)
      \/ UNCHANGED <<item, copy, row, rows, others>>
  BY DEF Next, Unscheduled, Loop, Open, Close, DeleteItem, Type, SecretNotLoaded, NotWritten, Idle,
         vars, editorVars, keyringVars, panel
<1>. QED
  BY <1>1, <1>2, FollowKeeps, ChangesKeep, TellingKeeps, WriteKeeps

\* The row of a password shows the attributes the item has, except those other programs, or a
\* dialog that was left behind when the collection was locked, have changed: for every number of
\* attributes, every way of formatting them, and any edits and failures.
THEOREM RowShows == Spec => []RowShowsTheItem
<1>1. Init => ETyped /\ Keeps
  BY InitTyped, KeepsInit
<1>2. (ETyped /\ Keeps) /\ [Next]_vars => (ETyped /\ Keeps)'
  BY TypedStep, KeepsStep
<1>3. Keeps => RowShowsTheItem
  BY DEF Keeps, RowFollows
<1>. QED
  BY <1>1, <1>2, <1>3, PTL DEF Spec
---------------------------------------------------------------------------
(* Writes leave alone what was not typed in.                                *)

LEMMA FieldsApart ==
  ASSUME NEW f \in Fields, NEW g \in Fields, f # g
  PROVE  PartsOf(f) \cap PartsOf(g) = {} /\ PartsOf(f) # PartsOf(g)
<1>1. Texts \cap Attributes = {} /\ "secret" # "label"
  BY SecretEditorAssumption
<1>2. f \in Texts \/ g \in Texts
  BY DEF Fields
<1>3. \A h \in Fields : IF h \in Texts THEN PartsOf(h) = {h} ELSE PartsOf(h) = Attributes
  BY DEF PartsOf
<1>4. PartsOf(f) \cap PartsOf(g) = {}
  BY <1>1, <1>2, <1>3
<1>5. PartsOf(f) # {} \/ PartsOf(g) # {}
  BY <1>2, <1>3
<1>. QED
  BY <1>4, <1>5

LEMMA FieldOfPart ==
  ASSUME NEW p \in Entry
  PROVE  p \in Parts /\ FieldOf(p) \in Fields /\ p \in PartsOf(FieldOf(p))
<1>1. CASE p \in Texts
  BY <1>1 DEF FieldOf, Fields, PartsOf, Parts
<1>2. CASE p \notin Texts
  <2>1. p \in Attributes /\ "attributes" \notin Texts
    BY <1>2 DEF Entry, Attributes, Texts
  <2>. QED
    BY <1>2, <2>1 DEF FieldOf, Fields, PartsOf, Parts
<1>. QED
  BY <1>1, <1>2

LEMMA WriteOfField ==
  ASSUME ETyped, NEW i \in DOMAIN writes
  PROVE  writes[i] \in Writes /\ \E f \in Fields : OfField(writes[i], f)
<1>1. writes[i] \in Writes
  BY DEF ETyped
<1>. QED
  BY <1>1 DEF Writes, Contents, OfField

\* The calls that are left when the first one has come back.
LEMMA Rest ==
  ASSUME ETyped, writes # << >>
  PROVE  /\ 1 \in DOMAIN writes /\ Head(writes) = writes[1] /\ DOMAIN writes \subseteq Nat
         /\ \A k \in DOMAIN Tail(writes) :
              k \in Nat /\ k + 1 \in DOMAIN writes /\ k > 0 /\ Tail(writes)[k] = writes[k + 1]
         /\ \A k \in DOMAIN writes : k # 1 =>
              k - 1 \in DOMAIN Tail(writes) /\ Tail(writes)[k - 1] = writes[k]
<1>1. writes \in Seq(Writes) /\ writes # << >>
  BY DEF ETyped
<1>. QED
  BY <1>1

\* A step that neither types, writes nor returns a write.
LEMMA OtherEdits ==
  ASSUME Edits,
         DOMAIN writes' = DOMAIN writes,
         \A i \in DOMAIN writes : /\ writes'[i].value = writes[i].value
                                  /\ writes'[i].typed = writes[i].typed
                                  /\ writes'[i].late = writes[i].late,
         dialog'.pending = dialog.pending, dialog'.typed = dialog.typed,
         dialog'.open => dialog.open /\ \A p \in Shown : dialog'.text[p] = dialog.text[p],
         others \subseteq others', \A p \in Parts : item'[p] = item[p] \/ p \in others'
  PROVE  Edits'
<1>. USE DEF Edits
<1>1. PendingIsTyped' /\ OfThisDialog' /\ InOrder'
  BY DEF PendingIsTyped, OfThisDialog, InOrder, OfField
<1>2. WrittenIsTyped'
  BY DEF WrittenIsTyped, Unchanged, Parts
<1>3. ShownIsTyped'
  BY DEF ShownIsTyped, Unchanged, Parts, Attributes
<1>4. HiddenIsKept'
  BY DEF HiddenIsKept, OfField, Parts, Attributes
<1>. QED
  BY <1>1, <1>2, <1>3, <1>4

LEMMA FollowEdits == ASSUME ETyped, Edits, Follow PROVE Edits'
<1>1. /\ dialog'.open = dialog.open /\ dialog'.pending = dialog.pending
      /\ dialog'.text = dialog.text /\ dialog'.typed = dialog.typed
  BY DEF Follow, ETyped, Dialogs
<1>2. /\ DOMAIN writes' = DOMAIN writes
      /\ \A i \in DOMAIN writes : /\ writes'[i].value = writes[i].value
                                  /\ writes'[i].typed = writes[i].typed
                                  /\ writes'[i].late = writes[i].late
  <2>1. writes' = writes \/ writes' = Drop(writes)
    BY DEF Follow, Drop
  <2>. QED
    BY <2>1, DropTyped DEF ETyped
<1>3. UNCHANGED <<item, others>>
  BY DEF Follow
<1>. QED
  BY <1>1, <1>2, <1>3, OtherEdits

LEMMA ItemEdits ==
  ASSUME ETyped, Edits, ItemChanged \/ \E p \in Parts, v \in Theirs : OutsideChanges(p, v)
  PROVE  Edits'
<1>1. /\ UNCHANGED <<dialog, writes>> /\ others \subseteq others'
      /\ \A p \in Parts : item'[p] = item[p] \/ p \in others'
  BY DEF ItemChanged, OutsideChanges, ETyped
<1>. QED
  BY <1>1, OtherEdits

LEMMA DialogEdits ==
  ASSUME ETyped, Edits, SecretLoaded \/ SecretNotLoaded \/ Close \/ DeleteItem
  PROVE  Edits'
<1>1. dialog \in Dialogs /\ dialog.text \in [Entry -> Values] /\ UNCHANGED <<item, others, writes>>
  BY DEF SecretLoaded, SecretNotLoaded, Close, DeleteItem, ETyped
<1>2. /\ dialog'.pending = dialog.pending /\ dialog'.typed = dialog.typed
      /\ dialog'.open => dialog.open /\ \A p \in Shown : dialog'.text[p] = dialog.text[p]
  <2>1. CASE SecretLoaded
    <3>1. \A p \in Shown : [dialog.text EXCEPT !["secret"] = item["secret"]][p] = dialog.text[p]
      BY <1>1, SecretEditorAssumption DEF Entry, Texts, Attributes
    <3>2. dialog' = [dialog EXCEPT !.secret = "loaded",
                                   !.text = [dialog.text EXCEPT !["secret"] = item["secret"]]]
      BY <2>1, Zenon DEF SecretLoaded
    <3>. QED
      BY <1>1, <3>1, <3>2, <2>1 DEF SecretLoaded, Dialogs
  <2>2. CASE SecretNotLoaded
    BY <1>1, <2>2 DEF SecretNotLoaded, Dialogs
  <2>3. CASE Close \/ DeleteItem
    BY <1>1, <2>3 DEF Close, DeleteItem, Destroyed, Dialogs
  <2>. QED
    BY <2>1, <2>2, <2>3
<1>. QED
  BY <1>1, <1>2, OtherEdits

\* A new dialog shows what libsecret has, formatted.
LEMMA OpenEdits == ASSUME ETyped, Keeps, Edits, Open PROVE Edits'
<1>1. /\ writes = << >> /\ writes' = << >> /\ UNCHANGED <<item, others>>
      /\ dialog'.pending = {} /\ dialog'.text = Entries
  BY DEF Open
<1>2. \A p \in Shown : dialog'.text[p] = Format[copy[p]] /\ (copy[p] = item[p] \/ p \in others)
  BY <1>1, SecretEditorAssumption
  DEF Entries, Entry, Texts, Attributes, Parts, Keeps, CopyFollows
<1>3. ShownIsTyped'
  BY <1>1, <1>2 DEF ShownIsTyped, Unchanged
<1>. QED
  BY <1>1, <1>3 DEF Edits, PendingIsTyped, WrittenIsTyped, HiddenIsKept, OfThisDialog, InOrder

LEMMA TypeEdits ==
  ASSUME ETyped, Edits, NEW q \in Texts \cup Shown, NEW v \in Typed, Type(q, v)
  PROVE  Edits'
<1>1. dialog \in Dialogs /\ dialog.open /\ dialog.text \in [Entry -> Values]
  BY DEF Type, ETyped
<1>2. /\ dialog'.open /\ dialog'.typed = dialog.typed \cup {q}
      /\ dialog'.pending \subseteq dialog.pending \cup {FieldOf(q)}
      /\ \A p \in Entry : p # q => dialog'.text[p] = dialog.text[p]
      /\ UNCHANGED <<item, others, writes>>
  <2>. DEFINE text == [dialog.text EXCEPT ![q] = v]
              pending == IF Watched(q) THEN dialog.pending \cup {FieldOf(q)} ELSE dialog.pending
  <2>1. dialog' = [dialog EXCEPT !.text = text, !.typed = dialog.typed \cup {q}, !.pending = pending]
    BY Zenon DEF Type
  <2>2. \A p \in Entry : p # q => text[p] = dialog.text[p]
    BY <1>1
  <2>3. pending \subseteq dialog.pending \cup {FieldOf(q)}
    OBVIOUS
  <2>. HIDE DEF text, pending
  <2>. QED
    BY <1>1, <2>1, <2>2, <2>3 DEF Type, Dialogs
<1>3. PendingIsTyped'
  BY <1>2 DEF Edits, PendingIsTyped, FieldOf, Texts
<1>4. WrittenIsTyped' /\ HiddenIsKept' /\ InOrder'
  BY <1>2 DEF Edits, WrittenIsTyped, HiddenIsKept, InOrder, OfField, Unchanged
<1>5. ShownIsTyped' /\ OfThisDialog'
  BY <1>1, <1>2 DEF Edits, ShownIsTyped, OfThisDialog, OfField, Unchanged, Entry
<1>. QED
  BY <1>3, <1>4, <1>5 DEF Edits

\* A callback adds a write that holds what was typed in, and nothing else but what there was.
LEMMA IdleEdits ==
  ASSUME ETyped, Keeps, Edits, NEW f \in Fields, Idle(f)
  PROVE  Edits'
<1>. DEFINE text == IF dialog.open \/ dialog.pending # {f} THEN dialog.text ELSE << >>
            w == [value |-> Value(f), typed |-> dialog.typed, late |-> ~dialog.open,
                  dropped |-> dialog.dropped]
            n == Len(writes) + 1
<1>1. dialog \in Dialogs /\ dialog.text \in [Entry -> Values] /\ f \in dialog.pending
  BY DEF Idle, ETyped
<1>2. /\ dialog'.open = dialog.open /\ dialog'.typed = dialog.typed
      /\ dialog'.pending = dialog.pending \ {f}
      /\ dialog.open => dialog'.text = dialog.text
      /\ UNCHANGED <<item, others>>
  <2>1. dialog' = [dialog EXCEPT !.pending = dialog.pending \ {f}, !.text = text]
    BY DEF Idle
  <2>2. dialog.open => text = dialog.text
    OBVIOUS
  <2>. HIDE DEF text
  <2>. QED
    BY <1>1, <2>1, <2>2 DEF Idle, Dialogs
<1>3. PendingIsTyped' /\ ShownIsTyped'
  BY <1>2 DEF Edits, PendingIsTyped, ShownIsTyped, Unchanged
<1>4. CASE writes' = writes
  BY <1>2, <1>3, <1>4 DEF Edits, WrittenIsTyped, HiddenIsKept, OfThisDialog, InOrder, Unchanged
<1>5. CASE writes' = Append(writes, w)
  <2>1. /\ DOMAIN Value(f) = PartsOf(f)
        /\ \A p \in PartsOf(f) \cap Entry : Value(f)[p] = dialog.text[p]
        /\ \A p \in PartsOf(f) \ Entry : Value(f)[p] = copy[p]
    BY <1>1 DEF Value
  <2>2. /\ w.value = Value(f) /\ w.typed = dialog.typed /\ w.late = ~dialog.open
    OBVIOUS
  <2>. HIDE DEF w
  <2>3. /\ DOMAIN writes' = DOMAIN writes \cup {n} /\ writes'[n] = w
        /\ \A i \in DOMAIN writes : writes'[i] = writes[i] /\ i < n /\ i \in Nat
        /\ n \in Nat
    <3>1. writes \in Seq(Writes)
      BY DEF ETyped
    <3>. QED
      BY <1>5, <3>1
  <2>. HIDE DEF n
  <2>4. dialog.open => \A p \in PartsOf(f) :
          p \in dialog.typed \cup others \/ (p \in Attributes /\ Unchanged(Value(f)[p], p, item[p]))
    <3>1. CASE f \in Texts
      <4>1. f \in dialog.typed /\ PartsOf(f) = {f}
        BY <1>1, <3>1 DEF Edits, PendingIsTyped, PartsOf
      <4>. QED
        BY <4>1
    <3>2. CASE f \notin Texts
      <4>1. \A p \in Hidden : p \notin Entry => copy[p] = item[p] \/ p \in others
        BY DEF Keeps, CopyFollows, Parts, Attributes
      <4>2. \A p \in Hidden : p \notin Entry
        BY SecretEditorAssumption DEF Entry, Attributes
      <4>3. PartsOf(f) = Attributes
        BY <3>2 DEF PartsOf
      <4>4. SUFFICES ASSUME dialog.open, NEW p \in Attributes
                     PROVE  p \in dialog.typed \cup others \/ Unchanged(Value(f)[p], p, item[p])
        BY <4>3
      <4>5. CASE p \in Shown
        BY <2>1, <4>3, <4>4, <4>5 DEF Edits, ShownIsTyped, Entry
      <4>6. CASE p \in Hidden
        BY <2>1, <4>1, <4>2, <4>3, <4>4, <4>6 DEF Unchanged
      <4>. QED
        BY <4>4, <4>5, <4>6 DEF Attributes
    <3>. QED
      BY <3>1, <3>2
  <2>5. WrittenIsTyped'
    <3>1. SUFFICES ASSUME NEW i \in DOMAIN writes', ~writes'[i].late, NEW p \in DOMAIN writes'[i].value
          PROVE  \/ p \in writes'[i].typed \cup others
                 \/ p \in Attributes /\ Unchanged(writes'[i].value[p], p, item[p])
      BY <1>2 DEF WrittenIsTyped, Unchanged
    <3>2. CASE i = n
      <4>1. writes'[i] = w /\ dialog.open /\ p \in PartsOf(f)
        BY <2>1, <2>2, <2>3, <3>1, <3>2
      <4>. QED
        BY <2>2, <2>4, <4>1
    <3>3. CASE i # n
      BY <2>3, <3>1, <3>3 DEF Edits, WrittenIsTyped
    <3>. QED
      BY <3>2, <3>3
  <2>6. HiddenIsKept'
    <3>1. OfField(w, "attributes") => \A p \in Hidden : w.value[p] = item[p] \/ p \in others
      <4>1. SUFFICES ASSUME PartsOf(f) = Attributes, NEW p \in Hidden
                     PROVE  Value(f)[p] = item[p] \/ p \in others
        BY <2>1, <2>2 DEF OfField, PartsOf, Texts
      <4>2. p \notin Entry /\ p \in PartsOf(f) /\ p \in Parts
        BY <4>1, SecretEditorAssumption DEF Entry, Attributes, Parts
      <4>. QED
        BY <2>1, <4>2 DEF Keeps, CopyFollows
    <3>. QED
      BY <1>2, <2>3, <3>1 DEF Edits, HiddenIsKept, OfField
  <2>7. OfThisDialog'
    <3>1. dialog.open /\ OfField(w, "attributes") =>
            \A p \in Shown : w.value[p] = dialog.text[p]
      BY <2>1, <2>2 DEF OfField, Entry, PartsOf, Texts, Attributes
    <3>2. ASSUME dialog.open, NEW i \in DOMAIN writes'
          PROVE  /\ ~writes'[i].late /\ writes'[i].typed \subseteq dialog.typed
                 /\ OfField(writes'[i], "attributes") =>
                      \A p \in Shown \ dialog.typed : writes'[i].value[p] = dialog.text[p]
      <4>1. CASE i = n
        BY <2>2, <2>3, <3>1, <3>2, <4>1
      <4>2. CASE i # n
        BY <2>3, <3>2, <4>2 DEF Edits, OfThisDialog
      <4>. QED
        BY <4>1, <4>2
    <3>. QED
      BY <1>2, <3>2 DEF OfThisDialog, OfField
  <2>8. InOrder'
    <3>1. OfField(w, "attributes") => \A p \in Shown : w.value[p] = dialog.text[p]
      BY <2>1, <2>2 DEF OfField, Entry, PartsOf, Texts, Attributes
    <3>2. ASSUME NEW i \in DOMAIN writes, dialog.open
          PROVE  /\ ~writes[i].late /\ writes[i].typed \subseteq w.typed
                 /\ OfField(writes[i], "attributes") /\ OfField(w, "attributes") =>
                      \A p \in Shown \ w.typed : writes[i].value[p] = w.value[p]
      BY <2>2, <3>1, <3>2 DEF Edits, OfThisDialog
    <3>3. ASSUME NEW i \in DOMAIN writes', NEW j \in DOMAIN writes', i < j, ~writes'[j].late
          PROVE  /\ ~writes'[i].late /\ writes'[i].typed \subseteq writes'[j].typed
                 /\ OfField(writes'[i], "attributes") /\ OfField(writes'[j], "attributes") =>
                      \A p \in Shown \ writes'[j].typed : writes'[i].value[p] = writes'[j].value[p]
      <4>1. i \in DOMAIN writes /\ writes'[i] = writes[i]
        BY <2>3, <3>3
      <4>2. CASE j = n
        <5>1. writes'[j] = w /\ dialog.open
          BY <2>2, <2>3, <3>3, <4>2
        <5>. QED
          BY <3>2, <4>1, <5>1
      <4>3. CASE j # n
        BY <2>3, <3>3, <4>1, <4>3 DEF Edits, InOrder
      <4>. QED
        BY <4>2, <4>3
    <3>. QED
      BY <3>3 DEF InOrder, OfField
  <2>. QED
    BY <1>3, <2>5, <2>6, <2>7, <2>8 DEF Edits
<1>. QED
  BY <1>3, <1>4, <1>5 DEF Idle

\* The item after the first call has come back.
LEMMA WrittenItem ==
  ASSUME ETyped, Written
  PROVE  /\ writes # << >> /\ writes' = Tail(writes) /\ UNCHANGED <<dialog, unsaved>>
         /\ Head(writes) = writes[1] /\ 1 \in DOMAIN writes
         /\ others \subseteq others'
         /\ DOMAIN writes[1].value \subseteq Parts
         /\ \A p \in Parts : item'[p] = IF p \in DOMAIN writes[1].value
                                        THEN writes[1].value[p] ELSE item[p]
<1>1. writes # << >> /\ writes' = Tail(writes) /\ UNCHANGED <<dialog, unsaved>>
  BY DEF Written
<1>2. Head(writes) = writes[1] /\ 1 \in DOMAIN writes
  BY <1>1, Rest
<1>3. DOMAIN writes[1].value \subseteq Parts
  BY <1>2, WriteOfField DEF OfField, Fields, PartsOf, Parts
<1>4. item' = Over(writes[1].value, item)
  BY <1>2 DEF Written
<1>5. others \subseteq others'
  BY DEF Written
<1>. QED
  BY <1>1, <1>2, <1>3, <1>4, <1>5 DEF Over

LEMMA InOrderStays ==
  ASSUME InOrder, DOMAIN writes \subseteq Nat,
         \A k \in DOMAIN writes' : k \in Nat /\ k + 1 \in DOMAIN writes /\ k > 0 /\ writes'[k] = writes[k + 1]
  PROVE  InOrder'
<1>1. SUFFICES ASSUME NEW i \in DOMAIN writes', NEW j \in DOMAIN writes', i < j, ~writes'[j].late
      PROVE  /\ ~writes'[i].late /\ writes'[i].typed \subseteq writes'[j].typed
             /\ OfField(writes'[i], "attributes") /\ OfField(writes'[j], "attributes") =>
                  \A p \in Shown \ writes'[j].typed : writes'[i].value[p] = writes'[j].value[p]
  BY DEF InOrder, OfField
<1>2. /\ i + 1 \in DOMAIN writes /\ j + 1 \in DOMAIN writes /\ i + 1 < j + 1
      /\ writes'[i] = writes[i + 1] /\ writes'[j] = writes[j + 1]
  BY <1>1
<1>. QED
  BY <1>1, <1>2 DEF InOrder

LEMMA NotWrittenEdits == ASSUME ETyped, Edits, NotWritten PROVE Edits'
<1>1. writes # << >> /\ writes' = Tail(writes) /\ UNCHANGED <<item, dialog, others>>
  BY DEF NotWritten
<1>2. /\ DOMAIN writes \subseteq Nat
      /\ \A k \in DOMAIN writes' : k \in Nat /\ k + 1 \in DOMAIN writes /\ k > 0 /\ writes'[k] = writes[k + 1]
  BY <1>1, Rest
<1>3. PendingIsTyped' /\ ShownIsTyped'
  BY <1>1 DEF Edits, PendingIsTyped, ShownIsTyped, Unchanged
<1>4. WrittenIsTyped' /\ HiddenIsKept'
  BY <1>1, <1>2 DEF Edits, WrittenIsTyped, HiddenIsKept, Unchanged, OfField
<1>5. OfThisDialog'
  BY <1>1, <1>2 DEF Edits, OfThisDialog, OfField
<1>6. InOrder'
  BY <1>2, InOrderStays DEF Edits
<1>. QED
  BY <1>3, <1>4, <1>5, <1>6 DEF Edits

LEMMA WrittenEdits == ASSUME ETyped, Edits, Written PROVE Edits'
<1>. DEFINE v == writes[1].value
<1>1. /\ writes # << >> /\ writes' = Tail(writes) /\ UNCHANGED dialog /\ 1 \in DOMAIN writes
      /\ others \subseteq others' /\ DOMAIN v \subseteq Parts
      /\ \A p \in Parts : item'[p] = IF p \in DOMAIN v THEN v[p] ELSE item[p]
  BY WrittenItem
<1>2. /\ DOMAIN writes \subseteq Nat
      /\ \A k \in DOMAIN writes' : k \in Nat /\ k + 1 \in DOMAIN writes /\ k > 0 /\ writes'[k] = writes[k + 1]
  BY <1>1, Rest
<1>3. Attributes \subseteq Parts /\ Shown \subseteq Attributes /\ Hidden \subseteq Attributes
  BY DEF Parts, Attributes
<1>4. OfField(writes[1], "attributes") \/ DOMAIN v \cap Attributes = {}
  <2>1. PICK f \in Fields : OfField(writes[1], f)
    BY <1>1, WriteOfField
  <2>2. PartsOf("attributes") = Attributes /\ "attributes" \in Fields
    BY DEF PartsOf, Texts, Fields
  <2>. QED
    BY <2>1, <2>2, FieldsApart DEF OfField
<1>5. OfField(writes[1], "attributes") => DOMAIN v = Attributes
  BY DEF OfField, PartsOf, Texts
<1>6. PendingIsTyped' /\ OfThisDialog' /\ InOrder'
  <2>1. PendingIsTyped'
    BY <1>1 DEF Edits, PendingIsTyped
  <2>2. OfThisDialog'
    BY <1>1, <1>2 DEF Edits, OfThisDialog, OfField
  <2>3. InOrder'
    BY <1>2, InOrderStays DEF Edits
  <2>. QED
    BY <2>1, <2>2, <2>3
<1>7. \A p \in Hidden : item'[p] = item[p] \/ p \in others
  BY <1>1, <1>3, <1>4, <1>5 DEF Edits, HiddenIsKept
<1>8. HiddenIsKept'
  BY <1>1, <1>2, <1>7 DEF Edits, HiddenIsKept, OfField
<1>9. ShownIsTyped'
  <2>1. SUFFICES ASSUME dialog.open, NEW p \in Shown, p \notin dialog.typed \cup others
                 PROVE  Unchanged(dialog.text[p], p, item'[p])
    BY <1>1 DEF ShownIsTyped, Unchanged
  <2>2. CASE OfField(writes[1], "attributes")
    BY <1>1, <1>3, <1>5, <2>1, <2>2 DEF Edits, OfThisDialog, Unchanged
  <2>3. CASE DOMAIN v \cap Attributes = {}
    BY <1>1, <1>3, <2>1, <2>3 DEF Edits, ShownIsTyped, Unchanged
  <2>. QED
    BY <1>4, <2>2, <2>3
<1>10. WrittenIsTyped'
  <2>1. SUFFICES ASSUME NEW k \in DOMAIN writes', ~writes[k + 1].late,
                        NEW p \in DOMAIN writes[k + 1].value,
                        p \notin writes[k + 1].typed \cup others
                 PROVE  p \in Attributes /\ Unchanged(writes[k + 1].value[p], p, item'[p])
    BY <1>1, <1>2 DEF WrittenIsTyped, Unchanged
  <2>2. /\ k + 1 \in DOMAIN writes /\ 1 < k + 1 /\ p \in Attributes
        /\ Unchanged(writes[k + 1].value[p], p, item[p])
    BY <1>2, <2>1 DEF Edits, WrittenIsTyped
  <2>3. OfField(writes[k + 1], "attributes")
    <3>1. PICK f \in Fields : OfField(writes[k + 1], f)
      BY <2>2, WriteOfField
    <3>2. PartsOf("attributes") = Attributes /\ "attributes" \in Fields
      BY DEF PartsOf, Texts, Fields
    <3>. QED
      BY <2>1, <2>2, <3>1, <3>2, FieldsApart DEF OfField
  <2>4. CASE DOMAIN v \cap Attributes = {}
    BY <1>1, <1>3, <2>2, <2>4 DEF Unchanged
  <2>5. CASE OfField(writes[1], "attributes") /\ p \in Shown
    <3>1. v[p] = writes[k + 1].value[p]
      BY <1>1, <2>1, <2>2, <2>3, <2>5 DEF Edits, InOrder
    <3>. QED
      BY <1>1, <1>3, <1>5, <2>2, <2>5, <3>1 DEF Unchanged
  <2>6. CASE p \in Hidden
    BY <1>7, <2>1, <2>2, <2>6 DEF Unchanged
  <2>. QED
    BY <1>4, <2>2, <2>4, <2>5, <2>6 DEF Attributes
<1>. QED
  BY <1>6, <1>8, <1>9, <1>10 DEF Edits

LEMMA EditsStep == ASSUME ETyped, Keeps, Edits, [Next]_vars PROVE Edits'
<1>1. CASE UNCHANGED vars
  BY <1>1, OtherEdits DEF vars, editorVars
<1>2. CASE Unscheduled
  BY <1>2, FollowEdits, ItemEdits, OpenEdits, DialogEdits, TypeEdits DEF Unscheduled
<1>3. CASE Loop
  BY <1>3, FollowEdits, ItemEdits, DialogEdits, WrittenEdits, NotWrittenEdits, IdleEdits DEF Loop
<1>. QED
  BY <1>1, <1>2, <1>3 DEF Next

LEMMA EditsInit == Init => Edits
BY DEF Init, Closed, Edits, PendingIsTyped, WrittenIsTyped, ShownIsTyped, HiddenIsKept, OfThisDialog,
       InOrder

\* What a call that comes back does to the item.
Leaves ==
  writes # << >> /\ writes' = Tail(writes) =>
    \A p \in Parts :
      \/ item'[p] = item[p]
      \/ Head(writes).late
      \/ p \in Head(writes).typed \cup others
      \/ p \in Shown /\ item'[p] = Format[item[p]]

LEMMA StepLeaves == ASSUME ETyped, Edits, [Next]_vars PROVE Leaves
<1>1. CASE Written
  BY <1>1, WrittenItem DEF Leaves, Edits, WrittenIsTyped, Unchanged
<1>2. CASE UNCHANGED item
  BY <1>2 DEF Leaves
<1>3. CASE UNCHANGED writes
  <2>1. writes # << >> => Tail(writes) # writes
    <3>1. writes \in Seq(Writes)
      BY DEF ETyped
    <3>. QED
      BY <3>1
  <2>. QED
    BY <1>3, <2>1 DEF Leaves
<1>4. Written \/ UNCHANGED item \/ UNCHANGED writes
  BY DEF Next, Unscheduled, Loop, Follow, OutsideChanges, Open, Close, DeleteItem, Type, ItemChanged,
         SecretLoaded, SecretNotLoaded, NotWritten, Idle, vars, editorVars
<1>. QED
  BY <1>1, <1>2, <1>3, <1>4

\* A write changes nothing in the item but what was typed in since the dialog was opened, except
\* that an attribute may become its formatted value: for every number of attributes, every order
\* of typing, callbacks and answers, and any failures of the writes.
THEOREM EditorLeavesTheRest == Spec => EditsLeaveTheRest
<1>1. Init => ETyped /\ Keeps /\ Edits
  BY InitTyped, KeepsInit, EditsInit
<1>2. (ETyped /\ Keeps /\ Edits) /\ [Next]_vars => (ETyped /\ Keeps /\ Edits)'
  BY TypedStep, KeepsStep, EditsStep
<1>3. (ETyped /\ Keeps /\ Edits) /\ [Next]_vars => [Leaves]_vars
  BY StepLeaves
<1>. QED
  BY <1>1, <1>2, <1>3, PTL DEF Spec, EditsLeaveTheRest, Leaves
---------------------------------------------------------------------------
(* What is typed in is saved.                                               *)

\* A step that leaves the dialog's texts, what is scheduled, and the values of the writes alone.
LEMMA OtherArrives ==
  ASSUME EditsArrive,
         DOMAIN writes' = DOMAIN writes,
         \A i \in DOMAIN writes : writes'[i].value = writes[i].value,
         dialog'.open => /\ dialog.open /\ dialog'.pending = dialog.pending
                         /\ dialog'.typed = dialog.typed /\ dialog'.text = dialog.text
                         /\ dialog'.secret = dialog.secret
                            \/ (dialog.secret # "loaded" /\ dialog'.secret # "loaded"),
         unsaved \subseteq unsaved', others \subseteq others',
         \A p \in Parts : item'[p] = item[p] \/ p \in others'
  PROVE  EditsArrive'
<1>1. SUFFICES ASSUME dialog'.open
               PROVE  SecretWaits' /\ TypedArrives'
  BY DEF EditsArrive
<1>2. SecretWaits'
  BY <1>1 DEF EditsArrive, SecretWaits, OfField
<1>3. ASSUME NEW p \in Entry, OnItsWay(p) PROVE OnItsWay(p)'
  BY <1>1, <1>3, FieldOfPart DEF OnItsWay, OfField
<1>4. TypedArrives'
  BY <1>1, <1>3 DEF EditsArrive, TypedArrives, Watched
<1>. QED
  BY <1>2, <1>4

LEMMA FollowArrives == ASSUME ETyped, EditsArrive, Follow PROVE EditsArrive'
<1>1. /\ dialog'.open = dialog.open /\ dialog'.pending = dialog.pending
      /\ dialog'.text = dialog.text /\ dialog'.typed = dialog.typed /\ dialog'.secret = dialog.secret
  BY DEF Follow, ETyped, Dialogs
<1>2. /\ DOMAIN writes' = DOMAIN writes
      /\ \A i \in DOMAIN writes : writes'[i].value = writes[i].value
  <2>1. writes' = writes \/ writes' = Drop(writes)
    BY DEF Follow, Drop
  <2>. QED
    BY <2>1, DropTyped DEF ETyped
<1>3. UNCHANGED <<item, others, unsaved>>
  BY DEF Follow
<1>. QED
  BY <1>1, <1>2, <1>3, OtherArrives

LEMMA ItemArrives ==
  ASSUME ETyped, EditsArrive, ItemChanged \/ \E p \in Parts, v \in Theirs : OutsideChanges(p, v)
  PROVE  EditsArrive'
<1>1. /\ UNCHANGED <<dialog, writes, unsaved>> /\ others \subseteq others'
      /\ \A p \in Parts : item'[p] = item[p] \/ p \in others'
  BY DEF ItemChanged, OutsideChanges, ETyped
<1>. QED
  BY <1>1, OtherArrives

LEMMA OpenArrives == ASSUME Open PROVE EditsArrive'
BY DEF Open, EditsArrive, TypedArrives, SecretWaits

LEMMA CloseArrives == ASSUME ETyped, Close \/ DeleteItem PROVE EditsArrive'
<1>1. dialog \in Dialogs
  BY DEF ETyped
<1>2. ~dialog'.open
  BY <1>1 DEF Close, DeleteItem, Destroyed, Dialogs
<1>. QED
  BY <1>2 DEF EditsArrive

LEMMA NotLoadedArrives == ASSUME ETyped, EditsArrive, SecretNotLoaded PROVE EditsArrive'
<1>1. dialog \in Dialogs /\ UNCHANGED <<item, writes, unsaved, others>>
  BY DEF ETyped, SecretNotLoaded
<1>2. /\ dialog.open /\ dialog'.pending = dialog.pending /\ dialog'.typed = dialog.typed
      /\ dialog'.text = dialog.text /\ dialog.secret = "loading" /\ dialog'.secret = "failed"
  BY <1>1 DEF SecretNotLoaded, Dialogs
<1>. QED
  BY <1>1, <1>2, OtherArrives

\* The password is loaded when no write of one has been scheduled.
LEMMA LoadedArrives == ASSUME ETyped, EditsArrive, SecretLoaded PROVE EditsArrive'
<1>1. dialog \in Dialogs /\ dialog.text \in [Entry -> Values] /\ UNCHANGED <<item, writes, unsaved, others>>
  BY DEF SecretLoaded, ETyped
<1>. DEFINE text == [dialog.text EXCEPT !["secret"] = item["secret"]]
<1>2. text["secret"] = item["secret"] /\ \A p \in Entry : p # "secret" => text[p] = dialog.text[p]
  BY <1>1 DEF Entry, Texts
<1>3. dialog' = [dialog EXCEPT !.secret = "loaded", !.text = text]
  BY Zenon DEF SecretLoaded
<1>. HIDE DEF text
<1>4. /\ dialog.open /\ dialog.secret = "loading" /\ dialog'.secret = "loaded" /\ dialog'.text = text
      /\ dialog'.pending = dialog.pending /\ dialog'.typed = dialog.typed
  BY <1>1, <1>3 DEF SecretLoaded, Dialogs
<1>5. SecretWaits'
  BY <1>4 DEF SecretWaits
<1>6. ASSUME NEW p \in Entry, dialog.typed \cap PartsOf(FieldOf(p)) # {} PROVE OnItsWay(p)'
  <2>1. CASE p = "secret"
    <3>1. FieldOf(p) = "secret"
      BY <2>1 DEF FieldOf, Texts
    <3>. QED
      BY <1>1, <1>2, <1>4, <2>1, <3>1 DEF EditsArrive, SecretWaits, OnItsWay, OfField
  <2>2. CASE p # "secret"
    <3>1. OnItsWay(p)
      BY <1>4, <1>6, <2>2 DEF EditsArrive, TypedArrives, Watched
    <3>. QED
      BY <1>1, <1>2, <1>4, <2>2, <3>1 DEF OnItsWay, OfField
  <2>. QED
    BY <2>1, <2>2
<1>7. TypedArrives'
  BY <1>4, <1>6 DEF TypedArrives
<1>. QED
  BY <1>5, <1>7 DEF EditsArrive

LEMMA TypeArrives ==
  ASSUME ETyped, EditsArrive, NEW q \in Texts \cup Shown, NEW v \in Typed, Type(q, v)
  PROVE  EditsArrive'
<1>1. dialog \in Dialogs /\ dialog.open /\ dialog.text \in [Entry -> Values]
      /\ UNCHANGED <<item, others, writes, unsaved>>
  BY DEF Type, ETyped
<1>. DEFINE text == [dialog.text EXCEPT ![q] = v]
            pending == IF Watched(q) THEN dialog.pending \cup {FieldOf(q)} ELSE dialog.pending
<1>2. \A p \in Entry : p # q => text[p] = dialog.text[p]
  BY <1>1
<1>3. dialog.pending \subseteq pending /\ pending \subseteq dialog.pending \cup {FieldOf(q)}
  OBVIOUS
<1>4. Watched(q) => FieldOf(q) \in pending
  OBVIOUS
<1>5. ~Watched(q) => pending = dialog.pending
  OBVIOUS
<1>6. dialog' = [dialog EXCEPT !.text = text, !.typed = dialog.typed \cup {q}, !.pending = pending]
  BY Zenon DEF Type
<1>. HIDE DEF text, pending
<1>7. /\ dialog'.secret = dialog.secret /\ dialog'.text = text /\ dialog'.pending = pending
      /\ dialog'.typed = dialog.typed \cup {q}
  BY <1>1, <1>6 DEF Dialogs
<1>8. q \in Entry /\ (FieldOf(q) = "secret" => q = "secret")
  BY DEF Entry, FieldOf, Texts
<1>9. SecretWaits'
  <2>1. SUFFICES ASSUME dialog.secret # "loaded" PROVE "secret" \notin pending
    BY <1>1, <1>7 DEF EditsArrive, SecretWaits, OfField
  <2>2. "secret" \notin dialog.pending
    BY <1>1, <2>1 DEF EditsArrive, SecretWaits
  <2>. QED
    BY <1>3, <1>5, <1>8, <2>1, <2>2 DEF Watched
<1>10. ASSUME NEW p \in Entry, (dialog.typed \cup {q}) \cap PartsOf(FieldOf(p)) # {}, Watched(p)
       PROVE  OnItsWay(p)'
  <2>1. CASE FieldOf(p) = FieldOf(q)
    <3>1. Watched(q)
      BY <1>8, <1>10, <2>1 DEF Watched, FieldOf, Texts
    <3>. QED
      BY <1>4, <1>7, <2>1, <3>1 DEF OnItsWay
  <2>2. CASE FieldOf(p) # FieldOf(q)
    <3>1. p # q /\ q \notin PartsOf(FieldOf(p))
      BY <1>8, <2>2, FieldOfPart, FieldsApart
    <3>2. OnItsWay(p)
      BY <1>1, <1>10, <3>1 DEF EditsArrive, TypedArrives
    <3>. QED
      BY <1>1, <1>2, <1>3, <1>7, <3>1, <3>2 DEF OnItsWay, OfField
  <2>. QED
    BY <2>1, <2>2
<1>11. TypedArrives'
  BY <1>7, <1>10 DEF TypedArrives, Watched
<1>. QED
  BY <1>9, <1>11 DEF EditsArrive

\* What was scheduled is now on its way, or equal to libsecret's copy.
LEMMA IdleArrives ==
  ASSUME ETyped, Keeps, EditsArrive, NEW f \in Fields, Idle(f)
  PROVE  EditsArrive'
<1>. DEFINE text == IF dialog.open \/ dialog.pending # {f} THEN dialog.text ELSE << >>
            w == [value |-> Value(f), typed |-> dialog.typed, late |-> ~dialog.open,
                  dropped |-> dialog.dropped]
            n == Len(writes) + 1
<1>1. dialog \in Dialogs /\ dialog.text \in [Entry -> Values] /\ f \in dialog.pending
  BY DEF Idle, ETyped
<1>2. /\ dialog'.open = dialog.open /\ dialog'.typed = dialog.typed
      /\ dialog'.pending = dialog.pending \ {f} /\ dialog'.secret = dialog.secret
      /\ dialog.open => dialog'.text = dialog.text
      /\ UNCHANGED <<item, others>>
  <2>1. dialog' = [dialog EXCEPT !.pending = dialog.pending \ {f}, !.text = text]
    BY DEF Idle
  <2>2. dialog.open => text = dialog.text
    OBVIOUS
  <2>. HIDE DEF text
  <2>. QED
    BY <1>1, <2>1, <2>2 DEF Idle, Dialogs
<1>3. SUFFICES ASSUME dialog.open
               PROVE  SecretWaits' /\ TypedArrives'
  BY <1>2 DEF EditsArrive
<1>4. dialog.secret # "loaded" => f # "secret"
  BY <1>1, <1>3 DEF EditsArrive, SecretWaits
<1>5. CASE ~Differs(f)
  <2>1. /\ writes' = writes /\ f \in Texts /\ dialog.text[f] = copy[f]
        /\ unsaved' = IF Writing(f) THEN unsaved \cup {f} ELSE unsaved \ {f}
    BY <1>5 DEF Idle, Differs, Fields
  <2>2. SecretWaits'
    BY <1>2, <1>3, <2>1 DEF EditsArrive, SecretWaits, OfField
  <2>3. ASSUME NEW p \in Entry, OnItsWay(p) PROVE OnItsWay(p)'
    <3>1. CASE FieldOf(p) = f
      <4>1. p = f
        BY <2>1, <3>1 DEF FieldOf, Texts
      <4>2. copy[f] = item[f] \/ f \in others
        BY <2>1 DEF Keeps, CopyFollows, Parts
      <4>3. CASE Writing(f)
        BY <2>1, <4>1, <4>3 DEF OnItsWay
      <4>4. CASE ~Writing(f)
        <5>1. \A j \in DOMAIN writes : ~OfField(writes[j], f)
          BY <4>4 DEF Writing, OfField
        <5>. QED
          BY <1>2, <1>3, <2>1, <3>1, <4>1, <4>2, <5>1 DEF OnItsWay, OfField
      <4>. QED
        BY <4>3, <4>4
    <3>2. CASE FieldOf(p) # f
      <4>1. p # f
        BY <2>1, <3>2 DEF FieldOf
      <4>2. unsaved \ {f} \subseteq unsaved'
        BY <2>1
      <4>. QED
        BY <1>2, <1>3, <2>1, <2>3, <3>2, <4>1, <4>2 DEF OnItsWay, OfField
    <3>. QED
      BY <3>1, <3>2
  <2>4. TypedArrives'
    BY <1>2, <1>3, <2>3 DEF EditsArrive, TypedArrives, Watched
  <2>. QED
    BY <2>2, <2>4
<1>6. CASE Differs(f)
  <2>1. writes' = Append(writes, w) /\ unsaved' = unsaved \ PartsOf(f)
    BY <1>6 DEF Idle
  <2>2. /\ DOMAIN Value(f) = PartsOf(f)
        /\ \A p \in PartsOf(f) \cap Entry : Value(f)[p] = dialog.text[p]
    BY <1>1 DEF Value
  <2>3. w.value = Value(f)
    OBVIOUS
  <2>. HIDE DEF w
  <2>4. /\ DOMAIN writes' = DOMAIN writes \cup {n} /\ writes'[n] = w
        /\ \A i \in DOMAIN writes : writes'[i] = writes[i] /\ i < n /\ i \in Nat
        /\ n \in Nat
    <3>1. writes \in Seq(Writes)
      BY DEF ETyped
    <3>. QED
      BY <2>1, <3>1
  <2>. HIDE DEF n
  <2>5. \A g \in Fields : OfField(w, g) <=> g = f
    BY <2>2, <2>3, FieldsApart DEF OfField
  <2>6. \A g \in Fields \ {f} : \A i \in DOMAIN writes' :
          OfField(writes'[i], g) => i \in DOMAIN writes /\ OfField(writes[i], g)
    BY <2>4, <2>5
  <2>7. SecretWaits'
    <3>1. "secret" \in Fields
      BY DEF Fields, Texts
    <3>. QED
      BY <1>2, <1>3, <1>4, <2>6, <3>1 DEF EditsArrive, SecretWaits, OfField
  <2>8. ASSUME NEW p \in Entry, FieldOf(p) = f PROVE OnItsWay(p)'
    <3>1. OfField(w, f) /\ w.value[p] = dialog.text[p]
      BY <2>2, <2>3, <2>8, FieldOfPart DEF OfField
    <3>2. \A j \in DOMAIN writes' : ~(j > n)
      BY <2>4
    <3>. QED
      BY <1>2, <1>3, <2>4, <2>8, <3>1, <3>2 DEF OnItsWay, OfField
  <2>9. ASSUME NEW p \in Entry, FieldOf(p) # f, OnItsWay(p) PROVE OnItsWay(p)'
    <3>1. p \notin PartsOf(f) /\ FieldOf(p) \in Fields
      BY <2>9, FieldOfPart, FieldsApart
    <3>2. CASE FieldOf(p) \in dialog.pending \/ p \in unsaved \cup others
      BY <1>2, <2>1, <2>9, <3>1, <3>2 DEF OnItsWay
    <3>3. CASE /\ \A j \in DOMAIN writes : ~OfField(writes[j], FieldOf(p))
               /\ dialog.text[p] = item[p]
      BY <1>2, <1>3, <2>6, <2>9, <3>1, <3>3 DEF OnItsWay, OfField
    <3>4. ASSUME NEW i \in DOMAIN writes, OfField(writes[i], FieldOf(p)),
                 writes[i].value[p] = dialog.text[p],
                 \A j \in DOMAIN writes : j > i => ~OfField(writes[j], FieldOf(p))
          PROVE  OnItsWay(p)'
      <4>1. /\ i \in DOMAIN writes' /\ OfField(writes'[i], FieldOf(p))
            /\ writes'[i].value[p] = dialog.text[p]
        BY <2>4, <3>4
      <4>2. \A j \in DOMAIN writes' : j > i => ~OfField(writes'[j], FieldOf(p))
        BY <2>6, <2>9, <3>1, <3>4, <2>4
      <4>. QED
        BY <1>2, <1>3, <4>1, <4>2 DEF OnItsWay, OfField
    <3>. QED
      BY <2>9, <3>2, <3>3, <3>4 DEF OnItsWay
  <2>10. TypedArrives'
    BY <1>2, <1>3, <2>8, <2>9 DEF EditsArrive, TypedArrives, Watched
  <2>. QED
    BY <2>7, <2>10
<1>. QED
  BY <1>5, <1>6

\* A write comes back: it was the last of its field, or another one follows.
LEMMA ReturnArrives ==
  ASSUME ETyped, EditsArrive, Written \/ NotWritten
  PROVE  EditsArrive'
<1>1. /\ writes # << >> /\ writes' = Tail(writes) /\ UNCHANGED dialog /\ others \subseteq others'
      /\ unsaved \subseteq unsaved'
  BY WrittenItem DEF NotWritten
<1>2. /\ 1 \in DOMAIN writes /\ DOMAIN writes \subseteq Nat /\ Head(writes) = writes[1]
      /\ \A k \in DOMAIN writes' :
           k \in Nat /\ k + 1 \in DOMAIN writes /\ k > 0 /\ writes'[k] = writes[k + 1]
      /\ \A k \in DOMAIN writes : k # 1 =>
           k - 1 \in DOMAIN writes' /\ writes'[k - 1] = writes[k]
  BY <1>1, Rest
<1>3. SUFFICES ASSUME dialog.open
               PROVE  SecretWaits' /\ TypedArrives'
  BY <1>1 DEF EditsArrive
<1>4. \A p \in Parts : p \notin DOMAIN writes[1].value => item'[p] = item[p]
  BY WrittenItem DEF NotWritten
<1>5. \A p \in DOMAIN writes[1].value : item'[p] = writes[1].value[p] \/ p \in unsaved'
  <2>1. CASE Written
    BY <2>1, WrittenItem
  <2>2. CASE NotWritten
    BY <1>2, <2>2 DEF NotWritten
  <2>. QED
    BY <2>1, <2>2
<1>6. SecretWaits'
  BY <1>1, <1>2, <1>3 DEF EditsArrive, SecretWaits, OfField
<1>7. ASSUME NEW p \in Entry, OnItsWay(p) PROVE OnItsWay(p)'
  <2>1. p \in Parts /\ p \in PartsOf(FieldOf(p)) /\ FieldOf(p) \in Fields
    BY FieldOfPart
  <2>2. CASE FieldOf(p) \in dialog.pending \/ p \in unsaved \cup others
    BY <1>1, <2>2 DEF OnItsWay
  <2>3. CASE /\ \A j \in DOMAIN writes : ~OfField(writes[j], FieldOf(p))
             /\ dialog.text[p] = item[p]
    <3>1. p \notin DOMAIN writes[1].value
      <4>1. PICK g \in Fields : OfField(writes[1], g)
        BY <1>2, WriteOfField
      <4>2. g # FieldOf(p)
        BY <1>2, <2>3, <4>1
      <4>. QED
        BY <2>1, <4>1, <4>2, FieldsApart DEF OfField
    <3>. QED
      BY <1>1, <1>2, <1>4, <2>1, <2>3, <3>1 DEF OnItsWay, OfField
  <2>4. ASSUME NEW i \in DOMAIN writes, OfField(writes[i], FieldOf(p)),
               writes[i].value[p] = dialog.text[p],
               \A j \in DOMAIN writes : j > i => ~OfField(writes[j], FieldOf(p))
        PROVE  OnItsWay(p)'
    <3>1. CASE i = 1
      <4>1. item'[p] = dialog.text[p] \/ p \in unsaved'
        BY <1>5, <2>1, <2>4, <3>1 DEF OfField
      <4>2. \A j \in DOMAIN writes' : ~OfField(writes'[j], FieldOf(p))
        BY <1>2, <2>4, <3>1
      <4>. QED
        BY <1>1, <4>1, <4>2 DEF OnItsWay, OfField
    <3>2. CASE i # 1
      <4>1. /\ i - 1 \in DOMAIN writes' /\ OfField(writes'[i - 1], FieldOf(p))
            /\ writes'[i - 1].value[p] = dialog.text[p]
        BY <1>2, <2>4, <3>2
      <4>2. \A j \in DOMAIN writes' : j > i - 1 => ~OfField(writes'[j], FieldOf(p))
        BY <1>2, <2>4
      <4>. QED
        BY <1>1, <4>1, <4>2 DEF OnItsWay, OfField
    <3>. QED
      BY <3>1, <3>2
  <2>. QED
    BY <1>7, <2>2, <2>3, <2>4 DEF OnItsWay
<1>8. TypedArrives'
  BY <1>1, <1>3, <1>7 DEF EditsArrive, TypedArrives, Watched
<1>. QED
  BY <1>6, <1>8

LEMMA ArrivesStep == ASSUME ETyped, Keeps, EditsArrive, [Next]_vars PROVE EditsArrive'
<1>1. CASE UNCHANGED vars
  BY <1>1, OtherArrives DEF vars, editorVars
<1>2. CASE Unscheduled
  BY <1>2, FollowArrives, ItemArrives, OpenArrives, CloseArrives, TypeArrives DEF Unscheduled
<1>3. CASE Loop
  BY <1>3, FollowArrives, ItemArrives, LoadedArrives, NotLoadedArrives, ReturnArrives, IdleArrives
  DEF Loop
<1>. QED
  BY <1>1, <1>2, <1>3 DEF Next

\* Once the idle callbacks have run and the calls have come back, what was typed into an open
\* dialog is in the item, with the exceptions EditsAreSaved names: for every number of attributes,
\* every order of typing, callbacks and answers, and whatever fails.
THEOREM EditsSaved == Spec => []EditsAreSaved
<1>1. Init => ETyped /\ Keeps /\ EditsArrive
  BY InitTyped, KeepsInit DEF Init, Closed, EditsArrive
<1>2. (ETyped /\ Keeps /\ EditsArrive) /\ [Next]_vars => (ETyped /\ Keeps /\ EditsArrive)'
  BY TypedStep, KeepsStep, ArrivesStep
<1>3. ETyped /\ EditsArrive => EditsAreSaved
  BY DEF EditsArrive, TypedArrives, OnItsWay, EditsAreSaved, Entry
<1>. QED
  BY <1>1, <1>2, <1>3, PTL DEF Spec
=============================================================================
