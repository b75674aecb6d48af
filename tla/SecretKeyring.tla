----------------------------- MODULE SecretKeyring -----------------------------
(***************************************************************************)
(* The collections of the Secret Service as the password panel shows them:  *)
(* secret-backend.vala with the handlers of list-panel.vala and             *)
(* password-list-panel.vala.                                                *)
(*                                                                          *)
(* The service is shared with other programs.  libsecret keeps a copy of    *)
(* what the service has and tells the changes of a collection's "items" and *)
(* "locked" apart, in any order.  The backend makes a SecretItem for each   *)
(* item of a schema it knows and drops them all when the collection is      *)
(* locked; an editor or a deletion may still hold a dropped one, which is   *)
(* not the SecretItem made after the next unlocking.                        *)
(***************************************************************************)
EXTENDS Integers, Sequences, FiniteSets, Functions

CONSTANTS
  Collections, Session,  \* the collections, and those the alias "session" may name
  Items, Home,           \* items and the collection each belongs to
  Known,                 \* items with a schema of SecretBackend
  New,                   \* items that are there only when the user has generated them
  MaxCalls,              \* bound: calls of unlock at a time
  MaxActs                \* bound: things the user and other programs do unasked

ASSUME SecretKeyringAssumption ==
  /\ Session \subseteq Collections
  /\ Home \in [Items -> Collections]
  /\ Known \subseteq Items /\ New \subseteq Known
  /\ MaxCalls \in Nat /\ MaxActs \in Nat

VARIABLES
  service,      \* the service: locked, the locked collections; items, those there are
  cache,        \* libsecret's copy of it
  collections,  \* _collections of the backend, empty until load_collections is done
  table,        \* _items of all collections: items that have a SecretItem
  rows,         \* items with a row in the panel
  button,       \* unlock_button is visible
  dialogs,      \* questions on display for each collection
  unlocks,      \* calls of unlock: asked, without an answer; granted, with one on its way
  deletes,      \* calls of delete on their way
  generating,   \* the items of generate_item calls, by what has become of them
  acts          \* what has been done unasked so far

panel == <<collections, table, rows, button, dialogs>>
calls == <<unlocks, deletes, generating>>
keyringVars == <<service, cache, panel, calls, acts>>

Nobody == [c \in Collections |-> 0]

KeyringInit ==
  /\ \E L \in SUBSET (Collections \ Session) : service = [locked |-> L, items |-> Items \ New]
  /\ cache = service
  /\ collections = {} /\ table = {} /\ rows = {}
  /\ button = FALSE
  /\ dialogs = Nobody
  /\ unlocks = [asked |-> Nobody, granted |-> Nobody]
  /\ deletes = {}
  /\ generating = [asked |-> {}, created |-> {}]
  /\ acts = 0

Unasked == acts < MaxActs /\ acts' = acts + 1

---------------------------------------------------------------------------
(* What the handlers do: functions of libsecret's copy.                     *)

HasLocked(cached, cs) == cs \cap cached.locked # {}

\* notify::has-locked: the button follows, and every locked collection is asked for (again).
TryUnlock(cached, cs) ==
  [c \in Collections |-> IF c \in cs \cap cached.locked THEN dialogs[c] + 1 ELSE dialogs[c]]
NotifyHasLocked(cached, cs) ==
  /\ button' = HasLocked(cached, cs)
  /\ dialogs' = TryUnlock(cached, cs)

\* get_items of the collections cs, of which add_item leaves out the unknown schemas.
ItemsOf(cached, cs) == {i \in cached.items : Home[i] \in cs}
Fresh(cached, cs) == (ItemsOf(cached, cs \ cached.locked) \cap Known) \ table

\* load_items only adds, and only to collections that are not locked.
Loaded(cached, cs) ==
  /\ table' = table \cup Fresh(cached, cs)
  /\ rows' = rows \cup Fresh(cached, cs)

\* on_items_changed also drops what it has not seen, which is everything when locked.
Slip_GoneUnlessLocked(cached, c) ==
  IF c \in cached.locked THEN {} ELSE {i \in table : Home[i] = c} \ cached.items
Gone(cached, c) ==
  {i \in table : Home[i] = c} \ ItemsOf(cached, {c} \ cached.locked)
Synced(cached, c) ==
  /\ table' = (table \cup Fresh(cached, {c})) \ Gone(cached, c)
  /\ rows' = (rows \cup Fresh(cached, {c})) \ Gone(cached, c)
  /\ deletes' = {IF d.item \in Gone(cached, c) THEN [d EXCEPT !.dropped = TRUE] ELSE d : d \in deletes}

---------------------------------------------------------------------------
(* Other programs.                                                          *)

OutsideLocks(c) ==
  /\ Unasked
  /\ c \notin service.locked \cup Session
  /\ service' = [service EXCEPT !.locked = @ \cup {c}]
  /\ UNCHANGED <<cache, panel, calls>>

OutsideUnlocks(c) ==
  /\ Unasked
  /\ c \in service.locked
  /\ service' = [service EXCEPT !.locked = @ \ {c}]
  /\ UNCHANGED <<cache, panel, calls>>

OutsideDeletes(i) ==
  /\ Unasked
  /\ i \in service.items
  /\ service' = [service EXCEPT !.items = @ \ {i}]
  /\ UNCHANGED <<cache, panel, calls>>

---------------------------------------------------------------------------
(* load_collections and the notifications.                                  *)

\* The collection the alias "session" names is passed over, unless reading the alias fails;
\* collection_added connects the panel and loads the items.
LoadCollections ==
  /\ collections = {}
  /\ \E skipped \in {Session, {}} :
       /\ collections' = Collections \ skipped
       /\ Loaded(cache, collections')
       /\ NotifyHasLocked(cache, collections')
  /\ UNCHANGED <<service, cache, calls, acts>>

\* notify::items of the collection: on_items_changed.
ItemsChanged(c) ==
  /\ ItemsOf(cache, {c}) # ItemsOf(service, {c})
  /\ cache' = [cache EXCEPT !.items = (@ \ ItemsOf(cache, {c})) \cup ItemsOf(service, {c})]
  /\ IF c \in collections
     THEN Synced(cache', c) /\ UNCHANGED <<button, dialogs>>
     ELSE UNCHANGED <<table, rows, deletes, button, dialogs>>
  /\ UNCHANGED <<service, collections, unlocks, generating, acts>>

\* notify::locked of the collection: on_locked_changed.
LockedChanged(c) ==
  /\ (c \in cache.locked) # (c \in service.locked)
  /\ cache' = [cache EXCEPT !.locked = IF c \in @ THEN @ \ {c} ELSE @ \cup {c}]
  /\ IF c \in collections
     THEN Synced(cache', c) /\ NotifyHasLocked(cache', collections)
     ELSE UNCHANGED <<table, rows, deletes, button, dialogs>>
  /\ UNCHANGED <<service, collections, unlocks, generating, acts>>

---------------------------------------------------------------------------
(* Unlocking: the button, the questions, and the calls they lead to.        *)

UnlockClicked ==
  /\ Unasked
  /\ button
  /\ dialogs' = TryUnlock(cache, collections)
  /\ UNCHANGED <<service, cache, collections, table, rows, button, calls>>

Calls == FoldFunction(+, 0, unlocks.asked) + FoldFunction(+, 0, unlocks.granted)
Answer(c, ok) ==
  /\ dialogs[c] > 0
  /\ ok => Calls < MaxCalls
  /\ dialogs' = [dialogs EXCEPT ![c] = @ - 1]
  /\ unlocks' = IF ok THEN [unlocks EXCEPT !.asked[c] = @ + 1] ELSE unlocks
  /\ UNCHANGED <<service, cache, collections, table, rows, button, deletes, generating, acts>>

\* The service unlocks the collection, or has it unlocked already.
Granted(c) ==
  /\ unlocks.asked[c] > 0
  /\ service' = [service EXCEPT !.locked = @ \ {c}]
  /\ unlocks' = [unlocks EXCEPT !.asked[c] = @ - 1, !.granted[c] = @ + 1]
  /\ UNCHANGED <<cache, panel, deletes, generating, acts>>

\* The user dismisses the service's prompt for the password: an empty list comes back.
Slip_NotifyAnyway == NotifyHasLocked(cache, collections)
NothingUnlocked == UNCHANGED <<button, dialogs>>
Refused(c) ==
  /\ unlocks.asked[c] > 0 /\ c \in service.locked
  /\ unlocks' = [unlocks EXCEPT !.asked[c] = @ - 1]
  /\ NothingUnlocked
  /\ UNCHANGED <<service, cache, collections, table, rows, deletes, generating, acts>>

\* unlock returns; the change of "locked" has been told before.
Unlocked(c) ==
  /\ unlocks.granted[c] > 0
  /\ (c \in cache.locked) = (c \in service.locked)
  /\ unlocks' = [unlocks EXCEPT !.granted[c] = @ - 1]
  /\ NotifyHasLocked(cache, collections)
  /\ UNCHANGED <<service, cache, collections, table, rows, deletes, generating, acts>>

---------------------------------------------------------------------------
(* Generating and deleting.                                                 *)

Generate(i) ==
  /\ Unasked
  /\ i \in New \ (service.items \cup cache.items \cup table \cup generating.asked \cup generating.created)
  /\ Home[i] \in collections
  /\ generating' = [generating EXCEPT !.asked = @ \cup {i}]
  /\ UNCHANGED <<service, cache, panel, unlocks, deletes>>

Created(i) ==
  /\ i \in generating.asked /\ Home[i] \notin service.locked
  /\ service' = [service EXCEPT !.items = @ \cup {i}]
  /\ generating' = [asked |-> generating.asked \ {i}, created |-> generating.created \cup {i}]
  /\ UNCHANGED <<cache, panel, unlocks, deletes, acts>>

NotCreated(i) ==
  /\ i \in generating.asked
  /\ generating' = [generating EXCEPT !.asked = @ \ {i}]
  /\ UNCHANGED <<service, cache, panel, unlocks, deletes, acts>>

\* Secret.Item.create returns: the items of the collection are loaded.
Generated(i) ==
  /\ i \in generating.created
  /\ generating' = [generating EXCEPT !.created = @ \ {i}]
  /\ Loaded(cache, {Home[i]})
  /\ UNCHANGED <<service, cache, collections, button, dialogs, unlocks, deletes, acts>>

\* item.delete of a SecretItem: one that has been dropped in the meantime, or not.
StartDelete(i, dropped) ==
  deletes' = deletes \cup {[item |-> i, dropped |-> dropped, done |-> FALSE]}

\* The service deletes the item, or refuses.
Deleted(d) ==
  /\ d \in deletes /\ ~d.done
  /\ d.item \in service.items /\ Home[d.item] \notin service.locked
  /\ service' = [service EXCEPT !.items = @ \ {d.item}]
  /\ deletes' = (deletes \ {d}) \cup {[d EXCEPT !.done = TRUE]}
  /\ UNCHANGED <<cache, panel, unlocks, generating, acts>>

NotDeleted(d) ==
  /\ d \in deletes /\ ~d.done
  /\ deletes' = deletes \ {d}
  /\ UNCHANGED <<service, cache, panel, unlocks, generating, acts>>

\* delete returns: item_removed takes away the row of this SecretItem; _items keeps it.
DeleteReturns(d) ==
  /\ d \in deletes /\ d.done
  /\ deletes' = deletes \ {d}
  /\ rows' = IF d.dropped THEN rows ELSE rows \ {d.item}
  /\ UNCHANGED <<service, cache, collections, table, button, dialogs, unlocks, generating, acts>>

---------------------------------------------------------------------------
Others ==
  \/ \E c \in Collections : OutsideLocks(c) \/ OutsideUnlocks(c)
  \/ \E i \in Items : OutsideDeletes(i)

KeyringUser == UnlockClicked \/ \E i \in New : Generate(i)

\* What happens of itself, the user answering the questions included.
KeyringLoop ==
  \/ LoadCollections
  \/ \E c \in Collections :
       \/ ItemsChanged(c) \/ LockedChanged(c)
       \/ Answer(c, TRUE) \/ Answer(c, FALSE)
       \/ Granted(c) \/ Refused(c) \/ Unlocked(c)
  \/ \E i \in New : Created(i) \/ NotCreated(i) \/ Generated(i)
  \/ \E d \in deletes : Deleted(d) \/ NotDeleted(d) \/ DeleteReturns(d)

---------------------------------------------------------------------------
(* Properties.                                                              *)

Told == cache = service

\* Once everything has been told, in whatever order, and whatever calls are on their way, the
\* rows are the items of known schemas of the collections that are not locked, and the button
\* is there exactly when one is.
ShowsTheKeyring ==
  Told /\ collections # {} =>
    /\ rows = ItemsOf(service, collections \ service.locked) \cap Known
    /\ button = HasLocked(service, collections)

\* The questions come to an end when the user answers them, whether the answer is to unlock or
\* not and whether the service unlocks or not.
QuestionsEnd == <>[](dialogs = Nobody)
=============================================================================
