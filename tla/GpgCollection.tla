----------------------------- MODULE GpgCollection -----------------------------
(***************************************************************************)
(* GpgCollection and GpgItem (src/src/gpg-backend.vala) with the rows of    *)
(* the panel that listens to them (src/src/list-panel.vala), over a key     *)
(* ring that this program, through gpg, and other programs change.          *)
(*                                                                          *)
(* Every operation is an async method: it is suspended while gpg runs, and  *)
(* the main loop goes on with the callbacks of the others.  A listing shows *)
(* the key ring of the moment gpg was started, and each of its keys is a    *)
(* callback of its own.                                                     *)
(***************************************************************************)
EXTENDS Naturals, Sequences, FiniteSets

CONSTANTS
  Keys,        \* fingerprints
  Ops,         \* async operations under way at the same time
  MaxChanges,  \* bound: versions of keys written to the key ring
  MaxItems     \* bound: GpgItem objects created

ASSUME CollectionAssumption ==
  /\ MaxChanges \in Nat \ {0}
  /\ MaxItems \in Nat

VARIABLES
  ring,     \* the key ring: version (0: not there) and secret half of each key
  now,      \* the last version written
  cache,    \* GpgItem._content, by number of the item object
  tracked,  \* GpgCollection._items: the item of a fingerprint, 0 when none
  store,    \* ListPanel._store: the items with a row
  ops,      \* the operations under way
  deleted,  \* history: items that delete has announced as removed
  settled   \* history: _items has been brought up to date, the ring unchanged since

vars == <<ring, now, cache, tracked, store, ops, deleted, settled>>

Versions == 0..MaxChanges
NoKey == [ver |-> 0, secret |-> FALSE]
RingKeys == [ver : Versions, secret : BOOLEAN]
Present == {k \in Keys : ring[k].ver # 0}

\* pc: what the operation waits for; key, item: what it is about; snap, left: the
\* keys of a listing, and those not delivered yet; view: the key a listing for
\* one item will deliver; quiet: history, nothing else has touched key or item, and
\* no load of another listing has ended.
Op(pc, key, item) ==
  [pc |-> pc, key |-> key, item |-> item, snap |-> {}, left |-> {},
   view |-> NoKey, quiet |-> TRUE]

Idle == Op("idle", "none", 0)

Listing(keys) == [Idle EXCEPT !.pc = "listing", !.snap = keys, !.left = keys]

\* The panel lists a collection as soon as the backend announces it.
Init ==
  /\ ring \in [Keys -> {NoKey} \cup [ver : 1..1, secret : BOOLEAN]]
  /\ now = 1
  /\ cache = <<>>
  /\ tracked = [k \in Keys |-> 0]
  /\ store = {}
  /\ \E o \in Ops : ops = [p \in Ops |-> IF p = o THEN Listing(Present) ELSE Idle]
  /\ deleted = {}
  /\ settled = FALSE

\* The operations on an item of key k notice that the key has been written to.
Notice(os, k) ==
  [o \in Ops |-> IF os[o].item # 0 /\ os[o].key = k
                 THEN [os[o] EXCEPT !.quiet = FALSE] ELSE os[o]]

\* Key k of the ring becomes r.
Put(k, r) ==
  /\ ring' = [ring EXCEPT ![k] = r]
  /\ settled' = (settled /\ ((r.ver = 0) = (ring[k].ver = 0)))

NewVersion(secret) == [ver |-> now + 1, secret |-> secret]

---------------------------------------------------------------------------
(* Other programs, and gpg run by the operations.                           *)

Outside ==
  /\ now < MaxChanges
  /\ \E k \in Keys : \E r \in {NoKey} \cup {NewVersion(s) : s \in BOOLEAN} :
       /\ Put(k, r)
       /\ ops' = Notice(ops, k)
  /\ now' = now + 1
  /\ UNCHANGED <<cache, tracked, store, deleted>>

Advance(o, pc, k) == ops' = [Notice(ops, k) EXCEPT ![o] = [ops[o] EXCEPT !.pc = pc]]

\* The key may be new, merged with the one that is there, or known already.
GpgImports(o) ==
  /\ ops[o].pc = "import"
  /\ LET k == ops[o].key IN
       \/ /\ now < MaxChanges
          /\ \E s \in BOOLEAN : Put(k, NewVersion(s \/ ring[k].secret))
          /\ now' = now + 1
          /\ Advance(o, "imported", k)
       \/ /\ ring[k].ver # 0
          /\ ops' = [ops EXCEPT ![o].pc = "imported"]
          /\ UNCHANGED <<ring, now, settled>>
  /\ UNCHANGED <<cache, tracked, store, deleted>>

GpgGenerates(o) ==
  /\ ops[o].pc = "generate"
  /\ now < MaxChanges
  /\ \E k \in Keys :
       /\ ring[k].ver = 0 /\ tracked[k] = 0
       /\ Put(k, NewVersion(TRUE))
       /\ Advance(o, "imported", k)
  /\ now' = now + 1
  /\ UNCHANGED <<cache, tracked, store, deleted>>

GpgDeletes(o) ==
  /\ ops[o].pc = "delete"
  /\ ring[ops[o].key].ver # 0
  /\ Put(ops[o].key, NoKey)
  /\ Advance(o, "deleted", ops[o].key)
  /\ UNCHANGED <<now, cache, tracked, store, deleted>>

GpgEdits(o) ==
  /\ ops[o].pc = "edit"
  /\ now < MaxChanges
  /\ ring[ops[o].key].ver # 0
  /\ Put(ops[o].key, NewVersion(ring[ops[o].key].secret))
  /\ now' = now + 1
  /\ Advance(o, "edited", ops[o].key)
  /\ UNCHANGED <<cache, tracked, store, deleted>>

---------------------------------------------------------------------------
(* GpgCollection.load_items, and the operations that end with it.           *)

Start(o, op) ==
  /\ ops[o].pc = "idle"
  /\ ops' = [ops EXCEPT ![o] = op]
  /\ UNCHANGED <<ring, now, cache, tracked, store, deleted, settled>>

Import(o) == \E k \in Keys : Start(o, Op("import", k, 0))
Generate(o) == Start(o, Op("generate", "none", 0))

BeginLoad(o) ==
  /\ ops[o].pc = "imported"
  /\ ops' = [ops EXCEPT ![o] = Listing(Present)]
  /\ UNCHANGED <<ring, now, cache, tracked, store, deleted, settled>>

\* A new GpgItem; the listing does not ask for secret keys.
NewItem(k, secret) == Append(cache, [key |-> k, ver |-> ring[k].ver, secret |-> secret])

Slip_InsertAlways(k) == TRUE

Insert(k) == tracked[k] = 0

\* The callback of load_items.  What the listing says of a key it does not insert
\* is dropped.
ListItem(o) ==
  /\ ops[o].pc = "listing"
  /\ \E k \in ops[o].left :
       /\ ops' = [ops EXCEPT ![o].left = @ \ {k}]
       /\ IF Insert(k)
          THEN /\ Len(cache) < MaxItems
               /\ cache' = NewItem(k, FALSE)
               /\ tracked' = [tracked EXCEPT ![k] = Len(cache) + 1]
               /\ store' = store \cup {Len(cache) + 1}
          ELSE UNCHANGED <<cache, tracked, store>>
  /\ UNCHANGED <<ring, now, deleted, settled>>

Slip_SweepNothing(seen) == {}

Unseen(seen) == {k \in Keys : tracked[k] # 0 /\ k \notin seen}

\* The end of load_items: what was not listed loses its item and its row.
Sweep(o) ==
  /\ ops[o].pc = "listing"
  /\ ops[o].left = {}
  /\ LET gone == Unseen(ops[o].snap) IN
       /\ tracked' = [k \in Keys |-> IF k \in gone THEN 0 ELSE tracked[k]]
       /\ store' = store \ {tracked[k] : k \in gone}
  /\ settled' = /\ ops[o].quiet
                /\ \A p \in Ops : ops[p].pc = "listing" => ops[p].snap = Present
  /\ ops' = [p \in Ops |->
               IF p = o THEN Idle
               ELSE IF ops[p].pc = "listing" /\ ops[p].snap # ops[o].snap
               THEN [ops[p] EXCEPT !.quiet = FALSE] ELSE ops[p]]
  /\ UNCHANGED <<ring, now, cache, deleted>>

---------------------------------------------------------------------------
(* GpgItem.                                                                 *)

Items == 1..Len(cache)

Delete(o) == \E i \in Items : Start(o, Op("delete", cache[i].key, i))
Edit(o) == \E i \in Items : Start(o, Op("edit", cache[i].key, i))

\* The item is announced as removed, and stays in _items.
Deleted(o) ==
  /\ ops[o].pc = "deleted"
  /\ store' = store \ {ops[o].item}
  /\ deleted' = deleted \cup {ops[o].item}
  /\ ops' = [ops EXCEPT ![o] = Idle]
  /\ UNCHANGED <<ring, now, cache, tracked, settled>>

\* load_content lists the secret keys first.
Reload(k, i) ==
  [Op("secret", k, i) EXCEPT !.view = IF ring[k].secret THEN ring[k] ELSE NoKey]

LoadContent(o) == \E i \in store : Start(o, Reload(cache[i].key, i))

BeginReload(o) ==
  /\ ops[o].pc = "edited"
  /\ ops' = [ops EXCEPT ![o] = Reload(ops[o].key, ops[o].item)]
  /\ UNCHANGED <<ring, now, cache, tracked, store, deleted, settled>>

\* The callbacks of load_content.
ListContent(o) ==
  /\ ops[o].pc \in {"secret", "public"}
  /\ ops[o].view # NoKey
  /\ LET i == ops[o].item IN
       /\ cache' = [cache EXCEPT ![i] =
                      [key |-> ops[o].key, ver |-> ops[o].view.ver,
                       secret |-> ops[o].view.secret]]
       /\ ops' = [p \in Ops |->
                    IF p = o THEN [ops[p] EXCEPT !.view = NoKey]
                    ELSE IF ops[p].item = i THEN [ops[p] EXCEPT !.quiet = FALSE]
                    ELSE ops[p]]
  /\ UNCHANGED <<ring, now, tracked, store, deleted, settled>>

Slip_NeverPublic(i) == FALSE

\* has_secret looks at the content the item has, be it from an earlier listing.
NeedsPublicKey(i) == ~cache[i].secret

EndSecretListing(o) ==
  /\ ops[o].pc = "secret"
  /\ ops[o].view = NoKey
  /\ IF NeedsPublicKey(ops[o].item)
     THEN ops' = [ops EXCEPT ![o].pc = "public",
                             ![o].view = [ver |-> ring[ops[o].key].ver, secret |-> FALSE]]
     ELSE ops' = [ops EXCEPT ![o].pc = "reloaded"]
  /\ UNCHANGED <<ring, now, cache, tracked, store, deleted, settled>>

EndPublicListing(o) ==
  /\ ops[o].pc = "public"
  /\ ops[o].view = NoKey
  /\ ops' = [ops EXCEPT ![o].pc = "reloaded"]
  /\ UNCHANGED <<ring, now, cache, tracked, store, deleted, settled>>

\* The editor is opened, or changed() makes the views look at the content.
Reloaded(o) ==
  /\ ops[o].pc = "reloaded"
  /\ ops' = [ops EXCEPT ![o] = Idle]
  /\ UNCHANGED <<ring, now, cache, tracked, store, deleted, settled>>

\* gpg reports an error, or the operation is cancelled, whatever it has done so far.
Fail(o) ==
  /\ ops[o].pc \notin {"idle", "deleted", "reloaded"}
  /\ ops' = [ops EXCEPT ![o] = Idle]
  /\ UNCHANGED <<ring, now, cache, tracked, store, deleted, settled>>

Gpg(o) == GpgImports(o) \/ GpgGenerates(o) \/ GpgDeletes(o) \/ GpgEdits(o)
Collection(o) == Import(o) \/ Generate(o) \/ BeginLoad(o) \/ ListItem(o) \/ Sweep(o)
Item(o) ==
  \/ Delete(o) \/ Deleted(o) \/ Edit(o) \/ LoadContent(o) \/ BeginReload(o)
  \/ ListContent(o) \/ EndSecretListing(o) \/ EndPublicListing(o) \/ Reloaded(o)

Next == Outside \/ \E o \in Ops : Gpg(o) \/ Collection(o) \/ Item(o) \/ Fail(o)

Spec == Init /\ [][Next]_vars

---------------------------------------------------------------------------
(* Properties                                                               *)

Pcs == {"idle", "import", "generate", "imported", "listing", "delete", "deleted",
        "edit", "edited", "secret", "public", "reloaded"}

\* The type of the state; the item numbers in it are those of objects that exist.
TypeOK ==
  /\ ring \in [Keys -> RingKeys]
  /\ now \in Versions
  /\ cache \in Seq([key : Keys, ver : Versions, secret : BOOLEAN])
  /\ tracked \in [Keys -> 0..Len(cache)]
  /\ store \subseteq Items
  /\ ops \in [Ops -> [pc : Pcs, key : Keys \cup {"none"}, item : 0..Len(cache),
                      snap : SUBSET Keys, left : SUBSET Keys, view : RingKeys,
                      quiet : BOOLEAN]]
  /\ deleted \subseteq Items
  /\ settled \in BOOLEAN

\* However loads, deletions and imports overlap, the panel has one row for each item
\* of _items that has not been deleted here, and no row for anything else: no
\* fingerprint is shown twice and no row outlives its item.
StoreShowsItems ==
  /\ TypeOK
  /\ store = {tracked[k] : k \in Keys} \ ({0} \cup deleted)
  /\ \A k \in Keys : tracked[k] # 0 => cache[tracked[k]].key = k

\* Once a load has ended and neither it nor a load it overlapped started from an
\* older key ring, _items has exactly the keys of the ring, until the ring changes.
\* (A load that overlaps an older one can lose a key again: the older one ends by
\* removing what it has not listed.)
SettledItemsAreTheRing ==
  settled => {k \in Keys : tracked[k] # 0} = Present

\* When load_content ends and nothing else touched the key or the item meanwhile, the
\* item has what the ring has, with one exception: the secret half was there when
\* the item was loaded before, and is not any more.  (The comment in load_content, "If
\* there is no corresponding secret key, load the public key.", knows no exception.)
ReloadIsExact ==
  \A o \in Ops :
    LET k == ops[o].key
        content == cache[ops[o].item]
    IN ops[o].pc = "reloaded" /\ ops[o].quiet /\ k \in Present =>
         \/ content = [key |-> k, ver |-> ring[k].ver, secret |-> ring[k].secret]
         \/ content.secret /\ ~ring[k].secret
=============================================================================
