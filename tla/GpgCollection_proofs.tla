------------------------- MODULE GpgCollection_proofs -------------------------
(***************************************************************************)
(* Proofs about GpgCollection for every key ring, any number of overlapping *)
(* operations and any interference: the rows of the panel, what a load      *)
(* leaves behind, and what a reload leaves in an item.                      *)
(***************************************************************************)
EXTENDS GpgCollection, SequenceTheorems, TLAPS

Contents == [key : Keys, ver : Versions, secret : BOOLEAN]

\* An operation on an item knows an item that exists, by the key it has: the key of an item
\* never changes.
OnItem == {"delete", "deleted", "edit", "edited", "secret", "public", "reloaded"}
OfItem(o) == ops[o].item \in Items /\ ops[o].key = cache[ops[o].item].key
OpsKnowTheirItems ==
  \A o \in Ops : /\ ops[o].pc \in OnItem => OfItem(o)
                 /\ ops[o].pc = "import" => ops[o].key \in Keys

RowsFollow == store = {tracked[k] : k \in Keys} \ ({0} \cup deleted)
ItemsHaveTheirKeys == \A k \in Keys : tracked[k] # 0 => cache[tracked[k]].key = k

IInv == TypeOK /\ OpsKnowTheirItems /\ RowsFollow /\ ItemsHaveTheirKeys

Operations(n) ==
  [pc : Pcs, key : Keys \cup {"none"}, item : 0..n, snap : SUBSET Keys, left : SUBSET Keys,
   view : RingKeys, quiet : BOOLEAN]

LEMMA RingHasKeys == ASSUME TypeOK, NEW k \in Keys
                     PROVE  /\ ring[k] \in RingKeys /\ ring[k].ver \in Versions
                            /\ ring[k].secret \in BOOLEAN
  BY DEF TypeOK, RingKeys

LEMMA ItemsHaveKeys ==
  ASSUME TypeOK, NEW i \in Items
  PROVE  cache[i] \in Contents /\ cache[i].key \in Keys
<1>1. cache \in Seq(Contents) /\ i \in 1..Len(cache)
  BY DEF TypeOK, Items, Contents
<1>2. cache[i] \in Contents
  BY <1>1, ElementOfSeq
<1>. QED
  BY <1>2 DEF Contents

LEMMA NoKeyIsOne == NoKey \in RingKeys
  BY CollectionAssumption DEF NoKey, RingKeys, Versions

LEMMA InitIInv == Init => IInv
<1>. SUFFICES ASSUME Init PROVE IInv
  OBVIOUS
<1>. USE CollectionAssumption, NoKeyIsOne DEF Init
<1>1. TypeOK
  <2>1. ring \in [Keys -> RingKeys]
    <3>1. [ver : 1..1, secret : BOOLEAN] \subseteq RingKeys
      BY DEF RingKeys, Versions
    <3>. QED
      BY <3>1
  <2>2. ops \in [Ops -> Operations(Len(cache))]
    <3>1. Idle \in Operations(0)
      BY DEF Operations, Idle, Op, Pcs
    <3>2. Listing(Present) \in Operations(0)
      BY <3>1 DEF Operations, Listing, Present, Pcs
    <3>. QED
      BY <3>1, <3>2
  <2>3. now \in Versions /\ cache \in Seq([key : Keys, ver : Versions, secret : BOOLEAN])
    BY EmptySeq DEF Versions
  <2>4. tracked \in [Keys -> 0..Len(cache)] /\ store \subseteq Items /\ deleted \subseteq Items
    OBVIOUS
  <2>. QED
    BY <2>1, <2>2, <2>3, <2>4 DEF TypeOK, Operations
<1>2. OpsKnowTheirItems
  BY DEF OpsKnowTheirItems, OnItem, Idle, Op, Listing
<1>. QED
  BY <1>1, <1>2 DEF IInv, RowsFollow, ItemsHaveTheirKeys

---------------------------------------------------------------------------
(* Steps that do not touch the items.                                       *)

\* Whatever the operations do among themselves, and to the key ring.
LEMMA OpsStep ==
  ASSUME IInv, UNCHANGED <<cache, tracked, store, deleted>>,
         ring' \in [Keys -> RingKeys], now' \in Versions, settled' \in BOOLEAN,
         ops' \in [Ops -> Operations(Len(cache))], OpsKnowTheirItems'
  PROVE  IInv'
<1>1. TypeOK'
  BY DEF IInv, TypeOK, Operations, Items
<1>. QED
  BY <1>1 DEF IInv, RowsFollow, ItemsHaveTheirKeys

\* Other operations notice, this one moves on: it keeps its key and its item.
LEMMA Moves ==
  ASSUME IInv, NEW o \in Ops, NEW k, NEW pc \in Pcs, UNCHANGED cache,
         ops' = [Notice(ops, k) EXCEPT ![o] = [ops[o] EXCEPT !.pc = pc]],
         pc \in OnItem => OfItem(o), pc = "import" => ops[o].key \in Keys
  PROVE  ops' \in [Ops -> Operations(Len(cache))] /\ OpsKnowTheirItems'
<1>1. ops \in [Ops -> Operations(Len(cache))]
  BY DEF IInv, TypeOK, Operations
<1>2. \A p \in Ops : ops[p] \in Operations(Len(cache))
  BY <1>1
<1>3. \A p \in Ops \ {o} : /\ ops'[p] \in Operations(Len(cache))
                           /\ ops'[p].pc = ops[p].pc /\ ops'[p].item = ops[p].item
                           /\ ops'[p].key = ops[p].key
  BY <1>2 DEF Notice, Operations
<1>4. /\ ops'[o] \in Operations(Len(cache))
      /\ ops'[o].pc = pc /\ ops'[o].item = ops[o].item /\ ops'[o].key = ops[o].key
  BY <1>2 DEF Notice, Operations
<1>5. ops' \in [Ops -> Operations(Len(cache))]
  BY <1>3, <1>4 DEF Notice
<1>. QED
  BY <1>3, <1>4, <1>5 DEF IInv, OpsKnowTheirItems, OfItem, OnItem, Items

\* The operation becomes another one, whose key and item it names.
LEMMA Becomes ==
  ASSUME IInv, NEW o \in Ops, NEW op \in Operations(Len(cache)), UNCHANGED cache,
         ops' = [ops EXCEPT ![o] = op],
         op.pc \in OnItem => op.item \in Items /\ op.key = cache[op.item].key,
         op.pc = "import" => op.key \in Keys
  PROVE  ops' \in [Ops -> Operations(Len(cache))] /\ OpsKnowTheirItems'
<1>1. ops \in [Ops -> Operations(Len(cache))]
  BY DEF IInv, TypeOK, Operations
<1>2. ops' \in [Ops -> Operations(Len(cache))] /\ ops'[o] = op
  BY <1>1
<1>3. \A p \in Ops \ {o} : ops'[p] = ops[p]
  BY <1>1
<1>. QED
  BY <1>2, <1>3 DEF IInv, OpsKnowTheirItems, OfItem, OnItem, Items

LEMMA PutKeepsTheType ==
  ASSUME IInv, NEW k \in Keys, NEW r \in RingKeys, Put(k, r)
  PROVE  ring' \in [Keys -> RingKeys] /\ settled' \in BOOLEAN
  BY DEF IInv, TypeOK, Put

LEMMA NewVersionIsOne ==
  ASSUME IInv, now < MaxChanges, NEW s \in BOOLEAN
  PROVE  NewVersion(s) \in RingKeys /\ now + 1 \in Versions
  BY CollectionAssumption DEF IInv, TypeOK, NewVersion, RingKeys, Versions

LEMMA OutsideStep == IInv /\ Outside => IInv'
<1>. SUFFICES ASSUME IInv, Outside PROVE IInv'
  OBVIOUS
<1>1. PICK k \in Keys, r \in {NoKey} \cup {NewVersion(s) : s \in BOOLEAN} :
        Put(k, r) /\ ops' = Notice(ops, k)
  BY DEF Outside
<1>2. r \in RingKeys /\ now' \in Versions
  BY NoKeyIsOne, NewVersionIsOne DEF Outside
<1>3. ops \in [Ops -> Operations(Len(cache))]
  BY DEF IInv, TypeOK, Operations
<1>4. \A p \in Ops : /\ ops'[p] \in Operations(Len(cache))
                     /\ ops'[p].pc = ops[p].pc /\ ops'[p].item = ops[p].item
                     /\ ops'[p].key = ops[p].key
  BY <1>1, <1>3 DEF Notice, Operations
<1>5. ops' \in [Ops -> Operations(Len(cache))]
  BY <1>1, <1>4 DEF Notice
<1>6. OpsKnowTheirItems'
  BY <1>4 DEF IInv, OpsKnowTheirItems, OfItem, OnItem, Items, Outside
<1>. QED
  BY <1>1, <1>2, <1>5, <1>6, PutKeepsTheType, OpsStep DEF Outside

LEMMA GpgStep == ASSUME IInv, NEW o \in Ops, Gpg(o) PROVE IInv'
<1>. USE DEF Advance
<1>t. ring \in [Keys -> RingKeys] /\ now \in Versions /\ settled \in BOOLEAN
      /\ ops \in [Ops -> Operations(Len(cache))] /\ ops[o] \in Operations(Len(cache))
  BY DEF IInv, TypeOK, Operations
<1>1. ASSUME GpgImports(o) PROVE IInv'
  <2>1. ops[o].key \in Keys
    BY <1>1 DEF GpgImports, IInv, OpsKnowTheirItems
  <2>2. CASE now < MaxChanges /\ now' = now + 1 /\ Advance(o, "imported", ops[o].key)
             /\ \E s \in BOOLEAN : Put(ops[o].key, NewVersion(s \/ ring[ops[o].key].secret))
    <3>1. PICK s \in BOOLEAN : Put(ops[o].key, NewVersion(s \/ ring[ops[o].key].secret))
      BY <2>2
    <3>2. (s \/ ring[ops[o].key].secret) \in BOOLEAN
      OBVIOUS
    <3>3. ring' \in [Keys -> RingKeys] /\ settled' \in BOOLEAN /\ now' \in Versions
      BY <2>1, <2>2, <3>1, <3>2, NewVersionIsOne, PutKeepsTheType
    <3>4. "imported" \in Pcs /\ "imported" \notin OnItem
      BY DEF Pcs, OnItem
    <3>5. ops' \in [Ops -> Operations(Len(cache))] /\ OpsKnowTheirItems'
      BY <1>1, <2>2, <3>4, Moves DEF GpgImports
    <3>. QED
      BY <1>1, <3>3, <3>5, OpsStep DEF GpgImports
  <2>3. CASE ops' = [ops EXCEPT ![o].pc = "imported"] /\ UNCHANGED <<ring, now, settled>>
    <3>1. ops' = [ops EXCEPT ![o] = [ops[o] EXCEPT !.pc = "imported"]]
      BY <2>3
    <3>2. [ops[o] EXCEPT !.pc = "imported"] \in Operations(Len(cache))
      BY <1>t DEF Operations, Pcs
    <3>3. [ops[o] EXCEPT !.pc = "imported"].pc = "imported"
      BY <1>t DEF Operations
    <3>4. ops' \in [Ops -> Operations(Len(cache))] /\ OpsKnowTheirItems'
      BY <1>1, <3>1, <3>2, <3>3, Becomes DEF OnItem, GpgImports
    <3>. QED
      BY <1>1, <1>t, <2>3, <3>4, OpsStep DEF GpgImports
  <2>. QED
    BY <1>1, <2>2, <2>3 DEF GpgImports
<1>2. ASSUME GpgGenerates(o) PROVE IInv'
  <2>1. PICK k \in Keys : Put(k, NewVersion(TRUE)) /\ Advance(o, "imported", k)
    BY <1>2 DEF GpgGenerates
  <2>2. ring' \in [Keys -> RingKeys] /\ settled' \in BOOLEAN /\ now' \in Versions
    BY <1>2, <2>1, NewVersionIsOne, PutKeepsTheType DEF GpgGenerates
  <2>3. "imported" \in Pcs /\ "imported" \notin OnItem
    BY DEF Pcs, OnItem
  <2>4. ops' \in [Ops -> Operations(Len(cache))] /\ OpsKnowTheirItems'
    BY <1>2, <2>1, <2>3, Moves DEF GpgGenerates
  <2>. QED
    BY <1>2, <2>2, <2>4, OpsStep DEF GpgGenerates
<1>3. ASSUME GpgDeletes(o) PROVE IInv'
  <2>1. OfItem(o) /\ ops[o].key \in Keys
    BY <1>3, ItemsHaveKeys DEF GpgDeletes, IInv, OpsKnowTheirItems, OnItem, OfItem
  <2>2. ring' \in [Keys -> RingKeys] /\ settled' \in BOOLEAN
    BY <1>3, <2>1, NoKeyIsOne, PutKeepsTheType DEF GpgDeletes
  <2>3. ops' \in [Ops -> Operations(Len(cache))] /\ OpsKnowTheirItems'
    BY <1>3, <2>1, Moves DEF GpgDeletes, Pcs
  <2>. QED
    BY <1>3, <1>t, <2>2, <2>3, OpsStep DEF GpgDeletes
<1>4. ASSUME GpgEdits(o) PROVE IInv'
  <2>1. OfItem(o) /\ ops[o].key \in Keys
    BY <1>4, ItemsHaveKeys DEF GpgEdits, IInv, OpsKnowTheirItems, OnItem, OfItem
  <2>2. ring' \in [Keys -> RingKeys] /\ settled' \in BOOLEAN /\ now' \in Versions
    BY <1>4, <2>1, RingHasKeys, NewVersionIsOne, PutKeepsTheType DEF GpgEdits, IInv
  <2>3. ops' \in [Ops -> Operations(Len(cache))] /\ OpsKnowTheirItems'
    BY <1>4, <2>1, Moves DEF GpgEdits, Pcs
  <2>. QED
    BY <1>4, <2>2, <2>3, OpsStep DEF GpgEdits
<1>. QED
  BY <1>1, <1>2, <1>3, <1>4 DEF Gpg

---------------------------------------------------------------------------
(* Steps of the collection.                                                 *)

LEMMA IdleStep ==
  ASSUME IInv, NEW o \in Ops, NEW op \in Operations(Len(cache)), Start(o, op),
         op.pc \in OnItem => op.item \in Items /\ op.key = cache[op.item].key,
         op.pc = "import" => op.key \in Keys
  PROVE  IInv'
<1>1. ops' \in [Ops -> Operations(Len(cache))] /\ OpsKnowTheirItems'
  BY Becomes DEF Start
<1>. QED
  BY <1>1, OpsStep DEF Start, IInv, TypeOK

\* A step of one operation that has no effect but on its own state.
LEMMA AloneStep ==
  ASSUME IInv, NEW o \in Ops, NEW op \in Operations(Len(cache)), ops' = [ops EXCEPT ![o] = op],
         UNCHANGED <<ring, now, cache, tracked, store, deleted, settled>>,
         op.pc \in OnItem => op.item \in Items /\ op.key = cache[op.item].key,
         op.pc = "import" => op.key \in Keys
  PROVE  IInv'
<1>1. ops' \in [Ops -> Operations(Len(cache))] /\ OpsKnowTheirItems'
  BY Becomes
<1>. QED
  BY <1>1, OpsStep DEF IInv, TypeOK

LEMMA OpType ==
  ASSUME IInv, NEW pc \in Pcs, NEW k \in Keys \cup {"none"}, NEW i \in 0..Len(cache)
  PROVE  /\ Op(pc, k, i) \in Operations(Len(cache))
         /\ Op(pc, k, i).pc = pc /\ Op(pc, k, i).key = k /\ Op(pc, k, i).item = i
  BY NoKeyIsOne DEF Op, Operations

LEMMA IdleType ==
  ASSUME IInv
  PROVE  Idle \in Operations(Len(cache)) /\ Idle.pc = "idle" /\ Idle.item = 0
<1>1. 0 \in 0..Len(cache) /\ "idle" \in Pcs
  BY DEF IInv, TypeOK, Pcs
<1>. QED
  BY <1>1, OpType DEF Idle

LEMMA ListingType ==
  ASSUME IInv
  PROVE  Listing(Present) \in Operations(Len(cache)) /\ Listing(Present).pc = "listing"
  BY IdleType DEF Listing, Operations, Present, Pcs

\* Whatever else becomes of an operation, it is over, or still about the same key and item.
GoesOn(p) ==
  \/ ops'[p].pc = "idle"
  \/ ops'[p].pc = ops[p].pc /\ ops'[p].key = ops[p].key /\ ops'[p].item = ops[p].item

LEMMA Continues ==
  ASSUME IInv, cache' \in Seq(Contents), Len(cache') >= Len(cache),
         \A i \in Items : cache'[i].key = cache[i].key,
         ops' \in [Ops -> Operations(Len(cache))],
         \A p \in Ops : GoesOn(p)
  PROVE  ops' \in [Ops -> Operations(Len(cache'))] /\ OpsKnowTheirItems'
<1>0. Len(cache) \in Nat /\ Len(cache') \in Nat
  BY DEF IInv, TypeOK
<1>1. Operations(Len(cache)) \subseteq Operations(Len(cache'))
  BY <1>0 DEF Operations
<1>2. Items \subseteq Items'
  BY <1>0 DEF Items
<1>3. ASSUME NEW p \in Ops, ops'[p].pc \in OnItem PROVE OfItem(p)'
  BY <1>2, <1>3 DEF IInv, OpsKnowTheirItems, OfItem, OnItem, GoesOn
<1>4. ASSUME NEW p \in Ops, ops'[p].pc = "import" PROVE ops'[p].key \in Keys
  BY <1>4 DEF IInv, OpsKnowTheirItems, GoesOn
<1>. QED
  BY <1>1, <1>3, <1>4 DEF OpsKnowTheirItems

LEMMA ListItemStep == ASSUME IInv, NEW o \in Ops, ListItem(o) PROVE IInv'
<1>1. PICK k \in ops[o].left :
        /\ ops' = [ops EXCEPT ![o].left = @ \ {k}]
        /\ IF Insert(k)
           THEN /\ Len(cache) < MaxItems
                /\ cache' = NewItem(k, FALSE)
                /\ tracked' = [tracked EXCEPT ![k] = Len(cache) + 1]
                /\ store' = store \cup {Len(cache) + 1}
           ELSE UNCHANGED <<cache, tracked, store>>
  BY DEF ListItem
<1>t. /\ ops \in [Ops -> Operations(Len(cache))] /\ ops[o] \in Operations(Len(cache))
      /\ cache \in Seq(Contents) /\ Len(cache) \in Nat
  BY DEF IInv, TypeOK, Operations, Contents
<1>2. k \in Keys
  BY <1>t DEF Operations
<1>3. [ops[o] EXCEPT !.left = @ \ {k}] \in Operations(Len(cache))
  BY <1>t DEF Operations
<1>4. /\ ops' \in [Ops -> Operations(Len(cache))]
      /\ \A p \in Ops : GoesOn(p)
  BY <1>1, <1>3, <1>t DEF Operations, GoesOn
<1>5. CASE ~Insert(k)
  <2>1. OpsKnowTheirItems'
    BY <1>1, <1>4, <1>5, <1>t, Continues
  <2>. QED
    BY <1>1, <1>4, <1>5, <2>1, OpsStep DEF ListItem, IInv, TypeOK
<1>6. CASE Insert(k)
  <2>. DEFINE n == Len(cache) + 1
              new == [key |-> k, ver |-> ring[k].ver, secret |-> FALSE]
  <2>1. new \in Contents
    BY <1>2, RingHasKeys DEF IInv, Contents
  <2>2. cache' = Append(cache, new)
    BY <1>1, <1>6 DEF NewItem
  <2>3. /\ cache' \in Seq(Contents) /\ Len(cache') = n
        /\ \A i \in Items : cache'[i] = cache[i]
        /\ cache'[n] = new
    BY <2>1, <2>2, <1>t, AppendProperties DEF Items
  <2>4. ops' \in [Ops -> Operations(Len(cache'))] /\ OpsKnowTheirItems'
    BY <1>4, <1>t, <2>3, Continues
  <2>5. /\ tracked' \in [Keys -> 0..n] /\ tracked'[k] = n
        /\ \A j \in Keys \ {k} : tracked'[j] = tracked[j]
    BY <1>1, <1>2, <1>6, <1>t DEF IInv, TypeOK
  <2>6. store' \subseteq Items' /\ deleted' \subseteq Items'
    BY <1>1, <1>6, <1>t, <2>3 DEF IInv, TypeOK, Items, ListItem
  <2>7. TypeOK'
    BY <2>3, <2>4, <2>5, <2>6 DEF IInv, TypeOK, ListItem, Operations, Contents
  <2>8. RowsFollow'
    <3>1. n \notin deleted /\ n # 0 /\ deleted' = deleted /\ tracked[k] = 0
      BY <1>6, <1>t DEF IInv, TypeOK, Items, ListItem, Insert
    <3>2. {tracked'[j] : j \in Keys} \ ({0} \cup deleted')
            = ({tracked[j] : j \in Keys} \ ({0} \cup deleted)) \cup {n}
      BY <1>2, <2>5, <3>1
    <3>. QED
      BY <1>1, <1>6, <3>2 DEF IInv, RowsFollow
  <2>9. ItemsHaveTheirKeys'
    <3>1. ASSUME NEW j \in Keys \ {k}, tracked'[j] # 0 PROVE cache'[tracked'[j]].key = j
      <4>1. tracked[j] \in Items /\ cache[tracked[j]].key = j
        BY <2>5, <3>1 DEF IInv, TypeOK, Items, ItemsHaveTheirKeys
      <4>. QED
        BY <2>3, <2>5, <4>1
    <3>2. cache'[tracked'[k]].key = k
      BY <2>3, <2>5
    <3>. QED
      BY <3>1, <3>2 DEF ItemsHaveTheirKeys
  <2>. QED
    BY <2>4, <2>7, <2>8, <2>9 DEF IInv
<1>. QED
  BY <1>5, <1>6

LEMMA SweepStep == ASSUME IInv, NEW o \in Ops, Sweep(o) PROVE IInv'
<1>. DEFINE gone == Unseen(ops[o].snap)
<1>t. /\ ops \in [Ops -> Operations(Len(cache))]
      /\ cache \in Seq(Contents) /\ Len(cache) \in Nat
  BY DEF IInv, TypeOK, Operations, Contents
<1>1. /\ ops' \in [Ops -> Operations(Len(cache))]
      /\ \A p \in Ops : GoesOn(p)
  <2>1. ASSUME NEW p \in Ops
        PROVE  ops'[p] \in Operations(Len(cache)) /\ GoesOn(p)
    <3>1. ops'[p] = Idle \/ ops'[p] = ops[p] \/ ops'[p] = [ops[p] EXCEPT !.quiet = FALSE]
      BY DEF Sweep
    <3>2. ops[p] \in Operations(Len(cache))
      BY <1>t
    <3>3. CASE ops'[p] = Idle
      BY <3>3, IdleType DEF GoesOn
    <3>4. CASE ops'[p] # Idle
      BY <3>1, <3>2, <3>4 DEF Operations, GoesOn
    <3>. QED
      BY <3>3, <3>4
  <2>. QED
    BY <2>1 DEF Sweep
<1>2. OpsKnowTheirItems'
  <2>1. cache' = cache /\ Len(cache') >= Len(cache)
    BY <1>t DEF Sweep
  <2>. QED
    <3>1. \A i \in Items : cache'[i].key = cache[i].key
      BY <2>1
    <3>2. cache' \in Seq(Contents)
      BY <1>t, <2>1
    <3>. QED
      BY <1>1, <2>1, <3>1, <3>2, Continues
<1>3. /\ tracked' \in [Keys -> 0..Len(cache)]
      /\ \A k \in Keys : tracked'[k] = IF k \in gone THEN 0 ELSE tracked[k]
  BY <1>t DEF IInv, TypeOK, Sweep
<1>4. store' = store \ {tracked[k] : k \in gone}
  BY DEF Sweep
<1>5. settled' \in BOOLEAN
  <2>1. ops[o].quiet \in BOOLEAN
    BY <1>t DEF Operations
  <2>. QED
    BY <2>1 DEF Sweep
<1>6. TypeOK'
  BY <1>1, <1>3, <1>4, <1>5 DEF IInv, TypeOK, Sweep, Operations, Items
<1>7. RowsFollow'
  <2>1. \A k \in Keys, j \in Keys : tracked[k] # 0 /\ tracked[j] = tracked[k] => j = k
    BY DEF IInv, ItemsHaveTheirKeys
  <2>2. gone \subseteq Keys /\ \A k \in gone : tracked[k] # 0
    BY DEF Unseen
  <2>3. {tracked'[k] : k \in Keys} \ {0}
          = ({tracked[k] : k \in Keys} \ {0}) \ {tracked[k] : k \in gone}
    BY <1>3, <2>1, <2>2
  <2>. QED
    BY <1>4, <2>3 DEF IInv, RowsFollow, Sweep
<1>8. ItemsHaveTheirKeys'
  BY <1>3 DEF IInv, ItemsHaveTheirKeys, Sweep
<1>. QED
  BY <1>2, <1>6, <1>7, <1>8 DEF IInv

LEMMA CollectionStep == ASSUME IInv, NEW o \in Ops, Collection(o) PROVE IInv'
<1>. USE DEF Pcs, OnItem
<1>0. 0 \in 0..Len(cache)
  BY DEF IInv, TypeOK
<1>1. ASSUME Import(o) PROVE IInv'
  <2>1. PICK k \in Keys : Start(o, Op("import", k, 0))
    BY <1>1 DEF Import
  <2>. QED
    BY <1>0, <2>1, OpType, IdleStep
<1>2. ASSUME Generate(o) PROVE IInv'
  BY <1>0, <1>2, OpType, IdleStep DEF Generate
<1>3. ASSUME BeginLoad(o) PROVE IInv'
  BY <1>3, ListingType, AloneStep DEF BeginLoad
<1>. QED
  BY <1>1, <1>2, <1>3, ListItemStep, SweepStep DEF Collection

---------------------------------------------------------------------------
(* Steps of the items.                                                      *)

LEMMA ReloadType ==
  ASSUME IInv, NEW i \in Items
  PROVE  LET op == Reload(cache[i].key, i) IN
         /\ op \in Operations(Len(cache)) /\ op.pc = "secret"
         /\ op.item = i /\ op.key = cache[i].key
<1>. DEFINE k == cache[i].key
<1>1. k \in Keys /\ i \in 0..Len(cache) /\ "secret" \in Pcs
  BY ItemsHaveKeys DEF IInv, Items, Pcs
<1>2. /\ Op("secret", k, i) \in Operations(Len(cache))
      /\ Op("secret", k, i).pc = "secret" /\ Op("secret", k, i).key = k
      /\ Op("secret", k, i).item = i
  BY <1>1, OpType
<1>3. (IF ring[k].secret THEN ring[k] ELSE NoKey) \in RingKeys
  BY <1>1, RingHasKeys, NoKeyIsOne DEF IInv
<1>. QED
  BY <1>2, <1>3 DEF Reload, Operations

\* An operation that goes on with its item.
LEMMA WithItem ==
  ASSUME IInv, NEW o \in Ops, ops[o].pc \in OnItem
  PROVE  /\ ops[o] \in Operations(Len(cache)) /\ ops[o].item \in Items
         /\ ops[o].key = cache[ops[o].item].key /\ ops[o].key \in Keys
<1>1. ops[o] \in Operations(Len(cache)) /\ OfItem(o)
  BY DEF IInv, TypeOK, Operations, OpsKnowTheirItems
<1>. QED
  BY <1>1, ItemsHaveKeys DEF IInv, OfItem

LEMMA ListContentStep == ASSUME IInv, NEW o \in Ops, ListContent(o) PROVE IInv'
<1>. DEFINE i == ops[o].item
            new == [key |-> ops[o].key, ver |-> ops[o].view.ver, secret |-> ops[o].view.secret]
<1>t. /\ ops \in [Ops -> Operations(Len(cache))] /\ cache \in Seq(Contents)
      /\ Len(cache) \in Nat
  BY DEF IInv, TypeOK, Operations, Contents
<1>1. i \in Items /\ ops[o].key = cache[i].key /\ ops[o].key \in Keys
  BY WithItem DEF ListContent, OnItem
<1>2. new \in Contents
  <2>1. ops[o].view \in RingKeys
    BY <1>t DEF Operations
  <2>. QED
    BY <1>1, <2>1 DEF RingKeys, Contents
<1>3. cache' = [cache EXCEPT ![i] = new]
  BY DEF ListContent
<1>4. cache' \in Seq(Contents) /\ Len(cache') = Len(cache)
  BY <1>1, <1>2, <1>3, <1>t, ExceptSeq DEF Items
<1>5. \A j \in Items : cache'[j].key = cache[j].key
  BY <1>1, <1>3, <1>t DEF Items
<1>6. /\ ops' \in [Ops -> Operations(Len(cache))]
      /\ \A p \in Ops : GoesOn(p)
  <2>1. ASSUME NEW p \in Ops
        PROVE  ops'[p] \in Operations(Len(cache)) /\ GoesOn(p)
    <3>1. \/ ops'[p] = ops[p] \/ ops'[p] = [ops[p] EXCEPT !.quiet = FALSE]
          \/ ops'[p] = [ops[p] EXCEPT !.view = NoKey]
      BY DEF ListContent
    <3>2. ops[p] \in Operations(Len(cache))
      BY <1>t
    <3>. QED
      BY <3>1, <3>2, NoKeyIsOne DEF Operations, GoesOn
  <2>. QED
    BY <2>1 DEF ListContent
<1>7. ops' \in [Ops -> Operations(Len(cache'))] /\ OpsKnowTheirItems'
  BY <1>4, <1>5, <1>6, <1>t, Continues
<1>8. TypeOK'
  BY <1>4, <1>7 DEF IInv, TypeOK, ListContent, Operations, Contents, Items
<1>9. ItemsHaveTheirKeys'
  <2>1. \A k \in Keys : tracked[k] # 0 => tracked[k] \in Items
    BY DEF IInv, TypeOK, Items
  <2>. QED
    BY <1>5, <2>1 DEF IInv, ItemsHaveTheirKeys, ListContent
<1>. QED
  BY <1>7, <1>8, <1>9 DEF IInv, RowsFollow, ListContent

LEMMA DeletedStep == ASSUME IInv, NEW o \in Ops, Deleted(o) PROVE IInv'
<1>1. ops[o].item \in Items
  BY WithItem DEF Deleted, OnItem
<1>2. ops' \in [Ops -> Operations(Len(cache))] /\ OpsKnowTheirItems'
  <2>1. /\ Idle \in Operations(Len(cache)) /\ Idle.pc \notin OnItem /\ Idle.pc # "import"
        /\ ops' = [ops EXCEPT ![o] = Idle] /\ UNCHANGED cache
    BY IdleType DEF Deleted, OnItem
  <2>. QED
    BY <2>1, Becomes
<1>3. TypeOK'
  BY <1>1, <1>2 DEF IInv, TypeOK, Deleted, Operations, Items
<1>. QED
  BY <1>2, <1>3 DEF IInv, RowsFollow, ItemsHaveTheirKeys, Deleted

LEMMA ItemStep == ASSUME IInv, NEW o \in Ops, Item(o) PROVE IInv'
<1>. USE DEF OnItem
<1>0. \A i \in Items : i \in 0..Len(cache) /\ cache[i].key \in Keys
  BY ItemsHaveKeys DEF IInv, Items
<1>1. ASSUME Delete(o) PROVE IInv'
  <2>1. PICK i \in Items : Start(o, Op("delete", cache[i].key, i))
    BY <1>1 DEF Delete
  <2>2. "delete" \in Pcs
    BY DEF Pcs
  <2>. QED
    BY <1>0, <2>1, <2>2, OpType, IdleStep
<1>2. ASSUME Edit(o) PROVE IInv'
  <2>1. PICK i \in Items : Start(o, Op("edit", cache[i].key, i))
    BY <1>2 DEF Edit
  <2>2. "edit" \in Pcs
    BY DEF Pcs
  <2>. QED
    BY <1>0, <2>1, <2>2, OpType, IdleStep
<1>3. ASSUME LoadContent(o) PROVE IInv'
  <2>1. PICK i \in Items : Start(o, Reload(cache[i].key, i))
    BY <1>3 DEF LoadContent, IInv, TypeOK
  <2>. QED
    BY <2>1, ReloadType, IdleStep
<1>4. ASSUME BeginReload(o) PROVE IInv'
  <2>1. ops[o].item \in Items /\ ops[o].key = cache[ops[o].item].key
    BY <1>4, WithItem DEF BeginReload
  <2>. QED
    BY <1>4, <2>1, ReloadType, AloneStep DEF BeginReload
<1>5. ASSUME EndSecretListing(o) PROVE IInv'
  <2>. DEFINE public == [ver |-> ring[ops[o].key].ver, secret |-> FALSE]
  <2>1. /\ ops[o] \in Operations(Len(cache)) /\ ops[o].item \in Items
        /\ ops[o].key = cache[ops[o].item].key /\ ops[o].key \in Keys
    BY <1>5, WithItem DEF EndSecretListing
  <2>2. public \in RingKeys
    BY <2>1, RingHasKeys DEF IInv, RingKeys
  <2>3. CASE NeedsPublicKey(ops[o].item)
    <3>1. ops' = [ops EXCEPT ![o] = [ops[o] EXCEPT !.pc = "public", !.view = public]]
      BY <1>5, <2>3 DEF EndSecretListing
    <3>2. /\ [ops[o] EXCEPT !.pc = "public", !.view = public] \in Operations(Len(cache))
          /\ [ops[o] EXCEPT !.pc = "public", !.view = public].key = ops[o].key
          /\ [ops[o] EXCEPT !.pc = "public", !.view = public].item = ops[o].item
          /\ [ops[o] EXCEPT !.pc = "public", !.view = public].pc = "public"
      BY <2>1, <2>2 DEF Operations, Pcs
    <3>. QED
      BY <1>5, <2>1, <3>1, <3>2, AloneStep DEF EndSecretListing
  <2>4. CASE ~NeedsPublicKey(ops[o].item)
    <3>1. ops' = [ops EXCEPT ![o] = [ops[o] EXCEPT !.pc = "reloaded"]]
      BY <1>5, <2>4 DEF EndSecretListing
    <3>2. /\ [ops[o] EXCEPT !.pc = "reloaded"] \in Operations(Len(cache))
          /\ [ops[o] EXCEPT !.pc = "reloaded"].key = ops[o].key
          /\ [ops[o] EXCEPT !.pc = "reloaded"].item = ops[o].item
          /\ [ops[o] EXCEPT !.pc = "reloaded"].pc = "reloaded"
      BY <2>1 DEF Operations, Pcs
    <3>. QED
      BY <1>5, <2>1, <3>1, <3>2, AloneStep DEF EndSecretListing
  <2>. QED
    BY <2>3, <2>4
<1>6. ASSUME EndPublicListing(o) PROVE IInv'
  <2>1. /\ ops[o] \in Operations(Len(cache)) /\ ops[o].item \in Items
        /\ ops[o].key = cache[ops[o].item].key
    BY <1>6, WithItem DEF EndPublicListing
  <2>2. ops' = [ops EXCEPT ![o] = [ops[o] EXCEPT !.pc = "reloaded"]]
    BY <1>6 DEF EndPublicListing
  <2>3. /\ [ops[o] EXCEPT !.pc = "reloaded"] \in Operations(Len(cache))
        /\ [ops[o] EXCEPT !.pc = "reloaded"].key = ops[o].key
        /\ [ops[o] EXCEPT !.pc = "reloaded"].item = ops[o].item
        /\ [ops[o] EXCEPT !.pc = "reloaded"].pc = "reloaded"
    BY <2>1 DEF Operations, Pcs
  <2>. QED
    BY <1>6, <2>1, <2>2, <2>3, AloneStep DEF EndPublicListing
<1>7. ASSUME Reloaded(o) PROVE IInv'
  BY <1>7, IdleType, AloneStep DEF Reloaded
<1>. QED
  BY <1>1, <1>2, <1>3, <1>4, <1>5, <1>6, <1>7, DeletedStep, ListContentStep DEF Item

LEMMA FailStep == ASSUME IInv, NEW o \in Ops, Fail(o) PROVE IInv'
  BY IdleType, AloneStep DEF Fail, OnItem

LEMMA NextIInv == IInv /\ [Next]_vars => IInv'
<1>. SUFFICES ASSUME IInv, [Next]_vars PROVE IInv'
  OBVIOUS
<1>1. CASE UNCHANGED vars
  BY <1>1 DEF vars, IInv, TypeOK, OpsKnowTheirItems, OfItem, Items, RowsFollow, ItemsHaveTheirKeys
<1>2. CASE Next
  BY <1>2, OutsideStep, GpgStep, CollectionStep, ItemStep, FailStep DEF Next
<1>. QED
  BY <1>1, <1>2

---------------------------------------------------------------------------
(* What a load has seen, and what a reload knows.                           *)

Tracked == {k \in Keys : tracked[k] # 0}

\* What a quiet load has delivered is tracked.  Every load under way lists the settled key ring.
SettledFollows ==
  /\ settled => Tracked = Present
  /\ \A p \in Ops : ops[p].pc = "listing" =>
       /\ ops[p].left \subseteq ops[p].snap
       /\ settled => ops[p].snap = Present
       /\ ops[p].quiet => ops[p].snap \ ops[p].left \subseteq Tracked

\* What a quiet reload still has to deliver, or has delivered, is what the ring has.
Reloading == {"secret", "public", "reloaded"}
Exact(i, k) == cache[i] = [key |-> k, ver |-> ring[k].ver, secret |-> ring[k].secret]
Right(o) ==
  LET i == ops[o].item  k == ops[o].key  view == ops[o].view IN
  ops[o].pc \in Reloading /\ ops[o].quiet /\ k \in Present =>
    /\ ops[o].pc = "secret" /\ view # NoKey => view = ring[k] /\ ring[k].secret
    /\ ops[o].pc = "secret" /\ view = NoKey /\ ring[k].secret => Exact(i, k)
    /\ ops[o].pc = "public" => ~ring[k].secret
    /\ ops[o].pc = "public" /\ view # NoKey => view = [ver |-> ring[k].ver, secret |-> FALSE]
    /\ ops[o].pc = "public" /\ view = NoKey => Exact(i, k)
    /\ ops[o].pc = "reloaded" => Exact(i, k) \/ (cache[i].secret /\ ~ring[k].secret)
ReloadsAreRight == \A o \in Ops : Right(o)

\* In a step an operation is left alone, but for the notice that it is not quiet any more, or
\* it is what the step is about.
Kept(p) == ops'[p] = ops[p] \/ ops'[p] = [ops[p] EXCEPT !.quiet = FALSE]

LEMMA KeptOp ==
  ASSUME IInv, NEW p \in Ops, Kept(p)
  PROVE  /\ ops'[p].pc = ops[p].pc /\ ops'[p].key = ops[p].key /\ ops'[p].item = ops[p].item
         /\ ops'[p].snap = ops[p].snap /\ ops'[p].left = ops[p].left
         /\ ops'[p].view = ops[p].view
         /\ ops'[p].quiet => ops[p].quiet /\ ops'[p] = ops[p]
<1>1. ops[p] \in Operations(Len(cache))
  BY DEF IInv, TypeOK, Operations
<1>2. CASE ops'[p] = ops[p]
  BY <1>2
<1>3. CASE ops'[p] = [ops[p] EXCEPT !.quiet = FALSE]
  BY <1>1, <1>3 DEF Operations
<1>. QED
  BY <1>2, <1>3 DEF Kept

LEMMA SettledFrame ==
  ASSUME IInv, SettledFollows, UNCHANGED tracked, settled' => settled /\ Present' = Present,
         \A p \in Ops : Kept(p) \/ ops'[p].pc # "listing" \/ ops'[p] = Listing(Present')
  PROVE  SettledFollows'
<1>1. Tracked' = Tracked
  BY DEF Tracked
<1>2. ASSUME NEW p \in Ops, ops'[p].pc = "listing"
      PROVE  /\ ops'[p].left \subseteq ops'[p].snap
             /\ settled' => ops'[p].snap = Present'
             /\ ops'[p].quiet => ops'[p].snap \ ops'[p].left \subseteq Tracked'
  <2>1. CASE Kept(p)
    BY <1>1, <1>2, <2>1, KeptOp DEF SettledFollows
  <2>2. CASE ops'[p] = Listing(Present')
    <3>1. ops'[p].snap = Present' /\ ops'[p].left = Present'
      BY <2>2 DEF Listing, Idle, Op
    <3>. QED
      BY <3>1
  <2>. QED
    BY <1>2, <2>1, <2>2
<1>. QED
  BY <1>1, <1>2 DEF SettledFollows

LEMMA ReloadFrame ==
  ASSUME IInv, ReloadsAreRight,
         \A p \in Ops : Kept(p) \/ Right(p)',
         \A p \in Ops : ops'[p] = ops[p] /\ ops[p].pc \in Reloading /\ ops[p].quiet =>
           /\ ring'[ops[p].key] = ring[ops[p].key]
           /\ cache'[ops[p].item] = cache[ops[p].item]
  PROVE  ReloadsAreRight'
<1>1. ASSUME NEW p \in Ops, Kept(p) PROVE Right(p)'
  <2>1. CASE ops'[p].quiet /\ ops'[p].pc \in Reloading
    <3>1. ops'[p] = ops[p]
      BY <1>1, <2>1, KeptOp
    <3>2. /\ ring'[ops[p].key] = ring[ops[p].key]
          /\ cache'[ops[p].item] = cache[ops[p].item]
      BY <2>1, <3>1
    <3>3. ops[p].key \in Present' => ops[p].key \in Present
      BY <3>2 DEF Present
    <3>4. Right(p)
      BY DEF ReloadsAreRight
    <3>. QED
      BY <2>1, <3>1, <3>2, <3>3, <3>4 DEF Right, Exact
  <2>2. CASE ~(ops'[p].quiet /\ ops'[p].pc \in Reloading)
    BY <2>2 DEF Right
  <2>. QED
    BY <2>1, <2>2
<1>. QED
  BY <1>1 DEF ReloadsAreRight

Both == SettledFollows /\ ReloadsAreRight

\* A key of the ring is written or removed, which the operations on its items notice.
LEMMA PutStep ==
  ASSUME IInv, Both, NEW k \in Keys, NEW r \in RingKeys, Put(k, r), NEW os \in SUBSET Ops,
         UNCHANGED <<cache, tracked>>,
         \A p \in Ops \ os : ops'[p] = Notice(ops, k)[p],
         \A p \in os : ops'[p].pc \notin Reloading \cup {"listing"}
  PROVE  Both'
<1>1. ring' = [ring EXCEPT ![k] = r] /\ ring \in [Keys -> RingKeys]
  BY DEF Put, IInv, TypeOK
<1>2. settled' => settled /\ Present' = Present
  BY <1>1 DEF Put, Present
<1>3. \A p \in Ops \ os : Kept(p)
  BY DEF Kept, Notice
<1>4. SettledFollows'
  BY <1>2, <1>3, SettledFrame DEF Both
<1>5. ASSUME NEW p \in Ops, ops'[p] = ops[p], ops[p].pc \in Reloading, ops[p].quiet
      PROVE  ring'[ops[p].key] = ring[ops[p].key]
  <2>1. ops'[p] = Notice(ops, k)[p]
    BY <1>5
  <2>2. /\ ops[p] \in Operations(Len(cache)) /\ ops[p].item \in Items /\ ops[p].key \in Keys
    BY <1>5, WithItem DEF Reloading, OnItem
  <2>3. ops[p].item # 0
    BY <2>2 DEF Items, IInv, TypeOK
  <2>4. [ops[p] EXCEPT !.quiet = FALSE].quiet = FALSE
    BY <2>2 DEF Operations
  <2>5. ops[p].key # k
    BY <1>5, <2>1, <2>3, <2>4 DEF Notice
  <2>. QED
    BY <1>1, <2>2, <2>5
<1>6. \A p \in os : Right(p)'
  BY DEF Right
<1>7. ReloadsAreRight'
  BY <1>3, <1>5, <1>6, ReloadFrame DEF Both
<1>. QED
  BY <1>4, <1>7 DEF Both

\* One operation moves on, and nothing but its state changes.
LEMMA OneStep ==
  ASSUME IInv, Both, NEW o \in Ops, NEW op, ops' = [ops EXCEPT ![o] = op],
         UNCHANGED <<ring, cache, tracked, settled>>,
         op.pc = "listing" => op = Listing(Present),
         Right(o)'
  PROVE  Both'
<1>1. ops'[o] = op /\ \A p \in Ops \ {o} : ops'[p] = ops[p]
  BY DEF IInv, TypeOK
<1>2. Present' = Present
  BY DEF Present
<1>3. \A p \in Ops \ {o} : Kept(p)
  BY <1>1 DEF Kept
<1>4. SettledFollows'
  BY <1>1, <1>2, <1>3, SettledFrame DEF Both
<1>5. ReloadsAreRight'
  BY <1>3, ReloadFrame DEF Both
<1>. QED
  BY <1>4, <1>5 DEF Both

LEMMA InitBoth == Init => Both
<1>. SUFFICES ASSUME Init PROVE Both
  OBVIOUS
<1>1. \A p \in Ops : ops[p] = Idle \/ ops[p] = Listing(Present)
  BY DEF Init
<1>2. /\ Idle.pc = "idle" /\ Listing(Present).pc = "listing" /\ Listing(Present).snap = Present
      /\ Listing(Present).left = Present
  BY DEF Idle, Op, Listing
<1>. QED
  BY <1>1, <1>2 DEF Init, Both, SettledFollows, ReloadsAreRight, Right, Reloading

LEMMA GpgBoth == ASSUME IInv, Both, NEW o \in Ops, Gpg(o) PROVE Both'
<1>t. ops \in [Ops -> Operations(Len(cache))] /\ ops[o] \in Operations(Len(cache))
  BY DEF IInv, TypeOK, Operations
<1>1. ASSUME NEW pc \in {"imported", "deleted", "edited"}, NEW k \in Keys, Advance(o, pc, k)
      PROVE  /\ \A p \in Ops \ {o} : ops'[p] = Notice(ops, k)[p]
             /\ \A p \in {o} : ops'[p].pc \notin Reloading \cup {"listing"}
  BY <1>1, <1>t DEF Advance, Notice, Operations, Reloading
<1>2. ASSUME NEW pc \in {"imported", "deleted", "edited"}, NEW k \in Keys, NEW r \in RingKeys,
             Put(k, r), Advance(o, pc, k), UNCHANGED <<cache, tracked>>
      PROVE  Both'
  <2>1. {o} \in SUBSET Ops
    OBVIOUS
  <2>2. /\ \A p \in Ops \ {o} : ops'[p] = Notice(ops, k)[p]
        /\ \A p \in {o} : ops'[p].pc \notin Reloading \cup {"listing"}
    BY <1>1, <1>2
  <2>. QED
    BY <1>2, <2>1, <2>2, PutStep
<1>3. ASSUME GpgImports(o) PROVE Both'
  <2>1. ops[o].key \in Keys
    BY <1>3 DEF GpgImports, IInv, OpsKnowTheirItems
  <2>2. CASE \E s \in BOOLEAN : /\ now < MaxChanges
                                /\ Put(ops[o].key, NewVersion(s \/ ring[ops[o].key].secret))
                                /\ Advance(o, "imported", ops[o].key)
    <3>1. PICK s \in BOOLEAN : /\ now < MaxChanges
                               /\ Put(ops[o].key, NewVersion(s \/ ring[ops[o].key].secret))
                               /\ Advance(o, "imported", ops[o].key)
      BY <2>2
    <3>2. (s \/ ring[ops[o].key].secret) \in BOOLEAN
      OBVIOUS
    <3>3. NewVersion(s \/ ring[ops[o].key].secret) \in RingKeys
      BY <3>1, <3>2, NewVersionIsOne
    <3>. QED
      BY <1>2, <1>3, <2>1, <3>1, <3>3 DEF GpgImports
  <2>3. CASE ops' = [ops EXCEPT ![o].pc = "imported"] /\ UNCHANGED <<ring, now, settled>>
    <3>1. ops' = [ops EXCEPT ![o] = [ops[o] EXCEPT !.pc = "imported"]]
      BY <2>3
    <3>2. [ops[o] EXCEPT !.pc = "imported"].pc = "imported"
      BY <1>t DEF Operations
    <3>3. Right(o)'
      BY <1>t, <3>1, <3>2 DEF Right, Reloading
    <3>. QED
      BY <1>3, <2>3, <3>1, <3>2, <3>3, OneStep DEF GpgImports
  <2>. QED
    BY <1>3, <2>2, <2>3 DEF GpgImports
<1>4. ASSUME GpgGenerates(o) PROVE Both'
  <2>1. PICK k \in Keys : Put(k, NewVersion(TRUE)) /\ Advance(o, "imported", k)
    BY <1>4 DEF GpgGenerates
  <2>. QED
    BY <1>2, <1>4, <2>1, NewVersionIsOne DEF GpgGenerates
<1>5. ASSUME GpgDeletes(o) PROVE Both'
  <2>1. ops[o].key \in Keys
    BY <1>5, WithItem DEF GpgDeletes, OnItem
  <2>. QED
    BY <1>2, <1>5, <2>1, NoKeyIsOne DEF GpgDeletes
<1>6. ASSUME GpgEdits(o) PROVE Both'
  <2>1. ops[o].key \in Keys
    BY <1>6, WithItem DEF GpgEdits, OnItem
  <2>2. NewVersion(ring[ops[o].key].secret) \in RingKeys
    BY <1>6, <2>1, RingHasKeys, NewVersionIsOne DEF GpgEdits, IInv
  <2>. QED
    BY <1>2, <1>6, <2>1, <2>2 DEF GpgEdits
<1>. QED
  BY <1>3, <1>4, <1>5, <1>6 DEF Gpg

LEMMA OutsideBoth == ASSUME IInv, Both, Outside PROVE Both'
<1>1. PICK k \in Keys, r \in {NoKey} \cup {NewVersion(s) : s \in BOOLEAN} :
        Put(k, r) /\ ops' = Notice(ops, k)
  BY DEF Outside
<1>2. r \in RingKeys
  BY NoKeyIsOne, NewVersionIsOne DEF Outside
<1>3. \A p \in Ops \ {} : ops'[p] = Notice(ops, k)[p]
  BY <1>1
<1>4. {} \in SUBSET Ops /\ \A p \in {} : ops'[p].pc \notin Reloading \cup {"listing"}
  OBVIOUS
<1>5. UNCHANGED <<cache, tracked>>
  BY DEF Outside
<1>. HIDE DEF Both
<1>. QED
  BY <1>1, <1>2, <1>3, <1>4, <1>5, PutStep

LEMMA ListItemBoth == ASSUME IInv, Both, NEW o \in Ops, ListItem(o) PROVE Both'
<1>1. PICK k \in ops[o].left :
        /\ ops' = [ops EXCEPT ![o].left = @ \ {k}]
        /\ IF Insert(k)
           THEN /\ Len(cache) < MaxItems
                /\ cache' = NewItem(k, FALSE)
                /\ tracked' = [tracked EXCEPT ![k] = Len(cache) + 1]
                /\ store' = store \cup {Len(cache) + 1}
           ELSE UNCHANGED <<cache, tracked, store>>
  BY DEF ListItem
<1>t. /\ ops \in [Ops -> Operations(Len(cache))] /\ ops[o] \in Operations(Len(cache))
      /\ cache \in Seq(Contents) /\ Len(cache) \in Nat
  BY DEF IInv, TypeOK, Operations, Contents
<1>2. k \in Keys /\ ops[o].pc = "listing"
  BY <1>t DEF Operations, ListItem
<1>3. /\ \A p \in Ops \ {o} : ops'[p] = ops[p]
      /\ ops'[o].pc = "listing" /\ ops'[o].snap = ops[o].snap /\ ops'[o].quiet = ops[o].quiet
      /\ ops'[o].left = ops[o].left \ {k}
  BY <1>1, <1>2, <1>t DEF Operations
<1>4. Tracked' = Tracked \cup {k}
  <2>1. CASE Insert(k)
    BY <1>1, <1>2, <1>t, <2>1 DEF Tracked, IInv, TypeOK
  <2>2. CASE ~Insert(k)
    BY <1>1, <1>2, <2>2 DEF Insert, Tracked
  <2>. QED
    BY <2>1, <2>2
<1>5. Present' = Present /\ settled' = settled
  BY DEF ListItem, Present
<1>6. SettledFollows'
  <2>1. settled' => Tracked' = Present'
    BY <1>2, <1>4, <1>5 DEF Both, SettledFollows
  <2>. QED
    BY <1>2, <1>3, <1>4, <1>5, <2>1 DEF Both, SettledFollows
<1>7. \A i \in Items : cache'[i] = cache[i]
  <2>1. CASE Insert(k)
    <3>1. [key |-> k, ver |-> ring[k].ver, secret |-> FALSE] \in Contents
      BY <1>2, RingHasKeys DEF IInv, Contents
    <3>. QED
      BY <1>1, <1>t, <2>1, <3>1, AppendProperties DEF NewItem, Items
  <2>2. CASE ~Insert(k)
    BY <1>1, <2>2
  <2>. QED
    BY <2>1, <2>2
<1>8. ReloadsAreRight'
  <2>1. Right(o)'
    BY <1>3 DEF Right, Reloading
  <2>2. \A p \in Ops \ {o} : Kept(p)
    BY <1>3 DEF Kept
  <2>3. \A p \in Ops : ops[p].pc \in Reloading => cache'[ops[p].item] = cache[ops[p].item]
    BY <1>7, WithItem DEF Reloading, OnItem
  <2>4. ring' = ring
    BY DEF ListItem
  <2>. QED
    BY <2>1, <2>2, <2>3, <2>4, ReloadFrame DEF Both
<1>. QED
  BY <1>6, <1>8 DEF Both

LEMMA SweepBoth == ASSUME IInv, Both, NEW o \in Ops, Sweep(o) PROVE Both'
<1>t. /\ ops \in [Ops -> Operations(Len(cache))] /\ ops[o] \in Operations(Len(cache))
      /\ ops[o].pc = "listing" /\ ops[o].left = {}
  BY DEF IInv, TypeOK, Operations, Sweep
<1>1. /\ ops'[o].pc = "idle"
      /\ \A p \in Ops \ {o} : IF ops[p].pc = "listing" /\ ops[p].snap # ops[o].snap
                              THEN ops'[p] = [ops[p] EXCEPT !.quiet = FALSE] ELSE ops'[p] = ops[p]
  BY IdleType DEF Sweep
<1>2. Tracked' = Tracked \cap ops[o].snap
  <2>1. \A k \in Keys : tracked'[k] = IF k \in Unseen(ops[o].snap) THEN 0 ELSE tracked[k]
    BY DEF Sweep
  <2>. QED
    BY <2>1 DEF Tracked, Unseen
<1>3. Present' = Present /\ ring' = ring /\ cache' = cache
  BY DEF Sweep, Present
<1>4. settled' => /\ ops[o].quiet
                  /\ \A p \in Ops : ops[p].pc = "listing" => ops[p].snap = Present
  BY DEF Sweep
<1>5. ops[o].snap \subseteq Keys
  BY <1>t DEF Operations
<1>6. ASSUME settled' PROVE Tracked' = Present'
  BY <1>2, <1>3, <1>4, <1>6, <1>t DEF Both, SettledFollows
<1>7. ASSUME NEW p \in Ops, ops'[p].pc = "listing"
      PROVE  /\ ops'[p].left \subseteq ops'[p].snap
             /\ settled' => ops'[p].snap = Present'
             /\ ops'[p].quiet => ops'[p].snap \ ops'[p].left \subseteq Tracked'
  <2>1. p # o /\ Kept(p)
    BY <1>1, <1>7 DEF Kept
  <2>2. /\ ops'[p].pc = ops[p].pc /\ ops'[p].snap = ops[p].snap /\ ops'[p].left = ops[p].left
        /\ ops'[p].quiet => ops[p].quiet /\ ops'[p] = ops[p]
    BY <2>1, KeptOp
  <2>3. ops[p] \in Operations(Len(cache))
    BY <1>t
  <2>4. ops'[p].quiet => ops[p].snap = ops[o].snap
    BY <1>1, <1>7, <2>1, <2>2, <2>3 DEF Operations
  <2>. QED
    BY <1>2, <1>3, <1>4, <1>7, <2>2, <2>4 DEF Both, SettledFollows
<1>8. ReloadsAreRight'
  <2>1. Right(o)'
    BY <1>1 DEF Right, Reloading
  <2>2. \A p \in Ops \ {o} : Kept(p)
    BY <1>1 DEF Kept
  <2>. QED
    BY <1>3, <2>1, <2>2, ReloadFrame DEF Both
<1>. QED
  BY <1>6, <1>7, <1>8 DEF Both, SettledFollows

LEMMA CollectionBoth == ASSUME IInv, Both, NEW o \in Ops, Collection(o) PROVE Both'
<1>1. ASSUME NEW op, Start(o, op), op.pc \in {"import", "generate"} PROVE Both'
  <2>1. ops'[o] = op
    BY <1>1 DEF Start, IInv, TypeOK
  <2>2. Right(o)'
    BY <1>1, <2>1 DEF Right, Reloading
  <2>. QED
    BY <1>1, <2>2, OneStep DEF Start
<1>2. ASSUME Import(o) PROVE Both'
  BY <1>1, <1>2 DEF Import, Op
<1>3. ASSUME Generate(o) PROVE Both'
  BY <1>1, <1>3 DEF Generate, Op
<1>4. ASSUME BeginLoad(o) PROVE Both'
  <2>1. ops' = [ops EXCEPT ![o] = Listing(Present)] /\ ops'[o] = Listing(Present)
    BY <1>4 DEF BeginLoad, IInv, TypeOK
  <2>2. Right(o)'
    BY <2>1, ListingType DEF Right, Reloading
  <2>. QED
    BY <1>4, <2>1, <2>2, OneStep DEF BeginLoad
<1>. QED
  BY <1>2, <1>3, <1>4, ListItemBoth, SweepBoth DEF Collection

\* A reload begins with the view that gpg has of the key.
LEMMA ReloadBoth ==
  ASSUME IInv, Both, NEW o \in Ops, NEW i \in Items,
         ops' = [ops EXCEPT ![o] = Reload(cache[i].key, i)],
         UNCHANGED <<ring, cache, tracked, settled>>
  PROVE  Both'
<1>. DEFINE k == cache[i].key
            op == Reload(k, i)
<1>1. op \in Operations(Len(cache)) /\ op.pc = "secret" /\ op.item = i /\ op.key = k
  BY ReloadType
<1>2. op.view = IF ring[k].secret THEN ring[k] ELSE NoKey
  BY DEF Reload, Op
<1>3. ops'[o] = op
  BY DEF IInv, TypeOK
<1>. HIDE DEF op
<1>4. Right(o)'
  <2>1. ASSUME k \in Present PROVE ring[k] # NoKey
    BY <2>1 DEF Present, NoKey
  <2>. QED
    BY <1>1, <1>2, <1>3, <2>1 DEF Right, Present
<1>. QED
  BY <1>1, <1>4, OneStep DEF op

LEMMA ListContentBoth == ASSUME IInv, Both, NEW o \in Ops, ListContent(o) PROVE Both'
<1>. DEFINE i == ops[o].item
            k == ops[o].key
            new == [key |-> k, ver |-> ops[o].view.ver, secret |-> ops[o].view.secret]
<1>1. /\ ops[o] \in Operations(Len(cache)) /\ i \in Items /\ k \in Keys
      /\ ops[o].pc \in {"secret", "public"} /\ ops[o].view # NoKey
  BY WithItem DEF ListContent, OnItem
<1>t. /\ ops \in [Ops -> Operations(Len(cache))] /\ cache \in Seq(Contents)
      /\ ring \in [Keys -> RingKeys]
  BY DEF IInv, TypeOK, Operations, Contents
<1>2. cache'[i] = new /\ \A j \in Items \ {i} : cache'[j] = cache[j]
  BY <1>1, <1>t DEF ListContent, Items
<1>3. ops'[o] = [ops[o] EXCEPT !.view = NoKey]
  BY DEF ListContent
<1>4. \A p \in Ops \ {o} : IF ops[p].item = i THEN ops'[p] = [ops[p] EXCEPT !.quiet = FALSE]
                           ELSE ops'[p] = ops[p]
  BY DEF ListContent
<1>5. /\ ops'[o].pc = ops[o].pc /\ ops'[o].item = i /\ ops'[o].key = k
      /\ ops'[o].view = NoKey /\ ops'[o].quiet = ops[o].quiet
  BY <1>1, <1>3 DEF Operations
<1>6. \A p \in Ops \ {o} : Kept(p)
  BY <1>4 DEF Kept
<1>7. ring' = ring /\ Present' = Present
  BY DEF ListContent, Present
<1>8. SettledFollows'
  <2>1. ops'[o].pc # "listing"
    BY <1>1, <1>5
  <2>. QED
    BY <1>6, <1>7, <2>1, SettledFrame DEF Both, ListContent
<1>9. Right(o)'
  <2>1. CASE ops[o].quiet /\ k \in Present
    <3>1. Right(o)
      BY DEF Both, ReloadsAreRight
    <3>2. ring[k] = [ver |-> ring[k].ver, secret |-> ring[k].secret]
      BY <1>1, <1>t DEF RingKeys
    <3>3. ring[k].secret \in BOOLEAN
      BY <1>1, <1>t DEF RingKeys
    <3>4. CASE ops[o].pc = "secret"
      <4>1. ops[o].view = ring[k] /\ ring[k].secret
        BY <1>1, <2>1, <3>1, <3>4 DEF Right, Reloading
      <4>2. cache'[i] = [key |-> k, ver |-> ring[k].ver, secret |-> ring[k].secret]
        BY <1>2, <4>1
      <4>. QED
        BY <1>5, <1>7, <3>4, <4>2 DEF Right, Exact
    <3>5. CASE ops[o].pc = "public"
      <4>1. ops[o].view = [ver |-> ring[k].ver, secret |-> FALSE] /\ ~ring[k].secret
        BY <1>1, <2>1, <3>1, <3>5 DEF Right, Reloading
      <4>2. ring[k].secret = FALSE
        BY <3>3, <4>1
      <4>3. ops[o].view.ver = ring[k].ver /\ ops[o].view.secret = FALSE
        BY <4>1
      <4>4. cache'[i] = [key |-> k, ver |-> ring[k].ver, secret |-> ring[k].secret]
        BY <1>2, <4>2, <4>3
      <4>. QED
        BY <1>5, <1>7, <3>5, <4>1, <4>4 DEF Right, Exact
    <3>. QED
      BY <1>1, <3>4, <3>5
  <2>2. CASE ~(ops[o].quiet /\ k \in Present)
    BY <1>5, <1>7, <2>2 DEF Right
  <2>. QED
    BY <2>1, <2>2
<1>10. ASSUME NEW p \in Ops, ops'[p] = ops[p], ops[p].pc \in Reloading, ops[p].quiet
       PROVE  cache'[ops[p].item] = cache[ops[p].item]
  <2>1. ops[p] \in Operations(Len(cache)) /\ ops[p].item \in Items
    BY <1>10, WithItem DEF Reloading, OnItem
  <2>2. CASE p = o
    <3>1. ops'[o].view = NoKey
      BY <1>5
    <3>. QED
      BY <1>1, <1>10, <2>2, <3>1
  <2>3. CASE p # o
    <3>1. [ops[p] EXCEPT !.quiet = FALSE].quiet = FALSE
      BY <2>1 DEF Operations
    <3>. QED
      BY <1>2, <1>4, <1>10, <2>1, <2>3, <3>1
  <2>. QED
    BY <2>2, <2>3
<1>11. ReloadsAreRight'
  BY <1>6, <1>7, <1>9, <1>10, ReloadFrame DEF Both
<1>. QED
  BY <1>8, <1>11 DEF Both

LEMMA ItemBoth == ASSUME IInv, Both, NEW o \in Ops, Item(o) PROVE Both'
<1>t. ops \in [Ops -> Operations(Len(cache))] /\ ops[o] \in Operations(Len(cache))
  BY DEF IInv, TypeOK, Operations
<1>0. ASSUME NEW op, ops' = [ops EXCEPT ![o] = op], UNCHANGED <<ring, cache, tracked, settled>>,
             op.pc \notin Reloading \cup {"listing"}
      PROVE  Both'
  <2>1. ops'[o] = op
    BY <1>0, <1>t
  <2>2. Right(o)'
    BY <1>0, <2>1 DEF Right
  <2>. QED
    BY <1>0, <2>2, OneStep
<1>1. ASSUME Delete(o) PROVE Both'
  <2>1. PICK i \in Items : Start(o, Op("delete", cache[i].key, i))
    BY <1>1 DEF Delete
  <2>2. Op("delete", cache[i].key, i).pc = "delete"
    BY DEF Op
  <2>. QED
    BY <1>0, <2>1, <2>2 DEF Start, Reloading
<1>2. ASSUME Edit(o) PROVE Both'
  <2>1. PICK i \in Items : Start(o, Op("edit", cache[i].key, i))
    BY <1>2 DEF Edit
  <2>2. Op("edit", cache[i].key, i).pc = "edit"
    BY DEF Op
  <2>. QED
    BY <1>0, <2>1, <2>2 DEF Start, Reloading
<1>3. ASSUME Deleted(o) PROVE Both'
  BY <1>0, <1>3, IdleType DEF Deleted, Reloading
<1>4. ASSUME LoadContent(o) PROVE Both'
  <2>1. PICK i \in store : Start(o, Reload(cache[i].key, i))
    BY <1>4 DEF LoadContent
  <2>2. i \in Items
    BY DEF IInv, TypeOK
  <2>. QED
    BY <2>1, <2>2, ReloadBoth DEF Start
<1>5. ASSUME BeginReload(o) PROVE Both'
  <2>1. ops[o].item \in Items /\ ops[o].key = cache[ops[o].item].key
    BY <1>5, WithItem DEF BeginReload, OnItem
  <2>. QED
    BY <1>5, <2>1, ReloadBoth DEF BeginReload
<1>6. ASSUME EndSecretListing(o) PROVE Both'
  <2>. DEFINE i == ops[o].item
              k == ops[o].key
              public == [ver |-> ring[k].ver, secret |-> FALSE]
  <2>1. /\ i \in Items /\ k \in Keys /\ ops[o].pc = "secret" /\ ops[o].view = NoKey
        /\ UNCHANGED <<ring, cache, tracked, settled>>
    BY <1>6, WithItem DEF EndSecretListing, OnItem
  <2>2. Right(o)
    BY DEF Both, ReloadsAreRight
  <2>3. Present' = Present
    BY <2>1 DEF Present
  <2>4. CASE NeedsPublicKey(i)
    <3>1. ops' = [ops EXCEPT ![o] = [ops[o] EXCEPT !.pc = "public", !.view = public]]
      BY <1>6, <2>4 DEF EndSecretListing
    <3>2. /\ ops'[o].pc = "public" /\ ops'[o].view = public /\ ops'[o].item = i
          /\ ops'[o].key = k /\ ops'[o].quiet = ops[o].quiet
      BY <1>t, <3>1 DEF Operations
    <3>3. ASSUME ops[o].quiet, k \in Present PROVE ~ring[k].secret /\ public # NoKey
      BY <2>1, <2>2, <2>4, <3>3 DEF Right, Reloading, Exact, NeedsPublicKey, Present, NoKey
    <3>4. Right(o)'
      BY <2>1, <2>3, <3>2, <3>3 DEF Right
    <3>5. [ops[o] EXCEPT !.pc = "public", !.view = public].pc = "public"
      BY <1>t DEF Operations
    <3>. QED
      BY <2>1, <3>1, <3>4, <3>5, OneStep
  <2>5. CASE ~NeedsPublicKey(i)
    <3>1. ops' = [ops EXCEPT ![o] = [ops[o] EXCEPT !.pc = "reloaded"]]
      BY <1>6, <2>5 DEF EndSecretListing
    <3>2. /\ ops'[o].pc = "reloaded" /\ ops'[o].item = i
          /\ ops'[o].key = k /\ ops'[o].quiet = ops[o].quiet
      BY <1>t, <3>1 DEF Operations
    <3>3. ASSUME ops[o].quiet, k \in Present
          PROVE  Exact(i, k) \/ (cache[i].secret /\ ~ring[k].secret)
      BY <2>1, <2>2, <2>5, <3>3 DEF Right, Reloading, NeedsPublicKey
    <3>4. Right(o)'
      BY <2>1, <2>3, <3>2, <3>3 DEF Right, Exact
    <3>5. [ops[o] EXCEPT !.pc = "reloaded"].pc = "reloaded"
      BY <1>t DEF Operations
    <3>. QED
      BY <2>1, <3>1, <3>4, <3>5, OneStep
  <2>. QED
    BY <2>4, <2>5
<1>7. ASSUME EndPublicListing(o) PROVE Both'
  <2>1. /\ ops' = [ops EXCEPT ![o] = [ops[o] EXCEPT !.pc = "reloaded"]]
        /\ ops[o].pc = "public" /\ ops[o].view = NoKey
        /\ UNCHANGED <<ring, cache, tracked, settled>>
    BY <1>7 DEF EndPublicListing
  <2>2. /\ ops'[o].pc = "reloaded" /\ ops'[o].item = ops[o].item
        /\ ops'[o].key = ops[o].key /\ ops'[o].quiet = ops[o].quiet
    BY <1>t, <2>1 DEF Operations
  <2>3. Right(o) /\ Present' = Present
    BY <2>1 DEF Both, ReloadsAreRight, Present
  <2>4. Right(o)'
    BY <2>1, <2>2, <2>3 DEF Right, Exact, Reloading
  <2>5. [ops[o] EXCEPT !.pc = "reloaded"].pc = "reloaded"
    BY <1>t DEF Operations
  <2>. QED
    BY <2>1, <2>4, <2>5, OneStep
<1>8. ASSUME Reloaded(o) PROVE Both'
  BY <1>0, <1>8, IdleType DEF Reloaded, Reloading
<1>. QED
  BY <1>1, <1>2, <1>3, <1>4, <1>5, <1>6, <1>7, <1>8, ListContentBoth DEF Item

LEMMA FailBoth == ASSUME IInv, Both, NEW o \in Ops, Fail(o) PROVE Both'
<1>1. /\ ops' = [ops EXCEPT ![o] = Idle] /\ ops'[o] = Idle
      /\ UNCHANGED <<ring, cache, tracked, settled>>
  BY DEF Fail, IInv, TypeOK
<1>2. Right(o)' /\ Idle.pc # "listing"
  BY <1>1, IdleType DEF Right, Reloading
<1>. QED
  BY <1>1, <1>2, OneStep

LEMMA NextBoth == IInv /\ Both /\ [Next]_vars => Both'
<1>. SUFFICES ASSUME IInv, Both, [Next]_vars PROVE Both'
  OBVIOUS
<1>1. CASE UNCHANGED vars
  <2>1. \A p \in Ops : Kept(p)
    BY <1>1 DEF vars, Kept
  <2>2. SettledFollows'
    BY <1>1, <2>1, SettledFrame DEF vars, Both, Present
  <2>3. ReloadsAreRight'
    BY <1>1, <2>1, ReloadFrame DEF vars, Both
  <2>. QED
    BY <2>2, <2>3 DEF Both
<1>2. CASE Next
  BY <1>2, OutsideBoth, GpgBoth, CollectionBoth, ItemBoth, FailBoth DEF Next
<1>. QED
  BY <1>1, <1>2

---------------------------------------------------------------------------
(* Theorems.                                                                *)

LEMMA AlwaysIInv == Spec => [](IInv /\ Both)
<1>1. Init => IInv /\ Both
  BY InitIInv, InitBoth
<1>2. (IInv /\ Both) /\ [Next]_vars => (IInv /\ Both)'
  BY NextIInv, NextBoth
<1>. QED
  BY <1>1, <1>2, PTL DEF Spec

\* However many loads, deletions, imports and edits overlap, each with its own view of the key
\* ring (GpgCollection.load_items, GpgItem.delete and the panel's callbacks): the panel has
\* exactly one row for every item of _items that has not been deleted here, and each item
\* is listed under its own fingerprint.
THEOREM PanelShowsTheItems == Spec => []StoreShowsItems
<1>1. IInv => StoreShowsItems
  BY DEF IInv, StoreShowsItems, RowsFollow, ItemsHaveTheirKeys
<1>. QED
  BY <1>1, AlwaysIInv, PTL

\* However loads overlap (GpgCollection.load_items): a load that ends, and has not overlapped one
\* that started from an older key ring, leaves in _items exactly the keys of the ring.
THEOREM LoadsSettle == Spec => []SettledItemsAreTheRing
<1>1. Both => SettledItemsAreTheRing
  BY DEF Both, SettledFollows, SettledItemsAreTheRing, Tracked
<1>. QED
  BY <1>1, AlwaysIInv, PTL

\* Whatever else is under way, a GpgItem.load_content whose key and item nothing else touched
\* ends with the item as the key ring has it, but for a secret half that has gone.
THEOREM ReloadsAreExact == Spec => []ReloadIsExact
<1>1. Both => ReloadIsExact
  BY DEF Both, ReloadsAreRight, Right, Reloading, Exact, ReloadIsExact
<1>. QED
  BY <1>1, AlwaysIInv, PTL
=============================================================================
