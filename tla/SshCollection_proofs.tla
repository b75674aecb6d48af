------------------------- MODULE SshCollection_proofs -------------------------
(***************************************************************************)
(* Proofs about SshCollection for any number of keys and items, any key     *)
(* types, and any writes of other programs: the panel and the switches show *)
(* the files, an etag keeps what this program has not read, and a key file  *)
(* keeps its key when its comment is changed.                               *)
(***************************************************************************)
EXTENDS SshCollection, SequenceTheorems, WellFoundedInduction, TLAPS

Live == {o \in Objects : object[o] # NoItem}

IsKey(k) == k = [magic |-> k.magic, fields |-> k.fields, comment |-> k.comment]
                /\ k.magic \in Magics
IsItem(i, n) == /\ i = [path |-> i.path, key |-> i.key, etag |-> i.etag, read |-> i.read]
             /\ i.etag \in 0..n /\ i.read \in 0..n
\* An object of the collection has a key that has been read, with the etag of a file.
IsLive(i, n) == IsItem(i, n) /\ i.path \in Paths /\ IsKey(i.key) /\ i.read # None
IsFile(f, n) == /\ f = [line |-> f.line, etag |-> f.etag]
                /\ f.etag \in 0..n
                /\ f.etag = None => ~Parses(f.line)

FilesTyped == /\ clock \in Nat
              /\ files = [p \in Paths |-> files[p]] /\ \A p \in Paths : IsFile(files[p], clock)
ObjectsTyped == /\ object = [o \in Objects |-> object[o]]
                /\ \A o \in Objects : object[o] = NoItem \/ IsLive(object[o], clock)
ItemsTyped == /\ items \in [Paths -> {None} \cup Objects]
              /\ \A p \in Paths : items[p] # None => items[p] \in Live /\ object[items[p]].path = p
              /\ opened \cup deleting \cup deleted \subseteq Live
AuthTyped == /\ auth = [lines |-> auth.lines, etag |-> auth.etag]
             /\ seen = [lines |-> seen.lines, etag |-> seen.etag, read |-> seen.read]
             /\ {auth.etag, seen.etag, seen.read} \subseteq 0..clock
RestTyped == /\ keygen \in BOOLEAN /\ news \in [dir : BOOLEAN, auth : BOOLEAN]
             /\ writes \in 0..MaxWrites /\ outside \in 0..MaxOutside

\* A row is the item of a path, and no item that was deleted here has one.
RowsFollow == rows = {items[p] : p \in Paths} \ ({None} \cup deleted)
\* What the monitor has still to report is all that _items does not have.
ItemsFollow == ~news.dir => \A p \in Paths : items[p] # None <=> Parses(files[p].line)
\* An etag that has been taken tells what has been read with it.
SwitchesFollow ==
  /\ ~news.auth /\ auth.etag # None => seen.lines = auth.lines
  /\ seen.etag # None /\ seen.etag = auth.etag => seen.lines = auth.lines /\ seen.read = auth.etag
Tells(i, f) == i.etag # None /\ i.etag = f.etag => i.read = f.etag \/ ~Parses(f.line)
EtagsTell == \A o \in Live : Tells(object[o], files[object[o].path])

Typed == FilesTyped /\ ObjectsTyped /\ ItemsTyped /\ AuthTyped /\ RestTyped
IInv ==
  /\ Typed /\ RowsFollow /\ ItemsFollow /\ SwitchesFollow /\ EtagsTell
  /\ CheckedWritesAreSafe

---------------------------------------------------------------------------
(* Files and items.                                                         *)

LEMMA NoLineFails == ~Parses(NoLine)
  BY WireAssumption DEF Parses, NoLine

\* What is read with success is a key, and has an etag; otherwise only the etag is new.
LEMMA LoadedIsLive ==
  ASSUME NEW n \in Nat, NEW i, NEW f, IsFile(f, n), IsItem(i, n), i.path \in Paths,
         Parses(f.line) \/ IsLive(i, n)
  PROVE  /\ IsLive(Loaded(i, f), n) /\ Loaded(i, f).path = i.path
         /\ Tells(Loaded(i, f), f) /\ Loaded(i, f).etag = f.etag
<1>1. CASE Parses(f.line)
  <2>1. Parse(f.line).magic \in Magics /\ IsKey(Parse(f.line))
    BY <1>1 DEF Parse, Parses, IsKey
  <2>2. Loaded(i, f) = [path |-> i.path, key |-> Parse(f.line), etag |-> f.etag, read |-> f.etag]
    BY <1>1 DEF Loaded, IsItem
  <2>. QED
    BY <1>1, <2>1, <2>2 DEF IsLive, IsItem, IsFile, Tells
<1>2. CASE ~Parses(f.line)
  <2>1. Loaded(i, f) = [path |-> i.path, key |-> i.key, etag |-> f.etag, read |-> i.read]
    BY <1>2 DEF Loaded, IsItem
  <2>. QED
    BY <1>2, <2>1 DEF IsLive, IsItem, IsFile, Tells
<1>. QED
  BY <1>1, <1>2

LEMMA LiveIsNotNoItem == ASSUME NEW n, NEW i, IsLive(i, n) PROVE i # NoItem
  BY DEF IsLive, NoItem

LEMMA NoFileIsOne == ASSUME NEW n \in Nat PROVE IsFile(NoFile, n)
  BY NoLineFails DEF IsFile, NoFile, None

LEMMA NoItemIsOne == ASSUME NEW n \in Nat, NEW p
                     PROVE  /\ IsItem([NoItem EXCEPT !.path = p], n)
                            /\ [NoItem EXCEPT !.path = p].path = p
  BY DEF IsItem, NoItem, None

LEMMA NewIsLive ==
  ASSUME NEW n \in Nat, NEW p \in Paths, NEW f, IsFile(f, n), Parses(f.line)
  PROVE  LET x == Loaded([NoItem EXCEPT !.path = p], f) IN
         IsLive(x, n) /\ x.path = p /\ Tells(x, f)
<1>. DEFINE i == [NoItem EXCEPT !.path = p]
<1>1. IsItem(i, n) /\ i.path = p
  BY NoItemIsOne
<1>. HIDE DEF i
<1>2. IsLive(Loaded(i, f), n) /\ Loaded(i, f).path = p /\ Tells(Loaded(i, f), f)
  BY <1>1, LoadedIsLive
<1>. QED
  BY <1>2 DEF i

\* The clock goes on, and a new etag is one that nothing has.
LEMMA Later ==
  ASSUME NEW n \in Nat, NEW m \in {n, n + 1}, NEW x
  PROVE  /\ m \in Nat /\ 0..n \subseteq 0..m
         /\ IsFile(x, n) => IsFile(x, m)
         /\ IsLive(x, n) => IsLive(x, m)
         /\ IsItem(x, n) => x.etag # n + 1 /\ x.read # n + 1
  BY DEF IsFile, IsLive, IsItem

LEMMA WrittenIsFile == ASSUME NEW n \in Nat, NEW l PROVE IsFile([line |-> l, etag |-> n + 1], n + 1)
  BY DEF IsFile, None

LEMMA InitIInv == Init => IInv
<1>. SUFFICES ASSUME Init PROVE IInv
  OBVIOUS
<1>. USE DEF Init
<1>1. FilesTyped
  <2>1. ASSUME NEW p \in Paths PROVE IsFile(files[p], 1)
    <3>1. \/ \E l \in InitialLines : files[p] = [line |-> l, etag |-> 1]
          \/ files[p] = NoFile
      OBVIOUS
    <3>. QED
      BY <3>1, NoFileIsOne DEF IsFile, None
  <2>. QED
    BY <2>1 DEF FilesTyped
<1>2. ObjectsTyped /\ ItemsTyped
  BY DEF ObjectsTyped, ItemsTyped
<1>3. AuthTyped /\ RestTyped
  <2>1. AuthTyped
    BY DEF AuthTyped, None
  <2>2. 0 \in 0..MaxWrites /\ 0 \in 0..MaxOutside
    BY CollectionAssumption
  <2>. QED
    BY <2>1, <2>2 DEF RestTyped
<1>4. RowsFollow /\ ItemsFollow /\ SwitchesFollow /\ EtagsTell
  BY DEF RowsFollow, ItemsFollow, SwitchesFollow, EtagsTell, Live
<1>5. CheckedWritesAreSafe
  BY DEF CheckedWritesAreSafe
<1>. QED
  BY <1>1, <1>2, <1>3, <1>4, <1>5 DEF IInv, Typed

---------------------------------------------------------------------------
(* What a step leaves alone.                                                *)

LEMMA FilesFrame ==
  ASSUME Typed, clock' \in {clock, clock + 1}, UNCHANGED files
  PROVE  FilesTyped'
  BY Later DEF Typed, FilesTyped

LEMMA ObjectsFrame ==
  ASSUME Typed, clock' \in {clock, clock + 1}, UNCHANGED object
  PROVE  ObjectsTyped' /\ Live' = Live
  BY Later DEF Typed, FilesTyped, ObjectsTyped, Live

LEMMA ItemsFrame ==
  ASSUME Typed, RowsFollow, Live' = Live, \A o \in Live : object'[o].path = object[o].path,
         UNCHANGED <<items, rows, deleted>>, opened' \cup deleting' \subseteq Live
  PROVE  ItemsTyped' /\ RowsFollow'
  BY DEF Typed, ItemsTyped, RowsFollow

LEMMA AuthFrame ==
  ASSUME Typed, clock' \in {clock, clock + 1}, UNCHANGED <<auth, seen>>
  PROVE  AuthTyped'
<1>1. 0..clock \subseteq 0..clock'
  BY Later DEF Typed, FilesTyped
<1>. QED
  BY <1>1 DEF Typed, AuthTyped

\* A file that is written or deleted: no object has its etag, and the monitor will report it.
LEMMA FileStep ==
  ASSUME Typed, EtagsTell, NEW p \in Paths, NEW f, IsFile(f, clock'),
         clock' \in {clock, clock + 1}, f.etag \in {None, clock + 1},
         files' = [files EXCEPT ![p] = f], news' = [news EXCEPT !.dir = TRUE]
  PROVE  /\ FilesTyped' /\ ItemsFollow' /\ news' \in [dir : BOOLEAN, auth : BOOLEAN]
         /\ news'.auth = news.auth
         /\ \A o \in Live : Tells(object[o], files'[object[o].path])
<1>1. /\ files' = [q \in Paths |-> files'[q]] /\ files'[p] = f
      /\ \A q \in Paths \ {p} : files'[q] = files[q]
  BY DEF Typed, FilesTyped
<1>2. FilesTyped'
  BY <1>1, Later DEF Typed, FilesTyped
<1>3. /\ news' \in [dir : BOOLEAN, auth : BOOLEAN] /\ news'.dir = TRUE /\ news'.auth = news.auth
  BY DEF Typed, RestTyped
<1>4. ItemsFollow'
  BY <1>3 DEF ItemsFollow
<1>5. ASSUME NEW o \in Live PROVE Tells(object[o], files'[object[o].path])
  <2>1. IsLive(object[o], clock)
    BY DEF Typed, ObjectsTyped, Live
  <2>2. CASE object[o].path = p
    <3>1. object[o].etag # clock + 1
      BY <2>1, Later DEF IsLive, Typed, FilesTyped
    <3>. QED
      BY <1>1, <2>2, <3>1 DEF Tells
  <2>3. CASE object[o].path # p
    BY <1>1, <2>1, <2>3 DEF EtagsTell, IsLive
  <2>. QED
    BY <2>2, <2>3
<1>. QED
  BY <1>2, <1>3, <1>4, <1>5

\* authorized_keys is written or deleted by others.
LEMMA AuthStep ==
  ASSUME Typed, NEW lines, NEW etag \in {None, clock + 1}, clock' \in {clock, clock + 1},
         etag = None \/ etag = clock',
         auth' = [lines |-> lines, etag |-> etag], UNCHANGED seen,
         news' = [news EXCEPT !.auth = TRUE]
  PROVE  /\ AuthTyped' /\ SwitchesFollow' /\ news' \in [dir : BOOLEAN, auth : BOOLEAN]
         /\ news'.dir = news.dir
<1>1. 0..clock \subseteq 0..clock' /\ seen.etag # clock + 1 /\ etag \in 0..clock'
  BY Later DEF Typed, FilesTyped, AuthTyped, None
<1>2. news' \in [dir : BOOLEAN, auth : BOOLEAN] /\ news'.auth = TRUE /\ news'.dir = news.dir
  BY DEF Typed, RestTyped
<1>. QED
  BY <1>1, <1>2 DEF Typed, AuthTyped, SwitchesFollow

---------------------------------------------------------------------------
(* Other programs.                                                          *)

LEMMA OthersStep == ASSUME IInv, Others PROVE IInv'
<1>. USE DEF IInv
<1>1. ASSUME NEW p \in Paths, OutsideWrites(p) PROVE IInv'
  <2>1. PICK l \in Lines : SetFile(p, l)
    BY <1>1 DEF OutsideWrites
  <2>. DEFINE f == [line |-> l, etag |-> clock + 1]
  <2>2. IsFile(f, clock') /\ f.etag = clock + 1 /\ clock' = clock + 1
    BY <2>1, WrittenIsFile DEF SetFile, Typed, FilesTyped
  <2>3. files' = [files EXCEPT ![p] = f] /\ news' = [news EXCEPT !.dir = TRUE]
    BY <2>1 DEF SetFile
  <2>4. /\ FilesTyped' /\ ItemsFollow' /\ news' \in [dir : BOOLEAN, auth : BOOLEAN]
        /\ news'.auth = news.auth
        /\ \A o \in Live : Tells(object[o], files'[object[o].path])
    BY <2>2, <2>3, FileStep
  <2>5. ObjectsTyped' /\ Live' = Live /\ AuthTyped'
    BY <1>1, <2>2, ObjectsFrame, AuthFrame DEF OutsideWrites
  <2>6. ItemsTyped' /\ RowsFollow'
    BY <1>1, <2>5, ItemsFrame DEF OutsideWrites, Typed, ItemsTyped
  <2>7. RestTyped'
    BY <1>1, <2>4, CollectionAssumption DEF OutsideWrites, Outside, Typed, RestTyped
  <2>. QED
    BY <1>1, <2>4, <2>5, <2>6, <2>7
    DEF OutsideWrites, SwitchesFollow, EtagsTell, CheckedWritesAreSafe, Typed
<1>2. ASSUME NEW p \in Paths, OutsideDeletes(p) PROVE IInv'
  <2>1. IsFile(NoFile, clock') /\ NoFile.etag = None /\ clock' = clock
    BY <1>2, NoFileIsOne DEF OutsideDeletes, NoFile, Typed, FilesTyped
  <2>2. files' = [files EXCEPT ![p] = NoFile] /\ news' = [news EXCEPT !.dir = TRUE]
    BY <1>2 DEF OutsideDeletes
  <2>3. /\ FilesTyped' /\ ItemsFollow' /\ news' \in [dir : BOOLEAN, auth : BOOLEAN]
        /\ news'.auth = news.auth
        /\ \A o \in Live : Tells(object[o], files'[object[o].path])
    BY <2>1, <2>2, FileStep
  <2>4. ObjectsTyped' /\ Live' = Live /\ AuthTyped'
    BY <1>2, <2>1, ObjectsFrame, AuthFrame DEF OutsideDeletes
  <2>5. ItemsTyped' /\ RowsFollow'
    BY <1>2, <2>4, ItemsFrame DEF OutsideDeletes, Typed, ItemsTyped
  <2>6. RestTyped'
    BY <1>2, <2>3, CollectionAssumption DEF OutsideDeletes, Outside, Typed, RestTyped
  <2>. QED
    BY <1>2, <2>3, <2>4, <2>5, <2>6
    DEF OutsideDeletes, SwitchesFollow, EtagsTell, CheckedWritesAreSafe, Typed
<1>3. ASSUME OutsideAuthorizes PROVE IInv'
  <2>1. \E lines, etag : /\ auth' = [lines |-> lines, etag |-> etag]
                         /\ clock' \in {clock, clock + 1} /\ etag \in {None, clock + 1}
                         /\ etag = None \/ etag = clock'
                         /\ news' = [news EXCEPT !.auth = TRUE]
    BY <1>3 DEF OutsideAuthorizes, SetAuth
  <2>2. /\ AuthTyped' /\ SwitchesFollow' /\ news' \in [dir : BOOLEAN, auth : BOOLEAN]
        /\ news'.dir = news.dir /\ clock' \in {clock, clock + 1}
    BY <1>3, <2>1, AuthStep DEF OutsideAuthorizes
  <2>3. FilesTyped' /\ ObjectsTyped' /\ Live' = Live
    BY <1>3, <2>2, FilesFrame, ObjectsFrame DEF OutsideAuthorizes
  <2>4. ItemsTyped' /\ RowsFollow'
    BY <1>3, <2>3, ItemsFrame DEF OutsideAuthorizes, Typed, ItemsTyped
  <2>5. RestTyped'
    BY <1>3, <2>2, CollectionAssumption DEF OutsideAuthorizes, Outside, Typed, RestTyped
  <2>. QED
    BY <1>3, <2>2, <2>3, <2>4, <2>5
    DEF OutsideAuthorizes, ItemsFollow, EtagsTell, CheckedWritesAreSafe, Typed
<1>. QED
  BY <1>1, <1>2, <1>3 DEF Others

---------------------------------------------------------------------------
(* The collection.                                                          *)

LEMMA LoadItemsStep ==
  ASSUME IInv, LoadItems, UNCHANGED <<files, clock, opened, deleting, deleted>>
  PROVE  /\ ObjectsTyped' /\ ItemsTyped' /\ RowsFollow' /\ EtagsTell'
         /\ \A p \in Paths : items'[p] # None <=> Parses(files[p].line)
<1>. DEFINE unused == {o \in Objects : object[o] = NoItem}
            item(p) == [NoItem EXCEPT !.path = p]
<1>1. PICK new \in [Fresh -> unused] :
        /\ IsInjective(new)
        /\ items' = [p \in Paths |-> CASE p \in Fresh -> new[p] [] p \in Gone -> None
                                      [] OTHER -> items[p]]
        /\ object' = [o \in Objects |->
             IF o \in Range(new)
             THEN LET p == CHOOSE q \in Fresh : new[q] = o IN
                  Loaded([NoItem EXCEPT !.path = p], files[p])
             ELSE object[o]]
        /\ rows' = (rows \cup Range(new)) \ {items[p] : p \in Gone}
  BY DEF LoadItems
<1>2. Range(new) = {new[p] : p \in Fresh} /\ Range(new) \subseteq unused
  BY <1>1 DEF Range
<1>3. \A p \in Fresh, q \in Fresh : new[p] = new[q] => p = q
  BY <1>1 DEF IsInjective
<1>4. Fresh \subseteq Paths /\ \A p \in Fresh : Parses(files[p].line) /\ items[p] = None
  BY DEF Fresh, Seen
<1>5. Gone \subseteq Paths /\ \A p \in Gone : ~Parses(files[p].line) /\ items[p] # None
  BY DEF Gone, Seen
<1>6. ASSUME NEW p \in Fresh PROVE object'[new[p]] = Loaded(item(p), files[p])
  <2>1. new[p] \in Range(new) /\ new[p] \in Objects
    BY <1>1, <1>2
  <2>2. (CHOOSE q \in Fresh : new[q] = new[p]) = p
    BY <1>3
  <2>. QED
    BY <1>1, <2>1, <2>2
<1>7. \A o \in Objects \ Range(new) : object'[o] = object[o]
  BY <1>1
<1>8. \A p \in Paths :
        items'[p] = IF p \in Fresh THEN new[p] ELSE IF p \in Gone THEN None ELSE items[p]
  <2>1. ASSUME NEW p \in Paths
        PROVE  items'[p] = CASE p \in Fresh -> new[p] [] p \in Gone -> None [] OTHER -> items[p]
    BY <1>1
  <2>2. Fresh \cap Gone = {}
    BY <1>4, <1>5
  <2>. QED
    BY <2>1, <2>2
<1>9. ASSUME NEW p \in Fresh
      PROVE  /\ IsLive(object'[new[p]], clock) /\ object'[new[p]].path = p
             /\ Tells(object'[new[p]], files[p]) /\ object'[new[p]] # NoItem
  <2>1. IsFile(files[p], clock) /\ clock \in Nat /\ p \in Paths /\ Parses(files[p].line)
    BY <1>4 DEF IInv, Typed, FilesTyped
  <2>2. /\ IsLive(object'[new[p]], clock) /\ object'[new[p]].path = p
        /\ Tells(object'[new[p]], files[p])
    BY <1>6, <2>1, NewIsLive
  <2>. QED
    BY <2>2, LiveIsNotNoItem
<1>10. unused \cap Live = {} /\ Live' = Live \cup Range(new)
       /\ \A o \in Live : object'[o] = object[o]
  <2>1. unused \cap Live = {} /\ \A o \in Live : object'[o] = object[o]
    BY <1>2, <1>7 DEF Live
  <2>2. \A o \in Range(new) : o \in Objects /\ object'[o] # NoItem
    BY <1>2, <1>9
  <2>3. \A o \in Objects \ Range(new) : object'[o] # NoItem <=> object[o] # NoItem
    BY <1>7
  <2>4. \A o \in Range(new) : object[o] = NoItem
    BY <1>2
  <2>5. \A o : o \in Live' <=> o \in Objects /\ object'[o] # NoItem
    BY DEF Live
  <2>6. \A o : o \in Live <=> o \in Objects /\ object[o] # NoItem
    BY DEF Live
  <2>. QED
    BY <2>1, <2>2, <2>3, <2>4, <2>5, <2>6
<1>11. ObjectsTyped'
  <2>1. object' = [o \in Objects |-> object'[o]]
    BY <1>1
  <2>2. ASSUME NEW o \in Objects PROVE object'[o] = NoItem \/ IsLive(object'[o], clock)
    BY <1>2, <1>7, <1>9 DEF IInv, Typed, ObjectsTyped
  <2>. QED
    BY <2>1, <2>2 DEF ObjectsTyped
<1>12. \A p \in Paths : items[p] # None => items[p] \in Live /\ object[items[p]].path = p
  BY DEF IInv, Typed, ItemsTyped
<1>13. ItemsTyped'
  <2>1. items' \in [Paths -> {None} \cup Objects]
    BY <1>1, <1>8 DEF IInv, Typed, ItemsTyped
  <2>2. ASSUME NEW p \in Paths, items'[p] # None
        PROVE  items'[p] \in Live' /\ object'[items'[p]].path = p
    BY <1>2, <1>8, <1>9, <1>10, <1>12, <2>2
  <2>. QED
    BY <1>10, <2>1, <2>2 DEF IInv, Typed, ItemsTyped
<1>14. RowsFollow'
  <2>1. \A p \in Paths, q \in Paths : items[p] # None /\ items[p] = items[q] => p = q
    BY <1>12
  <2>2. \A p \in Fresh : new[p] \notin Live /\ new[p] # None
    BY <1>2, <1>10 DEF Objects, None
  <2>3. deleted \subseteq Live
    BY DEF IInv, Typed, ItemsTyped
  <2>4. ASSUME NEW o PROVE o \in rows' <=> o \in {items'[p] : p \in Paths} \ ({None} \cup deleted)
    <3>1. ASSUME o \in rows' PROVE o \in {items'[p] : p \in Paths} \ ({None} \cup deleted)
      <4>1. CASE o \in Range(new)
        BY <1>2, <1>4, <1>8, <2>2, <2>3, <4>1
      <4>2. CASE o \in rows /\ o \notin {items[p] : p \in Gone}
        BY <1>4, <1>8, <4>2 DEF IInv, RowsFollow
      <4>. QED
        BY <1>1, <3>1, <4>1, <4>2
    <3>2. ASSUME NEW p \in Paths, o = items'[p], o # None, o \notin deleted PROVE o \in rows'
      <4>1. CASE p \in Fresh
        BY <1>1, <1>2, <1>5, <1>8, <1>12, <2>2, <3>2, <4>1
      <4>2. CASE p \notin Fresh
        BY <1>1, <1>5, <1>8, <2>1, <3>2, <4>2 DEF IInv, RowsFollow
      <4>. QED
        BY <4>1, <4>2
    <3>. QED
      BY <3>1, <3>2
  <2>. QED
    BY <2>4 DEF RowsFollow
<1>15. EtagsTell'
  BY <1>2, <1>9, <1>10 DEF IInv, EtagsTell
<1>16. \A p \in Paths : items'[p] # None <=> Parses(files[p].line)
  <2>1. \A p \in Fresh : new[p] # None
    BY <1>1 DEF Objects, None
  <2>2. \A p \in Paths \ (Fresh \cup Gone) : items[p] # None <=> Parses(files[p].line)
    BY DEF Fresh, Gone, Seen
  <2>. QED
    BY <1>4, <1>5, <1>8, <2>1, <2>2
<1>. QED
  BY <1>11, <1>13, <1>14, <1>15, <1>16

LEMMA MonitorStep == ASSUME IInv, MonitorChanged PROVE IInv'
<1>1. /\ ObjectsTyped' /\ ItemsTyped' /\ RowsFollow' /\ EtagsTell'
      /\ \A p \in Paths : items'[p] # None <=> Parses(files[p].line)
  BY LoadItemsStep DEF MonitorChanged
<1>2. news' \in [dir : BOOLEAN, auth : BOOLEAN] /\ news'.auth = news.auth
  BY DEF MonitorChanged, IInv, Typed, RestTyped
<1>3. FilesTyped' /\ AuthTyped'
  BY FilesFrame, AuthFrame DEF MonitorChanged, IInv
<1>. QED
  BY <1>1, <1>2, <1>3
  DEF MonitorChanged, IInv, Typed, RestTyped, ItemsFollow, SwitchesFollow, CheckedWritesAreSafe

LEMMA GeneratedStep == ASSUME IInv, Generated PROVE IInv'
<1>1. /\ ObjectsTyped' /\ ItemsTyped' /\ RowsFollow' /\ EtagsTell'
      /\ \A p \in Paths : items'[p] # None <=> Parses(files[p].line)
  BY LoadItemsStep DEF Generated
<1>2. FilesTyped' /\ AuthTyped'
  BY FilesFrame, AuthFrame DEF Generated, IInv
<1>. QED
  BY <1>1, <1>2
  DEF Generated, IInv, Typed, RestTyped, ItemsFollow, SwitchesFollow, CheckedWritesAreSafe

LEMMA WriteKeepsTheType ==
  ASSUME IInv, Write PROVE writes' \in 0..MaxWrites /\ outside' \in 0..MaxOutside
  BY CollectionAssumption DEF Write, IInv, Typed, RestTyped

LEMMA KeygenStep == ASSUME IInv, NEW p \in Paths, Keygen(p) PROVE IInv'
<1>. USE DEF IInv
<1>1. PICK l \in Lines : SetFile(p, l)
  BY DEF Keygen
<1>. DEFINE f == [line |-> l, etag |-> clock + 1]
<1>2. IsFile(f, clock') /\ f.etag = clock + 1 /\ clock' = clock + 1
  BY <1>1, WrittenIsFile DEF SetFile, Typed, FilesTyped
<1>3. files' = [files EXCEPT ![p] = f] /\ news' = [news EXCEPT !.dir = TRUE]
  BY <1>1 DEF SetFile
<1>4. /\ FilesTyped' /\ ItemsFollow' /\ news' \in [dir : BOOLEAN, auth : BOOLEAN]
      /\ news'.auth = news.auth
      /\ \A o \in Live : Tells(object[o], files'[object[o].path])
  BY <1>2, <1>3, FileStep
<1>5. ObjectsTyped' /\ Live' = Live /\ AuthTyped'
  BY <1>2, ObjectsFrame, AuthFrame DEF Keygen
<1>6. ItemsTyped' /\ RowsFollow'
  BY <1>5, ItemsFrame DEF Keygen, Typed, ItemsTyped
<1>7. RestTyped'
  BY <1>4, WriteKeepsTheType DEF Keygen, RestTyped
<1>. QED
  BY <1>4, <1>5, <1>6, <1>7 DEF Keygen, SwitchesFollow, EtagsTell, CheckedWritesAreSafe, Typed

---------------------------------------------------------------------------
(* The items.                                                               *)

LEMMA ObjectStep ==
  ASSUME Typed, clock' \in {clock, clock + 1}, NEW o \in Live, NEW x, IsLive(x, clock'),
         x.path = object[o].path, object' = [object EXCEPT ![o] = x]
  PROVE  /\ ObjectsTyped' /\ Live' = Live /\ object'[o] = x
         /\ \A l \in Live \ {o} : object'[l] = object[l]
         /\ \A l \in Live : object'[l].path = object[l].path
<1>1. /\ object' = [l \in Objects |-> object'[l]] /\ object'[o] = x
      /\ \A l \in Objects \ {o} : object'[l] = object[l]
  BY DEF Typed, ObjectsTyped, Live
<1>2. x # NoItem
  BY LiveIsNotNoItem
<1>3. \A l \in Objects : object'[l] = NoItem \/ IsLive(object'[l], clock')
  BY <1>1, Later DEF Typed, ObjectsTyped, FilesTyped
<1>. QED
  BY <1>1, <1>2, <1>3 DEF ObjectsTyped, Live

LEMMA LiveObject ==
  ASSUME IInv, NEW o \in rows \cup opened \cup deleting
  PROVE  /\ o \in Live /\ object[o].path \in Paths /\ IsLive(object[o], clock) /\ clock \in Nat
         /\ IsFile(files[object[o].path], clock)
<1>1. o \in Live
  BY DEF IInv, Typed, ItemsTyped, RowsFollow
<1>2. IsLive(object[o], clock)
  BY <1>1 DEF IInv, Typed, ObjectsTyped, Live
<1>. QED
  BY <1>1, <1>2 DEF IInv, Typed, FilesTyped, IsLive

LEMMA OpenStep == ASSUME IInv, NEW o \in Objects, Open(o) PROVE IInv'
<1>. USE DEF IInv
<1>1. /\ o \in Live /\ object[o].path \in Paths /\ IsLive(object[o], clock) /\ clock \in Nat
      /\ IsFile(files[object[o].path], clock)
  BY LiveObject DEF Open
<1>2. PICK f \in {files[object[o].path], NoFile} : object' = [object EXCEPT ![o] = Loaded(@, f)]
  BY DEF Open
<1>. DEFINE x == Loaded(object[o], f)
<1>3. object' = [object EXCEPT ![o] = x]
  BY <1>1, <1>2 DEF Typed, ObjectsTyped, Live
<1>4. IsLive(x, clock) /\ x.path = object[o].path /\ Tells(x, f) /\ x.etag = f.etag
  BY <1>1, NoFileIsOne, LoadedIsLive DEF IsLive
<1>5. Tells(x, files[object[o].path])
  <2>1. CASE f = NoFile
    BY <1>4, <2>1 DEF Tells, NoFile
  <2>2. CASE f = files[object[o].path]
    BY <1>4, <2>2
  <2>. QED
    BY <2>1, <2>2
<1>6. clock' = clock
  BY DEF Open
<1>7. /\ ObjectsTyped' /\ Live' = Live /\ object'[o] = x
      /\ \A l \in Live \ {o} : object'[l] = object[l]
      /\ \A l \in Live : object'[l].path = object[l].path
  BY <1>1, <1>3, <1>4, <1>6, ObjectStep
<1>8. FilesTyped' /\ AuthTyped'
  BY FilesFrame, AuthFrame DEF Open
<1>9. ItemsTyped' /\ RowsFollow'
  <2>1. opened' \cup deleting' \subseteq Live
    BY <1>1 DEF Open, Typed, ItemsTyped
  <2>. QED
    BY <1>7, <2>1, ItemsFrame DEF Open
<1>10. EtagsTell'
  BY <1>1, <1>4, <1>5, <1>7 DEF EtagsTell, Open
<1>. QED
  BY <1>7, <1>8, <1>9, <1>10
  DEF Open, Typed, RestTyped, ItemsFollow, SwitchesFollow, CheckedWritesAreSafe

LEMMA DeleteStep == ASSUME IInv, NEW o \in Objects, Delete(o) PROVE IInv'
<1>. USE DEF IInv
<1>. DEFINE p == object[o].path
<1>1. o \in Live /\ p \in Paths /\ clock \in Nat /\ clock' = clock
  BY LiveObject DEF Delete
<1>2. IsFile(NoFile, clock') /\ NoFile.etag = None
  BY <1>1, NoFileIsOne DEF NoFile
<1>3. files' = [files EXCEPT ![p] = NoFile] /\ news' = [news EXCEPT !.dir = TRUE]
  BY DEF Delete
<1>4. /\ FilesTyped' /\ ItemsFollow' /\ news' \in [dir : BOOLEAN, auth : BOOLEAN]
      /\ news'.auth = news.auth
      /\ \A l \in Live : Tells(object[l], files'[object[l].path])
  BY <1>1, <1>2, <1>3, FileStep
<1>5. ObjectsTyped' /\ Live' = Live /\ AuthTyped'
  BY <1>1, ObjectsFrame, AuthFrame DEF Delete
<1>6. ItemsTyped' /\ RowsFollow'
  BY <1>1, <1>5, ItemsFrame DEF Delete, Typed, ItemsTyped
<1>7. RestTyped'
  BY <1>4, WriteKeepsTheType DEF Delete, Typed, RestTyped
<1>. QED
  BY <1>4, <1>5, <1>6, <1>7 DEF Delete, SwitchesFollow, EtagsTell, CheckedWritesAreSafe, Typed

LEMMA DeletedStep == ASSUME IInv, NEW o \in Objects, Deleted(o) PROVE IInv'
<1>. USE DEF IInv
<1>1. o \in Live /\ clock' = clock
  BY LiveObject DEF Deleted
<1>2. FilesTyped' /\ ObjectsTyped' /\ Live' = Live /\ AuthTyped'
  BY <1>1, FilesFrame, ObjectsFrame, AuthFrame DEF Deleted
<1>3. ItemsTyped' /\ RowsFollow'
  BY <1>1, <1>2 DEF Deleted, Typed, ItemsTyped, RowsFollow
<1>. QED
  BY <1>2, <1>3
  DEF Deleted, Typed, RestTyped, ItemsFollow, SwitchesFollow, EtagsTell, CheckedWritesAreSafe

\* What a comment's write may destroy without this program having read it did not parse.
LEMMA CommentIsSafe ==
  ASSUME NEW i, NEW f, NEW l, NEW old, IsFile(f, clock), Tells(i, f), Replaceable(i.etag, f),
         \A x \in old : /\ x.kind = "unread" /\ x.checked => ~Parses(x.of)
                        /\ x.kind = "unseen" => ~x.checked
  PROVE  \A x \in old \cup CommentLosses(i, f, l) :
           /\ x.kind = "unread" /\ x.checked => ~Parses(x.of)
           /\ x.kind = "unseen" => ~x.checked
<1>1. ASSUME NEW x \in CommentLosses(i, f, l)
      PROVE  /\ x.kind = "unread" /\ x.checked => ~Parses(x.of)
             /\ x.kind = "unseen" => ~x.checked
  <2>1. CASE f.etag # None /\ f.etag # i.read /\ x = Loss("unread", i.etag # None, f.line)
    <3>1. x.kind = "unread" /\ x.checked = (i.etag # None) /\ x.of = f.line
      BY <2>1 DEF Loss
    <3>2. i.etag # None => ~Parses(f.line)
      BY <2>1 DEF Tells, Replaceable
    <3>. QED
      BY <3>1, <3>2
  <2>2. CASE x = Loss("data", i.etag # None, f.line)
    BY <2>2 DEF Loss
  <2>. QED
    BY <1>1, <2>1, <2>2 DEF CommentLosses
<1>. QED
  BY <1>1

LEMMA SetCommentStep ==
  ASSUME IInv, NEW o \in Objects, NEW c \in Comments, SetComment(o, c) PROVE IInv'
<1>. USE DEF IInv
<1>. DEFINE p == object[o].path
            item == [object[o] EXCEPT !.key.comment = c]
            line == ToLine(item.key)
            file == [line |-> line, etag |-> clock + 1]
<1>1. /\ o \in Live /\ p \in Paths /\ IsLive(object[o], clock) /\ clock \in Nat
      /\ IsFile(files[p], clock)
  BY LiveObject DEF SetComment
<1>2. /\ IsLive(item, clock) /\ item.path = p
      /\ item.etag = object[o].etag /\ item.read = object[o].read
  <2>1. [object[o].key EXCEPT !.comment = c]
          = [magic |-> object[o].key.magic, fields |-> object[o].key.fields, comment |-> c]
    BY <1>1 DEF IsLive, IsKey
  <2>2. item = [path |-> object[o].path, key |-> [object[o].key EXCEPT !.comment = c],
                etag |-> object[o].etag, read |-> object[o].read]
    BY <1>1 DEF IsLive, IsItem
  <2>3. IsKey([object[o].key EXCEPT !.comment = c])
    BY <1>1, <2>1 DEF IsLive, IsKey
  <2>. QED
    BY <1>1, <2>2, <2>3 DEF IsLive, IsItem
<1>3. writes' \in 0..MaxWrites /\ outside' \in 0..MaxOutside
  BY WriteKeepsTheType DEF SetComment
<1>4. CASE /\ Replaceable(item.etag, files[p])
           /\ SetFile(p, line)
           /\ losses' = losses \cup CommentLosses(item, files[p], line)
           /\ \E read \in {file, NoFile} :
                object' = [object EXCEPT ![o] = Loaded([item EXCEPT !.read = clock + 1], read)]
  <2>1. IsFile(file, clock') /\ file.etag = clock + 1 /\ clock' = clock + 1 /\ clock' \in Nat
    BY <1>1, <1>4, WrittenIsFile DEF SetFile
  <2>2. files' = [files EXCEPT ![p] = file] /\ news' = [news EXCEPT !.dir = TRUE]
    BY <1>4 DEF SetFile
  <2>3. /\ FilesTyped' /\ ItemsFollow' /\ news' \in [dir : BOOLEAN, auth : BOOLEAN]
        /\ news'.auth = news.auth
        /\ \A l \in Live : Tells(object[l], files'[object[l].path])
    BY <1>1, <2>1, <2>2, FileStep
  <2>4. PICK read \in {file, NoFile} :
          object' = [object EXCEPT ![o] = Loaded([item EXCEPT !.read = clock + 1], read)]
    BY <1>4
  <2>. DEFINE i == [item EXCEPT !.read = clock + 1]
              x == Loaded(i, read)
  <2>5. IsLive(i, clock') /\ i.path = p
    <3>. HIDE DEF item
    <3>1. i = [path |-> item.path, key |-> item.key, etag |-> item.etag, read |-> clock + 1]
      BY <1>2 DEF IsLive, IsItem
    <3>2. i.path = p /\ IsKey(i.key) /\ i.etag \in 0..clock /\ i.read = clock + 1
      BY <1>2, <3>1 DEF IsLive, IsItem
    <3>. HIDE DEF i
    <3>. QED
      BY <1>1, <2>1, <3>1, <3>2 DEF IsLive, IsItem, None
  <2>6. IsFile(read, clock')
    BY <2>1, <2>4, NoFileIsOne
  <2>7. IsLive(x, clock') /\ x.path = p /\ Tells(x, read) /\ x.etag = read.etag
    <3>. HIDE DEF i
    <3>. QED
      BY <1>1, <2>1, <2>5, <2>6, LoadedIsLive DEF IsLive
  <2>8. Tells(x, file)
    BY <2>7 DEF Tells, NoFile
  <2>9. /\ ObjectsTyped' /\ Live' = Live /\ object'[o] = x
        /\ \A l \in Live \ {o} : object'[l] = object[l]
        /\ \A l \in Live : object'[l].path = object[l].path
    BY <1>1, <2>1, <2>4, <2>7, ObjectStep
  <2>10. AuthTyped' /\ ItemsTyped' /\ RowsFollow'
    <3>1. AuthTyped'
      BY <2>1, AuthFrame DEF SetComment
    <3>2. ItemsTyped' /\ RowsFollow'
      BY <2>9, ItemsFrame DEF SetComment, Typed, ItemsTyped
    <3>. QED
      BY <3>1, <3>2
  <2>11. EtagsTell'
    <3>1. files'[p] = file
      BY <1>1, <2>2 DEF Typed, FilesTyped
    <3>. QED
      BY <1>1, <2>3, <2>7, <2>8, <2>9, <3>1 DEF EtagsTell
  <2>12. CheckedWritesAreSafe'
    <3>1. Tells(item, files[p])
      BY <1>1, <1>2 DEF EtagsTell, Tells
    <3>2. /\ Replaceable(item.etag, files[p])
          /\ losses' = losses \cup CommentLosses(item, files[p], line)
      BY <1>4
    <3>3. \A y \in losses : /\ y.kind = "unread" /\ y.checked => ~Parses(y.of)
                            /\ y.kind = "unseen" => ~y.checked
      BY DEF CheckedWritesAreSafe
    <3>. HIDE DEF item, line, p
    <3>4. \A y \in losses \cup CommentLosses(item, files[p], line) :
            /\ y.kind = "unread" /\ y.checked => ~Parses(y.of)
            /\ y.kind = "unseen" => ~y.checked
      BY <1>1, <3>1, <3>2, <3>3, CommentIsSafe
    <3>. QED
      BY <3>2, <3>4 DEF CheckedWritesAreSafe
  <2>13. RestTyped'
    BY <1>3, <2>3 DEF SetComment, Typed, RestTyped
  <2>14. SwitchesFollow'
    BY <2>3 DEF SetComment, SwitchesFollow
  <2>. QED
    BY <2>3, <2>9, <2>10, <2>11, <2>12, <2>13, <2>14 DEF Typed
<1>5. CASE /\ object' = [object EXCEPT ![o] = WriteFailed(item)]
           /\ UNCHANGED <<files, clock, news, losses>>
  <2>1. /\ IsLive(WriteFailed(item), clock')
        /\ WriteFailed(item).path = p /\ WriteFailed(item).etag = None
    <3>. HIDE DEF item
    <3>1. WriteFailed(item)
            = [path |-> item.path, key |-> item.key, etag |-> None, read |-> item.read]
      BY <1>2 DEF IsLive, IsItem, WriteFailed
    <3>2. IsKey(item.key) /\ item.read \in 0..clock /\ item.read # None
      BY <1>2 DEF IsLive, IsItem
    <3>. QED
      BY <1>1, <1>2, <1>5, <3>1, <3>2 DEF IsLive, IsItem, None
  <2>2. /\ ObjectsTyped' /\ Live' = Live /\ object'[o] = WriteFailed(item)
        /\ \A l \in Live \ {o} : object'[l] = object[l]
        /\ \A l \in Live : object'[l].path = object[l].path
    BY <1>1, <1>5, <2>1, ObjectStep
  <2>3. FilesTyped' /\ AuthTyped'
    BY <1>5, FilesFrame, AuthFrame DEF SetComment
  <2>4. ItemsTyped' /\ RowsFollow'
    BY <2>2, ItemsFrame DEF SetComment, Typed, ItemsTyped
  <2>5. EtagsTell'
    BY <1>5, <2>1, <2>2 DEF EtagsTell, Tells
  <2>. QED
    BY <1>3, <1>5, <2>2, <2>3, <2>4, <2>5
    DEF SetComment, Typed, RestTyped, ItemsFollow, SwitchesFollow, CheckedWritesAreSafe
<1>. QED
  BY <1>4, <1>5 DEF SetComment

---------------------------------------------------------------------------
(* authorized_keys.                                                         *)

LEMMA SetAuthorizedStep ==
  ASSUME IInv, NEW o \in Objects, NEW on \in BOOLEAN, SetAuthorized(o, on) PROVE IInv'
<1>. USE DEF IInv
<1>. DEFINE lines == NewLines(o, on)
<1>1. writes' \in 0..MaxWrites /\ outside' \in 0..MaxOutside
  BY WriteKeepsTheType DEF SetAuthorized
<1>2. clock \in Nat /\ {auth.etag, seen.etag, seen.read} \subseteq 0..clock
  BY DEF Typed, FilesTyped, AuthTyped
<1>3. clock' \in {clock, clock + 1}
  BY DEF SetAuthorized, SetAuth
<1>4. FilesTyped' /\ ObjectsTyped' /\ Live' = Live
  BY <1>3, FilesFrame, ObjectsFrame DEF SetAuthorized
<1>5. ItemsTyped' /\ RowsFollow'
  BY <1>4, ItemsFrame DEF SetAuthorized, Typed, ItemsTyped
<1>6. EtagsTell'
  BY <1>4 DEF SetAuthorized, EtagsTell
<1>7. CASE /\ Replaceable(seen.etag, auth)
           /\ SetAuth(lines)
           /\ seen' = [lines |-> lines, etag |-> clock + 1, read |-> clock + 1]
           /\ losses' = losses \cup AuthLosses(o, lines)
  <2>. HIDE DEF lines
  <2>1. /\ clock' = clock + 1 /\ auth' = [lines |-> lines, etag |-> clock + 1]
        /\ news' = [news EXCEPT !.auth = TRUE]
    BY <1>7 DEF SetAuth
  <2>2. news' \in [dir : BOOLEAN, auth : BOOLEAN] /\ news'.auth = TRUE /\ news'.dir = news.dir
    BY <2>1 DEF Typed, RestTyped
  <2>3. AuthTyped' /\ SwitchesFollow'
    BY <1>2, <1>7, <2>1, <2>2 DEF AuthTyped, SwitchesFollow
  <2>4. CheckedWritesAreSafe'
    <3>1. ASSUME NEW x \in AuthLosses(o, lines)
          PROVE  x.kind # "unread" /\ (x.kind = "unseen" => ~x.checked)
      <4>1. CASE /\ auth.etag # None /\ auth.etag # seen.read
                 /\ x = Loss("unseen", seen.etag # None, NoLine)
        <5>1. x.kind = "unseen" /\ x.checked = (seen.etag # None)
          BY <4>1 DEF Loss
        <5>2. seen.etag = None
          BY <1>7, <4>1 DEF Replaceable, SwitchesFollow
        <5>. QED
          BY <5>1, <5>2
      <4>2. CASE \E l : x = Loss("entry", seen.etag # None, l)
        BY <4>2 DEF Loss
      <4>. QED
        BY <3>1, <4>1, <4>2 DEF AuthLosses
    <3>. QED
      BY <1>7, <3>1 DEF CheckedWritesAreSafe
  <2>5. ItemsFollow' /\ RestTyped'
    BY <1>1, <2>2 DEF SetAuthorized, ItemsFollow, RestTyped, Typed
  <2>. QED
    BY <1>4, <1>5, <1>6, <2>3, <2>4, <2>5 DEF Typed
<1>8. CASE seen' = WriteFailed(seen) /\ UNCHANGED <<auth, clock, news, losses>>
  <2>1. seen' = [lines |-> seen.lines, etag |-> None, read |-> seen.read]
    BY <1>8 DEF WriteFailed, Typed, AuthTyped
  <2>2. AuthTyped' /\ SwitchesFollow'
    BY <1>2, <1>8, <2>1 DEF Typed, AuthTyped, SwitchesFollow, None
  <2>3. ItemsFollow' /\ RestTyped' /\ CheckedWritesAreSafe'
    BY <1>1, <1>8 DEF SetAuthorized, ItemsFollow, RestTyped, Typed, CheckedWritesAreSafe
  <2>. QED
    BY <1>4, <1>5, <1>6, <2>2, <2>3 DEF Typed
<1>. QED
  BY <1>7, <1>8 DEF SetAuthorized

LEMMA AuthorizedKeysStep == ASSUME IInv, AuthorizedKeysChanged PROVE IInv'
<1>. USE DEF IInv
<1>1. clock' = clock
  BY DEF AuthorizedKeysChanged
<1>2. FilesTyped' /\ ObjectsTyped' /\ Live' = Live
  BY <1>1, FilesFrame, ObjectsFrame DEF AuthorizedKeysChanged
<1>3. ItemsTyped' /\ RowsFollow'
  BY <1>2, ItemsFrame DEF AuthorizedKeysChanged, Typed, ItemsTyped
<1>4. news' \in [dir : BOOLEAN, auth : BOOLEAN] /\ news'.auth = FALSE /\ news'.dir = news.dir
  BY DEF AuthorizedKeysChanged, Typed, RestTyped
<1>5. AuthTyped' /\ SwitchesFollow'
  <2>1. CASE auth.etag \in {None, seen.etag} /\ UNCHANGED seen
    BY <1>1, <1>4, <2>1 DEF AuthorizedKeysChanged, Typed, AuthTyped, SwitchesFollow
  <2>2. CASE /\ auth.etag \notin {None, seen.etag}
             /\ seen' = [seen EXCEPT !.lines = auth.lines, !.read = auth.etag]
    <3>1. seen' = [lines |-> auth.lines, etag |-> seen.etag, read |-> auth.etag]
      BY <2>2 DEF Typed, AuthTyped
    <3>. QED
      BY <1>1, <2>2, <3>1 DEF AuthorizedKeysChanged, Typed, AuthTyped, SwitchesFollow
  <2>. QED
    BY <2>1, <2>2 DEF AuthorizedKeysChanged
<1>. QED
  BY <1>2, <1>3, <1>4, <1>5
  DEF AuthorizedKeysChanged, Typed, RestTyped, ItemsFollow, EtagsTell, CheckedWritesAreSafe

LEMMA NextIInv == IInv /\ [Next]_vars => IInv'
<1>. SUFFICES ASSUME IInv, [Next]_vars PROVE IInv'
  OBVIOUS
<1>1. CASE UNCHANGED vars
  <2>. USE <1>1 DEF vars, IInv, Typed
  <2>1. FilesTyped' /\ ObjectsTyped' /\ Live' = Live
    BY DEF FilesTyped, ObjectsTyped, Live
  <2>2. ItemsTyped' /\ RowsFollow'
    BY <2>1 DEF ItemsTyped, RowsFollow
  <2>3. AuthTyped' /\ RestTyped'
    BY DEF AuthTyped, RestTyped
  <2>4. ItemsFollow' /\ SwitchesFollow'
    BY DEF ItemsFollow, SwitchesFollow
  <2>5. EtagsTell' /\ CheckedWritesAreSafe'
    BY <2>1 DEF EtagsTell, CheckedWritesAreSafe
  <2>. QED
    BY <2>1, <2>2, <2>3, <2>4, <2>5
<1>2. CASE Next
  BY <1>2, MonitorStep, AuthorizedKeysStep, KeygenStep, GeneratedStep, OthersStep, OpenStep,
     DeleteStep, DeletedStep, SetCommentStep, SetAuthorizedStep DEF Next, Editor
<1>. QED
  BY <1>1, <1>2

---------------------------------------------------------------------------
(* Counting.                                                                *)

Less == {p \in Nat \X Nat : p[1] < p[2]}

LEMMA Least ==
  ASSUME NEW S \in SUBSET Nat, S # {}
  PROVE  \E x \in S : \A y \in S : x <= y
<1>1. IsWellFoundedOn(Less, Nat)
  BY NatLessThanWellFounded DEF OpToRel, Less
<1>2. PICK x \in S : \A y \in S : <<y, x>> \notin Less
  BY <1>1, WFMin
<1>3. ASSUME NEW y \in S PROVE x <= y
  <2>1. y \in Nat /\ x \in Nat
    OBVIOUS
  <2>2. <<y, x>> \in Nat \X Nat /\ <<y, x>>[1] = y /\ <<y, x>>[2] = x
    BY <2>1
  <2>3. ~(y < x)
    BY <1>2, <2>2 DEF Less
  <2>. QED
    BY <2>1, <2>3
<1>. QED
  BY <1>3

\* Induction over the first numbers: what holds of 0, and of n when of n - 1.
LEMMA InductionUpTo ==
  ASSUME NEW m \in Nat, NEW H \in SUBSET Nat, 0 \in H,
         \A n \in 1..m : n - 1 \in H => n \in H
  PROVE  0..m \subseteq H
<1>1. SUFFICES ASSUME (0..m) \ H # {} PROVE FALSE
  OBVIOUS
<1>2. PICK x \in (0..m) \ H : \A y \in (0..m) \ H : x <= y
  BY <1>1, Least, (0..m) \ H \in SUBSET Nat
<1>3. x # 0 /\ x \in 1..m
  BY <1>2
<1>4. x - 1 \in 0..m /\ x - 1 < x
  BY <1>3
<1>5. x - 1 \in H
  BY <1>2, <1>4
<1> QED
  BY <1>2, <1>3, <1>5

---------------------------------------------------------------------------
(* Bytes.                                                                   *)

(* Numbers of four bytes. *)

LEMMA DivAdds ==
  ASSUME NEW q \in Nat, NEW r \in Nat
  PROVE  /\ r < 256 => (q * 256 + r) \div 256 = q /\ (q * 256 + r) % 256 = r
         /\ r < 65536 => (q * 65536 + r) \div 65536 = q
         /\ r < 16777216 => (q * 16777216 + r) \div 16777216 = q
<1>1. r < 256 => (q * 256 + r) \div 256 = q /\ (q * 256 + r) % 256 = r
  BY SMT
<1>2. r < 65536 => (q * 65536 + r) \div 65536 = q
  BY SMT
<1>3. r < 16777216 => (q * 16777216 + r) \div 16777216 = q
  BY SMT
<1>. QED
  BY <1>1, <1>2, <1>3, SMT

\* What four bytes can say.
Limit == 4294967296

LEMMA LimitIsANumber == Limit \in Nat
  BY SMT DEF Limit

Number(a, b, c, d) == ((a * 256 + b) * 256 + c) * 256 + d

LEMMA NumberIsOne ==
  ASSUME NEW a \in Byte, NEW b \in Byte, NEW c \in Byte, NEW d \in Byte
  PROVE  /\ Number(a, b, c, d) \in Nat /\ Number(a, b, c, d) < Limit
         /\ Number(a, b, c, d) < 256 =>
              WriteLength(Number(a, b, c, d)) = <<a, b, c, d>>
         /\ BigEndian(Number(a, b, c, d)) = <<a, b, c, d>>
<1>. DEFINE l == ((a * 256 + b) * 256 + c) * 256 + d
<1>0. a \in 0..255 /\ b \in 0..255 /\ c \in 0..255 /\ d \in 0..255
  BY DEF Byte
<1>1. l \in Nat /\ l < 4294967296 /\ (l < 256 => a = 0 /\ b = 0 /\ c = 0)
  BY <1>0, SMT
<1>2. a * 256 + b \in Nat /\ (a * 256 + b) * 256 + c \in Nat
      /\ c * 256 + d \in Nat /\ c * 256 + d < 65536
      /\ (b * 256 + c) * 256 + d \in Nat /\ (b * 256 + c) * 256 + d < 16777216
  BY <1>0, SMT
<1>3. /\ l = a * 16777216 + ((b * 256 + c) * 256 + d) /\ l = (a * 256 + b) * 65536 + (c * 256 + d)
  BY <1>0, SMT
<1>4. l \div 16777216 = a
  BY <1>0, <1>2, <1>3, DivAdds, SMT
<1>5. l \div 65536 = a * 256 + b
  BY <1>0, <1>2, <1>3, DivAdds, SMT
<1>6. l \div 256 = (a * 256 + b) * 256 + c /\ l % 256 = d
  BY <1>0, <1>2, DivAdds, SMT
<1>7. (a * 256 + b) % 256 = b /\ ((a * 256 + b) * 256 + c) % 256 = c
  BY <1>0, <1>2, DivAdds, SMT
<1>8. (l \div 65536) % 256 = b /\ (l \div 256) % 256 = c
  BY <1>5, <1>6, <1>7
<1>9. Number(a, b, c, d) = l
  BY DEF Number
<1>. HIDE DEF l
<1>10. BigEndian(l) = <<a, b, c, d>> /\ WriteLength(l) = <<0, 0, 0, d>>
  BY <1>4, <1>6, <1>8, SMT DEF BigEndian, WriteLength
<1>. QED
  BY <1>1, <1>9, <1>10, SMT DEF Limit

LEMMA BigEndianIsBytes ==
  ASSUME NEW l \in Nat
  PROVE  /\ WriteLength(l) \in Seq(Byte)
         /\ l < Limit => BigEndian(l) \in Seq(Byte)
<1>1. l \div 65536 \in Nat /\ l \div 256 \in Nat
  BY SMT
<1>2. \A n \in Nat : n % 256 \in Byte
  BY SMT DEF Byte
<1>3. l < 4294967296 => l \div 16777216 \in Byte
  BY SMT DEF Byte
<1>4. (l \div 65536) % 256 \in Byte /\ (l \div 256) % 256 \in Byte /\ l % 256 \in Byte /\ 0 \in Byte
  BY <1>1, <1>2, SMT DEF Byte
<1>5. \A x \in Byte, y \in Byte, z \in Byte, w \in Byte : <<x, y, z, w>> \in Seq(Byte)
  OBVIOUS
<1>. QED
  BY <1>3, <1>4, <1>5, SMT DEF WriteLength, BigEndian, Limit

\* What has a length of four bytes.
Field == {s \in Seq(Byte) : Len(s) < Limit}

LEMMA LengthIsOne ==
  ASSUME NEW data \in Seq(Byte), NEW n \in Nat, Len(data) - n >= 4
  PROVE  /\ data[n + 1] \in Byte /\ data[n + 2] \in Byte /\ data[n + 3] \in Byte
         /\ data[n + 4] \in Byte
         /\ LengthAt(data, n) \in Nat /\ LengthAt(data, n) < Limit
         /\ LengthAt(data, n) < 256 =>
              WriteLength(LengthAt(data, n)) = <<data[n + 1], data[n + 2], data[n + 3], data[n + 4]>>
         /\ BigEndian(LengthAt(data, n)) = <<data[n + 1], data[n + 2], data[n + 3], data[n + 4]>>
<1>1. Len(data) \in Nat
  BY LenProperties
<1>2. n + 1 \in 1..Len(data) /\ n + 2 \in 1..Len(data) /\ n + 3 \in 1..Len(data) /\ n + 4 \in 1..Len(data)
  BY <1>1
<1>3. data[n + 1] \in Byte /\ data[n + 2] \in Byte /\ data[n + 3] \in Byte /\ data[n + 4] \in Byte
  BY <1>2, ElementOfSeq
<1>4. LengthAt(data, n) = Number(data[n + 1], data[n + 2], data[n + 3], data[n + 4])
  BY DEF LengthAt, Number
<1>. DEFINE a == data[n + 1]
            b == data[n + 2]
            c == data[n + 3]
            d == data[n + 4]
<1>5. a \in Byte /\ b \in Byte /\ c \in Byte /\ d \in Byte
  BY <1>3
<1>6. /\ Number(a, b, c, d) \in Nat /\ Number(a, b, c, d) < Limit
      /\ Number(a, b, c, d) < 256 => WriteLength(Number(a, b, c, d)) = <<a, b, c, d>>
      /\ BigEndian(Number(a, b, c, d)) = <<a, b, c, d>>
  <2>. HIDE DEF a, b, c, d
  <2>. QED
    BY <1>5, NumberIsOne
<1>. QED
  BY <1>3, <1>4, <1>6

LEMMA SliceIsField ==
  ASSUME NEW data \in Seq(Byte), NEW n \in Nat, HasSlice(data, n)
  PROVE  /\ Slice(data, n) \in Field /\ Len(Slice(data, n)) = LengthAt(data, n)
         /\ Slice(data, n) = SubSeq(data, n + 5, n + 4 + LengthAt(data, n))
         /\ n + 4 + LengthAt(data, n) \in 0..Len(data)
<1>. DEFINE l == LengthAt(data, n)
<1>1. Len(data) \in Nat /\ l \in Nat /\ l < Limit /\ n + 4 + l <= Len(data)
  BY LenProperties, LengthIsOne DEF HasSlice
<1>2. \A i \in (n + 5)..(n + 4 + l) : data[i] \in Byte
  <2>1. \A i \in (n + 5)..(n + 4 + l) : i \in 1..Len(data)
    BY <1>1
  <2>. QED
    BY <2>1, ElementOfSeq
<1>3. SubSeq(data, n + 5, n + 4 + l) \in Seq(Byte) /\ Len(SubSeq(data, n + 5, n + 4 + l)) = l
  <2>. HIDE DEF l
  <2>1. n + 5 \in Int /\ n + 4 + l \in Int
    BY <1>1
  <2>2. Len(SubSeq(data, n + 5, n + 4 + l)) = IF n + 5 <= n + 4 + l THEN (n + 4 + l) - (n + 5) + 1 ELSE 0
    BY <1>2, <2>1, SubSeqProperties
  <2>3. SubSeq(data, n + 5, n + 4 + l) \in Seq(Byte)
    BY <1>2, <2>1, SubSeqProperties
  <2>. QED
    BY <1>1, <2>2, <2>3
<1>. QED
  BY <1>1, <1>3 DEF Slice, Field

LEMMA CStringIsField == ASSUME NEW s \in Field PROVE CString(s) \in Field
<1>1. s \in Seq(Byte) /\ Len(s) \in Nat /\ Len(s) < Limit /\ DOMAIN s = 1..Len(s)
  BY LenProperties DEF Field
<1>2. CASE HasZero(s)
  <2>. DEFINE Z == {i \in 1..Len(s) : s[i] = 0}
              k == SelectInSeq(s, LAMBDA b : b = 0)
  <2>1. Z \in SUBSET Nat /\ Z # {}
    BY <1>1, <1>2 DEF HasZero
  <2>2. k = Min(Z)
    <3>1. SelectInSeq(s, LAMBDA b : b = 0) = IF Z # {} THEN Min(Z) ELSE 0
      BY DEF SelectInSeq
    <3>. QED
      BY <2>1, <3>1
  <2>3. k \in Z
    <3>. HIDE DEF Z, k
    <3>. QED
      BY <2>1, <2>2, Least DEF Min
  <2>4. k \in 1..Len(s) /\ CString(s) = SubSeq(s, 1, k - 1)
    BY <1>2, <2>3 DEF CString
  <2>. HIDE DEF k
  <2>5. \A i \in 1..(k - 1) : s[i] \in Byte
    <3>1. \A i \in 1..(k - 1) : i \in 1..Len(s)
      BY <1>1, <2>4
    <3>. QED
      BY <1>1, <3>1, ElementOfSeq
  <2>6. k - 1 \in Int /\ k - 1 \in Nat /\ k - 1 < Len(s)
    BY <1>1, <2>4
  <2>7. SubSeq(s, 1, k - 1) \in Seq(Byte)
        /\ Len(SubSeq(s, 1, k - 1)) = IF 1 <= k - 1 THEN (k - 1) - 1 + 1 ELSE 0
    BY <2>5, <2>6, SubSeqProperties
  <2>8. Len(SubSeq(s, 1, k - 1)) < Limit
    BY <1>1, <2>6, <2>7, LimitIsANumber
  <2>. QED
    BY <2>4, <2>7, <2>8 DEF Field
<1>3. CASE ~HasZero(s)
  BY <1>3 DEF CString
<1>. QED
  BY <1>2, <1>3

LEMMA MpiIsBytes ==
  ASSUME NEW s \in Field
  PROVE  WriteMpi(s) \in Seq(Byte)
<1>1. s \in Seq(Byte) /\ Len(s) \in Nat /\ Len(s) < Limit
  BY LenProperties DEF Field
<1>2. BigEndian(Len(s)) \in Seq(Byte)
  BY <1>1, BigEndianIsBytes
<1>. QED
  BY <1>1, <1>2, ConcatProperties DEF WriteMpi

LEMMA StringIsBytes ==
  ASSUME NEW s \in Field
  PROVE  WriteString(s) \in Seq(Byte)
<1>1. CString(s) \in Seq(Byte) /\ Len(CString(s)) \in Nat
  BY CStringIsField, LenProperties DEF Field
<1>2. WriteLength(Len(CString(s))) \in Seq(Byte)
  BY <1>1, BigEndianIsBytes
<1>. QED
  BY <1>1, <1>2, ConcatProperties DEF WriteString

\* The length in front of a field, and the field, are what was there.
LEMMA SliceWithLength ==
  ASSUME NEW data \in Seq(Byte), NEW n \in Nat, HasSlice(data, n)
  PROVE  <<data[n + 1], data[n + 2], data[n + 3], data[n + 4]>> \o Slice(data, n)
           = SubSeq(data, n + 1, n + 4 + LengthAt(data, n))
<1>. DEFINE l == LengthAt(data, n)
            four == <<data[n + 1], data[n + 2], data[n + 3], data[n + 4]>>
<1>1. Len(data) \in Nat /\ l \in Nat /\ n + 4 + l <= Len(data) /\ Len(data) - n >= 4
  BY LenProperties, LengthIsOne DEF HasSlice
<1>2. Slice(data, n) = SubSeq(data, n + 5, n + 4 + l)
  BY SliceIsField
<1>3. four = SubSeq(data, n + 1, n + 4)
  <2>1. four \in Seq(Byte) /\ Len(four) = 4
    BY <1>1, LengthIsOne
  <2>2. \A i \in (n + 1)..(n + 4) : data[i] \in Byte
    <3>1. \A i \in (n + 1)..(n + 4) : i \in 1..Len(data)
      BY <1>1
    <3>. QED
      BY <3>1, ElementOfSeq
  <2>3. /\ SubSeq(data, n + 1, n + 4) \in Seq(Byte)
        /\ Len(SubSeq(data, n + 1, n + 4)) = 4
        /\ \A i \in 1..4 : SubSeq(data, n + 1, n + 4)[i] = data[n + i]
    <3>1. n + 1 \in Int /\ n + 4 \in Int /\ (n + 4) - (n + 1) + 1 = 4 /\ n + 1 <= n + 4
      OBVIOUS
    <3>2. /\ SubSeq(data, n + 1, n + 4) \in Seq(Byte)
          /\ Len(SubSeq(data, n + 1, n + 4)) = IF n + 1 <= n + 4 THEN (n + 4) - (n + 1) + 1 ELSE 0
          /\ \A i \in 1..((n + 4) - (n + 1) + 1) : SubSeq(data, n + 1, n + 4)[i] = data[(n + 1) + i - 1]
      BY <2>2, <3>1, SubSeqProperties
    <3>3. \A i \in 1..4 : (n + 1) + i - 1 = n + i
      OBVIOUS
    <3>. QED
      BY <3>1, <3>2, <3>3
  <2>4. \A i \in 1..4 : four[i] = data[n + i]
    <3>1. \A i \in 1..4 : i = 1 \/ i = 2 \/ i = 3 \/ i = 4
      OBVIOUS
    <3>. QED
      BY <3>1
  <2>. HIDE DEF four
  <2>5. \A i \in 1..Len(four) : four[i] = SubSeq(data, n + 1, n + 4)[i]
    BY <2>1, <2>3, <2>4
  <2>. QED
    BY <2>1, <2>3, <2>5, SeqEqual
<1>4. SubSeq(data, n + 1, n + 4) \o SubSeq(data, (n + 4) + 1, n + 4 + l) = SubSeq(data, n + 1, n + 4 + l)
  <2>1. n + 1 \in 1..(Len(data) + 1) /\ n + 4 \in ((n + 1) - 1)..Len(data) /\ n + 4 + l \in (n + 4)..Len(data)
    BY <1>1
  <2>. HIDE DEF l
  <2>. QED
    BY <2>1, ConcatAdjacentSubSeq
<1>5. (n + 4) + 1 = n + 5
  OBVIOUS
<1>. QED
  BY <1>2, <1>3, <1>4, <1>5

LEMMA MpiWritesBack ==
  ASSUME NEW data \in Seq(Byte), NEW n \in Nat, HasSlice(data, n)
  PROVE  WriteMpi(Slice(data, n)) = SubSeq(data, n + 1, n + 4 + LengthAt(data, n))
<1>1. BigEndian(LengthAt(data, n)) = <<data[n + 1], data[n + 2], data[n + 3], data[n + 4]>>
  BY LengthIsOne DEF HasSlice
<1>2. Len(Slice(data, n)) = LengthAt(data, n)
  BY SliceIsField
<1>. QED
  BY <1>1, <1>2, SliceWithLength DEF WriteMpi

LEMMA StringWritesBack ==
  ASSUME NEW data \in Seq(Byte), NEW n \in Nat, HasSlice(data, n),
         ~HasZero(Slice(data, n)), Len(Slice(data, n)) < 256
  PROVE  WriteString(Slice(data, n)) = SubSeq(data, n + 1, n + 4 + LengthAt(data, n))
<1>1. Len(Slice(data, n)) = LengthAt(data, n)
  BY SliceIsField
<1>2. WriteLength(LengthAt(data, n)) = <<data[n + 1], data[n + 2], data[n + 3], data[n + 4]>>
  BY <1>1, LengthIsOne DEF HasSlice
<1>3. CString(Slice(data, n)) = Slice(data, n)
  BY DEF CString
<1>. QED
  BY <1>1, <1>2, <1>3, SliceWithLength DEF WriteString
---------------------------------------------------------------------------
(* Reading and writing, field by field.                                     *)

Reading(r, data, magic, kinds, m) ==
  /\ r = [n \in 0..m |-> r[n]]
  /\ r[0] = Nothing
  /\ \A n \in 1..m : r[n] = ReadField(data, magic, r[n - 1], kinds[n])

LEMMA ReadingExists ==
  ASSUME NEW data, NEW magic, NEW kinds, NEW m \in Nat
  PROVE  \E r : Reading(r, data, magic, kinds, m)
<1>. DEFINE H == {k \in Nat : \E r : Reading(r, data, magic, kinds, k)}
<1>1. 0 \in H
  <2>. DEFINE r == [n \in 0..0 |-> Nothing]
  <2>1. Reading(r, data, magic, kinds, 0)
    BY DEF Reading
  <2>. QED
    BY <2>1
<1>2. ASSUME NEW k \in 1..m, k - 1 \in H PROVE k \in H
  <2>1. PICK r : Reading(r, data, magic, kinds, k - 1)
    BY <1>2
  <2>. DEFINE q == [n \in 0..k |-> IF n = k THEN ReadField(data, magic, r[k - 1], kinds[k]) ELSE r[n]]
  <2>2. q = [n \in 0..k |-> q[n]] /\ q[0] = Nothing
    BY <2>1 DEF Reading
  <2>3. ASSUME NEW n \in 1..k PROVE q[n] = ReadField(data, magic, q[n - 1], kinds[n])
    <3>1. q[n - 1] = r[n - 1]
      OBVIOUS
    <3>2. CASE n = k
      BY <3>1, <3>2
    <3>3. CASE n # k
      <4>1. n \in 1..(k - 1) /\ q[n] = r[n]
        BY <3>3
      <4>. HIDE DEF q
      <4>. QED
        BY <2>1, <3>1, <4>1 DEF Reading
    <3>. QED
      BY <3>2, <3>3
  <2>. HIDE DEF q
  <2>4. Reading(q, data, magic, kinds, k)
    BY <2>2, <2>3 DEF Reading
  <2>. QED
    BY <2>4
<1>3. 0..m \subseteq H
  <2>1. H \in SUBSET Nat
    OBVIOUS
  <2>. HIDE DEF H
  <2>. QED
    BY <1>1, <1>2, <2>1, InductionUpTo
<1>4. m \in H
  <2>. HIDE DEF H
  <2>. QED
    BY <1>3
<1>. QED
  BY <1>4

LEMMA FieldsAreRead ==
  ASSUME NEW data, NEW magic, NEW kinds, Len(kinds) \in Nat
  PROVE  \E r : Reading(r, data, magic, kinds, Len(kinds)) /\ ReadFields(data, magic, kinds) = r[Len(kinds)]
<1>. DEFINE m == Len(kinds)
            G(r) == [n \in 0..m |-> IF n = 0 THEN Nothing ELSE ReadField(data, magic, r[n - 1], kinds[n])]
            c == CHOOSE r : r = G(r)
<1>1. PICK q : Reading(q, data, magic, kinds, m)
  BY ReadingExists
<1>2. q = G(q)
  <2>1. \A n \in 0..m : q[n] = G(q)[n]
    BY <1>1 DEF Reading
  <2>2. q = [n \in 0..m |-> q[n]]
    BY <1>1 DEF Reading
  <2>. QED
    BY <2>1, <2>2
<1>3. c = G(c)
  BY <1>2
<1>4. ReadFields(data, magic, kinds) = c[m]
  BY DEF ReadFields
<1>. HIDE DEF c
<1>5. Reading(c, data, magic, kinds, m)
  <2>1. c = [n \in 0..m |-> c[n]]
    BY <1>3
  <2>2. c[0] = Nothing
    BY <1>3
  <2>3. \A n \in 1..m : c[n] = ReadField(data, magic, c[n - 1], kinds[n])
    BY <1>3
  <2>. QED
    BY <2>1, <2>2, <2>3 DEF Reading
<1>. QED
  BY <1>4, <1>5

\* One field: what has been read so far, and what comes of it.
IsRead(r, data, n) ==
  r.ok => /\ r = [ok |-> TRUE, offset |-> r.offset, fields |-> r.fields]
          /\ r.offset \in 0..Len(data) /\ r.fields \in Seq(Field) /\ Len(r.fields) = n

\* What a kind of field keeps of the bytes that follow an offset.
ValueAt(data, n, kind) == IF kind = "mpi" THEN Slice(data, n) ELSE CString(Slice(data, n))

Took(q, r, data, kind) ==
  /\ HasSlice(data, r.offset) /\ r.offset \in Nat
  /\ q.offset = r.offset + 4 + LengthAt(data, r.offset)
  /\ q.fields = Append(r.fields, ValueAt(data, r.offset, kind))

LEMMA FieldIsRead ==
  ASSUME NEW data \in Seq(Byte), NEW magic, NEW kind, NEW n \in Nat, NEW r, IsRead(r, data, n),
         ReadField(data, magic, r, kind).ok
  PROVE  /\ r.ok /\ Took(ReadField(data, magic, r, kind), r, data, kind)
         /\ IsRead(ReadField(data, magic, r, kind), data, n + 1)
<1>. DEFINE q == ReadField(data, magic, r, kind)
            sl == Slice(data, r.offset)
            value == ValueAt(data, r.offset, kind)
<1>1. r.ok /\ HasSlice(data, r.offset)
  BY DEF ReadField, Failed
<1>2. r.offset \in Nat /\ r.fields \in Seq(Field) /\ Len(r.fields) = n
  BY <1>1 DEF IsRead
<1>3. q = [ok |-> TRUE, offset |-> r.offset + 4 + Len(sl), fields |-> Append(r.fields, value)]
  BY <1>1 DEF ReadField, Failed, ValueAt
<1>4. sl \in Field /\ Len(sl) = LengthAt(data, r.offset)
      /\ r.offset + 4 + LengthAt(data, r.offset) \in 0..Len(data)
  BY <1>1, <1>2, SliceIsField
<1>5. value \in Field
  BY <1>4, CStringIsField DEF ValueAt
<1>. HIDE DEF value, sl
<1>6. Append(r.fields, value) \in Seq(Field) /\ Len(Append(r.fields, value)) = n + 1
  BY <1>2, <1>5, AppendProperties
<1>7. q.offset = r.offset + 4 + LengthAt(data, r.offset) /\ q.fields = Append(r.fields, value)
  BY <1>3, <1>4
<1>8. IsRead(q, data, n + 1)
  BY <1>3, <1>4, <1>6 DEF IsRead
<1>. QED
  BY <1>1, <1>2, <1>7, <1>8 DEF value, sl, Took

LEMMA ReadingIsRead ==
  ASSUME NEW data \in Seq(Byte), NEW magic, NEW kinds, NEW m \in Nat, NEW r,
         Reading(r, data, magic, kinds, m)
  PROVE  \A n \in 0..m : IsRead(r[n], data, n)
<1>. DEFINE H == {n \in Nat : IsRead(r[n], data, n)}
<1>1. 0 \in H
  <2>1. Len(data) \in Nat
    BY LenProperties
  <2>2. << >> \in Seq(Field) /\ Len(<< >>) = 0
    BY EmptySeq
  <2>3. IsRead(Nothing, data, 0)
    BY <2>1, <2>2 DEF IsRead, Nothing
  <2>. QED
    BY <2>3 DEF Reading
<1>2. ASSUME NEW n \in 1..m, n - 1 \in H PROVE n \in H
  <2>1. r[n] = ReadField(data, magic, r[n - 1], kinds[n]) /\ IsRead(r[n - 1], data, n - 1)
    BY <1>2 DEF Reading
  <2>2. n - 1 \in Nat /\ (n - 1) + 1 = n
    OBVIOUS
  <2>3. r[n].ok => IsRead(r[n], data, (n - 1) + 1)
    BY <2>1, <2>2, FieldIsRead
  <2>4. IsRead(r[n], data, n)
    BY <2>2, <2>3 DEF IsRead
  <2>. QED
    BY <2>4
<1>3. 0..m \subseteq H
  <2>1. H \in SUBSET Nat
    OBVIOUS
  <2>. HIDE DEF H
  <2>. QED
    BY <1>1, <1>2, <2>1, InductionUpTo
<1>. QED
  BY <1>3

\* What has been read in the end has been read all along.
LEMMA ReadAllAlong ==
  ASSUME NEW data \in Seq(Byte), NEW magic, NEW kinds, NEW m \in Nat, NEW r,
         Reading(r, data, magic, kinds, m), r[m].ok
  PROVE  \A n \in 0..m : r[n].ok
<1>. DEFINE H == {n \in Nat : n <= m => r[m - n].ok}
<1>1. 0 \in H
  OBVIOUS
<1>2. ASSUME NEW n \in 1..m, n - 1 \in H PROVE n \in H
  <2>1. m - n \in 0..m /\ (m - n) + 1 \in 1..m /\ m - (n - 1) = (m - n) + 1 /\ ((m - n) + 1) - 1 = m - n
    OBVIOUS
  <2>2. r[(m - n) + 1].ok
    BY <1>2, <2>1
  <2>3. r[(m - n) + 1] = ReadField(data, magic, r[m - n], kinds[(m - n) + 1])
    BY <2>1 DEF Reading
  <2>4. r[m - n].ok
    BY <2>2, <2>3 DEF ReadField, Failed
  <2>. QED
    BY <2>4
<1>3. 0..m \subseteq H
  <2>1. H \in SUBSET Nat
    OBVIOUS
  <2>. HIDE DEF H
  <2>. QED
    BY <1>1, <1>2, <2>1, InductionUpTo
<1>4. ASSUME NEW n \in 0..m PROVE r[n].ok
  <2>1. m - n \in 0..m /\ m - (m - n) = n
    OBVIOUS
  <2>2. m - n \in H
    BY <1>3, <2>1
  <2>. QED
    BY <2>1, <2>2
<1>. QED
  BY <1>4

Stepped(r, data, kinds, n, p) ==
  /\ HasSlice(data, r[p].offset) /\ r[p].offset \in Nat
  /\ r[n].offset = r[p].offset + 4 + LengthAt(data, r[p].offset)
  /\ r[n].fields = Append(r[p].fields, ValueAt(data, r[p].offset, kinds[n]))
  /\ ValueAt(data, r[p].offset, kinds[n]) \in Field
  /\ r[p].fields \in Seq(Field) /\ Len(r[p].fields) = p
  /\ r[n].offset \in 0..Len(data)

LEMMA ReadingStep ==
  ASSUME NEW data \in Seq(Byte), NEW magic, NEW kinds, NEW m \in Nat, NEW r,
         Reading(r, data, magic, kinds, m), r[m].ok
  PROVE  \A n \in 1..m : Stepped(r, data, kinds, n, n - 1)
<1>. SUFFICES ASSUME NEW n \in 1..m PROVE Stepped(r, data, kinds, n, n - 1)
  OBVIOUS
<1>. DEFINE p == n - 1
            x == r[p]
            y == r[n]
            kind == kinds[n]
<1>1. p \in 0..m /\ p \in Nat /\ n = p + 1 /\ n \in 0..m
  OBVIOUS
<1>2. y = ReadField(data, magic, x, kind)
  BY DEF Reading
<1>3. y.ok /\ x.ok
  BY <1>1, ReadAllAlong
<1>4. IsRead(x, data, p) /\ IsRead(y, data, n)
  BY <1>1, ReadingIsRead
<1>5. /\ HasSlice(data, x.offset) /\ x.offset \in Nat
      /\ y.offset = x.offset + 4 + LengthAt(data, x.offset)
      /\ y.fields = Append(x.fields, ValueAt(data, x.offset, kind))
  <2>. HIDE DEF p, x, y, kind
  <2>1. p \in Nat /\ IsRead(x, data, p) /\ ReadField(data, magic, x, kind).ok
    BY <1>1, <1>2, <1>3, <1>4
  <2>2. Took(y, x, data, kind)
    BY <1>2, <2>1, FieldIsRead
  <2>. QED
    BY <2>2 DEF Took
<1>6. ValueAt(data, x.offset, kind) \in Field
  <2>. HIDE DEF x, kind
  <2>. QED
    BY <1>5, SliceIsField, CStringIsField DEF ValueAt
<1>7. x.fields \in Seq(Field) /\ Len(x.fields) = p /\ y.offset \in 0..Len(data)
  BY <1>3, <1>4 DEF IsRead
<1>. QED
  BY <1>5, <1>6, <1>7 DEF Stepped

\* The fields that have been read stay.
Keeps(r, m) == \A i \in 1..m : \A n \in i..m : r[n].fields[i] = r[i].fields[i]

LEMMA FieldsStay ==
  ASSUME NEW data \in Seq(Byte), NEW magic, NEW kinds, NEW m \in Nat, NEW r,
         Reading(r, data, magic, kinds, m), r[m].ok
  PROVE  Keeps(r, m)
<1>. SUFFICES ASSUME NEW i \in 1..m PROVE \A n \in i..m : r[n].fields[i] = r[i].fields[i]
  BY DEF Keeps
<1>. DEFINE H == {d \in Nat : i + d <= m => r[i + d].fields[i] = r[i].fields[i]}
<1>1. 0 \in H
  OBVIOUS
<1>2. ASSUME NEW d \in 1..m, d - 1 \in H PROVE d \in H
  <2>. SUFFICES ASSUME i + d <= m PROVE r[i + d].fields[i] = r[i].fields[i]
    OBVIOUS
  <2>. DEFINE n == i + d
              p == n - 1
  <2>1. n \in 1..m /\ i \in 1..p /\ p = i + (d - 1) /\ i + (d - 1) <= m
    OBVIOUS
  <2>2. r[p].fields[i] = r[i].fields[i]
    <3>1. r[i + (d - 1)].fields[i] = r[i].fields[i]
      BY <1>2, <2>1
    <3>. QED
      BY <2>1, <3>1
  <2>3. Stepped(r, data, kinds, n, p)
    BY <2>1, ReadingStep
  <2>. HIDE DEF n, p
  <2>4. /\ r[n].fields = Append(r[p].fields, ValueAt(data, r[p].offset, kinds[n]))
        /\ ValueAt(data, r[p].offset, kinds[n]) \in Field
        /\ r[p].fields \in Seq(Field) /\ Len(r[p].fields) = p
    BY <2>3 DEF Stepped
  <2>. DEFINE v == ValueAt(data, r[p].offset, kinds[n])
  <2>. HIDE DEF v
  <2>5. Append(r[p].fields, v)[i] = r[p].fields[i]
    BY <2>1, <2>4, AppendProperties DEF v
  <2>. QED
    BY <2>2, <2>4, <2>5 DEF n, v
<1>3. 0..m \subseteq H
  <2>1. H \in SUBSET Nat
    OBVIOUS
  <2>. HIDE DEF H
  <2>. QED
    BY <1>1, <1>2, <2>1, InductionUpTo
<1>4. ASSUME NEW n \in i..m PROVE r[n].fields[i] = r[i].fields[i]
  <2>1. n - i \in 0..m /\ i + (n - i) = n /\ n <= m
    OBVIOUS
  <2>2. n - i \in H
    BY <1>3, <2>1
  <2>. QED
    BY <2>1, <2>2
<1>. QED
  BY <1>4

\* Each field, at the end.
HasValues(r, data, kinds, m) ==
  \A n \in 1..m : r[m].fields[n] = ValueAt(data, r[n - 1].offset, kinds[n])

LEMMA FieldAt ==
  ASSUME NEW data \in Seq(Byte), NEW magic, NEW kinds, NEW m \in Nat, NEW r,
         Reading(r, data, magic, kinds, m), r[m].ok
  PROVE  HasValues(r, data, kinds, m)
<1>. SUFFICES ASSUME NEW n \in 1..m
              PROVE  r[m].fields[n] = ValueAt(data, r[n - 1].offset, kinds[n])
  BY DEF HasValues
<1>. DEFINE p == n - 1
            v == ValueAt(data, r[p].offset, kinds[n])
<1>1. /\ p \in 0..m /\ p \in Nat /\ n = p + 1
      /\ r[n].fields = Append(r[p].fields, v) /\ v \in Field
      /\ r[p].fields \in Seq(Field) /\ Len(r[p].fields) = p
  <2>1. Stepped(r, data, kinds, n, p)
    BY ReadingStep
  <2>2. p \in 0..m /\ p \in Nat /\ n = p + 1
    OBVIOUS
  <2>. HIDE DEF p
  <2>. QED
    BY <2>1, <2>2 DEF Stepped
<1>2. r[n].fields[n] = v
  <2>. HIDE DEF p, v
  <2>. QED
    BY <1>1, AppendProperties
<1>3. m \in n..m
  OBVIOUS
<1>4. r[m].fields[n] = r[n].fields[n]
  <2>. HIDE DEF p, v
  <2>1. Keeps(r, m)
    BY FieldsStay
  <2>2. \A k \in n..m : r[k].fields[n] = r[n].fields[n]
    BY <2>1 DEF Keeps
  <2>. QED
    BY <1>3, <2>2
<1>. QED
  BY <1>2, <1>4

---------------------------------------------------------------------------
(* The writer.                                                              *)

With(d, key, n) == d \o WriteField(FieldsOf[key.magic][n], key.fields[n])

Writing(d, key, m) ==
  /\ d = [n \in 0..m |-> d[n]]
  /\ d[0] = WriteString(key.magic)
  /\ \A n \in 1..m : d[n] = With(d[n - 1], key, n)

LEMMA WritingExists ==
  ASSUME NEW key, NEW m \in Nat
  PROVE  \E d : Writing(d, key, m)
<1>. DEFINE H == {k \in Nat : \E d : Writing(d, key, k)}
<1>1. 0 \in H
  <2>. DEFINE d == [n \in 0..0 |-> WriteString(key.magic)]
  <2>1. Writing(d, key, 0)
    BY DEF Writing
  <2>. QED
    BY <2>1
<1>2. ASSUME NEW k \in 1..m, k - 1 \in H PROVE k \in H
  <2>1. PICK d : Writing(d, key, k - 1)
    BY <1>2
  <2>. DEFINE new == With(d[k - 1], key, k)
              q == [n \in 0..k |-> IF n = k THEN new ELSE d[n]]
  <2>2. q = [n \in 0..k |-> q[n]] /\ q[0] = WriteString(key.magic)
    BY <2>1 DEF Writing
  <2>3. ASSUME NEW n \in 1..k
        PROVE  q[n] = With(q[n - 1], key, n)
    <3>1. q[n - 1] = d[n - 1]
      OBVIOUS
    <3>2. CASE n = k
      BY <3>1, <3>2
    <3>3. CASE n # k
      <4>1. n \in 1..(k - 1) /\ q[n] = d[n]
        BY <3>3
      <4>. HIDE DEF q
      <4>. QED
        BY <2>1, <3>1, <4>1 DEF Writing
    <3>. QED
      BY <3>2, <3>3
  <2>. HIDE DEF q
  <2>4. Writing(q, key, k)
    BY <2>2, <2>3 DEF Writing
  <2>. QED
    BY <2>4
<1>3. 0..m \subseteq H
  <2>1. H \in SUBSET Nat
    OBVIOUS
  <2>. HIDE DEF H
  <2>. QED
    BY <1>1, <1>2, <2>1, InductionUpTo
<1>4. m \in H
  <2>. HIDE DEF H
  <2>. QED
    BY <1>3
<1>. QED
  BY <1>4

LEMMA DataIsWritten ==
  ASSUME NEW key, Len(key.fields) \in Nat
  PROVE  \E d : Writing(d, key, Len(key.fields)) /\ ToData(key) = d[Len(key.fields)]
<1>. DEFINE m == Len(key.fields)
            G(d) == [n \in 0..m |-> IF n = 0 THEN WriteString(key.magic)
                                    ELSE With(d[n - 1], key, n)]
            c == CHOOSE d : d = G(d)
<1>1. PICK q : Writing(q, key, m)
  BY WritingExists
<1>2. q = G(q)
  <2>1. \A n \in 0..m : q[n] = G(q)[n]
    BY <1>1 DEF Writing
  <2>2. q = [n \in 0..m |-> q[n]]
    BY <1>1 DEF Writing
  <2>. QED
    BY <2>1, <2>2
<1>3. c = G(c)
  BY <1>2
<1>4. ToData(key) = c[m]
  BY DEF ToData, With
<1>. HIDE DEF c
<1>5. Writing(c, key, m)
  <2>1. c = [n \in 0..m |-> c[n]]
    BY <1>3
  <2>2. c[0] = WriteString(key.magic)
    BY <1>3
  <2>3. \A n \in 1..m : c[n] = With(c[n - 1], key, n)
    BY <1>3
  <2>. QED
    BY <2>1, <2>2, <2>3 DEF Writing
<1>. QED
  BY <1>4, <1>5

\* A key whose parts can have a length of four bytes.
IsWhole(key) ==
  /\ key.magic \in Magics /\ key.magic \in Field
  /\ key.fields \in Seq(Field) /\ Len(key.fields) = Len(FieldsOf[key.magic])

LEMMA DataIsBytes == ASSUME NEW key, IsWhole(key) PROVE ToData(key) \in Seq(Byte)
<1>. DEFINE m == Len(key.fields)
<1>1. m \in Nat
  BY LenProperties DEF IsWhole
<1>2. PICK d : Writing(d, key, m) /\ ToData(key) = d[m]
  BY <1>1, DataIsWritten
<1>. DEFINE H == {n \in Nat : n <= m => d[n] \in Seq(Byte)}
<1>3. 0 \in H
  BY <1>2, StringIsBytes DEF Writing, IsWhole
<1>4. ASSUME NEW n \in 1..m, n - 1 \in H PROVE n \in H
  <2>. DEFINE new == WriteField(FieldsOf[key.magic][n], key.fields[n])
  <2>1. d[n] = d[n - 1] \o new /\ d[n - 1] \in Seq(Byte)
    <3>1. d[n] = With(d[n - 1], key, n)
      BY <1>2 DEF Writing
    <3>2. n \in Nat /\ n - 1 \in Nat /\ n - 1 <= m
      BY <1>1
    <3>. QED
      BY <1>4, <3>1, <3>2 DEF With
  <2>2. key.fields[n] \in Field
    BY ElementOfSeq DEF IsWhole
  <2>3. new \in Seq(Byte)
    BY <2>2, MpiIsBytes, StringIsBytes DEF WriteField
  <2>. HIDE DEF new
  <2>4. d[n] \in Seq(Byte)
    BY <2>1, <2>3, ConcatProperties
  <2>. QED
    BY <2>4
<1>5. 0..m \subseteq H
  <2>1. H \in SUBSET Nat
    OBVIOUS
  <2>. HIDE DEF H, m
  <2>. QED
    BY <1>1, <1>3, <1>4, <2>1, InductionUpTo
<1>6. m \in H
  <2>. HIDE DEF H, m
  <2>. QED
    BY <1>1, <1>5
<1>. QED
  BY <1>2, <1>6

---------------------------------------------------------------------------
(* What is read and written back.                                           *)

LEMMA KindsAre ==
  ASSUME NEW magic \in Magics
  PROVE  /\ Len(FieldsOf[magic]) \in Nat /\ Len(Kinds(magic)) = Len(FieldsOf[magic]) + 1
         /\ DOMAIN Kinds(magic) = 1..Len(Kinds(magic))
         /\ Kinds(magic)[1] = "string"
         /\ \A n \in 1..Len(FieldsOf[magic]) : Kinds(magic)[n + 1] = FieldsOf[magic][n]
<1>. DEFINE f == FieldsOf[magic]
            S == {"mpi", "string", "curve"}
            a == <<"string">>
<1>1. f \in Seq(S) /\ a \in Seq(S) /\ Len(a) = 1 /\ a[1] = "string"
  BY WireAssumption
<1>2. Len(f) \in Nat
  BY <1>1, LenProperties
<1>3. Kinds(magic) = a \o f
  BY DEF Kinds
<1>. HIDE DEF f, S, a
<1>4. /\ a \o f \in Seq(S) /\ Len(a \o f) = 1 + Len(f)
      /\ \A i \in 1..(Len(a) + Len(f)) : (a \o f)[i] = IF i <= Len(a) THEN a[i] ELSE f[i - Len(a)]
  BY <1>1, ConcatProperties
<1>5. (a \o f)[1] = "string"
  BY <1>1, <1>2, <1>4
<1>6. ASSUME NEW n \in 1..Len(f) PROVE (a \o f)[n + 1] = f[n]
  <2>1. n + 1 \in 1..(Len(a) + Len(f)) /\ ~(n + 1 <= Len(a)) /\ (n + 1) - Len(a) = n
    BY <1>1, <1>2
  <2>. QED
    BY <1>4, <2>1
<1>7. DOMAIN (a \o f) = 1..Len(a \o f)
  BY <1>4, LenProperties
<1>. QED
  BY <1>2, <1>3, <1>4, <1>5, <1>6, <1>7 DEF f

\* A key that has been read.
LEMMA ParsedKey ==
  ASSUME NEW line, line.data \in Seq(Byte), Parses(line)
  PROVE  \E r : /\ line.magic \in Magics
                /\ Reading(r, line.data, line.magic, Kinds(line.magic), Len(Kinds(line.magic)))
                /\ r[Len(Kinds(line.magic))].ok
                /\ r[Len(Kinds(line.magic))].fields \in Seq(Field)
                /\ Len(r[Len(Kinds(line.magic))].fields) = Len(Kinds(line.magic))
                /\ r[Len(Kinds(line.magic))].fields[1] = line.magic
                /\ Parse(line) = [magic |-> line.magic, comment |-> line.comment,
                                  fields |-> Tail(r[Len(Kinds(line.magic))].fields)]
<1>. DEFINE data == line.data
            kinds == Kinds(line.magic)
            m == Len(kinds)
<1>1. line.magic \in Magics /\ m \in Nat
  BY KindsAre DEF Parses
<1>2. PICK r : Reading(r, data, line.magic, kinds, m) /\ ReadBlob(data, line.magic) = r[m]
  <2>. HIDE DEF kinds
  <2>. QED
    BY <1>1, FieldsAreRead DEF ReadBlob, kinds
<1>3. r[m].ok /\ r[m].fields[1] = line.magic
  BY <1>2 DEF Parses
<1>4. IsRead(r[m], data, m)
  <2>1. m \in 0..m
    BY <1>1
  <2>. HIDE DEF kinds, m, data
  <2>2. data \in Seq(Byte)
    BY DEF data
  <2>. QED
    BY <1>1, <1>2, <2>1, <2>2, ReadingIsRead
<1>5. r[m].fields \in Seq(Field) /\ Len(r[m].fields) = m
  BY <1>3, <1>4 DEF IsRead
<1>6. Parse(line) = [magic |-> line.magic, comment |-> line.comment, fields |-> Tail(r[m].fields)]
  BY <1>2 DEF Parse
<1>. QED
  BY <1>1, <1>2, <1>3, <1>5, <1>6

LEMMA TailFields ==
  ASSUME NEW f \in Seq(Field), NEW m \in Nat, Len(f) = m + 1
  PROVE  /\ Tail(f) \in Seq(Field) /\ Len(Tail(f)) = m
         /\ \A n \in 1..m : Tail(f)[n] = f[n + 1]
<1>1. f # << >>
  BY EmptySeq
<1>. QED
  BY <1>1, HeadTailProperties

LEMMA ParsedIsWhole ==
  ASSUME NEW line, line.data \in Seq(Byte), Parses(line)
  PROVE  IsWhole(Parse(line))
<1>. DEFINE kinds == Kinds(line.magic)
            m == Len(kinds)
            k == Len(FieldsOf[line.magic])
<1>1. PICK r : /\ line.magic \in Magics
               /\ r[m].fields \in Seq(Field) /\ Len(r[m].fields) = m
               /\ r[m].fields[1] = line.magic
               /\ Parse(line) = [magic |-> line.magic, comment |-> line.comment,
                                 fields |-> Tail(r[m].fields)]
  BY ParsedKey
<1>2. k \in Nat /\ m = k + 1
  BY <1>1, KindsAre
<1>. DEFINE f == r[m].fields
<1>3. f \in Seq(Field) /\ Len(f) = k + 1 /\ f[1] = line.magic /\ Parse(line).fields = Tail(f)
      /\ Parse(line).magic = line.magic
  BY <1>1, <1>2
<1>. HIDE DEF f, k
<1>4. Tail(f) \in Seq(Field) /\ Len(Tail(f)) = k
  BY <1>2, <1>3, TailFields
<1>5. f[1] \in Field
  BY <1>2, <1>3, ElementOfSeq
<1>. QED
  BY <1>1, <1>3, <1>4, <1>5 DEF IsWhole, k

\* Whatever is kept of the fields, the next begins at the same place.
LEMMA SameOffsets ==
  ASSUME NEW data \in Seq(Byte), NEW magic, NEW kinds, NEW other, NEW m \in Nat, NEW r, NEW w,
         Reading(r, data, magic, kinds, m), r[m].ok,
         Reading(w, data, magic, other, m), w[m].ok
  PROVE  \A n \in 0..m : r[n].offset = w[n].offset
<1>. DEFINE H == {n \in Nat : r[n].offset = w[n].offset}
<1>1. 0 \in H
  BY DEF Reading
<1>2. ASSUME NEW n \in 1..m, n - 1 \in H PROVE n \in H
  <2>1. Stepped(r, data, kinds, n, n - 1) /\ Stepped(w, data, other, n, n - 1)
    BY ReadingStep
  <2>2. r[n - 1].offset = w[n - 1].offset
    BY <1>2
  <2>3. r[n].offset = w[n].offset
    BY <2>1, <2>2 DEF Stepped
  <2>. QED
    BY <2>3
<1>3. 0..m \subseteq H
  <2>1. H \in SUBSET Nat
    OBVIOUS
  <2>. HIDE DEF H
  <2>. QED
    BY <1>1, <1>2, <2>1, InductionUpTo
<1>. QED
  BY <1>3

\* A field of plain data is written as it was read.
PlainField(data, n, kind) ==
  kind # "mpi" => ~HasZero(Slice(data, n)) /\ Len(Slice(data, n)) < 256

LEMMA FieldWritesBack ==
  ASSUME NEW data \in Seq(Byte), NEW n \in Nat, NEW kind, HasSlice(data, n), PlainField(data, n, kind)
  PROVE  WriteField(kind, ValueAt(data, n, kind)) = SubSeq(data, n + 1, n + 4 + LengthAt(data, n))
<1>1. CASE kind = "mpi"
  BY <1>1, MpiWritesBack DEF WriteField, ValueAt
<1>2. CASE kind # "mpi"
  <2>1. CString(Slice(data, n)) = Slice(data, n)
    BY <1>2 DEF CString, PlainField
  <2>. QED
    BY <1>2, <2>1, StringWritesBack DEF WriteField, ValueAt, PlainField
<1>. QED
  BY <1>1, <1>2

LEMMA PlainFields ==
  ASSUME NEW line, line.data \in Seq(Byte), line.magic \in Magics, Plain(line),
         NEW r, NEW m, m = Len(Kinds(line.magic)),
         Reading(r, line.data, line.magic, Kinds(line.magic), m), r[m].ok
  PROVE  /\ r[m].offset = Len(line.data)
         /\ \A n \in 1..m : PlainField(line.data, r[n - 1].offset, Kinds(line.magic)[n])
<1>. DEFINE data == line.data
            magic == line.magic
            kinds == Kinds(magic)
            raw == [n \in DOMAIN kinds |-> "mpi"]
<1>1. m \in Nat /\ DOMAIN kinds = 1..m /\ Len(raw) = m /\ \A n \in 1..m : raw[n] = "mpi"
  <2>1. m \in Nat /\ DOMAIN kinds = 1..m
    BY KindsAre
  <2>. HIDE DEF kinds
  <2>2. raw = [n \in 1..m |-> "mpi"]
    BY <2>1
  <2>3. Len([n \in 1..m |-> "mpi"]) = m
    BY <2>1
  <2>. QED
    BY <2>1, <2>2, <2>3
<1>2. /\ ReadFields(data, magic, raw).ok /\ ReadFields(data, magic, raw).offset = Len(data)
      /\ \A n \in DOMAIN kinds :
           kinds[n] # "mpi" => /\ ~HasZero(ReadFields(data, magic, raw).fields[n])
                               /\ Len(ReadFields(data, magic, raw).fields[n]) < 256
  BY DEF Plain
<1>0. data \in Seq(Byte) /\ Reading(r, data, magic, kinds, m)
  OBVIOUS
<1>. HIDE DEF data, magic, kinds, raw
<1>3. PICK w : Reading(w, data, magic, raw, m) /\ ReadFields(data, magic, raw) = w[m]
  BY <1>1, FieldsAreRead
<1>4. \A n \in 0..m : r[n].offset = w[n].offset
  BY <1>0, <1>1, <1>2, <1>3, SameOffsets
<1>5. ASSUME NEW n \in 1..m PROVE PlainField(data, r[n - 1].offset, kinds[n])
  <2>0. HasValues(w, data, raw, m)
    BY <1>0, <1>1, <1>2, <1>3, FieldAt
  <2>1. w[m].fields[n] = ValueAt(data, w[n - 1].offset, raw[n])
    BY <2>0 DEF HasValues
  <2>2. raw[n] = "mpi" /\ r[n - 1].offset = w[n - 1].offset
    BY <1>1, <1>4
  <2>3. w[m].fields[n] = Slice(data, r[n - 1].offset)
    BY <2>1, <2>2 DEF ValueAt
  <2>. QED
    BY <1>1, <1>2, <1>3, <2>3 DEF PlainField
<1>6. r[m].offset = Len(data)
  BY <1>1, <1>2, <1>3, <1>4
<1>. QED
  BY <1>5, <1>6 DEF data, magic, kinds

\* Data that is plain comes back byte by byte.
LEMMA RoundTrip ==
  ASSUME NEW line, line.data \in Seq(Byte), Parses(line), Plain(line)
  PROVE  ToData(Parse(line)) = line.data
<1>. DEFINE data == line.data
            magic == line.magic
            kinds == Kinds(magic)
            m == Len(kinds)
            k == Len(FieldsOf[magic])
            key == Parse(line)
<1>1. PICK r : /\ magic \in Magics
               /\ Reading(r, data, magic, kinds, m) /\ r[m].ok
               /\ r[m].fields \in Seq(Field) /\ Len(r[m].fields) = m
               /\ r[m].fields[1] = magic
               /\ key = [magic |-> magic, comment |-> line.comment, fields |-> Tail(r[m].fields)]
  BY ParsedKey
<1>2. /\ k \in Nat /\ m = k + 1 /\ m \in Nat /\ kinds[1] = "string"
      /\ \A n \in 1..k : kinds[n + 1] = FieldsOf[magic][n]
  BY <1>1, KindsAre
<1>3. /\ r[m].offset = Len(data) /\ \A n \in 1..m : PlainField(data, r[n - 1].offset, kinds[n])
  BY <1>1, PlainFields
<1>4. data \in Seq(Byte)
  OBVIOUS
<1>5. Len(key.fields) = k /\ \A n \in 1..k : key.fields[n] = r[m].fields[n + 1]
  <2>. DEFINE f == r[m].fields
  <2>1. f \in Seq(Field) /\ Len(f) = k + 1 /\ key.fields = Tail(f)
    BY <1>1, <1>2
  <2>. HIDE DEF f, k, key
  <2>2. Len(Tail(f)) = k /\ \A n \in 1..k : Tail(f)[n] = f[n + 1]
    BY <1>2, <2>1, TailFields
  <2>. QED
    BY <2>1, <2>2 DEF f
<1>6. key.magic = magic
  BY <1>1
<1>. HIDE DEF data, magic, kinds, m, k, key
\* A field is what there is between two offsets.
<1>7. ASSUME NEW n \in 1..m
      PROVE  /\ WriteField(kinds[n], r[m].fields[n]) = SubSeq(data, r[n - 1].offset + 1, r[n].offset)
             /\ r[n - 1].offset \in Nat /\ r[n].offset \in 0..Len(data) /\ r[n - 1].offset <= r[n].offset
  <2>. DEFINE o == r[n - 1].offset
  <2>1. Stepped(r, data, kinds, n, n - 1)
    BY <1>1, <1>2, <1>4, ReadingStep
  <2>2. HasSlice(data, o) /\ o \in Nat /\ r[n].offset = o + 4 + LengthAt(data, o) /\ r[n].offset \in 0..Len(data)
    BY <2>1 DEF Stepped
  <2>0. HasValues(r, data, kinds, m)
    BY <1>1, <1>2, <1>4, FieldAt
  <2>3. r[m].fields[n] = ValueAt(data, o, kinds[n]) /\ PlainField(data, o, kinds[n])
    BY <1>3, <2>0 DEF HasValues
  <2>. HIDE DEF o
  <2>4. WriteField(kinds[n], r[m].fields[n]) = SubSeq(data, o + 1, r[n].offset)
    BY <1>4, <2>2, <2>3, FieldWritesBack
  <2>5. o <= r[n].offset
    <3>1. LengthAt(data, o) \in Nat
      BY <1>4, <2>2, LengthIsOne DEF HasSlice
    <3>. QED
      BY <2>2, <3>1
  <2>. QED
    BY <2>2, <2>4, <2>5 DEF o
<1>8. PICK d : Writing(d, key, k) /\ ToData(key) = d[k]
  BY <1>2, <1>5, DataIsWritten
<1>. DEFINE H == {n \in Nat : n <= k => d[n] = SubSeq(data, 1, r[n + 1].offset)}
<1>9. 0 \in H
  <2>1. d[0] = WriteString(magic)
    BY <1>6, <1>8 DEF Writing
  <2>2. 1 \in 1..m /\ kinds[1] = "string" /\ r[m].fields[1] = magic /\ 1 - 1 = 0
    BY <1>1, <1>2
  <2>3. r[0].offset = 0
    BY <1>1 DEF Reading, Nothing
  <2>4. WriteField("string", magic) = SubSeq(data, 0 + 1, r[1].offset)
    BY <1>7, <2>2, <2>3
  <2>5. d[0] = SubSeq(data, 1, r[1].offset) /\ 0 + 1 = 1
    BY <2>1, <2>4 DEF WriteField
  <2>. QED
    BY <2>5
<1>10. ASSUME NEW n \in 1..k, n - 1 \in H PROVE n \in H
  <2>1. n + 1 \in 1..m /\ (n + 1) - 1 = n /\ (n - 1) + 1 = n /\ n - 1 <= k /\ n \in 1..m
    BY <1>2
  <2>2. d[n] = d[n - 1] \o WriteField(FieldsOf[magic][n], key.fields[n])
    BY <1>6, <1>8 DEF Writing, With
  <2>3. WriteField(FieldsOf[magic][n], key.fields[n]) = SubSeq(data, r[n].offset + 1, r[n + 1].offset)
    BY <1>2, <1>5, <1>7, <2>1
  <2>4. d[n - 1] = SubSeq(data, 1, r[n].offset)
    BY <1>10, <2>1
  <2>. DEFINE o == r[n].offset
              e == r[n + 1].offset
  <2>5. o \in Nat /\ e \in 0..Len(data) /\ o <= e /\ Len(data) \in Nat
    BY <1>4, <1>7, <2>1, LenProperties
  <2>. HIDE DEF o, e
  <2>6. SubSeq(data, 1, o) \o SubSeq(data, o + 1, e) = SubSeq(data, 1, e)
    <3>1. 1 \in 1..(Len(data) + 1) /\ o \in (1 - 1)..Len(data) /\ e \in o..Len(data)
      BY <2>5
    <3>. QED
      BY <1>4, <3>1, ConcatAdjacentSubSeq
  <2>7. d[n] = SubSeq(data, 1, e)
    BY <2>2, <2>3, <2>4, <2>6 DEF o, e
  <2>. QED
    BY <2>7 DEF e
<1>11. k \in H
  <2>1. H \in SUBSET Nat
    OBVIOUS
  <2>. HIDE DEF H
  <2>2. 0..k \subseteq H
    BY <1>2, <1>9, <1>10, <2>1, InductionUpTo
  <2>. QED
    BY <1>2, <2>2
<1>12. ToData(key) = SubSeq(data, 1, Len(data))
  BY <1>2, <1>3, <1>8, <1>11
<1>. QED
  BY <1>4, <1>12, SubSeqFull DEF data, key

---------------------------------------------------------------------------
(* The keys that have been read.                                            *)

\* Of a file that was read last, or written, an object has the data.
Follows(i, f) == f.etag # None /\ i.read = f.etag => f.line.data = ToData(i.key) \/ ~Plain(f.line)

FilesAreBytes == \A p \in Paths : files[p].line.data \in Seq(Byte)
KeysAreWhole == \A o \in Live : IsWhole(object[o].key)
KeysFollow == \A o \in Live : Follows(object[o], files[object[o].path])
\* What was read of authorized_keys is there as long as the etag is.
LinesFollow == auth.etag # None /\ auth.etag = seen.read => seen.lines = auth.lines

KeysInv == FilesAreBytes /\ KeysAreWhole /\ KeysFollow /\ LinesFollow /\ KeysAreKept

LEMMA LoadedFollows ==
  ASSUME NEW n \in Nat, NEW i, NEW f, NEW g, IsItem(i, n), f.line.data \in Seq(Byte),
         Parses(f.line) \/ (IsWhole(i.key) /\ Follows(i, g)),
         f = g \/ ~Parses(f.line)
  PROVE  IsWhole(Loaded(i, f).key) /\ Follows(Loaded(i, f), g)
<1>1. CASE Parses(f.line)
  <2>1. Loaded(i, f) = [path |-> i.path, key |-> Parse(f.line), etag |-> f.etag, read |-> f.etag]
    BY <1>1 DEF Loaded, IsItem
  <2>2. IsWhole(Parse(f.line))
    BY <1>1, ParsedIsWhole
  <2>3. Plain(f.line) => f.line.data = ToData(Parse(f.line))
    BY <1>1, RoundTrip
  <2>. QED
    BY <1>1, <2>1, <2>2, <2>3 DEF Follows
<1>2. CASE ~Parses(f.line)
  <2>1. Loaded(i, f) = [path |-> i.path, key |-> i.key, etag |-> f.etag, read |-> i.read]
    BY <1>2 DEF Loaded, IsItem
  <2>. QED
    BY <1>2, <2>1 DEF Follows
<1>. QED
  BY <1>1, <1>2

LEMMA NoLineIsBytes == NoLine.data \in Seq(Byte)
  BY DEF NoLine

LEMMA InitKeysInv == Init => KeysInv
<1>. SUFFICES ASSUME Init PROVE KeysInv
  OBVIOUS
<1>1. ASSUME NEW p \in Paths PROVE files[p].line.data \in Seq(Byte)
  <2>1. \/ \E l \in InitialLines : files[p] = [line |-> l, etag |-> 1]
        \/ files[p] = NoFile
    BY DEF Init
  <2>2. NoFile.line.data \in Seq(Byte)
    BY NoLineIsBytes DEF NoFile
  <2>3. ASSUME NEW l \in InitialLines, files[p] = [line |-> l, etag |-> 1]
        PROVE  files[p].line.data \in Seq(Byte)
    <3>1. files[p].line = l
      BY <2>3
    <3>2. l.data \in Seq(Byte)
      BY CollectionAssumption
    <3>. QED
      BY <3>1, <3>2
  <2>. QED
    BY <2>1, <2>2, <2>3
<1>2. Live = {} /\ auth.etag = None /\ losses = {}
  BY DEF Init, Live
<1>. QED
  BY <1>1, <1>2
  DEF KeysInv, FilesAreBytes, KeysAreWhole, KeysFollow, LinesFollow, KeysAreKept

\* A file that is written or deleted by others has an etag that no object has.
LEMMA KeysFileStep ==
  ASSUME Typed, KeysInv, NEW p \in Paths, NEW f, f.line.data \in Seq(Byte),
         f.etag \in {None, clock + 1}, files' = [files EXCEPT ![p] = f], UNCHANGED object
  PROVE  FilesAreBytes' /\ KeysAreWhole' /\ KeysFollow'
<1>1. files'[p] = f /\ \A q \in Paths \ {p} : files'[q] = files[q]
  BY DEF Typed, FilesTyped
<1>2. FilesAreBytes'
  BY <1>1 DEF KeysInv, FilesAreBytes
<1>3. Live' = Live /\ KeysAreWhole'
  BY DEF KeysInv, KeysAreWhole, Live
<1>4. ASSUME NEW o \in Live PROVE Follows(object[o], files'[object[o].path])
  <2>1. IsLive(object[o], clock)
    BY DEF Typed, ObjectsTyped, Live
  <2>2. CASE object[o].path = p
    <3>1. object[o].read # clock + 1
      BY <2>1, Later DEF IsLive, Typed, FilesTyped
    <3>. QED
      BY <1>1, <2>2, <3>1 DEF Follows
  <2>3. CASE object[o].path # p
    BY <1>1, <2>1, <2>3 DEF KeysInv, KeysFollow, IsLive
  <2>. QED
    BY <2>2, <2>3
<1>. QED
  BY <1>2, <1>3, <1>4 DEF KeysFollow

LEMMA KeysObjectStep ==
  ASSUME Typed, KeysInv, UNCHANGED files, Live' = Live, NEW o \in Live,
         IsWhole(object'[o].key), Follows(object'[o], files[object[o].path]),
         \A l \in Live \ {o} : object'[l] = object[l],
         \A l \in Live : object'[l].path = object[l].path
  PROVE  FilesAreBytes' /\ KeysAreWhole' /\ KeysFollow'
  BY DEF KeysInv, FilesAreBytes, KeysAreWhole, KeysFollow

LEMMA KeysOthersStep == ASSUME IInv, KeysInv, Others PROVE KeysInv'
<1>1. ASSUME NEW p \in Paths, OutsideWrites(p) PROVE KeysInv'
  <2>1. PICK l \in Lines : SetFile(p, l)
    BY <1>1 DEF OutsideWrites
  <2>. DEFINE f == [line |-> l, etag |-> clock + 1]
  <2>2. /\ files' = [files EXCEPT ![p] = f] /\ f.line.data \in Seq(Byte)
        /\ f.etag \in {None, clock + 1} /\ UNCHANGED <<object, auth, seen, losses>>
    BY <1>1, <2>1, CollectionAssumption DEF SetFile, OutsideWrites
  <2>. HIDE DEF f
  <2>3. FilesAreBytes' /\ KeysAreWhole' /\ KeysFollow'
    BY <2>2, KeysFileStep DEF IInv
  <2>. QED
    BY <2>2, <2>3 DEF KeysInv, LinesFollow, KeysAreKept
<1>2. ASSUME NEW p \in Paths, OutsideDeletes(p) PROVE KeysInv'
  <2>1. /\ files' = [files EXCEPT ![p] = NoFile] /\ NoFile.line.data \in Seq(Byte)
        /\ NoFile.etag \in {None, clock + 1} /\ UNCHANGED <<object, auth, seen, losses>>
    BY <1>2, NoLineIsBytes DEF OutsideDeletes, NoFile
  <2>2. FilesAreBytes' /\ KeysAreWhole' /\ KeysFollow'
    BY <2>1, KeysFileStep DEF IInv
  <2>. QED
    BY <2>1, <2>2 DEF KeysInv, LinesFollow, KeysAreKept
<1>3. ASSUME OutsideAuthorizes PROVE KeysInv'
  <2>1. UNCHANGED <<files, object, seen, losses>> /\ (auth'.etag = None \/ auth'.etag = clock + 1)
    BY <1>3 DEF OutsideAuthorizes, SetAuth
  <2>2. seen.read # clock + 1
    BY Later DEF IInv, Typed, FilesTyped, AuthTyped
  <2>3. LinesFollow'
    BY <2>1, <2>2 DEF LinesFollow
  <2>4. FilesAreBytes' /\ KeysAreWhole' /\ KeysFollow' /\ KeysAreKept'
    BY <2>1 DEF KeysInv, FilesAreBytes, KeysAreWhole, KeysFollow, KeysAreKept, Live
  <2>. QED
    BY <2>3, <2>4 DEF KeysInv
<1>. QED
  BY <1>1, <1>2, <1>3 DEF Others

LEMMA KeysKeygenStep == ASSUME IInv, KeysInv, NEW p \in Paths, Keygen(p) PROVE KeysInv'
<1>1. PICK l \in Lines : SetFile(p, l)
  BY DEF Keygen
<1>. DEFINE f == [line |-> l, etag |-> clock + 1]
<1>2. /\ files' = [files EXCEPT ![p] = f] /\ f.line.data \in Seq(Byte)
      /\ f.etag \in {None, clock + 1} /\ UNCHANGED <<object, auth, seen, losses>>
  BY <1>1, CollectionAssumption DEF SetFile, Keygen
<1>. HIDE DEF f
<1>3. FilesAreBytes' /\ KeysAreWhole' /\ KeysFollow'
  BY <1>2, KeysFileStep DEF IInv
<1>. QED
  BY <1>2, <1>3 DEF KeysInv, LinesFollow, KeysAreKept

LEMMA KeysDeleteStep == ASSUME IInv, KeysInv, NEW o \in Objects, Delete(o) PROVE KeysInv'
<1>. DEFINE p == object[o].path
<1>1. p \in Paths
  BY LiveObject DEF Delete
<1>2. /\ files' = [files EXCEPT ![p] = NoFile] /\ NoFile.line.data \in Seq(Byte)
      /\ NoFile.etag \in {None, clock + 1} /\ UNCHANGED <<object, auth, seen, losses>>
  BY NoLineIsBytes DEF Delete, NoFile
<1>. HIDE DEF p
<1>3. FilesAreBytes' /\ KeysAreWhole' /\ KeysFollow'
  BY <1>1, <1>2, KeysFileStep DEF IInv
<1>. QED
  BY <1>2, <1>3 DEF KeysInv, LinesFollow, KeysAreKept

\* An object is an old one, or made of a file that can be parsed.
LEMMA NewObjects ==
  ASSUME IInv, LoadItems, NEW o \in Live'
  PROVE  \/ o \in Live /\ object'[o] = object[o]
         \/ \E p \in Paths : /\ Parses(files[p].line) /\ object'[o].path = p
                             /\ object'[o] = Loaded([NoItem EXCEPT !.path = p], files[p])
<1>. DEFINE unused == {x \in Objects : object[x] = NoItem}
<1>1. PICK new \in [Fresh -> unused] :
        object' = [x \in Objects |->
             IF x \in Range(new)
             THEN LET p == CHOOSE q \in Fresh : new[q] = x IN
                  Loaded([NoItem EXCEPT !.path = p], files[p])
             ELSE object[x]]
  BY DEF LoadItems
<1>2. o \in Objects /\ object'[o] # NoItem
  BY DEF Live
<1>3. CASE o \in Range(new)
  <2>. DEFINE p == CHOOSE q \in Fresh : new[q] = o
  <2>1. p \in Fresh
    BY <1>3 DEF Range
  <2>2. p \in Paths /\ Parses(files[p].line) /\ IsFile(files[p], clock) /\ clock \in Nat
    BY <2>1 DEF Fresh, Seen, IInv, Typed, FilesTyped
  <2>3. object'[o] = Loaded([NoItem EXCEPT !.path = p], files[p])
    BY <1>1, <1>2, <1>3
  <2>. HIDE DEF p
  <2>4. Loaded([NoItem EXCEPT !.path = p], files[p]).path = p
    BY <2>2, NewIsLive
  <2>. QED
    BY <2>2, <2>3, <2>4
<1>4. CASE o \notin Range(new)
  BY <1>1, <1>2, <1>4 DEF Live
<1>. QED
  BY <1>3, <1>4

LEMMA KeysLoadStep ==
  ASSUME IInv, KeysInv, LoadItems, UNCHANGED <<files, auth, seen, losses>>
  PROVE  KeysInv'
<1>1. ASSUME NEW o \in Live'
      PROVE  IsWhole(object'[o].key) /\ Follows(object'[o], files[object'[o].path])
  <2>1. CASE o \in Live /\ object'[o] = object[o]
    BY <2>1 DEF KeysInv, KeysAreWhole, KeysFollow
  <2>2. ASSUME NEW p \in Paths, Parses(files[p].line), object'[o].path = p,
               object'[o] = Loaded([NoItem EXCEPT !.path = p], files[p])
        PROVE  IsWhole(object'[o].key) /\ Follows(object'[o], files[p])
    <3>. DEFINE i == [NoItem EXCEPT !.path = p]
                f == files[p]
    <3>1. IsItem(i, clock) /\ clock \in Nat /\ f.line.data \in Seq(Byte) /\ Parses(f.line)
      BY <2>2, NoItemIsOne DEF IInv, Typed, FilesTyped, KeysInv, FilesAreBytes
    <3>. HIDE DEF i, f
    <3>2. IsWhole(Loaded(i, f).key) /\ Follows(Loaded(i, f), f)
      BY <3>1, LoadedFollows
    <3>. QED
      BY <2>2, <3>2 DEF i, f
  <2>. QED
    BY <2>1, <2>2, NewObjects
<1>. QED
  BY <1>1 DEF KeysInv, FilesAreBytes, KeysAreWhole, KeysFollow, LinesFollow, KeysAreKept

LEMMA KeysOpenStep == ASSUME IInv, KeysInv, NEW o \in Objects, Open(o) PROVE KeysInv'
<1>1. /\ o \in Live /\ object[o].path \in Paths /\ IsLive(object[o], clock) /\ clock \in Nat
      /\ IsFile(files[object[o].path], clock)
  BY LiveObject DEF Open
<1>. DEFINE g == files[object[o].path]
<1>2. PICK f \in {g, NoFile} : object' = [object EXCEPT ![o] = Loaded(@, f)]
  BY DEF Open
<1>. DEFINE x == Loaded(object[o], f)
<1>3. object' = [object EXCEPT ![o] = x]
  BY <1>1, <1>2 DEF IInv, Typed, ObjectsTyped, Live
<1>4. f.line.data \in Seq(Byte) /\ (f = g \/ ~Parses(f.line)) /\ IsFile(f, clock)
  BY <1>1, NoLineFails, NoLineIsBytes, NoFileIsOne DEF NoFile, KeysInv, FilesAreBytes
<1>5. IsLive(x, clock) /\ x.path = object[o].path
  BY <1>1, <1>4, LoadedIsLive DEF IsLive
<1>6. IsItem(object[o], clock) /\ IsWhole(object[o].key) /\ Follows(object[o], g)
  BY <1>1 DEF IsLive, KeysInv, KeysAreWhole, KeysFollow
<1>7. IsWhole(x.key) /\ Follows(x, g)
  <2>. HIDE DEF g
  <2>. QED
    BY <1>1, <1>4, <1>6, LoadedFollows
<1>. HIDE DEF x
<1>8. clock' = clock /\ UNCHANGED <<files, auth, seen, losses>>
  BY DEF Open
<1>9. /\ Live' = Live /\ object'[o] = x
      /\ \A l \in Live \ {o} : object'[l] = object[l]
      /\ \A l \in Live : object'[l].path = object[l].path
  BY <1>1, <1>3, <1>5, <1>8, ObjectStep DEF IInv
<1>10. FilesAreBytes' /\ KeysAreWhole' /\ KeysFollow'
  BY <1>1, <1>7, <1>8, <1>9, KeysObjectStep DEF IInv
<1>. QED
  BY <1>8, <1>10 DEF KeysInv, LinesFollow, KeysAreKept

\* A write to a file that has been read keeps its data, if the program can write it.
LEMMA CommentKeeps ==
  ASSUME NEW i, NEW f, NEW l, NEW x, Follows(i, f), l.data = ToData(i.key),
         x \in CommentLosses(i, f, l)
  PROVE  (x.kind = "data" => ~Plain(x.of)) /\ x.kind # "entry"
<1>1. CASE f.etag # None /\ f.etag # i.read /\ x = Loss("unread", i.etag # None, f.line)
  BY <1>1 DEF Loss
<1>2. CASE /\ f.etag # None /\ f.etag = i.read /\ f.line.data # l.data
           /\ x = Loss("data", i.etag # None, f.line)
  <2>1. ~Plain(f.line)
    BY <1>2 DEF Follows
  <2>2. x.kind = "data" /\ x.of = f.line
    BY <1>2 DEF Loss
  <2>. QED
    BY <2>1, <2>2
<1>. QED
  BY <1>1, <1>2 DEF CommentLosses

LEMMA KeysCommentStep ==
  ASSUME IInv, KeysInv, NEW o \in Objects, NEW c \in Comments, SetComment(o, c) PROVE KeysInv'
<1>. DEFINE p == object[o].path
            item == [object[o] EXCEPT !.key.comment = c]
            line == ToLine(item.key)
            file == [line |-> line, etag |-> clock + 1]
<1>1. /\ o \in Live /\ p \in Paths /\ IsLive(object[o], clock) /\ clock \in Nat
      /\ IsFile(files[p], clock)
  BY LiveObject DEF SetComment
<1>2. UNCHANGED <<auth, seen>>
  BY DEF SetComment
<1>3. IsWhole(object[o].key) /\ Follows(object[o], files[p])
  BY <1>1 DEF KeysInv, KeysAreWhole, KeysFollow
<1>4. /\ item = [path |-> p, key |-> item.key, etag |-> object[o].etag, read |-> object[o].read]
      /\ item.key = [magic |-> object[o].key.magic, fields |-> object[o].key.fields, comment |-> c]
  BY <1>1 DEF IsLive, IsItem, IsKey
<1>5. IsWhole(item.key) /\ ToData(item.key) = ToData(object[o].key) /\ IsKey(item.key)
  <2>1. IsWhole(item.key) /\ IsKey(item.key)
    BY <1>3, <1>4 DEF IsWhole, IsKey
  <2>2. item.key.fields = object[o].key.fields /\ item.key.magic = object[o].key.magic
    BY <1>4
  <2>. HIDE DEF item
  <2>3. ToData(item.key) = ToData(object[o].key)
    BY <2>2 DEF ToData
  <2>. QED
    BY <2>1, <2>3
<1>6. Follows(item, files[p]) /\ line.data = ToData(item.key) /\ line.data \in Seq(Byte)
  <2>1. item.read = object[o].read
    BY <1>4
  <2>2. Follows(item, files[p])
    <3>. HIDE DEF item
    <3>. QED
      BY <1>3, <1>5, <2>1 DEF Follows
  <2>3. line.data = ToData(item.key)
    <3>. HIDE DEF item
    <3>. QED
      BY DEF ToLine
  <2>4. ToData(item.key) \in Seq(Byte)
    <3>. HIDE DEF item
    <3>. QED
      BY <1>5, DataIsBytes
  <2>. QED
    BY <2>2, <2>3, <2>4
<1>7. IsItem(item, clock) /\ item.path = p
  <2>1. IsItem(object[o], clock)
    BY <1>1 DEF IsLive
  <2>. HIDE DEF item
  <2>. QED
    BY <1>4, <2>1 DEF IsItem
<1>8. CASE /\ Replaceable(item.etag, files[p])
           /\ SetFile(p, line)
           /\ losses' = losses \cup CommentLosses(item, files[p], line)
           /\ \E read \in {file, NoFile} :
                object' = [object EXCEPT ![o] = Loaded([item EXCEPT !.read = clock + 1], read)]
  <2>1. clock' = clock + 1 /\ files' = [files EXCEPT ![p] = file]
    BY <1>8 DEF SetFile
  <2>2. PICK read \in {file, NoFile} :
          object' = [object EXCEPT ![o] = Loaded([item EXCEPT !.read = clock + 1], read)]
    BY <1>8
  <2>. DEFINE i == [item EXCEPT !.read = clock + 1]
              x == Loaded(i, read)
  <2>. HIDE DEF item, line
  <2>3. i = [path |-> p, key |-> item.key, etag |-> object[o].etag, read |-> clock + 1]
    BY <1>4
  <2>4. /\ IsLive(i, clock + 1) /\ IsItem(i, clock + 1) /\ i.path = p /\ IsWhole(i.key)
        /\ Follows(i, file)
    <3>1. object[o].etag \in 0..(clock + 1) /\ clock + 1 # None /\ clock + 1 \in 0..(clock + 1)
      BY <1>1 DEF IsLive, IsItem, None
    <3>2. i.path = p /\ i.key = item.key /\ i.etag = object[o].etag /\ i.read = clock + 1
          /\ i = [path |-> i.path, key |-> i.key, etag |-> i.etag, read |-> i.read]
      BY <2>3
    <3>3. file.line.data = ToData(item.key)
      BY <1>6
    <3>. HIDE DEF i
    <3>. QED
      BY <1>1, <1>5, <3>1, <3>2, <3>3 DEF IsLive, IsItem, Follows
  <2>5. /\ IsFile(read, clock + 1) /\ read.line.data \in Seq(Byte) /\ clock + 1 \in Nat
        /\ read = file \/ ~Parses(read.line)
    <3>1. IsFile(file, clock + 1) /\ file.line = line
      BY <1>1, WrittenIsFile
    <3>2. IsFile(NoFile, clock + 1) /\ NoFile.line = NoLine
      BY <1>1, NoFileIsOne DEF NoFile
    <3>. QED
      BY <1>1, <1>6, <2>2, <3>1, <3>2, NoLineFails, NoLineIsBytes
  <2>. HIDE DEF i, file
  <2>6. IsLive(x, clock + 1) /\ x.path = p
    BY <1>1, <2>4, <2>5, LoadedIsLive
  <2>7. IsWhole(x.key) /\ Follows(x, file)
    BY <2>4, <2>5, LoadedFollows
  <2>8. object' = [object EXCEPT ![o] = x]
    BY <2>2 DEF i
  <2>. HIDE DEF x
  <2>9. /\ Live' = Live /\ object'[o] = x
        /\ \A l \in Live \ {o} : object'[l] = object[l]
        /\ \A l \in Live : object'[l].path = object[l].path
    BY <1>1, <2>1, <2>6, <2>8, ObjectStep DEF IInv
  <2>10. files'[p] = file /\ \A q \in Paths \ {p} : files'[q] = files[q]
    BY <1>1, <2>1 DEF IInv, Typed, FilesTyped
  <2>11. FilesAreBytes'
    <3>1. file.line.data \in Seq(Byte)
      BY <1>6 DEF file
    <3>. QED
      BY <2>10, <3>1 DEF KeysInv, FilesAreBytes
  <2>12. KeysAreWhole'
    BY <2>7, <2>9 DEF KeysInv, KeysAreWhole
  <2>13. ASSUME NEW l \in Live PROVE Follows(object'[l], files'[object[l].path])
    <3>1. CASE l = o
      BY <2>7, <2>9, <2>10, <3>1
    <3>2. CASE l # o /\ object[l].path # p
      <4>1. object[l].path \in Paths
        BY DEF IInv, Typed, ObjectsTyped, Live, IsLive
      <4>. QED
        BY <2>9, <2>10, <3>2, <4>1 DEF KeysInv, KeysFollow
    <3>3. CASE l # o /\ object[l].path = p
      <4>1. object[l].read # clock + 1
        BY <1>1, Later DEF IInv, Typed, ObjectsTyped, Live, IsLive
      <4>2. file.etag = clock + 1
        BY DEF file
      <4>. QED
        BY <2>9, <2>10, <3>3, <4>1, <4>2 DEF Follows
    <3>. QED
      BY <3>1, <3>2, <3>3
  <2>14. KeysAreKept'
    <3>1. losses' = losses \cup CommentLosses(item, files[p], line)
      BY <1>8
    <3>2. ASSUME NEW y \in CommentLosses(item, files[p], line)
          PROVE  (y.kind = "data" => ~Plain(y.of)) /\ y.kind # "entry"
      <4>. HIDE DEF p
      <4>. QED
        BY <1>6, CommentKeeps
    <3>. QED
      BY <3>1, <3>2 DEF KeysInv, KeysAreKept
  <2>15. LinesFollow'
    BY <1>2 DEF KeysInv, LinesFollow
  <2>16. KeysFollow'
    BY <2>9, <2>13 DEF KeysFollow
  <2>. QED
    BY <2>11, <2>12, <2>14, <2>15, <2>16 DEF KeysInv
<1>9. CASE /\ object' = [object EXCEPT ![o] = WriteFailed(item)]
           /\ UNCHANGED <<files, clock, news, losses>>
  <2>. DEFINE x == WriteFailed(item)
  <2>. HIDE DEF item
  <2>1. x = [path |-> p, key |-> item.key, etag |-> None, read |-> object[o].read]
    BY <1>4 DEF WriteFailed
  <2>. HIDE DEF x
  <2>2. x.path = p /\ x.key = item.key /\ x.etag = None /\ x.read = object[o].read
    BY <2>1
  <2>3. IsLive(x, clock) /\ IsWhole(x.key) /\ Follows(x, files[p])
    <3>1. object[o].read \in 0..clock /\ object[o].read # None /\ item.read = object[o].read
      BY <1>1, <1>4 DEF IsLive, IsItem
    <3>2. x = [path |-> x.path, key |-> x.key, etag |-> x.etag, read |-> x.read]
      BY <2>1
    <3>3. Follows(x, files[p])
      BY <1>6, <2>2, <3>1 DEF Follows
    <3>. QED
      BY <1>1, <1>5, <2>2, <3>1, <3>2, <3>3 DEF IsLive, IsItem, None
  <2>4. object' = [object EXCEPT ![o] = x]
    BY <1>9 DEF x
  <2>5. /\ Live' = Live /\ object'[o] = x
        /\ \A l \in Live \ {o} : object'[l] = object[l]
        /\ \A l \in Live : object'[l].path = object[l].path
    BY <1>1, <1>9, <2>2, <2>3, <2>4, ObjectStep DEF IInv
  <2>6. FilesAreBytes' /\ KeysAreWhole' /\ KeysFollow'
    BY <1>1, <1>9, <2>3, <2>5, KeysObjectStep DEF IInv
  <2>. QED
    BY <1>2, <1>9, <2>6 DEF KeysInv, LinesFollow, KeysAreKept
<1>. QED
  BY <1>8, <1>9 DEF SetComment

\* The entries that were seen are all there is; the full ones of other keys are written.
LEMMA EntriesAreKept ==
  ASSUME LinesFollow, NEW o, NEW on, NEW x \in AuthLosses(o, NewLines(o, on))
  PROVE  x.kind # "data" /\ (x.kind = "entry" => ~x.of.full)
<1>1. CASE x = Loss("unseen", seen.etag # None, NoLine)
  BY <1>1 DEF Loss
<1>2. ASSUME auth.etag # None, auth.etag = seen.read,
             NEW l \in auth.lines \ (NewLines(o, on) \cup EntriesOf(o, auth.lines)),
             x = Loss("entry", seen.etag # None, l)
      PROVE  x.kind # "data" /\ ~x.of.full
  <2>1. seen.lines = auth.lines
    BY <1>2 DEF LinesFollow
  <2>2. ~l.full
    BY <2>1 DEF NewLines
  <2>. QED
    BY <1>2, <2>2 DEF Loss
<1>. QED
  BY <1>1, <1>2 DEF AuthLosses

LEMMA KeysAuthorizedStep ==
  ASSUME IInv, KeysInv, NEW o \in Objects, NEW on \in BOOLEAN, SetAuthorized(o, on) PROVE KeysInv'
<1>1. FilesAreBytes' /\ KeysAreWhole' /\ KeysFollow'
  BY DEF SetAuthorized, KeysInv, FilesAreBytes, KeysAreWhole, KeysFollow, Live
<1>2. CASE /\ SetAuth(NewLines(o, on))
           /\ seen' = [lines |-> NewLines(o, on), etag |-> clock + 1, read |-> clock + 1]
           /\ losses' = losses \cup AuthLosses(o, NewLines(o, on))
  <2>1. LinesFollow'
    BY <1>2 DEF SetAuth, LinesFollow
  <2>2. KeysAreKept'
    BY <1>2, EntriesAreKept DEF KeysInv, KeysAreKept
  <2>. QED
    BY <1>1, <2>1, <2>2 DEF KeysInv
<1>3. CASE seen' = WriteFailed(seen) /\ UNCHANGED <<auth, clock, news, losses>>
  <2>1. seen' = [lines |-> seen.lines, etag |-> None, read |-> seen.read]
    BY <1>3 DEF WriteFailed, IInv, Typed, AuthTyped
  <2>. QED
    BY <1>1, <1>3, <2>1 DEF KeysInv, LinesFollow, KeysAreKept
<1>. QED
  BY <1>2, <1>3 DEF SetAuthorized

LEMMA KeysAuthorizedKeysStep == ASSUME IInv, KeysInv, AuthorizedKeysChanged PROVE KeysInv'
<1>1. UNCHANGED <<files, auth, object, losses>>
  BY DEF AuthorizedKeysChanged
<1>2. CASE UNCHANGED seen
  BY <1>1, <1>2 DEF KeysInv, FilesAreBytes, KeysAreWhole, KeysFollow, LinesFollow, KeysAreKept, Live
<1>3. CASE seen' = [seen EXCEPT !.lines = auth.lines, !.read = auth.etag]
  <2>1. seen' = [lines |-> auth.lines, etag |-> seen.etag, read |-> auth.etag]
    BY <1>3 DEF IInv, Typed, AuthTyped
  <2>2. LinesFollow'
    BY <1>1, <2>1 DEF LinesFollow
  <2>. QED
    BY <1>1, <2>2 DEF KeysInv, FilesAreBytes, KeysAreWhole, KeysFollow, KeysAreKept, Live
<1>. QED
  BY <1>2, <1>3 DEF AuthorizedKeysChanged

LEMMA NextKeysInv == IInv /\ KeysInv /\ [Next]_vars => KeysInv'
<1>. SUFFICES ASSUME IInv, KeysInv, [Next]_vars PROVE KeysInv'
  OBVIOUS
<1>1. CASE UNCHANGED <<files, auth, object, seen, losses>>
  BY <1>1 DEF KeysInv, FilesAreBytes, KeysAreWhole, KeysFollow, LinesFollow, KeysAreKept, Live
<1>2. ASSUME MonitorChanged \/ Generated PROVE KeysInv'
  BY <1>2, KeysLoadStep DEF MonitorChanged, Generated
<1>3. ASSUME NEW o \in Objects, Deleted(o) PROVE UNCHANGED <<files, auth, object, seen, losses>>
  BY <1>3 DEF Deleted
<1>4. ASSUME Editor PROVE KeysInv'
  BY <1>1, <1>3, <1>4, KeysOpenStep, KeysDeleteStep, KeysCommentStep, KeysAuthorizedStep DEF Editor
<1>5. CASE Next
  BY <1>2, <1>4, <1>5, KeysKeygenStep, KeysAuthorizedKeysStep, KeysOthersStep DEF Next
<1>. QED
  BY <1>1, <1>5 DEF vars

---------------------------------------------------------------------------
(* Theorems.                                                                *)

LEMMA AllOfIInv == IInv => ShowsTheFiles /\ CheckedWritesAreSafe
<1>. SUFFICES ASSUME IInv PROVE ShowsTheFiles /\ CheckedWritesAreSafe
  OBVIOUS
<1>. USE DEF IInv
<1>1. Range(items) = {items[p] : p \in Paths}
  BY DEF Typed, ItemsTyped, Range
<1>2. TypeOK
  <2>1. \A p \in Paths : files[p].etag \in 0..clock
    BY DEF Typed, FilesTyped, IsFile
  <2>2. \A o \in Objects :
          object[o] # NoItem => object[o].path \in Paths /\ object[o].key.magic \in Magics
    BY DEF Typed, ObjectsTyped, IsLive, IsKey
  <2>3. rows \subseteq Range(items) \ {None}
    BY <1>1 DEF RowsFollow
  <2>. QED
    BY <2>1, <2>2, <2>3 DEF TypeOK, Typed, ItemsTyped, AuthTyped, RestTyped, Live
<1>3. ~news.dir => /\ Range(items) \ {None} = {items[p] : p \in Seen} \ {None}
                   /\ \A p \in Seen : items[p] # None
                   /\ rows = Range(items) \ ({None} \cup deleted)
  BY <1>1 DEF ItemsFollow, RowsFollow, Seen
<1>. QED
  BY <1>2, <1>3 DEF ShowsTheFiles, SwitchesFollow

LEMMA AlwaysIInv == Spec => []IInv
  BY InitIInv, NextIInv, PTL DEF Spec

\* However this program, ssh-keygen and other programs write and delete the files
\* (SshCollection.load_items with its monitor, SshItem.delete, load_authorized_keys): once the
\* monitors have nothing more to report, there is one row for every key file that can be
\* parsed, but for items deleted here, and the switches see the lines of authorized_keys.
THEOREM PanelShowsTheFiles == Spec => []ShowsTheFiles
  BY AlwaysIInv, AllOfIInv, PTL

\* Whatever other programs write in between, a write that SshItem.set_comment and
\* set_authorized check by an etag destroys nothing that this program has not read, except a
\* file whose last reading ended in a parse error.
THEOREM EtagsProtect == Spec => []CheckedWritesAreSafe
  BY AlwaysIInv, AllOfIInv, PTL

\* A file that SshItem has read, and whose etag still says so, loses nothing of its key when
\* set_comment writes it, if SshKey.to_bytes can write what SshKeyParser.parse reads (strings
\* without zero bytes and shorter than 256, nothing behind the last field); and
\* set_authorized drops no entry of another key that has a comment.
THEOREM KeysKept == Spec => []KeysAreKept
<1>1. IInv /\ KeysInv /\ [Next]_vars => (IInv /\ KeysInv)'
  BY NextIInv, NextKeysInv
<1>2. Init => IInv /\ KeysInv
  BY InitIInv, InitKeysInv
<1>3. KeysInv => KeysAreKept
  BY DEF KeysInv
<1>. QED
  BY <1>1, <1>2, <1>3, PTL DEF Spec
=============================================================================
