---------------------------- MODULE Widgets_proofs ----------------------------
(***************************************************************************)
(* Proofs about the key editor (GpgEditor) and the list panels (ListPanel), *)
(* for every value of their constants.                                      *)
(***************************************************************************)
EXTENDS GpgEditor, ListPanel, SequenceTheorems, FiniteSetTheorems, FunctionTheorems,
  WellFoundedInduction, TLAPS

---------------------------------------------------------------------------
(* Numbers.                                                                 *)

Less == {p \in Nat \X Nat : p[1] < p[2]}

LEMMA Least ==
  ASSUME NEW S \in SUBSET Nat, S # {}
  PROVE  \E x \in S : \A y \in S : x <= y
<1>1. IsWellFoundedOn(Less, Nat)
  BY NatLessThanWellFounded DEF OpToRel, Less
<1>2. PICK x \in S : \A y \in S : <<y, x>> \notin Less
  BY <1>1, WFMin
<1>3. ASSUME NEW y \in S PROVE x <= y
  <2>1. y \in Nat /\ x \in Nat
    OBVIOUS
  <2>2. <<y, x>> \in Nat \X Nat /\ <<y, x>>[1] = y /\ <<y, x>>[2] = x
    BY <2>1
  <2>3. ~(y < x)
    BY <1>2, <2>2 DEF Less
  <2>. QED
    BY <2>1, <2>3
<1>. QED
  BY <1>3

\* Induction over the first numbers: what holds of 0, and of n when of n - 1.
LEMMA InductionUpTo ==
  ASSUME NEW m \in Nat, NEW H \in SUBSET Nat, 0 \in H,
         \A n \in 1..m : n - 1 \in H => n \in H
  PROVE  0..m \subseteq H
<1>1. SUFFICES ASSUME (0..m) \ H # {} PROVE FALSE
  OBVIOUS
<1>2. PICK x \in (0..m) \ H : \A y \in (0..m) \ H : x <= y
  BY <1>1, Least, (0..m) \ H \in SUBSET Nat
<1>3. x # 0 /\ x \in 1..m
  BY <1>2
<1>4. x - 1 \in 0..m /\ x - 1 < x
  BY <1>3
<1>5. x - 1 \in H
  BY <1>2, <1>4
<1> QED
  BY <1>2, <1>3, <1>5

---------------------------------------------------------------------------
(* The key editor: keys of any size, any number of overlapping edits and    *)
(* any changes by other programs.                                           *)

Widgets ==
  [page : {"main", "subkey", "user_id"}, listed : Keys, combo : Validities,
   subkey : AllKeys \cup {None}, index : Nat, shown : BOOLEAN,
   uid : AllUids \cup {None}, deletable : BOOLEAN]

Names == {"delkey", "deluid", "expire", "addkey", "adduid", "trust"}

\* The index of a deletion is that of the chosen one in the list it was taken from.
Hits(e) ==
  Contains(e.base, e.chosen) =>
    /\ e.base \in Seq(AllKeys \cup AllUids)
    /\ e.index + 1 \in 1..Len(e.base) /\ e.base[e.index + 1] = e.chosen

IsEdit(e) ==
  /\ e = [pc |-> e.pc, op |-> e.op, index |-> e.index, arg |-> e.arg, chosen |-> e.chosen,
          base |-> e.base, snap |-> e.snap, view |-> e.view]
  /\ e.pc \in Pcs /\ e.index \in Nat /\ e.snap \in Keys /\ e.view \in Keys
  /\ e.pc \in {"start", "edit"} =>
       /\ e.op \in Names
       /\ e.op = "expire" => e.arg \in BOOLEAN
       /\ e.op = "trust" => e.arg \in Validities
       /\ e.op \in {"delkey", "deluid"} => Hits(e)

Typed ==
  /\ key \in Keys /\ cache \in Keys /\ born \subseteq NewKeys \cup NewUids
  /\ ui \in Widgets /\ outside \in 0..MaxOutside
  /\ ops = [o \in Edits |-> ops[o]] /\ \A o \in Edits : IsEdit(ops[o])

ListsFollow ==
  ~Reloading => /\ ui.listed = cache
                /\ ui.subkey \in ToSet(cache.subkeys) => ui.shown = cache.expires[ui.subkey]

\* Edit e is on its way to set trust v, or has failed to.
Sets(e, v) == e.op = "trust" /\ e.arg = v /\ e.pc \notin {"idle", "done"}
ComboFollows ==
  ui.combo # cache.trust => Reloading \/ \E o \in Edits : Sets(ops[o], ui.combo)

IInv == Typed /\ ListsFollow /\ ComboFollows

---------------------------------------------------------------------------
(* Sequences.                                                               *)

LEMMA MinOfNumbers ==
  ASSUME NEW S \in SUBSET Nat, S # {}
  PROVE  Min(S) \in S
  BY Least DEF Min

\* "Re-enumerate" gives the index of an element that is there.
LEMMA EnumerateFinds ==
  ASSUME NEW S, NEW s \in Seq(S), NEW x
  PROVE  /\ Enumerate(s, x) \in Nat
         /\ Contains(s, x) => Enumerate(s, x) + 1 \in 1..Len(s) /\ s[Enumerate(s, x) + 1] = x
<1>. DEFINE I == {i \in 1..Len(s) : s[i] = x}
<1>1. CASE Contains(s, x)
  <2>1. I # {} /\ I \in SUBSET Nat
    BY <1>1 DEF Contains
  <2>2. SelectInSeq(s, LAMBDA y : y = x) = Min(I)
    BY <2>1 DEF SelectInSeq
  <2>3. Min(I) \in I
    BY <2>1, MinOfNumbers
  <2>. QED
    BY <1>1, <2>2, <2>3 DEF Enumerate
<1>2. CASE ~Contains(s, x)
  BY <1>2 DEF Enumerate
<1>. QED
  BY <1>1, <1>2

LEMMA RemovalIsSeq ==
  ASSUME NEW S, NEW s \in Seq(S), NEW i \in 1..Len(s)
  PROVE  RemoveAt(s, i) \in Seq(S)
<1>1. SubSeq(s, 1, i - 1) \in Seq(S)
  BY SubSeqProperties, ElementOfSeq
<1>2. SubSeq(s, i + 1, Len(s)) \in Seq(S)
  BY SubSeqProperties, ElementOfSeq
<1>. QED
  BY <1>1, <1>2, ConcatProperties DEF RemoveAt

LEMMA PrefixElement ==
  ASSUME NEW S, NEW T, NEW s \in Seq(S), NEW t \in Seq(T), IsPrefix(s, t), NEW i \in 1..Len(s)
  PROVE  t[i] = s[i]
<1>1. Len(s) \in Nat /\ Len(t) \in Nat /\ Len(s) <= Len(t)
  BY DEF IsPrefix
<1>2. SubSeq(s, 1, Len(s))[i] = s[i]
  BY <1>1, SubSeqProperties, ElementOfSeq
<1>3. SubSeq(t, 1, Len(s))[i] = t[i]
  BY <1>1, SubSeqProperties, ElementOfSeq
<1>. QED
  BY <1>2, <1>3 DEF IsPrefix

---------------------------------------------------------------------------
(* Keys and edits.                                                          *)

LEMMA NoKeyIsKey == NoKey \in Keys
<1>1. (CHOOSE v \in NeverSent : TRUE) \in Validities
  BY EditorAssumption
<1>2. << >> \in Seq(AllKeys) /\ << >> \in Seq(AllUids)
  BY EmptySeq
<1>. QED
  BY <1>1, <1>2 DEF NoKey, Keys

LEMMA OverIsEdit == ASSUME NEW pc \in Pcs \ {"start", "edit"} PROVE IsEdit(Over(pc))
  BY NoKeyIsKey DEF Over, Edit, IsEdit

LEMMA CommandIsEdit ==
  ASSUME NEW op \in Names, NEW index \in Nat, NEW arg, NEW chosen, NEW base,
         op = "expire" => arg \in BOOLEAN, op = "trust" => arg \in Validities,
         op \in {"delkey", "deluid"} =>
           /\ base \in Seq(AllKeys \cup AllUids)
           /\ Contains(base, chosen) => index + 1 \in 1..Len(base) /\ base[index + 1] = chosen
  PROVE  IsEdit(Command(op, index, arg, chosen, base))
  BY NoKeyIsKey DEF Command, Edit, IsEdit, Pcs, Hits

LEMMA KeyParts ==
  ASSUME NEW k \in Keys
  PROVE  /\ k.subkeys \in Seq(AllKeys) /\ k.uids \in Seq(AllUids)
         /\ k.expires \in [AllKeys -> BOOLEAN] /\ k.trust \in Validities
         /\ \A s \in Seq(AllKeys) : [k EXCEPT !.subkeys = s] \in Keys
         /\ \A s \in Seq(AllUids) : [k EXCEPT !.uids = s] \in Keys
         /\ \A e \in [AllKeys -> BOOLEAN] : [k EXCEPT !.expires = e] \in Keys
         /\ \A v \in Validities : [k EXCEPT !.trust = v] \in Keys
  BY DEF Keys

\* A command turns a key into a key.
LEMMA ApplyIsKey ==
  ASSUME NEW k \in Keys, NEW c, c.index \in Nat, c.op \in Names \ {"trust"},
         c.op = "expire" => c.arg \in BOOLEAN, NEW r \in Apply(k, c)
  PROVE  r \in Keys
<1>1. CASE c.op = "delkey"
  <2>1. r = k \/ (c.index + 1 \in 1..Len(k.subkeys)
                  /\ r = [k EXCEPT !.subkeys = RemoveAt(k.subkeys, c.index + 1)])
    BY <1>1, KeyParts DEF Apply
  <2>. QED
    BY <2>1, KeyParts, RemovalIsSeq
<1>2. CASE c.op = "deluid"
  <2>1. r = k \/ (c.index + 1 \in 1..Len(k.uids)
                  /\ r = [k EXCEPT !.uids = RemoveAt(k.uids, c.index + 1)])
    BY <1>2, KeyParts DEF Apply
  <2>. QED
    BY <2>1, KeyParts, RemovalIsSeq
<1>3. CASE c.op = "expire"
  <2>1. r = [k EXCEPT !.expires[KeyAt(k, c.index)] = c.arg]
    BY <1>3 DEF Apply
  <2>2. [k.expires EXCEPT ![KeyAt(k, c.index)] = c.arg] \in [AllKeys -> BOOLEAN]
    BY <1>3, KeyParts
  <2>. QED
    BY <2>1, <2>2, KeyParts
<1>4. CASE c.op = "addkey"
  <2>1. PICK n \in NewKeys : r = [k EXCEPT !.subkeys = Append(k.subkeys, n)]
    BY <1>4 DEF Apply
  <2>2. Append(k.subkeys, n) \in Seq(AllKeys)
    BY <2>1, KeyParts DEF AllKeys
  <2>. QED
    BY <2>1, <2>2, KeyParts
<1>5. CASE c.op = "adduid"
  <2>1. PICK n \in NewUids : r = [k EXCEPT !.uids = Append(k.uids, n)]
    BY <1>5 DEF Apply
  <2>2. Append(k.uids, n) \in Seq(AllUids)
    BY <2>1, KeyParts DEF AllUids
  <2>. QED
    BY <2>1, <2>2, KeyParts
<1>. QED
  BY <1>1, <1>2, <1>3, <1>4, <1>5 DEF Names

LEMMA InitIInv == Init => IInv
<1>. SUFFICES ASSUME Init PROVE IInv
  OBVIOUS
<1>1. KeySeq \in Seq(AllKeys) /\ UidSeq \in Seq(AllUids)
  BY EditorAssumption DEF AllKeys, AllUids
<1>2. key \in Keys
  BY <1>1 DEF Init, Keys
<1>3. ui \in Widgets /\ ui.listed = cache /\ ui.combo = cache.trust /\ ui.shown = FALSE
  BY <1>2, KeyParts DEF Init, Widgets
<1>4. IsEdit(Over("idle"))
  BY OverIsEdit DEF Pcs
<1>5. ops = [o \in Edits |-> ops[o]] /\ \A o \in Edits : IsEdit(ops[o])
  BY <1>4 DEF Init
<1>6. \A s \in AllKeys : cache.expires[s] = FALSE
  BY DEF Init
<1>7. ToSet(cache.subkeys) \subseteq AllKeys
  BY DEF Init, AllKeys
<1>8. Typed
  BY <1>2, <1>3, <1>5, EditorAssumption DEF Typed, Init
<1>. QED
  BY <1>3, <1>6, <1>7, <1>8 DEF IInv, ListsFollow, ComboFollows

---------------------------------------------------------------------------
(* The steps of an edit that leave the widget alone.                        *)

\* Whatever is put in its place, only one edit has changed.
LEMMA OpsStep ==
  ASSUME IInv, NEW o \in Edits, NEW e, IsEdit(e), ops' = [ops EXCEPT ![o] = e]
  PROVE  /\ ops' = [p \in Edits |-> ops'[p]] /\ \A p \in Edits : IsEdit(ops'[p])
         /\ ops'[o] = e /\ \A p \in Edits \ {o} : ops'[p] = ops[p]
  BY DEF IInv, Typed

LEMMA EditStep ==
  ASSUME IInv, NEW o \in Edits, NEW e, IsEdit(e), ops' = [ops EXCEPT ![o] = e],
         ops[o].pc = "listed" => e.pc = "untold", ops[o].pc # "untold",
         ops[o].op = "trust" /\ ops[o].pc \notin {"idle", "done"} =>
           e.op = "trust" /\ e.arg = ops[o].arg /\ e.pc \notin {"idle", "done"},
         key' \in Keys, born' \subseteq NewKeys \cup NewUids, UNCHANGED <<cache, ui, outside>>
  PROVE  IInv'
<1>1. /\ ops' = [p \in Edits |-> ops'[p]] /\ \A p \in Edits : IsEdit(ops'[p])
      /\ ops'[o] = e /\ \A p \in Edits \ {o} : ops'[p] = ops[p]
  BY OpsStep
<1>2. Reloading => Reloading'
  BY <1>1 DEF Reloading
<1>3. \A p \in Edits, v \in Validities : Sets(ops[p], v) => Sets(ops'[p], v)
  BY <1>1 DEF Sets
<1>4. Typed'
  BY <1>1 DEF Typed, IInv
<1>5. ListsFollow'
  BY <1>2 DEF ListsFollow, IInv
<1>6. ComboFollows'
  <2>1. ui.combo \in Validities
    BY DEF IInv, Typed, Widgets
  <2>. QED
    BY <1>2, <1>3, <2>1 DEF ComboFollows, IInv
<1>. QED
  BY <1>4, <1>5, <1>6 DEF IInv

\* An edit that moves on: alone, with the key gpg has read, with the key a listing reads.
LEMMA Moved ==
  ASSUME NEW c, IsEdit(c), NEW pc \in Pcs, NEW e, e = [c EXCEPT !.pc = pc],
         pc \in {"start", "edit"} => c.pc = "start"
  PROVE  IsEdit(e) /\ e.pc = pc /\ e.op = c.op /\ e.arg = c.arg
<1>1. c = [pc |-> c.pc, op |-> c.op, index |-> c.index, arg |-> c.arg, chosen |-> c.chosen,
           base |-> c.base, snap |-> c.snap, view |-> c.view]
  BY DEF IsEdit
<1>2. e = [pc |-> pc, op |-> c.op, index |-> c.index, arg |-> c.arg, chosen |-> c.chosen,
           base |-> c.base, snap |-> c.snap, view |-> c.view]
  BY <1>1
<1>. QED
  BY <1>2 DEF IsEdit, Hits

LEMMA Seen ==
  ASSUME NEW c, IsEdit(c), NEW k \in Keys
  PROVE  /\ \A e : e = [c EXCEPT !.snap = k] =>
              IsEdit(e) /\ e.pc = c.pc /\ e.op = c.op /\ e.arg = c.arg
         /\ \A e : e = [c EXCEPT !.view = k] =>
              IsEdit(e) /\ e.pc = c.pc /\ e.op = c.op /\ e.arg = c.arg
<1>1. c = [pc |-> c.pc, op |-> c.op, index |-> c.index, arg |-> c.arg, chosen |-> c.chosen,
           base |-> c.base, snap |-> c.snap, view |-> c.view]
  BY DEF IsEdit
<1>2. ASSUME NEW e, e = [c EXCEPT !.snap = k]
      PROVE  IsEdit(e) /\ e.pc = c.pc /\ e.op = c.op /\ e.arg = c.arg
  <2>1. e = [pc |-> c.pc, op |-> c.op, index |-> c.index, arg |-> c.arg, chosen |-> c.chosen,
             base |-> c.base, snap |-> k, view |-> c.view]
    BY <1>1, <1>2
  <2>. QED
    BY <2>1 DEF IsEdit, Hits
<1>3. ASSUME NEW e, e = [c EXCEPT !.view = k]
      PROVE  IsEdit(e) /\ e.pc = c.pc /\ e.op = c.op /\ e.arg = c.arg
  <2>1. e = [pc |-> c.pc, op |-> c.op, index |-> c.index, arg |-> c.arg, chosen |-> c.chosen,
             base |-> c.base, snap |-> c.snap, view |-> k]
    BY <1>1, <1>3
  <2>. QED
    BY <2>1 DEF IsEdit, Hits
<1>. QED
  BY <1>2, <1>3

LEMMA EndedIs ==
  ASSUME NEW c, IsEdit(c), NEW pc \in {"saved", "failed"}
  PROVE  /\ IsEdit(Ended(pc, c)) /\ Ended(pc, c).pc \notin {"start", "edit", "listed", "untold"}
         /\ c.op = "trust" =>
              /\ Ended(pc, c).op = "trust" /\ Ended(pc, c).arg = c.arg
              /\ Ended(pc, c).pc \notin {"idle", "done"}
<1>1. CASE c.op = "trust"
  <2>. DEFINE d == [c EXCEPT !.pc = pc]
              e == [d EXCEPT !.snap = NoKey]
              f == [e EXCEPT !.view = NoKey]
  <2>1. IsEdit(d) /\ d.pc = pc /\ d.op = c.op /\ d.arg = c.arg
    BY Moved DEF Pcs
  <2>2. Ended(pc, c) = f
    BY <1>1 DEF Ended
  <2>. HIDE DEF d
  <2>3. IsEdit(e) /\ e.pc = pc /\ e.op = c.op /\ e.arg = c.arg
    BY <2>1, NoKeyIsKey, Seen
  <2>. HIDE DEF e
  <2>4. IsEdit(f) /\ f.pc = pc /\ f.op = c.op /\ f.arg = c.arg
    BY <2>3, NoKeyIsKey, Seen
  <2>. QED
    BY <1>1, <2>2, <2>4
<1>2. CASE c.op # "trust"
  <2>. DEFINE q == IF pc = "failed" THEN "done" ELSE pc
  <2>1. IsEdit(Over(q))
    BY OverIsEdit DEF Pcs
  <2>2. Over(q).pc = q
    BY DEF Over, Edit
  <2>. QED
    BY <1>2, <2>1, <2>2 DEF Ended
<1>. QED
  BY <1>1, <1>2

LEMMA GpgStep ==
  ASSUME IInv, NEW o \in Edits, Gpg(o)
  PROVE  IInv'
<1>1. /\ key \in Keys /\ born \subseteq NewKeys \cup NewUids /\ IsEdit(ops[o])
  BY DEF IInv, Typed
<1>2. CASE GpgLoads(o)
  <2>. DEFINE d == [ops[o] EXCEPT !.pc = "edit"]
              e == [d EXCEPT !.snap = key]
  <2>1. ops[o].pc = "start" /\ ops' = [ops EXCEPT ![o] = e]
    BY <1>2 DEF GpgLoads
  <2>2. IsEdit(d) /\ d.pc = "edit" /\ d.op = ops[o].op /\ d.arg = ops[o].arg
    BY <1>1, <2>1, Moved DEF Pcs
  <2>. HIDE DEF d
  <2>3. IsEdit(e) /\ e.pc = "edit" /\ e.op = ops[o].op /\ e.arg = ops[o].arg
    BY <1>1, <2>2, Seen
  <2>. HIDE DEF e
  <2>. QED
    BY <1>1, <1>2, <2>1, <2>3, EditStep DEF GpgLoads
<1>3. CASE GpgSaves(o)
  <2>1. ops[o].pc = "edit" /\ ops' = [ops EXCEPT ![o] = Ended("saved", ops[o])]
    BY <1>3 DEF GpgSaves
  <2>2. key' \in Keys /\ born' \subseteq NewKeys \cup NewUids
    <3>1. CASE ops[o].op = "trust"
      <4>1. ops[o].arg \in Validities
        BY <1>1, <2>1, <3>1 DEF IsEdit
      <4>. QED
        BY <1>1, <1>3, <3>1, <4>1, KeyParts DEF GpgSaves
    <3>2. CASE ops[o].op # "trust"
      <4>1. PICK k \in Apply(ops[o].snap, ops[o]) :
              /\ key' = IF k = ops[o].snap THEN key ELSE [k EXCEPT !.trust = key.trust]
              /\ Born(k)
        BY <1>3, <3>2 DEF GpgSaves
      <4>2. k \in Keys
        <5>1. /\ ops[o].snap \in Keys /\ ops[o].index \in Nat /\ ops[o].op \in Names \ {"trust"}
              /\ ops[o].op = "expire" => ops[o].arg \in BOOLEAN
          BY <1>1, <2>1, <3>2 DEF IsEdit
        <5>. QED
          BY <4>1, <5>1, ApplyIsKey
      <4>. QED
        BY <1>1, <4>1, <4>2, KeyParts DEF Born
    <3>. QED
      BY <3>1, <3>2
  <2>. QED
    BY <1>1, <1>3, <2>1, <2>2, EndedIs, EditStep DEF GpgSaves
<1>4. CASE GpgFails(o)
  <2>1. ops[o].pc \in {"start", "edit"} /\ ops' = [ops EXCEPT ![o] = Ended("failed", ops[o])]
    BY <1>4 DEF GpgFails
  <2>2. key' \in Keys
    <3>1. ops[o].op = "trust" => ops[o].arg \in Validities
      BY <1>1, <2>1 DEF IsEdit
    <3>. QED
      BY <1>1, <1>4, <3>1, KeyParts DEF GpgFails
  <2>. QED
    BY <1>1, <1>4, <2>1, <2>2, EndedIs, EditStep DEF GpgFails
<1>. QED
  BY <1>2, <1>3, <1>4 DEF Gpg

---------------------------------------------------------------------------
(* The steps of GpgItem.edit.                                               *)

LEMMA ItemStep ==
  ASSUME IInv, NEW o \in Edits, Item(o)
  PROVE  IInv'
<1>1. /\ key \in Keys /\ cache \in Keys /\ born \subseteq NewKeys \cup NewUids
      /\ ui \in Widgets /\ outside \in 0..MaxOutside
      /\ IsEdit(ops[o]) /\ ops[o].view \in Keys
  BY DEF IInv, Typed, IsEdit
<1>2. CASE BeginReload(o)
  <2>. DEFINE d == [ops[o] EXCEPT !.pc = "list"]
              e == [d EXCEPT !.view = key]
  <2>1. ops[o].pc = "saved" /\ ops' = [ops EXCEPT ![o] = e]
    BY <1>2 DEF BeginReload
  <2>2. IsEdit(d) /\ d.pc = "list" /\ d.op = ops[o].op /\ d.arg = ops[o].arg
    BY <1>1, Moved DEF Pcs
  <2>. HIDE DEF d
  <2>3. IsEdit(e) /\ e.pc = "list" /\ e.op = ops[o].op /\ e.arg = ops[o].arg
    BY <1>1, <2>2, Seen
  <2>. HIDE DEF e
  <2>. QED
    BY <1>1, <1>2, <2>1, <2>3, EditStep DEF BeginReload
<1>3. CASE ListFails(o)
  <2>1. CASE ops[o].pc = "list" /\ ops' = [ops EXCEPT ![o] = Ended("failed", ops[o])]
    BY <1>1, <1>3, <2>1, EndedIs, EditStep DEF ListFails
  <2>2. CASE ops[o].pc = "listed" /\ ops' = [ops EXCEPT ![o] = [ops[o] EXCEPT !.pc = "untold"]]
    <3>. DEFINE e == [ops[o] EXCEPT !.pc = "untold"]
    <3>1. IsEdit(e) /\ e.pc = "untold" /\ e.op = ops[o].op /\ e.arg = ops[o].arg
      BY <1>1, Moved DEF Pcs
    <3>. HIDE DEF e
    <3>2. ops' = [ops EXCEPT ![o] = e]
      BY <2>2 DEF e
    <3>. QED
      BY <1>1, <1>3, <2>2, <3>1, <3>2, EditStep DEF ListFails
  <2>. QED
    BY <1>3, <2>1, <2>2 DEF ListFails
<1>4. CASE ListContent(o)
  <2>. DEFINE d == [ops[o] EXCEPT !.pc = "listed"]
              e == [d EXCEPT !.view = NoKey]
  <2>1. ops' = [ops EXCEPT ![o] = e]
    BY <1>4 DEF ListContent
  <2>2. IsEdit(d) /\ d.pc = "listed"
    BY <1>1, Moved DEF Pcs
  <2>. HIDE DEF d
  <2>3. IsEdit(e) /\ e.pc = "listed"
    BY <2>2, NoKeyIsKey, Seen
  <2>. HIDE DEF e
  <2>4. /\ ops' = [p \in Edits |-> ops'[p]] /\ \A p \in Edits : IsEdit(ops'[p])
        /\ ops'[o].pc = "listed"
    BY <2>1, <2>3, OpsStep
  <2>5. Typed'
    BY <1>1, <1>4, <2>4 DEF ListContent, Typed
  <2>6. Reloading'
    BY <2>4 DEF Reloading
  <2>. QED
    BY <2>5, <2>6 DEF IInv, ListsFollow, ComboFollows
<1>5. CASE Changed(o)
  <2>1. ops' = [ops EXCEPT ![o] = Over("done")]
    BY <1>5 DEF Changed
  <2>2. IsEdit(Over("done"))
    BY OverIsEdit DEF Pcs
  <2>3. ops' = [p \in Edits |-> ops'[p]] /\ \A p \in Edits : IsEdit(ops'[p])
    BY <2>1, <2>2, OpsStep
  <2>4. ShownExpiry(cache) \in BOOLEAN
    <3>1. ui.shown \in BOOLEAN
      BY <1>1 DEF Widgets
    <3>2. ToSet(cache.subkeys) \subseteq AllKeys
      BY <1>1, KeyParts DEF ToSet
    <3>3. \A k \in AllKeys : cache.expires[k] \in BOOLEAN
      BY <1>1, KeyParts
    <3>. QED
      BY <3>1, <3>2, <3>3 DEF ShownExpiry
  <2>5. Deletable(cache) \in BOOLEAN
    <3>. DEFINE more == Len(cache.uids) > 1
    <3>1. ui.deletable \in BOOLEAN
      BY <1>1 DEF Widgets
    <3>2. Deletable(cache) = IF ui.uid \in ToSet(cache.uids) THEN more ELSE ui.deletable
      BY Zenon DEF Deletable
    <3>3. more \in BOOLEAN
      BY SMT
    <3>. HIDE DEF more
    <3>. QED
      BY <3>1, <3>2, <3>3
  <2>6. UpdateTrust(cache) \in Validities /\ UpdateTrust(cache) = cache.trust
    BY <1>1, KeyParts DEF UpdateTrust
  <2>7. /\ ui' \in Widgets /\ ui'.listed = cache /\ ui'.combo = cache.trust
        /\ ui'.subkey = ui.subkey /\ ui'.shown = ShownExpiry(cache)
    <3>. HIDE DEF ShownExpiry, Deletable, UpdateTrust
    <3>1. ui' = [ui EXCEPT !.listed = cache, !.shown = ShownExpiry(cache),
                           !.deletable = Deletable(cache), !.combo = UpdateTrust(cache)]
      BY <1>5 DEF Changed
    <3>. QED
      BY <1>1, <2>4, <2>5, <2>6, <3>1 DEF Widgets
  <2>8. Typed'
    BY <1>1, <1>5, <2>3, <2>7 DEF Changed, Typed
  <2>9. cache' = cache
    BY <1>5 DEF Changed
  <2>. QED
    BY <2>7, <2>8, <2>9 DEF IInv, ListsFollow, ComboFollows, ShownExpiry
<1>. QED
  BY <1>2, <1>3, <1>4, <1>5 DEF Item

---------------------------------------------------------------------------
(* The steps of the user.                                                   *)

\* An edit is started: the lists and the page stay as they are.
LEMMA BeginStep ==
  ASSUME IInv, NEW o \in Edits, NEW c, NEW u, Begin(o, c, u), IsEdit(c), c.pc = "start",
         u \in Widgets, u.listed = ui.listed, u.subkey = ui.subkey, u.shown = ui.shown,
         u.combo # ui.combo => Sets(c, u.combo)
  PROVE  IInv'
<1>1. /\ ops[o].pc = "idle" /\ ops' = [ops EXCEPT ![o] = c] /\ ui' = u
      /\ UNCHANGED <<key, born, cache, outside>>
  BY DEF Begin
<1>2. /\ ops' = [p \in Edits |-> ops'[p]] /\ \A p \in Edits : IsEdit(ops'[p])
      /\ ops'[o] = c /\ \A p \in Edits \ {o} : ops'[p] = ops[p]
  BY <1>1, OpsStep
<1>3. Reloading => Reloading'
  BY <1>1, <1>2 DEF Reloading
<1>4. \A p \in Edits : Sets(ops[p], ui.combo) => Sets(ops'[p], ui.combo)
  BY <1>1, <1>2 DEF Sets
<1>5. Typed'
  BY <1>1, <1>2 DEF Typed, IInv
<1>6. ListsFollow'
  BY <1>1, <1>3 DEF ListsFollow, IInv
<1>7. ComboFollows'
  <2>1. CASE u.combo # ui.combo
    <3>1. Sets(ops'[o], ui'.combo)
      BY <1>1, <1>2, <2>1
    <3>. QED
      BY <3>1 DEF ComboFollows
  <2>2. CASE u.combo = ui.combo
    BY <1>1, <1>3, <1>4, <2>2 DEF ComboFollows, IInv
  <2>. QED
    BY <2>1, <2>2
<1>. QED
  BY <1>5, <1>6, <1>7 DEF IInv

LEMMA SeqOfMore ==
  ASSUME NEW S, NEW T, S \subseteq T, NEW s \in Seq(S)
  PROVE  s \in Seq(T)
<1>1. s \in [1..Len(s) -> S] /\ Len(s) \in Nat
  BY LenProperties
<1>2. s \in [1..Len(s) -> T]
  BY <1>1
<1>. QED
  BY <1>1, <1>2, SeqDef

LEMMA UserStep ==
  ASSUME IInv, NEW o \in Edits, User(o)
  PROVE  IInv'
<1>1. /\ ui \in Widgets /\ ui.index \in Nat /\ ui.shown \in BOOLEAN /\ cache \in Keys
      /\ cache.subkeys \in Seq(AllKeys) /\ cache.uids \in Seq(AllUids)
  BY KeyParts DEF IInv, Typed, Widgets
<1>2. cache.subkeys \in Seq(AllKeys \cup AllUids) /\ cache.uids \in Seq(AllKeys \cup AllUids)
  BY <1>1, SeqOfMore
<1>3. \A op, index, arg, chosen, base : Command(op, index, arg, chosen, base).pc = "start"
  BY DEF Command, Edit
<1>4. CASE ChangeExpiry(o)
  <2>. DEFINE c == Command("expire", ui.index, ~ui.shown, ui.subkey, cache.subkeys)
  <2>1. Begin(o, c, ui)
    BY <1>4 DEF ChangeExpiry
  <2>2. \A arg \in BOOLEAN : IsEdit(Command("expire", ui.index, arg, ui.subkey, cache.subkeys))
    BY <1>1, CommandIsEdit DEF Names
  <2>3. IsEdit(c)
    <3>1. CASE ui.shown = TRUE
      BY <2>2, <3>1
    <3>2. CASE ui.shown = FALSE
      BY <2>2, <3>2
    <3>. QED
      BY <1>1, <3>1, <3>2
  <2>4. c.pc = "start"
    BY <1>3
  <2>. HIDE DEF c
  <2>. QED
    BY <1>1, <2>1, <2>3, <2>4, BeginStep
<1>5. CASE DeleteSubkey(o)
  <2>. DEFINE i == Enumerate(cache.subkeys, ui.subkey)
              c == Command("delkey", i, FALSE, ui.subkey, cache.subkeys)
              u == [ui EXCEPT !.page = "main"]
  <2>1. Begin(o, c, u)
    BY <1>5 DEF DeleteSubkey
  <2>2. /\ i \in Nat
        /\ Contains(cache.subkeys, ui.subkey) =>
             i + 1 \in 1..Len(cache.subkeys) /\ cache.subkeys[i + 1] = ui.subkey
    BY <1>1, EnumerateFinds
  <2>. HIDE DEF i
  <2>3. IsEdit(c)
    BY <1>2, <2>2, CommandIsEdit DEF Names
  <2>4. c.pc = "start"
    BY <1>3
  <2>5. /\ u \in Widgets /\ u.listed = ui.listed /\ u.subkey = ui.subkey
        /\ u.shown = ui.shown /\ u.combo = ui.combo
    BY <1>1 DEF Widgets
  <2>. HIDE DEF c, u
  <2>. QED
    BY <2>1, <2>3, <2>4, <2>5, BeginStep
<1>6. CASE DeleteUserId(o)
  <2>. DEFINE i == Enumerate(cache.uids, ui.uid)
              c == Command("deluid", i, FALSE, ui.uid, cache.uids)
              u == [ui EXCEPT !.page = "main"]
  <2>1. Begin(o, c, u)
    BY <1>6 DEF DeleteUserId
  <2>2. /\ i \in Nat
        /\ Contains(cache.uids, ui.uid) =>
             i + 1 \in 1..Len(cache.uids) /\ cache.uids[i + 1] = ui.uid
    BY <1>1, EnumerateFinds
  <2>. HIDE DEF i
  <2>3. IsEdit(c)
    BY <1>2, <2>2, CommandIsEdit DEF Names
  <2>4. c.pc = "start"
    BY <1>3
  <2>5. /\ u \in Widgets /\ u.listed = ui.listed /\ u.subkey = ui.subkey
        /\ u.shown = ui.shown /\ u.combo = ui.combo
    BY <1>1 DEF Widgets
  <2>. HIDE DEF c, u
  <2>. QED
    BY <2>1, <2>3, <2>4, <2>5, BeginStep
<1>7. CASE AddSubkey(o) \/ AddUserId(o)
  <2>1. PICK op \in {"addkey", "adduid"} : Begin(o, Command(op, 0, FALSE, None, << >>), ui)
    BY <1>7 DEF AddSubkey, AddUserId
  <2>. DEFINE c == Command(op, 0, FALSE, None, << >>)
  <2>2. IsEdit(c)
    BY <2>1, CommandIsEdit DEF Names
  <2>3. c.pc = "start" /\ Begin(o, c, ui)
    BY <1>3, <2>1
  <2>. HIDE DEF c
  <2>. QED
    BY <1>1, <2>2, <2>3, BeginStep
<1>8. CASE ChangeTrust(o)
  <2>1. PICK v \in Validities :
          Begin(o, Command("trust", 0, v, None, << >>), [ui EXCEPT !.combo = v])
    BY <1>8 DEF ChangeTrust
  <2>. DEFINE c == Command("trust", 0, v, None, << >>)
              u == [ui EXCEPT !.combo = v]
  <2>2. IsEdit(c)
    BY CommandIsEdit DEF Names
  <2>3. c.pc = "start" /\ Sets(c, v)
    BY DEF Command, Edit, Sets
  <2>4. /\ u \in Widgets /\ u.listed = ui.listed /\ u.subkey = ui.subkey
        /\ u.shown = ui.shown /\ u.combo = v
    BY <1>1 DEF Widgets
  <2>. HIDE DEF c, u
  <2>5. Begin(o, c, u)
    BY <2>1 DEF c, u
  <2>. QED
    BY <2>2, <2>3, <2>4, <2>5, BeginStep
<1>. QED
  BY <1>4, <1>5, <1>6, <1>7, <1>8 DEF User

\* The user looks at something else.
LEMMA SeeStep ==
  ASSUME IInv, NEW u, See(u), u \in Widgets, u.listed = ui.listed,
         u.subkey # ui.subkey \/ u.shown # ui.shown => u.shown = ui.listed.expires[u.subkey],
         u.combo # ui.combo => u.combo = cache.trust
  PROVE  IInv'
<1>1. ui' = u /\ UNCHANGED <<key, born, cache, ops, outside>>
  BY DEF See
<1>2. Reloading' <=> Reloading
  BY <1>1 DEF Reloading
<1>3. Typed'
  BY <1>1 DEF IInv, Typed
<1>4. ListsFollow'
  BY <1>1, <1>2 DEF IInv, ListsFollow
<1>5. ComboFollows'
  BY <1>1, <1>2 DEF IInv, ComboFollows
<1>. QED
  BY <1>3, <1>4, <1>5 DEF IInv

LEMMA LookStep ==
  ASSUME IInv, SelectSubkey \/ SelectUserId \/ Back \/ PickTrust
  PROVE  IInv'
<1>1. /\ ui \in Widgets /\ cache \in Keys /\ cache.trust \in Validities
      /\ ui.listed.subkeys \in Seq(AllKeys) /\ ui.listed.uids \in Seq(AllUids)
      /\ ui.listed.expires \in [AllKeys -> BOOLEAN]
  BY KeyParts DEF IInv, Typed, Widgets
<1>2. CASE SelectSubkey
  <2>1. PICK i \in DOMAIN ui.listed.subkeys :
          LET k == ui.listed.subkeys[i] IN
          See([ui EXCEPT !.page = "subkey", !.subkey = k, !.shown = ui.listed.expires[k],
                         !.index = IF ui.subkey = None THEN i - 1 ELSE @])
    BY <1>2 DEF SelectSubkey
  <2>. DEFINE k == ui.listed.subkeys[i]
              n == IF ui.subkey = None THEN i - 1 ELSE ui.index
              u == [ui EXCEPT !.page = "subkey", !.subkey = k,
                              !.shown = ui.listed.expires[k], !.index = n]
  <2>2. k \in AllKeys /\ n \in Nat
    BY <1>1 DEF Widgets
  <2>3. See(u)
    BY <2>1
  <2>. HIDE DEF k, n
  <2>4. ui.listed.expires[k] \in BOOLEAN
    BY <1>1, <2>2
  <2>5. /\ u \in Widgets /\ u.listed = ui.listed /\ u.combo = ui.combo
        /\ u.subkey = k /\ u.shown = ui.listed.expires[k]
    BY <1>1, <2>2, <2>4 DEF Widgets
  <2>. HIDE DEF u
  <2>. QED
    BY <2>3, <2>5, SeeStep
<1>3. CASE SelectUserId
  <2>1. PICK i \in DOMAIN ui.listed.uids :
          See([ui EXCEPT !.page = "user_id", !.uid = ui.listed.uids[i],
                         !.deletable = Len(cache.uids) > 1])
    BY <1>3 DEF SelectUserId
  <2>. DEFINE x == ui.listed.uids[i]
              d == Len(cache.uids) > 1
              u == [ui EXCEPT !.page = "user_id", !.uid = x, !.deletable = d]
  <2>2. x \in AllUids
    BY <1>1
  <2>3. See(u)
    BY <2>1
  <2>4. d \in BOOLEAN
    BY SMT
  <2>. HIDE DEF x, d
  <2>5. /\ u \in Widgets /\ u.listed = ui.listed /\ u.combo = ui.combo
        /\ u.subkey = ui.subkey /\ u.shown = ui.shown
    BY <1>1, <2>2, <2>4 DEF Widgets
  <2>. HIDE DEF u
  <2>. QED
    BY <2>3, <2>5, SeeStep
<1>4. CASE Back \/ PickTrust
  <2>1. CASE Back
    <3>. DEFINE u == [ui EXCEPT !.page = "main"]
    <3>1. See(u)
      BY <2>1 DEF Back
    <3>2. /\ u \in Widgets /\ u.listed = ui.listed /\ u.combo = ui.combo
          /\ u.subkey = ui.subkey /\ u.shown = ui.shown
      BY <1>1 DEF Widgets
    <3>. HIDE DEF u
    <3>. QED
      BY <3>1, <3>2, SeeStep
  <2>2. CASE PickTrust
    <3>. DEFINE u == [ui EXCEPT !.combo = cache.trust]
    <3>1. See(u)
      BY <2>2 DEF PickTrust
    <3>2. /\ u \in Widgets /\ u.listed = ui.listed /\ u.combo = cache.trust
          /\ u.subkey = ui.subkey /\ u.shown = ui.shown
      BY <1>1 DEF Widgets
    <3>. HIDE DEF u
    <3>. QED
      BY <3>1, <3>2, SeeStep
  <2>. QED
    BY <1>4, <2>1, <2>2
<1>. QED
  BY <1>2, <1>3, <1>4

---------------------------------------------------------------------------

LEMMA OutsideStep == IInv /\ Outside => IInv'
<1>. SUFFICES ASSUME IInv, Outside PROVE IInv'
  OBVIOUS
<1>1. /\ key \in Keys /\ born \subseteq NewKeys \cup NewUids
      /\ outside \in 0..MaxOutside /\ MaxOutside \in Nat
  BY EditorAssumption DEF IInv, Typed
<1>2. PICK op \in {"delkey", "deluid", "addkey", "adduid"}, i \in 0..Len(key.subkeys) :
        \E k \in Apply(key, Command(op, i, TRUE, None, << >>)) : key' = k /\ Born(k)
  BY DEF Outside
<1>. DEFINE c == Command(op, i, TRUE, None, << >>)
<1>3. c.op = op /\ c.index = i
  BY DEF Command, Edit
<1>4. i \in Nat /\ op \in Names \ {"trust"} /\ op # "expire"
  BY <1>1, KeyParts DEF Names
<1>. HIDE DEF c
<1>5. PICK k \in Apply(key, c) : key' = k /\ Born(k)
  BY <1>2 DEF c
<1>6. key' \in Keys
  BY <1>1, <1>3, <1>4, <1>5, ApplyIsKey
<1>7. born' \subseteq NewKeys \cup NewUids
  BY <1>1, <1>5 DEF Born
<1>8. outside' \in 0..MaxOutside /\ UNCHANGED <<cache, ui, ops>>
  BY <1>1 DEF Outside
<1>9. Typed'
  BY <1>6, <1>7, <1>8 DEF IInv, Typed
<1>. QED
  BY <1>8, <1>9 DEF IInv, ListsFollow, ComboFollows, Reloading

LEMMA NextIInv == IInv /\ [Next]_vars => IInv'
<1>. SUFFICES ASSUME IInv, [Next]_vars PROVE IInv'
  OBVIOUS
<1>1. CASE Outside
  BY <1>1, OutsideStep
<1>2. CASE SelectSubkey \/ SelectUserId \/ Back \/ PickTrust
  BY <1>2, LookStep
<1>3. CASE \E o \in Edits : User(o) \/ Gpg(o) \/ Item(o)
  BY <1>3, UserStep, GpgStep, ItemStep
<1>4. CASE UNCHANGED vars
  BY <1>4 DEF vars, IInv, Typed, ListsFollow, ComboFollows, Reloading
<1>. QED
  BY <1>1, <1>2, <1>3, <1>4 DEF Next

\* The inductive invariant: the lists are the item's content and the page its expiry
\* unless a reload stands between them, a trust value the item does not have belongs
\* to an edit, and the index of a deletion is that of the chosen element.
THEOREM EditorInvariant == Spec => []IInv
  BY InitIInv, NextIInv, PTL DEF Spec

\* What delete_subkey and delete_user_id promise, for keys of any size: the deletion
\* hits the subkey or the user id of the page as long as the item's list has only been
\* added to since.
THEOREM DeletionHitsTheChosen == Spec => []ChosenIsDeleted
<1>1. IInv => ChosenIsDeleted
  <2>. SUFFICES ASSUME IInv, NEW o \in Edits, ops[o].pc = "edit", ops[o].op \in {"delkey", "deluid"},
                       Contains(ops[o].base, ops[o].chosen),
                       NEW on, on = IF ops[o].op = "delkey" THEN ops[o].snap.subkeys
                                    ELSE ops[o].snap.uids,
                       IsPrefix(ops[o].base, on)
                PROVE  on[ops[o].index + 1] = ops[o].chosen
    BY DEF ChosenIsDeleted
  <2>1. IsEdit(ops[o])
    BY DEF IInv, Typed
  <2>2. /\ ops[o].base \in Seq(AllKeys \cup AllUids)
        /\ ops[o].index + 1 \in 1..Len(ops[o].base)
        /\ ops[o].base[ops[o].index + 1] = ops[o].chosen
    BY <2>1 DEF IsEdit, Hits
  <2>3. on \in Seq(AllKeys) \/ on \in Seq(AllUids)
    BY <2>1, KeyParts DEF IsEdit
  <2>. QED
    BY <2>2, <2>3, PrefixElement
<1>. QED
  BY <1>1, EditorInvariant, PTL

\* update_subkey_list, update_user_id_list and update_properties keep the editor with the
\* item's content, whatever edits overlap.
THEOREM EditorFollowsTheItem == Spec => []EditorShowsTheItem
<1>1. IInv => TypeOK
  BY DEF IInv, Typed, IsEdit, TypeOK, Widgets
<1>2. IInv => EditorShowsTheItem
  BY <1>1 DEF IInv, ListsFollow, EditorShowsTheItem
<1>. QED
  BY <1>2, EditorInvariant, PTL

\* on_trust_changed and update_trust: a trust value the item does not have is that of an
\* edit under way or failed.
THEOREM ComboFollowsTrust == Spec => []ComboShowsTrust
<1>1. IInv => ComboShowsTrust
  BY DEF IInv, ComboFollows, Sets, ComboShowsTrust
<1>. QED
  BY <1>1, EditorInvariant, PTL

---------------------------------------------------------------------------
(* The list panels: any items, announced, removed, searched, selected and   *)
(* deleted in any order.                                                    *)

InsertedIn(s, n, e) ==
  [k \in 1..(Len(s) + 1) |-> IF k < n THEN s[k] ELSE IF k = n THEN e ELSE s[k - 1]]
RemovedFrom(s, n) ==
  [k \in 1..(Len(s) - 1) |-> IF k < n THEN s[k] ELSE s[k + 1]]

LEMMA InsertAtIs ==
  ASSUME NEW S, NEW s \in Seq(S), NEW n \in 1..(Len(s) + 1), NEW e \in S
  PROVE  /\ InsertAt(s, n, e) = InsertedIn(s, n, e)
         /\ InsertAt(s, n, e) \in Seq(S) /\ Len(InsertAt(s, n, e)) = Len(s) + 1
<1> DEFINE a == SubSeq(s, 1, n - 1)
           b == SubSeq(s, n, Len(s))
           ae == a \o <<e>>
           t == ae \o b
<1>0. Len(s) \in Nat /\ n \in Nat
  OBVIOUS
<1>1. a \in Seq(S) /\ Len(a) = n - 1 /\ \A i \in 1..(n - 1) : a[i] = s[i]
  BY SubSeqProperties
<1>2. b \in Seq(S) /\ Len(b) = Len(s) - n + 1 /\ \A i \in 1..(Len(s) - n + 1) : b[i] = s[n + i - 1]
  BY SubSeqProperties
<1>3. <<e>> \in Seq(S) /\ Len(<<e>>) = 1 /\ <<e>>[1] = e
  OBVIOUS
<1> HIDE DEF a, b
<1>4. ae \in Seq(S) /\ Len(ae) = n /\ \A i \in 1..n : ae[i] = IF i < n THEN s[i] ELSE e
  <2>1. ae \in Seq(S) /\ Len(ae) = n
    BY <1>1, <1>3, ConcatProperties
  <2>2. \A i \in 1..n : ae[i] = IF i <= n - 1 THEN a[i] ELSE <<e>>[i - (n - 1)]
    BY <1>1, <1>3, ConcatProperties
  <2> QED
    BY <1>1, <1>3, <2>1, <2>2
<1> HIDE DEF ae
<1>5. t \in Seq(S) /\ Len(t) = Len(s) + 1
  <2>1. t \in Seq(S) /\ Len(t) = Len(ae) + Len(b)
    BY <1>2, <1>4, ConcatProperties
  <2> HIDE DEF t
  <2> QED
    BY <1>0, <1>2, <1>4, <2>1
<1>6. \A i \in 1..(Len(s) + 1) : t[i] = IF i <= n THEN ae[i] ELSE b[i - n]
  BY <1>2, <1>4, ConcatProperties
<1> HIDE DEF t
<1>7. \A i \in 1..(Len(s) + 1) : t[i] = InsertedIn(s, n, e)[i]
  BY <1>2, <1>4, <1>6 DEF InsertedIn
<1>8. t = InsertedIn(s, n, e)
  BY <1>5, <1>7 DEF InsertedIn
<1> QED
  BY <1>5, <1>8 DEF t, ae, a, b, InsertAt

LEMMA RemoveAtIs ==
  ASSUME NEW S, NEW s \in Seq(S), NEW n \in 1..Len(s)
  PROVE  /\ RemoveAt(s, n) = RemovedFrom(s, n)
         /\ RemoveAt(s, n) \in Seq(S) /\ Len(RemoveAt(s, n)) = Len(s) - 1
<1> DEFINE a == SubSeq(s, 1, n - 1)
           b == SubSeq(s, n + 1, Len(s))
           t == a \o b
<1>0. Len(s) \in Nat /\ n \in Nat
  OBVIOUS
<1>1. a \in Seq(S) /\ Len(a) = n - 1 /\ \A i \in 1..(n - 1) : a[i] = s[i]
  BY SubSeqProperties
<1>2. b \in Seq(S) /\ Len(b) = Len(s) - n /\ \A i \in 1..(Len(s) - n) : b[i] = s[n + i]
  <2>1. b \in Seq(S) /\ Len(b) = Len(s) - n /\ \A i \in 1..(Len(s) - n) : b[i] = s[n + 1 + i - 1]
    BY SubSeqProperties
  <2> QED
    BY <2>1
<1> HIDE DEF a, b
<1>3. t \in Seq(S) /\ Len(t) = Len(s) - 1
  <2>1. t \in Seq(S) /\ Len(t) = Len(a) + Len(b)
    BY <1>1, <1>2, ConcatProperties
  <2> HIDE DEF t
  <2> QED
    BY <1>0, <1>1, <1>2, <2>1
<1>4. \A i \in 1..(Len(s) - 1) : t[i] = IF i <= n - 1 THEN a[i] ELSE b[i - (n - 1)]
  BY <1>1, <1>2, ConcatProperties
<1> HIDE DEF t
<1>5. \A i \in 1..(Len(s) - 1) : t[i] = RemovedFrom(s, n)[i]
  BY <1>1, <1>2, <1>4 DEF RemovedFrom
<1>6. t = RemovedFrom(s, n)
  BY <1>3, <1>5 DEF RemovedFrom
<1> QED
  BY <1>3, <1>6 DEF t, a, b, RemoveAt

---------------------------------------------------------------------------
\* The stages of a walk: its result after n positions.
Appends(s, chosen, F) ==
  /\ F[0] = << >>
  /\ \A n \in 1..Len(s) : F[n] = IF n \in chosen THEN Append(F[n - 1], s[n]) ELSE F[n - 1]

LEMMA WalkHasStages ==
  ASSUME NEW S, NEW s \in Seq(S), NEW chosen
  PROVE  \E F \in [0..Len(s) -> Seq(S)] : Appends(s, chosen, F) /\ Walk(s, chosen) = F[Len(s)]
<1> DEFINE Stage(F, i) == IF i = 0 THEN << >>
                          ELSE IF i \in chosen THEN Append(F[i - 1], s[i]) ELSE F[i - 1]
           Exists(n) == \E F \in [0..n -> Seq(S)] : F = [i \in 0..n |-> Stage(F, i)]
           H == {n \in Nat : Exists(n)}
<1>1. 0 \in H
  <2> DEFINE F == [i \in 0..0 |-> << >>]
  <2>1. F \in [0..0 -> Seq(S)] /\ F = [i \in 0..0 |-> Stage(F, i)]
    OBVIOUS
  <2> QED
    BY <2>1
<1>2. ASSUME NEW n \in 1..Len(s), n - 1 \in H PROVE n \in H
  <2>1. PICK F \in [0..(n - 1) -> Seq(S)] : F = [i \in 0..(n - 1) |-> Stage(F, i)]
    BY <1>2
  <2> DEFINE G == [i \in 0..n |-> IF i = n THEN IF n \in chosen THEN Append(F[n - 1], s[n]) ELSE F[n - 1]
                                  ELSE F[i]]
  <2>2. G \in [0..n -> Seq(S)]
    <3>1. F[n - 1] \in Seq(S) /\ s[n] \in S
      BY <2>1
    <3>2. Append(F[n - 1], s[n]) \in Seq(S)
      BY <3>1
    <3> QED
      BY <3>1, <3>2
  <2>3. ASSUME NEW i \in 0..n PROVE G[i] = Stage(G, i)
    <3>1. CASE i = n
      <4>1. G[n - 1] = F[n - 1] /\ n # 0
        OBVIOUS
      <4> QED
        BY <3>1, <4>1
    <3>2. CASE i # n
      <4>1. i \in 0..(n - 1) /\ G[i] = F[i] /\ F[i] = Stage(F, i)
        <5>1. i \in 0..(n - 1) /\ G[i] = F[i]
          BY <3>2
        <5> HIDE DEF Stage, G
        <5> QED
          BY <2>1, <5>1
      <4>2. i # 0 => i - 1 \in 0..n /\ i - 1 # n /\ G[i - 1] = F[i - 1]
        BY <3>2
      <4> HIDE DEF G
      <4> QED
        BY <4>1, <4>2
    <3> QED
      BY <3>1, <3>2
  <2>4. G = [i \in 0..n |-> Stage(G, i)]
    <3> HIDE DEF Stage
    <3>1. G = [i \in 0..n |-> G[i]]
      BY <2>2
    <3> HIDE DEF G
    <3> QED
      BY <2>3, <3>1
  <2>5. Exists(n)
    <3> HIDE DEF G, Stage
    <3> QED
      BY <2>2, <2>4
  <2> HIDE DEF Exists
  <2> QED
    BY <2>5
<1>3. Len(s) \in Nat /\ H \in SUBSET Nat
  OBVIOUS
<1>4. Len(s) \in H
  <2> HIDE DEF H
  <2>1. 0..Len(s) \subseteq H
    BY <1>1, <1>2, <1>3, InductionUpTo
  <2> QED
    BY <1>3, <2>1
<1> DEFINE F == CHOOSE F : F = [i \in 0..Len(s) |-> Stage(F, i)]
<1>5. F = [i \in 0..Len(s) |-> Stage(F, i)]
  BY <1>4
<1>6. Walk(s, chosen) = F[Len(s)]
  BY DEF Walk
<1> HIDE DEF F
<1>7. Appends(s, chosen, F)
  <2>1. F[0] = << >>
    BY <1>5
  <2>2. ASSUME NEW n \in 1..Len(s)
        PROVE  F[n] = IF n \in chosen THEN Append(F[n - 1], s[n]) ELSE F[n - 1]
    <3>1. n \in 0..Len(s) /\ n # 0
      OBVIOUS
    <3> QED
      BY <1>5, <3>1
  <2> QED
    BY <2>1, <2>2 DEF Appends
<1>8. \A n \in 0..Len(s) : F[n] \in Seq(S)
  <2> DEFINE T == {n \in Nat : n \in 0..Len(s) => F[n] \in Seq(S)}
  <2>1. 0 \in T
    <3>1. F[0] \in Seq(S)
      BY <1>7 DEF Appends
    <3> QED
      BY <3>1
  <2>2. ASSUME NEW n \in 1..Len(s), n - 1 \in T PROVE n \in T
    <3>1. F[n - 1] \in Seq(S) /\ s[n] \in S
      BY <2>2
    <3>2. Append(F[n - 1], s[n]) \in Seq(S)
      BY <3>1
    <3>3. F[n] \in Seq(S)
      BY <1>7, <3>1, <3>2 DEF Appends
    <3> QED
      BY <3>3
  <2>3. T \in SUBSET Nat
    OBVIOUS
  <2>4. 0..Len(s) \subseteq T
    <3> HIDE DEF T
    <3> QED
      BY <1>3, <2>1, <2>2, <2>3, InductionUpTo
  <2> QED
    BY <2>4
<1>9. F \in [0..Len(s) -> Seq(S)]
  <2>1. DOMAIN F = 0..Len(s) /\ F = [i \in 0..Len(s) |-> F[i]]
    BY <1>5
  <2> QED
    BY <1>8, <2>1
<1> QED
  BY <1>6, <1>7, <1>9

\* A walk collects what is at the chosen positions, each once.
LEMMA WalkCollects ==
  ASSUME NEW S, NEW s \in Seq(S), NEW chosen \in SUBSET (DOMAIN s)
  PROVE  /\ Walk(s, chosen) \in Seq(S)
         /\ ToSet(Walk(s, chosen)) = {s[n] : n \in chosen}
         /\ IsFiniteSet(chosen) /\ Len(Walk(s, chosen)) = Cardinality(chosen)
<1>1. PICK F \in [0..Len(s) -> Seq(S)] : Appends(s, chosen, F) /\ Walk(s, chosen) = F[Len(s)]
  BY WalkHasStages
<1> DEFINE Up(n) == {m \in chosen : m <= n}
           Right(n) == /\ ToSet(F[n]) = {s[m] : m \in Up(n)}
                       /\ IsFiniteSet(Up(n)) /\ Len(F[n]) = Cardinality(Up(n))
           T == {n \in Nat : n \in 0..Len(s) => Right(n)}
<1>0. Len(s) \in Nat /\ DOMAIN s = 1..Len(s)
  OBVIOUS
<1>2. 0 \in T
  <2>1. Up(0) = {}
    BY <1>0
  <2>2. F[0] = << >>
    BY <1>1 DEF Appends
  <2>3. ToSet(<< >>) = {} /\ Len(<< >>) = 0
    BY DEF ToSet
  <2> HIDE DEF Up
  <2> QED
    BY <2>1, <2>2, <2>3, FS_EmptySet
<1>3. ASSUME NEW n \in 1..Len(s), n - 1 \in T PROVE n \in T
  <2>1. Right(n - 1) /\ F[n - 1] \in Seq(S) /\ n \in 0..Len(s)
    BY <1>0, <1>3
  <2>2. CASE n \in chosen
    <3>1. F[n] = Append(F[n - 1], s[n])
      BY <1>1, <2>2 DEF Appends
    <3>0. s[n] \in S
      BY <1>0
    <3>2. Up(n) = Up(n - 1) \cup {n} /\ n \notin Up(n - 1)
      BY <1>0, <2>2
    <3>3. ToSet(F[n]) = ToSet(F[n - 1]) \cup {s[n]} /\ Len(F[n]) = Len(F[n - 1]) + 1
      <4> DEFINE f == F[n - 1]
      <4>1. f \in Seq(S)
        BY <2>1
      <4> HIDE DEF f
      <4>2. Len(Append(f, s[n])) = Len(f) + 1 /\ DOMAIN f = 1..Len(f) /\ Len(f) \in Nat
            /\ DOMAIN Append(f, s[n]) = 1..(Len(f) + 1)
            /\ \A i \in 1..Len(f) : Append(f, s[n])[i] = f[i]
            /\ Append(f, s[n])[Len(f) + 1] = s[n]
        BY <3>0, <4>1
      <4>3. ToSet(Append(f, s[n])) = ToSet(f) \cup {s[n]}
        BY <4>2 DEF ToSet
      <4> QED
        BY <3>1, <4>2, <4>3 DEF f
    <3> HIDE DEF Up
    <3>4. IsFiniteSet(Up(n)) /\ Cardinality(Up(n)) = Cardinality(Up(n - 1)) + 1
      <4> DEFINE A == Up(n - 1)
      <4>1. IsFiniteSet(A) /\ Up(n) = A \cup {n} /\ n \notin A
        BY <2>1, <3>2
      <4> HIDE DEF A
      <4>2. IsFiniteSet(A \cup {n}) /\ Cardinality(A \cup {n}) = Cardinality(A) + 1
        BY <4>1, FS_AddElement
      <4> QED
        BY <4>1, <4>2 DEF A
    <3>5. {s[m] : m \in Up(n)} = {s[m] : m \in Up(n - 1)} \cup {s[n]}
      BY <3>2
    <3>6. Right(n)
      BY <2>1, <3>3, <3>4, <3>5
    <3> HIDE DEF Right
    <3> QED
      BY <3>6
  <2>3. CASE n \notin chosen
    <3>1. F[n] = F[n - 1]
      BY <1>1, <2>3 DEF Appends
    <3>2. Up(n) = Up(n - 1)
      BY <1>0, <2>3
    <3> HIDE DEF Up
    <3>3. Right(n)
      BY <2>1, <3>1, <3>2
    <3> HIDE DEF Right
    <3> QED
      BY <3>3
  <2> QED
    BY <2>2, <2>3
<1>4. T \in SUBSET Nat
  OBVIOUS
<1>5. Right(Len(s))
  <2>1. 0..Len(s) \subseteq T
    <3> HIDE DEF T
    <3> QED
      BY <1>0, <1>2, <1>3, <1>4, InductionUpTo
  <2>2. Len(s) \in T
    BY <1>0, <2>1
  <2> HIDE DEF Right
  <2> QED
    BY <1>0, <2>2
<1>6. Up(Len(s)) = chosen
  BY <1>0
<1>7. F[Len(s)] \in Seq(S)
  BY <1>0, <1>1
<1> HIDE DEF Up
<1> QED
  BY <1>1, <1>5, <1>6, <1>7

---------------------------------------------------------------------------
(* The invariant.                                                           *)

\* The store has what has been announced and not been removed.
StoreFollows == ToSet(store) = {i \in Items : status[i] \in {"listed", "gone"}}

\* Only a search binds the filtered store, and connects a handler that will bind the other.
SearchFollows ==
  /\ bound = "filtered" => filters /\ ~cancelled
  /\ crashed => bound = "filtered"

RowsFollow ==
  bound = "store" =>
    /\ Len(rows) = Len(store)
    /\ \A n \in 1..Len(store) : rows[n].item = store[n]
    /\ page = IF store = << >> THEN "empty" ELSE "listing"

CountFollows ==
  ~crashed /\ selecting /\ ~remade => count = Cardinality(Checked)

PanelInv ==
  /\ PanelTypeOK /\ StoreFollows /\ SearchFollows /\ RowsFollow /\ CountFollows
  /\ DeletesTheChecked

RowType == [item : Items, active : BOOLEAN]

\* The first position of i in the store, as RemoveItem finds it.
LEMMA FoundInStore ==
  ASSUME store \in Seq(Items), NEW i \in ToSet(store)
  PROVE  PositionOf(i) \in 1..Len(store) /\ store[PositionOf(i)] = i
<1> DEFINE I == {n \in 1..Len(store) : store[n] = i}
<1>1. I # {} /\ I \in SUBSET Nat
  BY DEF ToSet
<1>2. Min(I) \in I
  BY <1>1, Least DEF Min
<1>3. PositionOf(i) = Min(I)
  BY <1>1 DEF SelectInSeq, PositionOf
<1> QED
  BY <1>2, <1>3

\* Insertion at one place of store and rows.
LEMMA InsertedFollows ==
  ASSUME PanelInv, NEW i \in Items, status[i] = "new", NEW n \in 1..(Len(store) + 1)
  PROVE  /\ InsertAt(store, n, i) \in Seq(Items)
         /\ IsInjective(InsertAt(store, n, i))
         /\ ToSet(InsertAt(store, n, i)) = ToSet(store) \cup {i}
         /\ InsertAt(store, n, i) # << >>
         /\ bound = "store" =>
              LET r == InsertAt(rows, n, Row(i)) IN
              /\ r \in Seq(RowType) /\ Len(r) = Len(store) + 1
              /\ Len(InsertAt(store, n, i)) = Len(store) + 1
              /\ \A k \in 1..(Len(store) + 1) : r[k].item = InsertAt(store, n, i)[k]
              /\ {r[k].item : k \in {m \in DOMAIN r : r[m].active}} \subseteq Checked
<1> DEFINE s == InsertAt(store, n, i)
           r == InsertAt(rows, n, Row(i))
<1>1. store \in Seq(Items) /\ IsInjective(store) /\ rows \in Seq(RowType)
  BY DEF PanelInv, PanelTypeOK, RowType
<1>2. s = InsertedIn(store, n, i) /\ s \in Seq(Items) /\ Len(s) = Len(store) + 1
  BY <1>1, InsertAtIs
<1>3. i \notin ToSet(store) /\ Len(store) \in Nat /\ DOMAIN store = 1..Len(store)
  BY <1>1 DEF PanelInv, StoreFollows
<1>4. DOMAIN s = 1..(Len(store) + 1)
  BY <1>2
<1>5. \A k \in 1..(Len(store) + 1) :
        s[k] = IF k < n THEN store[k] ELSE IF k = n THEN i ELSE store[k - 1]
  BY <1>2 DEF InsertedIn
<1> HIDE DEF s
<1>6. \A k \in 1..Len(store) : store[k] # i
  BY <1>3 DEF ToSet
<1>7. IsInjective(s)
  <2>1. ASSUME NEW a \in DOMAIN s, NEW b \in DOMAIN s, s[a] = s[b] PROVE a = b
    <3>1. \A k, m \in 1..Len(store) : store[k] = store[m] => k = m
      BY <1>1, <1>3 DEF IsInjective
    <3> QED
      BY <1>3, <1>4, <1>5, <1>6, <2>1, <3>1
  <2> QED
    BY <2>1 DEF IsInjective
<1>8. ToSet(s) = ToSet(store) \cup {i}
  <2>1. ASSUME NEW x \in ToSet(s) PROVE x \in ToSet(store) \cup {i}
    BY <1>3, <1>4, <1>5 DEF ToSet
  <2>2. i \in ToSet(s)
    <3>1. n \in DOMAIN s /\ s[n] = i
      BY <1>3, <1>4, <1>5
    <3> QED
      BY <3>1 DEF ToSet
  <2>3. ASSUME NEW k \in 1..Len(store) PROVE store[k] \in ToSet(s)
    <3>1. CASE k < n
      <4>1. k \in DOMAIN s /\ s[k] = store[k]
        BY <1>3, <1>4, <1>5, <3>1
      <4> QED
        BY <4>1 DEF ToSet
    <3>2. CASE k >= n
      <4>1. k + 1 \in DOMAIN s /\ s[k + 1] = store[k]
        BY <1>3, <1>4, <1>5, <3>2
      <4> QED
        BY <4>1 DEF ToSet
    <3> QED
      BY <1>3, <3>1, <3>2
  <2> QED
    BY <1>3, <2>1, <2>2, <2>3 DEF ToSet
<1>9. s # << >>
  BY <1>2, <1>3
<1>10. ASSUME bound = "store"
       PROVE  /\ r \in Seq(RowType) /\ Len(r) = Len(store) + 1
              /\ \A k \in 1..(Len(store) + 1) : r[k].item = s[k]
              /\ {r[k].item : k \in {m \in DOMAIN r : r[m].active}} \subseteq Checked
  <2>1. Len(rows) = Len(store) /\ \A k \in 1..Len(store) : rows[k].item = store[k]
    BY <1>10 DEF PanelInv, RowsFollow
  <2>2. Row(i) \in RowType /\ Row(i).item = i /\ Row(i).active = FALSE
    BY DEF Row, RowType
  <2>3. r = InsertedIn(rows, n, Row(i)) /\ r \in Seq(RowType) /\ Len(r) = Len(store) + 1
    BY <1>1, <2>1, <2>2, InsertAtIs
  <2>4. \A k \in 1..(Len(store) + 1) :
          r[k] = IF k < n THEN rows[k] ELSE IF k = n THEN Row(i) ELSE rows[k - 1]
    BY <2>1, <2>3 DEF InsertedIn
  <2>5. DOMAIN r = 1..(Len(store) + 1) /\ DOMAIN rows = 1..Len(store)
    BY <1>1, <2>1, <2>3
  <2> HIDE DEF r
  <2>6. \A k \in 1..(Len(store) + 1) : r[k].item = s[k]
    BY <1>3, <1>5, <2>1, <2>2, <2>4
  <2>7. ASSUME NEW k \in DOMAIN r, r[k].active PROVE r[k].item \in Checked
    <3>1. CASE k < n
      <4>1. k \in DOMAIN rows /\ r[k] = rows[k]
        BY <1>3, <2>4, <2>5, <3>1
      <4> QED
        BY <2>7, <4>1 DEF Checked
    <3>2. CASE k > n
      <4>1. k - 1 \in DOMAIN rows /\ r[k] = rows[k - 1]
        BY <1>3, <2>4, <2>5, <3>2
      <4> QED
        BY <2>7, <4>1 DEF Checked
    <3>3. k # n
      BY <1>3, <2>2, <2>4, <2>5, <2>7
    <3> QED
      BY <1>3, <2>5, <3>1, <3>2, <3>3
  <2> QED
    BY <2>3, <2>6, <2>7
<1> QED
  BY <1>2, <1>7, <1>8, <1>9, <1>10 DEF s, r

LEMMA RemovedFollows ==
  ASSUME PanelInv, NEW n \in 1..Len(store)
  PROVE  /\ RemoveAt(store, n) \in Seq(Items)
         /\ IsInjective(RemoveAt(store, n))
         /\ ToSet(RemoveAt(store, n)) = ToSet(store) \ {store[n]}
         /\ bound = "store" =>
              LET r == RemoveAt(rows, n) IN
              /\ r \in Seq(RowType) /\ Len(r) = Len(store) - 1
              /\ Len(RemoveAt(store, n)) = Len(store) - 1
              /\ \A k \in 1..(Len(store) - 1) : r[k].item = RemoveAt(store, n)[k]
              /\ {r[k].item : k \in {m \in DOMAIN r : r[m].active}} \subseteq Checked
<1> DEFINE s == RemoveAt(store, n)
           r == RemoveAt(rows, n)
<1>1. store \in Seq(Items) /\ IsInjective(store) /\ rows \in Seq(RowType)
  BY DEF PanelInv, PanelTypeOK, RowType
<1>2. s = RemovedFrom(store, n) /\ s \in Seq(Items) /\ Len(s) = Len(store) - 1
  BY <1>1, RemoveAtIs
<1>3. Len(store) \in Nat /\ DOMAIN store = 1..Len(store) /\ n \in DOMAIN store
  BY <1>1
<1>4. DOMAIN s = 1..(Len(store) - 1)
  BY <1>2
<1>5. \A k \in 1..(Len(store) - 1) : s[k] = IF k < n THEN store[k] ELSE store[k + 1]
  BY <1>2 DEF RemovedFrom
<1> HIDE DEF s
<1>6. \A k, m \in 1..Len(store) : store[k] = store[m] => k = m
  BY <1>1, <1>3 DEF IsInjective
<1>7. IsInjective(s)
  <2>1. ASSUME NEW a \in DOMAIN s, NEW b \in DOMAIN s, s[a] = s[b] PROVE a = b
    BY <1>3, <1>4, <1>5, <1>6, <2>1
  <2> QED
    BY <2>1 DEF IsInjective
<1>8. ToSet(s) = ToSet(store) \ {store[n]}
  <2>1. ASSUME NEW k \in DOMAIN s PROVE s[k] \in ToSet(store) \ {store[n]}
    <3>1. CASE k < n
      <4>1. k \in DOMAIN store /\ s[k] = store[k] /\ k # n
        BY <1>3, <1>4, <1>5, <3>1
      <4> QED
        BY <1>3, <1>6, <4>1 DEF ToSet
    <3>2. CASE k >= n
      <4>1. k + 1 \in DOMAIN store /\ s[k] = store[k + 1] /\ k + 1 # n
        BY <1>3, <1>4, <1>5, <3>2
      <4> QED
        BY <1>3, <1>6, <4>1 DEF ToSet
    <3> QED
      BY <1>3, <1>4, <3>1, <3>2
  <2>2. ASSUME NEW k \in 1..Len(store), k # n PROVE store[k] \in ToSet(s)
    <3>1. CASE k < n
      <4>1. k \in DOMAIN s /\ s[k] = store[k]
        BY <1>3, <1>4, <1>5, <3>1
      <4> QED
        BY <4>1 DEF ToSet
    <3>2. CASE k > n
      <4>1. k - 1 \in DOMAIN s /\ s[k - 1] = store[k]
        BY <1>3, <1>4, <1>5, <3>2
      <4> QED
        BY <4>1 DEF ToSet
    <3> QED
      BY <1>3, <2>2, <3>1, <3>2
  <2> QED
    BY <1>3, <2>1, <2>2 DEF ToSet
<1>9. ASSUME bound = "store"
      PROVE  /\ r \in Seq(RowType) /\ Len(r) = Len(store) - 1
             /\ \A k \in 1..(Len(store) - 1) : r[k].item = s[k]
             /\ {r[k].item : k \in {m \in DOMAIN r : r[m].active}} \subseteq Checked
  <2>1. Len(rows) = Len(store) /\ \A k \in 1..Len(store) : rows[k].item = store[k]
    BY <1>9 DEF PanelInv, RowsFollow
  <2>2. r = RemovedFrom(rows, n) /\ r \in Seq(RowType) /\ Len(r) = Len(store) - 1
    BY <1>1, <2>1, RemoveAtIs
  <2>3. \A k \in 1..(Len(store) - 1) : r[k] = IF k < n THEN rows[k] ELSE rows[k + 1]
    BY <2>1, <2>2 DEF RemovedFrom
  <2>4. DOMAIN r = 1..(Len(store) - 1) /\ DOMAIN rows = 1..Len(store)
    BY <1>1, <2>1, <2>2
  <2> HIDE DEF r
  <2>5. ASSUME NEW k \in 1..(Len(store) - 1) PROVE r[k].item = s[k]
    <3>1. k \in 1..Len(store) /\ k + 1 \in 1..Len(store)
      BY <1>3
    <3>2. r[k] = (IF k < n THEN rows[k] ELSE rows[k + 1])
          /\ s[k] = (IF k < n THEN store[k] ELSE store[k + 1])
      BY <1>5, <2>3
    <3> QED
      BY <2>1, <3>1, <3>2
  <2>6. ASSUME NEW k \in DOMAIN r, r[k].active PROVE r[k].item \in Checked
    <3>1. CASE k < n
      <4>1. k \in DOMAIN rows /\ r[k] = rows[k]
        BY <1>3, <2>3, <2>4, <3>1
      <4> QED
        BY <2>6, <4>1 DEF Checked
    <3>2. CASE k >= n
      <4>1. k + 1 \in DOMAIN rows /\ r[k] = rows[k + 1]
        BY <1>3, <2>3, <2>4, <3>2
      <4> QED
        BY <2>6, <4>1 DEF Checked
    <3> QED
      BY <1>3, <2>4, <3>1, <3>2
  <2> QED
    BY <2>2, <2>5, <2>6
<1> QED
  BY <1>2, <1>7, <1>8, <1>9 DEF s, r

ActiveIn(r) == {r[n].item : n \in {m \in DOMAIN r : r[m].active}}

LEMMA RowsAreEntries ==
  ASSUME PanelInv
  PROVE  /\ rows \in Seq(RowType) /\ DOMAIN rows = 1..Len(rows) /\ Len(rows) \in Nat
         /\ \A k \in DOMAIN rows : rows[k] \in RowType
<1>1. rows \in Seq(RowType)
  BY DEF PanelInv, PanelTypeOK, RowType
<1> QED
  BY <1>1

\* Rows that are shown anew and lose no check mark leave the same items checked.
LEMMA ShowCounts ==
  ASSUME PanelInv, NEW r \in Seq(RowType), ActiveIn(r) \subseteq Checked, Show(r)
  PROVE  /\ rows' = r /\ remade' \in BOOLEAN
         /\ ~remade' => ~remade /\ Checked' = Checked
<1>1. rows' = r /\ remade' \in BOOLEAN
  BY DEF Show, PanelInv, PanelTypeOK
<1>2. ASSUME ~remade' PROVE ~remade /\ Checked' = Checked
  <2>1. ~remade /\ \A i \in Checked : \E n \in DOMAIN r : r[n] = [item |-> i, active |-> TRUE]
    BY <1>2 DEF Show
  <2>2. Checked \subseteq ActiveIn(r)
    <3> SUFFICES ASSUME NEW i \in Checked PROVE i \in ActiveIn(r)
      OBVIOUS
    <3>1. PICK n \in DOMAIN r : r[n] = [item |-> i, active |-> TRUE]
      BY <2>1
    <3>2. r[n].item = i /\ r[n].active
      BY <3>1
    <3> QED
      BY <3>2 DEF ActiveIn
  <2> QED
    BY <1>1, <2>1, <2>2 DEF Checked, ActiveIn
<1> QED
  BY <1>1, <1>2

\* Rows made anew are not checked.
LEMMA FreshRows ==
  ASSUME NEW s \in Seq(Items)
  PROVE  /\ RowsOf(s) \in Seq(RowType) /\ Len(RowsOf(s)) = Len(s)
         /\ \A n \in 1..Len(s) : RowsOf(s)[n].item = s[n]
         /\ ActiveIn(RowsOf(s)) = {}
<1>1. DOMAIN s = 1..Len(s) /\ \A n \in 1..Len(s) : s[n] \in Items
  OBVIOUS
<1>2. RowsOf(s) \in Seq(RowType) /\ Len(RowsOf(s)) = Len(s)
      /\ DOMAIN RowsOf(s) = 1..Len(s)
  BY <1>1 DEF RowsOf, Row, RowType
<1>3. \A n \in 1..Len(s) : RowsOf(s)[n].item = s[n] /\ RowsOf(s)[n].active = FALSE
  BY <1>1 DEF RowsOf, Row
<1> QED
  BY <1>2, <1>3 DEF ActiveIn

\* The window counts the check marks, if the list shows the store.
LEMMA RecountCounts ==
  ASSUME PanelInv, ~crashed, NEW r \in Seq(RowType), Len(r) = Len(rows),
         \A n \in 1..Len(rows) : r[n].item = rows[n].item, Recount(r)
  PROVE  /\ rows' = r /\ remade' \in BOOLEAN /\ crashed' \in BOOLEAN /\ count' \in Nat
         /\ crashed' => bound = "filtered"
         /\ ~crashed' /\ ~remade' => count' = Cardinality(Checked')
<1> DEFINE P == {n \in DOMAIN store : r[n].active}
<1>1. store \in Seq(Items) /\ IsInjective(store) /\ DOMAIN store = 1..Len(store)
  BY DEF PanelInv, PanelTypeOK
<1>2. rows' = r /\ Len(rows) \in Nat /\ DOMAIN r = 1..Len(rows) /\ count \in Nat
      /\ remade \in BOOLEAN
  BY DEF Recount, PanelInv, PanelTypeOK, RowType
<1>3. P \in SUBSET (DOMAIN store)
  OBVIOUS
<1>4. /\ IsFiniteSet(P) /\ Cardinality(P) \in Nat
      /\ Len(SelectedItems(r)) = Cardinality(P)
  BY <1>1, <1>3, WalkCollects, FS_CardinalityType DEF SelectedItems
<1>5. CASE MissingRow(r)
  <2>1. bound = "filtered"
    <3>1. bound = "store" => Len(rows) = Len(store)
      BY DEF PanelInv, RowsFollow
    <3>2. Len(rows) < Len(store) /\ Len(store) \in Nat
      BY <1>1, <1>5 DEF MissingRow
    <3> QED
      BY <1>2, <3>1, <3>2 DEF PanelInv, PanelTypeOK
  <2> QED
    BY <1>2, <1>5, <2>1 DEF Recount
<1>6. CASE ~MissingRow(r)
  <2>1. /\ count' = Cardinality(P) /\ remade' = (bound = "filtered") /\ crashed' = crashed
    BY <1>4, <1>6 DEF Recount
  <2>2. ASSUME ~remade' PROVE Cardinality(Checked') = Cardinality(P)
    <3>1. bound = "store"
      BY <2>1, <2>2 DEF PanelInv, PanelTypeOK
    <3>2. Len(rows) = Len(store) /\ \A n \in 1..Len(store) : r[n].item = store[n]
      BY <3>1 DEF PanelInv, RowsFollow
    <3>3. Checked' = {store[n] : n \in P}
      BY <1>1, <1>2, <3>2 DEF Checked
    <3> DEFINE f == [n \in P |-> store[n]]
    <3>4. f \in [P -> Checked'] /\ \A a, b \in P : f[a] = f[b] => a = b
      BY <1>1, <3>3 DEF IsInjective
    <3>5. \A t \in Checked' : \E a \in P : f[a] = t
      BY <3>3
    <3> HIDE DEF f
    <3>6. f \in Bijection(P, Checked')
      BY <3>4, <3>5, Fun_IsBij
    <3> QED
      BY <1>4, <3>6, FS_Bijection DEF ExistsBijection
  <2>3. remade' \in BOOLEAN /\ crashed' = FALSE
    BY <2>1 DEF PanelInv, PanelTypeOK
  <2>4. count' \in Nat /\ (~remade' => count' = Cardinality(Checked'))
    BY <1>4, <2>1, <2>2
  <2> QED
    BY <1>2, <2>3, <2>4
<1> QED
  BY <1>5, <1>6

\* What is deleted is what was checked, if the list shows the store.
LEMMA SelectedAreChecked ==
  ASSUME PanelInv
  PROVE  /\ SelectedItems(rows) \in Seq(Items) /\ Checked \in SUBSET Items
         /\ bound = "store" => /\ ~MissingRow(rows)
                               /\ ToSet(SelectedItems(rows)) \subseteq Checked
<1>1. store \in Seq(Items) /\ DOMAIN store = 1..Len(store) /\ rows \in Seq(RowType)
      /\ DOMAIN rows = 1..Len(rows)
  BY DEF PanelInv, PanelTypeOK, RowType
<1> DEFINE P == {n \in DOMAIN store : rows[n].active}
<1>2. SelectedItems(rows) \in Seq(Items)
      /\ ToSet(SelectedItems(rows)) = {store[n] : n \in P}
  <2>1. P \in SUBSET (DOMAIN store)
    OBVIOUS
  <2> QED
    BY <1>1, <2>1, WalkCollects DEF SelectedItems
<1>3. Checked \in SUBSET Items
  <2>1. \A n \in DOMAIN rows : rows[n] \in RowType
    BY <1>1
  <2>2. \A n \in DOMAIN rows : rows[n].item \in Items
    BY <2>1 DEF RowType
  <2> QED
    BY <2>2 DEF Checked
<1>4. ASSUME bound = "store" PROVE ~MissingRow(rows) /\ {store[n] : n \in P} \subseteq Checked
  BY <1>1, <1>4 DEF PanelInv, RowsFollow, MissingRow, Checked
<1> QED
  BY <1>2, <1>3, <1>4

---------------------------------------------------------------------------
(* The steps.                                                               *)

LEMMA InitInvariant == PanelInit => PanelInv
<1> SUFFICES ASSUME PanelInit PROVE PanelInv
  OBVIOUS
<1>1. store \in [1..Cardinality(InitialItems) -> InitialItems] /\ IsInjective(store)
      /\ Cardinality(InitialItems) \in Nat
  <2>1. ExistsBijection(1..Cardinality(InitialItems), InitialItems)
        /\ Cardinality(InitialItems) \in Nat
    BY PanelAssumption, FS_CardinalityType
  <2>2. \E f \in [1..Cardinality(InitialItems) -> InitialItems] : IsInjective(f)
    BY <2>1 DEF ExistsBijection, Bijection, Injection, IsInjective
  <2> QED
    BY <2>1, <2>2 DEF PanelInit, SetToSeq
<1>2. ToSet(store) = InitialItems
  <2> DEFINE n == Cardinality(InitialItems)
  <2>1. ToSet(store) \subseteq InitialItems
    BY <1>1 DEF ToSet
  <2>2. IsFiniteSet(1..n) /\ Cardinality(1..n) = n
    BY <1>1, FS_Interval
  <2>3. store \in Injection(1..n, InitialItems)
    BY <1>1 DEF Injection, IsInjective
  <2>4. store \in [1..n -> ToSet(store)] /\ \A t \in ToSet(store) : \E k \in 1..n : store[k] = t
    BY <1>1 DEF ToSet
  <2>5. \A a, b \in 1..n : store[a] = store[b] => a = b
    BY <1>1 DEF IsInjective
  <2>6. store \in Bijection(1..n, ToSet(store))
    <3> HIDE DEF n
    <3> QED
      BY <2>4, <2>5, Fun_IsBij
  <2>7. Cardinality(ToSet(store)) = n
    BY <2>2, <2>6, FS_Bijection DEF ExistsBijection
  <2> QED
    BY <2>1, <2>7, PanelAssumption, FS_Subset
<1>3. store \in Seq(Items)
  BY <1>1, PanelAssumption
<1>4. rows \in Seq(RowType) /\ Len(rows) = Len(store) /\ (\A n \in 1..Len(store) : rows[n].item = store[n])
  BY <1>3, FreshRows DEF PanelInit
<1>5. PanelTypeOK
  <2>1. NoDelete \in [busy : BOOLEAN, queue : Seq(Items), checked : SUBSET Items,
                      filtered : BOOLEAN]
    BY DEF NoDelete
  <2>2. status \in [Items -> {"new", "listed", "gone", "removed"}]
        /\ page \in {"empty", "listing", "unavailable"} /\ changes \in 0..MaxChanges
    BY PanelAssumption DEF PanelInit
  <2>3. {filters, cancelled, selecting, crashed, remade} \subseteq BOOLEAN
        /\ bound \in {"store", "filtered"} /\ count \in Nat /\ deleting = NoDelete
    BY DEF PanelInit
  <2> QED
    BY <1>1, <1>3, <1>4, <2>1, <2>2, <2>3 DEF PanelTypeOK, RowType
<1>6. StoreFollows
  BY <1>2, PanelAssumption DEF PanelInit, StoreFollows
<1>7. ToSet(NoDelete.queue) \subseteq NoDelete.checked
  BY DEF NoDelete, ToSet
<1> QED
  BY <1>4, <1>5, <1>6, <1>7
  DEF PanelInit, PanelInv, SearchFollows, RowsFollow, CountFollows, DeletesTheChecked, NoDelete

LEMMA AddKeeps ==
  ASSUME PanelInv, NEW i \in Items, ItemAdded(i)
  PROVE  PanelInv'
<1>1. PICK n \in 1..(Len(store) + 1) :
        /\ store' = InsertAt(store, n, i)
        /\ IF bound = "store" THEN Show(InsertAt(rows, n, Row(i)))
           ELSE UNCHANGED <<rows, remade>>
  BY DEF ItemAdded
<1>2. status[i] = "new" /\ ~crashed /\ status' = [status EXCEPT ![i] = "listed"]
      /\ UNCHANGED <<bound, filters, cancelled, selecting, count, deleting, crashed, changes>>
      /\ page' = IF store' = << >> THEN "empty" ELSE "listing"
  BY DEF ItemAdded, Announced, SyncVisibleChild
<1>3. /\ store' \in Seq(Items) /\ IsInjective(store')
      /\ ToSet(store') = ToSet(store) \cup {i}
      /\ store' # << >>
  BY <1>1, <1>2, InsertedFollows
<1>4. /\ rows' \in Seq(RowType) /\ remade' \in BOOLEAN
      /\ ~remade' => ~remade /\ Checked' = Checked
      /\ bound = "store" => /\ Len(rows') = Len(store')
                            /\ \A k \in 1..Len(store') : rows'[k].item = store'[k]
  <2>1. CASE bound = "store"
    <3> DEFINE r == InsertAt(rows, n, Row(i))
    <3>1. /\ r \in Seq(RowType) /\ Len(r) = Len(store) + 1 /\ Len(store') = Len(store) + 1
          /\ \A k \in 1..(Len(store) + 1) : r[k].item = store'[k]
          /\ ActiveIn(r) \subseteq Checked
      BY <1>1, <1>2, <2>1, InsertedFollows DEF ActiveIn
    <3>2. Show(r)
      BY <1>1, <2>1
    <3> HIDE DEF r
    <3> QED
      BY <3>1, <3>2, ShowCounts
  <2>2. CASE bound # "store"
    BY <1>1, <2>2 DEF PanelInv, PanelTypeOK, RowType, Checked
  <2> QED
    BY <2>1, <2>2
<1>5. PanelTypeOK'
  BY <1>2, <1>3, <1>4 DEF PanelInv, PanelTypeOK, RowType
<1>6. StoreFollows'
  BY <1>2, <1>3 DEF PanelInv, PanelTypeOK, StoreFollows
<1>7. RowsFollow' /\ SearchFollows' /\ CountFollows' /\ DeletesTheChecked'
  BY <1>2, <1>4 DEF PanelInv, RowsFollow, SearchFollows, CountFollows, DeletesTheChecked
<1> QED
  BY <1>5, <1>6, <1>7 DEF PanelInv

\* What an item's removal leaves, of everything but the deletion under way.
Rest == PanelTypeOK /\ StoreFollows /\ SearchFollows /\ RowsFollow /\ CountFollows

LEMMA RemoveKeeps ==
  ASSUME PanelInv, ~crashed, NEW i \in Items, status[i] \in {"listed", "gone"}, RemoveItem(i),
         UNCHANGED <<bound, filters, cancelled, selecting, count, crashed, changes>>,
         deleting' \in [busy : BOOLEAN, queue : Seq(Items), checked : SUBSET Items,
                        filtered : BOOLEAN]
  PROVE  Rest'
<1> DEFINE n == PositionOf(i)
<1>1. n \in 1..Len(store) /\ store[n] = i
  BY FoundInStore DEF PanelInv, PanelTypeOK, StoreFollows
<1>2. /\ store' = RemoveAt(store, n)
      /\ IF bound = "store" THEN Show(RemoveAt(rows, n)) ELSE UNCHANGED <<rows, remade>>
      /\ page' = IF store' = << >> THEN "empty" ELSE "listing"
      /\ status' = [status EXCEPT ![i] = "removed"]
  BY DEF RemoveItem, SyncVisibleChild
<1> HIDE DEF n
<1>3. /\ store' \in Seq(Items) /\ IsInjective(store')
      /\ ToSet(store') = ToSet(store) \ {i}
  BY <1>1, <1>2, RemovedFollows
<1>4. /\ rows' \in Seq(RowType) /\ remade' \in BOOLEAN
      /\ ~remade' => ~remade /\ Checked' = Checked
      /\ bound = "store" => /\ Len(rows') = Len(store')
                            /\ \A k \in 1..Len(store') : rows'[k].item = store'[k]
  <2>1. CASE bound = "store"
    <3> DEFINE r == RemoveAt(rows, n)
    <3>1. /\ r \in Seq(RowType) /\ Len(r) = Len(store) - 1 /\ Len(store') = Len(store) - 1
          /\ \A k \in 1..(Len(store) - 1) : r[k].item = store'[k]
          /\ ActiveIn(r) \subseteq Checked
      BY <1>1, <1>2, <2>1, RemovedFollows DEF ActiveIn
    <3>2. Show(r)
      BY <1>2, <2>1
    <3> HIDE DEF r
    <3> QED
      BY <3>1, <3>2, ShowCounts
  <2>2. CASE bound # "store"
    BY <1>2, <2>2 DEF PanelInv, PanelTypeOK, RowType, Checked
  <2> QED
    BY <2>1, <2>2
<1>5. PanelTypeOK'
  BY <1>2, <1>3, <1>4 DEF PanelInv, PanelTypeOK, RowType
<1>6. StoreFollows'
  BY <1>2, <1>3 DEF PanelInv, PanelTypeOK, StoreFollows
<1>7. RowsFollow' /\ SearchFollows' /\ CountFollows'
  BY <1>2, <1>4 DEF PanelInv, RowsFollow, SearchFollows, CountFollows
<1> QED
  BY <1>5, <1>6, <1>7 DEF Rest

LEMMA VanishKeeps ==
  ASSUME PanelInv, NEW i \in Items, ItemVanishes(i)
  PROVE  PanelInv'
<1>1. status[i] = "listed" /\ status' = [status EXCEPT ![i] = "gone"] /\ changes' \in 0..MaxChanges
      /\ UNCHANGED <<store, rows, bound, page, filters, cancelled, selecting, count, deleting,
                     crashed, remade>>
  BY PanelAssumption DEF ItemVanishes, Change, PanelInv, PanelTypeOK
<1>2. PanelTypeOK'
  BY <1>1 DEF PanelInv, PanelTypeOK
<1>3. StoreFollows'
  BY <1>1 DEF PanelInv, PanelTypeOK, StoreFollows
<1>4. RowsFollow' /\ SearchFollows' /\ CountFollows' /\ DeletesTheChecked'
  BY <1>1 DEF PanelInv, RowsFollow, SearchFollows, CountFollows, DeletesTheChecked, Checked
<1> QED
  BY <1>2, <1>3, <1>4 DEF PanelInv

\* The rows are shown anew from a part of the store; nothing else changes but what the
\* search needs.
LEMMA ShowKeeps ==
  ASSUME PanelInv, NEW r \in Seq(RowType), ActiveIn(r) \subseteq Checked, Show(r),
         UNCHANGED <<status, store, selecting, count, deleting, crashed>>,
         bound' \in {"store", "filtered"}, page' \in {"empty", "listing", "unavailable"},
         filters' \in BOOLEAN, cancelled' \in BOOLEAN, changes' \in 0..MaxChanges
  PROVE  PanelTypeOK' /\ StoreFollows' /\ CountFollows' /\ DeletesTheChecked' /\ rows' = r
<1>1. rows' = r /\ remade' \in BOOLEAN /\ (~remade' => ~remade /\ Checked' = Checked)
  BY ShowCounts
<1>2. PanelTypeOK'
  BY <1>1 DEF PanelInv, PanelTypeOK, RowType
<1>3. StoreFollows'
  BY DEF PanelInv, StoreFollows
<1>4. CountFollows' /\ DeletesTheChecked'
  BY <1>1 DEF PanelInv, CountFollows, DeletesTheChecked
<1> QED
  BY <1>1, <1>2, <1>3, <1>4

LEMMA ChangeKeeps ==
  ASSUME PanelInv, NEW i \in Items, ItemChanged(i)
  PROVE  PanelInv'
<1> DEFINE r == [n \in DOMAIN rows |-> IF rows[n].item = i THEN Row(i) ELSE rows[n]]
<1>1. bound = "store" /\ Show(r) /\ changes' \in 0..MaxChanges
      /\ UNCHANGED <<status, store, bound, page, filters, cancelled, selecting, count,
                     deleting, crashed>>
  BY PanelAssumption DEF ItemChanged, Change, PanelInv, PanelTypeOK
<1>2. rows \in Seq(RowType) /\ DOMAIN rows = 1..Len(rows) /\ Len(rows) \in Nat
      /\ \A n \in DOMAIN rows : rows[n] \in RowType
  BY RowsAreEntries
<1>3. Row(i) \in RowType /\ Row(i).item = i /\ Row(i).active = FALSE
  BY DEF Row, RowType
<1>4. r \in Seq(RowType) /\ Len(r) = Len(rows) /\ DOMAIN r = DOMAIN rows
  <2>1. r \in [1..Len(rows) -> RowType]
    BY <1>2, <1>3
  <2> QED
    BY <1>2, <2>1
<1>5. \A n \in DOMAIN rows : r[n].item = rows[n].item /\ (r[n].active => rows[n].active)
  BY <1>3
<1> HIDE DEF r
<1>6. ActiveIn(r) \subseteq Checked
  BY <1>4, <1>5 DEF ActiveIn, Checked
<1>7. filters \in BOOLEAN /\ cancelled \in BOOLEAN /\ page \in {"empty", "listing", "unavailable"}
  BY DEF PanelInv, PanelTypeOK
<1>8. PanelTypeOK' /\ StoreFollows' /\ CountFollows' /\ DeletesTheChecked' /\ rows' = r
  BY <1>1, <1>4, <1>6, <1>7, ShowKeeps
<1>9. RowsFollow'
  BY <1>1, <1>2, <1>4, <1>5, <1>8 DEF PanelInv, RowsFollow
<1>10. SearchFollows'
  BY <1>1 DEF PanelInv, SearchFollows
<1> QED
  BY <1>8, <1>9, <1>10 DEF PanelInv

\* The store is bound again, or was bound all the time.
LEMMA RebindKeeps ==
  ASSUME PanelInv, ~crashed, NEW c \in BOOLEAN, cancelled' = c,
         IF RebindsStore THEN Rebind ELSE UNCHANGED <<bound, rows, remade, page>>,
         UNCHANGED <<status, store, filters, selecting, count, deleting, crashed, changes>>
  PROVE  PanelInv'
<1>1. store \in Seq(Items) /\ filters \in BOOLEAN /\ changes \in 0..MaxChanges
      /\ bound \in {"store", "filtered"}
  BY DEF PanelInv, PanelTypeOK
<1>2. CASE RebindsStore
  <2> DEFINE r == RowsOf(store)
  <2>1. bound' = "store" /\ Show(r) /\ page' = IF store = << >> THEN "empty" ELSE "listing"
    BY <1>2 DEF Rebind, SyncVisibleChild
  <2>2. /\ r \in Seq(RowType) /\ Len(r) = Len(store)
        /\ \A n \in 1..Len(store) : r[n].item = store[n]
        /\ ActiveIn(r) \subseteq Checked
    BY <1>1, FreshRows
  <2> HIDE DEF r
  <2>3. PanelTypeOK' /\ StoreFollows' /\ CountFollows' /\ DeletesTheChecked' /\ rows' = r
    BY <1>1, <2>1, <2>2, ShowKeeps
  <2>4. RowsFollow' /\ SearchFollows'
    BY <2>1, <2>2, <2>3 DEF RowsFollow, SearchFollows
  <2> QED
    BY <2>3, <2>4 DEF PanelInv
<1>3. CASE ~RebindsStore
  <2>1. bound = "store"
    BY <1>1, <1>3 DEF PanelInv, SearchFollows, RebindsStore
  <2>2. PanelTypeOK'
    BY <1>3 DEF PanelInv, PanelTypeOK
  <2>3. StoreFollows'
    BY DEF PanelInv, StoreFollows
  <2>4. RowsFollow' /\ SearchFollows' /\ CountFollows' /\ DeletesTheChecked'
    BY <1>3, <2>1 DEF PanelInv, RowsFollow, SearchFollows, CountFollows,
      DeletesTheChecked, Checked
  <2> QED
    BY <2>2, <2>3, <2>4 DEF PanelInv
<1> QED
  BY <1>2, <1>3

LEMMA FilterKeeps ==
  ASSUME PanelInv, FilterItems
  PROVE  PanelInv'
<1>1. PICK found \in SUBSET (DOMAIN store) :
        /\ Show(RowsOf(Walk(store, found)))
        /\ page' = IF found = {} THEN "unavailable" ELSE "listing"
  BY DEF FilterItems
<1>2. store \in Seq(Items)
  BY DEF PanelInv, PanelTypeOK
<1>3. Walk(store, found) \in Seq(Items)
  BY <1>2, WalkCollects
<1>4. /\ cancelled' = FALSE /\ filters' = TRUE /\ bound' = "filtered" /\ changes' \in 0..MaxChanges
      /\ UNCHANGED <<status, store, selecting, count, deleting, crashed>>
  BY PanelAssumption DEF FilterItems, Change, PanelInv, PanelTypeOK
<1>5. PanelTypeOK' /\ StoreFollows' /\ CountFollows' /\ DeletesTheChecked'
  BY <1>1, <1>3, <1>4, FreshRows, ShowKeeps
<1>6. RowsFollow' /\ SearchFollows'
  BY <1>4 DEF RowsFollow, SearchFollows
<1> QED
  BY <1>5, <1>6 DEF PanelInv

\* What only changes check marks and counts them.
LEMMA RecountKeeps ==
  ASSUME PanelInv, ~crashed, NEW r \in Seq(RowType), Len(r) = Len(rows),
         \A n \in 1..Len(rows) : r[n].item = rows[n].item, Recount(r),
         selecting' \in BOOLEAN,
         UNCHANGED <<status, store, bound, page, filters, cancelled, deleting, changes>>
  PROVE  PanelInv'
<1>1. /\ rows' = r /\ remade' \in BOOLEAN /\ crashed' \in BOOLEAN /\ count' \in Nat
      /\ crashed' => bound = "filtered"
      /\ ~crashed' /\ ~remade' => count' = Cardinality(Checked')
  BY RecountCounts
<1>2. PanelTypeOK'
  BY <1>1 DEF PanelInv, PanelTypeOK, RowType
<1>3. StoreFollows'
  BY DEF PanelInv, StoreFollows
<1>4. RowsFollow'
  BY <1>1 DEF PanelInv, RowsFollow
<1>5. SearchFollows' /\ CountFollows' /\ DeletesTheChecked'
  BY <1>1 DEF PanelInv, SearchFollows, CountFollows, DeletesTheChecked
<1> QED
  BY <1>2, <1>3, <1>4, <1>5 DEF PanelInv

LEMMA ToggleKeeps ==
  ASSUME PanelInv, Toggle
  PROVE  PanelInv'
<1>1. PICK n \in DOMAIN rows : Recount([rows EXCEPT ![n].active = ~@])
  BY DEF Toggle
<1> DEFINE r == [rows EXCEPT ![n].active = ~@]
<1>2. rows \in Seq(RowType) /\ DOMAIN rows = 1..Len(rows) /\ Len(rows) \in Nat
      /\ \A k \in DOMAIN rows : rows[k] \in RowType
  BY RowsAreEntries
<1>3. \A k \in DOMAIN rows : r[k] \in RowType /\ r[k].item = rows[k].item
  BY <1>2 DEF RowType
<1>4. DOMAIN r = DOMAIN rows /\ r = [k \in DOMAIN rows |-> r[k]]
  BY <1>2
<1> HIDE DEF r
<1>5. r \in [1..Len(rows) -> RowType]
  BY <1>2, <1>3, <1>4
<1>6. r \in Seq(RowType) /\ Len(r) = Len(rows)
  BY <1>2, <1>5
<1>7. ~crashed /\ selecting' \in BOOLEAN
      /\ UNCHANGED <<status, store, bound, page, filters, cancelled, deleting, changes>>
  BY DEF Toggle, PanelInv, PanelTypeOK
<1>8. Recount(r)
  BY <1>1 DEF r
<1> QED
  BY <1>2, <1>3, <1>6, <1>7, <1>8, RecountKeeps

LEMMA SelectAllKeeps ==
  ASSUME PanelInv, NEW active \in BOOLEAN, SelectAll(active)
  PROVE  PanelInv'
<1> DEFINE r == [n \in DOMAIN rows |-> IF n <= Len(store) THEN [rows[n] EXCEPT !.active = active]
                                       ELSE rows[n]]
<1>1. \/ UNCHANGED <<rows, count, crashed, remade>>
      \/ Recount(r)
  BY DEF SelectAll
<1>2. rows \in Seq(RowType) /\ DOMAIN rows = 1..Len(rows) /\ Len(rows) \in Nat
      /\ \A k \in DOMAIN rows : rows[k] \in RowType
  BY RowsAreEntries
<1>3. \A k \in DOMAIN rows : r[k] \in RowType /\ r[k].item = rows[k].item
  BY <1>2 DEF RowType
<1>4. r \in [1..Len(rows) -> RowType]
  <2>1. DOMAIN r = DOMAIN rows /\ r = [k \in DOMAIN rows |-> r[k]]
    OBVIOUS
  <2> HIDE DEF r
  <2> QED
    BY <1>2, <1>3, <2>1
<1> HIDE DEF r
<1>5. r \in Seq(RowType) /\ Len(r) = Len(rows)
  BY <1>2, <1>4
<1>6. ~crashed /\ selecting' \in BOOLEAN /\ selecting' = selecting
      /\ UNCHANGED <<status, store, bound, page, filters, cancelled, deleting, changes>>
  BY DEF SelectAll, PanelInv, PanelTypeOK
<1>7. CASE Recount(r)
  BY <1>2, <1>3, <1>5, <1>6, <1>7, RecountKeeps
<1>8. CASE UNCHANGED <<rows, count, crashed, remade>>
  <2>1. UNCHANGED panelVars
    BY <1>6, <1>8 DEF panelVars
  <2> QED
    BY <2>1 DEF panelVars, PanelInv, PanelTypeOK, StoreFollows, SearchFollows, RowsFollow, CountFollows,
                DeletesTheChecked, Checked
<1> QED
  BY <1>1, <1>7, <1>8

LEMMA SetSelectionModeKeeps ==
  ASSUME PanelInv, SetSelectionMode
  PROVE  PanelInv'
<1>1. rows \in Seq(RowType) /\ DOMAIN rows = 1..Len(rows) /\ Len(rows) \in Nat
      /\ \A k \in DOMAIN rows : rows[k] \in RowType
  BY RowsAreEntries
<1>2. ~crashed /\ selecting' \in BOOLEAN
      /\ UNCHANGED <<status, store, bound, page, filters, cancelled, deleting, changes>>
  BY DEF SetSelectionMode, PanelInv, PanelTypeOK
<1>3. Unchecked \in [1..Len(rows) -> RowType]
      /\ \A k \in 1..Len(rows) : Unchecked[k].item = rows[k].item
  BY <1>1 DEF Unchecked, Row, RowType
<1>4. Unchecked \in Seq(RowType) /\ Len(Unchecked) = Len(rows)
  BY <1>1, <1>3
<1>5. Recount(Unchecked) \/ Recount(rows)
  BY DEF SetSelectionMode
<1>6. CASE Recount(Unchecked)
  BY <1>2, <1>3, <1>4, <1>6, RecountKeeps
<1>7. CASE Recount(rows)
  BY <1>1, <1>2, <1>7, RecountKeeps
<1> QED
  BY <1>5, <1>6, <1>7

\* Steps of the deletion that leave list and store alone.
LEMMA DeletionKeeps ==
  ASSUME PanelInv, UNCHANGED <<status, store, rows, bound, page, filters, cancelled, selecting, count,
                           remade, changes>>,
         crashed' \in BOOLEAN, crashed' => bound = "filtered", crashed => crashed',
         deleting' \in [busy : BOOLEAN, queue : Seq(Items), checked : SUBSET Items,
                        filtered : BOOLEAN],
         DeletesTheChecked'
  PROVE  PanelInv'
<1>1. PanelTypeOK'
  BY DEF PanelInv, PanelTypeOK
<1>2. StoreFollows' /\ RowsFollow' /\ SearchFollows'
  BY DEF PanelInv, StoreFollows, RowsFollow, SearchFollows
<1>3. CountFollows'
  BY DEF PanelInv, CountFollows, Checked
<1> QED
  BY <1>1, <1>2, <1>3 DEF PanelInv

LEMMA DeleteSelectedKeeps ==
  ASSUME PanelInv, DeleteSelected
  PROVE  PanelInv'
<1>1. ~crashed /\ UNCHANGED <<status, store, rows, bound, page, filters, cancelled, selecting,
                              count, remade, changes>>
  BY DEF DeleteSelected
<1>2. /\ SelectedItems(rows) \in Seq(Items) /\ Checked \in SUBSET Items
      /\ bound = "store" => /\ ~MissingRow(rows)
                            /\ ToSet(SelectedItems(rows)) \subseteq Checked
  BY SelectedAreChecked
<1>3. bound \in {"store", "filtered"}
  BY DEF PanelInv, PanelTypeOK
<1>4. CASE MissingRow(rows)
  <2>1. crashed' = TRUE /\ deleting' = deleting
    BY <1>4 DEF DeleteSelected
  <2>2. DeletesTheChecked'
    BY <2>1 DEF PanelInv, DeletesTheChecked
  <2>3. deleting' \in [busy : BOOLEAN, queue : Seq(Items), checked : SUBSET Items,
                       filtered : BOOLEAN]
    BY <2>1 DEF PanelInv, PanelTypeOK
  <2> QED
    BY <1>1, <1>2, <1>3, <1>4, <2>1, <2>2, <2>3, DeletionKeeps
<1>5. CASE ~MissingRow(rows)
  <2> DEFINE d == [busy |-> TRUE, queue |-> SelectedItems(rows), checked |-> Checked,
                   filtered |-> bound = "filtered"]
  <2>1. crashed' = FALSE /\ deleting' = d
    BY <1>1, <1>5 DEF DeleteSelected
  <2>2. d \in [busy : BOOLEAN, queue : Seq(Items), checked : SUBSET Items, filtered : BOOLEAN]
    BY <1>2
  <2>3. DeletesTheChecked'
    <3>1. ~d.filtered => ToSet(d.queue) \subseteq d.checked
      BY <1>2, <1>3
    <3> HIDE DEF d
    <3> QED
      BY <2>1, <3>1 DEF DeletesTheChecked
  <2> HIDE DEF d
  <2> QED
    BY <1>1, <2>1, <2>2, <2>3, DeletionKeeps
<1> QED
  BY <1>4, <1>5

LEMMA DeleteStopsKeeps ==
  ASSUME PanelInv, DeleteFails \/ DeleteEnds
  PROVE  PanelInv'
<1>1. crashed' = crashed /\ ~crashed /\ deleting' = NoDelete
      /\ UNCHANGED <<status, store, rows, bound, page, filters, cancelled, selecting,
                     count, remade, changes>>
  BY DEF DeleteFails, DeleteEnds, PanelInv, PanelTypeOK
<1>2. NoDelete \in [busy : BOOLEAN, queue : Seq(Items), checked : SUBSET Items,
                    filtered : BOOLEAN]
  BY DEF NoDelete
<1>3. ToSet(NoDelete.queue) \subseteq NoDelete.checked
  BY DEF NoDelete, ToSet
<1>4. DeletesTheChecked'
  BY <1>1, <1>3 DEF DeletesTheChecked
<1>5. crashed' \in BOOLEAN
  BY <1>1 DEF PanelInv, PanelTypeOK
<1> QED
  BY <1>1, <1>2, <1>4, <1>5, DeletionKeeps

LEMMA DeleteNextKeeps ==
  ASSUME PanelInv, DeleteNext
  PROVE  PanelInv'
<1> DEFINE i == Head(deleting.queue)
<1>1. /\ ~crashed /\ deleting.queue # << >> /\ status[i] = "listed" /\ RemoveItem(i)
      /\ deleting' = [deleting EXCEPT !.queue = Tail(@)]
      /\ UNCHANGED <<bound, filters, cancelled, selecting, count, crashed, changes>>
  BY DEF DeleteNext
<1>2. deleting \in [busy : BOOLEAN, queue : Seq(Items), checked : SUBSET Items,
                    filtered : BOOLEAN]
  BY DEF PanelInv, PanelTypeOK
<1> DEFINE q == deleting.queue
<1>3. q \in Seq(Items) /\ q # << >>
  BY <1>1, <1>2
<1> HIDE DEF q
<1>4. Head(q) \in Items /\ Tail(q) \in Seq(Items) /\ Len(Tail(q)) = Len(q) - 1
      /\ \A k \in 1..Len(Tail(q)) : Tail(q)[k] = q[k + 1]
  BY <1>3, HeadTailProperties
<1>5. ToSet(Tail(q)) \subseteq ToSet(q)
  <2>1. DOMAIN q = 1..Len(q) /\ DOMAIN Tail(q) = 1..(Len(q) - 1) /\ Len(q) \in Nat
    BY <1>3, <1>4
  <2>2. \A k \in DOMAIN Tail(q) : Tail(q)[k] = q[k + 1] /\ k + 1 \in DOMAIN q
    BY <1>4, <2>1
  <2> QED
    BY <2>2 DEF ToSet
<1>6. /\ deleting' \in [busy : BOOLEAN, queue : Seq(Items), checked : SUBSET Items,
                        filtered : BOOLEAN]
      /\ deleting'.queue = Tail(q) /\ deleting'.filtered = deleting.filtered
      /\ deleting'.checked = deleting.checked
  BY <1>1, <1>2, <1>4 DEF q
<1>7. DeletesTheChecked'
  BY <1>5, <1>6 DEF DeletesTheChecked, PanelInv, q
<1>8. i \in Items
  BY <1>4 DEF q
<1> HIDE DEF i
<1>9. Rest'
  BY <1>1, <1>6, <1>8, RemoveKeeps
<1> QED
  BY <1>7, <1>9 DEF PanelInv, Rest

LEMMA ItemRemovedKeeps ==
  ASSUME PanelInv, NEW i \in Items, ItemRemoved(i)
  PROVE  PanelInv'
<1>1. /\ ~crashed /\ status[i] = "gone" /\ RemoveItem(i)
      /\ UNCHANGED <<bound, filters, cancelled, selecting, count, deleting, crashed, changes>>
  BY DEF ItemRemoved
<1>2. deleting' \in [busy : BOOLEAN, queue : Seq(Items), checked : SUBSET Items,
                     filtered : BOOLEAN]
  BY <1>1 DEF PanelInv, PanelTypeOK
<1>3. Rest' /\ DeletesTheChecked'
  BY <1>1, <1>2, RemoveKeeps DEF PanelInv, DeletesTheChecked
<1> QED
  BY <1>3 DEF PanelInv, Rest

LEMMA NextKeeps ==
  ASSUME PanelInv, [PanelNext]_panelVars
  PROVE  PanelInv'
<1>1. ASSUME NEW i \in Items, ItemAdded(i) PROVE PanelInv'
  BY <1>1, AddKeeps
<1>2. ASSUME NEW i \in Items, ItemVanishes(i) PROVE PanelInv'
  BY <1>2, VanishKeeps
<1>3. ASSUME NEW i \in Items, ItemRemoved(i) PROVE PanelInv'
  BY <1>3, ItemRemovedKeeps
<1>4. ASSUME NEW i \in Items, ItemChanged(i) PROVE PanelInv'
  BY <1>4, ChangeKeeps
<1>5. CASE StopSearch
  BY <1>5, RebindKeeps DEF StopSearch
<1>6. CASE ClearText
  BY <1>6, RebindKeeps DEF ClearText
<1>7. CASE FilterItems
  BY <1>7, FilterKeeps
<1>8. CASE Toggle
  BY <1>8, ToggleKeeps
<1>9. ASSUME NEW active \in BOOLEAN, SelectAll(active) PROVE PanelInv'
  BY <1>9, SelectAllKeeps
<1>10. CASE SetSelectionMode
  BY <1>10, SetSelectionModeKeeps
<1>11. CASE DeleteSelected
  BY <1>11, DeleteSelectedKeeps
<1>12. CASE DeleteNext
  BY <1>12, DeleteNextKeeps
<1>13. CASE DeleteFails \/ DeleteEnds
  BY <1>13, DeleteStopsKeeps
<1>14. CASE UNCHANGED panelVars
  BY <1>14 DEF panelVars, PanelInv, PanelTypeOK, StoreFollows, SearchFollows, RowsFollow, CountFollows,
               DeletesTheChecked, Checked
<1> QED
  BY <1>1, <1>2, <1>3, <1>4, <1>5, <1>6, <1>7, <1>8, <1>9, <1>10, <1>11, <1>12, <1>13, <1>14
  DEF PanelNext

LEMMA InvariantHolds == PanelSpec => []PanelInv
<1>1. PanelInv /\ [PanelNext]_panelVars => PanelInv'
  BY NextKeeps
<1> QED
  BY <1>1, InitInvariant, PTL DEF PanelSpec

\* For any items, announced, removed, searched, checked and deleted in any order: while no
\* search is on, the row with a number is that of the item with this number, so that the row
\* that is activated opens the item it shows, and no row is missing.
THEOREM RowsNumbered == PanelSpec => []RowsNumberTheStore
<1>1. PanelInv => RowsNumberTheStore
  <2> SUFFICES ASSUME PanelInv PROVE RowsNumberTheStore
    OBVIOUS
  <2>1. store \in Seq(Items) /\ DOMAIN store = 1..Len(store) /\ rows \in Seq(RowType)
        /\ DOMAIN rows = 1..Len(rows) /\ Len(store) \in Nat
    BY DEF PanelInv, PanelTypeOK, RowType
  <2>2. SearchIsOver
    BY DEF PanelInv, PanelTypeOK, SearchFollows, SearchIsOver
  <2>3. bound = "store" => \A n \in DOMAIN rows : Opened(n) = {rows[n].item}
    BY <2>1 DEF PanelInv, RowsFollow, Opened
  <2> QED
    BY <2>2, <2>3 DEF PanelInv, RowsFollow, RowsNumberTheStore
<1> QED
  BY <1>1, InvariantHolds, PTL

\* Whatever is announced, removed and toggled in between, the number of selected items the
\* window shows is that of the checked rows, no search being on and no checked row having been
\* removed or made anew since they were counted.
THEOREM CountRight == PanelSpec => []CountIsRight
<1>1. PanelInv => CountIsRight
  BY DEF PanelInv, CountFollows, SearchFollows, CountIsRight
<1> QED
  BY <1>1, InvariantHolds, PTL

\* A deletion that was begun while no search was on deletes only what was checked then,
\* however the store changes before its last call.
THEOREM CheckedDeleted == PanelSpec => []DeletesTheChecked
<1>1. PanelInv => DeletesTheChecked
  BY DEF PanelInv
<1> QED
  BY <1>1, InvariantHolds, PTL
===============================================================================
