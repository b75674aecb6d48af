------------------------------- MODULE GpgEditor -------------------------------
(***************************************************************************)
(* The editor of one key (src/src/gpg-editor.vala): two lists, a page for a *)
(* subkey and one for a user id, and the edits they start on the item.      *)
(*                                                                          *)
(* The editor shows the item's cached content; gpg works on the key ring.   *)
(* Nothing keeps the user from starting an edit while another one runs, and *)
(* an edit names what it changes by a number.  What an edit does with its   *)
(* number is in GpgEditSession; here it is one step of gpg, which writes    *)
(* back the key it read when it was started.                                *)
(***************************************************************************)
EXTENDS Naturals, SequencesExt

CONSTANTS
  KeySeq, UidSeq,     \* the subkeys of the key, the primary key first; its user ids
  NewKeys, NewUids,   \* those that can still be added
  Validities,         \* values of the trust combo box
  NeverSent,          \* GGpg.Validity.UNKNOWN and UNDEFINED
  Edits,              \* bound: edits started from the editor
  MaxOutside          \* bound: changes of the key by other programs

ASSUME EditorAssumption ==
  /\ KeySeq \in Seq(ToSet(KeySeq)) /\ UidSeq \in Seq(ToSet(UidSeq))
  /\ KeySeq # << >> /\ UidSeq # << >>
  /\ ToSet(KeySeq) \cap NewKeys = {} /\ ToSet(UidSeq) \cap NewUids = {}
  /\ NeverSent # {} /\ NeverSent \subseteq Validities
  /\ MaxOutside \in Nat

None == "none"
AllKeys == ToSet(KeySeq) \cup NewKeys
AllUids == ToSet(UidSeq) \cup NewUids

VARIABLES
  key,      \* the key on disk, its owner trust included
  born,     \* subkeys and user ids that have been added at some time
  cache,    \* GpgItem._content
  ui,       \* the editor widget
  ops,      \* GpgItem.edit, once for each edit
  outside   \* counts the changes by other programs

vars == <<key, born, cache, ui, ops, outside>>

Keys == [subkeys : Seq(AllKeys), uids : Seq(AllUids), expires : [AllKeys -> BOOLEAN],
         trust : Validities]

NoKey == [subkeys |-> << >>, uids |-> << >>, expires |-> [k \in AllKeys |-> FALSE],
          trust |-> CHOOSE v \in NeverSent : TRUE]

\* op, index, arg: the GpgEditCommand; chosen: what the user picked; base: the list
\* the index was taken from; snap: the key gpg has read; view: the key a listing
\* will deliver.  The last four are there for gpg and for the properties.
Edit(pc, op, index, arg, chosen, base) ==
  [pc |-> pc, op |-> op, index |-> index, arg |-> arg, chosen |-> chosen, base |-> base,
   snap |-> NoKey, view |-> NoKey]

Command(op, index, arg, chosen, base) == Edit("start", op, index, arg, chosen, base)

\* An edit nothing is left of but where it is.
Over(pc) == Edit(pc, None, 0, FALSE, None, << >>)

Init ==
  /\ \E t \in Validities :
       key = [subkeys |-> KeySeq, uids |-> UidSeq,
              expires |-> [k \in AllKeys |-> FALSE], trust |-> t]
  /\ born = {}
  /\ cache = key
  /\ ui = [page |-> "main", listed |-> key, combo |-> key.trust,
           subkey |-> None, index |-> 0, shown |-> FALSE,
           uid |-> None, deletable |-> FALSE]
  /\ ops = [o \in Edits |-> Over("idle")]
  /\ outside = 0

---------------------------------------------------------------------------
(* gpg.  Numbers count from 0, the primary key; past the end nothing is     *)
(* selected, and "expire" then means the primary key.                       *)

KeyAt(k, index) ==
  IF index < Len(k.subkeys) THEN k.subkeys[index + 1] ELSE Head(k.subkeys)

\* The keys that command c may turn key k into.
Apply(k, c) ==
  CASE c.op = "delkey" ->
         IF c.index \in 1..(Len(k.subkeys) - 1)
         THEN {[k EXCEPT !.subkeys = RemoveAt(@, c.index + 1)]} ELSE {k}
    [] c.op = "deluid" ->
         IF c.index < Len(k.uids) /\ Len(k.uids) > 1
         THEN {[k EXCEPT !.uids = RemoveAt(@, c.index + 1)]} ELSE {k}
    [] c.op = "expire" -> {[k EXCEPT !.expires[KeyAt(k, c.index)] = c.arg]}
    [] c.op = "addkey" -> {[k EXCEPT !.subkeys = Append(@, n)] : n \in NewKeys \ born}
    [] c.op = "adduid" -> {[k EXCEPT !.uids = Append(@, n)] : n \in NewUids \ born}

Born(k) == born' = born \cup ((ToSet(k.subkeys) \cup ToSet(k.uids)) \cap (NewKeys \cup NewUids))

\* gpg has ended; of the command only a trust value is of interest from here on, and
\* of another edit not even that it failed.
Ended(pc, c) ==
  IF c.op = "trust" THEN [c EXCEPT !.pc = pc, !.snap = NoKey, !.view = NoKey]
  ELSE Over(IF pc = "failed" THEN "done" ELSE pc)

GpgLoads(o) ==
  /\ ops[o].pc = "start"
  /\ ops' = [ops EXCEPT ![o] = [@ EXCEPT !.pc = "edit", !.snap = key]]
  /\ UNCHANGED <<key, born, cache, ui, outside>>

\* The key is written as a whole, owner trust in a file of its own.
GpgSaves(o) ==
  /\ ops[o].pc = "edit"
  /\ IF ops[o].op = "trust"
     THEN key' = [key EXCEPT !.trust = ops[o].arg] /\ UNCHANGED born
     ELSE \E k \in Apply(ops[o].snap, ops[o]) :
            /\ key' = IF k = ops[o].snap THEN key ELSE [k EXCEPT !.trust = key.trust]
            /\ Born(k)
  /\ ops' = [ops EXCEPT ![o] = Ended("saved", @)]
  /\ UNCHANGED <<cache, ui, outside>>

\* The edit fails; a trust value may have been stored before it did.
GpgFails(o) ==
  /\ ops[o].pc \in {"start", "edit"}
  /\ ops' = [ops EXCEPT ![o] = Ended("failed", @)]
  /\ \/ UNCHANGED key
     \/ ops[o].op = "trust" /\ key' = [key EXCEPT !.trust = ops[o].arg]
  /\ UNCHANGED <<born, cache, ui, outside>>

Outside ==
  /\ outside < MaxOutside
  /\ \E op \in {"delkey", "deluid", "addkey", "adduid"}, i \in 0..Len(key.subkeys) :
       \E k \in Apply(key, Command(op, i, TRUE, None, << >>)) :
         /\ k # key
         /\ key' = k
         /\ Born(k)
  /\ outside' = outside + 1
  /\ UNCHANGED <<cache, ui, ops>>

---------------------------------------------------------------------------
(* GpgItem.edit, once gpg has ended.                                        *)

BeginReload(o) ==
  /\ ops[o].pc = "saved"
  /\ ops' = [ops EXCEPT ![o] = [@ EXCEPT !.pc = "list", !.view = key]]
  /\ UNCHANGED <<key, born, cache, ui, outside>>

ListContent(o) ==
  /\ ops[o].pc = "list"
  /\ cache' = ops[o].view
  /\ ops' = [ops EXCEPT ![o] = [@ EXCEPT !.pc = "listed", !.view = NoKey]]
  /\ UNCHANGED <<key, born, ui, outside>>

\* The listing ends with an error, before or after it has delivered the key.
ListFails(o) ==
  /\ \/ ops[o].pc = "list" /\ ops' = [ops EXCEPT ![o] = Ended("failed", @)]
     \/ ops[o].pc = "listed" /\ ops' = [ops EXCEPT ![o] = [@ EXCEPT !.pc = "untold"]]
  /\ UNCHANGED <<key, born, cache, ui, outside>>

Slip_KeepProperties(c) == ui.shown

\* The pages of a subkey and a user id that are not there any more stay as they are.
ShownExpiry(c) ==
  IF ui.subkey \in ToSet(c.subkeys) THEN c.expires[ui.subkey] ELSE ui.shown
Deletable(c) == IF ui.uid \in ToSet(c.uids) THEN Len(c.uids) > 1 ELSE ui.deletable

Slip_KeepTrust(c) == ui.combo
UpdateTrust(c) == c.trust

\* changed (): update_subkey_list, update_user_id_list and update_trust.
Changed(o) ==
  /\ ops[o].pc = "listed"
  /\ ui' = [ui EXCEPT !.listed = cache, !.shown = ShownExpiry(cache),
                      !.deletable = Deletable(cache), !.combo = UpdateTrust(cache)]
  /\ ops' = [ops EXCEPT ![o] = Over("done")]
  /\ UNCHANGED <<key, born, cache, outside>>

---------------------------------------------------------------------------
(* The user.                                                                *)

See(u) == ui' = u /\ UNCHANGED <<key, born, cache, ops, outside>>

\* The page is made for the first subkey that is opened, its index with it; after
\* that it is only given another subkey.
SelectSubkey ==
  /\ ui.page = "main"
  /\ \E i \in DOMAIN ui.listed.subkeys :
       LET k == ui.listed.subkeys[i] IN
       See([ui EXCEPT !.page = "subkey", !.subkey = k, !.shown = ui.listed.expires[k],
                      !.index = IF ui.subkey = None THEN i - 1 ELSE @])

SelectUserId ==
  /\ ui.page = "main"
  /\ \E i \in DOMAIN ui.listed.uids :
       See([ui EXCEPT !.page = "user_id", !.uid = ui.listed.uids[i],
                      !.deletable = Len(cache.uids) > 1])

Back == ui.page # "main" /\ See([ui EXCEPT !.page = "main"])

Begin(o, c, u) ==
  /\ ops[o].pc = "idle"
  /\ ops' = [ops EXCEPT ![o] = c]
  /\ ui' = u
  /\ UNCHANGED <<key, born, cache, outside>>

\* The popover is closed with another expiry than the one shown.
ChangeExpiry(o) ==
  /\ ui.page = "subkey"
  /\ Begin(o, Command("expire", ui.index, ~ui.shown, ui.subkey, cache.subkeys), ui)

Slip_IndexOfThePage(s, x) == ui.index

\* "Re-enumerate": the number of elements before x, all of them when x is not there.
Enumerate(s, x) ==
  IF Contains(s, x) THEN SelectInSeq(s, LAMBDA y : y = x) - 1 ELSE Len(s)

\* The button is hidden for the primary key.
DeleteSubkey(o) ==
  /\ ui.page = "subkey"
  /\ ui.subkey # Head(cache.subkeys)
  /\ Begin(o, Command("delkey", Enumerate(cache.subkeys, ui.subkey), FALSE, ui.subkey,
                      cache.subkeys),
           [ui EXCEPT !.page = "main"])

DeleteUserId(o) ==
  /\ ui.page = "user_id"
  /\ ui.deletable
  /\ Begin(o, Command("deluid", Enumerate(cache.uids, ui.uid), FALSE, ui.uid, cache.uids),
           [ui EXCEPT !.page = "main"])

AddSubkey(o) == ui.page = "main" /\ Begin(o, Command("addkey", 0, FALSE, None, << >>), ui)
AddUserId(o) == ui.page = "main" /\ Begin(o, Command("adduid", 0, FALSE, None, << >>), ui)

\* on_trust_changed.  The value the item has, and those gpg has no answer for, start
\* no edit.
PickTrust ==
  /\ ui.page = "main"
  /\ \E v \in Validities \ {ui.combo} :
       /\ v \in NeverSent \cup {cache.trust}
       /\ See([ui EXCEPT !.combo = cache.trust])

ChangeTrust(o) ==
  /\ ui.page = "main"
  /\ \E v \in Validities \ (NeverSent \cup {ui.combo, cache.trust}) :
       Begin(o, Command("trust", 0, v, None, << >>), [ui EXCEPT !.combo = v])

User(o) ==
  \/ ChangeExpiry(o) \/ DeleteSubkey(o) \/ DeleteUserId(o) \/ AddSubkey(o)
  \/ AddUserId(o) \/ ChangeTrust(o)
Gpg(o) == GpgLoads(o) \/ GpgSaves(o) \/ GpgFails(o)
Item(o) == BeginReload(o) \/ ListContent(o) \/ ListFails(o) \/ Changed(o)

Next ==
  \/ Outside \/ SelectSubkey \/ SelectUserId \/ Back \/ PickTrust
  \/ \E o \in Edits : User(o) \/ Gpg(o) \/ Item(o)

Spec == Init /\ [][Next]_vars

---------------------------------------------------------------------------
(* Properties                                                               *)

Pcs == {"idle", "start", "edit", "saved", "list", "listed", "done", "failed", "untold"}

\* The type of the state.
TypeOK ==
  /\ key \in Keys /\ cache \in Keys
  /\ born \subseteq NewKeys \cup NewUids
  /\ ui \in [page : {"main", "subkey", "user_id"}, listed : Keys, combo : Validities,
             subkey : AllKeys \cup {None}, index : Nat, shown : BOOLEAN,
             uid : AllUids \cup {None}, deletable : BOOLEAN]
  /\ \A o \in Edits :
       /\ ops[o].pc \in Pcs
       /\ ops[o].index \in Nat
       /\ {ops[o].snap, ops[o].view} \subseteq Keys
  /\ outside \in 0..MaxOutside

\* What the comments in delete_subkey and delete_user_id promise: "considering the
\* case where a new subkey is added during the session", the deletion hits the
\* subkey or the user id of the page.  It does as long as the chosen one was in the
\* item's list and that list has only been added to on disk since.
ChosenIsDeleted ==
  \A o \in Edits :
    LET e == ops[o]
        on == IF e.op = "delkey" THEN e.snap.subkeys ELSE e.snap.uids
    IN e.pc = "edit" /\ e.op \in {"delkey", "deluid"}
       /\ Contains(e.base, e.chosen) /\ IsPrefix(e.base, on)
       => on[e.index + 1] = e.chosen

\* Whatever edits overlap, the lists show the item's content, and the open page the
\* expiry the item has for that subkey, unless a reload has just delivered another
\* content or has failed after it did.
Reloading == \E o \in Edits : ops[o].pc \in {"listed", "untold"}
EditorShowsTheItem ==
  /\ TypeOK
  /\ Reloading \/ ui.listed = cache
  /\ ~Reloading /\ ui.subkey \in ToSet(cache.subkeys) => ui.shown = cache.expires[ui.subkey]

\* The combo box shows a trust value the item does not have only while the edit that
\* sets it is under way, or after that edit has failed: nothing resets it then.
ComboShowsTrust ==
  ui.combo # cache.trust =>
    \/ Reloading
    \/ \E o \in Edits : ops[o].op = "trust" /\ ops[o].arg = ui.combo
                        /\ ops[o].pc \notin {"idle", "done"}

\* An expiry that is changed on the page of a subkey is the expiry of that subkey.
ShownSubkeyExpires ==
  \A o \in Edits :
    ops[o].pc = "edit" /\ ops[o].op = "expire" /\ IsPrefix(ops[o].base, ops[o].snap.subkeys)
    => KeyAt(ops[o].snap, ops[o].index) = ops[o].chosen
=============================================================================
