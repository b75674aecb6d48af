---------------------------- MODULE GpgEditSession ----------------------------
(***************************************************************************)
(* One run of `gpg --edit-key` driven by a GpgEditCommand                   *)
(* (src/src/gpg-edit-helper.vala).  gpgme starts gpg, hands every status    *)
(* line gpg prints to edit_callback, and gives it a file descriptor to      *)
(* answer on when the line is a prompt.  The six subclasses are tables: the *)
(* state a prompt moves the command to, and the line it then sends.         *)
(*                                                                          *)
(* gpg is outside the repository.  It is modelled from the conversation the *)
(* tables hold with it: a menu that takes commands, a selection that "uid"  *)
(* and "key" toggle, prompts for the values, and a change that stays in     *)
(* memory until the save question is answered with Y.  A keyword of gpg is  *)
(* only ever asked with one status code (GET_LINE or GET_BOOL), so the code *)
(* half of the tests in transit is folded into the keyword.                 *)
(***************************************************************************)
EXTENDS Naturals, FiniteSets

CONSTANTS
  NUids,       \* user ids on the key, numbered 1..NUids by gpg
  NKeys,       \* subkeys on the key, numbered 1..NKeys; 0 is the primary key
  MaxTrouble   \* bound: statuses that are not prompts, and refused values

ASSUME SizeAssumption ==
  /\ NUids \in Nat \ {0}
  /\ NKeys \in Nat
  /\ MaxTrouble \in Nat

Ops == {"adduid", "deluid", "addkey", "delkey", "trust", "expire"}

\* GpgDelUidEditCommand, GpgDelKeyEditCommand and GpgExpireEditCommand take an
\* index; the editor computes it from a key that may have changed since, so one
\* index past the end is a request too.
Requests ==
       [op : {"adduid", "addkey"}, index : {0}, value : {"none"}]
  \cup [op : {"deluid"}, index : 0..NUids, value : {"none"}]
  \cup [op : {"delkey", "expire"}, index : 0..(NKeys + 1), value : {"none"}]
  \cup [op : {"trust"}, index : {0}, value : {"marginal", "ultimate"}]

MENU == "keyedit.prompt"
SAVEQ == "keyedit.save.okay"
Confirmations ==
  {"keyedit.remove.uid.okay", "keyedit.remove.subkey.okay",
   "edit_ownertrust.set_ultimate.okay"}
ValuePrompts ==
  {"keygen.name", "keygen.email", "keygen.comment", "keygen.algo",
   "keygen.size", "keygen.valid", "edit_ownertrust.value"}
Prompts == {MENU, SAVEQ} \cup Confirmations \cup ValuePrompts

\* Statuses that come without a descriptor: those edit_callback passes over (the
\* unknown status -1 among them), and the others, such as a failure report.
Informational == {"ignored", "other"}

Word(w) == [word |-> w, n |-> 0]
NoLine == Word("")

---------------------------------------------------------------------------
(* The six commands.  A transition is <<state, prompt, next state>>.  The    *)
(* definitions named Slip_... are the tables with a plausible mistake in     *)
(* them; the runs use them to show that the properties notice it.            *)

Slip_AfterCommentQuitTwice ==
  {<<"COMMENT", e, "QUIT">> : e \in Prompts \cup {"other"}} \cup {<<"QUIT", MENU, "QUIT">>}

\* After the comment whatever gpg says is answered with "quit".
AfterComment == {<<"COMMENT", e, "QUIT">> : e \in Prompts \cup {"other"}}

AddUidTransit ==
  {<<"START", MENU, "COMMAND">>, <<"COMMAND", "keygen.name", "NAME">>,
   <<"NAME", "keygen.email", "EMAIL">>, <<"EMAIL", "keygen.comment", "COMMENT">>,
   <<"QUIT", SAVEQ, "SAVE">>}
  \cup AfterComment

AddUidAction ==
  [COMMAND |-> Word("adduid"), NAME |-> Word("name"), EMAIL |-> Word("email"),
   COMMENT |-> Word("comment"), QUIT |-> Word("quit"), SAVE |-> Word("Y")]

DelUidTransit ==
  {<<"START", MENU, "SELECT">>, <<"SELECT", MENU, "COMMAND">>,
   <<"COMMAND", "keyedit.remove.uid.okay", "CONFIRM">>,
   <<"COMMAND", MENU, "QUIT">>, <<"CONFIRM", MENU, "QUIT">>,
   <<"QUIT", SAVEQ, "SAVE">>}

Slip_UidLineFromZero(index) == [word |-> "uid", n |-> index]

\* The editor counts user ids from 0, gpg from 1.
UidLine(index) == [word |-> "uid", n |-> index + 1]

Slip_KeyLineFromOne(index) == [word |-> "key", n |-> index + 1]

\* Both count the primary key as 0.
KeyLine(index) == [word |-> "key", n |-> index]

DelUidAction(index) ==
  [SELECT |-> UidLine(index), COMMAND |-> Word("deluid"),
   CONFIRM |-> Word("Y"), QUIT |-> Word("quit"), SAVE |-> Word("Y")]

AddKeyTransit ==
  {<<"START", MENU, "COMMAND">>, <<"QUIT", SAVEQ, "SAVE">>}
  \cup {<<s, p[1], p[2]>> :
          s \in {"COMMAND", "TYPE", "LENGTH", "EXPIRES"},
          p \in {<<"keygen.algo", "TYPE">>, <<"keygen.size", "LENGTH">>,
                 <<"keygen.valid", "EXPIRES">>, <<MENU, "QUIT">>}}

AddKeyAction ==
  [COMMAND |-> Word("addkey"), TYPE |-> Word("type"), LENGTH |-> Word("length"),
   EXPIRES |-> Word("expires"), QUIT |-> Word("quit"), SAVE |-> Word("Y")]

Slip_DelKeyNeverSaves ==
  {<<"START", MENU, "SELECT">>, <<"SELECT", MENU, "COMMAND">>,
   <<"COMMAND", "keyedit.remove.subkey.okay", "CONFIRM">>,
   <<"COMMAND", MENU, "QUIT">>, <<"CONFIRM", MENU, "QUIT">>}

\* No SAVE state: the save question leads back to CONFIRM, which also sends Y.
DelKeyTransit ==
  {<<"START", MENU, "SELECT">>, <<"SELECT", MENU, "COMMAND">>,
   <<"COMMAND", "keyedit.remove.subkey.okay", "CONFIRM">>,
   <<"COMMAND", MENU, "QUIT">>, <<"CONFIRM", MENU, "QUIT">>,
   <<"QUIT", SAVEQ, "CONFIRM">>}

DelKeyAction(index) ==
  [SELECT |-> KeyLine(index), COMMAND |-> Word("delkey"),
   CONFIRM |-> Word("Y"), QUIT |-> Word("quit")]

TrustTransit ==
  {<<"START", MENU, "COMMAND">>, <<"COMMAND", "edit_ownertrust.value", "VALUE">>,
   <<"VALUE", "edit_ownertrust.set_ultimate.okay", "CONFIRM">>,
   <<"VALUE", MENU, "QUIT">>, <<"CONFIRM", MENU, "QUIT">>,
   <<"QUIT", SAVEQ, "CONFIRM">>}

TrustAction(validity) ==
  [COMMAND |-> Word("trust"), VALUE |-> Word(validity),
   CONFIRM |-> Word("Y"), QUIT |-> Word("quit")]

Slip_ExpireStartsOver ==
  {<<"START", MENU, "SELECT">>, <<"SELECT", MENU, "COMMAND">>,
   <<"COMMAND", "keygen.valid", "DATE">>, <<"DATE", MENU, "SELECT">>}

ExpireTransit ==
  {<<"START", MENU, "SELECT">>, <<"SELECT", MENU, "COMMAND">>,
   <<"COMMAND", "keygen.valid", "DATE">>, <<"DATE", MENU, "QUIT">>,
   <<"QUIT", SAVEQ, "SAVE">>}

ExpireAction(index) ==
  [SELECT |-> KeyLine(index), COMMAND |-> Word("expire"),
   DATE |-> Word("expires"), QUIT |-> Word("quit"), SAVE |-> Word("Y")]

Transit(op) ==
  CASE op = "adduid" -> AddUidTransit
    [] op = "deluid" -> DelUidTransit
    [] op = "addkey" -> AddKeyTransit
    [] op = "delkey" -> DelKeyTransit
    [] op = "trust"  -> TrustTransit
    [] op = "expire" -> ExpireTransit

Action(r) ==
  CASE r.op = "adduid" -> AddUidAction
    [] r.op = "deluid" -> DelUidAction(r.index)
    [] r.op = "addkey" -> AddKeyAction
    [] r.op = "delkey" -> DelKeyAction(r.index)
    [] r.op = "trust"  -> TrustAction(r.value)
    [] r.op = "expire" -> ExpireAction(r.index)

States == {"START", "SELECT", "COMMAND", "NAME", "EMAIL", "COMMENT", "TYPE",
           "LENGTH", "EXPIRES", "VALUE", "DATE", "CONFIRM", "QUIT", "SAVE"}

---------------------------------------------------------------------------
VARIABLES
  req,       \* the request the command object was constructed with
  state,     \* GpgEditCommand.state
  event,     \* the status passed to edit_callback, "none" between two calls
  input,     \* the line on gpg's command descriptor, NoLine when read
  at,        \* the prompt gpg is at
  doing,     \* the menu command gpg is carrying out
  uidSel, keySel,  \* gpg's selection
  draft,     \* the values gpg has accepted for that command
  pending,   \* the changes gpg holds in memory
  dirty,     \* gpg repaired the key when it loaded it, so it will ask to save
  saved,     \* the changes written to the key ring
  outcome,   \* of the operation: "running", "done" or "failed"
  trouble,   \* counts informational statuses and refused values
  smooth     \* history: nothing was refused, failed or reported by gpg so far

driverVars == <<state, event, input>>
gpgVars == <<at, doing, uidSel, keySel, draft, pending, dirty>>
vars == <<req, driverVars, gpgVars, saved, outcome, trouble, smooth>>

Init ==
  /\ req \in Requests
  /\ state = "START"
  /\ event = "none"
  /\ input = NoLine
  /\ at = MENU
  /\ doing = "none"
  /\ uidSel = {} /\ keySel = {}
  /\ draft = {}
  /\ pending = {}
  /\ dirty \in BOOLEAN
  /\ saved = {}
  /\ outcome = "running"
  /\ trouble = 0
  /\ smooth = TRUE

Running == outcome = "running"
Quiet == Running /\ event = "none" /\ input = NoLine

---------------------------------------------------------------------------
(* edit_callback                                                            *)

Successors == {t[3] : t \in {u \in Transit(req.op) : u[1] = state /\ u[2] = event}}

EditIgnore ==
  /\ Running
  /\ event = "ignored"
  /\ event' = "none"
  /\ UNCHANGED <<req, state, input, gpgVars, saved, outcome, trouble, smooth>>

EditAnswer ==
  /\ Running
  /\ event \in Prompts
  /\ \E s \in Successors :
       /\ s \in DOMAIN Action(req)
       /\ state' = s
       /\ input' = Action(req)[s]
  /\ event' = "none"
  /\ UNCHANGED <<req, gpgVars, saved, outcome, trouble, smooth>>

\* An error out of the callback cancels the operation; gpg is stopped and what it
\* held in memory is gone.
Abort ==
  /\ event' = "none"
  /\ outcome' = "failed"
  /\ pending' = {}
  /\ UNCHANGED <<req, input, at, doing, uidSel, keySel, draft, dirty, saved, trouble>>

\* transit or action throws.  A status that is no prompt has descriptor -1, and
\* writing to it fails after the state has moved.
EditThrow ==
  /\ Running
  /\ event \in Prompts \cup {"other"}
  /\ \/ Successors = {} /\ state' = state
     \/ event = "other" /\ state' \in Successors
  /\ Abort
  /\ UNCHANGED smooth

EditWriteFails ==
  /\ Running
  /\ event \in Prompts
  /\ state' \in Successors
  /\ Abort
  /\ smooth' = FALSE

---------------------------------------------------------------------------
(* gpg                                                                      *)

Announce ==
  /\ Quiet
  /\ event' = at
  /\ UNCHANGED <<req, state, input, gpgVars, saved, outcome, trouble, smooth>>

Inform ==
  /\ Quiet
  /\ trouble < MaxTrouble
  /\ event' \in Informational
  /\ trouble' = trouble + 1
  /\ smooth' = (smooth /\ event' = "ignored")
  /\ UNCHANGED <<req, state, input, gpgVars, saved, outcome>>

\* gpg reads the line it was sent at prompt p.
Reads(p) ==
  /\ Running
  /\ input # NoLine
  /\ at = p
  /\ input' = NoLine
  /\ UNCHANGED <<req, state, event, dirty>>

Toggle(sel, n, present) ==
  IF n = 0 THEN {}
  ELSE IF n \in present THEN (sel \ {n}) \cup ({n} \ sel) ELSE sel

ReadSelect ==
  /\ Reads(MENU)
  /\ \/ /\ input.word = "uid"
        /\ uidSel' = Toggle(uidSel, input.n, 1..NUids)
        /\ smooth' = (smooth /\ input.n \in 0..NUids)
        /\ UNCHANGED keySel
     \/ /\ input.word = "key"
        /\ keySel' = Toggle(keySel, input.n, 1..NKeys)
        /\ smooth' = (smooth /\ input.n \in 0..NKeys)
        /\ UNCHANGED uidSel
  /\ UNCHANGED <<at, doing, draft, pending, saved, outcome, trouble>>

\* The last user id cannot be deleted, nor the primary key; without a selection
\* "expire" means the primary key.
FirstPrompt(cmd) ==
  CASE cmd = "adduid" -> "keygen.name"
    [] cmd = "addkey" -> "keygen.algo"
    [] cmd = "trust"  -> "edit_ownertrust.value"
    [] cmd = "expire" -> "keygen.valid"
    [] cmd = "deluid" /\ uidSel # {} /\ uidSel # 1..NUids -> "keyedit.remove.uid.okay"
    [] cmd = "delkey" /\ keySel # {} -> "keyedit.remove.subkey.okay"
    [] OTHER -> MENU

ReadCommand ==
  /\ Reads(MENU)
  /\ input.word \notin {"uid", "key", "quit"}
  /\ doing' = input.word
  /\ draft' = {}
  /\ at' = FirstPrompt(input.word)
  /\ smooth' = (smooth /\ at' # MENU)
  /\ UNCHANGED <<uidSel, keySel, pending, saved, outcome, trouble>>

ReadQuit ==
  /\ Reads(MENU)
  /\ input.word = "quit"
  /\ IF pending # {} \/ dirty
     THEN at' = SAVEQ /\ UNCHANGED outcome
     ELSE outcome' = "done" /\ UNCHANGED at
  /\ UNCHANGED <<doing, uidSel, keySel, draft, pending, saved, trouble, smooth>>

Target ==
  CASE doing = "deluid" -> uidSel
    [] doing = "delkey" -> keySel
    [] doing = "expire" -> IF keySel = {} THEN {0} ELSE keySel
    [] OTHER -> {}

Change(args) == [op |-> doing, target |-> Target, args |-> args]

\* The prompts that may follow an accepted value, MENU when it was the last one.
Following(p, value) ==
  CASE p = "keygen.name"    -> {"keygen.email"}
    [] p = "keygen.email"   -> {"keygen.comment"}
    [] p = "keygen.algo"    -> {"keygen.size", "keygen.valid"}
    [] p = "keygen.size"    -> {"keygen.valid"}
    [] p = "edit_ownertrust.value" /\ value = "ultimate"
                            -> {"edit_ownertrust.set_ultimate.okay"}
    [] OTHER                -> {MENU}

\* A trust value goes to the trust database at once, anything else waits for the
\* save question.
Perform(args) ==
  IF doing = "trust"
  THEN saved' = saved \cup {Change(args)} /\ UNCHANGED pending
  ELSE pending' = pending \cup {Change(args)} /\ UNCHANGED saved

ReadValue ==
  /\ Reads(at)
  /\ at \in ValuePrompts
  /\ draft' = draft \cup {<<at, input.word>>}
  /\ at' \in Following(at, input.word)
  /\ IF at' = MENU THEN Perform(draft') ELSE UNCHANGED <<pending, saved>>
  /\ UNCHANGED <<doing, uidSel, keySel, outcome, trouble, smooth>>

\* The value is not acceptable and is asked for again.
RefuseValue ==
  /\ Reads(at)
  /\ at \in ValuePrompts
  /\ trouble < MaxTrouble
  /\ trouble' = trouble + 1
  /\ smooth' = FALSE
  /\ UNCHANGED <<at, doing, uidSel, keySel, draft, pending, saved, outcome>>

\* The command fails after its last prompt: a wrong passphrase, no entropy.
FailCommand ==
  /\ Reads(at)
  /\ at \in ValuePrompts \cup Confirmations
  /\ at' = MENU
  /\ smooth' = FALSE
  /\ UNCHANGED <<doing, uidSel, keySel, draft, pending, saved, outcome, trouble>>

ReadConfirmation ==
  /\ Reads(at)
  /\ at \in Confirmations
  /\ at' = MENU
  /\ IF input.word = "Y" THEN Perform(draft) ELSE UNCHANGED <<pending, saved>>
  /\ UNCHANGED <<doing, uidSel, keySel, draft, outcome, trouble, smooth>>

ReadSave ==
  /\ Reads(SAVEQ)
  /\ saved' = IF input.word = "Y" THEN saved \cup pending ELSE saved
  /\ pending' = {}
  /\ outcome' = "done"
  /\ UNCHANGED <<at, doing, uidSel, keySel, draft, trouble, smooth>>

Terminated == ~Running /\ UNCHANGED vars

Driver == EditIgnore \/ EditAnswer \/ EditThrow \/ EditWriteFails
Gpg ==
  \/ Announce \/ Inform \/ ReadSelect \/ ReadCommand \/ ReadQuit \/ ReadValue
  \/ RefuseValue \/ FailCommand \/ ReadConfirmation \/ ReadSave

Next == Driver \/ Gpg \/ Terminated

Spec == Init /\ [][Next]_vars

\* The main loop dispatches what gpg prints, and gpg reads what it is sent.
FairSpec == Spec /\ WF_vars(Driver \/ Gpg)

---------------------------------------------------------------------------
(* What the request stands for: the editor's rows count from 0, gpg's user  *)
(* ids from 1 and its subkeys from 0, the primary key.                      *)

RequestedTarget(r) ==
  CASE r.op = "deluid" -> {r.index + 1}
    [] r.op \in {"delkey", "expire"} -> {r.index}
    [] OTHER -> {}

RequestedArgs(r) ==
  CASE r.op = "adduid" -> {<<"keygen.name", "name">>, <<"keygen.email", "email">>,
                           <<"keygen.comment", "comment">>}
    [] r.op = "addkey" -> {<<"keygen.algo", "type">>, <<"keygen.size", "length">>,
                           <<"keygen.valid", "expires">>}
    [] r.op = "expire" -> {<<"keygen.valid", "expires">>}
    [] r.op = "trust"  -> {<<"edit_ownertrust.value", r.value>>}
    [] OTHER -> {}

\* gpg does not ask for the length of some key types.  An expiry edit whose
\* subkey is not there any more falls back to the primary key: "key N" selects
\* nothing and GpgExpireEditCommand goes on with "expire".
AllowedChanges(r) ==
  [op : {r.op}, target : {RequestedTarget(r)},
   args : {RequestedArgs(r), RequestedArgs(r) \ {<<"keygen.size", "length">>}}]
  \cup IF r.op = "expire" /\ r.index > NKeys
       THEN [op : {r.op}, target : {{0}}, args : {RequestedArgs(r)}]
       ELSE {}

---------------------------------------------------------------------------
(* Properties                                                               *)

Words ==
  {"", "adduid", "deluid", "addkey", "delkey", "trust", "expire", "uid", "key",
   "quit", "Y", "name", "email", "comment", "type", "length", "expires",
   "marginal", "ultimate"}

\* The type of the state: what the two tables and gpg's prompts may put in it.
TypeOK ==
  /\ req \in Requests
  /\ state \in States
  /\ event \in Prompts \cup Informational \cup {"none"}
  /\ input \in [word : Words, n : Nat]
  /\ at \in Prompts
  /\ doing \in Words \cup {"none"}
  /\ uidSel \subseteq 1..NUids
  /\ keySel \subseteq 1..NKeys
  /\ draft \subseteq ValuePrompts \X Words
  /\ dirty \in BOOLEAN
  /\ outcome \in {"running", "done", "failed"}
  /\ trouble \in 0..MaxTrouble
  /\ smooth \in BOOLEAN

\* Whatever gpg asks, refuses or reports in between, the key ring gains at most one
\* change, and that change is the one the command object was built for: the
\* user id or subkey of the row, and each value at the prompt it belongs to.
SavedIsAllowed ==
  /\ saved \subseteq AllowedChanges(req)
  /\ Cardinality(saved) <= 1

\* A session in which gpg refused and reported nothing does not fail, and it does
\* not end before the change has been written: the command's table has an
\* answer for every prompt of the conversation, the save question included.
SmoothSessionSaves ==
  /\ TypeOK
  /\ smooth => /\ outcome # "failed"
               /\ outcome = "done" => saved # {}

\* A value can reach gpg that belongs to no prompt: after a refused comment
\* GpgAddUidEditCommand answers the repeated question with "quit", and gpg makes
\* a user id of it.  Such a change is never written: the operation fails.
BogusChangeFails ==
  pending \ AllowedChanges(req) # {} ~> outcome = "failed"

\* Every session comes to an end: no command answers gpg in circles.
SessionEnds == <>(outcome # "running")

\* The session implements the all-or-nothing edit of EditTransaction.
Transaction == INSTANCE EditTransaction WITH allowed <- AllowedChanges(req)
ImplementsTransaction == Transaction!Spec
=============================================================================
