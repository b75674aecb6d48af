------------------------- MODULE GpgEditSession_proofs -------------------------
(***************************************************************************)
(* Proofs about GpgEditSession for every number of user ids and subkeys and *)
(* any number of disturbances: the types, and that an edit writes nothing    *)
(* but the requested change, at most once.                                   *)
(*                                                                           *)
(* The invariant follows the conversation.  Between two lines gpg rests at a *)
(* prompt that the command's state does not exclude (Rest); while a line is  *)
(* on its way, gpg is at the prompt the line was written for (Sent).  What   *)
(* gpg has accepted so far is then a matter of where it is (DraftAt).        *)
(***************************************************************************)
EXTENDS GpgEditSession, FiniteSetTheorems, TLAPS

\* Each prompt p at which the line of state s is sent.
Sent(op, s, p) ==
  \/ op \notin {"delkey", "trust"} /\ s = "SAVE" /\ p = SAVEQ
  \/ s = "COMMAND" /\ p = MENU
  \/ op # "adduid" /\ s = "QUIT" /\ p = MENU
  \/ op \in {"deluid", "delkey", "expire"} /\ s = "SELECT" /\ p = MENU
  \/ op = "adduid" /\ \/ s = "NAME" /\ p = "keygen.name"
                      \/ s = "EMAIL" /\ p = "keygen.email"
                      \/ s = "COMMENT" /\ p = "keygen.comment"
                      \/ s = "QUIT" /\ p \in {"keygen.comment", MENU}
  \/ op = "deluid" /\ s = "CONFIRM" /\ p = "keyedit.remove.uid.okay"
  \/ op = "addkey" /\ \/ s = "TYPE" /\ p = "keygen.algo"
                      \/ s = "LENGTH" /\ p = "keygen.size"
                      \/ s = "EXPIRES" /\ p = "keygen.valid"
  \/ op = "delkey" /\ s = "CONFIRM" /\ p \in {"keyedit.remove.subkey.okay", SAVEQ}
  \/ op = "trust" /\ \/ s = "VALUE" /\ p = "edit_ownertrust.value"
                     \/ s = "CONFIRM" /\ p \in {"edit_ownertrust.set_ultimate.okay", SAVEQ}
  \/ op = "expire" /\ s = "DATE" /\ p = "keygen.valid"

\* Each prompt p gpg can rest at when it has read the line of state s.
Rest(op, s, p) ==
  \/ s = "START" /\ p = MENU
  \/ s = "QUIT" /\ p \in {MENU, SAVEQ}
  \/ op \in {"deluid", "delkey", "expire"} /\ s = "SELECT" /\ p = MENU
  \/ op = "adduid" /\ \/ s = "COMMAND" /\ p = "keygen.name"
                      \/ s = "NAME" /\ p \in {"keygen.name", "keygen.email", MENU}
                      \/ s = "EMAIL" /\ p \in {"keygen.email", "keygen.comment", MENU}
                      \/ s \in {"COMMENT", "QUIT"} /\ p \in {"keygen.comment", MENU}
  \/ op = "deluid" /\ \/ s = "COMMAND" /\ p \in {"keyedit.remove.uid.okay", MENU}
                      \/ s = "CONFIRM" /\ p = MENU
  \/ op = "addkey" /\ \/ s = "COMMAND" /\ p = "keygen.algo"
                      \/ s = "TYPE" /\ p \in {"keygen.algo", "keygen.size", "keygen.valid", MENU}
                      \/ s = "LENGTH" /\ p \in {"keygen.size", "keygen.valid", MENU}
                      \/ s = "EXPIRES" /\ p \in {"keygen.valid", MENU}
  \/ op = "delkey" /\ \/ s = "COMMAND" /\ p \in {"keyedit.remove.subkey.okay", MENU}
                      \/ s = "CONFIRM" /\ p = MENU
  \/ op = "trust" /\ \/ s = "COMMAND" /\ p = "edit_ownertrust.value"
                     \/ s = "VALUE" /\ p \in {"edit_ownertrust.value", MENU,
                                              "edit_ownertrust.set_ultimate.okay"}
                     \/ s = "CONFIRM" /\ p = MENU
  \/ op = "expire" /\ \/ s = "COMMAND" /\ p = "keygen.valid"
                      \/ s = "DATE" /\ p \in {"keygen.valid", MENU}

\* The values gpg has accepted when it is at prompt p.
DraftAt(r, p) ==
  CASE p = "keygen.email" -> {{<<"keygen.name", "name">>}}
    [] p = "keygen.comment" -> {{<<"keygen.name", "name">>, <<"keygen.email", "email">>}}
    [] p = "keygen.size" -> {{<<"keygen.algo", "type">>}}
    [] p = "keygen.valid" /\ r.op = "addkey" ->
         {{<<"keygen.algo", "type">>},
          {<<"keygen.algo", "type">>, <<"keygen.size", "length">>}}
    [] p = "edit_ownertrust.set_ultimate.okay" -> {{<<"edit_ownertrust.value", r.value>>}}
    [] OTHER -> {{}}

\* Where the two sides of the conversation are.
InStep ==
  /\ event \in Prompts => event = at
  /\ input # NoLine => /\ event = "none"
                       /\ input = Action(req)[state]
                       /\ Sent(req.op, state, at)
  /\ input = NoLine => Rest(req.op, state, at)

\* The selection is what the command's one selection line makes of it.
Unselected == state = "START" \/ (state = "SELECT" /\ input # NoLine)

Selection ==
  /\ Unselected => uidSel = {} /\ keySel = {}
  /\ ~Unselected /\ req.op = "deluid" => uidSel \subseteq {req.index + 1}
  /\ ~Unselected /\ req.op \in {"delkey", "expire"}
       => keySel = {req.index} \cap (1..NKeys)

\* gpg carries out the requested command with the requested values.
Work ==
  /\ at \notin {MENU, SAVEQ} =>
       doing = req.op /\ draft \in DraftAt(req, at) /\ pending = {} /\ saved = {}
  /\ at = "keyedit.remove.uid.okay" => uidSel # {}
  /\ at = "keyedit.remove.subkey.okay" => keySel # {}

\* The user id with the comment "quit" is in memory, and gpg is about to ask for a
\* command that GpgAddUidEditCommand will not give.
Stranded == req.op = "adduid" /\ state = "QUIT" /\ at = MENU /\ input = NoLine

Gains ==
  /\ state \in {"START", "SELECT", "COMMAND"} => pending = {} /\ saved = {}
  /\ pending \subseteq AllowedChanges(req) \/ Stranded
  /\ \A c, d \in pending : c = d
  /\ pending = {} \/ saved = {}

AtMostOneSaved ==
  /\ saved \subseteq AllowedChanges(req)
  /\ \A c, d \in saved : c = d

IInv ==
  /\ TypeOK
  /\ AtMostOneSaved
  /\ Running => InStep /\ Selection /\ Work /\ Gains

---------------------------------------------------------------------------
(* The tables.                                                              *)

LEMMA OpCases ==
  ASSUME NEW r \in Requests
  PROVE  /\ r.op \in Ops
         /\ r.index \in Nat
         /\ r.op = "deluid" => r.index \in 0..NUids
         /\ r.op \in {"delkey", "expire"} => r.index \in 0..(NKeys + 1)
         /\ r.op # "trust" => r.value = "none"
         /\ r.op = "trust" => r.value \in {"marginal", "ultimate"}
BY SizeAssumption DEF Requests, Ops

Lines == [word : Words \ {""}, n : Nat]

LEMMA WordIsLine ==
  ASSUME NEW w \in Words \ {""}
  PROVE  Word(w) \in Lines
BY DEF Word, Lines

LEMMA SelectionIsLine ==
  ASSUME NEW index \in Nat
  PROVE  UidLine(index) \in Lines /\ KeyLine(index) \in Lines
<1>1. {"uid", "key"} \subseteq Words \ {""}
  BY DEF Words
<1> QED
  BY <1>1 DEF UidLine, KeyLine, Lines

\* Every line a command sends is typed, and none is empty.
LEMMA LineType ==
  ASSUME NEW r \in Requests, NEW s \in DOMAIN Action(r)
  PROVE  /\ s \in States
         /\ Action(r)[s] \in Lines
<1>1. CASE r.op = "adduid"
  <2>1. Action(r) = AddUidAction
    BY <1>1 DEF Action
  <2>2. s \in {"COMMAND", "NAME", "EMAIL", "COMMENT", "QUIT", "SAVE"}
    BY <2>1 DEF AddUidAction
  <2>3. Action(r)[s] \in {Word("adduid"), Word("name"), Word("email"), Word("comment"), Word("quit"), Word("Y")}
    BY <2>1, <2>2 DEF AddUidAction
  <2>4. Action(r)[s] \in Lines
    BY <1>1, <2>3, OpCases, WordIsLine, SelectionIsLine DEF Words
  <2> QED
    BY <2>2, <2>4 DEF States
<1>2. CASE r.op = "deluid"
  <2>1. Action(r) = DelUidAction(r.index)
    BY <1>2 DEF Action
  <2>2. s \in {"SELECT", "COMMAND", "CONFIRM", "QUIT", "SAVE"}
    BY <2>1 DEF DelUidAction
  <2>3. Action(r)[s] \in {UidLine(r.index), Word("deluid"), Word("Y"), Word("quit")}
    BY <2>1, <2>2 DEF DelUidAction
  <2>4. Action(r)[s] \in Lines
    BY <1>2, <2>3, OpCases, WordIsLine, SelectionIsLine DEF Words
  <2> QED
    BY <2>2, <2>4 DEF States
<1>3. CASE r.op = "addkey"
  <2>1. Action(r) = AddKeyAction
    BY <1>3 DEF Action
  <2>2. s \in {"COMMAND", "TYPE", "LENGTH", "EXPIRES", "QUIT", "SAVE"}
    BY <2>1 DEF AddKeyAction
  <2>3. Action(r)[s] \in {Word("addkey"), Word("type"), Word("length"), Word("expires"), Word("quit"), Word("Y")}
    BY <2>1, <2>2 DEF AddKeyAction
  <2>4. Action(r)[s] \in Lines
    BY <1>3, <2>3, OpCases, WordIsLine, SelectionIsLine DEF Words
  <2> QED
    BY <2>2, <2>4 DEF States
<1>4. CASE r.op = "delkey"
  <2>1. Action(r) = DelKeyAction(r.index)
    BY <1>4 DEF Action
  <2>2. s \in {"SELECT", "COMMAND", "CONFIRM", "QUIT"}
    BY <2>1 DEF DelKeyAction
  <2>3. Action(r)[s] \in {KeyLine(r.index), Word("delkey"), Word("Y"), Word("quit")}
    BY <2>1, <2>2 DEF DelKeyAction
  <2>4. Action(r)[s] \in Lines
    BY <1>4, <2>3, OpCases, WordIsLine, SelectionIsLine DEF Words
  <2> QED
    BY <2>2, <2>4 DEF States
<1>5. CASE r.op = "trust"
  <2>1. Action(r) = TrustAction(r.value)
    BY <1>5 DEF Action
  <2>2. s \in {"COMMAND", "VALUE", "CONFIRM", "QUIT"}
    BY <2>1 DEF TrustAction
  <2>3. Action(r)[s] \in {Word("trust"), Word(r.value), Word("Y"), Word("quit")}
    BY <2>1, <2>2 DEF TrustAction
  <2>4. Action(r)[s] \in Lines
    BY <1>5, <2>3, OpCases, WordIsLine, SelectionIsLine DEF Words
  <2> QED
    BY <2>2, <2>4 DEF States
<1>6. CASE r.op = "expire"
  <2>1. Action(r) = ExpireAction(r.index)
    BY <1>6 DEF Action
  <2>2. s \in {"SELECT", "COMMAND", "DATE", "QUIT", "SAVE"}
    BY <2>1 DEF ExpireAction
  <2>3. Action(r)[s] \in {KeyLine(r.index), Word("expire"), Word("expires"), Word("quit"), Word("Y")}
    BY <2>1, <2>2 DEF ExpireAction
  <2>4. Action(r)[s] \in Lines
    BY <1>6, <2>3, OpCases, WordIsLine, SelectionIsLine DEF Words
  <2> QED
    BY <2>2, <2>4 DEF States
<1> QED
  BY <1>1, <1>2, <1>3, <1>4, <1>5, <1>6, OpCases DEF Ops

\* A prompt gpg can rest at is answered with the line of a state it is sent at.
LEMMA AnswerIsSent ==
  ASSUME NEW r \in Requests, NEW s, NEW p \in Prompts, NEW t,
         Rest(r.op, s, p), <<s, p, t>> \in Transit(r.op)
  PROVE  Sent(r.op, t, p)
<1>1. CASE r.op = "adduid"
  BY <1>1 DEF Transit, AddUidTransit, AfterComment, Rest, Sent, MENU, SAVEQ, Prompts,
     Confirmations, ValuePrompts
<1>2. CASE r.op = "deluid"
  BY <1>2 DEF Transit, DelUidTransit, Rest, Sent, MENU, SAVEQ
<1>3. CASE r.op = "addkey"
  BY <1>3 DEF Transit, AddKeyTransit, Rest, Sent, MENU, SAVEQ
<1>4. CASE r.op = "delkey"
  BY <1>4 DEF Transit, DelKeyTransit, Rest, Sent, MENU, SAVEQ
<1>5. CASE r.op = "trust"
  BY <1>5 DEF Transit, TrustTransit, Rest, Sent, MENU, SAVEQ
<1>6. CASE r.op = "expire"
  BY <1>6 DEF Transit, ExpireTransit, Rest, Sent, MENU, SAVEQ
<1> QED
  BY <1>1, <1>2, <1>3, <1>4, <1>5, <1>6, OpCases DEF Ops

\* What the tables hold: triples that lead to states.
LEMMA TransitTriples ==
  ASSUME NEW r \in Requests, NEW u \in Transit(r.op)
  PROVE  u = <<u[1], u[2], u[3]>> /\ u[3] \in States
<1>1. CASE r.op = "adduid"
  BY <1>1 DEF Transit, AddUidTransit, AfterComment, States
<1>2. CASE r.op = "deluid"
  BY <1>2 DEF Transit, DelUidTransit, States
<1>3. CASE r.op = "addkey"
  BY <1>3 DEF Transit, AddKeyTransit, States
<1>4. CASE r.op = "delkey"
  BY <1>4 DEF Transit, DelKeyTransit, States
<1>5. CASE r.op = "trust"
  BY <1>5 DEF Transit, TrustTransit, States
<1>6. CASE r.op = "expire"
  BY <1>6 DEF Transit, ExpireTransit, States
<1> QED
  BY <1>1, <1>2, <1>3, <1>4, <1>5, <1>6, OpCases DEF Ops

LEMMA SuccessorsAreStates ==
  ASSUME req \in Requests, NEW s \in Successors
  PROVE  <<state, event, s>> \in Transit(req.op) /\ s \in States
BY TransitTriples DEF Successors

---------------------------------------------------------------------------
(* Types.                                                                   *)

LEMMA NoLineType == NoLine \in [word : Words, n : Nat]
BY DEF NoLine, Word, Words

LEMMA ToggleType ==
  ASSUME NEW present, NEW sel \in SUBSET present, NEW n
  PROVE  Toggle(sel, n, present) \in SUBSET present
BY DEF Toggle

LEMMA InitType == Init => TypeOK
<1> SUFFICES ASSUME Init PROVE TypeOK
  OBVIOUS
<1> QED
  BY NoLineType, SizeAssumption DEF Init, TypeOK, States, Prompts, MENU

LEMMA StepType == TypeOK /\ [Next]_vars => TypeOK'
<1> SUFFICES ASSUME TypeOK, [Next]_vars PROVE TypeOK'
  OBVIOUS
<1> USE DEF TypeOK
<1>1. CASE EditIgnore
  BY <1>1 DEF EditIgnore, gpgVars
<1>2. CASE EditAnswer
  <2>1. PICK s \in Successors : s \in DOMAIN Action(req) /\ state' = s /\ input' = Action(req)[s]
    BY <1>2 DEF EditAnswer
  <2>2. s \in States /\ Action(req)[s] \in Lines
    BY <2>1, LineType
  <2>3. input' \in [word : Words, n : Nat]
    BY <2>1, <2>2 DEF Lines
  <2> QED
    BY <1>2, <2>1, <2>2, <2>3 DEF EditAnswer, gpgVars
<1>3. CASE EditThrow
  BY <1>3, SuccessorsAreStates DEF EditThrow, Abort
<1>4. CASE EditWriteFails
  BY <1>4, SuccessorsAreStates DEF EditWriteFails, Abort
<1>5. CASE Announce
  BY <1>5 DEF Announce, gpgVars
<1>6. CASE Inform
  BY <1>6, SizeAssumption DEF Inform, gpgVars
<1>7. CASE ReadSelect
  BY <1>7, NoLineType, ToggleType DEF ReadSelect, Reads
<1>8. CASE ReadCommand
  BY <1>8, NoLineType DEF ReadCommand, Reads, FirstPrompt, Prompts, Confirmations,
     ValuePrompts, MENU
<1>9. CASE ReadQuit
  BY <1>9, NoLineType DEF ReadQuit, Reads, Prompts
<1>10. CASE ReadValue
  BY <1>10, NoLineType DEF ReadValue, Reads, Following, Prompts, Confirmations,
     ValuePrompts, MENU
<1>11. CASE RefuseValue
  <2>1. trouble' \in 0..MaxTrouble
    BY <1>11, SizeAssumption DEF RefuseValue
  <2> QED
    BY <1>11, <2>1, NoLineType DEF RefuseValue, Reads
<1>12. CASE FailCommand
  BY <1>12, NoLineType DEF FailCommand, Reads, Prompts
<1>13. CASE ReadConfirmation
  BY <1>13, NoLineType DEF ReadConfirmation, Reads, Prompts
<1>14. CASE ReadSave
  BY <1>14, NoLineType DEF ReadSave, Reads
<1>15. CASE UNCHANGED vars
  BY <1>15 DEF vars, driverVars, gpgVars
<1> QED
  BY <1>1, <1>2, <1>3, <1>4, <1>5, <1>6, <1>7, <1>8, <1>9, <1>10, <1>11, <1>12,
     <1>13, <1>14, <1>15 DEF Next, Driver, Gpg, Terminated

\* The state of a session stays within its types, whatever gpg prints.
THEOREM TypeCorrect == Spec => []TypeOK
BY InitType, StepType, PTL DEF Spec

---------------------------------------------------------------------------
(* The lines and what they are sent for.                                    *)

LEMMA SentAtMenu ==
  ASSUME NEW r \in Requests, NEW s, Sent(r.op, s, MENU)
  PROVE  \/ r.op = "deluid" /\ s = "SELECT" /\ Action(r)[s] = UidLine(r.index)
         \/ r.op \in {"delkey", "expire"} /\ s = "SELECT" /\ Action(r)[s] = KeyLine(r.index)
         \/ s = "COMMAND" /\ Action(r)[s].word = r.op
         \/ s = "QUIT" /\ Action(r)[s].word = "quit"
<1>1. s \in {"SELECT", "COMMAND", "QUIT"}
  BY DEF Sent, MENU, SAVEQ
<1>2. CASE r.op = "adduid"
  BY <1>1, <1>2 DEF Sent, MENU, SAVEQ, Action, AddUidAction, Word
<1>3. CASE r.op = "deluid"
  BY <1>1, <1>3 DEF Sent, MENU, SAVEQ, Action, DelUidAction, Word
<1>4. CASE r.op = "addkey"
  BY <1>1, <1>4 DEF Sent, MENU, SAVEQ, Action, AddKeyAction, Word
<1>5. CASE r.op = "delkey"
  BY <1>1, <1>5 DEF Sent, MENU, SAVEQ, Action, DelKeyAction, Word
<1>6. CASE r.op = "trust"
  BY <1>1, <1>6 DEF Sent, MENU, SAVEQ, Action, TrustAction, Word
<1>7. CASE r.op = "expire"
  BY <1>1, <1>7 DEF Sent, MENU, SAVEQ, Action, ExpireAction, Word
<1> QED
  BY <1>2, <1>3, <1>4, <1>5, <1>6, <1>7, OpCases DEF Ops

\* Each value goes to the prompt it belongs to, the comment "quit" excepted.
LEMMA SentValue ==
  ASSUME NEW r \in Requests, NEW s, NEW p \in ValuePrompts, Sent(r.op, s, p),
         NEW w, w = Action(r)[s].word
  PROVE  \/ /\ r.op = "adduid"
            /\ \/ p = "keygen.name" /\ s = "NAME" /\ w = "name"
               \/ p = "keygen.email" /\ s = "EMAIL" /\ w = "email"
               \/ p = "keygen.comment" /\ s = "COMMENT" /\ w = "comment"
               \/ p = "keygen.comment" /\ s = "QUIT" /\ w = "quit"
         \/ /\ r.op = "addkey"
            /\ \/ p = "keygen.algo" /\ s = "TYPE" /\ w = "type"
               \/ p = "keygen.size" /\ s = "LENGTH" /\ w = "length"
               \/ p = "keygen.valid" /\ s = "EXPIRES" /\ w = "expires"
         \/ r.op = "trust" /\ p = "edit_ownertrust.value" /\ s = "VALUE" /\ w = r.value
         \/ r.op = "expire" /\ p = "keygen.valid" /\ s = "DATE" /\ w = "expires"
<1>1. p \notin Confirmations \cup {MENU, SAVEQ}
  BY DEF ValuePrompts, Confirmations, MENU, SAVEQ
<1>2. CASE r.op = "adduid"
  <2>1. \/ p = "keygen.name" /\ s = "NAME"
        \/ p = "keygen.email" /\ s = "EMAIL"
        \/ p = "keygen.comment" /\ s \in {"COMMENT", "QUIT"}
    BY <1>1, <1>2 DEF Sent
  <2>2. Action(r) = AddUidAction
    BY <1>2 DEF Action
  <2> QED
    BY <1>2, <2>1, <2>2 DEF AddUidAction, Word
<1>3. CASE r.op = "deluid"
  BY <1>1, <1>3 DEF Sent, Confirmations, Action, DelUidAction, Word
<1>4. CASE r.op = "addkey"
  <2>1. \/ p = "keygen.algo" /\ s = "TYPE"
        \/ p = "keygen.size" /\ s = "LENGTH"
        \/ p = "keygen.valid" /\ s = "EXPIRES"
    BY <1>1, <1>4 DEF Sent
  <2>2. Action(r) = AddKeyAction
    BY <1>4 DEF Action
  <2> QED
    BY <1>4, <2>1, <2>2 DEF AddKeyAction, Word
<1>5. CASE r.op = "delkey"
  BY <1>1, <1>5 DEF Sent, Confirmations, Action, DelKeyAction, Word
<1>6. CASE r.op = "trust"
  BY <1>1, <1>6 DEF Sent, Confirmations, Action, TrustAction, Word
<1>7. CASE r.op = "expire"
  BY <1>1, <1>7 DEF Sent, Confirmations, Action, ExpireAction, Word
<1> QED
  BY <1>2, <1>3, <1>4, <1>5, <1>6, <1>7, OpCases DEF Ops

\* The order of a conversation: the selection comes first, then the command, and no
\* command has an answer for the menu after "quit" to a user id's comment.
LEMMA TransitOrder ==
  ASSUME NEW r \in Requests, NEW s, NEW p, NEW t, <<s, p, t>> \in Transit(r.op)
  PROVE  /\ t = "SELECT" => s = "START"
         /\ t = "COMMAND" => s \in {"START", "SELECT"}
         /\ t # "START"
         /\ r.op \in {"deluid", "delkey", "expire"} /\ s = "START" => t = "SELECT"
         /\ ~(r.op = "adduid" /\ s = "QUIT" /\ p = MENU)
<1>1. CASE r.op = "adduid"
  BY <1>1 DEF Transit, AddUidTransit, AfterComment, MENU, SAVEQ
<1>2. CASE r.op = "deluid"
  BY <1>2 DEF Transit, DelUidTransit
<1>3. CASE r.op = "addkey"
  BY <1>3 DEF Transit, AddKeyTransit
<1>4. CASE r.op = "delkey"
  BY <1>4 DEF Transit, DelKeyTransit
<1>5. CASE r.op = "trust"
  BY <1>5 DEF Transit, TrustTransit
<1>6. CASE r.op = "expire"
  BY <1>6 DEF Transit, ExpireTransit
<1> QED
  BY <1>1, <1>2, <1>3, <1>4, <1>5, <1>6, OpCases DEF Ops

---------------------------------------------------------------------------
(* The inductive invariant.                                                 *)

LEMMA NoLineIsNoLine == NoLine \notin Lines
BY DEF NoLine, Word, Lines

LEMMA InitInvariant == Init => IInv
<1> SUFFICES ASSUME Init PROVE IInv
  OBVIOUS
<1>1. TypeOK /\ AtMostOneSaved
  BY InitType DEF Init, AtMostOneSaved
<1>2. InStep
  BY DEF Init, InStep, Rest, Prompts, Confirmations, ValuePrompts, MENU, SAVEQ
<1>3. Selection /\ Work /\ Gains
  BY DEF Init, Selection, Unselected, Work, Gains, MENU
<1> QED
  BY <1>1, <1>2, <1>3 DEF IInv

\* A session that has ended keeps what it saved.
LEMMA EndedKeeps ==
  ASSUME IInv, [Next]_vars, outcome' # "running", saved' = saved
  PROVE  IInv'
<1>1. TypeOK' /\ req' = req
  BY StepType DEF IInv, Next, Driver, Gpg, Terminated, EditIgnore, EditAnswer, EditThrow,
     EditWriteFails, Abort, Announce, Inform, ReadSelect, ReadCommand, ReadQuit, ReadValue,
     RefuseValue, FailCommand, ReadConfirmation, ReadSave, Reads, vars
<1> QED
  BY <1>1 DEF IInv, AtMostOneSaved, AllowedChanges, RequestedTarget, RequestedArgs, Running

\* A change with the requested values and target is allowed.
LEMMA AllowedChange ==
  ASSUME NEW r \in Requests, NEW args, NEW target,
         \/ args = RequestedArgs(r)
         \/ args = RequestedArgs(r) \ {<<"keygen.size", "length">>},
         target = RequestedTarget(r)
  PROVE  [op |-> r.op, target |-> target, args |-> args] \in AllowedChanges(r)
BY DEF AllowedChanges

LEMMA DriverInvariant == IInv /\ Driver => IInv'
<1> SUFFICES ASSUME IInv, Driver PROVE IInv'
  OBVIOUS
<1>0. TypeOK' /\ TypeOK /\ req' = req
  BY StepType DEF IInv, Next, Driver, EditIgnore, EditAnswer, EditThrow, EditWriteFails, Abort
<1>1. CASE EditIgnore
  BY <1>0, <1>1 DEF EditIgnore, gpgVars, IInv, AtMostOneSaved, Running, InStep, Selection,
     Unselected, Work, Gains, Stranded, Prompts, Confirmations, ValuePrompts, MENU, SAVEQ
<1>2. CASE EditAnswer
  <2>1. PICK s \in Successors :
          s \in DOMAIN Action(req) /\ state' = s /\ input' = Action(req)[s]
    BY <1>2 DEF EditAnswer
  <2>2. /\ event = at /\ event \in Prompts /\ event' = "none" /\ Running
        /\ UNCHANGED <<gpgVars, saved, outcome>>
        /\ req \in Requests
    BY <1>0, <1>2 DEF EditAnswer, IInv, InStep, TypeOK
  <2>3. input = NoLine /\ Rest(req.op, state, at)
    BY <2>2 DEF IInv, InStep, Prompts, Confirmations, ValuePrompts, MENU, SAVEQ
  <2>4. <<state, at, s>> \in Transit(req.op)
    BY <2>1, <2>2, SuccessorsAreStates
  <2>a. input' # NoLine
    BY <2>1, <2>2, LineType, NoLineIsNoLine
  <2>5. InStep'
    <3>1. Sent(req.op, s, at)
      BY <2>2, <2>3, <2>4, AnswerIsSent
    <3> QED
      BY <1>0, <2>1, <2>2, <2>a, <3>1 DEF InStep, gpgVars, Prompts, Confirmations,
         ValuePrompts, MENU, SAVEQ
  <2>6. Selection'
    <3>1. Unselected' <=> s = "SELECT"
      BY <2>1, <2>2, <2>4, <2>a, TransitOrder DEF Unselected
    <3>2. s = "SELECT" => state = "START"
      BY <2>2, <2>4, TransitOrder
    <3>3. req.op \in {"deluid", "delkey", "expire"} /\ s # "SELECT" => ~Unselected
      BY <2>2, <2>3, <2>4, TransitOrder DEF Unselected
    <3> QED
      BY <1>0, <2>2, <3>1, <3>2, <3>3 DEF IInv, Selection, Unselected, gpgVars
  <2>7. Work'
    BY <1>0, <2>2 DEF IInv, Work, gpgVars
  <2>8. Gains'
    <3>1. ~Stranded
      BY <2>2, <2>4, TransitOrder DEF Stranded
    <3> QED
      BY <1>0, <2>1, <2>2, <2>4, <3>1, TransitOrder DEF IInv, Gains, gpgVars
  <2> QED
    BY <1>0, <2>2, <2>5, <2>6, <2>7, <2>8 DEF IInv, AtMostOneSaved
<1>3. CASE EditThrow
  BY <1>3, EndedKeeps DEF Next, Driver, EditThrow, Abort
<1>4. CASE EditWriteFails
  BY <1>4, EndedKeeps DEF Next, Driver, EditWriteFails, Abort
<1> QED
  BY <1>1, <1>2, <1>3, <1>4 DEF Driver

\* What is known when gpg reads a line at prompt p.
LEMMA Reading ==
  ASSUME IInv, NEW p, Reads(p)
  PROVE  /\ TypeOK /\ req' = req /\ state' = state /\ event' = "none"
         /\ Running /\ at = p /\ input' = NoLine /\ input = Action(req)[state]
         /\ Sent(req.op, state, at)
         /\ Selection /\ Work /\ Gains /\ AtMostOneSaved
         /\ state # "START"
         /\ p # MENU => ~Unselected /\ ~Unselected'
<1>1. Sent(req.op, state, at) /\ event = "none"
  BY DEF IInv, Reads, InStep
<1>2. state # "START" /\ (at # MENU => state # "SELECT")
  BY <1>1 DEF Sent
<1> QED
  BY <1>1, <1>2 DEF IInv, Reads, InStep, Unselected

\* The invariant after gpg has read a line and rests.
LEMMA AtRest ==
  ASSUME IInv, NEW p, Reads(p), TypeOK', AtMostOneSaved', Rest(req.op, state, at'),
         Selection', Work', Gains'
  PROVE  IInv'
BY Reading DEF IInv, InStep, Prompts, Confirmations, ValuePrompts, MENU, SAVEQ

LEMMA GpgWaits == IInv /\ (Announce \/ Inform \/ ReadSelect \/ ReadCommand \/ ReadQuit) => IInv'
<1> SUFFICES ASSUME IInv, Announce \/ Inform \/ ReadSelect \/ ReadCommand \/ ReadQuit
             PROVE  IInv'
  OBVIOUS
<1>0. TypeOK' /\ TypeOK
  BY StepType DEF IInv, Next, Gpg
<1>1. CASE Announce
  BY <1>0, <1>1 DEF Announce, Quiet, gpgVars, IInv, AtMostOneSaved, Running, InStep,
     Selection, Unselected, Work, Gains, Stranded
<1>2. CASE Inform
  BY <1>0, <1>2 DEF Inform, Quiet, gpgVars, IInv, AtMostOneSaved, Running, InStep,
     Selection, Unselected, Work, Gains, Stranded, Informational, Prompts, Confirmations,
     ValuePrompts, MENU, SAVEQ
<1>3. CASE ReadSelect
  <2>1. Reads(MENU)
    BY <1>3 DEF ReadSelect
  <2> USE Reading, <2>1
  <2>2. input.word \in {"uid", "key"}
    BY <1>3 DEF ReadSelect
  <2>3. req \in Requests /\ at = MENU /\ at' = MENU /\ state' = state /\ req' = req
    BY <1>0, <1>3 DEF ReadSelect, TypeOK
  <2>4. /\ state = "SELECT"
        /\ \/ req.op = "deluid" /\ input = UidLine(req.index)
           \/ req.op \in {"delkey", "expire"} /\ input = KeyLine(req.index)
    BY <2>2, <2>3, SentAtMenu, OpCases DEF Ops
  <2>5. Rest(req.op, state, at')
    BY <2>3, <2>4 DEF Rest
  <2>6. Selection'
    <3>1. uidSel = {} /\ keySel = {} /\ ~Unselected'
      BY <2>3, <2>4 DEF Selection, Unselected, Reads
    <3>2. CASE req.op = "deluid"
      <4>1. uidSel' = Toggle({}, req.index + 1, 1..NUids)
        BY <1>3, <2>4, <3>1, <3>2 DEF ReadSelect, UidLine
      <4> QED
        BY <2>3, <3>1, <3>2, <4>1 DEF Selection, Toggle
    <3>3. CASE req.op \in {"delkey", "expire"}
      <4>1. keySel' = Toggle({}, req.index, 1..NKeys)
        BY <1>3, <2>4, <3>1, <3>3 DEF ReadSelect, KeyLine
      <4>2. Toggle({}, req.index, 1..NKeys) = {req.index} \cap (1..NKeys)
        BY SizeAssumption DEF Toggle
      <4> QED
        BY <2>3, <3>1, <3>3, <4>1, <4>2 DEF Selection
    <3> QED
      BY <2>4, <3>2, <3>3
  <2>7. Work' /\ Gains' /\ AtMostOneSaved'
    BY <1>3, <2>3, <2>4 DEF ReadSelect, Work, Gains, Stranded, AtMostOneSaved, MENU, SAVEQ
  <2> QED
    BY <1>0, <2>1, <2>5, <2>6, <2>7, AtRest
<1>4. CASE ReadCommand
  <2>1. Reads(MENU)
    BY <1>4 DEF ReadCommand
  <2> USE Reading, <2>1
  <2>2. input.word \notin {"uid", "key", "quit"}
    BY <1>4 DEF ReadCommand
  <2>3. req \in Requests /\ at = MENU /\ state' = state /\ req' = req
    BY <1>0, <1>4 DEF TypeOK
  <2>4. state = "COMMAND" /\ input.word = req.op
    <3>1. input # UidLine(req.index) /\ input # KeyLine(req.index)
      BY <2>2 DEF UidLine, KeyLine
    <3> QED
      BY <2>2, <2>3, <3>1, SentAtMenu
  <2>5. at' = FirstPrompt(req.op) /\ doing' = req.op /\ draft' = {}
        /\ UNCHANGED <<uidSel, keySel, pending, saved>>
    BY <1>4, <2>4 DEF ReadCommand
  <2>6. pending = {} /\ saved = {}
    BY <2>4 DEF Gains
  <2>7. Rest(req.op, state, at')
    BY <2>3, <2>4, <2>5, OpCases DEF FirstPrompt, Rest, Ops, MENU
  <2>8. Selection'
    BY <2>3, <2>4, <2>5 DEF Selection, Unselected
  <2>9. Work'
    BY <2>3, <2>5, <2>6, OpCases DEF Work, FirstPrompt, DraftAt, Ops, MENU, SAVEQ
  <2>10. Gains' /\ AtMostOneSaved'
    BY <2>3, <2>5, <2>6 DEF Gains, AtMostOneSaved
  <2> QED
    BY <1>0, <2>1, <2>7, <2>8, <2>9, <2>10, AtRest
<1>5. CASE ReadQuit
  <2>1. Reads(MENU)
    BY <1>5 DEF ReadQuit
  <2> USE Reading, <2>1
  <2>2. CASE outcome' = "done"
    BY <1>5, <2>2, EndedKeeps DEF ReadQuit, Next, Gpg
  <2>3. CASE at' = SAVEQ
    <3>1. req \in Requests /\ at = MENU /\ state' = state /\ req' = req
          /\ UNCHANGED <<doing, uidSel, keySel, draft, pending, saved>>
      BY <1>0, <1>5 DEF TypeOK, ReadQuit
    <3>2. state = "QUIT"
      <4>1. input # UidLine(req.index) /\ input # KeyLine(req.index) /\ input.word = "quit"
        BY <1>5 DEF UidLine, KeyLine, ReadQuit
      <4>2. input.word # req.op
        BY <3>1, <4>1, OpCases DEF Ops
      <4> QED
        BY <3>1, <4>1, <4>2, SentAtMenu
    <3>3. Rest(req.op, state, at')
      BY <2>3, <3>2 DEF Rest
    <3>4. Selection'
      BY <3>1, <3>2 DEF Selection, Unselected
    <3>5. Work'
      BY <2>3, <3>1 DEF Work, MENU, SAVEQ
    <3>6. Gains' /\ AtMostOneSaved'
      BY <3>1, <3>2 DEF Gains, Stranded, AtMostOneSaved, Reads
    <3> QED
      BY <1>0, <2>1, <3>3, <3>4, <3>5, <3>6, AtRest
  <2> QED
    BY <1>5, <2>2, <2>3 DEF ReadQuit
<1> QED
  BY <1>1, <1>2, <1>3, <1>4, <1>5

\* A command that has read a value or a confirmation leaves the selection alone.
LEMMA SelectionStays ==
  ASSUME IInv, NEW p, Reads(p), p # MENU, UNCHANGED <<uidSel, keySel>>
  PROVE  Selection'
BY Reading DEF Selection

\* Performing an allowed change at the end of a command keeps what is gained in order.
LEMMA PerformGains ==
  ASSUME IInv, NEW p, p \notin {MENU, SAVEQ}, Reads(p), NEW args, Perform(args), at' = MENU,
         Change(args) \in AllowedChanges(req) \/ (req.op = "adduid" /\ state = "QUIT")
  PROVE  Gains' /\ AtMostOneSaved'
<1> USE Reading
<1>1. pending = {} /\ saved = {} /\ doing = req.op /\ req' = req /\ state' = state
  BY DEF Work
<1>2. state \notin {"START", "SELECT", "COMMAND"}
  BY DEF Sent, MENU, SAVEQ
<1>3. CASE doing = "trust"
  <2>1. saved' = {Change(args)} /\ pending' = {}
    BY <1>1, <1>3 DEF Perform
  <2>2. saved' \subseteq AllowedChanges(req)
    BY <1>1, <1>3, <2>1
  <2>3. AllowedChanges(req)' = AllowedChanges(req)
    BY <1>1 DEF AllowedChanges, RequestedTarget, RequestedArgs
  <2> QED
    BY <1>1, <1>2, <2>1, <2>2, <2>3 DEF Gains, AtMostOneSaved
<1>4. CASE doing # "trust"
  <2>1. pending' = {Change(args)} /\ saved' = {}
    BY <1>1, <1>4 DEF Perform
  <2>2. pending' \subseteq AllowedChanges(req) \/ Stranded'
    BY <1>1, <2>1 DEF Stranded
  <2>3. AllowedChanges(req)' = AllowedChanges(req)
    BY <1>1 DEF AllowedChanges, RequestedTarget, RequestedArgs
  <2> QED
    BY <1>1, <1>2, <2>1, <2>2, <2>3 DEF Gains, AtMostOneSaved
<1> QED
  BY <1>3, <1>4

LEMMA NothingGained ==
  ASSUME IInv, NEW p, p \notin {MENU, SAVEQ}, Reads(p), UNCHANGED <<pending, saved>>
  PROVE  Gains' /\ AtMostOneSaved'
<1>1. pending = {} /\ saved = {}
  BY Reading DEF Work
<1> QED
  BY <1>1 DEF Gains, AtMostOneSaved

\* The command that has sent a value is in the state of the prompt.
LEMMA ValueState ==
  ASSUME NEW r \in Requests, NEW s, NEW p \in ValuePrompts, Sent(r.op, s, p)
  PROVE  \/ /\ r.op = "adduid"
            /\ \/ p = "keygen.name" /\ s = "NAME"
               \/ p = "keygen.email" /\ s = "EMAIL"
               \/ p = "keygen.comment" /\ s \in {"COMMENT", "QUIT"}
         \/ /\ r.op = "addkey"
            /\ \/ p = "keygen.algo" /\ s = "TYPE"
               \/ p = "keygen.size" /\ s = "LENGTH"
               \/ p = "keygen.valid" /\ s = "EXPIRES"
         \/ r.op = "trust" /\ p = "edit_ownertrust.value" /\ s = "VALUE"
         \/ r.op = "expire" /\ p = "keygen.valid" /\ s = "DATE"
<1>1. PICK w : w = Action(r)[s].word
  OBVIOUS
<1> QED
  BY <1>1, SentValue

LEMMA RefuseInvariant == IInv /\ (RefuseValue \/ FailCommand) => IInv'
<1> SUFFICES ASSUME IInv, RefuseValue \/ FailCommand PROVE IInv'
  OBVIOUS
<1>0. TypeOK' /\ TypeOK
  BY StepType DEF IInv, Next, Gpg
<1>1. /\ Reads(at) /\ at \in ValuePrompts \cup Confirmations
      /\ at \notin {MENU, SAVEQ}
      /\ UNCHANGED <<uidSel, keySel, draft, doing, pending, saved>>
  BY DEF RefuseValue, FailCommand, ValuePrompts, Confirmations, MENU, SAVEQ
<1> USE Reading
<1>2. req \in Requests /\ req' = req /\ state' = state
  BY <1>0, <1>1 DEF TypeOK
<1>3. Selection' /\ Gains' /\ AtMostOneSaved'
  BY <1>1, SelectionStays, NothingGained
<1>a. Sent(req.op, state, at)
  BY <1>1
<1>4. CASE RefuseValue
  <2>1. at' = at /\ at \in ValuePrompts
    BY <1>4 DEF RefuseValue
  <2>2. Rest(req.op, state, at')
    BY <1>2, <1>a, <2>1, ValueState DEF Rest
  <2>3. Work'
    <3>1. DraftAt(req, at)' = DraftAt(req, at)
      BY <1>2, <2>1 DEF DraftAt
    <3> QED
      BY <1>1, <1>2, <2>1, <3>1 DEF Work
  <2> QED
    BY <1>0, <1>1, <1>3, <2>2, <2>3, AtRest
<1>5. CASE FailCommand
  <2>1. at' = MENU
    BY <1>5 DEF FailCommand
  <2>2. Rest(req.op, state, at')
    <3>1. CASE at \in ValuePrompts
      BY <1>2, <1>a, <2>1, <3>1, ValueState DEF Rest
    <3>2. CASE at \in Confirmations
      BY <1>1, <2>1, <3>2 DEF Sent, Rest, Confirmations, MENU, SAVEQ
    <3> QED
      BY <1>1, <3>1, <3>2
  <2>3. Work'
    BY <2>1 DEF Work, MENU, SAVEQ
  <2> QED
    BY <1>0, <1>1, <1>3, <2>2, <2>3, AtRest
<1> QED
  BY <1>4, <1>5

\* What gpg asks for next, and what it has accepted by then, prompt by prompt.
LEMMA FollowingTable ==
  ASSUME NEW v
  PROVE  /\ Following("keygen.name", v) = {"keygen.email"}
         /\ Following("keygen.email", v) = {"keygen.comment"}
         /\ Following("keygen.comment", v) = {MENU}
         /\ Following("keygen.algo", v) = {"keygen.size", "keygen.valid"}
         /\ Following("keygen.size", v) = {"keygen.valid"}
         /\ Following("keygen.valid", v) = {MENU}
         /\ Following("edit_ownertrust.value", v)
              \subseteq {"edit_ownertrust.set_ultimate.okay", MENU}
BY DEF Following

LEMMA DraftTable ==
  ASSUME NEW r
  PROVE  /\ DraftAt(r, "keygen.name") = {{}}
         /\ DraftAt(r, "keygen.email") = {{<<"keygen.name", "name">>}}
         /\ DraftAt(r, "keygen.comment") =
              {{<<"keygen.name", "name">>, <<"keygen.email", "email">>}}
         /\ DraftAt(r, "keygen.algo") = {{}}
         /\ DraftAt(r, "keygen.size") = {{<<"keygen.algo", "type">>}}
         /\ r.op = "addkey" => DraftAt(r, "keygen.valid") =
              {{<<"keygen.algo", "type">>},
               {<<"keygen.algo", "type">>, <<"keygen.size", "length">>}}
         /\ r.op # "addkey" => DraftAt(r, "keygen.valid") = {{}}
         /\ DraftAt(r, "edit_ownertrust.value") = {{}}
         /\ DraftAt(r, "edit_ownertrust.set_ultimate.okay") =
              {{<<"edit_ownertrust.value", r.value>>}}
BY DEF DraftAt

\* gpg accepts a value: either it asks for the next one with what it has accepted so
\* far, or the command has all the requested values (or those of the stranded user id).
LEMMA AcceptedValue ==
  ASSUME IInv, ReadValue
  PROVE  /\ Rest(req.op, state, at')
         /\ at' # MENU => /\ draft' \in DraftAt(req, at')
                          /\ at' \notin {"keyedit.remove.uid.okay",
                                        "keyedit.remove.subkey.okay"}
         /\ at' = MENU => \/ Change(draft') \in AllowedChanges(req)
                          \/ req.op = "adduid" /\ state = "QUIT"
<1>1. /\ Reads(at) /\ at \in ValuePrompts /\ at \notin {MENU, SAVEQ}
      /\ draft' = draft \cup {<<at, input.word>>} /\ at' \in Following(at, input.word)
  BY DEF ReadValue, ValuePrompts, MENU, SAVEQ
<1>0. /\ TypeOK /\ req' = req /\ state' = state /\ Selection /\ Work
      /\ Sent(req.op, state, at) /\ input = Action(req)[state] /\ ~Unselected
  BY <1>1, Reading
<1>2. req \in Requests /\ doing = req.op /\ draft \in DraftAt(req, at)
  BY <1>0, <1>1 DEF TypeOK, Work
<1>a. \/ /\ req.op = "adduid"
         /\ \/ at = "keygen.name" /\ state = "NAME" /\ input.word = "name"
            \/ at = "keygen.email" /\ state = "EMAIL" /\ input.word = "email"
            \/ at = "keygen.comment" /\ state = "COMMENT" /\ input.word = "comment"
            \/ at = "keygen.comment" /\ state = "QUIT" /\ input.word = "quit"
      \/ /\ req.op = "addkey"
         /\ \/ at = "keygen.algo" /\ state = "TYPE" /\ input.word = "type"
            \/ at = "keygen.size" /\ state = "LENGTH" /\ input.word = "length"
            \/ at = "keygen.valid" /\ state = "EXPIRES" /\ input.word = "expires"
      \/ req.op = "trust" /\ at = "edit_ownertrust.value" /\ state = "VALUE"
         /\ input.word = req.value
      \/ req.op = "expire" /\ at = "keygen.valid" /\ state = "DATE"
         /\ input.word = "expires"
  <2>1. Sent(req.op, state, at) /\ input.word = Action(req)[state].word
    BY <1>0
  <2> QED
    BY <1>1, <1>2, <2>1, SentValue
<1>b. /\ at' \in Following(at, input.word) /\ draft \in DraftAt(req, at)
  BY <1>1, <1>2
<1>3. CASE req.op = "adduid"
  <2>1. Target = {} /\ RequestedTarget(req) = {}
    BY <1>2, <1>3 DEF Target, RequestedTarget
  <2>2. CASE at = "keygen.name"
    <3>1. state = "NAME" /\ input.word = "name" /\ at' = "keygen.email" /\ draft = {}
      BY <1>a, <1>b, <1>3, <2>2, FollowingTable, DraftTable
    <3> QED
      BY <1>1, <1>3, <2>2, <3>1, DraftTable DEF Rest, MENU
  <2>3. CASE at = "keygen.email"
    <3>1. /\ state = "EMAIL" /\ input.word = "email" /\ at' = "keygen.comment"
          /\ draft = {<<"keygen.name", "name">>}
      BY <1>a, <1>b, <1>3, <2>3, FollowingTable, DraftTable
    <3> QED
      BY <1>1, <1>3, <2>3, <3>1, DraftTable DEF Rest, MENU
  <2>4. CASE at = "keygen.comment"
    <3>1. /\ state \in {"COMMENT", "QUIT"} /\ at' = MENU
          /\ state = "COMMENT" => input.word = "comment"
          /\ draft = {<<"keygen.name", "name">>, <<"keygen.email", "email">>}
      BY <1>a, <1>b, <1>3, <2>4, FollowingTable, DraftTable
    <3>2. state = "COMMENT" => draft' = RequestedArgs(req)
      BY <1>1, <1>3, <2>4, <3>1 DEF RequestedArgs
    <3> QED
      BY <1>2, <1>3, <2>1, <3>1, <3>2, AllowedChange DEF Rest, Change
  <2> QED
    BY <1>a, <1>3, <2>2, <2>3, <2>4
<1>4. CASE req.op = "addkey"
  <2>1. Target = {} /\ RequestedTarget(req) = {}
    BY <1>2, <1>4 DEF Target, RequestedTarget
  <2>2. CASE at = "keygen.algo"
    <3>1. /\ state = "TYPE" /\ input.word = "type" /\ draft = {}
          /\ at' \in {"keygen.size", "keygen.valid"}
      BY <1>a, <1>b, <1>4, <2>2, FollowingTable, DraftTable
    <3> QED
      BY <1>1, <1>4, <2>2, <3>1, DraftTable DEF Rest, MENU
  <2>3. CASE at = "keygen.size"
    <3>1. /\ state = "LENGTH" /\ input.word = "length" /\ at' = "keygen.valid"
          /\ draft = {<<"keygen.algo", "type">>}
      BY <1>a, <1>b, <1>4, <2>3, FollowingTable, DraftTable
    <3> QED
      BY <1>1, <1>4, <2>3, <3>1, DraftTable DEF Rest, MENU
  <2>4. CASE at = "keygen.valid"
    <3>1. /\ state = "EXPIRES" /\ input.word = "expires" /\ at' = MENU
          /\ draft \in {{<<"keygen.algo", "type">>},
                       {<<"keygen.algo", "type">>, <<"keygen.size", "length">>}}
      BY <1>a, <1>b, <1>4, <2>4, FollowingTable, DraftTable
    <3>2. \/ draft' = RequestedArgs(req)
          \/ draft' = RequestedArgs(req) \ {<<"keygen.size", "length">>}
      <4>1. RequestedArgs(req) = {<<"keygen.algo", "type">>, <<"keygen.size", "length">>,
                                  <<"keygen.valid", "expires">>}
        BY <1>4 DEF RequestedArgs
      <4>2. CASE draft = {<<"keygen.algo", "type">>}
        BY <1>1, <2>4, <3>1, <4>1, <4>2
      <4>3. CASE draft = {<<"keygen.algo", "type">>, <<"keygen.size", "length">>}
        BY <1>1, <2>4, <3>1, <4>1, <4>3
      <4> QED
        BY <3>1, <4>2, <4>3
    <3> QED
      BY <1>2, <1>4, <2>1, <3>1, <3>2, AllowedChange DEF Rest, Change
  <2> QED
    BY <1>a, <1>4, <2>2, <2>3, <2>4
<1>5. CASE req.op = "trust"
  <2>1. Target = {} /\ RequestedTarget(req) = {}
    BY <1>2, <1>5 DEF Target, RequestedTarget
  <2>2. at = "edit_ownertrust.value" /\ state = "VALUE" /\ input.word = req.value
    BY <1>a, <1>5
  <2>3. draft' = {<<"edit_ownertrust.value", req.value>>}
    BY <1>1, <1>2, <2>2, DraftTable
  <2>4. at' \in {"edit_ownertrust.set_ultimate.okay", MENU}
    BY <1>1, <2>2, FollowingTable
  <2>5. draft' = RequestedArgs(req)
    BY <1>5, <2>3 DEF RequestedArgs
  <2>6. Change(draft') \in AllowedChanges(req)
    BY <1>2, <2>1, <2>5, AllowedChange DEF Change
  <2>7. at' # MENU => draft' \in DraftAt(req, at')
    BY <2>3, <2>4, DraftTable
  <2> QED
    BY <1>5, <2>2, <2>4, <2>6, <2>7 DEF Rest
<1>6. CASE req.op = "expire"
  <2>1. /\ at = "keygen.valid" /\ state = "DATE" /\ input.word = "expires"
        /\ at' = MENU /\ draft = {}
    BY <1>a, <1>b, <1>6, FollowingTable, DraftTable
  <2>2. draft' = RequestedArgs(req)
    BY <1>1, <1>6, <2>1 DEF RequestedArgs
  <2>3. keySel = {req.index} \cap (1..NKeys) /\ req.index \in 0..(NKeys + 1)
    BY <1>0, <1>2, <1>6, OpCases DEF Selection
  <2>4. CASE req.index \in 1..NKeys
    <3>1. Target = RequestedTarget(req)
      BY <1>2, <1>6, <2>3, <2>4 DEF Target, RequestedTarget
    <3> QED
      BY <1>2, <1>6, <2>1, <2>2, <3>1, AllowedChange DEF Rest, Change
  <2>5. CASE req.index = 0
    <3>1. Target = RequestedTarget(req)
      BY <1>2, <1>6, <2>3, <2>5, SizeAssumption DEF Target, RequestedTarget
    <3> QED
      BY <1>2, <1>6, <2>1, <2>2, <3>1, AllowedChange DEF Rest, Change
  <2>6. CASE req.index > NKeys
    <3>1. Target = {0}
      BY <1>2, <1>6, <2>3, <2>6, SizeAssumption DEF Target
    <3> QED
      BY <1>2, <1>6, <2>1, <2>2, <2>6, <3>1 DEF Rest, Change, AllowedChanges
  <2> QED
    BY <2>3, <2>4, <2>5, <2>6, SizeAssumption
<1> QED
  BY <1>a, <1>3, <1>4, <1>5, <1>6

LEMMA AcceptInvariant == IInv /\ ReadValue => IInv'
<1> SUFFICES ASSUME IInv, ReadValue PROVE IInv'
  OBVIOUS
<1>1. /\ Reads(at) /\ at \notin {MENU, SAVEQ}
      /\ UNCHANGED <<doing, uidSel, keySel>>
      /\ IF at' = MENU THEN Perform(draft') ELSE UNCHANGED <<pending, saved>>
  BY DEF ReadValue, ValuePrompts, MENU, SAVEQ
<1>2. TypeOK' /\ req' = req /\ state' = state /\ Work
  BY <1>1, Reading, StepType DEF IInv, Next, Gpg
<1>3. Selection'
  BY <1>1, SelectionStays
<1>4. CASE at' = MENU
  <2>1. Gains' /\ AtMostOneSaved'
    BY <1>1, <1>4, AcceptedValue, PerformGains
  <2>2. Work'
    BY <1>4 DEF Work, MENU, SAVEQ
  <2> QED
    BY <1>1, <1>2, <1>3, <2>1, <2>2, AcceptedValue, AtRest
<1>5. CASE at' # MENU
  <2>1. UNCHANGED <<pending, saved>>
    BY <1>1, <1>5
  <2>2. Gains' /\ AtMostOneSaved'
    BY <1>1, <2>1, NothingGained
  <2>3. Work'
    <3>1. DraftAt(req, at') = DraftAt(req, at)'
      BY <1>2 DEF DraftAt
    <3> QED
      BY <1>1, <1>2, <1>5, <2>1, <3>1, AcceptedValue DEF Work
  <2> QED
    BY <1>1, <1>2, <1>3, <2>2, <2>3, AcceptedValue, AtRest
<1> QED
  BY <1>4, <1>5

LEMMA ConfirmInvariant == IInv /\ ReadConfirmation => IInv'
<1> SUFFICES ASSUME IInv, ReadConfirmation PROVE IInv'
  OBVIOUS
<1>1. /\ Reads(at) /\ at \in Confirmations /\ at \notin {MENU, SAVEQ} /\ at' = MENU
      /\ UNCHANGED <<doing, uidSel, keySel, draft>>
      /\ IF input.word = "Y" THEN Perform(draft) ELSE UNCHANGED <<pending, saved>>
  BY DEF ReadConfirmation, Confirmations, MENU, SAVEQ
<1>2. /\ TypeOK' /\ req \in Requests /\ req' = req /\ state' = state
      /\ Sent(req.op, state, at) /\ Work /\ Selection /\ ~Unselected
  BY <1>1, Reading, StepType DEF IInv, Next, Gpg, TypeOK
<1>3. \/ req.op = "deluid" /\ at = "keyedit.remove.uid.okay" /\ state = "CONFIRM"
      \/ req.op = "delkey" /\ at = "keyedit.remove.subkey.okay" /\ state = "CONFIRM"
      \/ req.op = "trust" /\ at = "edit_ownertrust.set_ultimate.okay" /\ state = "CONFIRM"
  BY <1>1, <1>2 DEF Sent, Confirmations, MENU, SAVEQ
<1>4. Rest(req.op, state, at')
  BY <1>1, <1>3 DEF Rest
<1>5. doing = req.op /\ draft \in DraftAt(req, at)
  BY <1>1, <1>2 DEF Work
<1>6. Change(draft) \in AllowedChanges(req)
  <2>1. CASE req.op = "deluid"
    <3>1. draft = RequestedArgs(req)
      BY <1>3, <1>5, <2>1 DEF DraftAt, RequestedArgs
    <3>2. Target = RequestedTarget(req)
      BY <1>2, <1>3, <1>5, <2>1 DEF Target, RequestedTarget, Selection, Work
    <3> QED
      BY <1>2, <1>5, <3>1, <3>2, AllowedChange DEF Change
  <2>2. CASE req.op = "delkey"
    <3>1. draft = RequestedArgs(req)
      BY <1>3, <1>5, <2>2 DEF DraftAt, RequestedArgs
    <3>2. Target = RequestedTarget(req)
      BY <1>2, <1>3, <1>5, <2>2 DEF Target, RequestedTarget, Selection, Work
    <3> QED
      BY <1>2, <1>5, <3>1, <3>2, AllowedChange DEF Change
  <2>3. CASE req.op = "trust"
    <3>1. draft = RequestedArgs(req)
      BY <1>3, <1>5, <2>3, DraftTable DEF RequestedArgs
    <3>2. Target = RequestedTarget(req)
      BY <1>5, <2>3 DEF Target, RequestedTarget
    <3> QED
      BY <1>2, <1>5, <3>1, <3>2, AllowedChange DEF Change
  <2> QED
    BY <1>3, <2>1, <2>2, <2>3
<1>7. Gains' /\ AtMostOneSaved'
  BY <1>1, <1>6, PerformGains, NothingGained
<1>8. Selection' /\ Work'
  BY <1>1, SelectionStays DEF Work, MENU, SAVEQ
<1> QED
  BY <1>1, <1>2, <1>4, <1>7, <1>8, AtRest

\* Writing what gpg holds in memory, which is nothing or the one allowed change.
LEMMA SaveInvariant == IInv /\ ReadSave => IInv'
<1> SUFFICES ASSUME IInv, ReadSave PROVE IInv'
  OBVIOUS
<1>1. Reads(SAVEQ) /\ saved' \in {saved, saved \cup pending} /\ outcome' = "done"
  BY DEF ReadSave
<1>2. /\ TypeOK' /\ req' = req /\ Gains /\ AtMostOneSaved /\ at = SAVEQ
  BY <1>1, Reading, StepType DEF IInv, Next, Gpg
<1>3. pending \subseteq AllowedChanges(req)
  BY <1>2 DEF Gains, Stranded, MENU, SAVEQ
<1>4. saved' \subseteq AllowedChanges(req) /\ \A c, d \in saved' : c = d
  BY <1>1, <1>2, <1>3 DEF Gains, AtMostOneSaved
<1>5. AllowedChanges(req)' = AllowedChanges(req)
  BY <1>2 DEF AllowedChanges, RequestedTarget, RequestedArgs
<1> QED
  BY <1>1, <1>2, <1>4, <1>5 DEF IInv, AtMostOneSaved, Running

LEMMA StepInvariant == IInv /\ [Next]_vars => IInv'
<1> SUFFICES ASSUME IInv, [Next]_vars PROVE IInv'
  OBVIOUS
<1>1. CASE UNCHANGED vars
  BY <1>1 DEF vars, driverVars, gpgVars, IInv, TypeOK, AtMostOneSaved, Running, InStep,
     Selection, Unselected, Work, Gains, Stranded
<1> QED
  BY <1>1, DriverInvariant, GpgWaits, AcceptInvariant, RefuseInvariant, ConfirmInvariant,
     SaveInvariant DEF Next, Gpg, Terminated

LEMMA AtMostOneIsAllowed == IInv => SavedIsAllowed
<1> SUFFICES ASSUME IInv PROVE SavedIsAllowed
  OBVIOUS
<1>1. CASE saved = {}
  BY <1>1, FS_EmptySet DEF SavedIsAllowed
<1>2. CASE saved # {}
  <2>1. PICK c : saved = {c}
    BY <1>2 DEF IInv, AtMostOneSaved
  <2>2. Cardinality(saved) = 1
    BY <2>1, FS_Singleton
  <2> QED
    BY <2>2 DEF SavedIsAllowed, IInv, AtMostOneSaved
<1> QED
  BY <1>1, <1>2

\* However gpg asks, refuses, reports and fails, an edit adds to the key ring the
\* requested change or nothing, for every number of user ids and subkeys.
THEOREM SavedAllowed == Spec => []SavedIsAllowed
BY InitInvariant, StepInvariant, AtMostOneIsAllowed, PTL DEF Spec

---------------------------------------------------------------------------
(* A session in which gpg refuses and reports nothing.                      *)

\* Where gpg rests then: each of these prompts has an answer in the command's table.
SmoothRest(op, s, p) ==
  \/ s = "START" /\ p = MENU
  \/ s = "QUIT" /\ p = SAVEQ
  \/ op \in {"deluid", "delkey", "expire"} /\ s = "SELECT" /\ p = MENU
  \/ op = "adduid" /\ \/ s = "COMMAND" /\ p = "keygen.name"
                      \/ s = "NAME" /\ p = "keygen.email"
                      \/ s = "EMAIL" /\ p = "keygen.comment"
                      \/ s = "COMMENT" /\ p = MENU
  \/ op = "deluid" /\ \/ s = "COMMAND" /\ p = "keyedit.remove.uid.okay"
                      \/ s = "CONFIRM" /\ p = MENU
  \/ op = "addkey" /\ \/ s = "COMMAND" /\ p = "keygen.algo"
                      \/ s = "TYPE" /\ p \in {"keygen.size", "keygen.valid"}
                      \/ s = "LENGTH" /\ p = "keygen.valid"
                      \/ s = "EXPIRES" /\ p = MENU
  \/ op = "delkey" /\ \/ s = "COMMAND" /\ p = "keyedit.remove.subkey.okay"
                      \/ s = "CONFIRM" /\ p = MENU
  \/ op = "trust" /\ \/ s = "COMMAND" /\ p = "edit_ownertrust.value"
                     \/ s = "VALUE" /\ p \in {MENU, "edit_ownertrust.set_ultimate.okay"}
                     \/ s = "CONFIRM" /\ p = MENU
  \/ op = "expire" /\ \/ s = "COMMAND" /\ p = "keygen.valid"
                      \/ s = "DATE" /\ p = MENU

\* gpg is back at the menu, or asks whether to save, after the command.
CommandOver ==
  at = SAVEQ \/ (at = MENU /\ state \notin {"START", "SELECT", "COMMAND"})

\* No answer is missing, none goes astray, and the change is there once the command is over.
GoesWell ==
  /\ event # "other"
  /\ input = NoLine => SmoothRest(req.op, state, at)
  /\ input # NoLine /\ at = "keygen.comment" => state = "COMMENT"
  /\ CommandOver => pending \cup saved # {}

SmoothInv ==
  smooth => /\ outcome # "failed"
            /\ outcome = "done" => saved # {}
            /\ Running => GoesWell

\* The command's table answers every prompt of such a session.  From the menu it gives the
\* command, unless the command is over.
LEMMA SmoothAnswer ==
  ASSUME NEW r \in Requests, NEW s, NEW p, SmoothRest(r.op, s, p)
  PROVE  /\ \E t : <<s, p, t>> \in Transit(r.op)
         /\ \A t : <<s, p, t>> \in Transit(r.op) =>
              /\ p = "keygen.comment" => t = "COMMENT"
              /\ p = MENU /\ s \in {"START", "SELECT", "COMMAND"} => t \in {"SELECT", "COMMAND"}
<1>1. CASE r.op = "adduid"
  BY <1>1 DEF Transit, AddUidTransit, AfterComment, SmoothRest, MENU, SAVEQ, Prompts,
     Confirmations, ValuePrompts
<1>2. CASE r.op = "deluid"
  BY <1>2 DEF Transit, DelUidTransit, SmoothRest, MENU, SAVEQ
<1>3. CASE r.op = "addkey"
  BY <1>3 DEF Transit, AddKeyTransit, SmoothRest, MENU, SAVEQ
<1>4. CASE r.op = "delkey"
  BY <1>4 DEF Transit, DelKeyTransit, SmoothRest, MENU, SAVEQ
<1>5. CASE r.op = "trust"
  BY <1>5 DEF Transit, TrustTransit, SmoothRest, MENU, SAVEQ
<1>6. CASE r.op = "expire"
  BY <1>6 DEF Transit, ExpireTransit, SmoothRest, MENU, SAVEQ
<1> QED
  BY <1>1, <1>2, <1>3, <1>4, <1>5, <1>6, OpCases DEF Ops

\* A confirmation, and the save question, are answered with Y.
LEMMA SentAnswer ==
  ASSUME NEW r \in Requests, NEW s, NEW p \in Confirmations \cup {SAVEQ}, Sent(r.op, s, p)
  PROVE  Action(r)[s].word = "Y" /\ (p # SAVEQ => s = "CONFIRM")
<1>1. p \notin {MENU} \cup ValuePrompts
  BY DEF Confirmations, ValuePrompts, MENU, SAVEQ
<1>2. CASE r.op = "adduid"
  BY <1>1, <1>2 DEF Sent, SAVEQ, Confirmations, ValuePrompts, Action, AddUidAction, Word
<1>3. CASE r.op = "deluid"
  BY <1>1, <1>3 DEF Sent, SAVEQ, Action, DelUidAction, Word
<1>4. CASE r.op = "addkey"
  BY <1>1, <1>4 DEF Sent, SAVEQ, Confirmations, ValuePrompts, Action, AddKeyAction, Word
<1>5. CASE r.op = "delkey"
  BY <1>1, <1>5 DEF Sent, SAVEQ, Action, DelKeyAction, Word
<1>6. CASE r.op = "trust"
  BY <1>1, <1>6 DEF Sent, SAVEQ, Confirmations, ValuePrompts, Action, TrustAction, Word
<1>7. CASE r.op = "expire"
  BY <1>1, <1>7 DEF Sent, SAVEQ, Confirmations, ValuePrompts, Action, ExpireAction, Word
<1> QED
  BY <1>2, <1>3, <1>4, <1>5, <1>6, <1>7, OpCases DEF Ops

LEMMA InitSmooth == Init => SmoothInv
BY DEF Init, SmoothInv, GoesWell, CommandOver, SmoothRest, MENU, SAVEQ

LEMMA DriverSmooth == IInv /\ SmoothInv /\ Driver => SmoothInv'
<1> SUFFICES ASSUME IInv, SmoothInv, Driver, smooth' PROVE SmoothInv'
  BY DEF SmoothInv
<1>1. CASE EditIgnore
  BY <1>1 DEF EditIgnore, gpgVars, SmoothInv, Running, GoesWell, CommandOver
<1>2. event \in Prompts \cup {"other"} /\ Running /\ smooth =>
        /\ event = at /\ input = NoLine /\ event \in Prompts
        /\ SmoothRest(req.op, state, at) /\ req \in Requests
  BY DEF IInv, TypeOK, InStep, SmoothInv, GoesWell, Prompts, Confirmations, ValuePrompts,
     MENU, SAVEQ
<1>3. CASE EditAnswer
  <2>1. PICK s \in Successors :
          s \in DOMAIN Action(req) /\ state' = s /\ input' = Action(req)[s]
    BY <1>3 DEF EditAnswer
  <2>2. /\ event = at /\ event \in Prompts /\ event' = "none" /\ Running
        /\ UNCHANGED <<req, gpgVars, saved, outcome, smooth>> /\ smooth
        /\ SmoothRest(req.op, state, at) /\ req \in Requests
    BY <1>2, <1>3 DEF EditAnswer
  <2>3. <<state, at, s>> \in Transit(req.op) /\ input' # NoLine
    BY <2>1, <2>2, SuccessorsAreStates, LineType, NoLineIsNoLine
  <2>4. at = "keygen.comment" => s = "COMMENT"
    BY <2>2, <2>3, SmoothAnswer
  <2>5. CommandOver' => CommandOver
    BY <2>1, <2>2, <2>3, SmoothAnswer DEF CommandOver, gpgVars
  <2> QED
    BY <2>1, <2>2, <2>3, <2>4, <2>5 DEF SmoothInv, Running, GoesWell, gpgVars
<1>4. CASE EditThrow
  <2>1. event \in Prompts \cup {"other"} /\ Running /\ smooth
    BY <1>4 DEF EditThrow
  <2>a. event = at /\ SmoothRest(req.op, state, at) /\ req \in Requests
    BY <1>2, <2>1
  <2>2. PICK t : <<state, event, t>> \in Transit(req.op)
    BY <2>a, SmoothAnswer
  <2>3. t \in Successors
    BY <2>2 DEF Successors
  <2>4. event # "other"
    BY <1>2, <2>1 DEF Prompts, Confirmations, ValuePrompts, MENU, SAVEQ
  <2> QED
    BY <1>4, <2>3, <2>4 DEF EditThrow
<1>5. CASE EditWriteFails
  BY <1>5 DEF EditWriteFails
<1> QED
  BY <1>1, <1>3, <1>4, <1>5 DEF Driver

\* The menu is left for the command with a prompt, as long as all goes well, and for the
\* save question only with something to save.
LEMMA MenuSmooth == IInv /\ SmoothInv /\ (ReadSelect \/ ReadCommand \/ ReadQuit) => SmoothInv'
<1> SUFFICES ASSUME IInv, SmoothInv, ReadSelect \/ ReadCommand \/ ReadQuit, smooth'
             PROVE  SmoothInv'
  BY DEF SmoothInv
<1>1. Reads(MENU) /\ smooth
  BY DEF ReadSelect, ReadCommand, ReadQuit
<1>2. /\ req \in Requests /\ req' = req /\ state' = state /\ event' = "none" /\ Running
      /\ at = MENU /\ input' = NoLine /\ input = Action(req)[state] /\ Sent(req.op, state, MENU)
      /\ GoesWell
  BY <1>1, Reading DEF TypeOK, SmoothInv
<1>3. CASE ReadSelect
  <2>1. state = "SELECT" /\ req.op \in {"deluid", "delkey", "expire"}
    <3>1. input.word \in {"uid", "key"}
      BY <1>3 DEF ReadSelect
    <3> QED
      BY <1>2, <3>1, SentAtMenu, OpCases DEF Ops
  <2>2. UNCHANGED <<at, outcome>>
    BY <1>3 DEF ReadSelect
  <2> QED
    BY <1>2, <2>1, <2>2 DEF SmoothInv, Running, GoesWell, CommandOver, SmoothRest, MENU, SAVEQ
<1>4. CASE ReadCommand
  <2>1. state = "COMMAND" /\ input.word = req.op
    <3>1. input.word \notin {"uid", "key", "quit"}
      BY <1>4 DEF ReadCommand
    <3>2. input # UidLine(req.index) /\ input # KeyLine(req.index)
      BY <3>1 DEF UidLine, KeyLine
    <3> QED
      BY <1>2, <3>1, <3>2, SentAtMenu
  <2>2. at' = FirstPrompt(req.op) /\ at' # MENU /\ outcome' = outcome
    BY <1>4, <2>1 DEF ReadCommand
  <2>3. SmoothRest(req.op, state, at')
    BY <1>2, <2>1, <2>2, OpCases DEF FirstPrompt, SmoothRest, Ops
  <2>4. ~CommandOver'
    BY <1>2, <2>1, <2>2, OpCases DEF CommandOver, FirstPrompt, Ops, MENU, SAVEQ
  <2> QED
    BY <1>2, <2>2, <2>3, <2>4 DEF SmoothInv, Running, GoesWell
<1>5. CASE ReadQuit
  <2>1. state = "QUIT"
    <3>1. input # UidLine(req.index) /\ input # KeyLine(req.index) /\ input.word = "quit"
      BY <1>5 DEF UidLine, KeyLine, ReadQuit
    <3>2. input.word # req.op
      BY <1>2, <3>1, OpCases DEF Ops
    <3> QED
      BY <1>2, <3>1, <3>2, SentAtMenu
  <2>2. pending \cup saved # {} /\ UNCHANGED <<pending, saved>>
    BY <1>2, <1>5, <2>1 DEF GoesWell, CommandOver, ReadQuit
  <2>3. \/ at' = SAVEQ /\ outcome' = outcome
        \/ pending = {} /\ outcome' = "done"
    BY <1>5 DEF ReadQuit
  <2> QED
    BY <1>2, <2>1, <2>2, <2>3 DEF SmoothInv, Running, GoesWell, SmoothRest, SAVEQ
<1> QED
  BY <1>3, <1>4, <1>5

\* A value or a confirmation leads to a prompt with an answer, or back to the menu with the
\* change performed.
LEMMA PromptSmooth == IInv /\ SmoothInv /\ (ReadValue \/ ReadConfirmation) => SmoothInv'
<1> SUFFICES ASSUME IInv, SmoothInv, ReadValue \/ ReadConfirmation, smooth'
             PROVE  SmoothInv'
  BY DEF SmoothInv
<1>1. /\ Reads(at) /\ at \in ValuePrompts \cup Confirmations /\ at \notin {MENU, SAVEQ} /\ smooth
      /\ outcome' = outcome
  BY DEF ReadValue, ReadConfirmation, ValuePrompts, Confirmations, MENU, SAVEQ
<1>2. /\ req \in Requests /\ req' = req /\ state' = state /\ event' = "none" /\ Running
      /\ input' = NoLine /\ input # NoLine /\ input = Action(req)[state]
      /\ Sent(req.op, state, at) /\ GoesWell
  BY <1>1, Reading DEF TypeOK, SmoothInv, Reads
<1>3. /\ SmoothRest(req.op, state, at')
      /\ at' # SAVEQ
      /\ at' = MENU => \E args : Perform(args)
  <2>1. CASE ReadValue
    <3>1. /\ at \in ValuePrompts /\ at' \in Following(at, input.word)
          /\ at' = MENU => Perform(draft')
      BY <2>1 DEF ReadValue
    <3>2. at = "keygen.comment" => state = "COMMENT"
      BY <1>2 DEF GoesWell
    <3>3. SmoothRest(req.op, state, at') /\ at' # SAVEQ
      <4>1. CASE req.op = "adduid"
        <5>1. \/ at = "keygen.name" /\ state = "NAME" /\ at' = "keygen.email"
              \/ at = "keygen.email" /\ state = "EMAIL" /\ at' = "keygen.comment"
              \/ at = "keygen.comment" /\ state = "COMMENT" /\ at' = MENU
          BY <1>2, <3>1, <3>2, <4>1, ValueState, FollowingTable
        <5> QED
          BY <4>1, <5>1 DEF SmoothRest, MENU, SAVEQ
      <4>2. CASE req.op = "addkey"
        <5>1. \/ /\ at = "keygen.algo" /\ state = "TYPE"
                 /\ at' \in {"keygen.size", "keygen.valid"}
              \/ at = "keygen.size" /\ state = "LENGTH" /\ at' = "keygen.valid"
              \/ at = "keygen.valid" /\ state = "EXPIRES" /\ at' = MENU
          BY <1>2, <3>1, <4>2, ValueState, FollowingTable
        <5> QED
          BY <4>2, <5>1 DEF SmoothRest, MENU, SAVEQ
      <4>3. CASE req.op = "trust"
        <5>1. state = "VALUE" /\ at' \in {"edit_ownertrust.set_ultimate.okay", MENU}
          BY <1>2, <3>1, <4>3, ValueState, FollowingTable
        <5> QED
          BY <4>3, <5>1 DEF SmoothRest, MENU, SAVEQ
      <4>4. CASE req.op = "expire"
        <5>1. state = "DATE" /\ at' = MENU
          BY <1>2, <3>1, <4>4, ValueState, FollowingTable
        <5> QED
          BY <4>4, <5>1 DEF SmoothRest, MENU, SAVEQ
      <4> QED
        BY <1>2, <3>1, <4>1, <4>2, <4>3, <4>4, ValueState
    <3> QED
      BY <3>1, <3>3
  <2>2. CASE ReadConfirmation
    <3>1. at \in Confirmations /\ at' = MENU /\ (input.word = "Y" => Perform(draft))
      BY <2>2 DEF ReadConfirmation
    <3>2. Perform(draft) /\ state = "CONFIRM" /\ req.op \in {"deluid", "delkey", "trust"}
      BY <1>1, <1>2, <3>1, SentAnswer DEF Sent, Confirmations, MENU, SAVEQ
    <3> QED
      BY <3>1, <3>2 DEF SmoothRest, MENU, SAVEQ
  <2> QED
    BY <2>1, <2>2
<1>4. at' = MENU => pending' \cup saved' # {}
  BY <1>3 DEF Perform
<1> QED
  BY <1>1, <1>2, <1>3, <1>4 DEF SmoothInv, Running, GoesWell, CommandOver

LEMMA StepSmooth == IInv /\ SmoothInv /\ [Next]_vars => SmoothInv'
<1> SUFFICES ASSUME IInv, SmoothInv, [Next]_vars PROVE SmoothInv'
  OBVIOUS
<1>1. CASE Announce
  BY <1>1 DEF Announce, Quiet, gpgVars, IInv, TypeOK, Prompts, Confirmations, ValuePrompts,
     MENU, SAVEQ, SmoothInv, Running, GoesWell, CommandOver
<1>2. CASE Inform
  BY <1>2 DEF Inform, gpgVars, Informational, SmoothInv, Running, GoesWell, CommandOver
<1>3. CASE RefuseValue \/ FailCommand
  BY <1>3 DEF RefuseValue, FailCommand, SmoothInv
<1>4. CASE ReadSave
  <2>1. /\ Reads(SAVEQ) /\ outcome' = "done" /\ smooth' = smooth
        /\ saved' = IF input.word = "Y" THEN saved \cup pending ELSE saved
    BY <1>4 DEF ReadSave
  <2>2. /\ req \in Requests /\ at = SAVEQ /\ input = Action(req)[state]
        /\ Sent(req.op, state, SAVEQ) /\ Running
    BY <2>1, Reading DEF TypeOK
  <2>3. saved' = saved \cup pending
    BY <2>1, <2>2, SentAnswer
  <2> QED
    BY <2>1, <2>2, <2>3 DEF SmoothInv, Running, GoesWell, CommandOver
<1>5. CASE UNCHANGED vars
  BY <1>5 DEF vars, driverVars, gpgVars, SmoothInv, Running, GoesWell, CommandOver
<1> QED
  BY <1>1, <1>2, <1>3, <1>4, <1>5, DriverSmooth, MenuSmooth, PromptSmooth
     DEF Next, Gpg, Terminated

\* A session in which gpg refuses and reports nothing never fails, and ends with the change
\* written, for every number of user ids and subkeys: no prompt is without an answer.
THEOREM SmoothSaves == Spec => []SmoothSessionSaves
<1>1. IInv /\ SmoothInv => SmoothSessionSaves
  BY DEF IInv, SmoothInv, SmoothSessionSaves
<1> QED
  BY <1>1, InitInvariant, InitSmooth, StepInvariant, StepSmooth, PTL DEF Spec

---------------------------------------------------------------------------
(* The session implements EditTransaction.                                  *)

LEMMA StepRefines == IInv /\ [Next]_vars => [Transaction!Next]_(Transaction!tvars)
<1> SUFFICES ASSUME IInv, [Next]_vars PROVE [Transaction!Next]_(Transaction!tvars)
  OBVIOUS
<1>1. req' = req
  BY DEF Next, Driver, Gpg, Terminated, EditIgnore, EditAnswer, EditThrow, EditWriteFails,
     Abort, Announce, Inform, ReadSelect, ReadCommand, ReadQuit, ReadValue, RefuseValue,
     FailCommand, ReadConfirmation, ReadSave, Reads, vars
<1>2. AllowedChanges(req)' = AllowedChanges(req)
  BY <1>1 DEF AllowedChanges, RequestedTarget, RequestedArgs
<1>3. AtMostOneSaved'
  BY StepInvariant DEF IInv
\* The session ends, or goes on, and writes nothing.
<1>4. CASE saved' = saved /\ (outcome' = outcome
                             \/ (Running /\ outcome' \in {"done", "failed"}))
  BY <1>2, <1>4 DEF Transaction!Next, Transaction!Finish, Transaction!tvars, Running
\* It writes a change, and goes on or is done.
<1>5. CASE Running /\ saved = {} /\ saved' # saved /\ outcome' \in {"running", "done"}
  <2>1. PICK c \in AllowedChanges(req) : saved' = {c}
    BY <1>2, <1>3, <1>5 DEF AtMostOneSaved
  <2> QED
    BY <1>2, <1>5, <2>1 DEF Transaction!Next, Transaction!Commit, Running
<1>6. CASE Driver
  BY <1>4, <1>6 DEF Driver, EditIgnore, EditAnswer, EditThrow, EditWriteFails, Abort
<1>7. CASE ReadValue \/ ReadConfirmation
  <2>1. Reads(at) /\ at \notin {MENU, SAVEQ} /\ outcome' = outcome
    BY <1>7 DEF ReadValue, ReadConfirmation, ValuePrompts, Confirmations, MENU, SAVEQ
  <2>2. saved = {} /\ Running
    BY <2>1, Reading DEF Work
  <2> QED
    BY <1>4, <1>5, <2>1, <2>2 DEF Running
<1>8. CASE ReadSave
  <2>1. /\ Reads(SAVEQ) /\ saved' \in {saved, saved \cup pending} /\ outcome' = "done"
    BY <1>8 DEF ReadSave
  <2>2. (pending = {} \/ saved = {}) /\ Running
    BY <2>1, Reading DEF Gains
  <2> QED
    BY <1>4, <1>5, <2>1, <2>2
<1>9. CASE Announce \/ Inform \/ ReadSelect \/ ReadCommand \/ RefuseValue \/ FailCommand
  BY <1>4, <1>9 DEF Announce, Inform, ReadSelect, ReadCommand, RefuseValue, FailCommand
<1>10. CASE ReadQuit
  BY <1>4, <1>10 DEF ReadQuit, Reads
<1>11. CASE UNCHANGED vars
  BY <1>4, <1>11 DEF vars
<1> QED
  BY <1>6, <1>7, <1>8, <1>9, <1>10, <1>11 DEF Next, Gpg, Terminated

\* An edit is a transaction: one of the changes its request allows, written while it
\* runs, or none, whichever way it ends.
THEOREM SessionIsTransaction == Spec => ImplementsTransaction
<1>1. Init => Transaction!Init
  BY DEF Init, Transaction!Init
<1> QED
  BY <1>1, InitInvariant, StepInvariant, StepRefines, PTL
     DEF Spec, ImplementsTransaction, Transaction!Spec
=============================================================================
