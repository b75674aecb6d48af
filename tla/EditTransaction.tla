---------------------------- MODULE EditTransaction ----------------------------
(***************************************************************************)
(* What one key edit promises to the caller of GpgItem.edit: the key ring   *)
(* gains nothing, or exactly one change out of those the request allows,    *)
(* and nothing is written once the outcome has been reported.               *)
(***************************************************************************)
VARIABLES
  allowed,   \* the changes the request may be turned into
  saved,     \* the changes the key ring has gained
  outcome    \* "running", "done" or "failed"

tvars == <<allowed, saved, outcome>>

Init ==
  /\ saved = {}
  /\ outcome = "running"

\* The change may be written some time before the end is reported.
Commit ==
  /\ outcome = "running"
  /\ saved = {}
  /\ \E c \in allowed : saved' = {c}
  /\ outcome' \in {"running", "done"}
  /\ UNCHANGED allowed

Finish ==
  /\ outcome = "running"
  /\ outcome' \in {"done", "failed"}
  /\ UNCHANGED <<allowed, saved>>

Next == Commit \/ Finish

Spec == Init /\ [][Next]_tvars
=============================================================================
