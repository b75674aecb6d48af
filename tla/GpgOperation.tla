------------------------------ MODULE GpgOperation ------------------------------
(***************************************************************************)
(* What the asynchronous methods of GGpgCtx (listing, editing, importing... *)
(* of keys) promise their callers: an operation that has been begun hands   *)
(* over its keys while it runs, ends once, and reports its result once.     *)
(* Some operations are given a GCancellable, the same one.  When it is      *)
(* cancelled they end with an error, and an operation that reports while it *)
(* is cancelled reports an error in any case.                               *)
(***************************************************************************)
EXTENDS Naturals, Sequences

CONSTANTS Ops, Cancellable, MaxKeys

VARIABLES
  phase,      \* of each operation
  result,     \* of an operation that has ended and not reported
  keys,       \* how many keys have been handed over
  reports,    \* the results reported
  cancelled   \* the GCancellable

vars == <<phase, result, keys, reports, cancelled>>

Init ==
  /\ phase = [o \in Ops |-> "idle"]
  /\ result = [o \in Ops |-> "none"]
  /\ keys = [o \in Ops |-> 0]
  /\ reports = [o \in Ops |-> << >>]
  /\ cancelled = FALSE

\* It runs, unless gpg cannot be started or the cancellable is cancelled already.
Begin(o) ==
  /\ phase[o] = "idle"
  /\ \/ /\ ~(cancelled /\ o \in Cancellable)
        /\ phase' = [phase EXCEPT ![o] = "running"]
        /\ UNCHANGED result
     \/ /\ phase' = [phase EXCEPT ![o] = "ended"]
        /\ result' = [result EXCEPT ![o] = "error"]
  /\ UNCHANGED <<keys, reports, cancelled>>

Deliver(o) ==
  /\ phase[o] = "running"
  /\ keys[o] < MaxKeys
  /\ keys' = [keys EXCEPT ![o] = @ + 1]
  /\ UNCHANGED <<phase, result, reports, cancelled>>

End(o) ==
  /\ phase[o] = "running"
  /\ phase' = [phase EXCEPT ![o] = "ended"]
  /\ \E r \in {"ok", "error"} : result' = [result EXCEPT ![o] = r]
  /\ UNCHANGED <<keys, reports, cancelled>>

Cancel ==
  LET hit == {o \in Cancellable : phase[o] = "running"} IN
  /\ ~cancelled
  /\ cancelled' = TRUE
  /\ phase' = [o \in Ops |-> IF o \in hit THEN "ended" ELSE phase[o]]
  /\ result' = [o \in Ops |-> IF o \in hit THEN "error" ELSE result[o]]
  /\ UNCHANGED <<keys, reports>>

Reset == cancelled' = FALSE /\ UNCHANGED <<phase, result, keys, reports>>

Report(o) ==
  /\ phase[o] = "ended"
  /\ phase' = [phase EXCEPT ![o] = "reported"]
  /\ reports' = [reports EXCEPT
                   ![o] = Append(@, IF cancelled /\ o \in Cancellable THEN "error"
                                    ELSE result[o])]
  /\ result' = [result EXCEPT ![o] = "none"]
  /\ UNCHANGED <<keys, cancelled>>

Next ==
  \/ Cancel \/ Reset
  \/ \E o \in Ops : Begin(o) \/ Deliver(o) \/ End(o) \/ Report(o)

Spec == Init /\ [][Next]_vars
=============================================================================
