------------------------------- MODULE GpgSource -------------------------------
(***************************************************************************)
(* The GSource that drives one gpgme operation from the GLib main loop      *)
(* (gpgme-glib/gpgme-glib.c), and the g_gpg_ctx_* functions that begin the  *)
(* operations: they are all alike.                                          *)
(*                                                                          *)
(* gpgme registers descriptors with the source (add, remove), tells it of   *)
(* its start, its keys and its end (event), and does all its work in the    *)
(* handlers the source calls when a descriptor is ready.  Everything runs   *)
(* in the thread of the main loop; what can interleave is what the handlers *)
(* do to the list that is being walked, other operations, the client, and   *)
(* a cancellation.                                                          *)
(***************************************************************************)
EXTENDS Integers, Sequences, FiniteSetsExt

CONSTANTS
  Ops,          \* operations
  Cancellable,  \* those that are given the GCancellable
  Ctxs, CtxOf,  \* GGpgCtx, and that of each operation
  NumFds,       \* descriptors an operation can have
  MaxKeys,      \* bound: keys of a listing
  MaxReads,     \* bound: reads that do not end a descriptor, of each operation
  MaxCancels    \* bound: cancellations

None == "none"

ASSUME SourceAssumption ==
  /\ None \notin Ops
  /\ Cancellable \subseteq Ops
  /\ CtxOf \in [Ops -> Ctxs]
  /\ {NumFds, MaxKeys, MaxReads, MaxCancels} \subseteq Nat

Fds == 1..NumFds

VARIABLES
  src,        \* the source and the GTask of each operation
  io,         \* the operation whose source gets the events of a context
  main,       \* the main loop: the operation it is dispatching
  cancelled,  \* the GCancellable
  keys,       \* keys handed to the callback
  reports,    \* what the GTask has returned
  reads, cancels   \* counters of the bounds

vars == <<src, io, main, cancelled, keys, reports, reads, cancels>>

\* A descriptor is unknown, added (no tag), watched (a tag) or removed.  refs and task
\* count the references to the source and to the task; linked: cancellable_id > 0;
\* failed: gpgme could not start, and GTask returns the error from an idle callback.
New == [state |-> "NONE", err |-> None, fd |-> [f \in Fds |-> "unknown"],
        attached |-> FALSE, linked |-> FALSE, refs |-> 0, task |-> 0, failed |-> FALSE]

Idle == [op |-> None, at |-> None, ready |-> {}]

Init ==
  /\ src = [o \in Ops |-> New]
  /\ io = [c \in Ctxs |-> None]
  /\ main = Idle
  /\ cancelled = FALSE
  /\ keys = [o \in Ops |-> 0]
  /\ reports = [o \in Ops |-> << >>]
  /\ reads = [o \in Ops |-> 0]
  /\ cancels = 0

---------------------------------------------------------------------------
(* The callbacks gpgme is given, as functions of a source.                  *)

Watched(s) == {f \in Fds : s.fd[f] = "watched"}

AddFd(s, f) == [s EXCEPT !.fd[f] = IF s.state = "START" THEN "watched" ELSE "added"]
RemoveFd(s, f) == [s EXCEPT !.fd[f] = "removed"]

Slip_StartWithoutTags(s) == [s EXCEPT !.state = "START"]
StartEvent(s) ==
  [s EXCEPT !.state = "START",
            !.fd = [f \in Fds |-> IF @[f] = "added" THEN "watched" ELSE @[f]]]

Slip_DoneKeepsWatching(s, err) == [s EXCEPT !.state = "DONE", !.err = err]
DoneEvent(s, err) ==
  [s EXCEPT !.state = "DONE", !.err = err,
            !.fd = [f \in Fds |-> IF @[f] = "watched" THEN "removed" ELSE @[f]]]

\* g_object_unref of the task and g_source_unref; the last reference to the source
\* disconnects the cancellable.
UnrefTask(s) == [s EXCEPT !.task = @ - 1]
UnrefSource(s) == [s EXCEPT !.refs = @ - 1, !.linked = @ /\ s.refs # 1]

\* The signal handler runs at once when the cancellable is cancelled already.
ConnectCancellable(s, o) ==
  IF o \notin Cancellable THEN s
  ELSE IF cancelled THEN DoneEvent(s, "error")
  ELSE [s EXCEPT !.linked = TRUE]

AttachSource(s) == [s EXCEPT !.attached = TRUE, !.refs = @ + 1, !.task = @ + 1]

---------------------------------------------------------------------------
(* The client: g_gpg_ctx_keylist, _edit, _import_keys...                    *)

\* The client runs on its own or in the callback of an operation that reports.  It
\* does not begin an operation of a context that is busy.
Client == main.at \in {None, "destroy"}
Free(c) == \A o \in Ops : CtxOf[o] = c => src[o] = New \/ reports[o] # << >>

Fresh == [New EXCEPT !.refs = 1, !.task = 1]

Added(fds) == [Fresh EXCEPT !.fd = [f \in Fds |-> IF f \in fds THEN AddFd(Fresh, f).fd[f]
                                                  ELSE "unknown"]]

\* gpgme opens its descriptors, announces the start, and the source is attached.
Begin(o) ==
  /\ Client
  /\ src[o] = New /\ Free(CtxOf[o])
  /\ \E fds \in SUBSET Fds :
       /\ fds # {}
       /\ src' = [src EXCEPT ![o] =
                    UnrefSource(AttachSource(ConnectCancellable(StartEvent(Added(fds)), o)))]
  /\ io' = [io EXCEPT ![CtxOf[o]] = o]
  /\ UNCHANGED <<main, cancelled, keys, reports, reads, cancels>>

\* gpgme_op_..._start returns an error: the task returns it, and keeps its references.
BeginFails(o) ==
  /\ Client
  /\ src[o] = New /\ Free(CtxOf[o])
  /\ src' = [src EXCEPT ![o] = [Fresh EXCEPT !.failed = TRUE]]
  /\ io' = [io EXCEPT ![CtxOf[o]] = o]
  /\ UNCHANGED <<main, cancelled, keys, reports, reads, cancels>>

\* Every source that is connected calls gpgme_cancel, whose event goes to the source
\* the context has now.
Cancel ==
  /\ Client
  /\ ~cancelled /\ cancels < MaxCancels
  /\ cancelled' = TRUE
  /\ cancels' = cancels + 1
  /\ LET hit == {io[CtxOf[o]] : o \in {p \in Ops : src[p].linked}}
     IN src' = [o \in Ops |-> IF o \in hit THEN DoneEvent(src[o], "error") ELSE src[o]]
  /\ UNCHANGED <<io, main, keys, reports, reads>>

Reset ==
  /\ Client
  /\ cancelled
  /\ cancelled' = FALSE
  /\ UNCHANGED <<src, io, main, keys, reports, reads, cancels>>

---------------------------------------------------------------------------
(* The main loop.                                                           *)

\* prepare, check: the source is ready when it is done or a descriptor it watches is.
Dispatch(o) ==
  /\ main = Idle
  /\ src[o].attached
  /\ \E ready \in SUBSET Watched(src[o]) :
       /\ src[o].state = "DONE" \/ ready # {}
       /\ main' = [op |-> o, at |-> "walk", ready |-> ready]
  /\ UNCHANGED <<src, io, cancelled, keys, reports, reads, cancels>>

\* One turn of the loop in dispatch.  A descriptor that has lost its tag since the loop
\* was ready is passed over; the others have a handler of gpgme called.
Walk(o) == main.op = o /\ main.at = "walk" /\ main.ready # {}
Current == Min(main.ready)
Advance == main' = [main EXCEPT !.ready = @ \ {Current}]

PassOver(o) ==
  /\ Walk(o)
  /\ Current \notin Watched(src[o])
  /\ Advance
  /\ UNCHANGED <<src, io, cancelled, keys, reports, reads, cancels>>

Handle(o) == Walk(o) /\ Current \in Watched(src[o]) /\ Advance

\* gpgme reads, and may have found a key (GPGME_EVENT_NEXT_KEY) or want another descriptor.
Read(o) ==
  /\ Handle(o)
  /\ reads[o] < MaxReads
  /\ reads' = [reads EXCEPT ![o] = @ + 1]
  /\ \/ keys[o] < MaxKeys /\ keys' = [keys EXCEPT ![o] = @ + 1] /\ UNCHANGED src
     \/ \E f \in Fds : /\ src[o].fd[f] = "unknown"
                       /\ src' = [src EXCEPT ![o] = AddFd(@, f)]
                       /\ UNCHANGED keys
  /\ UNCHANGED <<io, cancelled, reports, cancels>>

\* The end of a descriptor; with the last one gpgme announces the end.
EndOfFd(o) ==
  /\ Handle(o)
  /\ LET s == RemoveFd(src[o], Current)
     IN src' = [src EXCEPT ![o] = IF Watched(s) = {} THEN DoneEvent(s, "ok") ELSE s]
  /\ UNCHANGED <<io, cancelled, keys, reports, reads, cancels>>

\* A handler fails: gpgme closes everything and announces the end with the error.
HandlerFails(o) ==
  /\ Handle(o)
  /\ src' = [src EXCEPT ![o] = DoneEvent(@, "error")]
  /\ UNCHANGED <<io, cancelled, keys, reports, reads, cancels>>

\* g_task_propagate_boolean looks at the cancellable before the result.
Outcome(o) == IF cancelled /\ o \in Cancellable THEN "error" ELSE src[o].err

Slip_ReportAlways(o) == TRUE
IsDone(o) == src[o].state = "DONE"

\* _g_gpg_source_func, at the end of dispatch.
Continue(o) ==
  /\ main.op = o /\ main.at = "walk" /\ main.ready = {}
  /\ ~IsDone(o)
  /\ main' = Idle
  /\ UNCHANGED <<src, io, cancelled, keys, reports, reads, cancels>>

Return(o) ==
  /\ main.op = o /\ main.at = "walk" /\ main.ready = {}
  /\ IsDone(o)
  /\ reports' = [reports EXCEPT ![o] = Append(@, Outcome(o))]
  /\ src' = [src EXCEPT ![o] = UnrefTask(@)]
  /\ main' = [main EXCEPT !.at = "destroy"]
  /\ UNCHANGED <<io, cancelled, keys, reads, cancels>>

Slip_KeepSource(s) == UnrefTask(s)

\* G_SOURCE_REMOVE: the callback's reference to the task goes, then the last one to the
\* source.
DestroySource(s) == UnrefSource(UnrefTask([s EXCEPT !.attached = FALSE]))

Destroy(o) ==
  /\ main.op = o /\ main.at = "destroy"
  /\ src' = [src EXCEPT ![o] = DestroySource(@)]
  /\ main' = Idle
  /\ UNCHANGED <<io, cancelled, keys, reports, reads, cancels>>

ReturnLater(o) ==
  /\ main = Idle
  /\ src[o].failed /\ reports[o] = << >>
  /\ reports' = [reports EXCEPT ![o] = Append(@, "error")]
  /\ UNCHANGED <<src, io, main, cancelled, keys, reads, cancels>>

Loop(o) ==
  \/ Dispatch(o) \/ PassOver(o) \/ Read(o) \/ EndOfFd(o) \/ HandlerFails(o)
  \/ Continue(o) \/ Return(o) \/ Destroy(o) \/ ReturnLater(o)

Next == Cancel \/ Reset \/ \E o \in Ops : Begin(o) \/ BeginFails(o) \/ Loop(o)

Spec == Init /\ [][Next]_vars

\* The main loop polls and dispatches as long as there is something to do, and gpg
\* closes its descriptors in the end.
FairSpec == Spec /\ WF_vars(\E o \in Ops : Loop(o))

---------------------------------------------------------------------------
(* Properties                                                               *)

FdStates == {"unknown", "added", "watched", "removed"}
Results == {"ok", "error"}

\* The type of the state; the references to a source and to a task are never negative.
TypeOK ==
  /\ src \in [Ops -> [state : {"NONE", "START", "DONE"}, err : Results \cup {None},
                      fd : [Fds -> FdStates], attached : BOOLEAN, linked : BOOLEAN,
                      refs : 0..2, task : 0..2, failed : BOOLEAN]]
  /\ io \in [Ctxs -> Ops \cup {None}]
  /\ main \in [op : Ops \cup {None}, at : {None, "walk", "destroy"}, ready : SUBSET Fds]
  /\ cancelled \in BOOLEAN
  /\ keys \in [Ops -> 0..MaxKeys] /\ reads \in [Ops -> 0..MaxReads]
  /\ \A o \in Ops : reports[o] \in Seq(Results)
  /\ cancels \in 0..MaxCancels

\* A source in the main loop can always be woken: it is done, or watches a descriptor
\* gpg will close.  Once it is done, or has left the loop, it watches none.
StaysAwake ==
  \A o \in Ops :
    /\ src[o].attached /\ src[o].state # "DONE" => Watched(src[o]) # {}
    /\ src[o].state = "DONE" \/ ~src[o].attached => Watched(src[o]) = {}

\* Whatever cancellations come in between, an operation that has reported and left the
\* dispatch has released its source and its task and is disconnected from the
\* cancellable, and one that has not keeps them: except that a start that failed keeps
\* them for good.
Released ==
  /\ TypeOK
  /\ \A o \in Ops :
       LET s == src[o] IN
       /\ reports[o] # << >> /\ main.op # o /\ ~s.failed =>
            s.refs = 0 /\ s.task = 0 /\ ~s.linked
       /\ s # New /\ reports[o] = << >> => s.refs > 0 /\ s.task > 0
       /\ s.linked => s.refs > 0

\* Every operation that is begun reports.
EveryOperationReports == \A o \in Ops : src[o] # New ~> reports[o] # << >>

\* The sources implement GpgOperation.
Phase(o) ==
  IF reports[o] # << >> THEN "reported"
  ELSE IF src[o].state = "DONE" \/ src[o].failed THEN "ended"
  ELSE IF src[o].state = "START" THEN "running" ELSE "idle"
Result(o) == IF Phase(o) # "ended" THEN "none"
             ELSE IF src[o].failed THEN "error" ELSE src[o].err

Operation == INSTANCE GpgOperation WITH
  phase <- [o \in Ops |-> Phase(o)], result <- [o \in Ops |-> Result(o)]
ImplementsOperation == Operation!Spec
=============================================================================
