----------------------------- MODULE Gpgme_proofs -----------------------------
(***************************************************************************)
(* Proofs about gpgme-glib: GpgSource, then GpgObjects.                     *)
(*                                                                          *)
(* GpgSource, for every number of operations, descriptors and contexts: a   *)
(* source in the main loop can be woken, whoever has reported has released  *)
(* everything, and the sources implement GpgOperation.  The life of an      *)
(* operation has five stages (Stages), in each of which the counts of       *)
(* references are known; only a cancellation changes a source out of its    *)
(* turn, and it cannot move it to another stage.                            *)
(*                                                                          *)
(* GpgObjects, for any number of wrappers and structures: pointers live,    *)
(* arguments are held, every reference has a holder.  The books are kept by *)
(* double entry (Balanced): the count of a wrapper is what the holders      *)
(* outside the heap have of it, a ledger, and the wrappers it owns.  Each   *)
(* operation on the heap keeps the balance against a ledger that changes in *)
(* a known way; a step of the program combines a few of them, and the       *)
(* holders change as the ledger does.                                       *)
(***************************************************************************)
EXTENDS GpgSource, GpgObjects, FiniteSetTheorems, TLAPS

---------------------------------------------------------------------------
(* GpgSource.                                                               *)

Source == [state : {"NONE", "START", "DONE"}, err : Results \cup {None},
           fd : [Fds -> FdStates], attached : BOOLEAN, linked : BOOLEAN,
           refs : 0..2, task : 0..2, failed : BOOLEAN]

Turn == [op : Ops \cup {None}, at : {None, "walk", "destroy"}, ready : SUBSET Fds]

\* TypeOK, with the domain of reports.
Typed ==
  /\ src \in [Ops -> Source]
  /\ io \in [Ctxs -> Ops \cup {None}]
  /\ main \in Turn
  /\ cancelled \in BOOLEAN
  /\ keys \in [Ops -> 0..MaxKeys] /\ reads \in [Ops -> 0..MaxReads]
  /\ reports \in [Ops -> Seq(Results)]
  /\ cancels \in 0..MaxCancels

\* It could not be started.
Failed(s) ==
  /\ s.failed /\ s.refs = 1 /\ s.task = 1 /\ ~s.attached /\ ~s.linked
  /\ Watched(s) = {}

Running(s) ==
  /\ ~s.failed /\ s.refs = 1 /\ s.task = 2 /\ s.attached
  /\ \/ s.state = "START" /\ Watched(s) # {}
     \/ s.state = "DONE" /\ Watched(s) = {} /\ s.err \in Results

\* It has reported, from within its dispatch.
Leaving(s) ==
  /\ ~s.failed /\ s.refs = 1 /\ s.task = 1 /\ s.attached
  /\ s.state = "DONE" /\ Watched(s) = {}

Gone(s) ==
  /\ ~s.failed /\ s.refs = 0 /\ s.task = 0 /\ ~s.attached /\ ~s.linked
  /\ s.state = "DONE" /\ Watched(s) = {}

Stage(o) ==
  \/ src[o] = New /\ reports[o] = << >> /\ main.op # o
  \/ Failed(src[o]) /\ main.op # o
  \/ Running(src[o]) /\ reports[o] = << >> /\ (main.op = o => main.at = "walk")
  \/ Leaving(src[o]) /\ reports[o] # << >> /\ main.op = o /\ main.at = "destroy"
  \/ Gone(src[o]) /\ reports[o] # << >> /\ main.op # o

Stages == \A o \in Ops : Stage(o)

\* The events of a context reach an operation that has been begun.
EventsArrive == \A c \in Ctxs : io[c] \in Ops => src[io[c]] # New

SInv == Typed /\ Stages /\ EventsArrive

---------------------------------------------------------------------------
(* The callbacks gpgme is given.                                            *)

LEMMA NewSource == New \in Source /\ Watched(New) = {}
  BY SourceAssumption DEF New, Source, Watched, FdStates, Results, None

LEMMA DoneSource ==
  ASSUME NEW s \in Source, NEW err \in Results
  PROVE  LET d == DoneEvent(s, err) IN
         /\ d \in Source
         /\ d.state = "DONE" /\ d.err = err /\ Watched(d) = {}
         /\ d.refs = s.refs /\ d.task = s.task /\ d.failed = s.failed
         /\ d.attached = s.attached /\ d.linked = s.linked
<1>. DEFINE g == [f \in Fds |-> IF s.fd[f] = "watched" THEN "removed" ELSE s.fd[f]]
            d == DoneEvent(s, err)
<1>1. g \in [Fds -> FdStates] /\ \A f \in Fds : g[f] # "watched"
  BY DEF Source, FdStates
<1>2. /\ d = [s EXCEPT !.state = "DONE", !.err = err, !.fd = g]
  BY DEF DoneEvent
<1>. HIDE DEF g, d
<1>3. d = [state |-> "DONE", err |-> err, fd |-> g, attached |-> s.attached,
           linked |-> s.linked, refs |-> s.refs, task |-> s.task, failed |-> s.failed]
  BY <1>2 DEF Source
<1>4. d \in Source /\ Watched(d) = {}
  BY <1>1, <1>3 DEF Source, Watched
<1>. QED
  BY <1>3, <1>4 DEF d

LEMMA FreshSource ==
  /\ Fresh \in Source
  /\ Fresh.state = "NONE" /\ Fresh.err = None /\ ~Fresh.attached /\ ~Fresh.linked
  /\ Fresh.refs = 1 /\ Fresh.task = 1 /\ ~Fresh.failed
  /\ [Fresh EXCEPT !.failed = TRUE] \in Source
  /\ Failed([Fresh EXCEPT !.failed = TRUE])
<1>. DEFINE new == New
            fresh == Fresh
            t == [Fresh EXCEPT !.failed = TRUE]
<1>1. /\ new.state = "NONE" /\ new.err = None /\ new.attached = FALSE /\ new.linked = FALSE
      /\ new.failed = FALSE
  BY DEF New
<1>2. new \in Source /\ Watched(new) = {}
  BY NewSource
<1>3. fresh = [new EXCEPT !.refs = 1, !.task = 1]
  BY DEF Fresh
<1>4. t = [fresh EXCEPT !.failed = TRUE]
  OBVIOUS
<1>. HIDE DEF new, fresh, t
<1>5. fresh = [state |-> new.state, err |-> new.err, fd |-> new.fd, attached |-> new.attached,
               linked |-> new.linked, refs |-> 1, task |-> 1, failed |-> new.failed]
  BY <1>2, <1>3, Zenon DEF Source
<1>6. fresh \in Source
  BY <1>2, <1>5 DEF Source
<1>7. t = [state |-> fresh.state, err |-> fresh.err, fd |-> fresh.fd,
           attached |-> fresh.attached, linked |-> fresh.linked, refs |-> fresh.refs,
           task |-> fresh.task, failed |-> TRUE]
  BY <1>4, <1>6, Zenon DEF Source
<1>8. t \in Source
  BY <1>6, <1>7 DEF Source
<1>9. Failed(t)
  BY <1>1, <1>2, <1>5, <1>7 DEF Failed, Watched
<1>. QED
  BY <1>1, <1>5, <1>6, <1>8, <1>9 DEF fresh, t

\* The last lines of every function that begins an operation.
LEMMA AttachedSource ==
  ASSUME NEW c \in Source, c.refs = 1, c.task = 1
  PROVE  LET s == UnrefSource(AttachSource(c)) IN
         /\ s \in Source
         /\ s.state = c.state /\ s.err = c.err /\ s.fd = c.fd
         /\ s.attached /\ s.refs = 1 /\ s.task = 2
         /\ s.linked = c.linked /\ s.failed = c.failed
<1>. DEFINE a == AttachSource(c)
            s == UnrefSource(a)
<1>1. a = [c EXCEPT !.attached = TRUE, !.refs = @ + 1, !.task = @ + 1]
  BY DEF AttachSource
<1>. HIDE DEF a
<1>2. a = [state |-> c.state, err |-> c.err, fd |-> c.fd, attached |-> TRUE,
           linked |-> c.linked, refs |-> c.refs + 1, task |-> c.task + 1, failed |-> c.failed]
  BY <1>1, Zenon DEF Source
<1>3. a \in Source /\ a.refs = 2 /\ a.task = 2
  BY <1>2 DEF Source
<1>4. s = [a EXCEPT !.refs = @ - 1, !.linked = @ /\ a.refs # 1]
  BY DEF UnrefSource
<1>. HIDE DEF s
<1>5. s = [state |-> a.state, err |-> a.err, fd |-> a.fd, attached |-> a.attached,
           linked |-> (a.linked /\ a.refs # 1), refs |-> a.refs - 1, task |-> a.task,
           failed |-> a.failed]
  BY <1>3, <1>4, Zenon DEF Source
<1>6. (a.linked /\ a.refs # 1) = c.linked
  BY <1>2, <1>3 DEF Source
<1>7. s \in Source /\ s.refs = 1 /\ s.linked = c.linked
  BY <1>3, <1>5, <1>6 DEF Source
<1>. QED
  BY <1>2, <1>3, <1>5, <1>7 DEF s, a

\* Every way to begin leaves a source that runs, or has been cancelled already.
LEMMA BegunSource ==
  ASSUME NEW o \in Ops, cancelled \in BOOLEAN,
         NEW fds \in SUBSET Fds, fds # {}
  PROVE  LET s == UnrefSource(AttachSource(ConnectCancellable(StartEvent(Added(fds)), o))) IN
         /\ s \in Source /\ Running(s)
         /\ s.linked => o \in Cancellable /\ ~cancelled
         /\ s.state = "START" /\ o \in Cancellable => s.linked
         /\ s.state = "DONE" => s.err = "error" /\ cancelled /\ o \in Cancellable
<1>. DEFINE g == [f \in Fds |-> IF f \in fds THEN "added" ELSE "unknown"]
            h == [f \in Fds |-> IF f \in fds THEN "watched" ELSE "unknown"]
            added == Added(fds)
            t == StartEvent(added)
            c == ConnectCancellable(t, o)
            s == UnrefSource(AttachSource(c))
<1>1. h \in [Fds -> FdStates] /\ \E f \in Fds : h[f] = "watched"
  <2>1. PICK f \in fds : f \in Fds
    OBVIOUS
  <2>2. h[f] = "watched"
    BY <2>1
  <2>3. h \in [Fds -> FdStates]
    BY DEF FdStates
  <2>. QED
    BY <2>1, <2>2, <2>3
<1>2. /\ t \in Source
      /\ t.state = "START" /\ t.err = None /\ t.fd = h /\ ~t.attached /\ ~t.linked
      /\ t.refs = 1 /\ t.task = 1 /\ ~t.failed
  <2>1. /\ Fresh \in Source
        /\ Fresh.state = "NONE" /\ Fresh.err = None /\ ~Fresh.attached /\ ~Fresh.linked
        /\ Fresh.refs = 1 /\ Fresh.task = 1 /\ ~Fresh.failed
    BY FreshSource
  <2>2. \A f \in Fds : AddFd(Fresh, f).fd[f] = "added"
    BY <2>1 DEF AddFd, Source
  <2>3. added = [Fresh EXCEPT !.fd = g]
    BY <2>2 DEF Added
  <2>. HIDE DEF added
  <2>4. [f \in Fds |-> IF g[f] = "added" THEN "watched" ELSE g[f]] = h
    OBVIOUS
  <2>5. g \in [Fds -> FdStates]
    BY DEF FdStates
  <2>. HIDE DEF g, h
  <2>6. /\ added \in Source /\ added.fd = g
        /\ added.state = "NONE" /\ added.err = None /\ ~added.attached /\ ~added.linked
        /\ added.refs = 1 /\ added.task = 1 /\ ~added.failed
    BY <2>1, <2>3, <2>5 DEF Source
  <2>7. t = [added EXCEPT !.state = "START",
                          !.fd = [f \in Fds |-> IF added.fd[f] = "added" THEN "watched"
                                                ELSE added.fd[f]]]
    BY DEF StartEvent
  <2>. HIDE DEF t
  <2>8. t = [added EXCEPT !.state = "START", !.fd = h]
    BY <2>4, <2>6, <2>7
  <2>. QED
    BY <1>1, <2>6, <2>8 DEF Source
<1>. HIDE DEF g, h, t
<1>4. CASE o \notin Cancellable \/ ~cancelled
  <2>. DEFINE l == IF o \in Cancellable THEN TRUE ELSE FALSE
  <2>1. /\ c \in Source
        /\ c.state = "START" /\ c.fd = h /\ c.linked = l /\ ~c.failed
        /\ c.refs = 1 /\ c.task = 1
    BY <1>2, <1>4 DEF ConnectCancellable, Source
  <2>. HIDE DEF c, l
  <2>2. /\ s \in Source
        /\ s.state = "START" /\ s.fd = h /\ s.linked = l /\ ~s.failed /\ s.attached
        /\ s.refs = 1 /\ s.task = 2
    BY <2>1, AttachedSource
  <2>. HIDE DEF s
  <2>3. Running(s)
    BY <1>1, <2>2 DEF Running, Watched
  <2>. QED
    BY <1>4, <2>2, <2>3 DEF s, c, t, l
<1>5. CASE o \in Cancellable /\ cancelled
  <2>1. c = DoneEvent(t, "error")
    BY <1>5 DEF ConnectCancellable
  <2>2. /\ c \in Source /\ c.state = "DONE" /\ c.err = "error" /\ Watched(c) = {}
        /\ c.refs = 1 /\ c.task = 1 /\ ~c.failed /\ ~c.linked
    <3>. HIDE DEF c
    <3>. QED
      BY <1>2, <2>1, DoneSource DEF Results
  <2>. HIDE DEF c
  <2>3. /\ s \in Source
        /\ s.state = "DONE" /\ s.fd = c.fd /\ ~s.linked /\ ~s.failed /\ s.attached
        /\ s.refs = 1 /\ s.task = 2 /\ s.err = "error"
    BY <2>2, AttachedSource
  <2>. HIDE DEF s
  <2>4. Running(s)
    BY <2>2, <2>3 DEF Running, Watched, Results
  <2>. QED
    BY <1>5, <2>3, <2>4 DEF s, c, t
<1>. QED
  BY <1>4, <1>5

\* A descriptor that is added to a source in the main loop is watched.
LEMMA AddedFd ==
  ASSUME NEW s \in Source, Running(s), s.state = "START", NEW f \in Fds
  PROVE  LET a == AddFd(s, f) IN
         /\ a \in Source /\ Running(a)
         /\ a.state = "START" /\ a.linked = s.linked /\ a.err = s.err
<1>. DEFINE g == [s.fd EXCEPT ![f] = "watched"]
            a == AddFd(s, f)
<1>1. g \in [Fds -> FdStates] /\ g[f] = "watched"
  BY DEF Source, FdStates
<1>2. a = [s EXCEPT !.fd = g]
  BY DEF AddFd
<1>. HIDE DEF g, a
<1>3. a = [state |-> s.state, err |-> s.err, fd |-> g, attached |-> s.attached,
           linked |-> s.linked, refs |-> s.refs, task |-> s.task, failed |-> s.failed]
  BY <1>2, Zenon DEF Source
<1>4. a \in Source
  BY <1>1, <1>3 DEF Source
<1>5. Running(a)
  BY <1>1, <1>3 DEF Running, Watched
<1>. QED
  BY <1>3, <1>4, <1>5 DEF a

\* A descriptor that is removed: the last one has to be followed by the end.
LEMMA RemovedFd ==
  ASSUME NEW s \in Source, Running(s), s.state = "START", NEW f \in Fds
  PROVE  LET a == RemoveFd(s, f) IN
         /\ a \in Source
         /\ Watched(a) # {} => Running(a)
         /\ a.state = "START" /\ a.linked = s.linked /\ a.err = s.err
         /\ a.refs = s.refs /\ a.task = s.task /\ a.failed = s.failed
         /\ a.attached = s.attached
<1>. DEFINE g == [s.fd EXCEPT ![f] = "removed"]
            a == RemoveFd(s, f)
<1>1. g \in [Fds -> FdStates]
  BY DEF Source, FdStates
<1>2. a = [s EXCEPT !.fd = g]
  BY DEF RemoveFd
<1>. HIDE DEF g, a
<1>3. a = [state |-> s.state, err |-> s.err, fd |-> g, attached |-> s.attached,
           linked |-> s.linked, refs |-> s.refs, task |-> s.task, failed |-> s.failed]
  BY <1>2, Zenon DEF Source
<1>4. a \in Source
  BY <1>1, <1>3 DEF Source
<1>5. Watched(a) # {} => Running(a)
  BY <1>3 DEF Running
<1>. QED
  BY <1>3, <1>4, <1>5 DEF a

\* The task is returned and the source destroyed: nothing is left.
LEMMA ReturnedSource ==
  ASSUME NEW s \in Source, Running(s), s.state = "DONE"
  PROVE  LET r == UnrefTask(s) IN
         /\ r \in Source /\ Leaving(r)
         /\ r.state = s.state /\ r.linked = s.linked /\ r.err = s.err
<1>. DEFINE r == UnrefTask(s)
<1>1. r = [s EXCEPT !.task = @ - 1]
  BY DEF UnrefTask
<1>. HIDE DEF r
<1>2. r = [state |-> s.state, err |-> s.err, fd |-> s.fd, attached |-> s.attached,
           linked |-> s.linked, refs |-> s.refs, task |-> s.task - 1, failed |-> s.failed]
  BY <1>1, Zenon DEF Source
<1>3. r \in Source
  BY <1>2 DEF Source, Running
<1>4. Leaving(r)
  BY <1>2 DEF Running, Leaving, Watched
<1>. QED
  BY <1>2, <1>3, <1>4 DEF r

LEMMA DestroyedSource ==
  ASSUME NEW s \in Source, Leaving(s)
  PROVE  LET d == DestroySource(s) IN
         d \in Source /\ Gone(d) /\ d.state = s.state /\ d.err = s.err
<1>. DEFINE t == [s EXCEPT !.attached = FALSE]
            u == UnrefTask(t)
            d == UnrefSource(u)
<1>1. t = [state |-> s.state, err |-> s.err, fd |-> s.fd, attached |-> FALSE,
           linked |-> s.linked, refs |-> s.refs, task |-> s.task, failed |-> s.failed]
  <2>. DEFINE x == t
  <2>1. x = [s EXCEPT !.attached = FALSE]
    OBVIOUS
  <2>. HIDE DEF x
  <2>2. x = [state |-> s.state, err |-> s.err, fd |-> s.fd, attached |-> FALSE,
             linked |-> s.linked, refs |-> s.refs, task |-> s.task, failed |-> s.failed]
    BY <2>1, Zenon DEF Source
  <2>. QED
    BY <2>2 DEF x
<1>2. u = [t EXCEPT !.task = @ - 1]
  BY DEF UnrefTask
<1>. HIDE DEF t
<1>3. t \in Source
  BY <1>1 DEF Source
<1>4. d = [u EXCEPT !.refs = @ - 1, !.linked = @ /\ u.refs # 1]
  BY DEF UnrefSource
<1>. HIDE DEF u
<1>5. u = [state |-> t.state, err |-> t.err, fd |-> t.fd, attached |-> t.attached,
           linked |-> t.linked, refs |-> t.refs, task |-> t.task - 1, failed |-> t.failed]
  BY <1>2, <1>3, Zenon DEF Source
<1>6. u \in Source /\ u.refs = 1 /\ u.task = 0
  BY <1>1, <1>3, <1>5 DEF Source, Leaving
<1>. HIDE DEF d
<1>7. d = [state |-> u.state, err |-> u.err, fd |-> u.fd, attached |-> u.attached,
           linked |-> (u.linked /\ u.refs # 1), refs |-> u.refs - 1, task |-> u.task,
           failed |-> u.failed]
  BY <1>4, <1>6, Zenon DEF Source
<1>8. d \in Source /\ d.refs = 0 /\ ~d.linked
  <2>1. (u.linked /\ u.refs # 1) = FALSE /\ u.refs - 1 = 0
    BY <1>6
  <2>2. d = [state |-> u.state, err |-> u.err, fd |-> u.fd, attached |-> u.attached,
             linked |-> FALSE, refs |-> 0, task |-> u.task, failed |-> u.failed]
    BY <1>7, <2>1, Zenon
  <2>. QED
    BY <1>6, <2>2 DEF Source
<1>9. Gone(d)
  BY <1>1, <1>5, <1>6, <1>7, <1>8 DEF Leaving, Gone, Watched
<1>10. d = DestroySource(s)
  BY DEF DestroySource, d, u, t
<1>11. d.state = s.state /\ d.err = s.err
  BY <1>1, <1>5, <1>7
<1>. QED
  BY <1>8, <1>9, <1>10, <1>11
---------------------------------------------------------------------------
(* The invariant.                                                           *)

LEMMA SInvInit == Init => SInv
<1>. SUFFICES ASSUME Init PROVE SInv
  OBVIOUS
<1>. USE SourceAssumption DEF Init
<1>1. Typed
  <2>1. src \in [Ops -> Source]
    BY NewSource
  <2>2. main \in Turn
    BY DEF Turn, Idle
  <2>3. << >> \in Seq(Results)
    OBVIOUS
  <2>4. MaxKeys \in Nat /\ MaxReads \in Nat /\ MaxCancels \in Nat
    OBVIOUS
  <2>5. 0 \in 0..MaxKeys /\ 0 \in 0..MaxReads /\ 0 \in 0..MaxCancels
    BY <2>4
  <2>. QED
    BY <2>1, <2>2, <2>3, <2>5 DEF Typed
<1>2. Stages
  BY DEF Stages, Stage, Idle
<1>3. EventsArrive
  BY DEF EventsArrive
<1>. QED
  BY <1>1, <1>2, <1>3 DEF SInv

\* An action that changes one source, and that operation's events and reports at most.
LEMMA OneSource ==
  ASSUME SInv, NEW o \in Ops, NEW t \in Source,
         src' = [src EXCEPT ![o] = t], t # New,
         Typed', Stage(o)',
         \A p \in Ops \ {o} : Stage(p)',
         io' = io \/ io' = [io EXCEPT ![CtxOf[o]] = o]
  PROVE  SInv'
<1>1. EventsArrive'
  BY SourceAssumption DEF EventsArrive, SInv, Typed
<1>2. Stages'
  BY DEF Stages
<1>. QED
  BY <1>1, <1>2 DEF SInv

LEMMA RunningIsNotNew ==
  ASSUME NEW s, Running(s) \/ Leaving(s) \/ Gone(s) \/ Failed(s)
  PROVE  s # New
BY DEF Running, Leaving, Gone, Failed, New

\* Those that are not dispatched are not in the way of what the client does.
LEMMA BeginStep == ASSUME SInv, NEW o \in Ops, Begin(o) PROVE SInv'
<1>. USE SourceAssumption
<1>1. PICK fds \in SUBSET Fds :
        /\ fds # {}
        /\ src' = [src EXCEPT ![o] =
                     UnrefSource(AttachSource(ConnectCancellable(StartEvent(Added(fds)), o)))]
  BY DEF Begin
<1>. DEFINE t == UnrefSource(AttachSource(ConnectCancellable(StartEvent(Added(fds)), o)))
<1>2. t \in Source /\ Running(t)
  BY <1>1, BegunSource DEF SInv, Typed
<1>3. reports[o] = << >> /\ main.op # o
  BY NewSource, RunningIsNotNew DEF Begin, SInv, Stages, Stage
<1>4. src' = [src EXCEPT ![o] = t]
  BY <1>1
<1>. HIDE DEF t
<1>5. io' = [io EXCEPT ![CtxOf[o]] = o]
      /\ UNCHANGED <<main, cancelled, keys, reports, reads, cancels>>
  BY DEF Begin
<1>6. Typed'
  BY <1>2, <1>4, <1>5 DEF SInv, Typed
<1>7. Stage(o)'
  BY <1>2, <1>3, <1>4, <1>5 DEF Stage, SInv, Typed
<1>8. \A p \in Ops \ {o} : Stage(p)'
  BY <1>4, <1>5 DEF SInv, Stages, Stage, Typed
<1>. QED
  BY <1>2, <1>4, <1>5, <1>6, <1>7, <1>8, OneSource, RunningIsNotNew

LEMMA BeginFailsStep == ASSUME SInv, NEW o \in Ops, BeginFails(o) PROVE SInv'
<1>. USE SourceAssumption
<1>. DEFINE t == [Fresh EXCEPT !.failed = TRUE]
<1>1. t \in Source /\ Failed(t)
  BY FreshSource
<1>3. reports[o] = << >> /\ main.op # o
  BY NewSource, RunningIsNotNew DEF BeginFails, SInv, Stages, Stage
<1>4. src' = [src EXCEPT ![o] = t]
  BY DEF BeginFails
<1>. HIDE DEF t
<1>5. io' = [io EXCEPT ![CtxOf[o]] = o]
      /\ UNCHANGED <<main, cancelled, keys, reports, reads, cancels>>
  BY DEF BeginFails
<1>6. Typed'
  BY <1>1, <1>4, <1>5 DEF SInv, Typed
<1>7. Stage(o)'
  BY <1>1, <1>3, <1>4, <1>5 DEF Stage, SInv, Typed
<1>8. \A p \in Ops \ {o} : Stage(p)'
  BY <1>4, <1>5 DEF SInv, Stages, Stage, Typed
<1>. QED
  BY <1>1, <1>4, <1>5, <1>6, <1>7, <1>8, OneSource, RunningIsNotNew
\* A cancellation ends operations that are under way; of the others it only says so again.
LEMMA CancelStep == ASSUME SInv, Cancel PROVE SInv'
<1>. USE SourceAssumption
<1>. DEFINE hit == {io[CtxOf[o]] : o \in {p \in Ops : src[p].linked}}
<1>1. src' = [o \in Ops |-> IF o \in hit THEN DoneEvent(src[o], "error") ELSE src[o]]
  BY DEF Cancel
<1>2. \A o \in hit : o \in Ops => src[o] # New
  BY DEF SInv, Typed, EventsArrive
<1>. HIDE DEF hit
<1>3. UNCHANGED <<io, main, keys, reports, reads>> /\ cancelled' \in BOOLEAN
      /\ cancels' = cancels + 1 /\ cancels < MaxCancels /\ main.at \in {None, "destroy"}
  BY DEF Cancel, Client
<1>4. "error" \in Results
  BY DEF Results
<1>5. \A o \in Ops : src[o] \in Source /\ src'[o] \in Source
  BY <1>1, <1>4, DoneSource DEF SInv, Typed
<1>6. Typed'
  <2>1. cancels' \in 0..MaxCancels
    <3>1. MaxCancels \in Nat
      OBVIOUS
    <3>. QED
      BY <1>3, <3>1 DEF SInv, Typed
  <2>2. src' \in [Ops -> Source]
    BY <1>1, <1>5
  <2>. QED
    BY <1>3, <2>1, <2>2 DEF SInv, Typed
<1>7. ASSUME NEW o \in Ops
      PROVE  Stage(o)' /\ (src[o] # New => src'[o] # New)
  <2>1. Stage(o)
    BY DEF SInv, Stages
  <2>2. CASE o \notin hit
    BY <1>1, <1>3, <2>1, <2>2 DEF Stage
  <2>3. CASE o \in hit
    <3>. DEFINE d == DoneEvent(src[o], "error")
    <3>1. src'[o] = d
      BY <1>1, <2>3
    <3>2. /\ d.state = "DONE" /\ d.err = "error" /\ Watched(d) = {}
          /\ d.refs = src[o].refs /\ d.task = src[o].task /\ d.failed = src[o].failed
          /\ d.attached = src[o].attached /\ d.linked = src[o].linked
      BY <1>4, <1>5, DoneSource
    <3>. HIDE DEF d
    <3>3. /\ Failed(src[o]) => Failed(d)
          /\ Running(src[o]) => Running(d)
          /\ Leaving(src[o]) => Leaving(d)
          /\ Gone(src[o]) => Gone(d)
      BY <1>4, <3>2 DEF Failed, Running, Leaving, Gone
    <3>4. src[o] # New
      BY <1>2, <2>3
    <3>5. Stage(o)'
      BY <1>3, <2>1, <3>1, <3>3, <3>4 DEF Stage
    <3>6. Failed(d) \/ Running(d) \/ Leaving(d) \/ Gone(d)
      BY <2>1, <3>3, <3>4 DEF Stage
    <3>7. src'[o] # New
      BY <3>1, <3>6, RunningIsNotNew
    <3>. QED
      BY <3>5, <3>7
  <2>. QED
    BY <2>2, <2>3
<1>8. EventsArrive'
  BY <1>3, <1>7 DEF SInv, EventsArrive
<1>. QED
  BY <1>6, <1>7, <1>8 DEF SInv, Stages

\* The steps that change no source.
LEMMA ResetStep == ASSUME SInv, Reset PROVE SInv'
  BY DEF Reset, SInv, Typed, Stages, Stage, EventsArrive

LEMMA Advancing ==
  ASSUME SInv, NEW o \in Ops, Walk(o), Advance
  PROVE  main' \in Turn /\ main'.op = main.op /\ main'.at = main.at
<1>. DEFINE r == main.ready \ {Current}
<1>1. main' = [main EXCEPT !.ready = r]
  BY DEF Advance
<1>. HIDE DEF r
<1>2. main \in Turn
  BY DEF SInv, Typed
<1>3. main' = [op |-> main.op, at |-> main.at, ready |-> r]
  BY <1>1, <1>2, Zenon DEF Turn
<1>4. r \subseteq Fds
  BY <1>2 DEF r, Turn
<1>. QED
  BY <1>2, <1>3, <1>4 DEF Turn

LEMMA DispatchStep == ASSUME SInv, NEW o \in Ops, Dispatch(o) PROVE SInv'
<1>. USE SourceAssumption
<1>1. PICK ready \in SUBSET Watched(src[o]) : main' = [op |-> o, at |-> "walk", ready |-> ready]
  BY DEF Dispatch
<1>2. main' \in Turn /\ main'.op = o /\ main'.at = "walk"
  BY <1>1 DEF Turn, Watched
<1>3. UNCHANGED <<src, io, cancelled, keys, reports, reads, cancels>> /\ src[o].attached
      /\ main.op = None
  BY DEF Dispatch, Idle
<1>4. Typed'
  BY <1>2, <1>3 DEF SInv, Typed
<1>5. Running(src[o]) /\ reports[o] = << >>
  BY <1>3, o # None DEF SInv, Stages, Stage, Failed, Gone, New
<1>6. \A p \in Ops : Stage(p)'
  BY <1>2, <1>3, <1>5 DEF SInv, Stages, Stage
<1>. QED
  BY <1>3, <1>4, <1>6 DEF SInv, Stages, EventsArrive

LEMMA PassOverStep == ASSUME SInv, NEW o \in Ops, PassOver(o) PROVE SInv'
<1>1. main' \in Turn /\ main'.op = main.op /\ main'.at = main.at
  BY Advancing DEF PassOver
<1>2. UNCHANGED <<src, io, cancelled, keys, reports, reads, cancels>>
  BY DEF PassOver
<1>. QED
  BY <1>1, <1>2 DEF SInv, Typed, Stages, Stage, EventsArrive

LEMMA ContinueStep == ASSUME SInv, NEW o \in Ops, Continue(o) PROVE SInv'
<1>1. main' \in Turn /\ main'.op = None /\ main.op = o /\ main.at = "walk"
  BY DEF Continue, Idle, Turn
<1>2. UNCHANGED <<src, io, cancelled, keys, reports, reads, cancels>>
  BY DEF Continue
<1>3. \A p \in Ops : Stage(p)'
  BY <1>1, <1>2, SourceAssumption DEF SInv, Stages, Stage
<1>. QED
  BY <1>1, <1>2, <1>3 DEF SInv, Typed, Stages, EventsArrive

---------------------------------------------------------------------------
(* The handlers, the end of dispatch.                                       *)

\* What the operation that is dispatched is like while a handler runs.
LEMMA Handling ==
  ASSUME SInv, NEW o \in Ops, Handle(o)
  PROVE  /\ Running(src[o]) /\ src[o].state = "START" /\ reports[o] = << >>
         /\ src[o] \in Source /\ Current \in Fds
         /\ main' \in Turn /\ main'.op = o /\ main'.at = "walk"
<1>1. main.op = o /\ main.at = "walk" /\ Current \in Watched(src[o])
  BY DEF Handle, Walk
<1>2. main' \in Turn /\ main'.op = o /\ main'.at = "walk"
  BY <1>1, Advancing DEF Handle
<1>3. Running(src[o]) /\ src[o].state = "START" /\ reports[o] = << >>
  BY <1>1 DEF SInv, Stages, Stage, Running
<1>. QED
  BY <1>1, <1>2, <1>3 DEF SInv, Typed, Watched

LEMMA ReadStep == ASSUME SInv, NEW o \in Ops, Read(o) PROVE SInv'
<1>. USE SourceAssumption
<1>1. /\ Running(src[o]) /\ src[o].state = "START" /\ reports[o] = << >>
      /\ src[o] \in Source
      /\ main' \in Turn /\ main'.op = o /\ main'.at = "walk" /\ main.op = o
  BY Handling DEF Read, Handle, Walk
<1>2. UNCHANGED <<io, cancelled, reports, cancels>> /\ reads[o] < MaxReads
      /\ reads' = [reads EXCEPT ![o] = @ + 1]
  BY DEF Read
<1>3. MaxReads \in Nat /\ MaxKeys \in Nat
  OBVIOUS
<1>4. reads' \in [Ops -> 0..MaxReads]
  BY <1>2, <1>3 DEF SInv, Typed
<1>5. CASE keys[o] < MaxKeys /\ keys' = [keys EXCEPT ![o] = @ + 1] /\ UNCHANGED src
  <2>1. keys' \in [Ops -> 0..MaxKeys]
    BY <1>3, <1>5 DEF SInv, Typed
  <2>. QED
    BY <1>1, <1>2, <1>4, <1>5, <2>1 DEF SInv, Typed, Stages, Stage, EventsArrive
<1>6. ASSUME NEW f \in Fds, src' = [src EXCEPT ![o] = AddFd(src[o], f)], UNCHANGED keys
      PROVE  SInv'
  <2>. DEFINE a == AddFd(src[o], f)
  <2>1. a \in Source /\ Running(a)
    BY <1>1, AddedFd
  <2>2. src' = [src EXCEPT ![o] = a]
    BY <1>6
  <2>. HIDE DEF a
  <2>3. Typed'
    BY <1>1, <1>2, <1>4, <1>6, <2>1, <2>2 DEF SInv, Typed
  <2>4. Stage(o)'
    BY <1>1, <1>2, <2>1, <2>2 DEF Stage, SInv, Typed
  <2>5. \A p \in Ops \ {o} : Stage(p)'
    BY <1>1, <1>2, <2>2 DEF SInv, Stages, Stage, Typed
  <2>. QED
    BY <1>2, <2>1, <2>2, <2>3, <2>4, <2>5, OneSource, RunningIsNotNew
<1>. QED
  BY <1>5, <1>6 DEF Read
\* What is left to show of a step that changes the source o only, and is o's turn.
LEMMA OwnTurn ==
  ASSUME SInv, NEW o \in Ops, NEW t \in Source,
         src' = [src EXCEPT ![o] = t], main.op = o,
         main' \in Turn, main'.op \in {o, None},
         UNCHANGED <<io, cancelled, keys, reads, cancels>>,
         reports' \in [Ops -> Seq(Results)],
         \A p \in Ops \ {o} : reports'[p] = reports[p],
         Stage(o)', t # New
  PROVE  SInv'
<1>1. Typed'
  BY DEF SInv, Typed
<1>2. \A p \in Ops \ {o} : Stage(p)'
  BY SourceAssumption DEF SInv, Stages, Stage, Typed
<1>. QED
  BY <1>1, <1>2, OneSource

LEMMA EndOfFdStep == ASSUME SInv, NEW o \in Ops, EndOfFd(o) PROVE SInv'
<1>. DEFINE s == RemoveFd(src[o], Current)
            t == IF Watched(s) = {} THEN DoneEvent(s, "ok") ELSE s
<1>1. /\ Running(src[o]) /\ src[o].state = "START" /\ reports[o] = << >>
      /\ src[o] \in Source /\ Current \in Fds
      /\ main' \in Turn /\ main'.op = o /\ main'.at = "walk" /\ main.op = o
  BY Handling DEF EndOfFd, Handle, Walk
<1>2. src' = [src EXCEPT ![o] = t] /\ UNCHANGED <<io, cancelled, keys, reports, reads, cancels>>
  BY DEF EndOfFd
<1>3. /\ s \in Source
      /\ Watched(s) # {} => Running(s)
      /\ s.refs = src[o].refs /\ s.task = src[o].task /\ s.failed = src[o].failed
      /\ s.attached = src[o].attached
  BY <1>1, RemovedFd
<1>. HIDE DEF s
<1>4. t \in Source /\ Running(t)
  <2>. DEFINE d == DoneEvent(s, "ok")
  <2>1. "ok" \in Results
    BY DEF Results
  <2>2. /\ d \in Source /\ d.state = "DONE" /\ d.err = "ok" /\ Watched(d) = {}
        /\ d.refs = s.refs /\ d.task = s.task /\ d.failed = s.failed
        /\ d.attached = s.attached
    BY <1>3, <2>1, DoneSource
  <2>. HIDE DEF d
  <2>3. Running(d)
    BY <1>1, <1>3, <2>1, <2>2 DEF Running
  <2>. QED
    BY <1>3, <2>2, <2>3 DEF d
<1>. HIDE DEF t
<1>5. Stage(o)'
  BY <1>1, <1>2, <1>4 DEF Stage, SInv, Typed
<1>6. reports \in [Ops -> Seq(Results)]
  BY DEF SInv, Typed
<1>7. t # New
  BY <1>4, RunningIsNotNew
<1>. QED
  BY <1>1, <1>2, <1>4, <1>5, <1>6, <1>7, OwnTurn

LEMMA HandlerFailsStep == ASSUME SInv, NEW o \in Ops, HandlerFails(o) PROVE SInv'
<1>. DEFINE d == DoneEvent(src[o], "error")
<1>1. /\ Running(src[o]) /\ src[o].state = "START" /\ reports[o] = << >>
      /\ src[o] \in Source
      /\ main' \in Turn /\ main'.op = o /\ main'.at = "walk" /\ main.op = o
  BY Handling DEF HandlerFails, Handle, Walk
<1>2. src' = [src EXCEPT ![o] = d] /\ UNCHANGED <<io, cancelled, keys, reports, reads, cancels>>
  BY DEF HandlerFails
<1>3. "error" \in Results
  BY DEF Results
<1>4. /\ d \in Source /\ d.state = "DONE" /\ d.err = "error" /\ Watched(d) = {}
      /\ d.refs = src[o].refs /\ d.task = src[o].task /\ d.failed = src[o].failed
      /\ d.attached = src[o].attached
  BY <1>1, <1>3, DoneSource
<1>. HIDE DEF d
<1>5. Running(d)
  BY <1>1, <1>3, <1>4 DEF Running
<1>6. Stage(o)'
  BY <1>1, <1>2, <1>4, <1>5 DEF Stage, SInv, Typed
<1>7. reports \in [Ops -> Seq(Results)]
  BY DEF SInv, Typed
<1>8. d # New
  BY <1>5, RunningIsNotNew
<1>. QED
  BY <1>1, <1>2, <1>4, <1>6, <1>7, <1>8, OwnTurn

LEMMA ReturnStep == ASSUME SInv, NEW o \in Ops, Return(o) PROVE SInv'
<1>. DEFINE r == UnrefTask(src[o])
<1>1. main.op = o /\ main.at = "walk" /\ src[o].state = "DONE"
  BY DEF Return, IsDone
<1>2. Running(src[o]) /\ reports[o] = << >> /\ src[o] \in Source /\ src[o].err \in Results
  BY <1>1 DEF SInv, Stages, Stage, Running, Typed
<1>3. r \in Source /\ Leaving(r)
  BY <1>1, <1>2, ReturnedSource
<1>4. src' = [src EXCEPT ![o] = r] /\ UNCHANGED <<io, cancelled, keys, reads, cancels>>
      /\ reports' = [reports EXCEPT ![o] = Append(@, Outcome(o))]
  BY DEF Return
<1>5. main' \in Turn /\ main'.op = o /\ main'.at = "destroy"
  <2>1. main' = [main EXCEPT !.at = "destroy"] /\ main \in Turn
    BY DEF Return, SInv, Typed
  <2>2. main' = [op |-> main.op, at |-> "destroy", ready |-> main.ready]
    BY <2>1, Zenon DEF Turn
  <2>. QED
    BY <1>1, <2>1, <2>2 DEF Turn
<1>. HIDE DEF r
<1>6. Append(reports[o], Outcome(o)) \in Seq(Results) /\ Append(reports[o], Outcome(o)) # << >>
  <2>1. Outcome(o) \in Results
    BY <1>2 DEF Outcome, Results
  <2>2. reports[o] \in Seq(Results)
    BY DEF SInv, Typed
  <2>. QED
    BY <2>1, <2>2
<1>7. /\ reports' \in [Ops -> Seq(Results)] /\ reports'[o] # << >>
      /\ \A p \in Ops \ {o} : reports'[p] = reports[p]
  BY <1>4, <1>6 DEF SInv, Typed
<1>8. Stage(o)'
  BY <1>3, <1>4, <1>5, <1>7 DEF Stage, SInv, Typed
<1>9. r # New
  BY <1>3, RunningIsNotNew
<1>. QED
  BY <1>1, <1>3, <1>4, <1>5, <1>7, <1>8, <1>9, OwnTurn

LEMMA DestroyStep == ASSUME SInv, NEW o \in Ops, Destroy(o) PROVE SInv'
<1>. DEFINE d == DestroySource(src[o])
<1>1. main.op = o /\ main.at = "destroy"
  BY DEF Destroy
<1>2. Leaving(src[o]) /\ reports[o] # << >> /\ src[o] \in Source
  BY <1>1 DEF SInv, Stages, Stage, Typed
<1>3. d \in Source /\ Gone(d)
  BY <1>2, DestroyedSource
<1>4. src' = [src EXCEPT ![o] = d] /\ UNCHANGED <<io, cancelled, keys, reports, reads, cancels>>
  BY DEF Destroy
<1>5. main' \in Turn /\ main'.op = None
  BY DEF Destroy, Idle, Turn
<1>. HIDE DEF d
<1>6. Stage(o)'
  BY <1>2, <1>3, <1>4, <1>5, SourceAssumption DEF Stage, SInv, Typed
<1>7. reports \in [Ops -> Seq(Results)]
  BY DEF SInv, Typed
<1>8. d # New
  BY <1>3, RunningIsNotNew
<1>. QED
  BY <1>1, <1>3, <1>4, <1>5, <1>6, <1>7, <1>8, OwnTurn

LEMMA ReturnLaterStep == ASSUME SInv, NEW o \in Ops, ReturnLater(o) PROVE SInv'
<1>1. src[o].failed /\ UNCHANGED <<src, io, main, cancelled, keys, reads, cancels>>
      /\ reports' = [reports EXCEPT ![o] = Append(@, "error")]
  BY DEF ReturnLater
<1>2. Failed(src[o]) /\ main.op # o
  BY <1>1 DEF SInv, Stages, Stage, Running, Leaving, Gone, New
<1>3. reports' \in [Ops -> Seq(Results)] /\ \A p \in Ops \ {o} : reports'[p] = reports[p]
  <2>1. "error" \in Results
    BY DEF Results
  <2>2. Append(reports[o], "error") \in Seq(Results)
    BY <2>1 DEF SInv, Typed
  <2>. QED
    BY <1>1, <2>2 DEF SInv, Typed
<1>4. Typed'
  BY <1>1, <1>3 DEF SInv, Typed
<1>5. \A p \in Ops : Stage(p)'
  BY <1>1, <1>2, <1>3 DEF SInv, Stages, Stage
<1>. QED
  BY <1>1, <1>4, <1>5 DEF SInv, Stages, EventsArrive

LEMMA SInvStep == SInv /\ [Next]_vars => SInv'
<1>. SUFFICES ASSUME SInv, [Next]_vars PROVE SInv'
  OBVIOUS
<1>1. CASE Cancel
  BY <1>1, CancelStep
<1>2. CASE Reset
  BY <1>2, ResetStep
<1>3. ASSUME NEW o \in Ops, Begin(o) PROVE SInv'
  BY <1>3, BeginStep
<1>4. ASSUME NEW o \in Ops, BeginFails(o) PROVE SInv'
  BY <1>4, BeginFailsStep
<1>5. ASSUME NEW o \in Ops, Loop(o) PROVE SInv'
  BY <1>5, DispatchStep, PassOverStep, ReadStep, EndOfFdStep, HandlerFailsStep, ContinueStep,
     ReturnStep, DestroyStep, ReturnLaterStep DEF Loop
<1>6. CASE UNCHANGED vars
  BY <1>6 DEF vars, SInv, Typed, Stages, Stage, EventsArrive
<1>. QED
  BY <1>1, <1>2, <1>3, <1>4, <1>5, <1>6 DEF Next

---------------------------------------------------------------------------
(* The theorems.                                                            *)

LEMMA SInvImplies == SInv => StaysAwake /\ Released
<1>. SUFFICES ASSUME SInv PROVE StaysAwake /\ Released
  OBVIOUS
<1>1. TypeOK
  BY DEF SInv, Typed, TypeOK, Source, Turn
<1>2. /\ Watched(New) = {} /\ New.attached = FALSE /\ New.state = "NONE"
      /\ New.linked = FALSE
  BY NewSource DEF New
<1>3. ASSUME NEW o \in Ops
      PROVE  /\ src[o].attached /\ src[o].state # "DONE" => Watched(src[o]) # {}
             /\ src[o].state = "DONE" \/ ~src[o].attached => Watched(src[o]) = {}
             /\ reports[o] # << >> /\ main.op # o /\ ~src[o].failed =>
                  src[o].refs = 0 /\ src[o].task = 0 /\ ~src[o].linked
             /\ src[o] # New /\ reports[o] = << >> => src[o].refs > 0 /\ src[o].task > 0
             /\ src[o].linked => src[o].refs > 0
  <2>1. Stage(o)
    BY DEF SInv, Stages
  <2>2. CASE src[o] = New /\ reports[o] = << >>
    BY <1>2, <2>2
  <2>3. CASE src[o] # New \/ reports[o] # << >>
    BY <2>1, <2>3 DEF Stage, Failed, Running, Leaving, Gone
  <2>. QED
    BY <2>2, <2>3
<1>4. StaysAwake /\ Released
  BY <1>1, <1>3 DEF StaysAwake, Released
<1>. QED
  BY <1>4

\* A source in the main loop is done or watches a descriptor, whatever the handlers, the
\* client and cancellations do in between.
THEOREM SourceStaysAwake == Spec => []StaysAwake
  BY SInvInit, SInvStep, SInvImplies, PTL DEF Spec

\* An operation that has reported holds neither source, task nor cancellable, unless its start
\* failed; one that has not holds both.
THEOREM SourceReleased == Spec => []Released
  BY SInvInit, SInvStep, SInvImplies, PTL DEF Spec
---------------------------------------------------------------------------
(* The refinement of GpgOperation.  A cancellation goes to the source a     *)
(* context has at the moment: it has to be known that this is the one that  *)
(* is connected, or another one with the cancellable.                       *)

\* Operations of one context are all given the cancellable, or none.
ContextsAgree ==
  \A o, p \in Ops : CtxOf[o] = CtxOf[p] /\ o \in Cancellable => p \in Cancellable

Homes ==
  /\ \A c \in Ctxs : io[c] \in Ops => CtxOf[io[c]] = c
  /\ \A o \in Ops : src[o] # New /\ reports[o] = << >> => io[CtxOf[o]] = o

\* An operation that runs and has the cancellable is connected, and not cancelled.  One that
\* ended out of its turn was cancelled.
Connected(o) ==
  /\ src[o].linked => o \in Cancellable
  /\ src[o].state = "START" /\ o \in Cancellable => src[o].linked /\ ~cancelled
  /\ src[o].state = "DONE" /\ reports[o] = << >> /\ main.op # o => src[o].err = "error"

RInv == SInv /\ Homes /\ \A o \in Ops : Connected(o)

phase == [o \in Ops |-> Phase(o)]
result == [o \in Ops |-> Result(o)]

OpVars == <<phase, result, keys, reports, cancelled>>

LEMMA NewFields ==
  /\ New.state = "NONE" /\ New.err = None /\ New.failed = FALSE /\ New.attached = FALSE
  /\ New.linked = FALSE
BY DEF New

LEMMA ReportedPhase ==
  ASSUME NEW o \in Ops, reports[o] # << >>
  PROVE  Phase(o) = "reported" /\ Result(o) = "none"
<1>1. Phase(o) = "reported"
  BY DEF Phase
<1>. QED
  BY <1>1 DEF Result

\* The stages as phases.
LEMMA Phases ==
  ASSUME NEW o \in Ops, Stage(o)
  PROVE  /\ src[o] = New => Phase(o) = "idle" /\ Result(o) = "none"
         /\ src[o].failed /\ reports[o] = << >> => Phase(o) = "ended" /\ Result(o) = "error"
         /\ Running(src[o]) /\ src[o].state = "START" /\ reports[o] = << >> =>
              Phase(o) = "running" /\ Result(o) = "none"
         /\ Running(src[o]) /\ src[o].state = "DONE" /\ reports[o] = << >> =>
              Phase(o) = "ended" /\ Result(o) = src[o].err
         /\ reports[o] # << >> => Phase(o) = "reported" /\ Result(o) = "none"
<1>1. CASE reports[o] # << >>
  <2>1. src[o] # New
    BY <1>1, RunningIsNotNew DEF Stage
  <2>. QED
    BY <1>1, <2>1, ReportedPhase
<1>2. CASE reports[o] = << >> /\ src[o] = New
  BY <1>2, NewFields, RunningIsNotNew DEF Phase, Result
<1>3. CASE reports[o] = << >> /\ src[o].failed
  BY <1>3, NewFields DEF Phase, Result, Running
<1>4. CASE reports[o] = << >> /\ Running(src[o])
  BY <1>4, RunningIsNotNew DEF Phase, Result, Running
<1>5. \/ reports[o] # << >>
      \/ reports[o] = << >> /\ (src[o] = New \/ src[o].failed \/ Running(src[o]))
  BY DEF Stage, Failed
<1>. QED
  BY <1>1, <1>2, <1>3, <1>4, <1>5

\* An operation whose source and reports do not change stays in its phase.
LEMMA SamePhase ==
  ASSUME NEW o \in Ops, src'[o] = src[o], reports'[o] = reports[o]
  PROVE  Phase(o)' = Phase(o) /\ Result(o)' = Result(o)
BY DEF Phase, Result

LEMMA RInvInit == Init => RInv /\ Operation!Init
<1>. SUFFICES ASSUME Init PROVE RInv /\ Operation!Init
  OBVIOUS
<1>1. SInv
  BY SInvInit
<1>2. \A o \in Ops : Stage(o) /\ src[o] = New /\ reports[o] = << >>
  BY <1>1 DEF SInv, Stages, Init
<1>3. Homes
  BY SourceAssumption DEF Init, Homes
<1>4. \A o \in Ops : Connected(o)
  BY <1>2, NewFields DEF Connected
<1>5. \A o \in Ops : Phase(o) = "idle" /\ Result(o) = "none"
  BY <1>2, Phases
<1>6. Operation!Init
  BY <1>5 DEF Operation!Init, Init
<1>. QED
  BY <1>1, <1>3, <1>4, <1>6 DEF RInv

\* What follows for the other operations when one changes.
LEMMA OthersConnected ==
  ASSUME RInv, NEW o \in Ops, NEW t \in Source, src' = [src EXCEPT ![o] = t],
         UNCHANGED cancelled, main'.op \in {o, None} \/ main'.op = main.op,
         main.op = o \/ main'.op = main.op,
         \A p \in Ops \ {o} : reports'[p] = reports[p]
  PROVE  \A p \in Ops \ {o} : /\ Connected(p)'
                              /\ Phase(p)' = Phase(p) /\ Result(p)' = Result(p)
<1>. SUFFICES ASSUME NEW p \in Ops \ {o}
              PROVE  Connected(p)' /\ Phase(p)' = Phase(p) /\ Result(p)' = Result(p)
  OBVIOUS
<1>1. src'[p] = src[p] /\ reports'[p] = reports[p]
  BY DEF RInv, SInv, Typed
<1>2. main'.op # p => main.op # p
  OBVIOUS
<1>3. Connected(p)'
  BY <1>1, <1>2 DEF RInv, Connected
<1>. QED
  BY <1>1, <1>3, SamePhase

\* A step of an operation that has been begun leaves the events where they are.
LEMMA HomesStay ==
  ASSUME RInv, NEW o \in Ops, NEW t \in Source, src' = [src EXCEPT ![o] = t],
         src[o] # New, UNCHANGED io,
         \A p \in Ops \ {o} : reports'[p] = reports[p],
         reports'[o] = reports[o] \/ reports'[o] # << >>
  PROVE  Homes'
BY DEF RInv, SInv, Typed, Homes
---------------------------------------------------------------------------
(* Every action maps to one of GpgOperation, or to none.                    *)

LEMMA BeginMaps ==
  ASSUME RInv, NEW o \in Ops, Begin(o) PROVE RInv' /\ Operation!Begin(o)
<1>. USE SourceAssumption
<1>1. PICK fds \in SUBSET Fds :
        /\ fds # {}
        /\ src' = [src EXCEPT ![o] =
                     UnrefSource(AttachSource(ConnectCancellable(StartEvent(Added(fds)), o)))]
  BY DEF Begin
<1>. DEFINE t == UnrefSource(AttachSource(ConnectCancellable(StartEvent(Added(fds)), o)))
<1>2. /\ t \in Source /\ Running(t)
      /\ t.linked => o \in Cancellable /\ ~cancelled
      /\ t.state = "START" /\ o \in Cancellable => t.linked
      /\ t.state = "DONE" => t.err = "error" /\ cancelled /\ o \in Cancellable
  BY <1>1, BegunSource DEF RInv, SInv, Typed
<1>3. src' = [src EXCEPT ![o] = t]
  BY <1>1
<1>. HIDE DEF t
<1>4. io' = [io EXCEPT ![CtxOf[o]] = o]
      /\ UNCHANGED <<main, cancelled, keys, reports, reads, cancels>>
      /\ src[o] = New /\ Free(CtxOf[o])
  BY DEF Begin
<1>5. SInv' /\ Stage(o) /\ Stage(o)'
  BY BeginStep DEF RInv, SInv, Stages
<1>6. src'[o] = t
  BY <1>3 DEF RInv, SInv, Typed
<1>7. reports[o] = << >>
  BY <1>4, <1>5, RunningIsNotNew DEF Stage
<1>8. \A p \in Ops \ {o} : Connected(p)' /\ Phase(p)' = Phase(p) /\ Result(p)' = Result(p)
  BY <1>2, <1>3, <1>4, OthersConnected
<1>9. Connected(o)'
  BY <1>2, <1>4, <1>6 DEF Connected
<1>10. Homes'
  <2>1. ASSUME NEW p \in Ops \ {o}, src'[p] # New, reports'[p] = << >>
        PROVE  io'[CtxOf[p]] = p
    <3>1. src[p] # New /\ reports[p] = << >>
      BY <1>3, <1>4, <2>1 DEF RInv, SInv, Typed
    <3>2. io[CtxOf[p]] = p /\ CtxOf[p] # CtxOf[o]
      BY <1>4, <3>1 DEF RInv, Homes, Free
    <3>. QED
      BY <1>4, <3>2 DEF RInv, SInv, Typed
  <2>2. io'[CtxOf[o]] = o
    BY <1>4 DEF RInv, SInv, Typed
  <2>3. \A c \in Ctxs : io'[c] \in Ops => CtxOf[io'[c]] = c
    BY <1>4 DEF RInv, SInv, Typed, Homes
  <2>. QED
    BY <2>1, <2>2, <2>3 DEF Homes
<1>11. RInv'
  BY <1>5, <1>8, <1>9, <1>10 DEF RInv
<1>12. Phase(o) = "idle" /\ Result(o) = "none"
  BY <1>4, <1>5, Phases
<1>13. t.state = "START" \/ t.state = "DONE"
  BY <1>2 DEF Running
<1>14. CASE t.state = "START"
  <2>1. Phase(o)' = "running" /\ Result(o)' = "none"
    BY <1>2, <1>4, <1>6, <1>7, <1>14 DEF Phase, Result, Running
  <2>2. ~(cancelled /\ o \in Cancellable)
    BY <1>2, <1>14
  <2>3. phase' = [phase EXCEPT ![o] = "running"] /\ result' = result
    BY <1>8, <1>12, <2>1 DEF phase, result
  <2>. QED
    BY <1>4, <1>11, <1>12, <2>2, <2>3 DEF Operation!Begin, phase, result
<1>15. CASE t.state = "DONE"
  <2>1. Phase(o)' = "ended" /\ Result(o)' = "error"
    BY <1>2, <1>4, <1>6, <1>7, <1>15 DEF Phase, Result, Running
  <2>2. phase' = [phase EXCEPT ![o] = "ended"] /\ result' = [result EXCEPT ![o] = "error"]
    BY <1>8, <1>12, <2>1 DEF phase, result
  <2>. QED
    BY <1>4, <1>11, <1>12, <2>2 DEF Operation!Begin, phase, result
<1>. QED
  BY <1>13, <1>14, <1>15
LEMMA BeginFailsMaps ==
  ASSUME RInv, NEW o \in Ops, BeginFails(o) PROVE RInv' /\ Operation!Begin(o)
<1>. USE SourceAssumption
<1>. DEFINE t == [Fresh EXCEPT !.failed = TRUE]
<1>1. t \in Source /\ Failed(t) /\ t.state = "NONE"
  BY FreshSource
<1>2. src' = [src EXCEPT ![o] = t]
  BY DEF BeginFails
<1>. HIDE DEF t
<1>3. io' = [io EXCEPT ![CtxOf[o]] = o]
      /\ UNCHANGED <<main, cancelled, keys, reports, reads, cancels>>
      /\ src[o] = New /\ Free(CtxOf[o])
  BY DEF BeginFails
<1>4. SInv' /\ Stage(o) /\ Stage(o)'
  BY BeginFailsStep DEF RInv, SInv, Stages
<1>5. src'[o] = t
  BY <1>2 DEF RInv, SInv, Typed
<1>6. reports[o] = << >>
  BY <1>3, <1>4, RunningIsNotNew DEF Stage
<1>7. \A p \in Ops \ {o} : Connected(p)' /\ Phase(p)' = Phase(p) /\ Result(p)' = Result(p)
  BY <1>1, <1>2, <1>3, OthersConnected
<1>8. Connected(o)'
  BY <1>1, <1>3, <1>5 DEF Connected, Failed
<1>9. Homes'
  <2>1. ASSUME NEW p \in Ops \ {o}, src'[p] # New, reports'[p] = << >>
        PROVE  io'[CtxOf[p]] = p
    <3>1. src[p] # New /\ reports[p] = << >>
      BY <1>2, <1>3, <2>1 DEF RInv, SInv, Typed
    <3>2. io[CtxOf[p]] = p /\ CtxOf[p] # CtxOf[o]
      BY <1>3, <3>1 DEF RInv, Homes, Free
    <3>. QED
      BY <1>3, <3>2 DEF RInv, SInv, Typed
  <2>2. io'[CtxOf[o]] = o
    BY <1>3 DEF RInv, SInv, Typed
  <2>3. \A c \in Ctxs : io'[c] \in Ops => CtxOf[io'[c]] = c
    BY <1>3 DEF RInv, SInv, Typed, Homes
  <2>. QED
    BY <2>1, <2>2, <2>3 DEF Homes
<1>10. RInv'
  BY <1>4, <1>7, <1>8, <1>9 DEF RInv
<1>11. Phase(o) = "idle" /\ Result(o) = "none"
  BY <1>3, <1>4, Phases
<1>12. Phase(o)' = "ended" /\ Result(o)' = "error"
  BY <1>1, <1>3, <1>5, <1>6 DEF Phase, Result, Failed
<1>13. phase' = [phase EXCEPT ![o] = "ended"] /\ result' = [result EXCEPT ![o] = "error"]
  BY <1>7, <1>11, <1>12 DEF phase, result
<1>. QED
  BY <1>3, <1>10, <1>11, <1>13 DEF Operation!Begin, phase, result

\* The sources that are hit run and have the cancellable, or have ended already.
LEMMA CancelMaps ==
  ASSUME ContextsAgree, RInv, Cancel PROVE RInv' /\ Operation!Cancel
<1>. USE SourceAssumption
<1>. DEFINE hit == {io[CtxOf[o]] : o \in {p \in Ops : src[p].linked}}
            live == {o \in Cancellable : phase[o] = "running"}
<1>1. src' = [o \in Ops |-> IF o \in hit THEN DoneEvent(src[o], "error") ELSE src[o]]
  BY DEF Cancel
<1>2. UNCHANGED <<io, main, keys, reports>> /\ ~cancelled /\ cancelled' = TRUE
      /\ main.at \in {None, "destroy"}
  BY DEF Cancel, Client
<1>3. \A o \in hit : o \in Ops => o \in Cancellable /\ src[o] # New
  BY DEF RInv, SInv, Typed, EventsArrive, Homes, Connected, ContextsAgree
<1>4. \A o \in Ops : src[o].linked /\ src[o] # New /\ reports[o] = << >> => o \in hit
  BY DEF RInv, Homes
<1>. HIDE DEF hit, live
<1>5. SInv'
  BY CancelStep DEF RInv
<1>6. ASSUME NEW o \in Ops
      PROVE  /\ Connected(o)'
             /\ src[o] = New => src'[o] = New
             /\ o \in live => Phase(o)' = "ended" /\ Result(o)' = "error"
             /\ o \notin live => Phase(o)' = Phase(o) /\ Result(o)' = Result(o)
  <2>1. Stage(o) /\ Stage(o)' /\ src[o] \in Source /\ Connected(o)
    BY <1>5 DEF RInv, SInv, Stages, Typed
  <2>2. o \in live <=> o \in Cancellable /\ Phase(o) = "running"
    BY DEF live, phase
  <2>3. CASE o \notin hit
    <3>1. src'[o] = src[o] /\ reports'[o] = reports[o]
      BY <1>1, <1>2, <2>3
    <3>2. ~(src[o].state = "START" /\ o \in Cancellable)
      BY <1>4, <2>1, <2>3, NewFields DEF Connected, Stage, Failed, Running, Leaving, Gone
    <3>3. o \notin live
      BY <2>2, <3>2 DEF Phase
    <3>4. Connected(o)'
      BY <1>2, <2>1, <3>1, <3>2 DEF Connected
    <3>. QED
      BY <3>1, <3>3, <3>4, SamePhase
  <2>4. CASE o \in hit
    <3>. DEFINE d == DoneEvent(src[o], "error")
    <3>1. src'[o] = d /\ reports'[o] = reports[o]
      BY <1>1, <1>2, <2>4
    <3>2. /\ d.state = "DONE" /\ d.err = "error"
          /\ d.failed = src[o].failed /\ d.linked = src[o].linked
      BY <2>1, DoneSource DEF Results
    <3>. HIDE DEF d
    <3>3. o \in Cancellable /\ src[o] # New
      BY <1>3, <2>4
    <3>4. Connected(o)'
      BY <2>1, <3>1, <3>2 DEF Connected
    <3>5. CASE reports[o] # << >>
      <4>1. Phase(o) = "reported" /\ Result(o) = "none"
        BY <3>5, ReportedPhase
      <4>2. Phase(o)' = "reported"
        BY <3>1, <3>5 DEF Phase
      <4>3. Result(o)' = "none"
        BY <4>2 DEF Result
      <4>. QED
        BY <2>2, <3>3, <3>4, <4>1, <4>2, <4>3
    <3>6. CASE reports[o] = << >>
      <4>1. Phase(o)' = "ended" /\ Result(o)' = "error"
        BY <3>1, <3>2, <3>6 DEF Phase, Result
      <4>2. Phase(o) \in {"running", "ended"} /\ (Phase(o) = "ended" => Result(o) = "error")
        <5>1. CASE src[o].failed
          BY <3>6, <5>1 DEF Phase, Result
        <5>2. CASE Running(src[o]) /\ main.op # o
          BY <2>1, <3>6, <5>2 DEF Phase, Result, Running, Connected
        <5>3. src[o].failed \/ (Running(src[o]) /\ main.op # o)
          BY <1>2, <2>1, <3>3, <3>6 DEF Stage, Failed, None
        <5>. QED
          BY <5>1, <5>2, <5>3
      <4>. QED
        BY <2>2, <3>3, <3>4, <4>1, <4>2
    <3>. QED
      BY <3>5, <3>6
  <2>. QED
    BY <2>3, <2>4
<1>7. Homes'
  BY <1>2, <1>6 DEF RInv, Homes
<1>8. RInv'
  BY <1>5, <1>6, <1>7 DEF RInv
<1>9. /\ phase' = [o \in Ops |-> IF o \in live THEN "ended" ELSE phase[o]]
      /\ result' = [o \in Ops |-> IF o \in live THEN "error" ELSE result[o]]
  BY <1>6 DEF phase, result
<1>. QED
  BY <1>2, <1>8, <1>9 DEF Operation!Cancel, phase, result, live

\* The main loop turning, without a handler of gpgme or a report: nothing that can be seen.
LEMMA QuietMaps ==
  ASSUME RInv, NEW o \in Ops, Dispatch(o) \/ PassOver(o) \/ Continue(o)
  PROVE  RInv' /\ UNCHANGED OpVars
<1>1. SInv'
  BY DispatchStep, PassOverStep, ContinueStep DEF RInv
<1>2. UNCHANGED <<src, io, cancelled, keys, reports>>
  BY DEF Dispatch, PassOver, Continue
<1>3. \A p \in Ops : main'.op # p => main.op # p \/ src[p].state # "DONE"
  <2>1. CASE Dispatch(o)
    BY <2>1, SourceAssumption DEF Dispatch, Idle
  <2>2. CASE PassOver(o)
    BY <2>2, Advancing DEF PassOver, RInv
  <2>3. CASE Continue(o)
    BY <2>3 DEF Continue, IsDone
  <2>. QED
    BY <2>1, <2>2, <2>3
<1>4. \A p \in Ops : Connected(p)'
  BY <1>2, <1>3 DEF RInv, Connected
<1>5. Homes'
  BY <1>2 DEF RInv, Homes
<1>6. \A p \in Ops : Phase(p)' = Phase(p) /\ Result(p)' = Result(p)
  BY <1>2, SamePhase
<1>. QED
  BY <1>1, <1>2, <1>4, <1>5, <1>6 DEF RInv, OpVars, phase, result

LEMMA ResetMaps == ASSUME RInv, Reset PROVE RInv' /\ Operation!Reset
<1>1. SInv'
  BY ResetStep DEF RInv
<1>2. cancelled' = FALSE /\ UNCHANGED <<src, io, main, keys, reports>>
  BY DEF Reset
<1>3. \A p \in Ops : Connected(p)'
  BY <1>2 DEF RInv, Connected
<1>4. Homes'
  BY <1>2 DEF RInv, Homes
<1>5. \A p \in Ops : Phase(p)' = Phase(p) /\ Result(p)' = Result(p)
  BY <1>2, SamePhase
<1>. QED
  BY <1>1, <1>2, <1>3, <1>4, <1>5 DEF RInv, Operation!Reset, phase, result
\* A step that changes the source o, in o's turn, and its phase and result from those before
\* to those of the new source.
LEMMA TurnMaps ==
  ASSUME RInv, SInv', NEW o \in Ops, NEW t \in Source, src' = [src EXCEPT ![o] = t],
         main.op = o, main'.op \in {o, None}, src[o] # New,
         UNCHANGED <<io, cancelled>>, reports' \in [Ops -> Seq(Results)],
         \A p \in Ops \ {o} : reports'[p] = reports[p],
         reports'[o] = reports[o] \/ reports'[o] # << >>,
         Connected(o)'
  PROVE  /\ RInv'
         /\ phase' = [phase EXCEPT ![o] = Phase(o)']
         /\ result' = [result EXCEPT ![o] = Result(o)']
<1>1. \A p \in Ops \ {o} : Connected(p)' /\ Phase(p)' = Phase(p) /\ Result(p)' = Result(p)
  BY OthersConnected
<1>2. Homes'
  BY HomesStay
<1>. QED
  BY <1>1, <1>2 DEF RInv, phase, result

LEMMA ReadMaps ==
  ASSUME RInv, NEW o \in Ops, Read(o)
  PROVE  RInv' /\ (Operation!Deliver(o) \/ UNCHANGED OpVars)
<1>1. /\ Running(src[o]) /\ src[o].state = "START" /\ reports[o] = << >>
      /\ src[o] \in Source /\ main.op = o /\ main'.op = o /\ src[o] # New
  BY Handling, RunningIsNotNew DEF Read, Handle, Walk, RInv
<1>2. SInv' /\ Stage(o) /\ reports \in [Ops -> Seq(Results)] /\ src \in [Ops -> Source]
  BY ReadStep DEF RInv, SInv, Stages, Typed
<1>3. UNCHANGED <<io, cancelled, reports, cancels>>
  BY DEF Read
<1>4. Phase(o) = "running" /\ Result(o) = "none"
  BY <1>1, <1>2, Phases
<1>5. CASE keys[o] < MaxKeys /\ keys' = [keys EXCEPT ![o] = @ + 1] /\ UNCHANGED src
  <2>1. src' = [src EXCEPT ![o] = src[o]]
    BY <1>2, <1>5
  <2>2. Connected(o)'
    BY <1>1, <1>3, <1>5 DEF RInv, Connected
  <2>3. RInv'
    BY <1>1, <1>2, <1>3, <2>1, <2>2, TurnMaps
  <2>4. phase' = phase /\ result' = result
    BY <1>3, <1>5, SamePhase DEF phase, result
  <2>5. Operation!Deliver(o)
    BY <1>3, <1>4, <1>5, <2>4 DEF Operation!Deliver, phase, result
  <2>. QED
    BY <2>3, <2>5
<1>6. ASSUME NEW f \in Fds, src' = [src EXCEPT ![o] = AddFd(src[o], f)], UNCHANGED keys
      PROVE  RInv' /\ UNCHANGED OpVars
  <2>. DEFINE a == AddFd(src[o], f)
  <2>1. /\ a \in Source /\ Running(a)
        /\ a.state = "START" /\ a.linked = src[o].linked /\ a.err = src[o].err
    BY <1>1, AddedFd
  <2>2. src' = [src EXCEPT ![o] = a] /\ src'[o] = a
    BY <1>2, <1>6
  <2>. HIDE DEF a
  <2>3. Connected(o)'
    BY <1>1, <1>3, <2>1, <2>2 DEF RInv, Connected
  <2>4. /\ RInv'
        /\ phase' = [phase EXCEPT ![o] = Phase(o)']
        /\ result' = [result EXCEPT ![o] = Result(o)']
    BY <1>1, <1>2, <1>3, <2>1, <2>2, <2>3, TurnMaps
  <2>5. Phase(o)' = Phase(o) /\ Result(o)' = Result(o)
    BY <1>1, <1>3, <1>4, <2>1, <2>2 DEF Phase, Result, Running
  <2>. QED
    BY <1>3, <1>6, <2>4, <2>5 DEF OpVars, phase, result
<1>. QED
  BY <1>5, <1>6 DEF Read

LEMMA EndOfFdMaps ==
  ASSUME RInv, NEW o \in Ops, EndOfFd(o)
  PROVE  RInv' /\ (Operation!End(o) \/ UNCHANGED OpVars)
<1>. DEFINE s == RemoveFd(src[o], Current)
            t == IF Watched(s) = {} THEN DoneEvent(s, "ok") ELSE s
<1>1. /\ Running(src[o]) /\ src[o].state = "START" /\ reports[o] = << >>
      /\ src[o] \in Source /\ Current \in Fds
      /\ main.op = o /\ main'.op = o /\ src[o] # New
  BY Handling, RunningIsNotNew DEF EndOfFd, Handle, Walk, RInv
<1>2. SInv' /\ Stage(o) /\ reports \in [Ops -> Seq(Results)] /\ src \in [Ops -> Source]
  BY EndOfFdStep DEF RInv, SInv, Stages, Typed
<1>3. UNCHANGED <<io, cancelled, keys, reports>> /\ src' = [src EXCEPT ![o] = t]
  BY DEF EndOfFd
<1>4. Phase(o) = "running" /\ Result(o) = "none"
  BY <1>1, <1>2, Phases
<1>5. s \in Source /\ s.state = "START" /\ s.linked = src[o].linked /\ s.failed = src[o].failed
  BY <1>1, RemovedFd
<1>. HIDE DEF s
<1>6. /\ t \in Source /\ t.linked = src[o].linked /\ ~t.failed
      /\ \/ t.state = "START"
         \/ t.state = "DONE" /\ t.err = "ok"
  BY <1>1, <1>5, DoneSource DEF Results, Running
<1>. HIDE DEF t
<1>7. src'[o] = t
  BY <1>2, <1>3
<1>8. Connected(o)'
  BY <1>1, <1>3, <1>6, <1>7 DEF RInv, Connected
<1>9. /\ RInv'
      /\ phase' = [phase EXCEPT ![o] = Phase(o)']
      /\ result' = [result EXCEPT ![o] = Result(o)']
  BY <1>1, <1>2, <1>3, <1>6, <1>8, TurnMaps
<1>10. CASE t.state = "START"
  <2>1. Phase(o)' = Phase(o) /\ Result(o)' = Result(o)
    BY <1>1, <1>3, <1>4, <1>6, <1>7, <1>10 DEF Phase, Result
  <2>. QED
    BY <1>3, <1>9, <2>1 DEF OpVars, phase, result
<1>11. CASE t.state = "DONE" /\ t.err = "ok"
  <2>1. Phase(o)' = "ended" /\ Result(o)' = "ok"
    BY <1>1, <1>3, <1>6, <1>7, <1>11 DEF Phase, Result
  <2>. QED
    BY <1>3, <1>4, <1>9, <2>1 DEF Operation!End, phase, result
<1>. QED
  BY <1>6, <1>10, <1>11

LEMMA HandlerFailsMaps ==
  ASSUME RInv, NEW o \in Ops, HandlerFails(o)
  PROVE  RInv' /\ Operation!End(o)
<1>. DEFINE t == DoneEvent(src[o], "error")
<1>1. /\ Running(src[o]) /\ src[o].state = "START" /\ reports[o] = << >>
      /\ src[o] \in Source /\ main.op = o /\ main'.op = o /\ src[o] # New
  BY Handling, RunningIsNotNew DEF HandlerFails, Handle, Walk, RInv
<1>2. SInv' /\ Stage(o) /\ reports \in [Ops -> Seq(Results)] /\ src \in [Ops -> Source]
  BY HandlerFailsStep DEF RInv, SInv, Stages, Typed
<1>3. UNCHANGED <<io, cancelled, keys, reports>> /\ src' = [src EXCEPT ![o] = t]
  BY DEF HandlerFails
<1>4. Phase(o) = "running" /\ Result(o) = "none"
  BY <1>1, <1>2, Phases
<1>5. /\ t \in Source /\ t.linked = src[o].linked /\ ~t.failed
      /\ t.state = "DONE" /\ t.err = "error"
  BY <1>1, DoneSource DEF Results, Running
<1>. HIDE DEF t
<1>6. src'[o] = t
  BY <1>2, <1>3
<1>7. Connected(o)'
  BY <1>1, <1>3, <1>5, <1>6 DEF RInv, Connected
<1>8. /\ RInv'
      /\ phase' = [phase EXCEPT ![o] = Phase(o)']
      /\ result' = [result EXCEPT ![o] = Result(o)']
  BY <1>1, <1>2, <1>3, <1>5, <1>7, TurnMaps
<1>9. Phase(o)' = "ended" /\ Result(o)' = "error"
  BY <1>1, <1>3, <1>5, <1>6 DEF Phase, Result
<1>. QED
  BY <1>3, <1>4, <1>8, <1>9 DEF Operation!End, phase, result

LEMMA ReturnMaps == ASSUME RInv, NEW o \in Ops, Return(o) PROVE RInv' /\ Operation!Report(o)
<1>. DEFINE t == UnrefTask(src[o])
<1>1. main.op = o /\ main.at = "walk" /\ src[o].state = "DONE"
  BY DEF Return, IsDone
<1>2. /\ Running(src[o]) /\ reports[o] = << >> /\ src[o] \in Source /\ src[o] # New /\ Stage(o)
      /\ reports \in [Ops -> Seq(Results)] /\ src \in [Ops -> Source]
  BY <1>1, RunningIsNotNew DEF RInv, SInv, Stages, Stage, Typed
<1>3. SInv' /\ reports' \in [Ops -> Seq(Results)] /\ Stage(o)'
  BY ReturnStep DEF RInv, SInv, Stages, Typed
<1>4. UNCHANGED <<io, cancelled, keys>> /\ src' = [src EXCEPT ![o] = t]
      /\ reports' = [reports EXCEPT ![o] = Append(@, Outcome(o))]
      /\ main' = [main EXCEPT !.at = "destroy"]
  BY DEF Return
<1>5. t \in Source /\ t.state = "DONE" /\ t.linked = src[o].linked /\ t.err = src[o].err
  BY <1>1, <1>2, ReturnedSource
<1>. HIDE DEF t
<1>6. main'.op = o
  BY <1>1, <1>4 DEF RInv, SInv, Typed, Turn
<1>7. src'[o] = t /\ reports'[o] # << >> /\ \A p \in Ops \ {o} : reports'[p] = reports[p]
  <2>1. src'[o] = t /\ \A p \in Ops \ {o} : reports'[p] = reports[p]
    BY <1>2, <1>4
  <2>2. Leaving(src'[o])
    BY <1>1, <1>2, <1>4, <2>1, ReturnedSource DEF t
  <2>3. reports'[o] = Append(<< >>, Outcome(o))
    BY <1>2, <1>4
  <2>4. Len(Append(<< >>, Outcome(o))) = 1
    OBVIOUS
  <2>. QED
    BY <2>1, <2>3, <2>4
<1>8. Connected(o)'
  BY <1>1, <1>4, <1>5, <1>6, <1>7 DEF RInv, Connected
<1>9. /\ RInv'
      /\ phase' = [phase EXCEPT ![o] = Phase(o)']
      /\ result' = [result EXCEPT ![o] = Result(o)']
  BY <1>1, <1>2, <1>3, <1>4, <1>5, <1>6, <1>7, <1>8, TurnMaps
<1>10. Phase(o) = "ended" /\ Result(o) = src[o].err
  BY <1>1, <1>2, Phases
<1>11. Phase(o)' = "reported" /\ Result(o)' = "none"
  BY <1>7 DEF Phase, Result
<1>12. phase[o] = "ended" /\ result[o] = src[o].err
  BY <1>10 DEF phase, result
<1>13. reports' = [reports EXCEPT ![o] = Append(@, IF cancelled /\ o \in Cancellable THEN "error"
                                                   ELSE result[o])]
  BY <1>4, <1>12 DEF Outcome
<1>. QED
  BY <1>4, <1>9, <1>11, <1>12, <1>13 DEF Operation!Report, phase, result

LEMMA DestroyMaps == ASSUME RInv, NEW o \in Ops, Destroy(o) PROVE RInv' /\ UNCHANGED OpVars
<1>. DEFINE t == DestroySource(src[o])
<1>1. main.op = o /\ main.at = "destroy"
  BY DEF Destroy
<1>2. /\ Leaving(src[o]) /\ reports[o] # << >> /\ src[o] \in Source /\ src[o] # New
      /\ reports \in [Ops -> Seq(Results)] /\ src \in [Ops -> Source]
  BY <1>1, RunningIsNotNew DEF RInv, SInv, Stages, Stage, Typed
<1>3. SInv'
  BY DestroyStep DEF RInv
<1>4. UNCHANGED <<io, cancelled, keys, reports>> /\ src' = [src EXCEPT ![o] = t] /\ main'.op = None
  BY DEF Destroy, Idle
<1>5. t \in Source /\ Gone(t)
  BY <1>2, DestroyedSource
<1>. HIDE DEF t
<1>6. src'[o] = t
  BY <1>2, <1>4
<1>7. Connected(o)'
  BY <1>2, <1>4, <1>5, <1>6 DEF RInv, Connected, Gone
<1>8. /\ RInv'
      /\ phase' = [phase EXCEPT ![o] = Phase(o)']
      /\ result' = [result EXCEPT ![o] = Result(o)']
  BY <1>1, <1>2, <1>3, <1>4, <1>5, <1>7, TurnMaps
<1>9. Phase(o)' = Phase(o) /\ Result(o)' = Result(o)
  BY <1>2, <1>4 DEF Phase, Result
<1>. QED
  BY <1>4, <1>8, <1>9 DEF OpVars, phase, result

LEMMA ReturnLaterMaps ==
  ASSUME RInv, NEW o \in Ops, ReturnLater(o) PROVE RInv' /\ Operation!Report(o)
<1>1. /\ src[o].failed /\ reports[o] = << >>
      /\ UNCHANGED <<src, io, main, cancelled, keys>>
      /\ reports' = [reports EXCEPT ![o] = Append(@, "error")]
  BY DEF ReturnLater
<1>2. SInv' /\ Stage(o) /\ reports \in [Ops -> Seq(Results)]
  BY ReturnLaterStep DEF RInv, SInv, Stages, Typed
<1>3. reports'[o] # << >> /\ \A p \in Ops \ {o} : reports'[p] = reports[p]
  <2>1. reports'[o] = Append(<< >>, "error") /\ \A p \in Ops \ {o} : reports'[p] = reports[p]
    BY <1>1, <1>2
  <2>2. Len(Append(<< >>, "error")) = 1
    OBVIOUS
  <2>. QED
    BY <2>1, <2>2
<1>4. Homes' /\ \A p \in Ops : Connected(p)'
  BY <1>1, <1>3 DEF RInv, Homes, Connected
<1>5. Phase(o) = "ended" /\ Result(o) = "error"
  BY <1>1, <1>2, Phases
<1>6. Phase(o)' = "reported" /\ Result(o)' = "none"
  BY <1>3 DEF Phase, Result
<1>7. \A p \in Ops \ {o} : Phase(p)' = Phase(p) /\ Result(p)' = Result(p)
  BY <1>1, <1>3, SamePhase
<1>8. phase' = [phase EXCEPT ![o] = "reported"] /\ result' = [result EXCEPT ![o] = "none"]
      /\ phase[o] = "ended" /\ result[o] = "error"
  BY <1>5, <1>6, <1>7 DEF phase, result
<1>. QED
  BY <1>1, <1>2, <1>4, <1>8 DEF RInv, Operation!Report, phase, result

LEMMA RInvStep ==
  ASSUME ContextsAgree, RInv, [Next]_vars
  PROVE  RInv' /\ [Operation!Next]_OpVars
<1>1. CASE Cancel
  BY <1>1, CancelMaps DEF Operation!Next
<1>2. CASE Reset
  BY <1>2, ResetMaps DEF Operation!Next
<1>3. ASSUME NEW o \in Ops, Begin(o) \/ BeginFails(o) PROVE RInv' /\ Operation!Next
  BY <1>3, BeginMaps, BeginFailsMaps DEF Operation!Next
<1>4. ASSUME NEW o \in Ops, Loop(o) PROVE RInv' /\ [Operation!Next]_OpVars
  <2>1. CASE Dispatch(o) \/ PassOver(o) \/ Continue(o)
    BY <2>1, QuietMaps
  <2>2. CASE Read(o)
    BY <2>2, ReadMaps DEF Operation!Next
  <2>3. CASE EndOfFd(o)
    BY <2>3, EndOfFdMaps DEF Operation!Next
  <2>4. CASE HandlerFails(o)
    BY <2>4, HandlerFailsMaps DEF Operation!Next
  <2>5. CASE Return(o)
    BY <2>5, ReturnMaps DEF Operation!Next
  <2>6. CASE Destroy(o)
    BY <2>6, DestroyMaps
  <2>7. CASE ReturnLater(o)
    BY <2>7, ReturnLaterMaps DEF Operation!Next
  <2>. QED
    BY <1>4, <2>1, <2>2, <2>3, <2>4, <2>5, <2>6, <2>7 DEF Loop
<1>5. CASE UNCHANGED vars
  <2>1. \A p \in Ops : Phase(p)' = Phase(p) /\ Result(p)' = Result(p)
    BY <1>5, SamePhase DEF vars
  <2>2. SInv'
    BY <1>5, SInvStep DEF RInv
  <2>3. RInv'
    BY <1>5, <2>2 DEF vars, RInv, Homes, Connected
  <2>. QED
    BY <1>5, <2>1, <2>3 DEF vars, OpVars, phase, result
<1>. QED
  BY <1>1, <1>2, <1>3, <1>4, <1>5 DEF Next

\* If the operations of a context are all given the cancellable, or none, every one ends once,
\* reports once, after its keys, and an error if it is cancelled.
THEOREM SourceIsOperation ==
  ASSUME ContextsAgree PROVE Spec => ImplementsOperation
<1>1. RInv /\ [Next]_vars => RInv' /\ [Operation!Next]_(Operation!vars)
  BY RInvStep, ContextsAgree DEF Operation!vars, OpVars, phase, result
<1>. QED
  BY <1>1, RInvInit, PTL DEF Spec, ImplementsOperation, Operation!Spec

---------------------------------------------------------------------------
(* GpgObjects.  Bags and counting.                                          *)

LEMMA CopiesAreNat ==
  ASSUME NEW b, IsABag(b)
  PROVE  \A x : Copies(b, x) \in Nat /\ (x \in DOMAIN b <=> Copies(b, x) > 0)
  BY DEF IsABag, Copies

LEMMA CopiesOfSet ==
  ASSUME NEW S
  PROVE  /\ IsABag(SetToBag(S)) /\ DOMAIN SetToBag(S) = S
         /\ \A x : Copies(SetToBag(S), x) = One(x \in S)
<1>1. SetToBag(S) = [e \in S |-> 1]
  BY DEF SetToBag
<1>. DEFINE b == SetToBag(S)
<1>. HIDE DEF b
<1>2. DOMAIN b = S /\ \A e \in S : b[e] = 1
  BY <1>1 DEF b
<1>3. IsABag(b) /\ \A x : Copies(b, x) = One(x \in S)
  BY <1>1, <1>2 DEF IsABag, Copies, One, b
<1>. QED
  BY <1>2, <1>3 DEF b

LEMMA CopiesOfSingle ==
  ASSUME NEW x
  PROVE  /\ IsABag(Single(x)) /\ DOMAIN Single(x) = {x}
         /\ \A y : Copies(Single(x), y) = One(y = x)
<1>1. \A y : (y \in {x}) = (y = x)
  OBVIOUS
<1>2. \A y : One(y \in {x}) = One(y = x)
  BY DEF One
<1>. QED
  BY <1>2, CopiesOfSet DEF Single

LEMMA NoCopies == IsABag(EmptyBag) /\ DOMAIN EmptyBag = {} /\ \A x : Copies(EmptyBag, x) = 0
  BY CopiesOfSet DEF EmptyBag, One

LEMMA CopiesOfSum ==
  ASSUME NEW b, NEW c, IsABag(b), IsABag(c)
  PROVE  /\ IsABag(b (+) c) /\ DOMAIN (b (+) c) = DOMAIN b \cup DOMAIN c
         /\ \A x : Copies(b (+) c, x) = Copies(b, x) + Copies(c, x)
<1>. DEFINE s == b (+) c
<1>1. s = [e \in DOMAIN b \cup DOMAIN c |-> Copies(b, e) + Copies(c, e)]
  BY DEF (+), Copies
<1>2. \A x : /\ Copies(b, x) \in Nat /\ (x \in DOMAIN b <=> Copies(b, x) > 0)
             /\ Copies(c, x) \in Nat /\ (x \in DOMAIN c <=> Copies(c, x) > 0)
  BY CopiesAreNat
<1>. HIDE DEF s
<1>3. IsABag(s)
  BY <1>1, <1>2 DEF IsABag
<1>4. \A x : Copies(s, x) = Copies(b, x) + Copies(c, x)
  <2>. SUFFICES ASSUME NEW x PROVE Copies(s, x) = Copies(b, x) + Copies(c, x)
    OBVIOUS
  <2>1. CASE x \in DOMAIN b \cup DOMAIN c
    <3>1. Copies(s, x) = s[x]
      BY <1>1, <2>1 DEF Copies
    <3>. QED
      BY <1>1, <2>1, <3>1
  <2>2. CASE x \notin DOMAIN b \cup DOMAIN c
    <3>1. Copies(s, x) = 0 /\ Copies(b, x) = 0 /\ Copies(c, x) = 0
      BY <1>1, <2>2 DEF Copies
    <3>. QED
      BY <3>1
  <2>. QED
    BY <2>1, <2>2
<1>. QED
  BY <1>1, <1>3, <1>4 DEF s

\* A finite set counted in two parts.
LEMMA CountParts ==
  ASSUME NEW S, NEW T, IsFiniteSet(S)
  PROVE  /\ IsFiniteSet(S \ T) /\ IsFiniteSet(S \cap T)
         /\ {Cardinality(S), Cardinality(S \ T), Cardinality(S \cap T)} \subseteq Nat
         /\ Cardinality(S) = Cardinality(S \ T) + Cardinality(S \cap T)
<1>1. IsFiniteSet(S \ T) /\ Cardinality(S \ T) = Cardinality(S) - Cardinality(S \cap T)
  BY FS_Difference
<1>2. IsFiniteSet(S \cap T)
  BY FS_Intersection
<1>3. Cardinality(S) \in Nat /\ Cardinality(S \ T) \in Nat /\ Cardinality(S \cap T) \in Nat
  BY <1>1, <1>2, FS_CardinalityType
<1>. QED
  BY <1>1, <1>2, <1>3

LEMMA LeastNumber ==
  ASSUME NEW S \in SUBSET Nat, S # {}
  PROVE  Min(S) \in S
<1>. DEFINE Less == {p \in Nat \X Nat : p[1] < p[2]}
<1>1. IsWellFoundedOn(Less, Nat)
  BY NatLessThanWellFounded DEF OpToRel
<1>2. PICK x \in S : \A y \in S : <<y, x>> \notin Less
  BY <1>1, WFMin
<1>3. ASSUME NEW y \in S PROVE x <= y
  <2>1. y \in Nat /\ x \in Nat
    OBVIOUS
  <2>2. <<y, x>> \in Nat \X Nat /\ <<y, x>>[1] = y /\ <<y, x>>[2] = x
    BY <2>1
  <2>3. ~(y < x)
    BY <1>2, <2>2
  <2>. QED
    BY <2>1, <2>3
<1>4. \E z \in S : \A y \in S : z <= y
  BY <1>3
<1>5. Min(S) = CHOOSE z \in S : \A y \in S : z <= y
  BY DEF Min
<1>. QED
  BY <1>4, <1>5

---------------------------------------------------------------------------
(* Addresses and heaps.                                                     *)

Kinds == Owning \cup {"nothing", "leaf", "uid", "signature", "notation"}
Addr == Kinds \X Nat
Wrapper == [at : Addr, owner : Addr, refs : Nat \ {0}]

\* Which class of wrapper keeps which alive.
Within(c, d) ==
  \/ c = "leaf" /\ d \in {"key", "uid", "listing"}
  \/ c = "uid" /\ d = "key"
  \/ c = "signature" /\ d = "verify"

Placed(h, x) ==
  LET w == h.obj[x]
  IN \/ /\ Class(x) \in Owning /\ w.owner = Nothing
        /\ w.at \in DOMAIN h.native \/ (Class(x) = "data" /\ w.at = Nothing)
     \/ Class(x) = "notation" /\ w.owner = Nothing
     \/ /\ Within(Class(x), Class(w.owner))
        /\ w.owner \in DOMAIN h.obj /\ h.obj[w.owner].at = w.at

IsTable(f) == IsFiniteSet(DOMAIN f) /\ DOMAIN f \subseteq Addr \ {Nothing}

IsHeap(h) ==
  /\ h = [obj |-> h.obj, native |-> h.native]
  /\ h.obj \in [DOMAIN h.obj -> Wrapper] /\ IsTable(h.obj)
  /\ h.native \in [DOMAIN h.native -> Nat \ {0}] /\ IsTable(h.native)
  /\ \A x \in DOMAIN h.obj : Placed(h, x)

LEMMA FreshAddress ==
  ASSUME NEW f, IsTable(f), NEW c \in Kinds \ {"nothing"}
  PROVE  /\ NextFree(f, c) \in (Addr \ {Nothing}) \ DOMAIN f
         /\ Class(NextFree(f, c)) = c
<1>. DEFINE n == Cardinality(DOMAIN f)
            free == {i \in 1..(n + 1) : <<c, i>> \notin DOMAIN f}
<1>1. n \in Nat
  BY FS_CardinalityType DEF IsTable
<1>2. free # {}
  <2>1. SUFFICES ASSUME \A i \in 1..(n + 1) : <<c, i>> \in DOMAIN f PROVE FALSE
    OBVIOUS
  <2>. DEFINE g == [i \in 1..(n + 1) |-> <<c, i>>]
  <2>2. IsFiniteSet(1..(n + 1)) /\ Cardinality(1..(n + 1)) = n + 1
    BY <1>1, FS_Interval
  <2>3. g \in [1..(n + 1) -> DOMAIN f]
    BY <2>1
  <2>4. n < n + 1
    BY <1>1
  <2>5. \E i, j \in 1..(n + 1) : i # j /\ g[i] = g[j]
    <3>. DEFINE I == 1..(n + 1)
    <3>1. IsFiniteSet(DOMAIN f) /\ Cardinality(DOMAIN f) < Cardinality(I)
      BY <2>2, <2>4 DEF IsTable
    <3>2. IsFiniteSet(I) /\ g \in [I -> DOMAIN f]
      BY <2>2, <2>3
    <3>. HIDE DEF g, I
    <3>3. \E i, j \in I : i # j /\ g[i] = g[j]
      BY <3>1, <3>2, FS_PigeonHole
    <3>. QED
      BY <3>3 DEF I
  <2>. QED
    BY <2>5
<1>3. free \in SUBSET Nat
  BY <1>1
<1>. HIDE DEF free
<1>4. Min(free) \in free
  BY <1>2, <1>3, LeastNumber
<1>5. NextFree(f, c) = <<c, Min(free)>>
  BY DEF NextFree, free
<1>. DEFINE i == Min(free)
<1>. HIDE DEF i
<1>6. i \in Nat /\ <<c, i>> \notin DOMAIN f
  BY <1>1, <1>4 DEF free, i
<1>7. <<c, i>> \in Addr /\ <<c, i>> # Nothing
  BY <1>6 DEF Addr, Nothing
<1>. QED
  BY <1>5, <1>6, <1>7 DEF Class, i

---------------------------------------------------------------------------
(* What owns and what points, when a heap changes.                          *)

Owned(h, x) == {y \in DOMAIN h.obj : h.obj[y].owner = x}
Pointers(h, n) == {y \in DOMAIN h.obj : Class(y) \in Owning /\ h.obj[y].at = n}

LEMMA Counts ==
  ASSUME NEW h, IsHeap(h)
  PROVE  \A x : /\ IsFiniteSet(Owned(h, x)) /\ Cardinality(Owned(h, x)) \in Nat
                /\ IsFiniteSet(Pointers(h, x)) /\ Cardinality(Pointers(h, x)) \in Nat
<1>. SUFFICES ASSUME NEW x
     PROVE  /\ IsFiniteSet(Owned(h, x)) /\ Cardinality(Owned(h, x)) \in Nat
            /\ IsFiniteSet(Pointers(h, x)) /\ Cardinality(Pointers(h, x)) \in Nat
  OBVIOUS
<1>1. Owned(h, x) \in SUBSET DOMAIN h.obj /\ Pointers(h, x) \in SUBSET DOMAIN h.obj
  BY DEF Owned, Pointers
<1>2. IsFiniteSet(Owned(h, x)) /\ IsFiniteSet(Pointers(h, x))
  BY <1>1, FS_Subset DEF IsHeap, IsTable
<1>. QED
  BY <1>2, FS_CardinalityType

\* Nothing is owned by what is not there, and nothing points to it.
LEMMA NoneOutside ==
  ASSUME NEW h, IsHeap(h), NEW x, x # Nothing
  PROVE  /\ x \notin DOMAIN h.obj => Owned(h, x) = {}
         /\ x \notin DOMAIN h.native => Pointers(h, x) = {}
<1>1. ASSUME NEW y \in DOMAIN h.obj
      PROVE  /\ h.obj[y].owner = x => x \in DOMAIN h.obj
             /\ Class(y) \in Owning /\ h.obj[y].at = x => x \in DOMAIN h.native
  BY DEF IsHeap, Placed, Within, Owning
<1>. QED
  BY <1>1 DEF Owned, Pointers

\* Some wrappers go, and the others keep what they point to and what owns them.
LEMMA RefsChange ==
  ASSUME NEW h, IsHeap(h), NEW o, o \in [DOMAIN o -> Wrapper], DOMAIN o \subseteq DOMAIN h.obj,
         \A x \in DOMAIN o : /\ o[x].at = h.obj[x].at /\ o[x].owner = h.obj[x].owner
                             /\ o[x].owner \in DOMAIN o \cup {Nothing}
  PROVE  LET k == [h EXCEPT !.obj = o] IN
         /\ IsHeap(k) /\ k.native = h.native /\ k.obj = o
         /\ \A x : /\ Owned(k, x) = Owned(h, x) \cap DOMAIN o
                   /\ Pointers(k, x) = Pointers(h, x) \cap DOMAIN o
<1>. DEFINE L == DOMAIN o
            k == [h EXCEPT !.obj = o]
<1>4. DOMAIN o = L
  OBVIOUS
<1>5. k = [obj |-> o, native |-> h.native]
  BY DEF IsHeap
<1>6. k.obj = o /\ k.native = h.native
  BY <1>5
<1>. HIDE DEF k
<1>7. \A x \in L : k.obj[x].at = h.obj[x].at /\ k.obj[x].owner = h.obj[x].owner
  BY <1>6
<1>8. IsFiniteSet(L)
  BY FS_Subset DEF IsHeap, IsTable
<1>9. IsTable(k.obj)
  BY <1>4, <1>6, <1>8 DEF IsHeap, IsTable
<1>10. ASSUME NEW x \in L PROVE Placed(k, x)
  <2>1. Placed(h, x) /\ Nothing \notin DOMAIN h.obj
    BY DEF IsHeap, IsTable
  <2>2. h.obj[x].owner \in DOMAIN h.obj => h.obj[x].owner \in L
    BY <2>1
  <2>. QED
    BY <1>4, <1>6, <1>7, <2>1, <2>2 DEF Placed
<1>11. IsHeap(k)
  BY <1>4, <1>5, <1>6, <1>9, <1>10 DEF IsHeap
<1>12. \A x : Owned(k, x) = Owned(h, x) \cap L /\ Pointers(k, x) = Pointers(h, x) \cap L
  BY <1>4, <1>6, <1>7 DEF Owned, Pointers
<1>. QED
  BY <1>4, <1>6, <1>7, <1>11, <1>12 DEF k

\* The references to gpgme's structures change; what is pointed to stays.
LEMMA NativesChange ==
  ASSUME NEW h, IsHeap(h), NEW f, f \in [DOMAIN f -> Nat \ {0}], IsTable(f),
         \A n \in DOMAIN h.native : n \in DOMAIN f \/ Pointers(h, n) = {}
  PROVE  LET k == [h EXCEPT !.native = f] IN
         /\ IsHeap(k) /\ k.native = f /\ k.obj = h.obj
         /\ \A x : Owned(k, x) = Owned(h, x) /\ Pointers(k, x) = Pointers(h, x)
<1>. DEFINE k == [h EXCEPT !.native = f]
<1>1. k = [obj |-> h.obj, native |-> f]
  BY DEF IsHeap
<1>2. k.obj = h.obj /\ k.native = f
  BY <1>1
<1>. HIDE DEF k
<1>3. ASSUME NEW x \in DOMAIN h.obj PROVE Placed(k, x)
  <2>1. Placed(h, x)
    BY DEF IsHeap
  <2>2. Class(x) \in Owning => x \in Pointers(h, h.obj[x].at)
    BY DEF Pointers
  <2>3. Class(x) \in Owning /\ h.obj[x].at \in DOMAIN h.native => h.obj[x].at \in DOMAIN f
    BY <2>2
  <2>. QED
    BY <1>2, <2>1, <2>3 DEF Placed
<1>4. IsHeap(k)
  BY <1>1, <1>2, <1>3 DEF IsHeap
<1>. QED
  BY <1>2, <1>4 DEF Owned, Pointers, k

\* What a wrapper that is made may point to.
Fits(h, x, w) ==
  \/ /\ Class(x) \in Owning /\ w.owner = Nothing
     /\ w.at \in DOMAIN h.native \/ (Class(x) = "data" /\ w.at = Nothing)
  \/ Class(x) = "notation" /\ w.owner = Nothing
  \/ /\ Within(Class(x), Class(w.owner))
     /\ w.owner \in DOMAIN h.obj /\ h.obj[w.owner].at = w.at

\* A wrapper is made.
LEMMA WrapperAdded ==
  ASSUME NEW h, IsHeap(h), NEW x \in (Addr \ {Nothing}) \ DOMAIN h.obj, NEW w \in Wrapper,
         Fits(h, x, w)
  PROVE  LET k == Put(h, x, w) IN
         /\ IsHeap(k) /\ k.native = h.native /\ DOMAIN k.obj = DOMAIN h.obj \cup {x}
         /\ k.obj[x] = w /\ \A y \in DOMAIN h.obj : k.obj[y] = h.obj[y]
         /\ \A y : Owned(k, y) = IF w.owner = y THEN Owned(h, y) \cup {x} ELSE Owned(h, y)
         /\ \A n : Pointers(k, n) = IF Class(x) \in Owning /\ w.at = n
                     THEN Pointers(h, n) \cup {x} ELSE Pointers(h, n)
<1>. DEFINE o == [y \in DOMAIN h.obj \cup {x} |-> IF y = x THEN w ELSE h.obj[y]]
            k == Put(h, x, w)
<1>1. /\ DOMAIN o = DOMAIN h.obj \cup {x} /\ o[x] = w
      /\ \A y \in DOMAIN h.obj : o[y] = h.obj[y]
      /\ o \in [DOMAIN o -> Wrapper]
  BY DEF IsHeap
<1>2. k = [obj |-> o, native |-> h.native]
  BY DEF Put, IsHeap
<1>. HIDE DEF o
<1>3. k.obj = o /\ k.native = h.native
  BY <1>2
<1>. HIDE DEF k
<1>4. IsTable(k.obj)
  <2>1. IsFiniteSet(DOMAIN h.obj \cup {x})
    BY FS_AddElement DEF IsHeap, IsTable
  <2>. QED
    BY <1>1, <1>3, <2>1 DEF IsHeap, IsTable
<1>5. ASSUME NEW y \in DOMAIN h.obj \cup {x} PROVE Placed(k, y)
  <2>1. CASE y = x
    BY <1>1, <1>3, <2>1 DEF Placed, Fits
  <2>2. CASE y \in DOMAIN h.obj
    <3>1. Placed(h, y)
      BY <2>2 DEF IsHeap
    <3>2. k.obj[y] = h.obj[y]
      BY <1>1, <1>3, <2>2
    <3>3. h.obj[y].owner \in DOMAIN h.obj =>
            h.obj[y].owner \in DOMAIN k.obj /\ k.obj[h.obj[y].owner] = h.obj[h.obj[y].owner]
      BY <1>1, <1>3
    <3>. QED
      BY <1>3, <3>1, <3>2, <3>3 DEF Placed
  <2>. QED
    BY <2>1, <2>2
<1>6. IsHeap(k)
  BY <1>1, <1>2, <1>3, <1>4, <1>5 DEF IsHeap
<1>7. \A y : Owned(k, y) = IF w.owner = y THEN Owned(h, y) \cup {x} ELSE Owned(h, y)
  BY <1>1, <1>3 DEF Owned
<1>8. \A n : Pointers(k, n) = IF Class(x) \in Owning /\ w.at = n
               THEN Pointers(h, n) \cup {x} ELSE Pointers(h, n)
  BY <1>1, <1>3 DEF Pointers
<1>. QED
  BY <1>1, <1>3, <1>6, <1>7, <1>8 DEF k, o

\* A buffer is taken away from its wrapper.
LEMMA BufferTaken ==
  ASSUME NEW h, IsHeap(h), NEW x \in DOMAIN h.obj, Class(x) = "data"
  PROVE  LET k == [h EXCEPT !.obj[x].at = Nothing] IN
         /\ IsHeap(k) /\ k.native = h.native /\ DOMAIN k.obj = DOMAIN h.obj
         /\ k.obj[x].at = Nothing
         /\ \A y \in DOMAIN h.obj : k.obj[y].refs = h.obj[y].refs
         /\ \A y \in DOMAIN h.obj : y # x => k.obj[y] = h.obj[y]
         /\ \A y : Owned(k, y) = Owned(h, y)
         /\ \A n : n # Nothing => Pointers(k, n) = Pointers(h, n) \ {x}
<1>. DEFINE w == h.obj[x]
            v == [w EXCEPT !.at = Nothing]
            o == [h.obj EXCEPT ![x] = v]
            k == [h EXCEPT !.obj[x].at = Nothing]
<1>1. w \in Wrapper /\ Placed(h, x)
  BY DEF IsHeap
<1>2. w.owner = Nothing
  BY <1>1 DEF Placed, Within
<1>3. v = [at |-> Nothing, owner |-> Nothing, refs |-> w.refs]
  BY <1>1, <1>2 DEF Wrapper
<1>4. v \in Wrapper
  BY <1>1, <1>3 DEF Wrapper, Addr, Kinds, Nothing
<1>5. k = [h EXCEPT !.obj = o]
  OBVIOUS
<1>6. /\ DOMAIN o = DOMAIN h.obj /\ o[x] = v
      /\ \A y \in DOMAIN h.obj : y # x => o[y] = h.obj[y]
      /\ o \in [DOMAIN o -> Wrapper]
  BY <1>4 DEF IsHeap
<1>. HIDE DEF o, v
<1>7. k = [obj |-> o, native |-> h.native]
  BY <1>5 DEF IsHeap
<1>8. k.obj = o /\ k.native = h.native
  BY <1>7
<1>. HIDE DEF k
<1>9. ASSUME NEW y \in DOMAIN h.obj PROVE Placed(k, y)
  <2>1. CASE y = x
    BY <1>3, <1>6, <1>8, <2>1 DEF Placed, Owning
  <2>2. CASE y # x
    <3>1. Placed(h, y) /\ k.obj[y] = h.obj[y] /\ DOMAIN k.obj = DOMAIN h.obj
      BY <1>6, <1>8, <2>2 DEF IsHeap
    <3>2. CASE Within(Class(y), Class(h.obj[y].owner)) /\ h.obj[y].owner \in DOMAIN h.obj
      <4>1. h.obj[y].owner # x
        BY <3>2 DEF Within
      <4>2. k.obj[h.obj[y].owner] = h.obj[h.obj[y].owner]
        BY <1>6, <1>8, <3>2, <4>1
      <4>. QED
        BY <1>8, <3>1, <4>2 DEF Placed
    <3>3. CASE ~(Within(Class(y), Class(h.obj[y].owner)) /\ h.obj[y].owner \in DOMAIN h.obj)
      BY <1>8, <3>1, <3>3 DEF Placed
    <3>. QED
      BY <3>2, <3>3
  <2>. QED
    BY <2>1, <2>2
<1>10. IsHeap(k)
  <2>1. IsTable(k.obj)
    BY <1>6, <1>8 DEF IsHeap, IsTable
  <2>. QED
    BY <1>6, <1>7, <1>8, <1>9, <2>1 DEF IsHeap
<1>11. \A y : Owned(k, y) = Owned(h, y)
  <2>1. \A z \in DOMAIN h.obj : k.obj[z].owner = h.obj[z].owner
    BY <1>2, <1>3, <1>6, <1>8
  <2>. QED
    BY <1>6, <1>8, <2>1 DEF Owned
<1>12. \A n : n # Nothing => Pointers(k, n) = Pointers(h, n) \ {x}
  BY <1>3, <1>6, <1>8 DEF Pointers
<1>13. \A y \in DOMAIN h.obj : k.obj[y].refs = h.obj[y].refs
  BY <1>3, <1>6, <1>8
<1>. QED
  BY <1>3, <1>6, <1>8, <1>10, <1>11, <1>12, <1>13 DEF k

---------------------------------------------------------------------------
(* The balance: each reference has a holder.  E and N count the holders     *)
(* outside the heap, of wrappers and of gpgme's structures.                 *)

WrappersBalance(h, E) ==
  /\ E \in [Addr -> Nat]
  /\ \A x \in Addr : IF x \in DOMAIN h.obj
                     THEN h.obj[x].refs = E[x] + Cardinality(Owned(h, x)) ELSE E[x] = 0
NativesBalance(h, N) ==
  /\ N \in [Addr -> Nat]
  /\ \A n \in Addr : IF n \in DOMAIN h.native
                     THEN h.native[n] = N[n] + Cardinality(Pointers(h, n)) ELSE N[n] = 0
Balanced(h, E, N) == IsHeap(h) /\ WrappersBalance(h, E) /\ NativesBalance(h, N)

Plus(E, b) == [x \in Addr |-> E[x] + Copies(b, x)]
Minus(E, b) == [x \in Addr |-> E[x] - Copies(b, x)]
Covers(E, b) == \A x \in Addr : Copies(b, x) <= E[x]

LEMMA LedgerChanges ==
  ASSUME NEW E \in [Addr -> Nat], NEW b, IsABag(b)
  PROVE  /\ Plus(E, b) \in [Addr -> Nat] /\ Covers(Plus(E, b), b)
         /\ Minus(Plus(E, b), b) = E
         /\ Covers(E, b) => Minus(E, b) \in [Addr -> Nat] /\ Plus(Minus(E, b), b) = E
         /\ \A x \in Addr : /\ Plus(E, b)[x] = E[x] + Copies(b, x)
                            /\ Minus(E, b)[x] = E[x] - Copies(b, x)
<1>1. \A x : Copies(b, x) \in Nat
  BY CopiesAreNat
<1>. DEFINE p == Plus(E, b)
            m == Minus(E, b)
<1>2. p \in [Addr -> Nat] /\ \A x \in Addr : p[x] = E[x] + Copies(b, x)
  BY <1>1 DEF Plus
<1>3. DOMAIN m = Addr /\ \A x \in Addr : m[x] = E[x] - Copies(b, x)
  BY DEF Minus
<1>4. Covers(E, b) => m \in [Addr -> Nat]
  BY <1>1 DEF Minus, Covers
<1>5. Minus(p, b) = E
  <2>1. \A x \in Addr : p[x] - Copies(b, x) = E[x]
    BY <1>1, <1>2
  <2>2. Minus(p, b) = [x \in Addr |-> E[x]]
    BY <2>1 DEF Minus
  <2>. QED
    BY <2>2
<1>6. Plus(m, b) = E
  <2>1. \A x \in Addr : m[x] + Copies(b, x) = E[x]
    BY <1>1, <1>3
  <2>2. Plus(m, b) = [x \in Addr |-> E[x]]
    BY <2>1 DEF Plus
  <2>. QED
    BY <2>2
<1>7. Covers(p, b)
  BY <1>1, <1>2 DEF Covers
<1>. QED
  BY <1>2, <1>3, <1>4, <1>5, <1>6, <1>7

LEMMA RefEachBalance ==
  ASSUME NEW h, NEW E, NEW N, Balanced(h, E, N), NEW b, IsABag(b), DOMAIN b \subseteq DOMAIN h.obj
  PROVE  /\ Balanced(RefEach(h, b), Plus(E, b), N)
         /\ RefEach(h, b).native = h.native /\ DOMAIN RefEach(h, b).obj = DOMAIN h.obj
         /\ \A x \in DOMAIN h.obj : /\ RefEach(h, b).obj[x].at = h.obj[x].at
                                    /\ RefEach(h, b).obj[x].owner = h.obj[x].owner
         /\ \A x : /\ Owned(RefEach(h, b), x) = Owned(h, x)
                   /\ Pointers(RefEach(h, b), x) = Pointers(h, x)
<1>. DEFINE D == DOMAIN h.obj
            o == [x \in D |-> [h.obj[x] EXCEPT !.refs = @ + Copies(b, x)]]
            k == RefEach(h, b)
<1>1. \A x : Copies(b, x) \in Nat
  BY CopiesAreNat
<1>2. \A x \in D : h.obj[x] \in Wrapper
  BY DEF Balanced, IsHeap
<1>3. ASSUME NEW x \in D
      PROVE  o[x] = [at |-> h.obj[x].at, owner |-> h.obj[x].owner,
                     refs |-> h.obj[x].refs + Copies(b, x)]
  BY <1>2 DEF Wrapper
<1>4. o \in [D -> Wrapper]
  <2>1. \A x \in D : o[x] \in Wrapper
    BY <1>1, <1>2, <1>3 DEF Wrapper
  <2>. QED
    BY <2>1
<1>5. /\ IsHeap(k) /\ k.native = h.native /\ k.obj = o
      /\ \A x : Owned(k, x) = Owned(h, x) \cap D /\ Pointers(k, x) = Pointers(h, x) \cap D
  <2>1. k = [h EXCEPT !.obj = o]
    BY DEF RefEach
  <2>2. D \in SUBSET DOMAIN h.obj /\ \A y \in D : h.obj[y].owner \in D \cup {Nothing}
    BY DEF Balanced, IsHeap, Placed
  <2>3. \A x \in D : o[x].at = h.obj[x].at /\ o[x].owner = h.obj[x].owner
    BY <1>3
  <2>4. IsHeap(h)
    BY DEF Balanced
  <2>5. DOMAIN o = D
    OBVIOUS
  <2>. HIDE DEF k, o, D
  <2>. QED
    BY <1>4, <2>1, <2>2, <2>3, <2>4, <2>5, RefsChange
<1>6. /\ DOMAIN k.obj = D
      /\ \A x \in D : k.obj[x].refs = h.obj[x].refs + Copies(b, x) /\ k.obj[x].at = h.obj[x].at
                      /\ k.obj[x].owner = h.obj[x].owner
  BY <1>3, <1>5
<1>. HIDE DEF k
<1>7. \A x : Owned(k, x) = Owned(h, x) /\ Pointers(k, x) = Pointers(h, x)
  BY <1>5 DEF Owned, Pointers
<1>8. WrappersBalance(k, Plus(E, b))
  <2>1. /\ Plus(E, b) \in [Addr -> Nat]
        /\ \A x \in Addr : Plus(E, b)[x] = E[x] + Copies(b, x)
    BY LedgerChanges DEF Balanced, WrappersBalance
  <2>2. \A x \in Addr \ D : Copies(b, x) = 0
    BY DEF Copies
  <2>3. \A x \in Addr \ D : E[x] = 0
    BY DEF Balanced, WrappersBalance
  <2>4. ASSUME NEW x \in Addr, x \in D
        PROVE  k.obj[x].refs = Plus(E, b)[x] + Cardinality(Owned(k, x))
    <3>1. h.obj[x].refs = E[x] + Cardinality(Owned(h, x))
      BY <2>4 DEF Balanced, WrappersBalance
    <3>2. E[x] \in Nat /\ Cardinality(Owned(h, x)) \in Nat
      BY Counts DEF Balanced, WrappersBalance
    <3>3. k.obj[x].refs = h.obj[x].refs + Copies(b, x)
      BY <1>6, <2>4
    <3>. QED
      BY <1>1, <1>7, <2>1, <3>1, <3>2, <3>3
  <2>. QED
    BY <1>6, <2>1, <2>2, <2>3, <2>4 DEF WrappersBalance
<1>9. NativesBalance(k, N)
  BY <1>5, <1>7 DEF Balanced, NativesBalance
<1>. QED
  BY <1>5, <1>6, <1>7, <1>8, <1>9 DEF Balanced, k

LEMMA RefNativesBalance ==
  ASSUME NEW h, NEW E, NEW N, Balanced(h, E, N), NEW b, IsABag(b),
         DOMAIN b \subseteq DOMAIN h.native
  PROVE  /\ Balanced(RefNatives(h, b), E, Plus(N, b))
         /\ RefNatives(h, b).obj = h.obj /\ DOMAIN RefNatives(h, b).native = DOMAIN h.native
<1>. DEFINE f == [n \in DOMAIN h.native |-> h.native[n] + Copies(b, n)]
            k == RefNatives(h, b)
<1>1. \A x : Copies(b, x) \in Nat
  BY CopiesAreNat
<1>2. f \in [DOMAIN h.native -> Nat \ {0}] /\ DOMAIN f = DOMAIN h.native
  BY <1>1 DEF Balanced, IsHeap
<1>3. k = [h EXCEPT !.native = f]
  BY DEF RefNatives
<1>4. /\ IsHeap(k) /\ k.native = f /\ k.obj = h.obj
      /\ \A x : Owned(k, x) = Owned(h, x) /\ Pointers(k, x) = Pointers(h, x)
  <2>1. IsTable(f) /\ \A n \in DOMAIN h.native : n \in DOMAIN f
    BY <1>2 DEF Balanced, IsHeap, IsTable
  <2>. HIDE DEF f, k
  <2>. QED
    BY <1>2, <1>3, <2>1, NativesChange DEF Balanced
<1>. HIDE DEF k
<1>5. NativesBalance(k, Plus(N, b))
  <2>1. /\ Plus(N, b) \in [Addr -> Nat]
        /\ \A x \in Addr : Plus(N, b)[x] = N[x] + Copies(b, x)
    BY LedgerChanges DEF Balanced, NativesBalance
  <2>2. \A x \in Addr \ DOMAIN h.native : Copies(b, x) = 0 /\ N[x] = 0
    BY DEF Copies, Balanced, NativesBalance
  <2>3. ASSUME NEW n \in Addr, n \in DOMAIN h.native
        PROVE  k.native[n] = Plus(N, b)[n] + Cardinality(Pointers(k, n))
    <3>1. h.native[n] = N[n] + Cardinality(Pointers(h, n))
      BY <2>3 DEF Balanced, NativesBalance
    <3>2. N[n] \in Nat /\ Cardinality(Pointers(h, n)) \in Nat
      BY Counts DEF Balanced, NativesBalance
    <3>3. k.native[n] = h.native[n] + Copies(b, n)
      BY <1>4, <2>3
    <3>. QED
      BY <1>1, <1>4, <2>1, <3>1, <3>2, <3>3
  <2>. QED
    BY <1>2, <1>4, <2>1, <2>2, <2>3 DEF NativesBalance
<1>6. WrappersBalance(k, E)
  BY <1>4 DEF Balanced, WrappersBalance
<1>. QED
  BY <1>2, <1>4, <1>5, <1>6 DEF Balanced, k

\* The bag may have what is no structure.
LEMMA UnrefNativesTo ==
  ASSUME NEW h, NEW E, NEW N, Balanced(h, E, N), NEW b, IsABag(b), NEW M \in [Addr -> Nat],
         \A n \in Addr : IF n \in DOMAIN h.native THEN N[n] = M[n] + Copies(b, n) ELSE M[n] = 0
  PROVE  Balanced(UnrefNatives(h, b), E, M) /\ UnrefNatives(h, b).obj = h.obj
<1>. DEFINE L == {n \in DOMAIN h.native : h.native[n] > Copies(b, n)}
            f == [n \in L |-> h.native[n] - Copies(b, n)]
            k == UnrefNatives(h, b)
<1>1. \A x : Copies(b, x) \in Nat
  BY CopiesAreNat
<1>2. \A n \in DOMAIN h.native : h.native[n] \in Nat
  BY DEF Balanced, IsHeap
<1>3. f \in [L -> Nat \ {0}] /\ DOMAIN f = L
  BY <1>1, <1>2
<1>4. ASSUME NEW n \in DOMAIN h.native
      PROVE  /\ n \in Addr /\ N[n] \in Nat /\ M[n] \in Nat /\ N[n] = M[n] + Copies(b, n)
             /\ h.native[n] = N[n] + Cardinality(Pointers(h, n))
             /\ Cardinality(Pointers(h, n)) \in Nat /\ IsFiniteSet(Pointers(h, n))
  <2>1. n \in Addr
    BY DEF Balanced, IsHeap, IsTable
  <2>. QED
    BY <2>1, Counts DEF Balanced, NativesBalance
<1>5. ASSUME NEW n \in DOMAIN h.native, n \notin L PROVE Pointers(h, n) = {}
  <2>1. Cardinality(Pointers(h, n)) = 0
    BY <1>1, <1>4, <1>5
  <2>. QED
    BY <1>4, <2>1, FS_EmptySet
<1>6. k = [h EXCEPT !.native = f]
  BY DEF UnrefNatives
<1>7. /\ IsHeap(k) /\ k.native = f /\ k.obj = h.obj
      /\ \A x : Owned(k, x) = Owned(h, x) /\ Pointers(k, x) = Pointers(h, x)
  <2>1. IsTable(f)
    <3>1. IsFiniteSet(L)
      BY FS_Subset, L \in SUBSET DOMAIN h.native DEF Balanced, IsHeap, IsTable
    <3>. QED
      BY <1>3, <3>1 DEF Balanced, IsHeap, IsTable
  <2>2. \A n \in DOMAIN h.native : n \in DOMAIN f \/ Pointers(h, n) = {}
    BY <1>3, <1>5
  <2>. HIDE DEF f, k, L
  <2>. QED
    BY <1>3, <1>6, <2>1, <2>2, NativesChange DEF Balanced
<1>. HIDE DEF k
<1>8. NativesBalance(k, M)
  <2>1. ASSUME NEW n \in DOMAIN h.native, n \notin L PROVE M[n] = 0
    BY <1>1, <1>4, <2>1
  <2>2. ASSUME NEW n \in L PROVE k.native[n] = M[n] + Cardinality(Pointers(k, n))
    <3>1. k.native[n] = h.native[n] - Copies(b, n)
      BY <1>3, <1>7
    <3>. QED
      BY <1>1, <1>4, <1>7, <3>1
  <2>. QED
    BY <1>3, <1>7, <2>1, <2>2 DEF NativesBalance
<1>9. WrappersBalance(k, E)
  BY <1>7 DEF Balanced, WrappersBalance
<1>. QED
  BY <1>7, <1>8, <1>9 DEF Balanced, k

LEMMA UnrefNativesBalance ==
  ASSUME NEW h, NEW E, NEW N, Balanced(h, E, N), NEW b, IsABag(b), Covers(N, b)
  PROVE  Balanced(UnrefNatives(h, b), E, Minus(N, b)) /\ UnrefNatives(h, b).obj = h.obj
<1>. DEFINE M == Minus(N, b)
<1>1. M \in [Addr -> Nat] /\ \A n \in Addr : M[n] = N[n] - Copies(b, n)
  BY LedgerChanges DEF Balanced, NativesBalance
<1>2. \A n \in Addr : N[n] \in Nat /\ Copies(b, n) \in Nat /\ Copies(b, n) <= N[n]
  BY CopiesAreNat DEF Balanced, NativesBalance, Covers
<1>3. \A n \in Addr : N[n] = M[n] + Copies(b, n)
  BY <1>1, <1>2
<1>4. \A n \in Addr \ DOMAIN h.native : M[n] = 0
  <2>1. \A n \in Addr \ DOMAIN h.native : N[n] = 0
    BY DEF Balanced, NativesBalance
  <2>. QED
    BY <1>1, <1>2, <2>1
<1>. HIDE DEF M
<1>5. \A n \in Addr : IF n \in DOMAIN h.native THEN N[n] = M[n] + Copies(b, n) ELSE M[n] = 0
  BY <1>3, <1>4
<1>. QED
  BY <1>1, <1>5, UnrefNativesTo DEF M

LEMMA AddNativesBalance ==
  ASSUME NEW h, NEW E, NEW N, Balanced(h, E, N),
         NEW S, IsFiniteSet(S), S \subseteq (Addr \ {Nothing}) \ DOMAIN h.native
  PROVE  /\ Balanced(AddNatives(h, S), E, Plus(N, SetToBag(S)))
         /\ AddNatives(h, S).obj = h.obj
         /\ DOMAIN AddNatives(h, S).native = DOMAIN h.native \cup S
<1>. DEFINE b == SetToBag(S)
            f == [n \in DOMAIN h.native \cup S |-> IF n \in S THEN 1 ELSE h.native[n]]
            k == AddNatives(h, S)
<1>1. IsABag(b) /\ \A x : Copies(b, x) = One(x \in S)
  BY CopiesOfSet
<1>. HIDE DEF b
<1>2. f \in [DOMAIN f -> Nat \ {0}] /\ DOMAIN f = DOMAIN h.native \cup S
  BY DEF Balanced, IsHeap
<1>3. k = [h EXCEPT !.native = f]
  BY DEF AddNatives
<1>4. /\ IsHeap(k) /\ k.native = f /\ k.obj = h.obj
      /\ \A x : Owned(k, x) = Owned(h, x) /\ Pointers(k, x) = Pointers(h, x)
  <2>1. IsTable(f)
    <3>1. IsFiniteSet(DOMAIN h.native \cup S)
      BY FS_Union DEF Balanced, IsHeap, IsTable
    <3>. QED
      BY <1>2, <3>1 DEF Balanced, IsHeap, IsTable
  <2>2. \A n \in DOMAIN h.native : n \in DOMAIN f
    BY <1>2
  <2>. HIDE DEF f, k
  <2>. QED
    BY <1>2, <1>3, <2>1, <2>2, NativesChange DEF Balanced
<1>. HIDE DEF k
<1>5. NativesBalance(k, Plus(N, b))
  <2>1. /\ Plus(N, b) \in [Addr -> Nat]
        /\ \A x \in Addr : Plus(N, b)[x] = N[x] + Copies(b, x)
    BY <1>1, LedgerChanges DEF Balanced, NativesBalance
  <2>2. \A n \in Addr : N[n] \in Nat
    BY DEF Balanced, NativesBalance
  <2>3. \A n \in Addr \ DOMAIN h.native : N[n] = 0
    BY DEF Balanced, NativesBalance
  <2>4. ASSUME NEW n \in S
        PROVE  k.native[n] = Plus(N, b)[n] + Cardinality(Pointers(k, n))
    <3>1. Pointers(h, n) = {}
      BY NoneOutside DEF Balanced
    <3>2. Cardinality(Pointers(k, n)) = 0
      BY <1>4, <3>1, FS_EmptySet
    <3>3. k.native[n] = 1 /\ N[n] = 0 /\ Plus(N, b)[n] = N[n] + 1
      BY <1>1, <1>4, <2>1, <2>3 DEF One
    <3>. QED
      BY <3>2, <3>3
  <2>5. ASSUME NEW n \in DOMAIN h.native
        PROVE  k.native[n] = Plus(N, b)[n] + Cardinality(Pointers(k, n))
    <3>1. n \notin S /\ n \in Addr
      BY DEF Balanced, IsHeap, IsTable
    <3>2. k.native[n] = h.native[n] /\ Plus(N, b)[n] = N[n] + 0
      BY <1>1, <1>4, <2>1, <3>1 DEF One
    <3>3. h.native[n] = N[n] + Cardinality(Pointers(h, n)) /\ N[n] \in Nat
      BY <3>1 DEF Balanced, NativesBalance
    <3>. QED
      BY <1>4, <3>2, <3>3
  <2>6. ASSUME NEW n \in Addr, n \notin DOMAIN h.native \cup S PROVE Plus(N, b)[n] = 0
    <3>1. N[n] = 0 /\ Plus(N, b)[n] = N[n] + 0
      BY <1>1, <2>1, <2>3, <2>6 DEF One
    <3>. QED
      BY <3>1
  <2>. QED
    BY <1>2, <1>4, <2>1, <2>4, <2>5, <2>6 DEF NativesBalance
<1>6. WrappersBalance(k, E)
  BY <1>4 DEF Balanced, WrappersBalance
<1>. QED
  BY <1>2, <1>4, <1>5, <1>6 DEF Balanced, k, b

---------------------------------------------------------------------------
(* Wrappers that go.                                                        *)

Dying(h, b) == {x \in DOMAIN h.obj : h.obj[x].refs <= Copies(b, x)}

\* The holders after it: those that go let go of their owners in turn.
Passed(h, E, b) ==
  [x \in Addr |-> IF x \in DOMAIN h.obj \ Dying(h, b)
                  THEN E[x] - Copies(b, x) + Cardinality(Owned(h, x) \cap Dying(h, b)) ELSE 0]

LEMMA DyingOwnNothing ==
  ASSUME NEW h, NEW E, NEW N, Balanced(h, E, N), NEW b, IsABag(b), Covers(E, b)
  PROVE  \A x \in Dying(h, b) : x \in DOMAIN b /\ Owned(h, x) = {} /\ E[x] = Copies(b, x)
<1>. TAKE x \in Dying(h, b)
<1>1. x \in DOMAIN h.obj /\ h.obj[x].refs <= Copies(b, x) /\ x \in Addr
  BY DEF Dying, Balanced, IsHeap, IsTable
<1>2. /\ h.obj[x].refs = E[x] + Cardinality(Owned(h, x)) /\ E[x] \in Nat /\ Copies(b, x) <= E[x]
  BY <1>1 DEF Balanced, WrappersBalance, Covers
<1>3. Copies(b, x) \in Nat /\ (x \in DOMAIN b <=> Copies(b, x) > 0)
  BY CopiesAreNat
<1>4. Cardinality(Owned(h, x)) \in Nat /\ IsFiniteSet(Owned(h, x))
  BY Counts DEF Balanced
<1>5. h.obj[x].refs \in Nat \ {0}
  BY <1>1 DEF Balanced, IsHeap, Wrapper
<1>6. Cardinality(Owned(h, x)) = 0 /\ E[x] = Copies(b, x) /\ Copies(b, x) > 0
  BY <1>1, <1>2, <1>3, <1>4, <1>5
<1>. QED
  BY <1>3, <1>4, <1>6, FS_EmptySet

PointingTo(h, S, n) == {x \in S : h.obj[x].at = n}

LEMMA NativesOf ==
  ASSUME NEW h, IsHeap(h), NEW S \in SUBSET DOMAIN h.obj
  PROVE  /\ IsABag(Natives(h, S)) /\ DOMAIN Natives(h, S) = {h.obj[x].at : x \in S}
         /\ \A n : Copies(Natives(h, S), n) = Cardinality(PointingTo(h, S, n))
<1>. DEFINE c == Natives(h, S)
            C(n) == PointingTo(h, S, n)
<1>1. c = [n \in {h.obj[x].at : x \in S} |-> Cardinality(C(n))]
  BY DEF Natives, PointingTo
<1>2. ASSUME NEW n PROVE IsFiniteSet(C(n)) /\ Cardinality(C(n)) \in Nat
  <2>1. IsFiniteSet(C(n))
    <3>1. C(n) \in SUBSET DOMAIN h.obj
      BY DEF PointingTo
    <3>. QED
      BY <3>1, FS_Subset DEF IsHeap, IsTable
  <2>. QED
    BY <2>1, FS_CardinalityType
<1>3. ASSUME NEW n PROVE Cardinality(C(n)) = 0 <=> n \notin {h.obj[x].at : x \in S}
  <2>1. Cardinality(C(n)) = 0 <=> C(n) = {}
    BY <1>2, FS_EmptySet
  <2>2. C(n) = {} <=> n \notin {h.obj[x].at : x \in S}
    BY DEF PointingTo
  <2>. QED
    BY <2>1, <2>2
<1>4. DOMAIN c = {h.obj[x].at : x \in S}
  BY <1>1
<1>5. \A n \in DOMAIN c : c[n] = Cardinality(C(n)) /\ c[n] \in Nat /\ c[n] > 0
  <2>. TAKE n \in DOMAIN c
  <2>1. n \in {h.obj[x].at : x \in S}
    BY <1>4
  <2>2. c[n] = Cardinality(C(n))
    BY <1>1, <2>1
  <2>3. Cardinality(C(n)) \in Nat /\ Cardinality(C(n)) # 0
    BY <1>2, <1>3, <2>1
  <2>. QED
    BY <2>2, <2>3
<1>6. IsABag(c)
  BY <1>1, <1>4, <1>5 DEF IsABag
<1>7. ASSUME NEW n PROVE Copies(c, n) = Cardinality(C(n))
  <2>1. CASE n \in DOMAIN c
    BY <1>5, <2>1 DEF Copies
  <2>2. CASE n \notin DOMAIN c
    <3>1. Cardinality(C(n)) = 0
      BY <1>3, <1>4, <2>2
    <3>. QED
      BY <2>2, <3>1 DEF Copies
  <2>. QED
    BY <2>1, <2>2
<1>. QED
  BY <1>4, <1>6, <1>7

LEMMA UnrefEachBalance ==
  ASSUME NEW h, NEW E, NEW N, Balanced(h, E, N), NEW b, IsABag(b), Covers(E, b)
  PROVE  /\ Balanced(UnrefEach(h, b), Passed(h, E, b), N)
         /\ DOMAIN UnrefEach(h, b).obj = DOMAIN h.obj \ Dying(h, b)
         /\ \A x \in DOMAIN h.obj \ Dying(h, b) :
              /\ UnrefEach(h, b).obj[x].at = h.obj[x].at
              /\ UnrefEach(h, b).obj[x].owner = h.obj[x].owner
<1>. DEFINE G == Dying(h, b)
            L == DOMAIN h.obj \ G
            o == [x \in L |-> [h.obj[x] EXCEPT !.refs = @ - Copies(b, x)]]
            k == [h EXCEPT !.obj = o]
            S == {x \in G : Class(x) \in Owning}
            c == Natives(h, S)
            F == Passed(h, E, b)
            M == [n \in Addr |-> IF n \in DOMAIN h.native THEN N[n] + Copies(c, n) ELSE 0]
<1>1. UnrefEach(h, b) = UnrefNatives(k, c)
  BY DEF UnrefEach, Dying
<1>2. \A x : Copies(b, x) \in Nat
  BY CopiesAreNat
<1>3. \A x \in DOMAIN h.obj : h.obj[x] \in Wrapper
  BY DEF Balanced, IsHeap
<1>4. \A x \in L : h.obj[x].refs > Copies(b, x) /\ h.obj[x].refs \in Nat
  <2>1. \A x \in L : h.obj[x].refs \in Nat /\ ~(h.obj[x].refs <= Copies(b, x))
    BY <1>3 DEF Dying, Wrapper
  <2>. QED
    BY <1>2, <2>1
<1>5. ASSUME NEW x \in L
      PROVE  o[x] = [at |-> h.obj[x].at, owner |-> h.obj[x].owner,
                     refs |-> h.obj[x].refs - Copies(b, x)]
  BY <1>3 DEF Wrapper
<1>6. DOMAIN o = L /\ o \in [L -> Wrapper]
  <2>1. ASSUME NEW x \in L PROVE o[x] \in Wrapper
    <3>1. h.obj[x].refs - Copies(b, x) \in Nat \ {0}
      BY <1>2, <1>4
    <3>. QED
      BY <1>3, <1>5, <3>1 DEF Wrapper
  <2>. QED
    BY <2>1
<1>7. \A x \in L : o[x].at = h.obj[x].at /\ o[x].owner = h.obj[x].owner
                   /\ o[x].refs = h.obj[x].refs - Copies(b, x)
  BY <1>5
<1>8. \A x \in G : x \in DOMAIN b /\ Owned(h, x) = {} /\ E[x] = Copies(b, x)
  BY DyingOwnNothing
<1>9. \A x \in L : h.obj[x].owner \in L \cup {Nothing}
  <2>. TAKE x \in L
  <2>1. h.obj[x].owner \in DOMAIN h.obj \cup {Nothing}
    BY DEF Balanced, IsHeap, Placed
  <2>2. x \in Owned(h, h.obj[x].owner)
    BY DEF Owned
  <2>. QED
    BY <1>8, <2>1, <2>2
<1>. HIDE DEF o
<1>10. /\ IsHeap(k) /\ k.native = h.native /\ k.obj = o
       /\ \A x : Owned(k, x) = Owned(h, x) \cap L /\ Pointers(k, x) = Pointers(h, x) \cap L
  <2>1. IsHeap(h) /\ o \in [DOMAIN o -> Wrapper] /\ DOMAIN o \subseteq DOMAIN h.obj
    BY <1>6 DEF Balanced
  <2>2. \A x \in DOMAIN o : /\ o[x].at = h.obj[x].at /\ o[x].owner = h.obj[x].owner
                            /\ o[x].owner \in DOMAIN o \cup {Nothing}
    BY <1>6, <1>7, <1>9
  <2>3. /\ IsHeap(k) /\ k.native = h.native /\ k.obj = o
        /\ \A x : /\ Owned(k, x) = Owned(h, x) \cap DOMAIN o
                  /\ Pointers(k, x) = Pointers(h, x) \cap DOMAIN o
    <3>. HIDE DEF L
    <3>. QED
      BY <2>1, <2>2, RefsChange
  <2>. QED
    BY <1>6, <2>3
<1>11. /\ IsABag(c)
       /\ \A n : Copies(c, n) = Cardinality(PointingTo(h, S, n))
  <2>1. S \in SUBSET DOMAIN h.obj /\ IsHeap(h)
    BY DEF Balanced, Dying
  <2>. HIDE DEF S
  <2>. QED
    BY <2>1, NativesOf
<1>12. \A n : Copies(c, n) = Cardinality(Pointers(h, n) \cap G)
  <2>1. \A n : PointingTo(h, S, n) = Pointers(h, n) \cap G
    BY DEF Pointers, Dying, PointingTo
  <2>. QED
    BY <1>11, <2>1
<1>. HIDE DEF k, c, S
<1>13. ASSUME NEW x
       PROVE  /\ {Cardinality(Owned(h, x)), Cardinality(Owned(h, x) \cap G),
                  Cardinality(Owned(k, x)), Cardinality(Pointers(h, x)),
                  Cardinality(Pointers(h, x) \cap G), Cardinality(Pointers(k, x))} \subseteq Nat
              /\ Cardinality(Owned(h, x)) =
                   Cardinality(Owned(k, x)) + Cardinality(Owned(h, x) \cap G)
              /\ Cardinality(Pointers(h, x)) =
                   Cardinality(Pointers(k, x)) + Cardinality(Pointers(h, x) \cap G)
  <2>1. IsFiniteSet(Owned(h, x)) /\ IsFiniteSet(Pointers(h, x))
    BY Counts DEF Balanced
  <2>2. Owned(k, x) = Owned(h, x) \ G /\ Pointers(k, x) = Pointers(h, x) \ G
    BY <1>10 DEF Owned, Pointers
  <2>. QED
    BY <2>1, <2>2, CountParts
<1>14. WrappersBalance(k, F)
  <2>1. ASSUME NEW x \in Addr, x \in L
        PROVE  /\ F[x] = E[x] - Copies(b, x) + Cardinality(Owned(h, x) \cap G)
               /\ F[x] \in Nat /\ k.obj[x].refs = F[x] + Cardinality(Owned(k, x))
    <3>1. F[x] = E[x] - Copies(b, x) + Cardinality(Owned(h, x) \cap G)
      BY <2>1 DEF Passed
    <3>2. /\ h.obj[x].refs = E[x] + Cardinality(Owned(h, x))
          /\ E[x] \in Nat /\ Copies(b, x) <= E[x]
      BY <2>1 DEF Balanced, WrappersBalance, Covers
    <3>3. k.obj[x].refs = h.obj[x].refs - Copies(b, x)
      BY <1>7, <1>10, <2>1
    <3>4. /\ Cardinality(Owned(h, x) \cap G) \in Nat /\ Cardinality(Owned(k, x)) \in Nat
          /\ Cardinality(Owned(h, x)) =
               Cardinality(Owned(k, x)) + Cardinality(Owned(h, x) \cap G)
      BY <1>13
    <3>5. Copies(b, x) \in Nat
      BY <1>2
    <3>. HIDE DEF F, G
    <3>. QED
      BY <3>1, <3>2, <3>3, <3>4, <3>5
  <2>2. \A x \in Addr \ L : F[x] = 0
    BY DEF Passed
  <2>3. F \in [Addr -> Nat]
    <3>1. F = [x \in Addr |-> F[x]]
      BY DEF Passed
    <3>. HIDE DEF F, L
    <3>2. \A x \in Addr : F[x] \in Nat
      <4>. TAKE x \in Addr
      <4>1. CASE x \in L
        BY <2>1, <4>1
      <4>2. CASE x \notin L
        BY <2>2, <4>2
      <4>. QED
        BY <4>1, <4>2
    <3>. QED
      BY <3>1, <3>2
  <2>4. DOMAIN k.obj = L
    BY <1>6, <1>10
  <2>. HIDE DEF F, L
  <2>. QED
    BY <2>1, <2>2, <2>3, <2>4 DEF WrappersBalance
<1>15. \A n \in Addr : Copies(c, n) \in Nat /\ N[n] \in Nat
  BY <1>11, CopiesAreNat DEF Balanced, NativesBalance
<1>16. NativesBalance(k, M)
  <2>1. M \in [Addr -> Nat]
    BY <1>15
  <2>2. ASSUME NEW n \in Addr, n \in DOMAIN h.native
        PROVE  k.native[n] = M[n] + Cardinality(Pointers(k, n))
    <3>1. h.native[n] = N[n] + Cardinality(Pointers(h, n))
      BY <2>2 DEF Balanced, NativesBalance
    <3>2. M[n] = N[n] + Cardinality(Pointers(h, n) \cap G)
      BY <1>12, <2>2
    <3>3. /\ Cardinality(Pointers(h, n) \cap G) \in Nat /\ Cardinality(Pointers(k, n)) \in Nat
          /\ Cardinality(Pointers(h, n)) =
               Cardinality(Pointers(k, n)) + Cardinality(Pointers(h, n) \cap G)
      BY <1>13
    <3>4. N[n] \in Nat /\ k.native[n] = h.native[n]
      BY <1>10, <1>15
    <3>. HIDE DEF M, G
    <3>. QED
      BY <3>1, <3>2, <3>3, <3>4
  <2>. QED
    BY <1>10, <2>1, <2>2 DEF NativesBalance
<1>17. Balanced(UnrefNatives(k, c), F, N) /\ UnrefNatives(k, c).obj = k.obj
  <2>1. Balanced(k, F, M)
    BY <1>10, <1>14, <1>16 DEF Balanced
  <2>2. N \in [Addr -> Nat]
    BY DEF Balanced, NativesBalance
  <2>3. \A n \in Addr : IF n \in DOMAIN k.native THEN M[n] = N[n] + Copies(c, n) ELSE N[n] = 0
    BY <1>10 DEF Balanced, NativesBalance
  <2>. HIDE DEF M, F
  <2>. QED
    BY <1>11, <2>1, <2>2, <2>3, UnrefNativesTo
<1>. QED
  BY <1>1, <1>6, <1>7, <1>10, <1>17

\* What is left points to the same.
Shrinks(h, k) ==
  DOMAIN k.obj \subseteq DOMAIN h.obj /\ \A x \in DOMAIN k.obj : k.obj[x].at = h.obj[x].at

\* Wrappers that own a structure have no owner.
LEMMA UnrefOwningBalance ==
  ASSUME NEW h, NEW E, NEW N, Balanced(h, E, N), NEW b, IsABag(b), Covers(E, b),
         \A x \in DOMAIN b : Class(x) \in Owning
  PROVE  Balanced(UnrefEach(h, b), Minus(E, b), N) /\ Shrinks(h, UnrefEach(h, b))
<1>. DEFINE G == Dying(h, b)
<1>1. \A x \in G : x \in DOMAIN b /\ Owned(h, x) = {} /\ E[x] = Copies(b, x)
  BY DyingOwnNothing
<1>2. \A x : Copies(b, x) \in Nat
  BY CopiesAreNat
<1>3. \A x \in Addr : E[x] \in Nat /\ Copies(b, x) <= E[x] /\ (x \notin DOMAIN h.obj => E[x] = 0)
  BY DEF Balanced, WrappersBalance, Covers
<1>4. \A x \in DOMAIN h.obj : Owned(h, x) \cap G = {}
  <2>1. \A y \in G : h.obj[y].owner = Nothing
    <3>. TAKE y \in G
    <3>1. y \in DOMAIN h.obj /\ Class(y) \in Owning
      BY <1>1 DEF Dying
    <3>2. Placed(h, y)
      BY <3>1 DEF Balanced, IsHeap
    <3>. QED
      BY <3>1, <3>2 DEF Placed, Within, Owning
  <2>2. Nothing \notin DOMAIN h.obj
    BY DEF Balanced, IsHeap, IsTable
  <2>. QED
    BY <2>1, <2>2 DEF Owned
<1>5. \A x \in Addr : Passed(h, E, b)[x] = E[x] - Copies(b, x)
  <2>. TAKE x \in Addr
  <2>1. CASE x \in DOMAIN h.obj \ G
    <3>1. Cardinality(Owned(h, x) \cap G) = 0
      BY <1>4, <2>1, FS_EmptySet
    <3>2. Passed(h, E, b)[x] = E[x] - Copies(b, x) + Cardinality(Owned(h, x) \cap G)
      BY <2>1 DEF Passed
    <3>. QED
      BY <1>2, <1>3, <3>1, <3>2
  <2>2. CASE x \notin DOMAIN h.obj \ G
    <3>1. Passed(h, E, b)[x] = 0
      BY <2>2 DEF Passed
    <3>2. E[x] = Copies(b, x)
      BY <1>1, <1>2, <1>3, <2>2
    <3>. QED
      BY <1>2, <3>1, <3>2
  <2>. QED
    BY <2>1, <2>2
<1>6. Passed(h, E, b) = Minus(E, b)
  BY <1>5 DEF Passed, Minus
<1>. QED
  BY <1>6, UnrefEachBalance DEF Shrinks

Due(x) == IF x = Nothing THEN EmptyBag ELSE Single(x)

LEMMA DueCopies ==
  ASSUME NEW x
  PROVE  IsABag(Due(x)) /\ \A y : Copies(Due(x), y) = One(x # Nothing /\ y = x)
<1>1. CASE x = Nothing
  <2>1. \A y : Copies(Due(x), y) = 0 /\ IsABag(Due(x))
    BY <1>1, NoCopies DEF Due
  <2>. QED
    BY <1>1, <2>1 DEF One
<1>2. CASE x # Nothing
  BY <1>2, CopiesOfSingle DEF Due, One
<1>. QED
  BY <1>1, <1>2

\* How many wrappers a chain of owners has at most.
Depth(x) ==
  IF x = Nothing THEN 0 ELSE IF Class(x) = "leaf" THEN 3
  ELSE IF Class(x) \in {"uid", "signature"} THEN 2 ELSE 1

\* A heap, and the reference that is still to be dropped.
Dropping(s, E, N) ==
  /\ s.drop \in DOMAIN s.heap.obj \cup {Nothing}
  /\ Balanced(s.heap, Plus(E, Due(s.drop)), N)

LEMMA LetGoStep ==
  ASSUME NEW s, NEW E \in [Addr -> Nat], NEW N, Dropping(s, E, N)
  PROVE  /\ Dropping(LetGo(s), E, N) /\ Shrinks(s.heap, LetGo(s).heap)
         /\ \A i \in 0..2 : Depth(s.drop) <= i + 1 => Depth(LetGo(s).drop) <= i
<1>. DEFINE h == s.heap
            d == s.drop
<1>1. CASE d = Nothing
  <2>1. LetGo(s) = s /\ Depth(s.drop) = 0
    BY <1>1 DEF LetGo, Depth
  <2>. QED
    BY <2>1 DEF Shrinks, Dropping
<1>2. CASE d # Nothing
  <2>. DEFINE b == Single(d)
              F == Plus(E, b)
              G == Dying(h, b)
              e == IF h.obj[d].refs = 1 THEN h.obj[d].owner ELSE Nothing
              k == UnrefEach(h, b)
  <2>1. LetGo(s) = [heap |-> k, drop |-> e]
    BY <1>2 DEF LetGo
  <2>2. d \in DOMAIN h.obj /\ Balanced(h, F, N)
    BY <1>2 DEF Dropping, Due
  <2>3. IsABag(b) /\ \A y : Copies(b, y) = One(y = d)
    BY CopiesOfSingle
  <2>. HIDE DEF b
  <2>4. F \in [Addr -> Nat] /\ Covers(F, b) /\ \A x \in Addr : F[x] = E[x] + Copies(b, x)
    BY <2>3, LedgerChanges
  <2>5. d \in Addr /\ h.obj[d] \in Wrapper /\ Placed(h, d)
    BY <2>2 DEF Balanced, IsHeap, IsTable
  <2>6. h.obj[d].refs \in Nat \ {0} /\ Nothing \notin DOMAIN h.obj
    BY <2>2, <2>5 DEF Wrapper, Balanced, IsHeap, IsTable
  <2>7. G = IF h.obj[d].refs = 1 THEN {d} ELSE {}
    <3>1. \A x \in DOMAIN h.obj : h.obj[x].refs \in Nat \ {0}
      BY <2>2 DEF Balanced, IsHeap, Wrapper
    <3>2. \A x \in DOMAIN h.obj : x \in G <=> x = d /\ h.obj[x].refs = 1
      BY <2>3, <3>1 DEF Dying, One
    <3>3. G \subseteq DOMAIN h.obj
      BY DEF Dying
    <3>. HIDE DEF G
    <3>. QED
      BY <2>2, <3>2, <3>3
  <2>8. \A x \in G : Owned(h, x) = {} /\ F[x] = Copies(b, x)
    BY <2>2, <2>3, <2>4, DyingOwnNothing
  <2>9. /\ Balanced(k, Passed(h, F, b), N) /\ DOMAIN k.obj = DOMAIN h.obj \ G
        /\ \A x \in DOMAIN h.obj \ G : k.obj[x].at = h.obj[x].at
    <3>. HIDE DEF F, h
    <3>. QED
      BY <2>2, <2>3, <2>4, UnrefEachBalance
  <2>10. e \in DOMAIN k.obj \cup {Nothing}
    <3>1. CASE h.obj[d].refs = 1
      <4>1. h.obj[d].owner \in DOMAIN h.obj \cup {Nothing}
        BY <2>5 DEF Placed
      <4>2. Owned(h, d) = {}
        BY <2>7, <2>8, <3>1
      <4>3. h.obj[d].owner # d
        BY <2>2, <4>2 DEF Owned
      <4>. QED
        BY <2>7, <2>9, <3>1, <4>1, <4>3
    <3>2. CASE h.obj[d].refs # 1
      BY <3>2
    <3>. QED
      BY <3>1, <3>2
  <2>11. Passed(h, F, b) = Plus(E, Due(e))
    <3>. HIDE DEF F, h, k
    <3>1. ASSUME NEW x \in Addr, x \in DOMAIN h.obj \ G
          PROVE  Cardinality(Owned(h, x) \cap G) = One(e # Nothing /\ x = e)
      <4>1. CASE h.obj[d].refs = 1 /\ h.obj[d].owner = x
        <5>1. Owned(h, x) \cap G = {d}
          BY <2>2, <2>7, <4>1 DEF Owned
        <5>2. Cardinality(Owned(h, x) \cap G) = 1
          BY <5>1, FS_Singleton
        <5>. QED
          BY <2>6, <3>1, <4>1, <5>2 DEF One
      <4>2. CASE ~(h.obj[d].refs = 1 /\ h.obj[d].owner = x)
        <5>1. Owned(h, x) \cap G = {}
          BY <2>7, <4>2 DEF Owned
        <5>2. Cardinality(Owned(h, x) \cap G) = 0
          BY <5>1, FS_EmptySet
        <5>3. ~(e # Nothing /\ x = e)
          BY <4>2
        <5>. QED
          BY <5>2, <5>3 DEF One
      <4>. QED
        BY <4>1, <4>2
    <3>2. \A x : Copies(Due(e), x) = One(e # Nothing /\ x = e)
      BY DueCopies
    <3>. HIDE DEF e
    <3>3. ASSUME NEW x \in Addr PROVE Passed(h, F, b)[x] = E[x] + Copies(Due(e), x)
      <4>1. E[x] \in Nat /\ Copies(b, x) \in Nat /\ F[x] = E[x] + Copies(b, x)
        BY <2>3, <2>4 DEF One
      <4>2. CASE x \in DOMAIN h.obj \ G
        <5>1. Passed(h, F, b)[x] = F[x] - Copies(b, x) + Cardinality(Owned(h, x) \cap G)
          BY <4>2 DEF Passed
        <5>2. Cardinality(Owned(h, x) \cap G) = Copies(Due(e), x) /\ Copies(Due(e), x) \in Nat
          BY <3>1, <3>2, <4>2 DEF One
        <5>. QED
          BY <4>1, <5>1, <5>2
      <4>3. CASE x \notin DOMAIN h.obj \ G
        <5>1. Passed(h, F, b)[x] = 0
          BY <4>3 DEF Passed
        <5>2. F[x] = Copies(b, x) \/ F[x] = 0
          BY <2>2, <2>8, <4>3 DEF Balanced, WrappersBalance
        <5>3. E[x] = 0
          BY <4>1, <5>2
        <5>4. ~(e # Nothing /\ x = e)
          BY <2>9, <2>10, <4>3
        <5>. QED
          BY <3>2, <5>1, <5>3, <5>4 DEF One
      <4>. QED
        BY <4>2, <4>3
    <3>. QED
      BY <3>3 DEF Passed, Plus
  <2>12. ASSUME NEW i \in 0..2, Depth(d) <= i + 1 PROVE Depth(e) <= i
    <3>1. CASE e = Nothing
      BY <3>1 DEF Depth
    <3>2. CASE e # Nothing
      <4>1. Within(Class(d), Class(e))
        BY <2>5, <3>2 DEF Placed
      <4>. HIDE DEF e, d
      <4>. QED
        BY <1>2, <2>12, <3>2, <4>1 DEF Within, Depth
    <3>. QED
      BY <3>1, <3>2
  <2>13. LetGo(s).heap = k /\ LetGo(s).drop = e
    BY <2>1
  <2>. HIDE DEF k, e, F
  <2>14. Dropping(LetGo(s), E, N)
    BY <2>9, <2>10, <2>11, <2>13 DEF Dropping
  <2>15. Shrinks(h, k)
    BY <2>9 DEF Shrinks
  <2>. QED
    BY <2>12, <2>13, <2>14, <2>15
<1>. QED
  BY <1>1, <1>2

LEMMA UnrefBalance ==
  ASSUME NEW h, NEW E \in [Addr -> Nat], NEW N, NEW x \in DOMAIN h.obj,
         Balanced(h, Plus(E, Single(x)), N)
  PROVE  Balanced(Unref(h, x), E, N) /\ Shrinks(h, Unref(h, x))
<1>. DEFINE s == [heap |-> h, drop |-> x]
            s1 == LetGo(s)
            s2 == LetGo(s1)
            s3 == LetGo(s2)
<1>1. s.heap = h /\ s.drop = x
  OBVIOUS
<1>2. x # Nothing
  BY DEF Balanced, IsHeap, IsTable
<1>3. Dropping(s, E, N) /\ Depth(s.drop) <= 3
  BY <1>1, <1>2 DEF Dropping, Due, Depth
<1>4. Unref(h, x) = s3.heap
  BY DEF Unref
<1>. HIDE DEF s
<1>5. Dropping(s1, E, N) /\ Shrinks(s.heap, s1.heap) /\ Depth(s1.drop) <= 2
  <2>1. 2 \in 0..2 /\ 2 + 1 = 3
    OBVIOUS
  <2>. QED
    BY <1>3, <2>1, LetGoStep
<1>. HIDE DEF s1
<1>6. Dropping(s2, E, N) /\ Shrinks(s1.heap, s2.heap) /\ Depth(s2.drop) <= 1
  <2>1. 1 \in 0..2 /\ 1 + 1 = 2
    OBVIOUS
  <2>. QED
    BY <1>5, <2>1, LetGoStep
<1>. HIDE DEF s2
<1>7. Dropping(s3, E, N) /\ Shrinks(s2.heap, s3.heap) /\ Depth(s3.drop) <= 0
  <2>1. 0 \in 0..2 /\ 0 + 1 = 1
    OBVIOUS
  <2>. QED
    BY <1>6, <2>1, LetGoStep
<1>. HIDE DEF s3
<1>8. s3.drop = Nothing
  BY <1>7 DEF Depth
<1>9. Plus(E, Due(s3.drop)) = E
  <2>1. \A y : Copies(Due(s3.drop), y) = 0
    BY <1>8, NoCopies DEF Due
  <2>2. \A y \in Addr : E[y] + Copies(Due(s3.drop), y) = E[y]
    BY <2>1
  <2>3. Plus(E, Due(s3.drop)) = [y \in Addr |-> E[y]]
    BY <2>2 DEF Plus
  <2>. QED
    BY <2>3
<1>10. Balanced(s3.heap, E, N)
  BY <1>7, <1>9 DEF Dropping
<1>11. Shrinks(h, s3.heap)
  BY <1>1, <1>5, <1>6, <1>7 DEF Shrinks
<1>. QED
  BY <1>4, <1>10, <1>11

---------------------------------------------------------------------------
(* Wrappers that are made, and buffers that are taken away.                 *)

\* What is there still points to the same.
Grows(h, k) ==
  DOMAIN h.obj \subseteq DOMAIN k.obj /\ \A x \in DOMAIN h.obj : k.obj[x].at = h.obj[x].at

\* The new wrapper has its one reference, and its owner one more.
LEMMA PutBalance ==
  ASSUME NEW g, NEW E \in [Addr -> Nat], NEW N, NEW w \in Wrapper, w.refs = 1,
         Balanced(g, Plus(E, Due(w.owner)), N),
         NEW x \in (Addr \ {Nothing}) \ DOMAIN g.obj,
         \/ /\ Class(x) \in Owning /\ w.owner = Nothing
            /\ w.at \in DOMAIN g.native /\ Covers(N, Single(w.at))
         \/ Class(x) = "notation" /\ w.owner = Nothing
         \/ /\ Within(Class(x), Class(w.owner))
            /\ w.owner \in DOMAIN g.obj /\ g.obj[w.owner].at = w.at
  PROVE  LET k == Put(g, x, w)
             M == IF Class(x) \in Owning THEN Minus(N, Single(w.at)) ELSE N
         IN Balanced(k, Plus(E, Single(x)), M) /\ Grows(g, k)
<1>. DEFINE k == Put(g, x, w)
            M == IF Class(x) \in Owning THEN Minus(N, Single(w.at)) ELSE N
            F == Plus(E, Due(w.owner))
            F2 == Plus(E, Single(x))
<1>1. /\ IsHeap(k) /\ k.native = g.native /\ DOMAIN k.obj = DOMAIN g.obj \cup {x}
      /\ k.obj[x] = w /\ \A y \in DOMAIN g.obj : k.obj[y] = g.obj[y]
      /\ \A y : Owned(k, y) = IF w.owner = y THEN Owned(g, y) \cup {x} ELSE Owned(g, y)
      /\ \A n : Pointers(k, n) = IF Class(x) \in Owning /\ w.at = n
                  THEN Pointers(g, n) \cup {x} ELSE Pointers(g, n)
  <2>1. IsHeap(g)
    BY DEF Balanced
  <2>2. Fits(g, x, w)
    BY DEF Fits
  <2>. QED
    BY <2>1, <2>2, WrapperAdded
<1>. HIDE DEF k
<1>2. IsABag(Single(x)) /\ \A y : Copies(Single(x), y) = One(y = x)
  BY CopiesOfSingle
<1>3. IsABag(Due(w.owner)) /\ \A y : Copies(Due(w.owner), y) = One(w.owner # Nothing /\ y = w.owner)
  BY DueCopies
<1>4. /\ \A y \in Addr : F[y] = E[y] + One(w.owner # Nothing /\ y = w.owner)
      /\ F2 \in [Addr -> Nat] /\ \A y \in Addr : F2[y] = E[y] + One(y = x)
  BY <1>2, <1>3, LedgerChanges
<1>5. \A y \in Addr : IF y \in DOMAIN g.obj
                      THEN g.obj[y].refs = F[y] + Cardinality(Owned(g, y)) ELSE F[y] = 0
  BY DEF Balanced, WrappersBalance
<1>6. \A y : /\ IsFiniteSet(Owned(g, y)) /\ Cardinality(Owned(g, y)) \in Nat
             /\ IsFiniteSet(Pointers(g, y)) /\ Cardinality(Pointers(g, y)) \in Nat
             /\ x \notin Owned(g, y) /\ x \notin Pointers(g, y)
  <2>1. IsHeap(g)
    BY DEF Balanced
  <2>2. \A y : x \notin Owned(g, y) /\ x \notin Pointers(g, y)
    BY DEF Owned, Pointers
  <2>. QED
    BY <2>1, <2>2, Counts
<1>. HIDE DEF F, F2
<1>7. w.owner # x /\ (w.owner = Nothing \/ w.owner \in DOMAIN g.obj)
  OBVIOUS
<1>8. ASSUME NEW y \in DOMAIN g.obj PROVE k.obj[y].refs = F2[y] + Cardinality(Owned(k, y))
  <2>1. y \in Addr /\ y # Nothing /\ y # x
    BY DEF Balanced, IsHeap, IsTable
  <2>2. g.obj[y].refs = E[y] + One(y = w.owner) + Cardinality(Owned(g, y))
    BY <1>4, <1>5, <2>1 DEF One
  <2>3. Cardinality(Owned(k, y)) = Cardinality(Owned(g, y)) + One(y = w.owner)
    <3>1. CASE y = w.owner
      <4>1. Owned(k, y) = Owned(g, y) \cup {x}
        BY <1>1, <3>1
      <4>. QED
        BY <1>6, <3>1, <4>1, FS_AddElement DEF One
    <3>2. CASE y # w.owner
      <4>1. Owned(k, y) = Owned(g, y)
        BY <1>1, <3>2
      <4>. QED
        BY <1>6, <3>2, <4>1 DEF One
    <3>. QED
      BY <3>1, <3>2
  <2>4. k.obj[y].refs = g.obj[y].refs /\ F2[y] = E[y] /\ E[y] \in Nat
    BY <1>1, <1>4, <2>1 DEF One
  <2>5. One(y = w.owner) \in Nat
    BY DEF One
  <2>. QED
    BY <1>6, <2>2, <2>3, <2>4, <2>5
<1>9. k.obj[x].refs = F2[x] + Cardinality(Owned(k, x))
  <2>1. F[x] = 0 /\ F2[x] = E[x] + 1 /\ F[x] = E[x]
    BY <1>4, <1>5, <1>7 DEF One
  <2>2. Owned(g, x) = {}
    BY NoneOutside DEF Balanced
  <2>3. Owned(k, x) = {}
    BY <1>1, <1>7, <2>2
  <2>. QED
    BY <1>1, <2>1, <2>3, FS_EmptySet
<1>10. ASSUME NEW y \in Addr, y \notin DOMAIN k.obj PROVE F2[y] = 0
  <2>1. F[y] = 0 /\ y # x
    BY <1>1, <1>5, <1>10
  <2>2. y # w.owner \/ y = Nothing
    BY <1>1, <1>7, <1>10
  <2>3. F[y] = E[y] /\ F2[y] = E[y]
    BY <1>4, <2>1, <2>2 DEF One
  <2>. QED
    BY <2>1, <2>3
<1>11. WrappersBalance(k, F2)
  BY <1>1, <1>4, <1>8, <1>9, <1>10 DEF WrappersBalance
<1>12. /\ N \in [Addr -> Nat]
       /\ \A n \in Addr : IF n \in DOMAIN g.native
                          THEN g.native[n] = N[n] + Cardinality(Pointers(g, n)) ELSE N[n] = 0
  BY DEF Balanced, NativesBalance
<1>13. NativesBalance(k, M)
  <2>1. CASE Class(x) \notin Owning
    <3>1. \A n : Pointers(k, n) = Pointers(g, n)
      BY <1>1, <2>1
    <3>. QED
      BY <1>1, <1>12, <2>1, <3>1 DEF NativesBalance
  <2>2. CASE Class(x) \in Owning
    <3>1. w.at \in DOMAIN g.native /\ Covers(N, Single(w.at))
      BY <2>2 DEF Within, Owning
    <3>2. IsABag(Single(w.at)) /\ \A n : Copies(Single(w.at), n) = One(n = w.at)
      BY CopiesOfSingle
    <3>3. M \in [Addr -> Nat] /\ \A n \in Addr : M[n] = N[n] - One(n = w.at)
      BY <1>12, <2>2, <3>1, <3>2, LedgerChanges
    <3>. HIDE DEF M
    <3>4. ASSUME NEW n \in Addr, n \in DOMAIN g.native
          PROVE  k.native[n] = M[n] + Cardinality(Pointers(k, n))
      <4>1. g.native[n] = N[n] + Cardinality(Pointers(g, n)) /\ N[n] \in Nat
        BY <1>12, <3>4
      <4>2. CASE n = w.at
        <5>1. Pointers(k, n) = Pointers(g, n) \cup {x}
          BY <1>1, <2>2, <4>2
        <5>2. Cardinality(Pointers(k, n)) = Cardinality(Pointers(g, n)) + 1
          BY <1>6, <5>1, FS_AddElement
        <5>3. M[n] = N[n] - 1
          BY <3>3, <4>2 DEF One
        <5>. QED
          BY <1>1, <1>6, <4>1, <5>2, <5>3
      <4>3. CASE n # w.at
        <5>1. Pointers(k, n) = Pointers(g, n)
          BY <1>1, <4>3
        <5>2. M[n] = N[n]
          BY <3>3, <4>1, <4>3 DEF One
        <5>. QED
          BY <1>1, <4>1, <5>1, <5>2
      <4>. QED
        BY <4>2, <4>3
    <3>5. \A n \in Addr \ DOMAIN g.native : M[n] = 0
      <4>. TAKE n \in Addr \ DOMAIN g.native
      <4>1. n # w.at /\ N[n] = 0
        BY <1>12, <3>1
      <4>2. M[n] = N[n] - 0
        BY <3>3, <4>1 DEF One
      <4>. QED
        BY <4>1, <4>2
    <3>. QED
      BY <1>1, <3>3, <3>4, <3>5 DEF NativesBalance
  <2>. QED
    BY <2>1, <2>2
<1>14. Grows(g, k)
  BY <1>1 DEF Grows
<1>. QED
  BY <1>1, <1>11, <1>13, <1>14 DEF Balanced, k, F2

LEMMA RefNothing ==
  ASSUME NEW h, IsHeap(h)
  PROVE  RefEach(h, Single(Nothing)) = h
<1>. DEFINE b == Single(Nothing)
            o == [x \in DOMAIN h.obj |-> [h.obj[x] EXCEPT !.refs = @ + Copies(b, x)]]
<1>1. \A x \in DOMAIN h.obj : x # Nothing /\ h.obj[x] \in Wrapper
  BY DEF IsHeap, IsTable
<1>2. \A x \in DOMAIN h.obj : Copies(b, x) = 0
  BY <1>1, CopiesOfSingle DEF One
<1>. HIDE DEF b
<1>3. \A x \in DOMAIN h.obj : o[x] = h.obj[x]
  BY <1>1, <1>2 DEF Wrapper
<1>4. o = [x \in DOMAIN h.obj |-> h.obj[x]]
  BY <1>3
<1>5. o = h.obj
  BY <1>4 DEF IsHeap
<1>6. RefEach(h, b) = [h EXCEPT !.obj = o]
  BY DEF RefEach
<1>. HIDE DEF o
<1>7. [h EXCEPT !.obj = o] = h
  BY <1>5 DEF IsHeap
<1>. QED
  BY <1>6, <1>7 DEF b

\* A wrapper of a structure takes a reference to it over.
LEMMA WrapOwningBalance ==
  ASSUME NEW h, NEW E \in [Addr -> Nat], NEW N, Balanced(h, E, N),
         NEW x \in (Addr \ {Nothing}) \ DOMAIN h.obj, Class(x) \in Owning,
         NEW n \in DOMAIN h.native, Covers(N, Single(n))
  PROVE  /\ Balanced(Wrap(h, x, n, Nothing), Plus(E, Single(x)), Minus(N, Single(n)))
         /\ Grows(h, Wrap(h, x, n, Nothing))
         /\ Wrap(h, x, n, Nothing).native = h.native
         /\ x \in DOMAIN Wrap(h, x, n, Nothing).obj
<1>. DEFINE w == [at |-> n, owner |-> Nothing, refs |-> 1]
            k == Put(h, x, w)
<1>1. IsHeap(h)
  BY DEF Balanced
<1>2. Wrap(h, x, n, Nothing) = k
  BY <1>1, RefNothing DEF Wrap
<1>3. w \in Wrapper /\ w.refs = 1 /\ w.owner = Nothing /\ w.at = n
  <2>1. Nothing \in Addr
    BY DEF Nothing, Addr, Kinds
  <2>2. n \in Addr
    BY <1>1 DEF IsHeap, IsTable
  <2>. QED
    BY <2>1, <2>2 DEF Wrapper
<1>. HIDE DEF w
<1>4. Balanced(h, Plus(E, Due(w.owner)), N)
  <2>1. \A y : Copies(Due(w.owner), y) = 0
    BY <1>3, NoCopies DEF Due
  <2>2. Plus(E, Due(w.owner)) = [y \in Addr |-> E[y]]
    <3>1. \A y \in Addr : E[y] + Copies(Due(w.owner), y) = E[y]
      BY <2>1
    <3>. QED
      BY <3>1 DEF Plus
  <2>. QED
    BY <2>2
<1>5. Balanced(k, Plus(E, Single(x)), Minus(N, Single(n))) /\ Grows(h, k)
  BY <1>3, <1>4, PutBalance
<1>6. k.native = h.native /\ x \in DOMAIN k.obj
  BY <1>1 DEF IsHeap, Put
<1>. QED
  BY <1>2, <1>5, <1>6

\* A wrapper of a part points into the structure of its owner; a notation has none.
LEMMA WrapPartBalance ==
  ASSUME NEW h, NEW E \in [Addr -> Nat], NEW N, Balanced(h, E, N),
         NEW x \in (Addr \ {Nothing}) \ DOMAIN h.obj, NEW at \in Addr,
         NEW owner,
         \/ Class(x) = "notation" /\ owner = Nothing
         \/ /\ Within(Class(x), Class(owner))
            /\ owner \in DOMAIN h.obj /\ h.obj[owner].at = at
  PROVE  /\ Balanced(Wrap(h, x, at, owner), Plus(E, Single(x)), N)
         /\ Grows(h, Wrap(h, x, at, owner))
<1>. DEFINE g == RefEach(h, Single(owner))
            w == [at |-> at, owner |-> owner, refs |-> 1]
            k == Put(g, x, w)
<1>1. IsHeap(h) /\ Nothing \in Addr
  BY DEF Balanced, Nothing, Addr, Kinds
<1>2. Wrap(h, x, at, owner) = k
  BY DEF Wrap
<1>3. /\ Balanced(g, Plus(E, Due(owner)), N) /\ DOMAIN g.obj = DOMAIN h.obj
      /\ \A y \in DOMAIN h.obj : g.obj[y].at = h.obj[y].at
  <2>1. CASE owner = Nothing
    <3>1. g = h
      BY <1>1, <2>1, RefNothing
    <3>2. \A y \in Addr : E[y] + Copies(Due(owner), y) = E[y]
      BY <2>1, NoCopies DEF Due
    <3>3. Plus(E, Due(owner)) = [y \in Addr |-> E[y]]
      BY <3>2 DEF Plus
    <3>. QED
      BY <3>1, <3>3
  <2>2. CASE owner # Nothing
    <3>1. IsABag(Single(owner)) /\ DOMAIN Single(owner) \subseteq DOMAIN h.obj
      <4>1. owner \in DOMAIN h.obj
        BY <2>2
      <4>2. IsABag(Single(owner)) /\ DOMAIN Single(owner) = {owner}
        BY CopiesOfSingle
      <4>. QED
        BY <4>1, <4>2
    <3>2. Due(owner) = Single(owner)
      BY <2>2 DEF Due
    <3>. QED
      BY <3>1, <3>2, RefEachBalance
  <2>. QED
    BY <2>1, <2>2
<1>. HIDE DEF g
<1>4. owner \in Addr
  BY <1>1 DEF IsHeap, IsTable
<1>5. w \in Wrapper /\ w.refs = 1 /\ w.owner = owner /\ w.at = at
  BY <1>4 DEF Wrapper
<1>6. Class(x) \notin Owning
  BY DEF Within, Owning
<1>. HIDE DEF w
<1>7. Balanced(k, Plus(E, Single(x)), N) /\ Grows(g, k)
  BY <1>3, <1>5, <1>6, PutBalance
<1>8. Grows(h, k)
  BY <1>3, <1>7 DEF Grows
<1>. QED
  BY <1>2, <1>7, <1>8

\* A buffer is taken away, and what had a reference to it is its wrapper alone.
LEMMA FreeToBytesBalance ==
  ASSUME NEW h, NEW E, NEW N, Balanced(h, E, N), NEW x \in DOMAIN h.obj,
         Class(x) = "data", h.obj[x].at # Nothing
  PROVE  LET k == [UnrefNatives(h, Single(h.obj[x].at)) EXCEPT !.obj[x].at = Nothing] IN
         /\ Balanced(k, E, N) /\ DOMAIN k.obj = DOMAIN h.obj /\ k.obj[x].at = Nothing
         /\ \A y \in DOMAIN h.obj : y # x => k.obj[y].at = h.obj[y].at
<1>. DEFINE n == h.obj[x].at
            b == Single(n)
            g == [h EXCEPT !.obj[x].at = Nothing]
            M == Plus(N, b)
            k == [UnrefNatives(h, b) EXCEPT !.obj[x].at = Nothing]
<1>1. IsHeap(h) /\ Placed(h, x) /\ N \in [Addr -> Nat]
  BY DEF Balanced, IsHeap, NativesBalance
<1>2. n \in DOMAIN h.native /\ n \in Addr /\ n # Nothing
  BY <1>1 DEF Placed, Within, IsHeap, IsTable
<1>3. /\ IsHeap(g) /\ g.native = h.native /\ DOMAIN g.obj = DOMAIN h.obj
      /\ g.obj[x].at = Nothing
      /\ \A y \in DOMAIN h.obj : g.obj[y].refs = h.obj[y].refs
      /\ \A y \in DOMAIN h.obj : y # x => g.obj[y] = h.obj[y]
      /\ \A y : Owned(g, y) = Owned(h, y)
      /\ \A m : m # Nothing => Pointers(g, m) = Pointers(h, m) \ {x}
  BY <1>1, BufferTaken
<1>4. UnrefNatives(g, b) = k
  <2>1. h = [obj |-> h.obj, native |-> h.native]
    BY <1>1 DEF IsHeap
  <2>2. g = [h EXCEPT !.obj = [h.obj EXCEPT ![x] = [h.obj[x] EXCEPT !.at = Nothing]]]
    OBVIOUS
  <2>. DEFINE o == [h.obj EXCEPT ![x] = [h.obj[x] EXCEPT !.at = Nothing]]
              left == {m \in DOMAIN h.native : h.native[m] > Copies(b, m)}
              f == [m \in left |-> h.native[m] - Copies(b, m)]
  <2>3. g = [obj |-> o, native |-> h.native]
    BY <2>1, <2>2
  <2>4. UnrefNatives(h, b) = [obj |-> h.obj, native |-> f]
    BY <2>1 DEF UnrefNatives
  <2>5. k = [obj |-> o, native |-> f]
    BY <2>4
  <2>6. UnrefNatives(g, b) = [g EXCEPT !.native = f]
    BY <1>3 DEF UnrefNatives
  <2>. HIDE DEF o, f, g, k
  <2>. QED
    BY <2>3, <2>5, <2>6
<1>5. IsABag(b) /\ \A m : Copies(b, m) = One(m = n)
  BY CopiesOfSingle
<1>6. M \in [Addr -> Nat] /\ Covers(M, b) /\ Minus(M, b) = N
      /\ \A m \in Addr : M[m] = N[m] + One(m = n)
  BY <1>1, <1>5, LedgerChanges
<1>. HIDE DEF g, b, M, k
<1>7. NativesBalance(g, M)
  <2>1. ASSUME NEW m \in Addr, m \in DOMAIN h.native
        PROVE  g.native[m] = M[m] + Cardinality(Pointers(g, m))
    <3>1. /\ h.native[m] = N[m] + Cardinality(Pointers(h, m)) /\ N[m] \in Nat
          /\ IsFiniteSet(Pointers(h, m)) /\ Cardinality(Pointers(h, m)) \in Nat /\ m # Nothing
      BY <1>1, <2>1, Counts DEF Balanced, NativesBalance, IsHeap, IsTable
    <3>2. Pointers(g, m) = Pointers(h, m) \ {x}
      BY <1>3, <3>1
    <3>3. x \in Pointers(h, m) <=> m = n
      BY DEF Pointers, Owning
    <3>4. Cardinality(Pointers(g, m)) = Cardinality(Pointers(h, m)) - One(m = n)
      <4>1. Cardinality(Pointers(g, m)) =
              IF x \in Pointers(h, m) THEN Cardinality(Pointers(h, m)) - 1
              ELSE Cardinality(Pointers(h, m))
        BY <3>1, <3>2, FS_RemoveElement
      <4>. HIDE DEF n
      <4>. QED
        BY <3>1, <3>3, <4>1 DEF One
    <3>5. M[m] = N[m] + One(m = n) /\ One(m = n) \in Nat
      BY <1>6 DEF One
    <3>. QED
      BY <1>3, <3>1, <3>4, <3>5
  <2>2. ASSUME NEW m \in Addr, m \notin DOMAIN h.native PROVE M[m] = 0
    BY <1>2, <1>6, <2>2 DEF Balanced, NativesBalance, One
  <2>. QED
    BY <1>3, <1>6, <2>1, <2>2 DEF NativesBalance
<1>8. WrappersBalance(g, E)
  BY <1>3 DEF Balanced, WrappersBalance
<1>9. Balanced(UnrefNatives(g, b), E, N) /\ UnrefNatives(g, b).obj = g.obj
  <2>1. Balanced(g, E, M)
    BY <1>3, <1>7, <1>8 DEF Balanced
  <2>. QED
    BY <1>5, <1>6, <2>1, UnrefNativesBalance
<1>. QED
  BY <1>3, <1>4, <1>9 DEF b, k

---------------------------------------------------------------------------
(* The invariant.                                                           *)

Of(classes) == {a \in Addr : Class(a) \in classes}
BagOn(b, S) == IsABag(b) /\ DOMAIN b \subseteq S

ResultKinds == {"import", "listing", "verify"}

\* Who holds wrappers, and who holds gpgme's structures besides them.
HeldBy(m, s, b1, b2, b3) ==
  [x \in Addr |-> One(x \in m) + One(x \in s) + Copies(b1, x) + Copies(b2, x) + Copies(b3, x)]
UsedBy(r, b1, b2, b3) ==
  [n \in Addr |-> One(n \in r) + Copies(b1, n) + Copies(b2, n) + Copies(b3, n)]

Held == HeldBy(mine, strays, ctx.signers, op.args, kept.args)
Used == UsedBy(ctx.results, ctx.gpgme, op.keys, kept.keys)

CtxTyped ==
  /\ ctx = [refs |-> ctx.refs, mine |-> ctx.mine, signers |-> ctx.signers,
            gpgme |-> ctx.gpgme, results |-> ctx.results]
  /\ ctx.refs \in Nat /\ ctx.mine \in BOOLEAN /\ ctx.results \subseteq Of(ResultKinds)
  /\ BagOn(ctx.signers, Of({"key"})) /\ BagOn(ctx.gpgme, Addr)

OpTyped ==
  /\ op = [phase |-> op.phase, args |-> op.args, keys |-> op.keys,
           uses |-> op.uses, gives |-> op.gives]
  /\ op.phase \in {"idle", "run", "done"} /\ op.gives \subseteq ResultKinds \cup {"key"}
  /\ BagOn(op.args, Of({"key", "data"})) /\ BagOn(op.keys, Addr)

KeptTyped ==
  /\ kept = [args |-> kept.args, keys |-> kept.keys, ctx |-> kept.ctx] /\ kept.ctx \in Nat
  /\ BagOn(kept.args, Addr) /\ BagOn(kept.keys, Addr)

HoldersTyped ==
  mine \subseteq Addr /\ strays \subseteq Addr /\ CtxTyped /\ OpTyped /\ KeptTyped

\* The task and the source of each operation reference the context.
CtxHeld == ctx.refs = One(ctx.mine) + 2 * One(op.phase # "idle") + 2 * kept.ctx

Turns ==
  /\ op.phase = "idle" => op = NoOperation
  /\ op.phase = "run" => ctx.results = {}

\* A data wrapper nobody holds has no buffer.
StraysAreEmpty == \A x \in strays : Class(x) = "data" => heap.obj[x].at = Nothing

\* Something the operation or the context holds is, or points to, what gpgme works on.
UsesAreHeld ==
  op.phase = "run" =>
    \A u \in op.uses :
      /\ u # Nothing
      /\ \/ \E x \in DOMAIN op.args : heap.obj[x].at = u
         \/ u \in DOMAIN op.keys \cup DOMAIN ctx.gpgme

Balance == Balanced(heap, Held, Used)

Accounts ==
  /\ Balance /\ HoldersTyped /\ CtxHeld /\ Turns
  /\ StraysAreEmpty /\ UsesAreHeld

ObjectsInv == IsHeap(heap) /\ (op.phase # "aborted" => Accounts)

---------------------------------------------------------------------------
(* The holders.                                                             *)

LEMMA HeldValues ==
  ASSUME NEW m, NEW s, NEW b1, NEW b2, NEW b3, IsABag(b1), IsABag(b2), IsABag(b3)
  PROVE  /\ HeldBy(m, s, b1, b2, b3) \in [Addr -> Nat]
         /\ \A x \in Addr :
              /\ HeldBy(m, s, b1, b2, b3)[x] =
                   One(x \in m) + One(x \in s) + Copies(b1, x) + Copies(b2, x) + Copies(b3, x)
              /\ {One(x \in m), One(x \in s), Copies(b1, x), Copies(b2, x), Copies(b3, x)}
                   \subseteq Nat
<1>1. \A x : Copies(b1, x) \in Nat /\ Copies(b2, x) \in Nat /\ Copies(b3, x) \in Nat
  BY CopiesAreNat
<1>2. \A x : One(x \in m) \in Nat /\ One(x \in s) \in Nat
  BY DEF One
<1>. QED
  BY <1>1, <1>2 DEF HeldBy

LEMMA UsedValues ==
  ASSUME NEW r, NEW b1, NEW b2, NEW b3, IsABag(b1), IsABag(b2), IsABag(b3)
  PROVE  /\ UsedBy(r, b1, b2, b3) \in [Addr -> Nat]
         /\ \A n \in Addr :
              /\ UsedBy(r, b1, b2, b3)[n] =
                   One(n \in r) + Copies(b1, n) + Copies(b2, n) + Copies(b3, n)
              /\ {One(n \in r), Copies(b1, n), Copies(b2, n), Copies(b3, n)} \subseteq Nat
<1>1. \A x : Copies(b1, x) \in Nat /\ Copies(b2, x) \in Nat /\ Copies(b3, x) \in Nat
  BY CopiesAreNat
<1>2. \A x : One(x \in r) \in Nat
  BY DEF One
<1>. QED
  BY <1>1, <1>2 DEF UsedBy

\* What is held is there.
LEMMA HeldAreThere ==
  ASSUME NEW h, NEW N, NEW m, NEW s, NEW b1, NEW b2, NEW b3,
         IsABag(b1), IsABag(b2), IsABag(b3), Balanced(h, HeldBy(m, s, b1, b2, b3), N)
  PROVE  Addr \cap (m \cup s \cup DOMAIN b1 \cup DOMAIN b2 \cup DOMAIN b3) \subseteq DOMAIN h.obj
<1>. SUFFICES ASSUME NEW x \in Addr, x \in m \cup s \cup DOMAIN b1 \cup DOMAIN b2 \cup DOMAIN b3
     PROVE  x \in DOMAIN h.obj
  OBVIOUS
<1>1. /\ HeldBy(m, s, b1, b2, b3)[x] =
           One(x \in m) + One(x \in s) + Copies(b1, x) + Copies(b2, x) + Copies(b3, x)
      /\ One(x \in m) \in Nat /\ One(x \in s) \in Nat
      /\ Copies(b1, x) \in Nat /\ Copies(b2, x) \in Nat /\ Copies(b3, x) \in Nat
  BY HeldValues
<1>2. One(x \in m) > 0 \/ One(x \in s) > 0 \/ Copies(b1, x) > 0 \/ Copies(b2, x) > 0
      \/ Copies(b3, x) > 0
  BY CopiesAreNat DEF One
<1>3. HeldBy(m, s, b1, b2, b3)[x] # 0
  BY <1>1, <1>2
<1>. QED
  BY <1>3 DEF Balanced, WrappersBalance

LEMMA UsedAreThere ==
  ASSUME NEW h, NEW E, NEW r, NEW b1, NEW b2, NEW b3,
         IsABag(b1), IsABag(b2), IsABag(b3), Balanced(h, E, UsedBy(r, b1, b2, b3))
  PROVE  Addr \cap (r \cup DOMAIN b1 \cup DOMAIN b2 \cup DOMAIN b3) \subseteq DOMAIN h.native
<1>. SUFFICES ASSUME NEW n \in Addr, n \in r \cup DOMAIN b1 \cup DOMAIN b2 \cup DOMAIN b3
     PROVE  n \in DOMAIN h.native
  OBVIOUS
<1>1. /\ UsedBy(r, b1, b2, b3)[n] =
           One(n \in r) + Copies(b1, n) + Copies(b2, n) + Copies(b3, n)
      /\ One(n \in r) \in Nat
      /\ Copies(b1, n) \in Nat /\ Copies(b2, n) \in Nat /\ Copies(b3, n) \in Nat
  BY UsedValues
<1>2. One(n \in r) > 0 \/ Copies(b1, n) > 0 \/ Copies(b2, n) > 0 \/ Copies(b3, n) > 0
  BY CopiesAreNat DEF One
<1>3. UsedBy(r, b1, b2, b3)[n] # 0
  BY <1>1, <1>2
<1>. QED
  BY <1>3 DEF Balanced, NativesBalance

LEMMA SameLedger ==
  ASSUME NEW E \in [Addr -> Nat], NEW F \in [Addr -> Nat], \A x \in Addr : E[x] = F[x]
  PROVE  E = F
  OBVIOUS

LEMMA AreBags ==
  ASSUME HoldersTyped
  PROVE  /\ IsABag(ctx.signers) /\ IsABag(ctx.gpgme) /\ IsABag(op.args) /\ IsABag(op.keys)
         /\ IsABag(kept.args) /\ IsABag(kept.keys)
  BY DEF HoldersTyped, CtxTyped, OpTyped, KeptTyped, BagOn

AllThere ==
  /\ mine \subseteq DOMAIN heap.obj /\ strays \subseteq DOMAIN heap.obj
  /\ DOMAIN ctx.signers \subseteq DOMAIN heap.obj /\ DOMAIN op.args \subseteq DOMAIN heap.obj
  /\ DOMAIN kept.args \subseteq DOMAIN heap.obj
  /\ ctx.results \subseteq DOMAIN heap.native /\ DOMAIN ctx.gpgme \subseteq DOMAIN heap.native
  /\ DOMAIN op.keys \subseteq DOMAIN heap.native /\ DOMAIN kept.keys \subseteq DOMAIN heap.native

LEMMA ThereNow == HoldersTyped /\ Balance => AllThere
<1>. SUFFICES ASSUME HoldersTyped, Balance PROVE AllThere
  OBVIOUS
<1>1. /\ mine \subseteq Addr /\ strays \subseteq Addr
      /\ DOMAIN ctx.signers \subseteq Addr /\ DOMAIN op.args \subseteq Addr
      /\ DOMAIN kept.args \subseteq Addr
      /\ ctx.results \subseteq Addr /\ DOMAIN ctx.gpgme \subseteq Addr
      /\ DOMAIN op.keys \subseteq Addr /\ DOMAIN kept.keys \subseteq Addr
  BY DEF HoldersTyped, CtxTyped, OpTyped, KeptTyped, BagOn, Of
<1>2. /\ IsABag(ctx.signers) /\ IsABag(ctx.gpgme) /\ IsABag(op.args) /\ IsABag(op.keys)
      /\ IsABag(kept.args) /\ IsABag(kept.keys)
  BY AreBags
<1>3. /\ Balanced(heap, HeldBy(mine, strays, ctx.signers, op.args, kept.args), Used)
      /\ Balanced(heap, Held, UsedBy(ctx.results, ctx.gpgme, op.keys, kept.keys))
  BY DEF Held, Used, Balance
<1>4. Addr \cap (mine \cup strays \cup DOMAIN ctx.signers \cup DOMAIN op.args
                 \cup DOMAIN kept.args) \subseteq DOMAIN heap.obj
  BY <1>2, <1>3, HeldAreThere
<1>5. Addr \cap (ctx.results \cup DOMAIN ctx.gpgme \cup DOMAIN op.keys \cup DOMAIN kept.keys)
        \subseteq DOMAIN heap.native
  BY <1>2, <1>3, UsedAreThere
<1>. QED
  BY <1>1, <1>4, <1>5 DEF AllThere

LEMMA ThereNext == HoldersTyped' /\ Balance' => AllThere'
<1>1. (HoldersTyped /\ Balance => AllThere)'
  BY ThereNow, PTL
<1>. QED
  BY <1>1

Keeps(h, k) == \A x \in DOMAIN h.obj \cap DOMAIN k.obj : k.obj[x].at = h.obj[x].at

LEMMA KeepsWhat ==
  ASSUME NEW h, NEW k, Shrinks(h, k) \/ Grows(h, k) \/ h.obj = k.obj
  PROVE  Keeps(h, k)
  BY DEF Shrinks, Grows, Keeps

\* What a step that leaves the operation alone cannot disturb.
LEMMA UsesStay ==
  ASSUME Accounts, Balance', HoldersTyped', op' = op, Keeps(heap, heap'),
         op.phase = "run" => DOMAIN ctx.gpgme \subseteq DOMAIN ctx.gpgme'
  PROVE  UsesAreHeld'
<1>. SUFFICES ASSUME op.phase = "run", NEW u \in op.uses
     PROVE  /\ u # Nothing
            /\ \/ \E x \in DOMAIN op.args : heap'.obj[x].at = u
               \/ u \in DOMAIN op.keys \cup DOMAIN ctx'.gpgme
  BY DEF UsesAreHeld
<1>1. /\ u # Nothing
      /\ \/ \E x \in DOMAIN op.args : heap.obj[x].at = u
         \/ u \in DOMAIN op.keys \cup DOMAIN ctx.gpgme
  BY DEF Accounts, UsesAreHeld
<1>2. \A x \in DOMAIN op.args : heap'.obj[x].at = heap.obj[x].at
  BY ThereNow, ThereNext DEF Accounts, AllThere, Keeps
<1>. QED
  BY <1>1, <1>2

LEMMA StraysStay ==
  ASSUME Accounts, Balance', HoldersTyped', Keeps(heap, heap'),
         \A x \in strays' \ strays : Class(x) # "data"
  PROVE  StraysAreEmpty'
<1>. SUFFICES ASSUME NEW x \in strays', Class(x) = "data" PROVE heap'.obj[x].at = Nothing
  BY DEF StraysAreEmpty
<1>1. x \in strays /\ heap.obj[x].at = Nothing
  BY DEF Accounts, StraysAreEmpty
<1>2. x \in DOMAIN heap.obj /\ x \in DOMAIN heap'.obj
  BY <1>1, ThereNow, ThereNext DEF Accounts, AllThere
<1>. QED
  BY <1>1, <1>2 DEF Keeps

\* A step of the client.
LEMMA ClientStep ==
  ASSUME Accounts, Balance', HoldersTyped', CtxHeld', Keeps(heap, heap'),
         UNCHANGED <<strays, op>>,
         op.phase = "run" =>
           DOMAIN ctx.gpgme \subseteq DOMAIN ctx.gpgme' /\ ctx'.results = ctx.results
  PROVE  ObjectsInv'
<1>1. StraysAreEmpty' /\ UsesAreHeld'
  BY StraysStay, UsesStay
<1>2. Turns'
  BY DEF Accounts, Turns, NoOperation
<1>3. IsHeap(heap)'
  BY DEF Balance, Balanced
<1>. QED
  BY <1>1, <1>2, <1>3 DEF ObjectsInv, Accounts

\* The client takes a wrapper.
LEMMA MineTaken ==
  ASSUME HoldersTyped, NEW x \in Addr \ mine, mine' = mine \cup {x},
         UNCHANGED <<strays, ctx, op, kept>>
  PROVE  Held' = Plus(Held, Single(x)) /\ Used' = Used
<1>1. /\ Held \in [Addr -> Nat] /\ Held' \in [Addr -> Nat]
      /\ \A y \in Addr :
           /\ Held[y] = One(y \in mine) + One(y \in strays) + Copies(ctx.signers, y)
                        + Copies(op.args, y) + Copies(kept.args, y)
           /\ Held'[y] = One(y \in mine') + One(y \in strays) + Copies(ctx.signers, y)
                         + Copies(op.args, y) + Copies(kept.args, y)
           /\ {One(y \in mine), One(y \in strays), Copies(ctx.signers, y),
               Copies(op.args, y), Copies(kept.args, y)} \subseteq Nat
  BY AreBags, HeldValues DEF Held
<1>2. \A y \in Addr : One(y \in mine') = One(y \in mine) + One(y = x)
  BY DEF One
<1>3. IsABag(Single(x)) /\ \A y : Copies(Single(x), y) = One(y = x)
  BY CopiesOfSingle
<1>4. /\ Plus(Held, Single(x)) \in [Addr -> Nat]
      /\ \A y \in Addr : Plus(Held, Single(x))[y] = Held[y] + One(y = x)
  BY <1>1, <1>3, LedgerChanges
<1>5. \A y \in Addr : One(y = x) \in Nat
  BY DEF One
<1>6. \A y \in Addr : Held'[y] = Plus(Held, Single(x))[y]
  BY <1>1, <1>2, <1>4, <1>5
<1>. QED
  BY <1>1, <1>4, <1>6, SameLedger DEF Used

\* The client lets go of a wrapper.
LEMMA MineDropped ==
  ASSUME HoldersTyped, NEW x \in mine, mine' = mine \ {x},
         UNCHANGED <<strays, ctx, op, kept>>
  PROVE  Held = Plus(Held', Single(x)) /\ Held' \in [Addr -> Nat] /\ Used' = Used
<1>1. /\ Held \in [Addr -> Nat] /\ Held' \in [Addr -> Nat]
      /\ \A y \in Addr :
           /\ Held[y] = One(y \in mine) + One(y \in strays) + Copies(ctx.signers, y)
                        + Copies(op.args, y) + Copies(kept.args, y)
           /\ Held'[y] = One(y \in mine') + One(y \in strays) + Copies(ctx.signers, y)
                         + Copies(op.args, y) + Copies(kept.args, y)
           /\ {One(y \in mine'), One(y \in strays), Copies(ctx.signers, y),
               Copies(op.args, y), Copies(kept.args, y)} \subseteq Nat
  BY AreBags, HeldValues DEF Held
<1>2. \A y \in Addr : One(y \in mine) = One(y \in mine') + One(y = x)
  BY DEF One
<1>3. IsABag(Single(x)) /\ \A y : Copies(Single(x), y) = One(y = x)
  BY CopiesOfSingle
<1>4. /\ Plus(Held', Single(x)) \in [Addr -> Nat]
      /\ \A y \in Addr : Plus(Held', Single(x))[y] = Held'[y] + One(y = x)
  BY <1>1, <1>3, LedgerChanges
<1>5. \A y \in Addr : One(y = x) \in Nat
  BY DEF One
<1>6. \A y \in Addr : Held[y] = Plus(Held', Single(x))[y]
  BY <1>1, <1>2, <1>4, <1>5
<1>. QED
  BY <1>1, <1>4, <1>6, SameLedger DEF Used

\* Typing when only mine changes.
LEMMA MineTyped ==
  ASSUME HoldersTyped, CtxHeld, mine' \subseteq Addr, UNCHANGED <<strays, ctx, op, kept>>
  PROVE  HoldersTyped' /\ CtxHeld'
  BY DEF HoldersTyped, CtxTyped, OpTyped, KeptTyped, CtxHeld

---------------------------------------------------------------------------
(* The client's steps.                                                      *)

LEMMA FreshObject ==
  ASSUME Accounts, NEW class \in Kinds \ {"nothing"}
  PROVE  /\ NewObject(class) \in (Addr \ {Nothing}) \ DOMAIN heap.obj
         /\ Class(NewObject(class)) = class
         /\ NewObject(class) \notin mine /\ NewObject(class) \notin strays
<1>1. /\ NewObject(class) \in (Addr \ {Nothing}) \ DOMAIN heap.obj
      /\ Class(NewObject(class)) = class
  BY FreshAddress DEF NewObject, Accounts, Balance, Balanced, IsHeap
<1>. QED
  BY <1>1, ThereNow DEF Accounts, AllThere

LEMMA FreshNative ==
  ASSUME Accounts, NEW kind \in Kinds \ {"nothing"}
  PROVE  /\ NewNative(kind) \in (Addr \ {Nothing}) \ DOMAIN heap.native
         /\ Class(NewNative(kind)) = kind
  BY FreshAddress DEF NewNative, Accounts, Balance, Balanced, IsHeap

LEMMA NewDataStep == ASSUME Accounts, NewData PROVE ObjectsInv'
<1>. DEFINE x == NewObject("data")
            n == NewNative("data")
            h == AddNatives(heap, {n})
<1>1. /\ x \in (Addr \ {Nothing}) \ DOMAIN heap.obj /\ Class(x) = "data" /\ x \notin mine
      /\ n \in (Addr \ {Nothing}) \ DOMAIN heap.native
  BY FreshObject, FreshNative DEF Kinds, Owning
<1>2. /\ heap' = Wrap(h, x, n, Nothing) /\ mine' = mine \cup {x}
      /\ UNCHANGED <<strays, ctx, op, kept>>
  BY DEF NewData
<1>. HIDE DEF x, n
<1>3. Held \in [Addr -> Nat] /\ Used \in [Addr -> Nat] /\ Balanced(heap, Held, Used)
  BY DEF Accounts, Balance, Balanced, WrappersBalance, NativesBalance
<1>4. /\ Balanced(h, Held, Plus(Used, Single(n))) /\ h.obj = heap.obj
      /\ n \in DOMAIN h.native
  <2>1. IsFiniteSet({n}) /\ {n} \subseteq (Addr \ {Nothing}) \ DOMAIN heap.native
    BY <1>1, FS_Singleton
  <2>. QED
    BY <1>3, <2>1, AddNativesBalance DEF Single
<1>5. IsABag(Single(n))
  BY CopiesOfSingle
<1>6. /\ Plus(Used, Single(n)) \in [Addr -> Nat] /\ Covers(Plus(Used, Single(n)), Single(n))
      /\ Minus(Plus(Used, Single(n)), Single(n)) = Used
  BY <1>3, <1>5, LedgerChanges
<1>. HIDE DEF h
<1>7. /\ Balanced(heap', Plus(Held, Single(x)), Used) /\ Grows(h, heap')
  <2>1. x \in (Addr \ {Nothing}) \ DOMAIN h.obj /\ Class(x) \in Owning
    BY <1>1, <1>4 DEF Owning
  <2>2. Balanced(Wrap(h, x, n, Nothing), Plus(Held, Single(x)),
                 Minus(Plus(Used, Single(n)), Single(n)))
        /\ Grows(h, Wrap(h, x, n, Nothing))
    BY <1>3, <1>4, <1>6, <2>1, WrapOwningBalance
  <2>. QED
    BY <1>2, <1>6, <2>2
<1>8. Held' = Plus(Held, Single(x)) /\ Used' = Used
  BY <1>1, <1>2, MineTaken DEF Accounts
<1>9. Balance' /\ Keeps(heap, heap')
  BY <1>4, <1>7, <1>8 DEF Balance, Keeps, Grows
<1>10. HoldersTyped' /\ CtxHeld'
  BY <1>1, <1>2, MineTyped DEF Accounts, HoldersTyped
<1>. QED
  BY <1>2, <1>9, <1>10, ClientStep

LEMMA GetStep ==
  ASSUME Accounts, NEW x, NEW class, NEW from, NEW owner, Get(x, class, from, owner),
         \/ class = "notation" /\ owner = Nothing
         \/ Within(class, from) /\ owner = x
  PROVE  ObjectsInv'
<1>. DEFINE y == NewObject(class)
            at == heap.obj[x].at
<1>1. class \in Kinds \ {"nothing"}
  BY DEF Within, Kinds
<1>2. y \in (Addr \ {Nothing}) \ DOMAIN heap.obj /\ Class(y) = class /\ y \notin mine
  BY <1>1, FreshObject
<1>3. /\ heap' = Wrap(heap, y, at, owner) /\ mine' = mine \cup {y}
      /\ UNCHANGED <<strays, ctx, op, kept>> /\ x \in mine /\ Class(x) = from
  BY DEF Get, Mine
<1>4. x \in DOMAIN heap.obj
  BY <1>3, ThereNow DEF Accounts, AllThere
<1>5. at \in Addr
  BY <1>4 DEF Accounts, Balance, Balanced, IsHeap, Wrapper
<1>. HIDE DEF y
<1>6. Held \in [Addr -> Nat] /\ Balanced(heap, Held, Used)
  BY DEF Accounts, Balance, Balanced, WrappersBalance
<1>7. Balanced(heap', Plus(Held, Single(y)), Used) /\ Grows(heap, heap')
  <2>1. \/ Class(y) = "notation" /\ owner = Nothing
        \/ /\ Within(Class(y), Class(owner))
           /\ owner \in DOMAIN heap.obj /\ heap.obj[owner].at = at
    BY <1>2, <1>3, <1>4
  <2>. HIDE DEF at
  <2>2. /\ Balanced(Wrap(heap, y, at, owner), Plus(Held, Single(y)), Used)
        /\ Grows(heap, Wrap(heap, y, at, owner))
    BY <1>2, <1>5, <1>6, <2>1, WrapPartBalance
  <2>. QED
    BY <1>3, <2>2
<1>8. Held' = Plus(Held, Single(y)) /\ Used' = Used
  BY <1>2, <1>3, MineTaken DEF Accounts
<1>9. Balance' /\ Keeps(heap, heap')
  BY <1>7, <1>8 DEF Balance, Keeps, Grows
<1>10. HoldersTyped' /\ CtxHeld'
  BY <1>2, <1>3, MineTyped DEF Accounts, HoldersTyped
<1>. QED
  BY <1>3, <1>9, <1>10, ClientStep

LEMMA GetListStep == ASSUME Accounts, NEW x, GetList(x) PROVE ObjectsInv'
  BY GetStep DEF GetList, GetSubkeys, GetUids, GetKeySigs, GetRecipients, GetSignatures,
     GetNotations, GetNewSignatures, GetInvalidSigners, GetInvalidRecipients, Within

LEMMA GetResultStep == ASSUME Accounts, NEW n, GetResult(n) PROVE ObjectsInv'
<1>. DEFINE x == NewObject(Class(n))
            h == RefNatives(heap, Single(n))
<1>1. /\ heap' = Wrap(h, x, n, Nothing) /\ mine' = mine \cup {x} /\ n \in ctx.results
      /\ UNCHANGED <<strays, ctx, op, kept>>
  BY DEF GetResult, HoldResult
<1>2. n \in Of(ResultKinds) /\ n \in DOMAIN heap.native
  BY <1>1, ThereNow DEF Accounts, AllThere, HoldersTyped, CtxTyped
<1>3. Class(n) \in Kinds \ {"nothing"} /\ Class(n) \in Owning
  BY <1>2 DEF Of, ResultKinds, Kinds, Owning
<1>4. x \in (Addr \ {Nothing}) \ DOMAIN heap.obj /\ Class(x) = Class(n) /\ x \notin mine
  BY <1>3, FreshObject
<1>. HIDE DEF x
<1>5. Held \in [Addr -> Nat] /\ Used \in [Addr -> Nat] /\ Balanced(heap, Held, Used)
  BY DEF Accounts, Balance, Balanced, WrappersBalance, NativesBalance
<1>6. IsABag(Single(n)) /\ DOMAIN Single(n) = {n}
  BY CopiesOfSingle
<1>7. /\ Balanced(h, Held, Plus(Used, Single(n))) /\ h.obj = heap.obj
      /\ n \in DOMAIN h.native
  <2>1. DOMAIN Single(n) \subseteq DOMAIN heap.native
    BY <1>2, <1>6
  <2>. QED
    BY <1>2, <1>5, <1>6, <2>1, RefNativesBalance
<1>8. /\ Plus(Used, Single(n)) \in [Addr -> Nat] /\ Covers(Plus(Used, Single(n)), Single(n))
      /\ Minus(Plus(Used, Single(n)), Single(n)) = Used
  BY <1>5, <1>6, LedgerChanges
<1>. HIDE DEF h
<1>9. /\ Balanced(heap', Plus(Held, Single(x)), Used) /\ Grows(h, heap')
  <2>1. x \in (Addr \ {Nothing}) \ DOMAIN h.obj /\ Class(x) \in Owning
    BY <1>3, <1>4, <1>7
  <2>2. Balanced(Wrap(h, x, n, Nothing), Plus(Held, Single(x)),
                 Minus(Plus(Used, Single(n)), Single(n)))
        /\ Grows(h, Wrap(h, x, n, Nothing))
    BY <1>5, <1>7, <1>8, <2>1, WrapOwningBalance
  <2>. QED
    BY <1>1, <1>8, <2>2
<1>10. Held' = Plus(Held, Single(x)) /\ Used' = Used
  BY <1>1, <1>4, MineTaken DEF Accounts
<1>11. Balance' /\ Keeps(heap, heap')
  BY <1>7, <1>9, <1>10 DEF Balance, Keeps, Grows
<1>12. HoldersTyped' /\ CtxHeld'
  BY <1>1, <1>4, MineTyped DEF Accounts, HoldersTyped
<1>. QED
  BY <1>1, <1>11, <1>12, ClientStep

LEMMA DropStep == ASSUME Accounts, NEW x, Drop(x) PROVE ObjectsInv'
<1>1. /\ x \in mine /\ heap' = Unref(heap, x) /\ mine' = mine \ {x}
      /\ UNCHANGED <<strays, ctx, op, kept>>
  BY DEF Drop
<1>2. x \in DOMAIN heap.obj
  BY <1>1, ThereNow DEF Accounts, AllThere
<1>3. Held = Plus(Held', Single(x)) /\ Held' \in [Addr -> Nat] /\ Used' = Used
  BY <1>1, MineDropped DEF Accounts
<1>4. Balanced(heap, Plus(Held', Single(x)), Used)
  BY <1>3 DEF Accounts, Balance
<1>5. Balanced(Unref(heap, x), Held', Used) /\ Shrinks(heap, Unref(heap, x))
  BY <1>2, <1>3, <1>4, UnrefBalance
<1>6. Balance' /\ Keeps(heap, heap')
  BY <1>1, <1>3, <1>5 DEF Balance, Keeps, Shrinks
<1>7. HoldersTyped' /\ CtxHeld'
  BY <1>1, MineTyped DEF Accounts, HoldersTyped
<1>. QED
  BY <1>1, <1>6, <1>7, ClientStep

LEMMA FreeToBytesStep == ASSUME Accounts, NEW x, FreeToBytes(x) PROVE ObjectsInv'
<1>1. /\ x \in mine /\ Class(x) = "data" /\ mine' = mine \ {x} /\ strays' = strays \cup {x}
      /\ heap.obj[x].at # Nothing /\ heap.obj[x].at \notin op.uses
      /\ heap' = [UnrefNatives(heap, Single(heap.obj[x].at)) EXCEPT !.obj[x].at = Nothing]
      /\ UNCHANGED <<ctx, op, kept>>
  BY DEF FreeToBytes, Mine
<1>2. AllThere /\ HoldersTyped /\ Balanced(heap, Held, Used)
  BY ThereNow DEF Accounts, Balance
<1>3. x \in DOMAIN heap.obj /\ x \in Addr
  BY <1>1, <1>2 DEF AllThere, HoldersTyped
<1>4. x \notin strays
  BY <1>1 DEF Accounts, StraysAreEmpty
<1>5. /\ Balanced(heap', Held, Used) /\ DOMAIN heap'.obj = DOMAIN heap.obj
      /\ heap'.obj[x].at = Nothing
      /\ \A y \in DOMAIN heap.obj : y # x => heap'.obj[y].at = heap.obj[y].at
  BY <1>1, <1>2, <1>3, FreeToBytesBalance
<1>6. Held' = Held /\ Used' = Used
  <2>1. /\ Held \in [Addr -> Nat] /\ Held' \in [Addr -> Nat]
        /\ \A y \in Addr :
             /\ Held[y] = One(y \in mine) + One(y \in strays) + Copies(ctx.signers, y)
                          + Copies(op.args, y) + Copies(kept.args, y)
             /\ Held'[y] = One(y \in mine') + One(y \in strays') + Copies(ctx.signers, y)
                           + Copies(op.args, y) + Copies(kept.args, y)
    BY <1>1, <1>2, AreBags, HeldValues DEF Held
  <2>2. \A y \in Addr : One(y \in mine') + One(y \in strays') = One(y \in mine) + One(y \in strays)
    BY <1>1, <1>4 DEF One
  <2>3. \A y \in Addr : Held'[y] = Held[y]
    BY <2>1, <2>2
  <2>. QED
    BY <1>1, <2>1, <2>3, SameLedger DEF Used
<1>7. Balance' /\ HoldersTyped' /\ CtxHeld' /\ Turns' /\ IsHeap(heap)'
  <2>1. Balance' /\ IsHeap(heap)'
    BY <1>5, <1>6 DEF Balance, Balanced
  <2>2. HoldersTyped'
    BY <1>1, <1>2, <1>3 DEF HoldersTyped, CtxTyped, OpTyped, KeptTyped
  <2>3. CtxHeld' /\ Turns'
    BY <1>1 DEF Accounts, CtxHeld, Turns, NoOperation
  <2>. QED
    BY <2>1, <2>2, <2>3
<1>8. StraysAreEmpty'
  <2>. SUFFICES ASSUME NEW y \in strays', Class(y) = "data" PROVE heap'.obj[y].at = Nothing
    BY DEF StraysAreEmpty
  <2>1. CASE y = x
    BY <1>5, <2>1
  <2>2. CASE y # x
    <3>1. y \in strays /\ heap.obj[y].at = Nothing
      BY <1>1, <2>2 DEF Accounts, StraysAreEmpty
    <3>. QED
      BY <1>2, <1>5, <2>2, <3>1 DEF AllThere
  <2>. QED
    BY <2>1, <2>2
<1>9. UsesAreHeld'
  <2>. SUFFICES ASSUME op.phase = "run", NEW u \in op.uses
       PROVE  /\ u # Nothing
              /\ \/ \E y \in DOMAIN op.args : heap'.obj[y].at = u
                 \/ u \in DOMAIN op.keys \cup DOMAIN ctx.gpgme
    BY <1>1 DEF UsesAreHeld
  <2>1. /\ u # Nothing
        /\ \/ \E y \in DOMAIN op.args : heap.obj[y].at = u
           \/ u \in DOMAIN op.keys \cup DOMAIN ctx.gpgme
    BY DEF Accounts, UsesAreHeld
  <2>2. \A y \in DOMAIN op.args : heap.obj[y].at = u => heap'.obj[y].at = u
    BY <1>1, <1>2, <1>5 DEF AllThere
  <2>. QED
    BY <2>1, <2>2
<1>. QED
  BY <1>7, <1>8, <1>9 DEF ObjectsInv, Accounts

---------------------------------------------------------------------------
(* Ledgers, part by part.                                                   *)

LEMMA HeldParts ==
  ASSUME NEW m, NEW s, NEW b1, NEW b2, NEW b3, IsABag(b1), IsABag(b2), IsABag(b3)
  PROVE  /\ HeldBy(m, s, b1, b2, b3) = Plus(HeldBy(m, s, EmptyBag, b2, b3), b1)
         /\ HeldBy(m, s, b1, b2, b3) = Plus(HeldBy(m, s, b1, EmptyBag, b3), b2)
         /\ \A b : IsABag(b) => HeldBy(m, s, b1 (+) b, b2, b3) = Plus(HeldBy(m, s, b1, b2, b3), b)
         /\ \A b : IsABag(b) => HeldBy(m, s, b1, b2, b3 (+) b) = Plus(HeldBy(m, s, b1, b2, b3), b)
<1>1. IsABag(EmptyBag) /\ \A x : Copies(EmptyBag, x) = 0
  BY NoCopies
<1>2. \A x : /\ Copies(b1, x) \in Nat /\ Copies(b2, x) \in Nat /\ Copies(b3, x) \in Nat
             /\ One(x \in m) \in Nat /\ One(x \in s) \in Nat
  BY CopiesAreNat DEF One
<1>3. HeldBy(m, s, b1, b2, b3) = Plus(HeldBy(m, s, EmptyBag, b2, b3), b1)
  BY <1>1, <1>2 DEF HeldBy, Plus
<1>4. HeldBy(m, s, b1, b2, b3) = Plus(HeldBy(m, s, b1, EmptyBag, b3), b2)
  BY <1>1, <1>2 DEF HeldBy, Plus
<1>5. ASSUME NEW b, IsABag(b)
      PROVE  /\ HeldBy(m, s, b1 (+) b, b2, b3) = Plus(HeldBy(m, s, b1, b2, b3), b)
             /\ HeldBy(m, s, b1, b2, b3 (+) b) = Plus(HeldBy(m, s, b1, b2, b3), b)
  <2>1. /\ \A x : Copies(b, x) \in Nat
        /\ \A x : Copies(b1 (+) b, x) = Copies(b1, x) + Copies(b, x)
        /\ \A x : Copies(b3 (+) b, x) = Copies(b3, x) + Copies(b, x)
    BY <1>5, CopiesAreNat, CopiesOfSum
  <2>2. HeldBy(m, s, b1 (+) b, b2, b3) = Plus(HeldBy(m, s, b1, b2, b3), b)
    BY <1>2, <2>1 DEF HeldBy, Plus
  <2>3. HeldBy(m, s, b1, b2, b3 (+) b) = Plus(HeldBy(m, s, b1, b2, b3), b)
    BY <1>2, <2>1 DEF HeldBy, Plus
  <2>. QED
    BY <2>2, <2>3
<1>. QED
  BY <1>3, <1>4, <1>5

LEMMA UsedParts ==
  ASSUME NEW r, NEW b1, NEW b2, NEW b3, IsABag(b1), IsABag(b2), IsABag(b3)
  PROVE  /\ UsedBy(r, b1, b2, b3) = Plus(UsedBy({}, b1, b2, b3), SetToBag(r))
         /\ UsedBy({}, b1, b2, b3) = Plus(UsedBy({}, EmptyBag, b2, b3), b1)
         /\ UsedBy(r, b1, b2, b3) = Plus(UsedBy(r, b1, EmptyBag, b3), b2)
         /\ \A b : IsABag(b) => UsedBy(r, b1 (+) b, b2, b3) = Plus(UsedBy(r, b1, b2, b3), b)
         /\ \A b : IsABag(b) => UsedBy(r, b1, b2, b3 (+) b) = Plus(UsedBy(r, b1, b2, b3), b)
<1>1. IsABag(EmptyBag) /\ \A x : Copies(EmptyBag, x) = 0
  BY NoCopies
<1>2. \A x : /\ Copies(b1, x) \in Nat /\ Copies(b2, x) \in Nat /\ Copies(b3, x) \in Nat
             /\ One(x \in r) \in Nat /\ One(x \in {}) = 0
  BY CopiesAreNat DEF One
<1>3. \A x : Copies(SetToBag(r), x) = One(x \in r)
  BY CopiesOfSet DEF One
<1>4. UsedBy(r, b1, b2, b3) = Plus(UsedBy({}, b1, b2, b3), SetToBag(r))
  BY <1>2, <1>3 DEF UsedBy, Plus
<1>5. UsedBy({}, b1, b2, b3) = Plus(UsedBy({}, EmptyBag, b2, b3), b1)
  BY <1>1, <1>2 DEF UsedBy, Plus
<1>6. UsedBy(r, b1, b2, b3) = Plus(UsedBy(r, b1, EmptyBag, b3), b2)
  BY <1>1, <1>2 DEF UsedBy, Plus
<1>7. ASSUME NEW b, IsABag(b)
      PROVE  /\ UsedBy(r, b1 (+) b, b2, b3) = Plus(UsedBy(r, b1, b2, b3), b)
             /\ UsedBy(r, b1, b2, b3 (+) b) = Plus(UsedBy(r, b1, b2, b3), b)
  <2>1. /\ \A x : Copies(b, x) \in Nat
        /\ \A x : Copies(b1 (+) b, x) = Copies(b1, x) + Copies(b, x)
        /\ \A x : Copies(b3 (+) b, x) = Copies(b3, x) + Copies(b, x)
    BY <1>7, CopiesAreNat, CopiesOfSum
  <2>2. UsedBy(r, b1 (+) b, b2, b3) = Plus(UsedBy(r, b1, b2, b3), b)
    BY <1>2, <2>1 DEF UsedBy, Plus
  <2>3. UsedBy(r, b1, b2, b3 (+) b) = Plus(UsedBy(r, b1, b2, b3), b)
    BY <1>2, <2>1 DEF UsedBy, Plus
  <2>. QED
    BY <2>2, <2>3
<1>. QED
  BY <1>4, <1>5, <1>6, <1>7

---------------------------------------------------------------------------
(* The context's steps.                                                     *)

CtxForm(c) ==
  /\ c = [refs |-> c.refs, mine |-> c.mine, signers |-> c.signers,
          gpgme |-> c.gpgme, results |-> c.results]
  /\ c.refs \in Nat /\ c.mine \in BOOLEAN /\ c.results \subseteq Of(ResultKinds)
  /\ BagOn(c.signers, Of({"key"})) /\ BagOn(c.gpgme, Addr)

\* What the context holds, on top of other holders.
CtxBalance(h, c, E, N) ==
  Balanced(h, Plus(E, c.signers), Plus(Plus(N, c.gpgme), SetToBag(c.results)))

\* What it drops is let go of.
LEMMA UnrefCtxBalance ==
  ASSUME NEW h, NEW c, NEW n \in Nat, NEW E \in [Addr -> Nat], NEW N \in [Addr -> Nat],
         CtxForm(c), CtxBalance(h, c, E, N), UnrefCtx(h, c, n)
  PROVE  /\ CtxBalance(heap', ctx', E, N) /\ Shrinks(h, heap')
         /\ CtxForm(ctx') /\ ctx'.mine = c.mine
         /\ ctx'.refs = IF c.refs > n THEN c.refs - n ELSE 0
         /\ c.refs > n => ctx'.gpgme = c.gpgme /\ ctx'.results = c.results
<1>1. CASE c.refs > n
  <2>1. heap' = h /\ ctx' = [c EXCEPT !.refs = @ - n]
    BY <1>1 DEF UnrefCtx
  <2>2. /\ ctx'.refs = c.refs - n /\ ctx'.mine = c.mine /\ ctx'.signers = c.signers
        /\ ctx'.gpgme = c.gpgme /\ ctx'.results = c.results
    BY <2>1 DEF CtxForm
  <2>3. CtxForm(ctx')
    BY <1>1, <2>1 DEF CtxForm
  <2>. QED
    BY <1>1, <2>1, <2>2, <2>3 DEF CtxBalance, Shrinks
<1>2. CASE ~(c.refs > n)
  <2>1. /\ heap' = FinalizeCtx(h, c)
        /\ ctx' = [c EXCEPT !.refs = 0, !.signers = EmptyBag, !.gpgme = EmptyBag, !.results = {}]
    BY <1>2 DEF UnrefCtx
  <2>2. /\ ctx'.refs = 0 /\ ctx'.mine = c.mine /\ ctx'.signers = EmptyBag
        /\ ctx'.gpgme = EmptyBag /\ ctx'.results = {}
    BY <2>1 DEF CtxForm
  <2>3. CtxForm(ctx')
    <3>1. ctx' = [refs |-> ctx'.refs, mine |-> ctx'.mine, signers |-> ctx'.signers,
                  gpgme |-> ctx'.gpgme, results |-> ctx'.results]
      BY <2>1 DEF CtxForm
    <3>. QED
      BY <2>2, <3>1, NoCopies DEF CtxForm, BagOn
  <2>. DEFINE b == SetToBag(c.results) (+) c.gpgme
              k == UnrefNatives(h, b)
              F == Plus(E, c.signers)
              M == Plus(Plus(N, c.gpgme), SetToBag(c.results))
  <2>4. /\ IsABag(c.signers) /\ IsABag(c.gpgme) /\ IsABag(SetToBag(c.results))
        /\ IsABag(b) /\ \A x : Copies(b, x) = Copies(SetToBag(c.results), x) + Copies(c.gpgme, x)
        /\ \A x \in DOMAIN c.signers : Class(x) \in Owning
    BY CopiesOfSet, CopiesOfSum DEF CtxForm, BagOn, Of, Owning
  <2>5. \A x : Copies(SetToBag(c.results), x) \in Nat /\ Copies(c.gpgme, x) \in Nat
    BY <2>4, CopiesAreNat
  <2>. HIDE DEF b
  <2>6. F \in [Addr -> Nat] /\ Covers(F, c.signers) /\ Minus(F, c.signers) = E
    BY <2>4, LedgerChanges
  <2>7. Covers(M, b) /\ Minus(M, b) = N
    <3>1. \A x \in Addr : M[x] = N[x] + Copies(b, x)
      BY <2>4, <2>5 DEF Plus
    <3>2. \A x \in Addr : Copies(b, x) \in Nat /\ N[x] \in Nat
      BY <2>4, <2>5
    <3>3. Covers(M, b)
      BY <3>1, <3>2 DEF Covers
    <3>4. \A x \in Addr : Minus(M, b)[x] = N[x]
      BY <3>1, <3>2 DEF Minus
    <3>5. DOMAIN Minus(M, b) = Addr /\ Minus(M, b) = [x \in Addr |-> Minus(M, b)[x]]
      BY DEF Minus
    <3>. QED
      BY <3>3, <3>4, <3>5
  <2>8. Balanced(h, F, M)
    BY DEF CtxBalance
  <2>. HIDE DEF F, M
  <2>9. Balanced(k, F, N) /\ k.obj = h.obj
    BY <2>4, <2>7, <2>8, UnrefNativesBalance
  <2>. HIDE DEF k
  <2>10. Balanced(UnrefEach(k, c.signers), E, N) /\ Shrinks(k, UnrefEach(k, c.signers))
    BY <2>4, <2>6, <2>9, UnrefOwningBalance
  <2>11. heap' = UnrefEach(k, c.signers)
    BY <2>1 DEF FinalizeCtx, k, b
  <2>12. CtxBalance(heap', ctx', E, N)
    <3>1. \A x : Copies(EmptyBag, x) = 0 /\ Copies(SetToBag({}), x) = 0
      BY NoCopies DEF EmptyBag
    <3>2. Plus(E, EmptyBag) = E /\ Plus(Plus(N, EmptyBag), SetToBag({})) = N
      BY <3>1 DEF Plus
    <3>. QED
      BY <2>2, <2>10, <2>11, <3>2 DEF CtxBalance
  <2>. QED
    BY <1>2, <2>2, <2>3, <2>9, <2>10, <2>11, <2>12 DEF Shrinks
<1>. QED
  BY <1>1, <1>2

\* What the others hold, and with what the context holds the whole.
LEMMA CtxShare ==
  ASSUME NEW h, NEW c, NEW m, NEW s, NEW b2, NEW b3, NEW k2, NEW k3,
         IsABag(b2), IsABag(b3), IsABag(k2), IsABag(k3), CtxForm(c)
  PROVE  /\ HeldBy(m, s, EmptyBag, b2, b3) \in [Addr -> Nat]
         /\ UsedBy({}, EmptyBag, k2, k3) \in [Addr -> Nat]
         /\ CtxBalance(h, c, HeldBy(m, s, EmptyBag, b2, b3), UsedBy({}, EmptyBag, k2, k3))
            <=> Balanced(h, HeldBy(m, s, c.signers, b2, b3), UsedBy(c.results, c.gpgme, k2, k3))
<1>1. IsABag(c.signers) /\ IsABag(c.gpgme) /\ IsABag(EmptyBag)
  BY NoCopies DEF CtxForm, BagOn
<1>2. /\ HeldBy(m, s, EmptyBag, b2, b3) \in [Addr -> Nat]
      /\ UsedBy({}, EmptyBag, k2, k3) \in [Addr -> Nat]
  BY <1>1, HeldValues, UsedValues
<1>3. HeldBy(m, s, c.signers, b2, b3) = Plus(HeldBy(m, s, EmptyBag, b2, b3), c.signers)
  BY <1>1, HeldParts
<1>4. UsedBy(c.results, c.gpgme, k2, k3)
        = Plus(Plus(UsedBy({}, EmptyBag, k2, k3), c.gpgme), SetToBag(c.results))
  BY <1>1, UsedParts
<1>. QED
  BY <1>2, <1>3, <1>4 DEF CtxBalance

LEMMA CtxLeft ==
  ASSUME NEW c, CtxForm(c), NEW v, v \in BOOLEAN
  PROVE  LET d == [c EXCEPT !.mine = v] IN
         /\ CtxForm(d) /\ d.signers = c.signers /\ d.gpgme = c.gpgme
         /\ d.results = c.results /\ d.refs = c.refs /\ d.mine = v
<1>. DEFINE d == [c EXCEPT !.mine = v]
<1>1. PICK r, m, s, g, u : c = [refs |-> r, mine |-> m, signers |-> s, gpgme |-> g, results |-> u]
  BY DEF CtxForm
<1>2. d = [refs |-> r, mine |-> v, signers |-> s, gpgme |-> g, results |-> u]
  BY <1>1
<1>. HIDE DEF d
<1>3. /\ d.signers = c.signers /\ d.gpgme = c.gpgme
      /\ d.results = c.results /\ d.refs = c.refs /\ d.mine = v
  BY <1>1, <1>2
<1>4. CtxForm(d)
  BY <1>1, <1>2, <1>3 DEF CtxForm
<1>. QED
  BY <1>3, <1>4 DEF d

LEMMA DropCtxStep == ASSUME Accounts, DropCtx PROVE ObjectsInv'
<1>. DEFINE c == [ctx EXCEPT !.mine = FALSE]
            E == HeldBy(mine, strays, EmptyBag, op.args, kept.args)
            N == UsedBy({}, EmptyBag, op.keys, kept.keys)
<1>1. /\ ctx.mine /\ UnrefCtx(heap, c, 1) /\ UNCHANGED <<mine, strays, op, kept>>
  BY DEF DropCtx, HasCtx
<1>2. /\ Balanced(heap, Held, Used) /\ HoldersTyped /\ CtxHeld
  BY DEF Accounts, Balance
<1>3. IsABag(op.args) /\ IsABag(op.keys) /\ IsABag(kept.args) /\ IsABag(kept.keys)
  BY <1>2, AreBags
<1>4. /\ CtxForm(c) /\ c.signers = ctx.signers /\ c.gpgme = ctx.gpgme
      /\ c.results = ctx.results /\ c.refs = ctx.refs /\ c.mine = FALSE
  <2>1. /\ ctx = [refs |-> ctx.refs, mine |-> ctx.mine, signers |-> ctx.signers,
                  gpgme |-> ctx.gpgme, results |-> ctx.results]
        /\ CtxForm(ctx)
    BY <1>2 DEF HoldersTyped, CtxTyped, CtxForm
  <2>. QED
    BY <2>1, CtxLeft
<1>. HIDE DEF c
<1>5. CtxBalance(heap, c, E, N) /\ E \in [Addr -> Nat] /\ N \in [Addr -> Nat]
  BY <1>2, <1>3, <1>4, CtxShare DEF Held, Used
<1>6. /\ CtxBalance(heap', ctx', E, N) /\ Shrinks(heap, heap')
      /\ CtxForm(ctx') /\ ctx'.mine = FALSE
      /\ ctx'.refs = IF ctx.refs > 1 THEN ctx.refs - 1 ELSE 0
      /\ ctx.refs > 1 => ctx'.gpgme = ctx.gpgme /\ ctx'.results = ctx.results
  <2>. HIDE DEF E, N
  <2>1. 1 \in Nat
    OBVIOUS
  <2>. QED
    BY <1>1, <1>4, <1>5, <2>1, UnrefCtxBalance
<1>7. Balanced(heap', Held', Used')
  BY <1>1, <1>3, <1>6, CtxShare DEF Held, Used
<1>8. HoldersTyped'
  BY <1>1, <1>2, <1>6 DEF HoldersTyped, CtxForm, CtxTyped, OpTyped, KeptTyped
<1>9. kept.ctx \in Nat /\ ctx.refs = 1 + 2 * One(op.phase # "idle") + 2 * kept.ctx
  BY <1>1, <1>2 DEF CtxHeld, One, HoldersTyped, KeptTyped
<1>10. CtxHeld' /\ (op.phase = "run" => ctx.refs > 1)
  BY <1>1, <1>6, <1>9 DEF CtxHeld, One
<1>. QED
  BY <1>1, <1>6, <1>7, <1>8, <1>10, KeepsWhat, ClientStep DEF Balance

LEMMA KeysPoint ==
  ASSUME NEW h, IsHeap(h), NEW x \in DOMAIN h.obj
  PROVE  /\ Class(x) = "key" => h.obj[x].at \in DOMAIN h.native
         /\ Class(x) = "data" /\ h.obj[x].at # Nothing => h.obj[x].at \in DOMAIN h.native
<1>1. Placed(h, x)
  BY DEF IsHeap
<1>. QED
  BY <1>1 DEF Placed, Within

SignersSet(c, d, s, g) == d = [c EXCEPT !.signers = s, !.gpgme = g]

LEMMA SignersChange ==
  ASSUME NEW c, CtxForm(c), NEW s, BagOn(s, Of({"key"})), NEW g, BagOn(g, Addr),
         NEW d, SignersSet(c, d, s, g)
  PROVE  /\ CtxForm(d) /\ d.signers = s /\ d.gpgme = g
         /\ d.results = c.results /\ d.refs = c.refs /\ d.mine = c.mine
<1>1. PICK r, m, s1, g1, u :
        /\ m \in BOOLEAN
        /\ c = [refs |-> r, mine |-> m, signers |-> s1, gpgme |-> g1, results |-> u]
  BY DEF CtxForm
<1>2. d = [refs |-> r, mine |-> m, signers |-> s, gpgme |-> g, results |-> u]
  BY <1>1 DEF SignersSet
<1>3. /\ d.signers = s /\ d.gpgme = g /\ d.results = c.results /\ d.refs = c.refs
      /\ d.mine = c.mine
  BY <1>1, <1>2
<1>4. CtxForm(d)
  BY <1>1, <1>2, <1>3 DEF CtxForm
<1>. QED
  BY <1>3, <1>4

LEMMA AddSignerStep == ASSUME Accounts, NEW x, AddSigner(x) PROVE ObjectsInv'
<1>. DEFINE at == heap.obj[x].at
            h == RefEach(heap, Single(x))
            s == ctx.signers (+) Single(x)
            g == ctx.gpgme (+) Single(at)
<1>1. /\ x \in mine /\ Class(x) = "key" /\ heap' = RefNatives(h, Single(at))
      /\ ctx' = [ctx EXCEPT !.signers = s, !.gpgme = g]
      /\ UNCHANGED <<mine, strays, op, kept>>
  BY DEF AddSigner, Mine
<1>2. /\ Balanced(heap, Held, Used) /\ HoldersTyped /\ CtxHeld /\ AllThere /\ CtxForm(ctx)
  BY ThereNow DEF Accounts, Balance, HoldersTyped, CtxTyped, CtxForm
<1>3. x \in DOMAIN heap.obj /\ x \in Addr /\ at \in DOMAIN heap.native /\ at \in Addr
  BY <1>1, <1>2, KeysPoint DEF Balanced, IsHeap, IsTable, AllThere
<1>4. /\ IsABag(ctx.signers) /\ IsABag(ctx.gpgme) /\ IsABag(op.args) /\ IsABag(op.keys)
      /\ IsABag(kept.args) /\ IsABag(kept.keys)
  BY <1>2, AreBags
<1>5. /\ IsABag(Single(x)) /\ DOMAIN Single(x) = {x}
      /\ IsABag(Single(at)) /\ DOMAIN Single(at) = {at}
  BY CopiesOfSingle
<1>6. /\ IsABag(s) /\ DOMAIN s = DOMAIN ctx.signers \cup {x}
      /\ IsABag(g) /\ DOMAIN g = DOMAIN ctx.gpgme \cup {at}
  BY <1>4, <1>5, CopiesOfSum
<1>7. BagOn(s, Of({"key"})) /\ BagOn(g, Addr)
  BY <1>1, <1>2, <1>3, <1>6 DEF CtxForm, BagOn, Of
<1>. HIDE DEF at, s, g
<1>8. /\ CtxForm(ctx') /\ ctx'.signers = s /\ ctx'.gpgme = g
      /\ ctx'.results = ctx.results /\ ctx'.refs = ctx.refs /\ ctx'.mine = ctx.mine
  <2>1. SignersSet(ctx, ctx', s, g)
    BY <1>1 DEF SignersSet
  <2>. QED
    BY <1>2, <1>7, <2>1, SignersChange
<1>9. /\ Balanced(h, Plus(Held, Single(x)), Used) /\ h.native = heap.native
      /\ DOMAIN h.obj = DOMAIN heap.obj
      /\ \A y \in DOMAIN heap.obj : h.obj[y].at = heap.obj[y].at
  <2>1. DOMAIN Single(x) \subseteq DOMAIN heap.obj
    BY <1>3, <1>5
  <2>. QED
    BY <1>2, <1>5, <2>1, RefEachBalance
<1>. HIDE DEF h
<1>10. /\ Balanced(heap', Plus(Held, Single(x)), Plus(Used, Single(at))) /\ heap'.obj = h.obj
  <2>1. DOMAIN Single(at) \subseteq DOMAIN h.native
    BY <1>3, <1>5, <1>9
  <2>. QED
    BY <1>1, <1>5, <1>9, <2>1, RefNativesBalance
<1>11. Held' = Plus(Held, Single(x)) /\ Used' = Plus(Used, Single(at))
  BY <1>1, <1>4, <1>5, <1>8, HeldParts, UsedParts DEF Held, Used, s, g
<1>12. Balance' /\ Keeps(heap, heap')
  BY <1>9, <1>10, <1>11 DEF Balance, Keeps
<1>13. HoldersTyped' /\ CtxHeld'
  <2>1. HoldersTyped'
    BY <1>1, <1>2, <1>8 DEF HoldersTyped, CtxForm, CtxTyped, OpTyped, KeptTyped
  <2>. QED
    BY <1>1, <1>2, <1>8, <2>1 DEF CtxHeld
<1>. QED
  BY <1>1, <1>6, <1>8, <1>12, <1>13, ClientStep

LEMMA ClearSignersStep == ASSUME Accounts, ClearSigners PROVE ObjectsInv'
<1>1. /\ heap' = UnrefEach(heap, ctx.signers)
      /\ ctx' = [ctx EXCEPT !.signers = EmptyBag]
      /\ UNCHANGED <<mine, strays, op, kept>>
  BY DEF ClearSigners
<1>2. /\ Balanced(heap, Held, Used) /\ HoldersTyped /\ CtxHeld /\ CtxForm(ctx)
  BY DEF Accounts, Balance, HoldersTyped, CtxTyped, CtxForm
<1>3. /\ IsABag(ctx.signers) /\ IsABag(ctx.gpgme) /\ IsABag(op.args) /\ IsABag(op.keys)
      /\ IsABag(kept.args) /\ IsABag(kept.keys)
  BY <1>2, AreBags
<1>4. /\ CtxForm(ctx') /\ ctx'.signers = EmptyBag /\ ctx'.gpgme = ctx.gpgme
      /\ ctx'.results = ctx.results /\ ctx'.refs = ctx.refs /\ ctx'.mine = ctx.mine
  <2>1. SignersSet(ctx, ctx', EmptyBag, ctx.gpgme)
    BY <1>1, <1>2 DEF CtxForm, SignersSet
  <2>2. BagOn(EmptyBag, Of({"key"})) /\ BagOn(ctx.gpgme, Addr)
    BY <1>2, NoCopies DEF CtxForm, BagOn
  <2>. QED
    BY <1>2, <2>1, <2>2, SignersChange
<1>5. /\ Held = Plus(Held', ctx.signers) /\ Held' \in [Addr -> Nat] /\ Used' = Used
  <2>1. IsABag(EmptyBag)
    BY NoCopies
  <2>. QED
    BY <1>1, <1>3, <1>4, <2>1, HeldParts, HeldValues DEF Held, Used
<1>6. Covers(Held, ctx.signers) /\ Minus(Held, ctx.signers) = Held'
  BY <1>3, <1>5, LedgerChanges
<1>7. \A x \in DOMAIN ctx.signers : Class(x) \in Owning
  BY <1>2 DEF CtxForm, BagOn, Of, Owning
<1>8. Balanced(heap', Held', Used') /\ Shrinks(heap, heap')
  <2>1. /\ Balanced(UnrefEach(heap, ctx.signers), Minus(Held, ctx.signers), Used)
        /\ Shrinks(heap, UnrefEach(heap, ctx.signers))
    BY <1>2, <1>3, <1>6, <1>7, UnrefOwningBalance
  <2>. QED
    BY <1>1, <1>5, <1>6, <2>1
<1>9. HoldersTyped' /\ CtxHeld'
  <2>1. HoldersTyped'
    BY <1>1, <1>2, <1>4 DEF HoldersTyped, CtxForm, CtxTyped, OpTyped, KeptTyped
  <2>. QED
    BY <1>1, <1>2, <1>4, <2>1 DEF CtxHeld
<1>. QED
  BY <1>1, <1>4, <1>8, <1>9, KeepsWhat, ClientStep DEF Balance

---------------------------------------------------------------------------
(* Operations.                                                              *)

\* What an operation is started with.
Given(args, natives, uses, gives) ==
  /\ BagOn(args, Mine("key") \cup Mine("data")) /\ IsABag(natives)
  /\ \A n \in DOMAIN natives : \E x \in Mine("key") : heap.obj[x].at = n
  /\ gives \subseteq ResultKinds \cup {"key"}
  /\ \A u \in uses :
       /\ u # Nothing
       /\ \/ \E x \in DOMAIN args : heap.obj[x].at = u
          \/ u \in DOMAIN natives \cup DOMAIN ctx.gpgme

ResultsDropped(c, d) == d = [c EXCEPT !.refs = @ + 2, !.results = {}]

LEMMA CtxTaken ==
  ASSUME NEW c, CtxForm(c), NEW d, ResultsDropped(c, d)
  PROVE  /\ CtxForm(d) /\ d.signers = c.signers /\ d.gpgme = c.gpgme
         /\ d.results = {} /\ d.refs = c.refs + 2 /\ d.mine = c.mine
<1>1. PICK r, m, s, g, u :
        /\ m \in BOOLEAN /\ r \in Nat
        /\ c = [refs |-> r, mine |-> m, signers |-> s, gpgme |-> g, results |-> u]
  BY DEF CtxForm
<1>2. d = [refs |-> r + 2, mine |-> m, signers |-> s, gpgme |-> g, results |-> {}]
  BY <1>1 DEF ResultsDropped
<1>3. /\ d.signers = c.signers /\ d.gpgme = c.gpgme /\ d.results = {}
      /\ d.refs = c.refs + 2 /\ d.mine = c.mine
  BY <1>1, <1>2
<1>4. CtxForm(d)
  BY <1>1, <1>2, <1>3 DEF CtxForm
<1>. QED
  BY <1>3, <1>4

\* The heap at the start: the last results go, the arguments are referenced.
LEMMA StartBalance ==
  ASSUME Accounts, NEW args, NEW natives, NEW uses, NEW gives, Given(args, natives, uses, gives)
  PROVE  LET k == RefNatives(RefEach(ReleaseResults(heap), args), natives) IN
         /\ Balanced(k, Plus(Held, args),
                     Plus(UsedBy({}, ctx.gpgme, op.keys, kept.keys), natives))
         /\ DOMAIN k.obj = DOMAIN heap.obj
         /\ \A x \in DOMAIN heap.obj : k.obj[x].at = heap.obj[x].at
<1>. DEFINE h == ReleaseResults(heap)
            g == RefEach(h, args)
            k == RefNatives(g, natives)
            U == UsedBy({}, ctx.gpgme, op.keys, kept.keys)
            b == SetToBag(ctx.results)
<1>1. /\ Balanced(heap, Held, Used) /\ HoldersTyped /\ AllThere
  BY ThereNow DEF Accounts, Balance
<1>2. IsABag(ctx.gpgme) /\ IsABag(op.keys) /\ IsABag(kept.keys) /\ IsABag(b)
  BY <1>1, AreBags, CopiesOfSet
<1>3. Used = Plus(U, b) /\ U \in [Addr -> Nat]
  BY <1>2, UsedParts, UsedValues DEF Used
<1>4. Covers(Used, b) /\ Minus(Used, b) = U
  BY <1>2, <1>3, LedgerChanges
<1>. HIDE DEF U, b
<1>5. Balanced(h, Held, U) /\ h.obj = heap.obj
  BY <1>1, <1>2, <1>4, UnrefNativesBalance DEF ReleaseResults, b
<1>. HIDE DEF h
<1>6. IsABag(args) /\ DOMAIN args \subseteq DOMAIN h.obj
  BY <1>1, <1>5 DEF Given, BagOn, Mine, AllThere
<1>7. /\ Balanced(g, Plus(Held, args), U) /\ g.native = h.native /\ DOMAIN g.obj = DOMAIN h.obj
      /\ \A x \in DOMAIN h.obj : g.obj[x].at = h.obj[x].at
  BY <1>5, <1>6, RefEachBalance
<1>8. IsABag(natives) /\ DOMAIN natives \subseteq DOMAIN g.native
  <2>1. ASSUME NEW n \in DOMAIN natives PROVE n \in DOMAIN h.native
    <3>1. PICK x \in Mine("key") : heap.obj[x].at = n
      BY <2>1 DEF Given
    <3>2. x \in DOMAIN h.obj /\ Class(x) = "key" /\ h.obj[x].at = n
      BY <1>1, <1>5, <3>1 DEF Mine, AllThere
    <3>. QED
      BY <1>5, <3>2, KeysPoint DEF Balanced
  <2>. QED
    BY <1>7, <2>1 DEF Given
<1>. HIDE DEF g
<1>9. Balanced(k, Plus(Held, args), Plus(U, natives)) /\ k.obj = g.obj
  BY <1>7, <1>8, RefNativesBalance
<1>. QED
  BY <1>5, <1>7, <1>9 DEF U, g, h

LEMMA StartStep ==
  ASSUME Accounts, NEW args, NEW natives, NEW uses, NEW gives, Given(args, natives, uses, gives),
         Start(args, natives, uses, gives)
  PROVE  ObjectsInv'
<1>. DEFINE U == UsedBy({}, ctx.gpgme, op.keys, kept.keys)
<1>1. /\ op.phase = "idle" /\ UNCHANGED <<mine, strays>>
      /\ heap' = RefNatives(RefEach(ReleaseResults(heap), args), natives)
      /\ ctx' = [ctx EXCEPT !.refs = @ + 2, !.results = {}]
      /\ \/ /\ op' = [phase |-> "run", args |-> args, keys |-> natives, uses |-> uses,
                      gives |-> gives]
            /\ kept' = kept
         \/ /\ kept' = [args |-> kept.args (+) args, keys |-> kept.keys (+) natives,
                        ctx |-> kept.ctx + 1]
            /\ op' = op
  BY DEF Start
<1>2. /\ HoldersTyped /\ CtxHeld /\ CtxForm(ctx) /\ op = NoOperation
  BY <1>1 DEF Accounts, Turns, HoldersTyped, CtxTyped, CtxForm
<1>3. /\ IsABag(ctx.signers) /\ IsABag(ctx.gpgme) /\ IsABag(op.args) /\ IsABag(op.keys)
      /\ IsABag(kept.args) /\ IsABag(kept.keys) /\ IsABag(args) /\ IsABag(natives)
  BY <1>2, AreBags DEF Given, BagOn
<1>4. /\ Balanced(heap', Plus(Held, args), Plus(U, natives))
      /\ DOMAIN heap'.obj = DOMAIN heap.obj
      /\ \A x \in DOMAIN heap.obj : heap'.obj[x].at = heap.obj[x].at
  BY <1>1, StartBalance
<1>5. /\ CtxForm(ctx') /\ ctx'.signers = ctx.signers /\ ctx'.gpgme = ctx.gpgme
      /\ ctx'.results = {} /\ ctx'.refs = ctx.refs + 2 /\ ctx'.mine = ctx.mine
  <2>1. ResultsDropped(ctx, ctx')
    BY <1>1 DEF ResultsDropped
  <2>. QED
    BY <1>2, <2>1, CtxTaken
<1>6. op.args = EmptyBag /\ op.keys = EmptyBag /\ op.phase = "idle"
  BY <1>2 DEF NoOperation
<1>7. /\ DOMAIN args \subseteq mine /\ DOMAIN args \subseteq Of({"key", "data"})
      /\ DOMAIN natives \subseteq Addr
  <2>1. Mine("key") \cup Mine("data") \subseteq Of({"key", "data"})
    BY <1>2 DEF Mine, Of, HoldersTyped
  <2>2. ASSUME NEW n \in DOMAIN natives PROVE n \in Addr
    <3>1. PICK x \in mine : heap.obj[x].at = n
      BY <2>2 DEF Given, Mine
    <3>2. x \in DOMAIN heap.obj
      BY <3>1, ThereNow DEF Accounts, AllThere
    <3>. QED
      BY <3>1, <3>2 DEF Accounts, Balance, Balanced, IsHeap, Wrapper
  <2>. QED
    BY <2>1, <2>2 DEF Given, BagOn, Mine
<1>8. Held' = Plus(Held, args) /\ Used' = Plus(U, natives) /\ OpTyped' /\ KeptTyped' /\ CtxHeld'
  <2>1. CASE /\ op' = [phase |-> "run", args |-> args, keys |-> natives, uses |-> uses,
                       gives |-> gives]
             /\ kept' = kept
    <3>1. op'.args = args /\ op'.keys = natives /\ op'.phase = "run" /\ op'.gives = gives
      BY <2>1
    <3>2. Held' = Plus(Held, args)
      BY <1>1, <1>3, <1>5, <1>6, <2>1, <3>1, HeldParts DEF Held
    <3>3. Used' = Plus(U, natives)
      BY <1>1, <1>3, <1>5, <1>6, <2>1, <3>1, UsedParts DEF Used
    <3>4. OpTyped'
      BY <1>3, <1>7, <2>1, <3>1 DEF OpTyped, BagOn, Given
    <3>5. KeptTyped'
      BY <1>2, <2>1 DEF HoldersTyped, KeptTyped
    <3>6. CtxHeld'
      <4>1. One(op'.phase # "idle") = 1 /\ One(op.phase # "idle") = 0
        BY <1>6, <3>1 DEF One
      <4>2. One(ctx.mine) \in Nat /\ kept.ctx \in Nat
        BY <1>2 DEF One, HoldersTyped, KeptTyped
      <4>. QED
        BY <1>2, <1>5, <2>1, <4>1, <4>2 DEF CtxHeld
    <3>. QED
      BY <3>2, <3>3, <3>4, <3>5, <3>6
  <2>2. CASE /\ kept' = [args |-> kept.args (+) args, keys |-> kept.keys (+) natives,
                         ctx |-> kept.ctx + 1]
             /\ op' = op
    <3>1. /\ kept'.args = kept.args (+) args /\ kept'.keys = kept.keys (+) natives
          /\ kept'.ctx = kept.ctx + 1
      BY <2>2
    <3>2. Held' = Plus(Held, args)
      BY <1>1, <1>3, <1>5, <2>2, <3>1, HeldParts DEF Held
    <3>3. Used' = Plus(U, natives)
      BY <1>1, <1>3, <1>5, <2>2, <3>1, UsedParts DEF Used
    <3>4. OpTyped'
      BY <1>2, <2>2 DEF HoldersTyped, OpTyped
    <3>5. KeptTyped'
      <4>1. /\ IsABag(kept'.args) /\ DOMAIN kept'.args = DOMAIN kept.args \cup DOMAIN args
            /\ IsABag(kept'.keys) /\ DOMAIN kept'.keys = DOMAIN kept.keys \cup DOMAIN natives
        BY <1>3, <3>1, CopiesOfSum
      <4>2. DOMAIN args \subseteq Addr
        BY <1>7 DEF Of
      <4>3. kept.ctx \in Nat /\ DOMAIN kept.args \subseteq Addr /\ DOMAIN kept.keys \subseteq Addr
        BY <1>2 DEF HoldersTyped, KeptTyped, BagOn
      <4>4. kept' = [args |-> kept'.args, keys |-> kept'.keys, ctx |-> kept'.ctx]
        BY <2>2
      <4>. QED
        BY <1>7, <3>1, <4>1, <4>2, <4>3, <4>4 DEF KeptTyped, BagOn
    <3>6. CtxHeld'
      <4>1. One(op.phase # "idle") = 0
        BY <1>6 DEF One
      <4>2. One(ctx.mine) \in Nat /\ kept.ctx \in Nat
        BY <1>2 DEF One, HoldersTyped, KeptTyped
      <4>. QED
        BY <1>2, <1>5, <2>2, <3>1, <4>1, <4>2 DEF CtxHeld
    <3>. QED
      BY <3>2, <3>3, <3>4, <3>5, <3>6
  <2>. QED
    BY <1>1, <2>1, <2>2
<1>9. Balance' /\ IsHeap(heap)' /\ Keeps(heap, heap')
  BY <1>4, <1>8 DEF Balance, Balanced, Keeps
<1>10. HoldersTyped'
  BY <1>1, <1>2, <1>5, <1>8 DEF HoldersTyped, CtxForm, CtxTyped
<1>11. StraysAreEmpty'
  BY <1>1, <1>9, <1>10, StraysStay
<1>12. Turns' /\ UsesAreHeld'
  <2>1. CASE op' = [phase |-> "run", args |-> args, keys |-> natives, uses |-> uses,
                    gives |-> gives]
    <3>1. /\ op'.args = args /\ op'.keys = natives /\ op'.phase = "run" /\ op'.uses = uses
      BY <2>1
    <3>2. \A x \in DOMAIN args : heap'.obj[x].at = heap.obj[x].at
      BY <1>4, <1>7, ThereNow DEF Accounts, AllThere
    <3>3. UsesAreHeld'
      BY <1>5, <3>1, <3>2 DEF UsesAreHeld, Given
    <3>. QED
      BY <1>5, <3>1, <3>3 DEF Turns
  <2>2. CASE op' = op
    BY <1>2, <1>6, <2>2 DEF Turns, UsesAreHeld, NoOperation
  <2>. QED
    BY <1>1, <2>1, <2>2
<1>. QED
  BY <1>8, <1>9, <1>10, <1>11, <1>12 DEF ObjectsInv, Accounts

\* What the client may pass.
Passable == Mine("key") \cup Buffers

LEMMA GivenWrappers ==
  ASSUME Accounts, NEW args, IsABag(args), DOMAIN args \subseteq Passable,
         NEW K, K \subseteq Mine("key"), NEW natives,
         natives = Natives(heap, K) \/ (K = {} /\ natives = EmptyBag),
         NEW uses, uses \subseteq At(DOMAIN args \cup K) \cup DOMAIN ctx.gpgme,
         NEW gives, gives \subseteq ResultKinds \cup {"key"}
  PROVE  Given(args, natives, uses, gives)
<1>1. /\ IsHeap(heap) /\ AllThere
  BY ThereNow DEF Accounts, Balance, Balanced
<1>2. BagOn(args, Mine("key") \cup Mine("data"))
  BY DEF BagOn, Passable, Buffers
<1>3. K \subseteq DOMAIN heap.obj
  BY <1>1 DEF AllThere, Mine
<1>4. IsABag(natives) /\ DOMAIN natives = At(K)
  <2>1. CASE natives = Natives(heap, K)
    <3>1. K \in SUBSET DOMAIN heap.obj
      BY <1>3
    <3>. QED
      BY <1>1, <2>1, <3>1, NativesOf DEF At
  <2>2. CASE K = {} /\ natives = EmptyBag
    BY <2>2, NoCopies DEF At
  <2>. QED
    BY <2>1, <2>2
<1>5. \A n \in DOMAIN natives : \E x \in Mine("key") : heap.obj[x].at = n
  BY <1>4 DEF At
<1>6. ASSUME NEW u \in uses
      PROVE  /\ u # Nothing
             /\ \/ \E x \in DOMAIN args : heap.obj[x].at = u
                \/ u \in DOMAIN natives \cup DOMAIN ctx.gpgme
  <2>1. CASE u \in DOMAIN ctx.gpgme
    BY <1>1, <2>1 DEF AllThere, IsHeap, IsTable
  <2>2. CASE u \notin DOMAIN ctx.gpgme
    <3>1. PICK x \in DOMAIN args \cup K : u = heap.obj[x].at
      BY <2>2 DEF At
    <3>2. x \in Mine("key") \cup Buffers /\ x \in DOMAIN heap.obj
      BY <1>1, <3>1 DEF Passable, Buffers, Mine, AllThere
    <3>3. u # Nothing
      <4>1. CASE x \in Buffers
        BY <3>1, <4>1 DEF Buffers
      <4>2. CASE x \in Mine("key")
        <5>1. u \in DOMAIN heap.native
          BY <1>1, <3>1, <3>2, <4>2, KeysPoint DEF Mine
        <5>. QED
          BY <1>1, <5>1 DEF IsHeap, IsTable
      <4>. QED
        BY <3>2, <4>1, <4>2
    <3>4. x \in DOMAIN args \/ u \in DOMAIN natives
      BY <1>4, <3>1 DEF At
    <3>. QED
      BY <3>1, <3>3, <3>4
  <2>. QED
    BY <2>1, <2>2
<1>. QED
  BY <1>2, <1>4, <1>5, <1>6 DEF Given

\* Most operations reference no key of gpgme themselves.
LEMMA WrappersStep ==
  ASSUME Accounts, NEW args, IsABag(args), DOMAIN args \subseteq Passable,
         NEW uses, uses \subseteq At(DOMAIN args) \cup DOMAIN ctx.gpgme,
         NEW gives, gives \subseteq ResultKinds \cup {"key"},
         Start(args, EmptyBag, uses, gives)
  PROVE  ObjectsInv'
<1>1. {} \subseteq Mine("key") /\ DOMAIN args \cup {} = DOMAIN args
  OBVIOUS
<1>2. Given(args, EmptyBag, uses, gives)
  BY <1>1, GivenWrappers
<1>. QED
  BY <1>2, StartStep

LEMMA TwoBuffers ==
  ASSUME NEW d, NEW e
  PROVE  IsABag(Two(d, e)) /\ DOMAIN Two(d, e) = {d, e}
<1>1. /\ IsABag(Single(d)) /\ DOMAIN Single(d) = {d}
      /\ IsABag(Single(e)) /\ DOMAIN Single(e) = {e}
  BY CopiesOfSingle
<1>2. /\ IsABag(Single(d) (+) Single(e))
      /\ DOMAIN (Single(d) (+) Single(e)) = DOMAIN Single(d) \cup DOMAIN Single(e)
  BY <1>1, CopiesOfSum
<1>. QED
  BY <1>1, <1>2 DEF Two

LEMMA KeylistStep == ASSUME Accounts, Keylist PROVE ObjectsInv'
<1>1. IsABag(EmptyBag) /\ DOMAIN EmptyBag \subseteq Passable
  BY NoCopies
<1>2. {} \subseteq At(DOMAIN EmptyBag) \cup DOMAIN ctx.gpgme
  OBVIOUS
<1>3. {"key"} \subseteq ResultKinds \cup {"key"}
  OBVIOUS
<1>. QED
  BY <1>1, <1>2, <1>3, WrappersStep DEF Keylist

LEMMA SetStep ==
  ASSUME Accounts, NEW S, S \subseteq Passable,
         NEW gives, gives \subseteq ResultKinds \cup {"key"},
         Start(SetToBag(S), EmptyBag, At(S), gives)
  PROVE  ObjectsInv'
<1>1. IsABag(SetToBag(S)) /\ DOMAIN SetToBag(S) = S
  BY CopiesOfSet
<1>. QED
  BY <1>1, WrappersStep

LEMMA GenerateKeyStep ==
  ASSUME Accounts, NEW P, P \subseteq Buffers, NEW S, S \subseteq Buffers, GenerateKey(P, S)
  PROVE  ObjectsInv'
<1>. DEFINE b == SetToBag(P) (+) SetToBag(S)
<1>1. IsABag(b) /\ DOMAIN b = P \cup S
  <2>1. /\ IsABag(SetToBag(P)) /\ DOMAIN SetToBag(P) = P
        /\ IsABag(SetToBag(S)) /\ DOMAIN SetToBag(S) = S
    BY CopiesOfSet
  <2>2. IsABag(b) /\ DOMAIN b = DOMAIN SetToBag(P) \cup DOMAIN SetToBag(S)
    BY <2>1, CopiesOfSum
  <2>. QED
    BY <2>1, <2>2
<1>2. DOMAIN b \subseteq Passable /\ At(P \cup S) \subseteq At(DOMAIN b) \cup DOMAIN ctx.gpgme
  BY <1>1 DEF Passable
<1>3. Start(b, EmptyBag, At(P \cup S), {})
  BY DEF GenerateKey
<1>. HIDE DEF b
<1>4. {} \subseteq ResultKinds \cup {"key"}
  OBVIOUS
<1>. QED
  BY <1>1, <1>2, <1>3, <1>4, WrappersStep

LEMMA DeleteStep ==
  ASSUME Accounts, NEW k \in Mine("key"), Delete(k) \/ ChangePassword(k)
  PROVE  ObjectsInv'
<1>1. {} \subseteq ResultKinds \cup {"key"} /\ {k} \subseteq Passable
  BY DEF Passable
<1>2. Start(SetToBag({k}), EmptyBag, At({k}), {})
  BY DEF Delete, ChangePassword, HoldKey, Single
<1>. QED
  BY <1>1, <1>2, SetStep

LEMMA EditStep ==
  ASSUME Accounts, NEW k \in Mine("key"), NEW d \in Buffers, Edit(k, d)
  PROVE  ObjectsInv'
<1>1. {} \subseteq ResultKinds \cup {"key"} /\ {k, d} \subseteq Passable
  BY DEF Passable
<1>. QED
  BY <1>1, SetStep DEF Edit

LEMMA BufferStep ==
  ASSUME Accounts, NEW d \in Buffers, Export(d) \/ Import(d)
  PROVE  ObjectsInv'
<1>1. /\ {} \subseteq ResultKinds \cup {"key"} /\ {"import"} \subseteq ResultKinds \cup {"key"}
      /\ {d} \subseteq Passable
  BY DEF Passable, ResultKinds
<1>2. \/ Start(SetToBag({d}), EmptyBag, At({d}), {})
      \/ Start(SetToBag({d}), EmptyBag, At({d}), {"import"})
  BY DEF Export, Import, Single
<1>. QED
  BY <1>1, <1>2, SetStep

LEMMA KeysStep ==
  ASSUME Accounts, NEW K \in KeyLists, NEW D, D \subseteq Buffers,
         ImportKeys(K) \/ ExportKeys(K, D)
  PROVE  ObjectsInv'
<1>1. /\ {} \subseteq ResultKinds \cup {"key"} /\ {"import"} \subseteq ResultKinds \cup {"key"}
      /\ K \subseteq Passable /\ K \cup D \subseteq Passable
  BY DEF Passable, ResultKinds, KeyLists
<1>. QED
  BY <1>1, SetStep DEF ImportKeys, ExportKeys

LEMMA DecryptStep ==
  ASSUME Accounts, NEW d \in Buffers, NEW e \in Buffers,
         Decrypt(d, e) \/ DecryptVerify(d, e) \/ Sign(d, e)
  PROVE  ObjectsInv'
<1>1. IsABag(Two(d, e)) /\ DOMAIN Two(d, e) = {d, e}
  BY TwoBuffers
<1>2. DOMAIN Two(d, e) \subseteq Passable
  BY <1>1 DEF Passable
<1>3. /\ {"listing"} \subseteq ResultKinds \cup {"key"}
      /\ {"listing", "verify"} \subseteq ResultKinds \cup {"key"}
  BY DEF ResultKinds
<1>4. /\ At({d, e}) \subseteq At(DOMAIN Two(d, e)) \cup DOMAIN ctx.gpgme
      /\ At({d, e}) \cup DOMAIN ctx.gpgme \subseteq At(DOMAIN Two(d, e)) \cup DOMAIN ctx.gpgme
  BY <1>1
<1>. QED
  BY <1>1, <1>2, <1>3, <1>4, WrappersStep DEF Decrypt, DecryptVerify, Sign

LEMMA VerifyStep ==
  ASSUME Accounts, NEW d \in Buffers, NEW t \in Buffers, NEW e \in Buffers, Verify(d, t, e)
  PROVE  ObjectsInv'
<1>. DEFINE b == Two(d, t) (+) Single(e)
<1>1. IsABag(b) /\ DOMAIN b = {d, t, e}
  <2>1. /\ IsABag(Two(d, t)) /\ DOMAIN Two(d, t) = {d, t}
        /\ IsABag(Single(e)) /\ DOMAIN Single(e) = {e}
    BY TwoBuffers, CopiesOfSingle
  <2>2. IsABag(b) /\ DOMAIN b = DOMAIN Two(d, t) \cup DOMAIN Single(e)
    BY <2>1, CopiesOfSum
  <2>. QED
    BY <2>1, <2>2
<1>2. Start(b, EmptyBag, At({d, t, e}), {"verify"})
  BY DEF Verify
<1>. HIDE DEF b
<1>3. /\ DOMAIN b \subseteq Passable /\ {"verify"} \subseteq ResultKinds \cup {"key"}
      /\ At({d, t, e}) \subseteq At(DOMAIN b) \cup DOMAIN ctx.gpgme
  BY <1>1 DEF Passable, ResultKinds
<1>. QED
  BY <1>1, <1>2, <1>3, WrappersStep

LEMMA EncryptStep ==
  ASSUME Accounts, NEW K \in KeyLists, NEW d \in Buffers, NEW e \in Buffers, Encrypt(K, d, e)
  PROVE  ObjectsInv'
<1>1. IsABag(Two(d, e)) /\ DOMAIN Two(d, e) = {d, e}
  BY TwoBuffers
<1>2. /\ DOMAIN Two(d, e) \subseteq Passable /\ {"listing"} \subseteq ResultKinds \cup {"key"}
      /\ K \subseteq Mine("key")
      /\ At({d, e} \cup K) \subseteq At(DOMAIN Two(d, e) \cup K) \cup DOMAIN ctx.gpgme
  BY <1>1 DEF Passable, ResultKinds, KeyLists
<1>3. Start(Two(d, e), Natives(heap, K), At({d, e} \cup K), {"listing"})
  BY DEF Encrypt
<1>4. Given(Two(d, e), Natives(heap, K), At({d, e} \cup K), {"listing"})
  BY <1>1, <1>2, GivenWrappers
<1>. QED
  BY <1>3, <1>4, StartStep

LEMMA BeginOperationStep == ASSUME Accounts, BeginOperation PROVE ObjectsInv'
<1>1. \A D \in OptionalBuffer : D \subseteq Buffers
  BY DEF OptionalBuffer
<1>2. CASE Keylist
  BY <1>2, KeylistStep
<1>3. CASE \E P, S \in OptionalBuffer : GenerateKey(P, S)
  BY <1>1, <1>3, GenerateKeyStep
<1>4. CASE \E k \in Mine("key") :
             Delete(k) \/ ChangePassword(k) \/ \E d \in Buffers : Edit(k, d)
  <2>1. PICK k \in Mine("key") :
          Delete(k) \/ ChangePassword(k) \/ \E d \in Buffers : Edit(k, d)
    BY <1>4
  <2>. QED
    BY <2>1, DeleteStep, EditStep
<1>5. CASE \E d \in Buffers : Export(d) \/ Import(d)
  BY <1>5, BufferStep
<1>6. CASE \E K \in KeyLists : ImportKeys(K) \/ \E D \in OptionalBuffer : ExportKeys(K, D)
  <2>1. {} \subseteq Buffers
    OBVIOUS
  <2>. QED
    BY <1>1, <1>6, <2>1, KeysStep
<1>7. CASE \E d, e \in Buffers :
             \/ Decrypt(d, e) \/ DecryptVerify(d, e) \/ Sign(d, e)
             \/ \E t \in Buffers : Verify(d, t, e)
             \/ \E K \in KeyLists : Encrypt(K, d, e)
  BY <1>7, DecryptStep, VerifyStep, EncryptStep
<1>. QED
  BY <1>2, <1>3, <1>4, <1>5, <1>6, <1>7 DEF BeginOperation

\* The client adopts the new key, or takes a reference of its own and leaves one behind.
LEMMA StrayLeft ==
  ASSUME HoldersTyped, NEW x \in Addr, x \notin mine, x \notin strays, mine' = mine \cup {x},
         strays' = strays \cup {x}, UNCHANGED <<ctx, op, kept>>
  PROVE  Held' = Plus(Plus(Held, Single(x)), Single(x)) /\ Used' = Used
<1>1. /\ Held \in [Addr -> Nat] /\ Held' \in [Addr -> Nat]
      /\ \A y \in Addr :
           /\ Held[y] = One(y \in mine) + One(y \in strays) + Copies(ctx.signers, y)
                        + Copies(op.args, y) + Copies(kept.args, y)
           /\ Held'[y] = One(y \in mine') + One(y \in strays') + Copies(ctx.signers, y)
                         + Copies(op.args, y) + Copies(kept.args, y)
           /\ {One(y \in mine), One(y \in strays), Copies(ctx.signers, y),
               Copies(op.args, y), Copies(kept.args, y)} \subseteq Nat
  BY AreBags, HeldValues DEF Held
<1>2. \A y \in Addr : /\ One(y \in mine') = One(y \in mine) + One(y = x)
                      /\ One(y \in strays') = One(y \in strays) + One(y = x)
  BY DEF One
<1>3. IsABag(Single(x)) /\ \A y : Copies(Single(x), y) = One(y = x)
  BY CopiesOfSingle
<1>4. /\ Plus(Held, Single(x)) \in [Addr -> Nat]
      /\ Plus(Plus(Held, Single(x)), Single(x)) \in [Addr -> Nat]
      /\ \A y \in Addr :
           Plus(Plus(Held, Single(x)), Single(x))[y] = Held[y] + One(y = x) + One(y = x)
  <2>1. /\ Plus(Held, Single(x)) \in [Addr -> Nat]
        /\ \A y \in Addr : Plus(Held, Single(x))[y] = Held[y] + One(y = x)
    BY <1>1, <1>3, LedgerChanges
  <2>. DEFINE P == Plus(Held, Single(x))
  <2>. HIDE DEF P
  <2>2. P \in [Addr -> Nat] /\ \A y \in Addr : P[y] = Held[y] + One(y = x)
    BY <2>1 DEF P
  <2>3. /\ Plus(P, Single(x)) \in [Addr -> Nat]
        /\ \A y \in Addr : Plus(P, Single(x))[y] = P[y] + One(y = x)
    BY <1>3, <2>2, LedgerChanges
  <2>4. \A y \in Addr : Plus(P, Single(x))[y] = Held[y] + One(y = x) + One(y = x)
    BY <2>2, <2>3
  <2>. QED
    BY <2>1, <2>3, <2>4 DEF P
<1>5. \A y \in Addr : One(y = x) \in Nat
  BY DEF One
<1>6. \A y \in Addr : Held'[y] = Plus(Plus(Held, Single(x)), Single(x))[y]
  BY <1>1, <1>2, <1>4, <1>5
<1>. QED
  BY <1>1, <1>4, <1>6, SameLedger DEF Used

LEMMA NextKeyStep == ASSUME Accounts, NextKey PROVE ObjectsInv'
<1>. DEFINE x == NewObject("key")
            n == NewNative("key")
            h1 == AddNatives(heap, {n})
            h2 == RefNatives(h1, Single(n))
            h3 == Wrap(h2, x, n, Nothing)
            h4 == UnrefNatives(h3, Single(n))
            E == Plus(Held, Single(x))
            M == Plus(Used, Single(n))
<1>1. /\ x \in (Addr \ {Nothing}) \ DOMAIN heap.obj /\ Class(x) = "key" /\ x \notin mine
      /\ x \notin strays /\ n \in (Addr \ {Nothing}) \ DOMAIN heap.native
  BY FreshObject, FreshNative DEF Kinds, Owning
<1>2. /\ \/ heap' = h4 /\ strays' = strays
         \/ heap' = RefEach(h4, Single(x)) /\ strays' = strays \cup {x}
      /\ mine' = mine \cup {x} /\ UNCHANGED <<ctx, op, kept>>
  BY DEF NextKey
<1>. HIDE DEF x, n
<1>3. /\ Held \in [Addr -> Nat] /\ Used \in [Addr -> Nat] /\ Balanced(heap, Held, Used)
      /\ HoldersTyped
  BY DEF Accounts, Balance, Balanced, WrappersBalance, NativesBalance
<1>4. /\ IsABag(Single(n)) /\ DOMAIN Single(n) = {n}
      /\ IsABag(Single(x)) /\ DOMAIN Single(x) = {x}
  BY CopiesOfSingle
<1>5. /\ M \in [Addr -> Nat] /\ Covers(M, Single(n)) /\ Minus(M, Single(n)) = Used
  BY <1>3, <1>4, LedgerChanges
<1>6. /\ Plus(M, Single(n)) \in [Addr -> Nat] /\ Covers(Plus(M, Single(n)), Single(n))
      /\ Minus(Plus(M, Single(n)), Single(n)) = M
  <2>. HIDE DEF M
  <2>. QED
    BY <1>4, <1>5, LedgerChanges
<1>7. Balanced(h1, Held, M) /\ h1.obj = heap.obj /\ n \in DOMAIN h1.native
  <2>1. IsFiniteSet({n}) /\ {n} \subseteq (Addr \ {Nothing}) \ DOMAIN heap.native
    BY <1>1, FS_Singleton
  <2>. QED
    BY <1>3, <2>1, AddNativesBalance DEF Single
<1>. HIDE DEF h1, M
<1>8. Balanced(h2, Held, Plus(M, Single(n))) /\ h2.obj = heap.obj /\ n \in DOMAIN h2.native
  <2>1. DOMAIN Single(n) \subseteq DOMAIN h1.native
    BY <1>4, <1>7
  <2>. QED
    BY <1>4, <1>7, <2>1, RefNativesBalance
<1>. HIDE DEF h2
<1>9. Balanced(h3, E, M) /\ Grows(h2, h3) /\ x \in DOMAIN h3.obj
  <2>1. x \in (Addr \ {Nothing}) \ DOMAIN h2.obj /\ Class(x) \in Owning
    BY <1>1, <1>8 DEF Owning
  <2>2. /\ Balanced(h3, Plus(Held, Single(x)), Minus(Plus(M, Single(n)), Single(n)))
        /\ Grows(h2, h3) /\ x \in DOMAIN h3.obj
    BY <1>3, <1>6, <1>8, <2>1, WrapOwningBalance
  <2>. QED
    BY <1>6, <2>2
<1>. HIDE DEF h3
<1>10. Balanced(h4, E, Used) /\ h4.obj = h3.obj
  BY <1>4, <1>5, <1>9, UnrefNativesBalance
<1>. HIDE DEF h4
<1>11. Balance' /\ Keeps(heap, heap')
  <2>1. CASE heap' = h4 /\ strays' = strays
    <3>1. Held' = E /\ Used' = Used
      BY <1>1, <1>2, <1>3, <2>1, MineTaken
    <3>. QED
      BY <1>8, <1>9, <1>10, <2>1, <3>1 DEF Balance, Keeps, Grows
  <2>2. CASE heap' = RefEach(h4, Single(x)) /\ strays' = strays \cup {x}
    <3>1. Held' = Plus(E, Single(x)) /\ Used' = Used
      BY <1>1, <1>2, <1>3, <2>2, StrayLeft
    <3>2. DOMAIN Single(x) \subseteq DOMAIN h4.obj
      BY <1>4, <1>9, <1>10
    <3>3. /\ Balanced(heap', Plus(E, Single(x)), Used) /\ DOMAIN heap'.obj = DOMAIN h4.obj
          /\ \A y \in DOMAIN h4.obj : heap'.obj[y].at = h4.obj[y].at
      <4>. HIDE DEF E
      <4>. QED
        BY <1>4, <1>10, <2>2, <3>2, RefEachBalance
    <3>. QED
      BY <1>8, <1>9, <1>10, <3>1, <3>3 DEF Balance, Keeps, Grows
  <2>. QED
    BY <1>2, <2>1, <2>2
<1>12. HoldersTyped' /\ CtxHeld' /\ Turns' /\ IsHeap(heap)'
  <2>1. HoldersTyped'
    BY <1>1, <1>2, <1>3 DEF HoldersTyped, CtxTyped, OpTyped, KeptTyped
  <2>2. CtxHeld' /\ Turns'
    BY <1>2 DEF Accounts, CtxHeld, Turns, NoOperation
  <2>. QED
    BY <1>11, <2>1, <2>2 DEF Balance, Balanced
<1>13. StraysAreEmpty' /\ UsesAreHeld'
  <2>1. \A y \in strays' \ strays : Class(y) # "data"
    BY <1>1, <1>2
  <2>. QED
    BY <1>2, <1>11, <1>12, <2>1, StraysStay, UsesStay
<1>. QED
  BY <1>11, <1>12, <1>13 DEF ObjectsInv, Accounts

ResultsSet(c, d, u) == d = [c EXCEPT !.results = u]

LEMMA ResultsChange ==
  ASSUME NEW c, CtxForm(c), NEW u, u \subseteq Of(ResultKinds), NEW d, ResultsSet(c, d, u)
  PROVE  /\ CtxForm(d) /\ d.signers = c.signers /\ d.gpgme = c.gpgme
         /\ d.results = u /\ d.refs = c.refs /\ d.mine = c.mine
<1>1. PICK r, m, s, g, v :
        /\ m \in BOOLEAN
        /\ c = [refs |-> r, mine |-> m, signers |-> s, gpgme |-> g, results |-> v]
  BY DEF CtxForm
<1>2. d = [refs |-> r, mine |-> m, signers |-> s, gpgme |-> g, results |-> u]
  BY <1>1 DEF ResultsSet
<1>3. /\ d.signers = c.signers /\ d.gpgme = c.gpgme /\ d.results = u /\ d.refs = c.refs
      /\ d.mine = c.mine
  BY <1>1, <1>2
<1>4. CtxForm(d)
  BY <1>1, <1>2, <1>3 DEF CtxForm
<1>. QED
  BY <1>3, <1>4

LEMMA FinishStep == ASSUME Accounts, Finish PROVE ObjectsInv'
<1>. DEFINE made == op.gives \ {"key"}
            results == {NewNative(k) : k \in made}
<1>1. /\ op.phase = "run" /\ heap' = AddNatives(heap, results)
      /\ ctx' = [ctx EXCEPT !.results = results]
      /\ op' = [op EXCEPT !.phase = "done", !.uses = {}]
      /\ UNCHANGED <<mine, strays, kept>>
  BY DEF Finish
<1>2. /\ Balanced(heap, Held, Used) /\ HoldersTyped /\ CtxHeld /\ CtxForm(ctx) /\ OpTyped
      /\ ctx.results = {}
  BY <1>1 DEF Accounts, Balance, Turns, HoldersTyped, CtxTyped, CtxForm
<1>3. made \subseteq ResultKinds
  BY <1>2 DEF OpTyped
<1>4. /\ IsFiniteSet(results) /\ results \subseteq (Addr \ {Nothing}) \ DOMAIN heap.native
      /\ results \subseteq Of(ResultKinds)
  <2>2. \A k \in made : k \in Kinds \ {"nothing"}
    BY <1>3 DEF ResultKinds, Kinds, Owning
  <2>. HIDE DEF made
  <2>3. \A k \in made : /\ NewNative(k) \in (Addr \ {Nothing}) \ DOMAIN heap.native
                        /\ Class(NewNative(k)) = k
    BY <2>2, FreshNative
  <2>4. IsFiniteSet(results)
    <3>1. IsFiniteSet({NewNative("import")})
      BY FS_Singleton
    <3>2. IsFiniteSet({NewNative("import")} \cup {NewNative("listing")})
      BY <3>1, FS_AddElement
    <3>3. IsFiniteSet(({NewNative("import")} \cup {NewNative("listing")})
                        \cup {NewNative("verify")})
      BY <3>2, FS_AddElement
    <3>4. results \subseteq ({NewNative("import")} \cup {NewNative("listing")})
                              \cup {NewNative("verify")}
      BY <1>3 DEF ResultKinds, made
    <3>. QED
      BY <3>3, <3>4, FS_Subset
  <2>. QED
    BY <1>3, <2>3, <2>4 DEF Of
<1>. HIDE DEF results
<1>5. /\ Balanced(heap', Held, Plus(Used, SetToBag(results))) /\ heap'.obj = heap.obj
  BY <1>1, <1>2, <1>4, AddNativesBalance
<1>6. /\ CtxForm(ctx') /\ ctx'.signers = ctx.signers /\ ctx'.gpgme = ctx.gpgme
      /\ ctx'.results = results /\ ctx'.refs = ctx.refs /\ ctx'.mine = ctx.mine
  <2>1. ResultsSet(ctx, ctx', results)
    BY <1>1 DEF ResultsSet
  <2>. QED
    BY <1>2, <1>4, <2>1, ResultsChange
<1>7. /\ op'.phase = "done" /\ op'.args = op.args /\ op'.keys = op.keys /\ op'.gives = op.gives
      /\ op' = [phase |-> op'.phase, args |-> op'.args, keys |-> op'.keys,
                uses |-> op'.uses, gives |-> op'.gives]
  BY <1>1, <1>2 DEF OpTyped
<1>8. Held' = Held /\ Used' = Plus(Used, SetToBag(results))
  <2>1. IsABag(ctx.gpgme) /\ IsABag(op.keys) /\ IsABag(kept.keys)
    BY <1>2, AreBags
  <2>2. Used' = Plus(UsedBy({}, ctx.gpgme, op.keys, kept.keys), SetToBag(results))
    BY <1>1, <1>6, <1>7, <2>1, UsedParts DEF Used
  <2>. QED
    BY <1>1, <1>2, <1>6, <1>7, <2>2 DEF Held, Used
<1>9. Balance' /\ IsHeap(heap)' /\ Keeps(heap, heap')
  BY <1>5, <1>8 DEF Balance, Balanced, Keeps
<1>10. HoldersTyped' /\ CtxHeld' /\ Turns' /\ UsesAreHeld'
  <2>1. OpTyped'
    BY <1>2, <1>7 DEF OpTyped
  <2>2. HoldersTyped'
    BY <1>1, <1>2, <1>6, <2>1 DEF HoldersTyped, CtxForm, CtxTyped, KeptTyped
  <2>3. CtxHeld'
    BY <1>1, <1>2, <1>6, <1>7 DEF CtxHeld, One
  <2>4. Turns' /\ UsesAreHeld'
    BY <1>7 DEF Turns, UsesAreHeld
  <2>. QED
    BY <2>2, <2>3, <2>4
<1>11. StraysAreEmpty'
  BY <1>1, <1>9, <1>10, StraysStay
<1>. QED
  BY <1>9, <1>10, <1>11 DEF ObjectsInv, Accounts

LEMMA EndOperationStep == ASSUME Accounts, EndOperation PROVE ObjectsInv'
<1>1. op.phase = "done" /\ UNCHANGED <<mine, strays, kept>>
  BY DEF EndOperation
<1>2. /\ Balanced(heap, Held, Used) /\ HoldersTyped /\ CtxHeld /\ CtxForm(ctx) /\ IsHeap(heap)
  BY DEF Accounts, Balance, Balanced, HoldersTyped, CtxTyped, CtxForm
<1>3. CASE op.keys # EmptyBag
  <2>1. op' = [NoOperation EXCEPT !.phase = "aborted"] /\ heap' = heap
    BY <1>3 DEF EndOperation
  <2>2. op'.phase = "aborted"
    BY <2>1 DEF NoOperation
  <2>. QED
    BY <1>2, <2>1, <2>2 DEF ObjectsInv
<1>4. CASE op.keys = EmptyBag
  <2>. DEFINE h == UnrefNatives(heap, op.keys)
              k == UnrefEach(h, op.args)
              E == HeldBy(mine, strays, EmptyBag, EmptyBag, kept.args)
              N == UsedBy({}, EmptyBag, EmptyBag, kept.keys)
  <2>1. UnrefCtx(k, ctx, 2) /\ op' = NoOperation
    BY <1>4 DEF EndOperation, ReleaseArguments
  <2>2. /\ IsABag(ctx.signers) /\ IsABag(ctx.gpgme) /\ IsABag(op.args) /\ IsABag(op.keys)
        /\ IsABag(kept.args) /\ IsABag(kept.keys) /\ IsABag(EmptyBag)
    BY <1>2, AreBags, NoCopies
  <2>3. /\ Held = Plus(HeldBy(mine, strays, ctx.signers, EmptyBag, kept.args), op.args)
        /\ HeldBy(mine, strays, ctx.signers, EmptyBag, kept.args) \in [Addr -> Nat]
    BY <2>2, HeldParts, HeldValues DEF Held
  <2>4. /\ Covers(Held, op.args)
        /\ Minus(Held, op.args) = HeldBy(mine, strays, ctx.signers, EmptyBag, kept.args)
    BY <2>2, <2>3, LedgerChanges
  <2>5. /\ Used = Plus(Used, op.keys) /\ Used \in [Addr -> Nat]
        /\ Used = UsedBy(ctx.results, ctx.gpgme, EmptyBag, kept.keys)
    BY <1>4, <2>2, UsedParts, UsedValues DEF Used
  <2>6. Covers(Used, op.keys) /\ Minus(Used, op.keys) = Used
    BY <2>2, <2>5, LedgerChanges
  <2>7. Balanced(h, Held, Used) /\ h.obj = heap.obj
    BY <1>2, <2>2, <2>6, UnrefNativesBalance
  <2>. HIDE DEF h
  <2>8. \A x \in DOMAIN op.args : Class(x) \in Owning
    BY <1>2 DEF HoldersTyped, OpTyped, BagOn, Of, Owning
  <2>9. /\ Balanced(k, HeldBy(mine, strays, ctx.signers, EmptyBag, kept.args),
                    UsedBy(ctx.results, ctx.gpgme, EmptyBag, kept.keys))
        /\ Shrinks(h, k)
    <3>1. Balanced(k, Minus(Held, op.args), Used) /\ Shrinks(h, k)
      BY <2>2, <2>4, <2>7, <2>8, UnrefOwningBalance
    <3>. QED
      BY <2>4, <2>5, <3>1
  <2>. HIDE DEF k
  <2>10. CtxBalance(k, ctx, E, N) /\ E \in [Addr -> Nat] /\ N \in [Addr -> Nat]
    BY <1>2, <2>2, <2>9, CtxShare
  <2>11. /\ CtxBalance(heap', ctx', E, N) /\ Shrinks(k, heap')
         /\ CtxForm(ctx') /\ ctx'.mine = ctx.mine
         /\ ctx'.refs = IF ctx.refs > 2 THEN ctx.refs - 2 ELSE 0
    <3>. HIDE DEF E, N
    <3>1. 2 \in Nat
      OBVIOUS
    <3>. QED
      BY <1>2, <2>1, <2>10, <3>1, UnrefCtxBalance
  <2>12. /\ op'.phase = "idle" /\ op'.args = EmptyBag /\ op'.keys = EmptyBag
    BY <2>1 DEF NoOperation
  <2>13. Balanced(heap', Held', Used')
    BY <1>1, <2>2, <2>11, <2>12, CtxShare DEF Held, Used
  <2>14. HoldersTyped'
    <3>1. OpTyped'
      BY <2>1, NoCopies DEF OpTyped, NoOperation, BagOn
    <3>. QED
      BY <1>1, <1>2, <2>11, <3>1 DEF HoldersTyped, CtxForm, CtxTyped, KeptTyped
  <2>15. CtxHeld'
    <3>1. One(op.phase # "idle") = 1 /\ One(op'.phase # "idle") = 0
      BY <1>1, <2>12 DEF One
    <3>2. kept.ctx \in Nat /\ One(ctx.mine) \in Nat
      BY <1>2 DEF HoldersTyped, KeptTyped, One
    <3>. QED
      BY <1>1, <1>2, <2>11, <3>1, <3>2 DEF CtxHeld
  <2>16. Balance' /\ IsHeap(heap)' /\ Keeps(heap, heap')
    BY <2>7, <2>9, <2>11, <2>13 DEF Balance, Balanced, Keeps, Shrinks
  <2>17. StraysAreEmpty' /\ Turns' /\ UsesAreHeld'
    BY <1>1, <2>1, <2>12, <2>14, <2>16, StraysStay DEF Turns, UsesAreHeld
  <2>. QED
    BY <2>14, <2>15, <2>16, <2>17 DEF ObjectsInv, Accounts
<1>. QED
  BY <1>3, <1>4

---------------------------------------------------------------------------
(* The invariant holds.                                                     *)

LEMMA InitObjectsInv == ObjectsInit => ObjectsInv
<1>. SUFFICES ASSUME ObjectsInit PROVE ObjectsInv
  OBVIOUS
<1>1. /\ heap = [obj |-> << >>, native |-> << >>] /\ mine = {} /\ strays = {}
      /\ ctx = [refs |-> 1, mine |-> TRUE, signers |-> EmptyBag, gpgme |-> EmptyBag, results |-> {}]
      /\ op = NoOperation /\ kept = [args |-> EmptyBag, keys |-> EmptyBag, ctx |-> 0]
  BY DEF ObjectsInit
<1>2. /\ DOMAIN heap.obj = {} /\ DOMAIN heap.native = {}
      /\ heap = [obj |-> heap.obj, native |-> heap.native]
      /\ heap.obj \in [DOMAIN heap.obj -> Wrapper]
      /\ heap.native \in [DOMAIN heap.native -> Nat \ {0}]
  BY <1>1
<1>3. IsHeap(heap)
  BY <1>2, FS_EmptySet DEF IsHeap, IsTable
<1>4. /\ ctx.refs = 1 /\ ctx.mine = TRUE /\ ctx.signers = EmptyBag /\ ctx.gpgme = EmptyBag
      /\ ctx.results = {} /\ op.phase = "idle" /\ op.args = EmptyBag /\ op.keys = EmptyBag
      /\ kept.args = EmptyBag /\ kept.keys = EmptyBag /\ kept.ctx = 0
  BY <1>1 DEF NoOperation
<1>5. HoldersTyped
  <2>1. CtxTyped
    BY <1>1, <1>4, NoCopies DEF CtxTyped, BagOn
  <2>2. OpTyped
    BY <1>1, NoCopies DEF OpTyped, NoOperation, BagOn
  <2>3. KeptTyped
    BY <1>1, <1>4, NoCopies DEF KeptTyped, BagOn
  <2>. QED
    BY <1>1, <2>1, <2>2, <2>3 DEF HoldersTyped
<1>6. Balance
  <2>1. IsABag(EmptyBag) /\ \A x : Copies(EmptyBag, x) = 0
    BY NoCopies
  <2>2. \A x : One(x \in {}) = 0
    BY DEF One
  <2>3. Held \in [Addr -> Nat] /\ \A x \in Addr : Held[x] = 0
    BY <1>1, <1>4, <2>1, <2>2, HeldValues DEF Held
  <2>4. Used \in [Addr -> Nat] /\ \A n \in Addr : Used[n] = 0
    BY <1>1, <1>4, <2>1, <2>2, UsedValues DEF Used
  <2>. QED
    BY <1>2, <1>3, <2>3, <2>4 DEF Balance, Balanced, WrappersBalance, NativesBalance
<1>7. CtxHeld /\ Turns /\ StraysAreEmpty /\ UsesAreHeld
  BY <1>1, <1>4 DEF CtxHeld, Turns, StraysAreEmpty, UsesAreHeld, One
<1>. QED
  BY <1>3, <1>5, <1>6, <1>7 DEF ObjectsInv, Accounts

LEMMA CallerStep == ASSUME Accounts, Caller PROVE ObjectsInv'
<1>1. CASE NewData
  BY <1>1, NewDataStep
<1>2. CASE DropCtx
  BY <1>2, DropCtxStep
<1>3. CASE ClearSigners
  BY <1>3, ClearSignersStep
<1>4. CASE \E x \in mine : FreeToBytes(x) \/ GetList(x) \/ Drop(x) \/ AddSigner(x)
  BY <1>4, FreeToBytesStep, GetListStep, DropStep, AddSignerStep
<1>5. CASE \E n \in ctx.results : GetResult(n)
  BY <1>5, GetResultStep
<1>. QED
  BY <1>1, <1>2, <1>3, <1>4, <1>5 DEF Caller

LEMMA ObjectsInvStep == ObjectsInv /\ [ObjectsNext]_objectsVars => ObjectsInv'
<1>. SUFFICES ASSUME ObjectsInv, [ObjectsNext]_objectsVars PROVE ObjectsInv'
  OBVIOUS
<1>1. CASE UNCHANGED objectsVars
  BY <1>1 DEF objectsVars, ObjectsInv, Accounts, Balance, Held, Used, HoldersTyped, CtxTyped,
     OpTyped, KeptTyped, CtxHeld, Turns, StraysAreEmpty, UsesAreHeld, NoOperation
<1>2. CASE ObjectsNext
  <2>1. Accounts
    BY <1>2 DEF ObjectsNext, ObjectsInv
  <2>2. CASE Caller
    BY <2>1, <2>2, CallerStep
  <2>3. CASE BeginOperation
    BY <2>1, <2>3, BeginOperationStep
  <2>4. CASE NextKey
    BY <2>1, <2>4, NextKeyStep
  <2>5. CASE Finish
    BY <2>1, <2>5, FinishStep
  <2>6. CASE EndOperation
    BY <2>1, <2>6, EndOperationStep
  <2>. QED
    BY <1>2, <2>2, <2>3, <2>4, <2>5, <2>6 DEF ObjectsNext
<1>. QED
  BY <1>1, <1>2

THEOREM ObjectsInvHolds == ObjectsSpec => []ObjectsInv
  BY InitObjectsInv, ObjectsInvStep, PTL DEF ObjectsSpec

---------------------------------------------------------------------------
(* What it gives.                                                           *)

LEMMA InvPointersLive == ObjectsInv => LivePointers
<1>. SUFFICES ASSUME ObjectsInv, NEW x \in DOMAIN heap.obj
     PROVE  LET w == heap.obj[x]
            IN \/ Class(x) = "notation"
               \/ Class(x) = "data" /\ w.at = Nothing
               \/ /\ w.at \in DOMAIN heap.native
                  /\ \/ w.owner = Nothing
                     \/ w.owner \in DOMAIN heap.obj /\ heap.obj[w.owner].at = w.at
  BY DEF LivePointers
<1>. DEFINE o == heap.obj[x].owner
<1>1. \A y \in DOMAIN heap.obj : Placed(heap, y)
  BY DEF ObjectsInv, IsHeap
<1>2. CASE Class(x) \in Owning \/ Class(x) = "notation"
  BY <1>1, <1>2 DEF Placed, Within, Owning
<1>3. CASE ~(Class(x) \in Owning \/ Class(x) = "notation")
  <2>1. /\ Within(Class(x), Class(o))
        /\ o \in DOMAIN heap.obj /\ heap.obj[o].at = heap.obj[x].at
    BY <1>1, <1>3 DEF Placed
  <2>2. CASE Class(o) \in {"key", "listing", "verify"}
    <3>1. Placed(heap, o)
      BY <1>1, <2>1
    <3>2. heap.obj[o].at \in DOMAIN heap.native
      BY <2>2, <3>1 DEF Placed, Within
    <3>. QED
      BY <2>1, <3>2
  <2>3. CASE Class(o) = "uid"
    <3>. DEFINE k == heap.obj[o].owner
    <3>1. /\ Within("uid", Class(k)) /\ k \in DOMAIN heap.obj
          /\ heap.obj[k].at = heap.obj[o].at
      BY <1>1, <2>1, <2>3 DEF Placed, Owning
    <3>2. Class(k) = "key" /\ Placed(heap, k)
      BY <1>1, <3>1 DEF Within
    <3>3. heap.obj[k].at \in DOMAIN heap.native
      BY <3>2 DEF Placed, Within
    <3>. QED
      BY <2>1, <3>1, <3>3
  <2>. QED
    BY <2>1, <2>2, <2>3 DEF Within
<1>. QED
  BY <1>2, <1>3

LEMMA InvArgumentsHeld == ObjectsInv => ArgumentsHeld
<1>. SUFFICES ASSUME ObjectsInv, op.phase = "run"
     PROVE  ctx.refs > 0 /\ op.uses \subseteq DOMAIN heap.native
  BY DEF ArgumentsHeld
<1>1. Accounts /\ AllThere /\ IsHeap(heap)
  BY ThereNow DEF ObjectsInv, Accounts
<1>2. ctx.refs > 0
  <2>1. One(op.phase # "idle") = 1 /\ One(ctx.mine) \in Nat
    BY DEF One
  <2>2. kept.ctx \in Nat
    BY <1>1 DEF Accounts, HoldersTyped, KeptTyped
  <2>. QED
    BY <1>1, <2>1, <2>2 DEF Accounts, CtxHeld
<1>3. ASSUME NEW u \in op.uses PROVE u \in DOMAIN heap.native
  <2>1. /\ u # Nothing
        /\ \/ \E x \in DOMAIN op.args : heap.obj[x].at = u
           \/ u \in DOMAIN op.keys \cup DOMAIN ctx.gpgme
    BY <1>1 DEF Accounts, UsesAreHeld
  <2>2. CASE \E x \in DOMAIN op.args : heap.obj[x].at = u
    <3>1. PICK x \in DOMAIN op.args : heap.obj[x].at = u
      BY <2>2
    <3>2. x \in DOMAIN heap.obj /\ Class(x) \in {"key", "data"}
      BY <1>1, <3>1 DEF AllThere, Accounts, HoldersTyped, OpTyped, BagOn, Of
    <3>. QED
      BY <1>1, <2>1, <3>1, <3>2, KeysPoint
  <2>3. CASE u \in DOMAIN op.keys \cup DOMAIN ctx.gpgme
    BY <1>1, <2>3 DEF AllThere
  <2>. QED
    BY <2>1, <2>2, <2>3
<1>. QED
  BY <1>2, <1>3

LEMMA InvReferencesHeld == ObjectsInv => EveryReferenceIsHeld
<1>. SUFFICES ASSUME ObjectsInv, op.phase # "aborted"
     PROVE  /\ \A x \in DOMAIN heap.obj : heap.obj[x].refs = HoldersOf(x) /\ HoldersOf(x) > 0
            /\ \A n \in DOMAIN heap.native :
                 heap.native[n] = HoldersOfNative(n) /\ HoldersOfNative(n) > 0
            /\ ctx.refs = One(ctx.mine) + 2 * One(op.phase # "idle") + 2 * kept.ctx
  BY DEF EveryReferenceIsHeld
<1>1. Accounts /\ IsHeap(heap) /\ HoldersTyped
  BY DEF ObjectsInv, Accounts
<1>2. /\ IsABag(ctx.signers) /\ IsABag(ctx.gpgme) /\ IsABag(op.args) /\ IsABag(op.keys)
      /\ IsABag(kept.args) /\ IsABag(kept.keys)
  BY <1>1, AreBags
<1>3. ASSUME NEW x \in DOMAIN heap.obj
      PROVE  heap.obj[x].refs = HoldersOf(x) /\ HoldersOf(x) > 0
  <2>1. x \in Addr /\ heap.obj[x].refs \in Nat \ {0}
    BY <1>1 DEF IsHeap, IsTable, Wrapper
  <2>2. heap.obj[x].refs = Held[x] + Cardinality(Owned(heap, x))
    BY <1>1, <2>1 DEF Accounts, Balance, Balanced, WrappersBalance
  <2>3. Held[x] = One(x \in mine) + One(x \in strays) + Copies(ctx.signers, x)
                  + Copies(op.args, x) + Copies(kept.args, x)
    BY <1>2, <2>1, HeldValues DEF Held
  <2>4. HoldersOf(x) = Held[x] + Cardinality(Owned(heap, x))
    BY <2>3 DEF HoldersOf, Owned
  <2>. QED
    BY <2>1, <2>2, <2>4
<1>4. ASSUME NEW n \in DOMAIN heap.native
      PROVE  heap.native[n] = HoldersOfNative(n) /\ HoldersOfNative(n) > 0
  <2>1. n \in Addr /\ heap.native[n] \in Nat \ {0}
    BY <1>1 DEF IsHeap, IsTable
  <2>2. heap.native[n] = Used[n] + Cardinality(Pointers(heap, n))
    BY <1>1, <2>1 DEF Accounts, Balance, Balanced, NativesBalance
  <2>3. Used[n] = One(n \in ctx.results) + Copies(ctx.gpgme, n) + Copies(op.keys, n)
                  + Copies(kept.keys, n)
    BY <1>2, <2>1, UsedValues DEF Used
  <2>4. HoldersOfNative(n) = Used[n] + Cardinality(Pointers(heap, n))
    BY <2>3 DEF HoldersOfNative, Pointers
  <2>. QED
    BY <2>1, <2>2, <2>4
<1>5. CtxHeld
  BY <1>1 DEF Accounts
<1>. QED
  BY <1>3, <1>4, <1>5 DEF CtxHeld

\* However many wrappers and structures there may be: whatever the client lets go of and the
\* context does next, a wrapper that is alive points into a structure of gpgme that is alive,
\* and its owner is alive and points to the same one.
THEOREM PointersLive == ObjectsSpec => []LivePointers
  BY ObjectsInvHolds, InvPointersLive, PTL

\* While an operation runs the context is alive and so is every structure gpgme works on,
\* although the client may have dropped its wrappers of them.
THEOREM ArgumentsAlive == ObjectsSpec => []ArgumentsHeld
  BY ObjectsInvHolds, InvArgumentsHeld, PTL

\* The count of each wrapper, of each structure of gpgme and of the context is the number of
\* those who hold a reference to it, and it is positive: nothing is released twice, and
\* nothing stays that nobody holds.
THEOREM ReferencesHeld == ObjectsSpec => []EveryReferenceIsHeld
  BY ObjectsInvHolds, InvReferencesHeld, PTL

=============================================================================
