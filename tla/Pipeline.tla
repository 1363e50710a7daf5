------------------------------ MODULE Pipeline ------------------------------
(***************************************************************************)
(* The message pipeline of sesrcvr (SNSEndpoint in sesrcvr/ep_server.go):  *)
(* the HTTP handlers that log a notification and queue its rowid, the      *)
(* bounded channel msgCh, the processor loop that takes a semaphore permit *)
(* per rowid, the workers that deliver the message and retire its row, the *)
(* replay of the pending rows at startup, the pause EditSub asks for, and  *)
(* the life of the process: start, cancellation, server failure, exit and  *)
(* crash.                                                                  *)
(*                                                                         *)
(* Only the SQLite database survives the process.  A row is written by one *)
(* statement each time, so a statement is one step; what an unlucky        *)
(* statement leaves behind (not executed, or committed but reported as an  *)
(* error) is a step of its own.                                            *)
(***************************************************************************)
EXTENDS Naturals, Sequences, FiniteSets, SequencesExt

CONSTANTS
  Message,  \* SNS message ids
  Rowid,    \* rowids of msglog (bounds how many rows the log holds)
  Handler,  \* HTTP request goroutines (bounds concurrent posts)
  Proc,     \* permits of procLock, each held by one worker (maxMessageProcessors)
  Editor,   \* EditSub calls, which pause the workers
  QSize,    \* capacity of msgCh (msgQSize)
  Loop,     \* the processor loop, as a waiter on procLock
  None      \* no rowid, no message

ASSUME PipelineConstants ==
  /\ QSize \in Nat \ {0}
  /\ None \notin Rowid \union Message
  /\ Loop \notin Editor
  /\ IsFiniteSet(Proc)

VARIABLES
  \* durable
  msglog,    \* row -> message id, None when the row does not exist
  tomb,      \* rows with tomb = 1
  errors,    \* messages with a row in table errors
  \* the process
  phase,     \* what Run is doing
  ctx,       \* Run's context: "live", "child" (only chldCtx cancelled), "done"
  msgCh,     \* the channel of rowids
  replay,    \* replayLog
  loop,      \* runMsgProc
  proc,      \* worker on each permit
  editor,    \* pauseMsgProc per EditSub call
  waiters,   \* FIFO of the goroutines blocked on procLock
  http,      \* ServeHTTP per request
  \* history
  acked,     \* messages answered with 200
  delivered, \* messages whose template ran to the end
  attempted, \* rows whose worker gave up in this life of the process
  stranded,  \* rows logged by a request that timed out instead of queueing them
  unreported \* rows whose INSERT committed and was reported as failed

durable == <<msglog, tomb, errors>>
sched   == <<loop, proc, editor, waiters>>
history == <<acked, delivered, attempted, stranded, unreported>>
vars == <<msglog, tomb, errors, phase, ctx, msgCh, replay, loop, proc,
          editor, waiters, http, acked, delivered, attempted, stranded, unreported>>

----------------------------------------------------------------------------
(* The log *)

Rows    == {r \in Rowid : msglog[r] # None}
Pending == Rows \ tomb
Logged  == {msglog[r] : r \in Rows}

(* The semaphore procLock: a worker holds one permit, an editor all of them. *)

IdleProcs  == {p \in Proc : proc[p].pc = "idle"}
Unpaused   == \A e \in Editor : editor[e] # "holding"
OneFree    == Unpaused /\ IdleProcs # {}
AllFree    == Unpaused /\ IdleProcs = Proc
AtFront(w) == waiters # <<>> /\ Head(waiters) = w
\* A waiter whose context is done leaves the queue; the others keep their order.
Leaving(w) == {RemoveAt(waiters, i) : i \in {j \in DOMAIN waiters : waiters[j] = w}}

(* Goroutines that do nothing *)

IdleProc == [pc |-> "idle", row |-> None, msg |-> None]
IdleHttp == [pc |-> "idle", row |-> None, msg |-> None, code |-> "none"]
NoReplay == [pc |-> "off", row |-> None, todo |-> {}]
NoLoop   == [pc |-> "off", row |-> None]
NewLoop  == [pc |-> "select", row |-> None]

\* replayLog closed the channel and waits for the loop it started.
Closed == replay.pc \in {"finish", "abort"}

\* Run closes the database when it returns, while main may still be running.
DatabaseOpen == phase \in {"replay", "running", "stopping"}

----------------------------------------------------------------------------
(* Startup: Run, replayLog *)

Init ==
  /\ msglog = [r \in Rowid |-> None] /\ tomb = {} /\ errors = {}
  /\ phase = "down" /\ ctx = "live"
  /\ msgCh = <<>>
  /\ replay = NoReplay /\ loop = NoLoop /\ waiters = <<>>
  /\ proc = [p \in Proc |-> IdleProc]
  /\ editor = [e \in Editor |-> "idle"]
  /\ http = [h \in Handler |-> IdleHttp]
  /\ acked = {} /\ delivered = {} /\ attempted = {} /\ stranded = {} /\ unreported = {}

\* Mutant: the replay query misses its condition tomb = 0.
StartWithTombs ==
  /\ phase = "down"
  /\ phase' = "replay" /\ ctx' = "live"
  /\ loop' = NewLoop
  /\ replay' = [NoReplay EXCEPT !.pc = "next", !.todo = Rows]
  /\ UNCHANGED <<durable, msgCh, proc, editor, waiters, http, history>>

\* Run reaches replayLog: a processor loop is started and the pending rowids
\* are queried.
Start ==
  /\ phase = "down"
  /\ phase' = "replay" /\ ctx' = "live"
  /\ loop' = NewLoop
  /\ replay' = [NoReplay EXCEPT !.pc = "next", !.todo = Pending]
  /\ UNCHANGED <<durable, msgCh, proc, editor, waiters, http, history>>

\* rows.Next and rows.Scan return the next rowid.
ReplayNext ==
  /\ replay.pc = "next"
  /\ \E r \in replay.todo :
       replay' = [pc |-> "send", row |-> r, todo |-> replay.todo \ {r}]
  /\ UNCHANGED <<durable, phase, ctx, msgCh, sched, http, history>>

\* A plain send: it watches no context, and waits while msgCh is full.
ReplaySend ==
  /\ replay.pc = "send"
  /\ Len(msgCh) < QSize
  /\ msgCh' = Append(msgCh, replay.row)
  /\ replay' = [replay EXCEPT !.pc = "next", !.row = None]
  /\ UNCHANGED <<durable, phase, ctx, sched, http, history>>

\* cancelProc closes the channel once every row was sent, or when the query,
\* a scan or the iteration failed (a cancelled context fails the iteration).
ReplayClose ==
  /\ replay.pc = "next"
  /\ \/ replay.todo = {} /\ replay' = [replay EXCEPT !.pc = "finish"]
     \/ replay' = [replay EXCEPT !.pc = "abort"]
  /\ UNCHANGED <<durable, phase, ctx, msgCh, sched, http, history>>

\* Mutant: the channel is replaced without waiting for the loop to finish.
ReplayDoneEarly ==
  /\ Closed
  /\ msgCh' = <<>>
  /\ replay' = NoReplay
  /\ IF replay.pc = "abort"
     THEN phase' = "exited" /\ loop' = NoLoop
     ELSE phase' = "running" /\ loop' = NewLoop
  /\ UNCHANGED <<durable, ctx, proc, editor, waiters, http, history>>

\* The loop returned: a new channel replaces the closed one, and Run goes on
\* to start its own loop and the HTTP server, or returns the error.
ReplayDone ==
  /\ Closed /\ loop.pc = "done"
  /\ msgCh' = <<>>
  /\ replay' = NoReplay
  /\ IF replay.pc = "abort"
     THEN phase' = "exited" /\ loop' = NoLoop
     ELSE phase' = "running" /\ loop' = NewLoop
  /\ UNCHANGED <<durable, ctx, proc, editor, waiters, http, history>>

----------------------------------------------------------------------------
(* The processor loop: runMsgProc *)

LoopReceive ==
  /\ loop.pc = "select" /\ msgCh # <<>>
  /\ loop' = [pc |-> "acquire", row |-> Head(msgCh)]
  /\ msgCh' = Tail(msgCh)
  /\ waiters' = Append(waiters, Loop)
  /\ UNCHANGED <<durable, phase, ctx, replay, proc, editor, http, history>>

\* Mutant: the loop watches the child context only.
LoopCancelledChild ==
  /\ loop.pc = "select" /\ ctx = "child"
  /\ loop' = [loop EXCEPT !.pc = "drain"]
  /\ waiters' = Append(waiters, Loop)
  /\ UNCHANGED <<durable, phase, ctx, msgCh, replay, proc, editor, http, history>>

\* The select may take this branch even while rowids are queued.
LoopCancelled ==
  /\ loop.pc = "select" /\ ctx # "live"
  /\ loop' = [loop EXCEPT !.pc = "drain"]
  /\ waiters' = Append(waiters, Loop)
  /\ UNCHANGED <<durable, phase, ctx, msgCh, replay, proc, editor, http, history>>

\* A closed channel still yields what is buffered in it.
LoopClosed ==
  /\ loop.pc = "select" /\ Closed /\ msgCh = <<>>
  /\ loop' = [loop EXCEPT !.pc = "drain"]
  /\ waiters' = Append(waiters, Loop)
  /\ UNCHANGED <<durable, phase, ctx, msgCh, replay, proc, editor, http, history>>

\* A permit is granted: a worker is started for the rowid.
LoopAcquire(p) ==
  /\ loop.pc = "acquire" /\ AtFront(Loop) /\ Unpaused /\ proc[p].pc = "idle"
  /\ waiters' = Tail(waiters)
  /\ proc' = [proc EXCEPT ![p] = [pc |-> "query", row |-> loop.row, msg |-> None]]
  /\ loop' = NewLoop
  /\ UNCHANGED <<durable, phase, ctx, msgCh, replay, editor, http, history>>

\* The context ended before a permit was free: the rowid is dropped, and the
\* loop queues for all permits.
LoopAcquireCancelled ==
  /\ loop.pc = "acquire" /\ ctx # "live"
  /\ ~(AtFront(Loop) /\ OneFree)
  /\ \E w \in Leaving(Loop) : waiters' = Append(w, Loop)
  /\ loop' = [pc |-> "drain", row |-> None]
  /\ UNCHANGED <<durable, phase, ctx, msgCh, replay, proc, editor, http, history>>

\* Mutant: the loop takes one permit back instead of all.
LoopDrainedOne ==
  /\ loop.pc = "drain" /\ AtFront(Loop) /\ OneFree
  /\ waiters' = Tail(waiters)
  /\ loop' = [loop EXCEPT !.pc = "done"]
  /\ UNCHANGED <<durable, phase, ctx, msgCh, replay, proc, editor, http, history>>

\* All permits at once, without a context, and back: every worker is done.
LoopDrained ==
  /\ loop.pc = "drain" /\ AtFront(Loop) /\ AllFree
  /\ waiters' = Tail(waiters)
  /\ loop' = [loop EXCEPT !.pc = "done"]
  /\ UNCHANGED <<durable, phase, ctx, msgCh, replay, proc, editor, http, history>>

----------------------------------------------------------------------------
(* A worker: the goroutine started by runMsgProc *)

\* Returning from the goroutine releases its permit.
GiveUp(p) ==
  /\ proc' = [proc EXCEPT ![p] = IdleProc]
  /\ attempted' = attempted \union {proc[p].row}

\* The row is read under the context of the loop.
WorkerRead(p) ==
  /\ proc[p].pc = "query"
  /\ ctx = "live" /\ proc[p].row \in Pending
  /\ proc' = [proc EXCEPT ![p].pc = "work", ![p].msg = msglog[proc[p].row]]
  /\ UNCHANGED <<durable, phase, ctx, msgCh, replay, loop, editor, waiters, http, history>>

\* Mutant: the early return of a failed query keeps the permit.
WorkerReadFailLeak(p) ==
  /\ proc[p].pc = "query"
  /\ proc' = [proc EXCEPT ![p] = [IdleProc EXCEPT !.pc = "leaked"]]
  /\ attempted' = attempted \union {proc[p].row}
  /\ UNCHANGED <<durable, phase, ctx, msgCh, replay, loop, editor, waiters, http,
                 acked, delivered, stranded, unreported>>

\* The query failed, found no row, or found a tombstone ("already processed
\* message, shouldn't happen?"): nothing is recorded.
WorkerReadFail(p) ==
  /\ proc[p].pc = "query"
  /\ GiveUp(p)
  /\ UNCHANGED <<durable, phase, ctx, msgCh, replay, loop, editor, waiters, http,
                 acked, delivered, stranded, unreported>>

\* Parsing, the subscription, the download or the template failed.
WorkerFail(p) ==
  /\ proc[p].pc = "work"
  /\ proc' = [proc EXCEPT ![p].pc = "record"]
  /\ UNCHANGED <<durable, phase, ctx, msgCh, replay, loop, editor, waiters, http, history>>

\* The template ran to the end.
WorkerDeliver(p) ==
  /\ proc[p].pc = "work"
  /\ proc' = [proc EXCEPT ![p].pc = "retire"]
  /\ delivered' = delivered \union {proc[p].msg}
  /\ UNCHANGED <<durable, phase, ctx, msgCh, replay, loop, editor, waiters, http,
                 acked, attempted, stranded, unreported>>

\* Mutant: no trigger on retiring.
WorkerRetireNoTrigger(p) ==
  /\ proc[p].pc = "retire"
  /\ tomb' = tomb \union {proc[p].row}
  /\ proc' = [proc EXCEPT ![p] = IdleProc]
  /\ UNCHANGED <<msglog, errors, phase, ctx, msgCh, replay, loop, editor, waiters, http,
                 history>>

\* The retiring UPDATE runs without a context; its trigger drops the recorded
\* error of the message.
WorkerRetire(p) ==
  /\ proc[p].pc = "retire"
  /\ tomb' = tomb \union {proc[p].row}
  /\ errors' = errors \ {proc[p].msg}
  /\ proc' = [proc EXCEPT ![p] = IdleProc]
  /\ UNCHANGED <<msglog, phase, ctx, msgCh, replay, loop, editor, waiters, http, history>>

WorkerRetireFail(p) ==
  /\ proc[p].pc = "retire"
  /\ proc' = [proc EXCEPT ![p].pc = "record"]
  /\ UNCHANGED <<durable, phase, ctx, msgCh, replay, loop, editor, waiters, http, history>>

\* The deferred function records the error, which a done context prevents, and
\* the foreign key once the message is not in the log.
WorkerRecord(p) ==
  /\ proc[p].pc = "record"
  /\ \/ ctx = "live" /\ proc[p].msg \in Logged /\ errors' = errors \union {proc[p].msg}
     \/ UNCHANGED errors
  /\ GiveUp(p)
  /\ UNCHANGED <<msglog, tomb, phase, ctx, msgCh, replay, loop, editor, waiters, http,
                 acked, delivered, stranded, unreported>>

----------------------------------------------------------------------------
(* A request: the notification branch of ServeHTTP *)

\* SNS posts a message, for the first time or again; it passed the checks of
\* the address, the type and the signature.
Post(h, m) ==
  /\ phase = "running" /\ http[h].pc = "idle"
  /\ http' = [http EXCEPT ![h] = [IdleHttp EXCEPT !.pc = "append", !.msg = m]]
  /\ UNCHANGED <<durable, phase, ctx, msgCh, replay, sched, history>>

Answer(h, c) ==
  http' = [http EXCEPT ![h] =
             [pc |-> "respond", row |-> None, msg |-> http[h].msg, code |-> c]]

\* The INSERT OR IGNORE ran: SQLite picks a rowid that is not in use, which
\* may be one a collected row had.
Insert(h, r) ==
  /\ http[h].pc = "append" /\ DatabaseOpen
  /\ http[h].msg \notin Logged /\ r \in Rowid \ Rows
  /\ msglog' = [msglog EXCEPT ![r] = http[h].msg]

AppendFresh(h, r) ==
  /\ Insert(h, r)
  /\ http' = [http EXCEPT ![h] =
                [pc |-> "send", row |-> r, msg |-> http[h].msg, code |-> "none"]]
  /\ UNCHANGED <<tomb, errors, phase, ctx, msgCh, replay, sched, history>>

\* The statement committed, but the request's deadline turned reading its
\* result into an error: the row exists and nobody queues it.
AppendLost(h, r) ==
  /\ Insert(h, r)
  /\ Answer(h, "500")
  /\ unreported' = unreported \union {r}
  /\ UNCHANGED <<tomb, errors, phase, ctx, msgCh, replay, sched,
                 acked, delivered, attempted, stranded>>

\* Mutant: the rowid of a duplicate is queued like that of a new message.
AppendDuplicateQueues(h) ==
  /\ http[h].pc = "append" /\ DatabaseOpen
  /\ \E r \in Rows :
       /\ msglog[r] = http[h].msg
       /\ http' = [http EXCEPT ![h] =
                     [pc |-> "send", row |-> r, msg |-> http[h].msg, code |-> "none"]]
  /\ UNCHANGED <<durable, phase, ctx, msgCh, replay, sched, history>>

\* The UNIQUE message id is there already, pending or not: no row, success.
AppendDuplicate(h) ==
  /\ http[h].pc = "append" /\ DatabaseOpen
  /\ http[h].msg \in Logged
  /\ Answer(h, "200")
  /\ UNCHANGED <<durable, phase, ctx, msgCh, replay, sched, history>>

\* Mutant: every error of the insert is taken for a duplicate.
AppendFailAsDuplicate(h) ==
  /\ http[h].pc = "append"
  /\ Answer(h, "200")
  /\ UNCHANGED <<durable, phase, ctx, msgCh, replay, sched, history>>

AppendFail(h) ==
  /\ http[h].pc = "append"
  /\ Answer(h, "500")
  /\ UNCHANGED <<durable, phase, ctx, msgCh, replay, sched, history>>

Enqueue(h) ==
  /\ http[h].pc = "send" /\ Len(msgCh) < QSize
  /\ msgCh' = Append(msgCh, http[h].row)
  /\ Answer(h, "200")
  /\ UNCHANGED <<durable, phase, ctx, replay, sched, history>>

\* The request's deadline passed before the channel had room, or while the
\* select could choose either.
EnqueueTimeout(h) ==
  /\ http[h].pc = "send"
  /\ Answer(h, "503")
  /\ stranded' = stranded \union {http[h].row}
  /\ UNCHANGED <<durable, phase, ctx, msgCh, replay, sched,
                 acked, delivered, attempted, unreported>>

\* The handler returns and the answer goes out.
Respond(h) ==
  /\ http[h].pc = "respond"
  /\ acked' = IF http[h].code = "200" THEN acked \union {http[h].msg} ELSE acked
  /\ http' = [http EXCEPT ![h] = IdleHttp]
  /\ UNCHANGED <<durable, phase, ctx, msgCh, replay, sched, delivered, attempted, stranded, unreported>>

----------------------------------------------------------------------------
(* EditSub pauses the workers: pauseMsgProc *)

PauseAsk(e) ==
  /\ phase = "running" /\ editor[e] = "idle"
  /\ editor' = [editor EXCEPT ![e] = "waiting"]
  /\ waiters' = Append(waiters, e)
  /\ UNCHANGED <<durable, phase, ctx, msgCh, replay, loop, proc, http, history>>

\* Mutant: the pause takes one permit.
PauseGrantedOne(e) ==
  /\ editor[e] = "waiting" /\ AtFront(e) /\ OneFree
  /\ editor' = [editor EXCEPT ![e] = "holding"]
  /\ waiters' = Tail(waiters)
  /\ UNCHANGED <<durable, phase, ctx, msgCh, replay, loop, proc, http, history>>

PauseGranted(e) ==
  /\ editor[e] = "waiting" /\ AtFront(e) /\ AllFree
  /\ editor' = [editor EXCEPT ![e] = "holding"]
  /\ waiters' = Tail(waiters)
  /\ UNCHANGED <<durable, phase, ctx, msgCh, replay, loop, proc, http, history>>

PauseTimeout(e) ==
  /\ editor[e] = "waiting"
  /\ ~(AtFront(e) /\ AllFree)
  /\ editor' = [editor EXCEPT ![e] = "idle"]
  /\ waiters' \in Leaving(e)
  /\ UNCHANGED <<durable, phase, ctx, msgCh, replay, loop, proc, http, history>>

Resume(e) ==
  /\ editor[e] = "holding"
  /\ editor' = [editor EXCEPT ![e] = "idle"]
  /\ UNCHANGED <<durable, phase, ctx, msgCh, replay, loop, proc, waiters, http, history>>

----------------------------------------------------------------------------
(* The end of the process: Run, stopServer *)

\* The user or the service manager stops the program.
Cancel ==
  /\ phase \in {"replay", "running"} /\ ctx = "live"
  /\ ctx' = "done"
  /\ UNCHANGED <<durable, phase, msgCh, replay, sched, http, history>>

\* stopServer gives Shutdown a context derived from the one that is done: it
\* closes the listener and returns at once, requests still being served.
StopServer ==
  /\ phase = "running" /\ ctx = "done"
  /\ phase' = "stopping"
  /\ UNCHANGED <<durable, ctx, msgCh, replay, sched, http, history>>

\* Serve failed: the child context is cancelled.
ServeError ==
  /\ phase = "running"
  /\ phase' = "stopping"
  /\ ctx' = IF ctx = "live" THEN "child" ELSE ctx
  /\ UNCHANGED <<durable, msgCh, replay, sched, http, history>>

\* wg.Wait returned; the deferred function closes the database.
Quit ==
  /\ phase = "stopping" /\ loop.pc = "done"
  /\ phase' = "exited"
  /\ UNCHANGED <<durable, ctx, msgCh, replay, sched, http, history>>

\* The goroutines are gone, the database stays.
Gone ==
  /\ phase' = "down" /\ ctx' = "live"
  /\ msgCh' = <<>>
  /\ replay' = NoReplay /\ loop' = NoLoop /\ waiters' = <<>>
  /\ proc' = [p \in Proc |-> IdleProc]
  /\ editor' = [e \in Editor |-> "idle"]
  /\ http' = [h \in Handler |-> IdleHttp]
  /\ attempted' = {} /\ stranded' = {} /\ unreported' = {}
  /\ UNCHANGED <<durable, acked, delivered>>

\* main returns after Run did.
Exit == phase = "exited" /\ Gone

\* The process dies at any other moment.
Crash == phase \in {"replay", "running", "stopping"} /\ Gone

----------------------------------------------------------------------------
\* Mutant: the batch is not restricted to tombstones.
CollectAny(R) ==
  /\ phase \in {"running", "stopping"}
  /\ R # {} /\ R \subseteq Rows
  /\ msglog' = [r \in Rowid |-> IF r \in R THEN None ELSE msglog[r]]
  /\ tomb' = tomb \ R
  /\ errors' = errors \ {msglog[r] : r \in R}
  /\ UNCHANGED <<phase, ctx, msgCh, replay, sched, http, history>>

\* A batch of the garbage collector (module Collector) deletes tombstones, and the
\* foreign key deletes the errors that name them (ON DELETE CASCADE).
Collect(R) ==
  /\ phase \in {"running", "stopping"}
  /\ R # {} /\ R \subseteq tomb
  /\ msglog' = [r \in Rowid |-> IF r \in R THEN None ELSE msglog[r]]
  /\ tomb' = tomb \ R
  /\ errors' = errors \ {msglog[r] : r \in R}
  /\ UNCHANGED <<phase, ctx, msgCh, replay, sched, http, history>>

ReplayStep == ReplayNext \/ ReplaySend \/ ReplayClose \/ ReplayDone

LoopStep ==
  \/ LoopReceive \/ LoopCancelled \/ LoopClosed
  \/ \E p \in Proc : LoopAcquire(p)
  \/ LoopAcquireCancelled \/ LoopDrained

WorkerStep(p) ==
  \/ WorkerRead(p) \/ WorkerReadFail(p)
  \/ WorkerFail(p) \/ WorkerDeliver(p)
  \/ WorkerRetire(p) \/ WorkerRetireFail(p) \/ WorkerRecord(p)

HandlerStep(h) ==
  \/ \E r \in Rowid : AppendFresh(h, r) \/ AppendLost(h, r)
  \/ AppendDuplicate(h) \/ AppendFail(h)
  \/ Enqueue(h) \/ EnqueueTimeout(h) \/ Respond(h)

EditorStep(e) == PauseGranted(e) \/ PauseTimeout(e) \/ Resume(e)

RunStep == StopServer \/ Quit \/ Exit

Next ==
  \/ Start \/ ReplayStep \/ LoopStep
  \/ \E p \in Proc : WorkerStep(p)
  \/ \E h \in Handler : HandlerStep(h) \/ \E m \in Message : Post(h, m)
  \/ \E e \in Editor : EditorStep(e) \/ PauseAsk(e)
  \/ RunStep \/ Cancel \/ ServeError \/ Crash
  \/ \E R \in SUBSET Rowid : Collect(R)

Spec == Init /\ [][Next]_vars

\* The Go scheduler runs every goroutine that can go on, semaphore waiters are
\* served in order, requests have a deadline, and a worker ends: its deadline
\* is that of the commands its template runs, so this is an assumption on the
\* template.
Fairness ==
  /\ WF_vars(ReplayStep) /\ WF_vars(LoopStep) /\ WF_vars(RunStep)
  /\ \A p \in Proc : WF_vars(WorkerStep(p))
  /\ \A h \in Handler : WF_vars(HandlerStep(h))
  /\ \A e \in Editor : WF_vars(EditorStep(e))

FairSpec == Spec /\ Fairness

----------------------------------------------------------------------------
(* Where rowids are *)

ReplayRows  == (replay.todo \union {replay.row}) \ {None}
QueueRows   == ToSet(msgCh)
LoopRows    == {loop.row} \ {None}
WorkerRows  == {proc[p].row : p \in Proc} \ {None}
HandlerRows == {http[h].row : h \in Handler} \ {None}
LostRows    == stranded \union unreported

\* Every rowid the process knows of is in one of these places.
Stage == <<ReplayRows, QueueRows, LoopRows, WorkerRows, HandlerRows, attempted, LostRows>>

InFlight == ReplayRows \union QueueRows \union LoopRows \union WorkerRows \union HandlerRows

PendingMsgs == {msglog[r] : r \in Pending}
TombMsgs    == {msglog[r] : r \in tomb}

----------------------------------------------------------------------------
(* Properties *)

ReplayState == [pc : {"off", "next", "send", "finish", "abort"}, row : Rowid \union {None},
                todo : SUBSET Rowid]
LoopState   == [pc : {"off", "select", "acquire", "drain", "done"}, row : Rowid \union {None}]
ProcState   == [pc : {"idle", "query", "work", "retire", "record"},
                row : Rowid \union {None}, msg : Message \union {None}]
HttpState   == [pc : {"idle", "append", "send", "respond"}, row : Rowid \union {None},
                msg : Message \union {None}, code : {"none", "200", "500", "503"}]

TypeOK ==
  /\ msglog \in [Rowid -> Message \union {None}]
  /\ tomb \subseteq Rowid /\ errors \subseteq Message
  /\ phase \in {"down", "replay", "running", "stopping", "exited"}
  /\ ctx \in {"live", "child", "done"}
  /\ msgCh \in Seq(Rowid)
  /\ replay \in ReplayState
  /\ loop \in LoopState
  /\ proc \in [Proc -> ProcState]
  /\ editor \in [Editor -> {"idle", "waiting", "holding"}]
  /\ http \in [Handler -> HttpState]
  /\ acked \subseteq Message /\ delivered \subseteq Message
  /\ attempted \subseteq Rowid /\ stranded \subseteq Rowid /\ unreported \subseteq Rowid

\* A rowid on its way to a worker names a pending row, never a tombstone, a
\* collected row or a row that took over the rowid of one: the branch of
\* runMsgProc commented "already processed message, shouldn't happen?" is dead,
\* and a worker records, delivers and retires the message it read.
InFlightIsPending ==
  /\ \A s \in DOMAIN Stage : Stage[s] \subseteq Pending
  /\ \A p \in Proc : proc[p].pc \in {"work", "retire", "record"} =>
       proc[p].msg = msglog[proc[p].row]
  /\ \A h \in Handler : http[h].pc = "send" => http[h].msg = msglog[http[h].row]

\* No row is worked on twice in one life of the process: it is in one place
\* only, the channel holds it once, and it is on no way to a worker again once
\* a worker gave it up.
NoDoubleWork ==
  /\ \A s, t \in DOMAIN Stage : s # t => Stage[s] \intersect Stage[t] = {}
  /\ \A i, j \in DOMAIN msgCh : msgCh[i] = msgCh[j] => i = j
  /\ \A p, q \in Proc : proc[p].row # None /\ proc[p].row = proc[q].row => p = q
  /\ \A g, h \in Handler : http[g].row # None /\ http[g].row = http[h].row => g = h
  /\ replay.row \notin replay.todo

\* Until the context is cancelled, every pending row is on its way to a worker,
\* or was given up by one, or was logged by a request that answered an error.
NothingForgotten ==
  phase \in {"replay", "running"} /\ ctx = "live" =>
    Pending \subseteq InFlight \union attempted \union LostRows

\* A message SNS was answered 200 for, so that it will not post it again, is
\* pending in the log or was delivered, across crashes and collections.
AckedIsDurable == acked \subseteq PendingMsgs \union delivered

\* The errors that GetErrors reports are those of messages still to be delivered.
\* Its foreign key keeps table errors to messages that are in the log; that none of
\* them was delivered relies on the trigger of retiring, which fires once, and on
\* no other worker having the row then and recording an error later.
ErrorsArePending == errors \subseteq PendingMsgs

\* Run never closes the database under a worker, and no request sends on the
\* channel replayLog closes.
OrderlyShutdown ==
  /\ phase = "exited" => IdleProcs = Proc
  /\ Closed => \A h \in Handler : http[h].pc = "idle"

\* While EditSub holds the pause no delivery is under way.
PauseIsExclusive ==
  \A e \in Editor : editor[e] = "holding" =>
    /\ IdleProcs = Proc
    /\ \A d \in Editor \ {e} : editor[d] # "holding"

\* The pipeline keeps the promise of module Notifications.
Abstract == INSTANCE Notifications
  WITH logged <- PendingMsgs, retired <- TombMsgs
Refinement == Abstract!NSpec

\* A pending row is eventually taken up by a worker (retired or given up),
\* unless its request answered an error or the process is going down.
EveryRowAttempted ==
  \A r \in Rowid :
    phase \in {"replay", "running"} /\ r \in Pending ~>
      \/ r \notin Pending \/ r \in attempted \union LostRows
      \/ ctx # "live" \/ phase \in {"down", "exited"}

\* replayLog is blocked for ever on the channel nobody receives from.
ReplayStuck == replay.pc = "send" /\ loop.pc = "done" /\ Len(msgCh) = QSize

\* Cancelling the context stops the program, or leaves it in replayLog's send.
CancelStops == ctx = "done" ~> phase = "down" \/ ReplayStuck

----------------------------------------------------------------------------
(* What comments and documents say, which the code does not keep *)

\* doc/README.md: a notification is stored and its rowid sent to the message
\* processor.  When a request is answered 200, its row is on its way to a
\* worker, was given up by one, or its message was delivered (rows of an INSERT
\* reported as failed aside).
StoredIsSent ==
  ctx = "live" => \A h \in Handler :
    http[h].pc = "respond" /\ http[h].code = "200" =>
      http[h].msg \in
        delivered \union {msglog[r] : r \in InFlight \union attempted \union unreported}

\* config.go: Shutdown waits for active connections to finish.  After a
\* cancelled Run no request is still being served.
ConnectionsFinished ==
  phase = "exited" /\ ctx = "done" => \A h \in Handler : http[h].pc = "idle"
============================================================================
