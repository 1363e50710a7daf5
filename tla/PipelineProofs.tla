-------------------------- MODULE PipelineProofs --------------------------
(***************************************************************************)
(* Proofs about module Pipeline, for every set of messages, rowids,        *)
(* requests, workers and editors and every capacity of the queue: its      *)
(* types, its safety invariants and that it implements Notifications.      *)
(***************************************************************************)
EXTENDS Pipeline, TLAPS

----------------------------------------------------------------------------
(* The rowids in a channel *)

\* Sending on a channel adds one rowid to what it holds.
LEMMA SendAdds ==
  ASSUME NEW S, NEW s \in Seq(S), NEW x \in S
  PROVE  /\ Append(s, x) \in Seq(S)
         /\ ToSet(Append(s, x)) = ToSet(s) \union {x}
         /\ (\A i, j \in DOMAIN s : s[i] = s[j] => i = j) /\ x \notin ToSet(s) =>
              \A i, j \in DOMAIN Append(s, x) : Append(s, x)[i] = Append(s, x)[j] => i = j
<1> DEFINE t == Append(s, x)
<1>1. /\ t \in Seq(S)
      /\ Len(t) = Len(s) + 1
      /\ DOMAIN t = 1..(Len(s) + 1) /\ DOMAIN s = 1..Len(s)
      /\ t[Len(s) + 1] = x
      /\ \A i \in 1..Len(s) : t[i] = s[i]
  OBVIOUS
<1>2. ToSet(t) = ToSet(s) \union {x}
  BY <1>1 DEF ToSet
<1>3. ASSUME \A i, j \in DOMAIN s : s[i] = s[j] => i = j, x \notin ToSet(s),
             NEW i \in DOMAIN t, NEW j \in DOMAIN t, t[i] = t[j]
      PROVE  i = j
  <2>1. \A k \in 1..Len(s) : t[k] # x
    BY <1>1, <1>3 DEF ToSet
  <2> QED BY <2>1, <1>1, <1>3
<1> QED BY <1>1, <1>2, <1>3

\* Receiving takes the first rowid out.
LEMMA ReceiveRemoves ==
  ASSUME NEW S, NEW s \in Seq(S), s # <<>>
  PROVE  /\ Tail(s) \in Seq(S) /\ Head(s) \in S
         /\ ToSet(s) = ToSet(Tail(s)) \union {Head(s)}
         /\ (\A i, j \in DOMAIN s : s[i] = s[j] => i = j) =>
              /\ \A i, j \in DOMAIN Tail(s) : Tail(s)[i] = Tail(s)[j] => i = j
              /\ Head(s) \notin ToSet(Tail(s))
<1> DEFINE t == Tail(s)
<1>1. /\ t \in Seq(S) /\ Head(s) = s[1]
      /\ Len(s) \in Nat \ {0} /\ Len(t) = Len(s) - 1
      /\ DOMAIN t = 1..(Len(s) - 1) /\ DOMAIN s = 1..Len(s)
      /\ \A i \in 1..(Len(s) - 1) : t[i] = s[i + 1]
  OBVIOUS
<1>2. Head(s) \in S /\ Head(s) \in ToSet(s)
  BY <1>1 DEF ToSet
<1>3. ToSet(t) \subseteq ToSet(s)
  BY <1>1 DEF ToSet
<1>4. ASSUME NEW i \in DOMAIN s, s[i] # s[1]
      PROVE  s[i] \in ToSet(t)
  <2>1. i - 1 \in DOMAIN t /\ t[i - 1] = s[i]
    BY <1>1, <1>4
  <2> QED BY <2>1 DEF ToSet
<1>5. ToSet(s) = ToSet(t) \union {Head(s)}
  BY <1>1, <1>2, <1>3, <1>4 DEF ToSet
<1>6. ASSUME \A i, j \in DOMAIN s : s[i] = s[j] => i = j
      PROVE  /\ \A i, j \in DOMAIN t : t[i] = t[j] => i = j
             /\ Head(s) \notin ToSet(t)
  <2>1. ASSUME NEW i \in DOMAIN t, NEW j \in DOMAIN t, t[i] = t[j]
        PROVE  i = j
    <3>1. i + 1 \in DOMAIN s /\ j + 1 \in DOMAIN s /\ s[i + 1] = s[j + 1]
      BY <1>1, <2>1
    <3>2. i + 1 = j + 1
      BY <3>1, <1>6
    <3> QED BY <3>2, <1>1
  <2>2. ASSUME NEW i \in DOMAIN t
        PROVE  t[i] # Head(s)
    <3>1. i + 1 \in DOMAIN s /\ 1 \in DOMAIN s /\ i + 1 # 1 /\ t[i] = s[i + 1]
      BY <1>1
    <3> QED BY <3>1, <1>1, <1>6
  <2> QED BY <2>1, <2>2 DEF ToSet
<1> QED BY <1>1, <1>2, <1>5, <1>6

\* An empty channel holds nothing.
LEMMA EmptyHoldsNothing == ToSet(<<>>) = {} /\ DOMAIN <<>> = {}
  BY DEF ToSet

----------------------------------------------------------------------------
(* The inductive invariant *)

\* How the control states of the goroutines go together.
Shape ==
  /\ \A p \in Proc :
       /\ proc[p].pc = "idle" <=> proc[p].row = None
       /\ proc[p].pc \in {"work", "retire", "record"} => proc[p].msg # None
  /\ \A h \in Handler :
       /\ http[h].pc = "send" <=> http[h].row # None
       /\ http[h].pc # "idle" => http[h].msg # None
       /\ phase \in {"down", "replay"} => http[h].pc = "idle"
  /\ replay.pc = "send" <=> replay.row # None
  /\ phase = "replay" <=> replay.pc # "off"
  /\ replay.pc \in {"off", "finish"} => replay.todo = {}
  /\ loop.pc = "acquire" <=> loop.row # None
  /\ loop.pc = "off" => phase \in {"down", "exited"}
  /\ loop.pc \in {"off", "done"} => \A p \in Proc : proc[p].pc = "idle"
  /\ loop.pc \in {"drain", "done"} /\ ctx = "live" => Closed /\ msgCh = <<>>
  /\ phase = "exited" => loop.pc \in {"off", "done"}
  /\ ctx = "child" => phase \in {"stopping", "exited"}
  /\ phase = "down" =>
       loop.pc = "off" /\ msgCh = <<>> /\ attempted = {} /\ stranded = {} /\ unreported = {}

\* The UNIQUE constraint on message ids, and tombstones are rows.
LogOK ==
  /\ \A r, s \in Rows : msglog[r] = msglog[s] => r = s
  /\ tomb \subseteq Rows

\* A message is retired after it was delivered, and answered 200 when it is in
\* the log or was delivered.
DeliveryOK ==
  /\ \A r \in tomb : msglog[r] \in delivered
  /\ \A p \in Proc : proc[p].pc = "retire" => proc[p].msg \in delivered
  /\ \A h \in Handler : http[h].pc = "respond" /\ http[h].code = "200" =>
       http[h].msg \in PendingMsgs \union delivered

IInv ==
  /\ TypeOK
  /\ Shape
  /\ PauseIsExclusive
  /\ LogOK
  /\ InFlightIsPending
  /\ NoDoubleWork
  /\ NothingForgotten
  /\ ErrorsArePending
  /\ DeliveryOK
  /\ AckedIsDurable

USE DEF durable, sched, history

\* The initial state satisfies it.
LEMMA InitIInv == Init => IInv
<1> SUFFICES ASSUME Init PROVE IInv
  OBVIOUS
<1> USE PipelineConstants, EmptyHoldsNothing DEF Init
<1>1. TypeOK
  <2>1. NoReplay \in ReplayState /\ NoLoop \in LoopState
    BY DEF ReplayState, LoopState, NoReplay, NoLoop
  <2>2. IdleProc \in ProcState /\ IdleHttp \in HttpState
    BY DEF ProcState, HttpState, IdleProc, IdleHttp
  <2> QED BY <2>1, <2>2 DEF TypeOK
<1>2. Shape
  BY DEF Shape, NoReplay, NoLoop, IdleProc, IdleHttp
<1>3. Rows = {} /\ Pending = {} /\ PendingMsgs = {}
  BY DEF Rows, Pending, PendingMsgs
<1>4. /\ ReplayRows = {} /\ QueueRows = {} /\ LoopRows = {} /\ WorkerRows = {}
      /\ HandlerRows = {} /\ attempted = {} /\ LostRows = {}
  BY DEF ReplayRows, QueueRows, LoopRows, WorkerRows, HandlerRows, LostRows,
         NoReplay, NoLoop, IdleProc, IdleHttp
<1>5. InFlightIsPending /\ NoDoubleWork
  BY <1>4 DEF InFlightIsPending, NoDoubleWork, Stage, NoReplay, IdleProc, IdleHttp
<1>6. PauseIsExclusive /\ NothingForgotten /\ ErrorsArePending /\ AckedIsDurable
  BY DEF PauseIsExclusive, NothingForgotten, ErrorsArePending, AckedIsDurable
<1>7. LogOK /\ DeliveryOK
  BY <1>3 DEF LogOK, DeliveryOK, IdleProc, IdleHttp
<1> QED BY <1>1, <1>2, <1>5, <1>6, <1>7 DEF IInv

----------------------------------------------------------------------------
(* Types and control states *)

\* Every step preserves the types.
LEMMA TypeStep == TypeOK /\ Shape /\ [Next]_vars => TypeOK'
<1> SUFFICES ASSUME TypeOK, Shape, [Next]_vars PROVE TypeOK'
  OBVIOUS
<1> USE PipelineConstants
<1>1. CASE UNCHANGED vars
  BY <1>1 DEF TypeOK, vars
<1>2. CASE Start
  <2>1. loop' \in LoopState /\ replay' \in ReplayState
    BY <1>2 DEF TypeOK, Start, NewLoop, NoReplay, Pending, Rows, LoopState, ReplayState
  <2> QED BY <2>1, <1>2 DEF TypeOK, Start
<1>3. CASE ReplayNext
  <2>1. replay' \in ReplayState
    BY <1>3 DEF TypeOK, ReplayNext, ReplayState
  <2> QED BY <2>1, <1>3 DEF TypeOK, ReplayNext
<1>4. CASE ReplaySend
  <2>1. replay.row \in Rowid /\ replay' \in ReplayState
    BY <1>4 DEF TypeOK, ReplaySend, Shape, ReplayState
  <2>2. msgCh' \in Seq(Rowid)
    BY <1>4, <2>1, SendAdds DEF TypeOK, ReplaySend
  <2> QED BY <2>1, <2>2, <1>4 DEF TypeOK, ReplaySend
<1>5. CASE ReplayClose
  <2>1. replay' \in ReplayState
    BY <1>5 DEF TypeOK, ReplayClose, ReplayState
  <2> QED BY <2>1, <1>5 DEF TypeOK, ReplayClose
<1>6. CASE ReplayDone
  <2>1. loop' \in LoopState /\ replay' \in ReplayState
    BY <1>6 DEF ReplayDone, NewLoop, NoLoop, NoReplay, LoopState, ReplayState
  <2> QED BY <2>1, <1>6 DEF TypeOK, ReplayDone
<1>7. CASE LoopReceive
  <2>1. msgCh' \in Seq(Rowid) /\ Head(msgCh) \in Rowid
    BY <1>7, ReceiveRemoves DEF TypeOK, LoopReceive
  <2>2. loop' \in LoopState
    BY <1>7, <2>1 DEF LoopReceive, LoopState
  <2> QED BY <2>1, <2>2, <1>7 DEF TypeOK, LoopReceive
<1>8. CASE LoopCancelled \/ LoopClosed \/ LoopAcquireCancelled \/ LoopDrained
  <2>1. loop' \in LoopState
    BY <1>8 DEF TypeOK, LoopCancelled, LoopClosed, LoopAcquireCancelled, LoopDrained, LoopState
  <2> QED BY <2>1, <1>8 DEF TypeOK, LoopCancelled, LoopClosed, LoopAcquireCancelled, LoopDrained
<1>9. ASSUME NEW p \in Proc, LoopAcquire(p)
      PROVE  TypeOK'
  <2>1. loop' \in LoopState
    BY <1>9 DEF LoopAcquire, NewLoop, LoopState
  <2>2. proc' \in [Proc -> ProcState]
    BY <1>9 DEF TypeOK, LoopAcquire, LoopState, ProcState
  <2> QED BY <2>1, <2>2, <1>9 DEF TypeOK, LoopAcquire
<1>10. ASSUME NEW p \in Proc, WorkerStep(p)
       PROVE  TypeOK'
  <2>1. proc[p].pc # "idle" => proc[p].row \in Rowid
    BY DEF TypeOK, Shape, ProcState
  <2>2. proc' \in [Proc -> ProcState]
    BY <2>1, <1>10 DEF TypeOK, ProcState, WorkerStep, WorkerRead, WorkerReadFail, WorkerFail,
       WorkerDeliver, WorkerRetire, WorkerRetireFail, WorkerRecord, GiveUp, IdleProc
  <2>3. attempted' \subseteq Rowid /\ tomb' \subseteq Rowid
    BY <2>1, <1>10 DEF TypeOK, WorkerStep, WorkerRead, WorkerReadFail, WorkerFail,
       WorkerDeliver, WorkerRetire, WorkerRetireFail, WorkerRecord, GiveUp
  <2>4. proc[p].pc \in {"work", "retire", "record"} => proc[p].msg \in Message
    BY DEF TypeOK, Shape, ProcState
  <2>5. delivered' \subseteq Message /\ errors' \subseteq Message
    BY <2>4, <1>10 DEF TypeOK, WorkerStep, WorkerRead, WorkerReadFail, WorkerFail,
       WorkerDeliver, WorkerRetire, WorkerRetireFail, WorkerRecord
  <2> QED BY <2>2, <2>3, <2>5, <1>10 DEF TypeOK, WorkerStep, WorkerRead, WorkerReadFail, WorkerFail,
       WorkerDeliver, WorkerRetire, WorkerRetireFail, WorkerRecord
<1>11. ASSUME NEW h \in Handler, NEW m \in Message, Post(h, m)
       PROVE  TypeOK'
  <2>1. http' \in [Handler -> HttpState]
    BY <1>11 DEF TypeOK, Post, IdleHttp, HttpState
  <2> QED BY <2>1, <1>11 DEF TypeOK, Post
<1>12. ASSUME NEW h \in Handler, HandlerStep(h)
       PROVE  TypeOK'
  <2>1. http[h].pc # "idle" => http[h].msg \in Message
    BY DEF TypeOK, Shape, HttpState
  <2>2. http[h].pc = "send" => http[h].row \in Rowid
    BY DEF TypeOK, Shape, HttpState
  <2>3. http' \in [Handler -> HttpState]
    <3>1. ASSUME NEW c \in {"200", "500", "503"}, Answer(h, c)
          PROVE  http' \in [Handler -> HttpState]
      BY <3>1 DEF TypeOK, Answer, HttpState
    <3>2. ASSUME NEW r \in Rowid, AppendFresh(h, r)
          PROVE  http' \in [Handler -> HttpState]
      BY <3>2 DEF TypeOK, AppendFresh, HttpState
    <3>3. ASSUME Respond(h)
          PROVE  http' \in [Handler -> HttpState]
      BY <3>3 DEF TypeOK, Respond, IdleHttp, HttpState
    <3> QED BY <3>1, <3>2, <3>3, <1>12
            DEF HandlerStep, AppendLost, AppendDuplicate, AppendFail, Enqueue, EnqueueTimeout
  <2>4. ASSUME NEW r \in Rowid, AppendFresh(h, r) \/ AppendLost(h, r)
        PROVE  TypeOK'
    <3>1. msglog' \in [Rowid -> Message \union {None}]
      BY <2>1, <2>4 DEF TypeOK, AppendFresh, AppendLost, Insert
    <3> QED BY <2>3, <2>4, <3>1 DEF TypeOK, AppendFresh, AppendLost
  <2>5. CASE AppendDuplicate(h) \/ AppendFail(h)
    BY <2>3, <2>5 DEF TypeOK, AppendDuplicate, AppendFail
  <2>6. CASE Enqueue(h)
    <3>1. msgCh' \in Seq(Rowid)
      BY <2>2, <2>6, SendAdds DEF TypeOK, Enqueue
    <3> QED BY <2>3, <3>1, <2>6 DEF TypeOK, Enqueue
  <2>7. CASE EnqueueTimeout(h)
    BY <2>2, <2>3, <2>7 DEF TypeOK, EnqueueTimeout
  <2>8. CASE Respond(h)
    BY <2>1, <2>3, <2>8 DEF TypeOK, Respond
  <2> QED BY <1>12, <2>4, <2>5, <2>6, <2>7, <2>8 DEF HandlerStep
<1>13. ASSUME NEW e \in Editor, PauseAsk(e) \/ EditorStep(e)
       PROVE  TypeOK'
  BY <1>13 DEF TypeOK, PauseAsk, EditorStep, PauseGranted, PauseTimeout, Resume
<1>14. CASE Cancel \/ StopServer \/ ServeError \/ Quit
  BY <1>14 DEF TypeOK, Cancel, StopServer, ServeError, Quit
<1>15. CASE Exit \/ Crash
  <2>1. Gone
    BY <1>15 DEF Exit, Crash
  <2>2. NoReplay \in ReplayState /\ NoLoop \in LoopState
    BY DEF ReplayState, LoopState, NoReplay, NoLoop
  <2>3. IdleProc \in ProcState /\ IdleHttp \in HttpState
    BY DEF ProcState, HttpState, IdleProc, IdleHttp
  <2> QED BY <2>1, <2>2, <2>3 DEF TypeOK, Gone
<1>16. ASSUME NEW R \in SUBSET Rowid, Collect(R)
       PROVE  TypeOK'
  BY <1>16 DEF TypeOK, Collect
<1> QED BY <1>1, <1>2, <1>3, <1>4, <1>5, <1>6, <1>7, <1>8, <1>9, <1>10, <1>11, <1>12,
           <1>13, <1>14, <1>15, <1>16
        DEF Next, ReplayStep, LoopStep, RunStep

\* Every step keeps the control states of the goroutines together.
LEMMA ShapeStep == TypeOK /\ Shape /\ [Next]_vars => Shape'
<1> SUFFICES ASSUME TypeOK, Shape, [Next]_vars PROVE Shape'
  OBVIOUS
<1> USE PipelineConstants DEF TypeOK, ReplayState, LoopState, ProcState, HttpState
<1>1. CASE UNCHANGED vars
  BY <1>1 DEF Shape, Closed, vars
<1>2. CASE Start
  BY <1>2 DEF Shape, Closed, Start, NewLoop, NoReplay
<1>3. CASE ReplayNext
  BY <1>3 DEF Shape, Closed, ReplayNext
<1>4. CASE ReplaySend
  BY <1>4 DEF Shape, Closed, ReplaySend
<1>5. CASE ReplayClose
  BY <1>5 DEF Shape, Closed, ReplayClose
<1>6. CASE ReplayDone
  BY <1>6 DEF Shape, Closed, ReplayDone, NoReplay, NoLoop, NewLoop
<1>7. CASE LoopReceive
  <2>1. Head(msgCh) \in Rowid
    BY <1>7, ReceiveRemoves DEF LoopReceive
  <2> QED BY <2>1, <1>7 DEF Shape, Closed, LoopReceive
<1>8. CASE LoopCancelled \/ LoopClosed \/ LoopAcquireCancelled
  BY <1>8 DEF Shape, Closed, LoopCancelled, LoopClosed, LoopAcquireCancelled
<1>9. CASE LoopDrained
  BY <1>9 DEF Shape, Closed, LoopDrained, AllFree, IdleProcs
<1>10. ASSUME NEW p \in Proc, LoopAcquire(p)
       PROVE  Shape'
  BY <1>10 DEF Shape, Closed, LoopAcquire, NewLoop
<1>11. ASSUME NEW p \in Proc, WorkerStep(p)
       PROVE  Shape'
  <2>1. \A q \in Proc \ {p} : proc'[q] = proc[q]
    BY <1>11 DEF WorkerStep, WorkerRead, WorkerReadFail, WorkerFail, WorkerDeliver,
       WorkerRetire, WorkerRetireFail, WorkerRecord, GiveUp
  <2>2. /\ proc'[p].pc = "idle" <=> proc'[p].row = None
        /\ proc'[p].pc \in {"work", "retire", "record"} => proc'[p].msg # None
    BY <1>11 DEF Shape, WorkerStep, WorkerRead, WorkerReadFail, WorkerFail, WorkerDeliver,
       WorkerRetire, WorkerRetireFail, WorkerRecord, GiveUp, IdleProc, Pending, Rows
  <2>3. proc[p].pc # "idle" /\ phase # "down"
    BY <1>11 DEF Shape, WorkerStep, WorkerRead, WorkerReadFail, WorkerFail, WorkerDeliver,
       WorkerRetire, WorkerRetireFail, WorkerRecord
  <2>4. UNCHANGED <<phase, ctx, msgCh, replay, loop, http>>
    BY <1>11 DEF WorkerStep, WorkerRead, WorkerReadFail, WorkerFail, WorkerDeliver,
       WorkerRetire, WorkerRetireFail, WorkerRecord
  <2> QED BY <2>1, <2>2, <2>3, <2>4 DEF Shape, Closed
<1>12. ASSUME NEW h \in Handler, NEW m \in Message, Post(h, m)
       PROVE  Shape'
  BY <1>12 DEF Shape, Closed, Post, IdleHttp
<1>13. ASSUME NEW h \in Handler, HandlerStep(h)
       PROVE  Shape'
  <2>1. http[h].pc # "idle" /\ phase \notin {"down", "replay"}
    BY <1>13 DEF Shape, HandlerStep, Insert, AppendFresh, AppendLost, AppendDuplicate, AppendFail,
       Enqueue, EnqueueTimeout, Respond
  <2>2. /\ \A g \in Handler \ {h} : http'[g] = http[g]
        /\ http'[h].pc = "send" <=> http'[h].row # None
        /\ http'[h].pc # "idle" => http'[h].msg # None
    BY <1>13 DEF Shape, HandlerStep, Insert, AppendFresh, AppendLost, AppendDuplicate, AppendFail,
       Enqueue, EnqueueTimeout, Respond, Answer, IdleHttp
  <2>3. UNCHANGED <<phase, ctx, replay, loop, proc>>
    BY <1>13 DEF HandlerStep, AppendFresh, AppendLost, AppendDuplicate, AppendFail,
       Enqueue, EnqueueTimeout, Respond
  <2>4. ~(loop.pc \in {"drain", "done"} /\ ctx = "live")
    BY <2>1 DEF Shape, Closed
  <2> QED BY <2>1, <2>2, <2>3, <2>4 DEF Shape, Closed
<1>14. ASSUME NEW e \in Editor, PauseAsk(e) \/ EditorStep(e)
       PROVE  Shape'
  BY <1>14 DEF Shape, Closed, PauseAsk, EditorStep, PauseGranted, PauseTimeout, Resume
<1>15. CASE Cancel \/ StopServer \/ ServeError \/ Quit
  BY <1>15 DEF Shape, Closed, Cancel, StopServer, ServeError, Quit
<1>16. CASE Exit \/ Crash
  <2>1. Gone
    BY <1>16 DEF Exit, Crash
  <2> QED BY <2>1 DEF Shape, Closed, Gone, NoReplay, NoLoop, IdleProc, IdleHttp
<1>17. ASSUME NEW R \in SUBSET Rowid, Collect(R)
       PROVE  Shape'
  BY <1>17 DEF Shape, Closed, Collect
<1> QED BY <1>1, <1>2, <1>3, <1>4, <1>5, <1>6, <1>7, <1>8, <1>9, <1>10, <1>11, <1>12,
           <1>13, <1>14, <1>15, <1>16, <1>17
        DEF Next, ReplayStep, LoopStep, RunStep

\* Nobody works while an editor holds the pause, in every step.
LEMMA PauseStep == TypeOK /\ Shape /\ PauseIsExclusive /\ [Next]_vars => PauseIsExclusive'
<1> SUFFICES ASSUME TypeOK, Shape, PauseIsExclusive, [Next]_vars PROVE PauseIsExclusive'
  OBVIOUS
<1> USE DEF TypeOK, PauseIsExclusive, IdleProcs
<1>1. CASE UNCHANGED <<proc, editor>>
  BY <1>1
<1>2. ASSUME NEW p \in Proc, LoopAcquire(p)
      PROVE  PauseIsExclusive'
  BY <1>2 DEF LoopAcquire, Unpaused
<1>3. ASSUME NEW p \in Proc, WorkerStep(p)
      PROVE  PauseIsExclusive'
  <2>1. proc[p].pc # "idle" /\ UNCHANGED editor
    BY <1>3 DEF WorkerStep, WorkerRead, WorkerReadFail, WorkerFail, WorkerDeliver,
       WorkerRetire, WorkerRetireFail, WorkerRecord
  <2>2. \A e \in Editor : editor[e] # "holding"
    BY <2>1
  <2> QED BY <2>1, <2>2
<1>4. ASSUME NEW e \in Editor, PauseAsk(e) \/ EditorStep(e)
      PROVE  PauseIsExclusive'
  BY <1>4 DEF PauseAsk, EditorStep, PauseGranted, PauseTimeout, Resume, AllFree, Unpaused
<1>5. CASE Exit \/ Crash
  BY <1>5 DEF Exit, Crash, Gone
<1> QED BY <1>1, <1>2, <1>3, <1>4, <1>5
        DEF vars, Next, ReplayStep, LoopStep, RunStep, HandlerStep, Start, ReplayNext, ReplaySend,
            ReplayClose, ReplayDone, LoopReceive, LoopCancelled, LoopClosed,
            LoopAcquireCancelled, LoopDrained, Post, AppendFresh, AppendLost, AppendDuplicate,
            AppendFail, Enqueue, EnqueueTimeout, Respond, Cancel, StopServer, ServeError, Quit,
            Collect

----------------------------------------------------------------------------
(* Where rowids are *)

\* The rows that two goroutines of a kind carry differ.
OneEach(P, f) == \A a, b \in P : f[a].row # None /\ f[a].row = f[b].row => a = b

\* When one goroutine of a kind changes, the rows of the kind change by its own.
LEMMA RowsOfUpdate ==
  ASSUME NEW P, NEW f, NEW g, NEW p \in P,
         \A q \in P \ {p} : g[q].row = f[q].row,
         OneEach(P, f)
  PROVE  /\ {g[q].row : q \in P} \ {None} =
              (({f[q].row : q \in P} \ {None}) \ {f[p].row}) \union ({g[p].row} \ {None})
         /\ g[p].row \notin ({f[q].row : q \in P} \ {None}) \ {f[p].row} => OneEach(P, g)
  BY DEF OneEach

\* When it lets go of its row, the row is none of theirs any more.
LEMMA RowsOfRelease ==
  ASSUME NEW P, NEW f, NEW g, NEW p \in P,
         \A q \in P \ {p} : g[q] = f[q], g[p].row = None,
         OneEach(P, f)
  PROVE  /\ {g[q].row : q \in P} \ {None} = ({f[q].row : q \in P} \ {None}) \ {f[p].row}
         /\ OneEach(P, g)
  BY DEF OneEach

\* The seven places hold pending rows only.
AllPending ==
  /\ ReplayRows \subseteq Pending /\ QueueRows \subseteq Pending /\ LoopRows \subseteq Pending
  /\ WorkerRows \subseteq Pending /\ HandlerRows \subseteq Pending
  /\ attempted \subseteq Pending /\ LostRows \subseteq Pending

Disjoint(A, B) == A \intersect B = {}

\* The seven places are disjoint.
Apart ==
  /\ Disjoint(ReplayRows, QueueRows) /\ Disjoint(ReplayRows, LoopRows)
  /\ Disjoint(ReplayRows, WorkerRows) /\ Disjoint(ReplayRows, HandlerRows)
  /\ Disjoint(ReplayRows, attempted) /\ Disjoint(ReplayRows, LostRows)
  /\ Disjoint(QueueRows, LoopRows) /\ Disjoint(QueueRows, WorkerRows)
  /\ Disjoint(QueueRows, HandlerRows) /\ Disjoint(QueueRows, attempted)
  /\ Disjoint(QueueRows, LostRows) /\ Disjoint(LoopRows, WorkerRows)
  /\ Disjoint(LoopRows, HandlerRows) /\ Disjoint(LoopRows, attempted)
  /\ Disjoint(LoopRows, LostRows) /\ Disjoint(WorkerRows, HandlerRows)
  /\ Disjoint(WorkerRows, attempted) /\ Disjoint(WorkerRows, LostRows)
  /\ Disjoint(HandlerRows, attempted) /\ Disjoint(HandlerRows, LostRows)
  /\ Disjoint(attempted, LostRows)

NoRepeat(s) == \A i, j \in DOMAIN s : s[i] = s[j] => i = j

\* The messages the workers read are those of their rows.
ReadOK == \A p \in Proc : proc[p].pc \in {"work", "retire", "record"} =>
            proc[p].msg = msglog[proc[p].row]

\* A request queues the row of its own message.
SendOK == \A h \in Handler : http[h].pc = "send" => http[h].msg = msglog[http[h].row]

Once ==
  /\ AllPending /\ Apart /\ ReadOK /\ SendOK
  /\ NoRepeat(msgCh) /\ OneEach(Proc, proc) /\ OneEach(Handler, http)
  /\ replay.row \notin replay.todo

\* Spelled out, the two invariants about places.
LEMMA OnceIs == /\ InFlightIsPending /\ NoDoubleWork <=> Once
                /\ InFlightIsPending' /\ NoDoubleWork' <=> Once'
  BY DEF InFlightIsPending, NoDoubleWork, Stage, Once, AllPending, Apart, Disjoint, ReadOK,
         SendOK, NoRepeat, OneEach

\* Every step keeps rowids in one place, pending while they are there, and
\* forgets none.
LEMMA OnceStep ==
  TypeOK /\ Shape /\ LogOK /\ Once /\ NothingForgotten /\ [Next]_vars =>
    Once' /\ LogOK' /\ NothingForgotten'
<1> SUFFICES ASSUME TypeOK, Shape, LogOK, Once, NothingForgotten, [Next]_vars
             PROVE  Once' /\ LogOK' /\ NothingForgotten'
  OBVIOUS
<1> USE PipelineConstants
<1> DEFINE replayed  == replay' = replay
           queued    == msgCh' = msgCh
           looped    == loop' = loop
           worked    == proc' = proc
           handled   == http' = http
           logSame   == UNCHANGED <<msglog, tomb>>
           endsSame  == UNCHANGED <<attempted, stranded, unreported>>
           runSame   == UNCHANGED <<phase, ctx>>
<1>1. /\ replayed => ReplayRows' = ReplayRows
      /\ queued => QueueRows' = QueueRows
      /\ looped => LoopRows' = LoopRows
      /\ worked => WorkerRows' = WorkerRows
      /\ handled => HandlerRows' = HandlerRows
      /\ endsSame => LostRows' = LostRows
      /\ logSame => Pending' = Pending /\ Rows' = Rows
      /\ logSame => LogOK'
      /\ logSame /\ worked => ReadOK'
      /\ msglog' = msglog /\ handled => SendOK'
  BY DEF ReplayRows, QueueRows, LoopRows, WorkerRows, HandlerRows, LostRows, Pending, Rows, LogOK,
         ReadOK, SendOK, Once
<1>2. CASE UNCHANGED vars
  BY <1>1, <1>2 DEF vars, Once, AllPending, Apart, NothingForgotten, InFlight
<1>3. CASE Start
  <2>1. /\ QueueRows = {} /\ LoopRows = {} /\ WorkerRows = {} /\ HandlerRows = {}
        /\ attempted = {} /\ LostRows = {}
    BY <1>3, EmptyHoldsNothing
       DEF Start, Shape, QueueRows, LoopRows, WorkerRows, HandlerRows, LostRows
  <2>2. ReplayRows' = Pending /\ LoopRows' = {} /\ None \notin Pending
    BY <1>3 DEF Start, NoReplay, NewLoop, ReplayRows, LoopRows, Pending, Rows
  <2>3. queued /\ worked /\ handled /\ endsSame /\ logSame
    BY <1>3 DEF Start
  <2>4. replay'.row \notin replay'.todo
    BY <1>3, <2>2 DEF Start, NoReplay
  <2> QED BY <1>1, <2>1, <2>2, <2>3, <2>4
         DEF Once, AllPending, Apart, NothingForgotten, InFlight, Disjoint
<1>4. CASE ReplayNext
  <2>1. /\ runSame /\ queued /\ looped /\ worked /\ handled /\ endsSame /\ logSame
        /\ ReplayRows' = ReplayRows /\ replay'.row \notin replay'.todo
    BY <1>4 DEF ReplayNext, ReplayRows, Shape, TypeOK, ReplayState
  <2> QED BY <1>1, <2>1
         DEF Once, AllPending, Apart, NothingForgotten, InFlight
<1>5. CASE ReplaySend
  <2>1. /\ runSame /\ looped /\ worked /\ handled /\ endsSame /\ logSame
        /\ replay.row \in ReplayRows
        /\ ReplayRows' = ReplayRows \ {replay.row} /\ replay'.row \notin replay'.todo
    BY <1>5 DEF ReplaySend, ReplayRows, Shape, TypeOK, ReplayState, Once
  <2>2. QueueRows' = QueueRows \union {replay.row} /\ NoRepeat(msgCh)'
    <3>1. replay.row \in Rowid /\ replay.row \notin ToSet(msgCh)
      BY <2>1, <1>5 DEF ReplayRows, TypeOK, ReplayState, Once, Apart, Disjoint, QueueRows
    <3> QED BY <3>1, <1>5, SendAdds DEF ReplaySend, TypeOK, Once, NoRepeat, QueueRows
  <2> QED BY <1>1, <2>1, <2>2
         DEF Once, AllPending, Apart, NothingForgotten, InFlight, Disjoint
<1>6. CASE ReplayClose
  <2>1. /\ runSame /\ queued /\ looped /\ worked /\ handled /\ endsSame /\ logSame
        /\ ReplayRows' = ReplayRows /\ replay'.row \notin replay'.todo
    BY <1>6 DEF ReplayClose, ReplayRows, TypeOK, ReplayState, Once
  <2> QED BY <1>1, <2>1
         DEF Once, AllPending, Apart, NothingForgotten, InFlight
<1>7. CASE ReplayDone
  <2>1. /\ worked /\ handled /\ endsSame /\ logSame /\ msgCh' = <<>>
        /\ ReplayRows' = {} /\ replay'.row \notin replay'.todo /\ LoopRows' = {}
    BY <1>7 DEF ReplayDone, NoReplay, NoLoop, NewLoop, ReplayRows, LoopRows
  <2>2. QueueRows' = {} /\ NoRepeat(msgCh)'
    BY <2>1, EmptyHoldsNothing DEF QueueRows, NoRepeat
  <2>3. NothingForgotten'
    <3>1. SUFFICES ASSUME ctx = "live", replay.pc # "abort" PROVE NothingForgotten'
      BY <1>7 DEF ReplayDone, NothingForgotten
    <3>2. ReplayRows = {} /\ QueueRows = {} /\ LoopRows = {} /\ phase = "replay"
      BY <3>1, <1>7, EmptyHoldsNothing
         DEF ReplayDone, Closed, Shape, ReplayRows, QueueRows, LoopRows
    <3> QED BY <1>1, <2>1, <2>2, <3>1, <3>2 DEF NothingForgotten, InFlight
  <2> QED BY <1>1, <2>1, <2>2, <2>3 DEF Once, AllPending, Apart, Disjoint
<1>8. CASE LoopReceive
  <2>1. runSame /\ replayed /\ worked /\ handled /\ endsSame /\ logSame
    BY <1>8 DEF LoopReceive
  <2>2. /\ QueueRows = QueueRows' \union {Head(msgCh)}
        /\ Head(msgCh) \notin QueueRows' /\ NoRepeat(msgCh)'
    BY <1>8, ReceiveRemoves DEF LoopReceive, TypeOK, Once, NoRepeat, QueueRows
  <2>3. LoopRows' = {Head(msgCh)} /\ LoopRows = {}
    BY <1>8, ReceiveRemoves DEF LoopReceive, LoopRows, TypeOK, Shape
  <2> QED BY <1>1, <2>1, <2>2, <2>3
         DEF Once, AllPending, Apart, NothingForgotten, InFlight, Disjoint
<1>9. CASE LoopCancelled \/ LoopClosed \/ LoopAcquireCancelled \/ LoopDrained
  <2>1. runSame /\ replayed /\ queued /\ worked /\ handled /\ endsSame /\ logSame
    BY <1>9 DEF LoopCancelled, LoopClosed, LoopAcquireCancelled, LoopDrained
  <2>2. LoopRows' \subseteq LoopRows /\ (ctx = "live" => LoopRows' = LoopRows)
    BY <1>9 DEF LoopCancelled, LoopClosed, LoopAcquireCancelled, LoopDrained, LoopRows, TypeOK,
                LoopState
  <2> QED BY <1>1, <2>1, <2>2
         DEF Once, AllPending, Apart, NothingForgotten, InFlight, Disjoint
<1>10. ASSUME NEW p \in Proc, LoopAcquire(p)
       PROVE  Once' /\ LogOK' /\ NothingForgotten'
  <2>1. runSame /\ replayed /\ queued /\ handled /\ endsSame /\ logSame
    BY <1>10 DEF LoopAcquire
  <2>2. /\ \A q \in Proc \ {p} : proc'[q] = proc[q]
        /\ proc[p].row = None /\ proc'[p].row = loop.row /\ proc'[p].pc = "query"
        /\ LoopRows' = {} /\ LoopRows = {loop.row} /\ loop.row # None
    BY <1>10 DEF LoopAcquire, NewLoop, LoopRows, TypeOK, Shape
  <2>3. loop.row \notin WorkerRows
    BY <2>2 DEF Once, Apart, Disjoint
  <2>4. WorkerRows' = WorkerRows \union {loop.row} /\ OneEach(Proc, proc)'
    BY <2>2, <2>3, RowsOfUpdate DEF WorkerRows, Once
  <2>5. ReadOK'
    BY <2>1, <2>2 DEF Once, ReadOK
  <2> QED BY <1>1, <2>1, <2>2, <2>4, <2>5
         DEF Once, AllPending, Apart, NothingForgotten, InFlight, Disjoint
<1>11. ASSUME NEW p \in Proc, WorkerRead(p) \/ WorkerFail(p) \/ WorkerDeliver(p) \/ WorkerRetireFail(p)
       PROVE  Once' /\ LogOK' /\ NothingForgotten'
  <2>1. runSame /\ replayed /\ queued /\ looped /\ handled /\ endsSame /\ logSame
    BY <1>11 DEF WorkerRead, WorkerFail, WorkerDeliver, WorkerRetireFail
  <2>2. /\ \A q \in Proc \ {p} : proc'[q] = proc[q]
        /\ proc'[p].row = proc[p].row
        /\ proc'[p].pc \in {"work", "retire", "record"} => proc'[p].msg = msglog[proc[p].row]
    BY <1>11 DEF WorkerRead, WorkerFail, WorkerDeliver, WorkerRetireFail, TypeOK, ProcState,
                 Once, ReadOK
  <2>3. WorkerRows' = WorkerRows /\ OneEach(Proc, proc)'
    BY <2>2 DEF WorkerRows, Once, OneEach
  <2>4. ReadOK'
    BY <2>1, <2>2 DEF Once, ReadOK
  <2> QED BY <1>1, <2>1, <2>3, <2>4
         DEF Once, AllPending, Apart, NothingForgotten, InFlight
<1>12. ASSUME NEW p \in Proc, WorkerReadFail(p) \/ WorkerRecord(p)
       PROVE  Once' /\ LogOK' /\ NothingForgotten'
  <2>1. /\ runSame /\ replayed /\ queued /\ looped /\ handled /\ logSame
        /\ LostRows' = LostRows /\ attempted' = attempted \union {proc[p].row}
    BY <1>12 DEF WorkerReadFail, WorkerRecord, GiveUp, LostRows
  <2>2. /\ \A q \in Proc \ {p} : proc'[q] = proc[q]
        /\ proc'[p].row = None /\ proc'[p].pc = "idle"
        /\ proc[p].row # None
    BY <1>12 DEF WorkerReadFail, WorkerRecord, GiveUp, IdleProc, TypeOK, ProcState, Shape
  <2>3. proc[p].row \in WorkerRows
    BY <2>2 DEF WorkerRows
  <2>4. WorkerRows' = WorkerRows \ {proc[p].row} /\ OneEach(Proc, proc)'
    BY <2>2, RowsOfRelease DEF WorkerRows, Once
  <2>5. ReadOK'
    BY <2>1, <2>2 DEF Once, ReadOK
  <2> QED BY <1>1, <2>1, <2>3, <2>4, <2>5
         DEF Once, AllPending, Apart, NothingForgotten, InFlight, Disjoint
<1>13. ASSUME NEW p \in Proc, WorkerRetire(p)
       PROVE  Once' /\ LogOK' /\ NothingForgotten'
  <2>1. /\ runSame /\ replayed /\ queued /\ looped /\ handled /\ endsSame
        /\ msglog' = msglog /\ tomb' = tomb \union {proc[p].row}
    BY <1>13 DEF WorkerRetire
  <2>2. /\ \A q \in Proc \ {p} : proc'[q] = proc[q]
        /\ proc'[p].row = None /\ proc'[p].pc = "idle"
        /\ proc[p].row # None
    BY <1>13 DEF WorkerRetire, IdleProc, TypeOK, ProcState, Shape
  <2>3. proc[p].row \in WorkerRows /\ proc[p].row \in Pending
    BY <2>2 DEF WorkerRows, Once, AllPending
  <2>4. WorkerRows' = WorkerRows \ {proc[p].row} /\ OneEach(Proc, proc)'
    BY <2>2, RowsOfRelease DEF WorkerRows, Once
  <2>5. Rows' = Rows /\ Pending' = Pending \ {proc[p].row}
    BY <2>1 DEF Rows, Pending
  <2>6. ReadOK' /\ LogOK'
    BY <2>1, <2>2, <2>3, <2>5 DEF Once, ReadOK, LogOK, Pending
  <2> QED BY <1>1, <2>1, <2>3, <2>4, <2>5, <2>6
         DEF Once, AllPending, Apart, NothingForgotten, InFlight, Disjoint
<1>14. ASSUME NEW h \in Handler, NEW m \in Message, Post(h, m)
       PROVE  Once' /\ LogOK' /\ NothingForgotten'
  <2>1. runSame /\ replayed /\ queued /\ looped /\ worked /\ endsSame /\ logSame
    BY <1>14 DEF Post
  <2>2. /\ \A g \in Handler \ {h} : http'[g] = http[g]
        /\ http'[h].row = http[h].row /\ http'[h].pc # "send"
    BY <1>14 DEF Post, IdleHttp, TypeOK, HttpState, Shape
  <2>3. HandlerRows' = HandlerRows /\ OneEach(Handler, http)'
    BY <2>2 DEF HandlerRows, Once, OneEach
  <2>4. SendOK'
    BY <2>1, <2>2 DEF SendOK, Once
  <2> QED BY <1>1, <2>1, <2>3, <2>4
         DEF Once, AllPending, Apart, NothingForgotten, InFlight
<1>15. ASSUME NEW h \in Handler, NEW r \in Rowid, AppendFresh(h, r) \/ AppendLost(h, r)
       PROVE  Once' /\ LogOK' /\ NothingForgotten'
  <2>1. /\ runSame /\ replayed /\ queued /\ looped /\ worked /\ tomb' = tomb /\ attempted' = attempted
        /\ r \notin Rows /\ http[h].pc = "append" /\ http[h].row = None
        /\ \A g \in Handler \ {h} : http'[g] = http[g]
    BY <1>15 DEF AppendFresh, AppendLost, Insert, Answer, Shape, TypeOK, HttpState
  <2>2. /\ Rows' = Rows \union {r} /\ r \notin tomb
        /\ Pending' = Pending \union {r} /\ r \notin Pending
        /\ \A s \in Rows : msglog'[s] = msglog[s]
        /\ msglog'[r] \notin Logged
    BY <2>1, <1>15 DEF AppendFresh, AppendLost, Insert, Rows, Pending, Logged, LogOK, TypeOK,
                       HttpState, Shape
  <2>3. LogOK'
    BY <2>1, <2>2 DEF LogOK, Logged
  <2>4. ReadOK'
    BY <2>1, <2>2 DEF Once, ReadOK, AllPending, WorkerRows, Pending, TypeOK, ProcState, Shape
  <2>5. \A g \in Handler \ {h} : http'[g].pc = "send" =>
          http'[g].row \in Rows /\ http'[g].msg = msglog'[http'[g].row]
    <3>1. \A g \in Handler : http[g].pc = "send" => http[g].row \in Rows
      BY DEF Once, AllPending, HandlerRows, Pending, Shape
    <3> QED BY <2>1, <2>2, <3>1 DEF SendOK, Once
  <2>6. http'[h].pc = "send" => http'[h].msg = msglog'[http'[h].row]
    <3>1. CASE AppendFresh(h, r)
      BY <3>1, <2>1 DEF AppendFresh, Insert, TypeOK
    <3>2. CASE AppendLost(h, r)
      BY <3>2, <2>1 DEF AppendLost, Answer, TypeOK
    <3> QED BY <1>15, <3>1, <3>2
  <2>7. SendOK'
    BY <2>5, <2>6 DEF SendOK
  <2>8. CASE AppendFresh(h, r)
    <3>1. http'[h].row = r /\ LostRows' = LostRows
      BY <2>8 DEF AppendFresh, LostRows, TypeOK
    <3>2. r \notin HandlerRows
      BY <2>2 DEF Once, AllPending
    <3>3. HandlerRows' = HandlerRows \union {r} /\ OneEach(Handler, http)'
      BY <2>1, <3>1, <3>2, RowsOfUpdate DEF HandlerRows, Once
    <3> QED BY <1>1, <2>1, <2>2, <2>3, <2>4, <2>7, <3>1, <3>3
         DEF Once, AllPending, Apart, NothingForgotten, InFlight, Disjoint
  <2>9. CASE AppendLost(h, r)
    <3>1. http'[h].row = None /\ LostRows' = LostRows \union {r}
      BY <2>9 DEF AppendLost, Answer, LostRows, TypeOK
    <3>2. HandlerRows' = HandlerRows /\ OneEach(Handler, http)'
      BY <2>1, <3>1, RowsOfUpdate DEF HandlerRows, Once
    <3> QED BY <1>1, <2>1, <2>2, <2>3, <2>4, <2>7, <3>1, <3>2
         DEF Once, AllPending, Apart, NothingForgotten, InFlight, Disjoint
  <2> QED BY <1>15, <2>8, <2>9
<1>16. ASSUME NEW h \in Handler, AppendDuplicate(h) \/ AppendFail(h) \/ Respond(h)
       PROVE  Once' /\ LogOK' /\ NothingForgotten'
  <2>1. runSame /\ replayed /\ queued /\ looped /\ worked /\ endsSame /\ logSame
    BY <1>16 DEF AppendDuplicate, AppendFail, Respond
  <2>2. /\ \A g \in Handler \ {h} : http'[g] = http[g]
        /\ http'[h].row = http[h].row /\ http'[h].pc # "send"
    BY <1>16 DEF AppendDuplicate, AppendFail, Respond, Answer, IdleHttp, TypeOK, HttpState, Shape
  <2>3. HandlerRows' = HandlerRows /\ OneEach(Handler, http)'
    BY <2>2 DEF HandlerRows, Once, OneEach
  <2>4. SendOK'
    BY <2>1, <2>2 DEF SendOK, Once
  <2> QED BY <1>1, <2>1, <2>3, <2>4
         DEF Once, AllPending, Apart, NothingForgotten, InFlight
<1>17. ASSUME NEW h \in Handler, Enqueue(h) \/ EnqueueTimeout(h)
       PROVE  Once' /\ LogOK' /\ NothingForgotten'
  <2> DEFINE r == http[h].row
  <2>1. /\ runSame /\ replayed /\ looped /\ worked /\ logSame /\ attempted' = attempted
        /\ r # None /\ r \in HandlerRows /\ http'[h].row = None /\ http'[h].pc # "send"
        /\ \A g \in Handler \ {h} : http'[g] = http[g]
    BY <1>17 DEF Enqueue, EnqueueTimeout, Answer, TypeOK, HttpState, Shape, HandlerRows
  <2>2. HandlerRows' = HandlerRows \ {r} /\ OneEach(Handler, http)'
    BY <2>1, RowsOfRelease DEF HandlerRows, Once
  <2>5. SendOK'
    BY <2>1 DEF SendOK, Once
  <2>3. CASE Enqueue(h)
    <3>1. r \in Rowid /\ r \notin ToSet(msgCh)
      BY <2>1 DEF TypeOK, HttpState, Once, Apart, Disjoint, QueueRows
    <3>2. QueueRows' = QueueRows \union {r} /\ NoRepeat(msgCh)'
      BY <3>1, <2>3, SendAdds DEF Enqueue, TypeOK, Once, NoRepeat, QueueRows
    <3>3. LostRows' = LostRows
      BY <2>3 DEF Enqueue, LostRows
    <3> QED BY <1>1, <2>1, <2>2, <2>5, <3>2, <3>3
         DEF Once, AllPending, Apart, NothingForgotten, InFlight, Disjoint
  <2>4. CASE EnqueueTimeout(h)
    <3>1. queued /\ LostRows' = LostRows \union {r}
      BY <2>4 DEF EnqueueTimeout, LostRows
    <3> QED BY <1>1, <2>1, <2>2, <2>5, <3>1
         DEF Once, AllPending, Apart, NothingForgotten, InFlight, Disjoint
  <2> QED BY <1>17, <2>3, <2>4
<1>18. ASSUME NEW e \in Editor, PauseAsk(e) \/ EditorStep(e)
       PROVE  Once' /\ LogOK' /\ NothingForgotten'
  <2>1. runSame /\ replayed /\ queued /\ looped /\ worked /\ handled /\ endsSame /\ logSame
    BY <1>18 DEF PauseAsk, EditorStep, PauseGranted, PauseTimeout, Resume
  <2> QED BY <1>1, <2>1
         DEF Once, AllPending, Apart, NothingForgotten, InFlight
<1>19. CASE Cancel \/ StopServer \/ ServeError \/ Quit
  <2>1. replayed /\ queued /\ looped /\ worked /\ handled /\ endsSame /\ logSame
    BY <1>19 DEF Cancel, StopServer, ServeError, Quit
  <2>2. NothingForgotten'
    BY <1>19 DEF Cancel, StopServer, ServeError, Quit, NothingForgotten
  <2> QED BY <1>1, <2>1, <2>2 DEF Once, AllPending, Apart
<1>20. CASE Exit \/ Crash
  <2>1. Gone
    BY <1>20 DEF Exit, Crash
  <2>2. /\ ReplayRows' = {} /\ QueueRows' = {} /\ LoopRows' = {} /\ WorkerRows' = {}
        /\ HandlerRows' = {} /\ attempted' = {} /\ LostRows' = {} /\ logSame
    BY <2>1, EmptyHoldsNothing
       DEF Gone, ReplayRows, QueueRows, LoopRows, WorkerRows, HandlerRows, LostRows,
           NoReplay, NoLoop, IdleProc, IdleHttp
  <2>3. /\ NoRepeat(msgCh)' /\ OneEach(Proc, proc)' /\ OneEach(Handler, http)' /\ ReadOK' /\ SendOK'
        /\ replay'.row \notin replay'.todo
    BY <2>1, EmptyHoldsNothing
       DEF Gone, NoRepeat, OneEach, ReadOK, SendOK, NoReplay, IdleProc, IdleHttp
  <2>4. NothingForgotten'
    BY <2>1 DEF Gone, NothingForgotten
  <2> QED BY <1>1, <2>2, <2>3, <2>4 DEF Once, AllPending, Apart, Disjoint
<1>21. ASSUME NEW R \in SUBSET Rowid, Collect(R)
       PROVE  Once' /\ LogOK' /\ NothingForgotten'
  <2>1. /\ runSame /\ replayed /\ queued /\ looped /\ worked /\ handled /\ endsSame
        /\ \A r \in Rowid \ R : msglog'[r] = msglog[r]
        /\ \A r \in R : msglog'[r] = None
        /\ tomb' = tomb \ R /\ R \subseteq tomb
    BY <1>21 DEF Collect
  <2>2. Pending' = Pending /\ Rows' = Rows \ R
    BY <2>1 DEF Pending, Rows
  <2>3. LogOK'
    BY <2>1, <2>2 DEF LogOK, Rows
  <2>4. ReadOK'
    BY <2>1, <2>2 DEF Once, ReadOK, AllPending, WorkerRows, Pending, Rows, TypeOK, ProcState, Shape
  <2>5. SendOK'
    BY <2>1, <2>2 DEF Once, SendOK, AllPending, HandlerRows, Pending, Rows, TypeOK, HttpState, Shape
  <2> QED BY <1>1, <2>1, <2>2, <2>3, <2>4, <2>5
         DEF Once, AllPending, Apart, NothingForgotten, InFlight
<1> QED BY <1>2, <1>3, <1>4, <1>5, <1>6, <1>7, <1>8, <1>9, <1>10, <1>11, <1>12, <1>13, <1>14,
           <1>15, <1>16, <1>17, <1>18, <1>19, <1>20, <1>21
        DEF Next, ReplayStep, LoopStep, WorkerStep, HandlerStep, RunStep

----------------------------------------------------------------------------
(* Errors, deliveries and answers *)

\* Table errors keeps to pending messages.
LEMMA ErrorsStep ==
  TypeOK /\ Shape /\ LogOK /\ Once /\ ErrorsArePending /\ [Next]_vars => ErrorsArePending'
<1> SUFFICES ASSUME TypeOK, Shape, LogOK, Once, ErrorsArePending, [Next]_vars
             PROVE  ErrorsArePending'
  OBVIOUS
<1> USE DEF ErrorsArePending
<1>1. CASE UNCHANGED <<msglog, tomb, errors>>
  BY <1>1 DEF PendingMsgs, Pending, Rows
<1>2. ASSUME NEW p \in Proc, proc[p].pc \in {"retire", "record"}
      PROVE  /\ proc[p].row \in Pending /\ proc[p].msg = msglog[proc[p].row]
             /\ proc[p].msg \in PendingMsgs
  <2>1. proc[p].row \in WorkerRows
    BY <1>2 DEF WorkerRows, Shape
  <2> QED BY <2>1, <1>2 DEF Once, AllPending, ReadOK, PendingMsgs
<1>3. ASSUME NEW p \in Proc, WorkerRetire(p)
      PROVE  ErrorsArePending'
  <2>1. proc[p].row \in Pending /\ proc[p].msg = msglog[proc[p].row]
    BY <1>2, <1>3 DEF WorkerRetire
  <2>2. msglog' = msglog /\ errors' = errors \ {proc[p].msg} /\ Pending' = Pending \ {proc[p].row}
    BY <1>3 DEF WorkerRetire, Pending, Rows
  <2>3. ASSUME NEW m \in errors'
        PROVE  m \in PendingMsgs'
    <3>1. PICK r \in Pending : m = msglog[r]
      BY <2>2, <2>3 DEF PendingMsgs
    <3>2. r # proc[p].row
      BY <2>1, <2>2, <2>3, <3>1
    <3> QED BY <2>2, <3>1, <3>2 DEF PendingMsgs
  <2> QED BY <2>3
<1>4. ASSUME NEW p \in Proc, WorkerRecord(p)
      PROVE  ErrorsArePending'
  <2>1. errors' \subseteq errors \union {proc[p].msg} /\ UNCHANGED <<msglog, tomb>>
    BY <1>4 DEF WorkerRecord
  <2>2. proc[p].msg \in PendingMsgs
    BY <1>2, <1>4 DEF WorkerRecord
  <2> QED BY <2>1, <2>2 DEF PendingMsgs, Pending, Rows
<1>5. ASSUME NEW h \in Handler, NEW r \in Rowid, AppendFresh(h, r) \/ AppendLost(h, r)
      PROVE  ErrorsArePending'
  <2>1. /\ errors' = errors /\ tomb' = tomb /\ r \notin Rows
        /\ \A s \in Rows : msglog'[s] = msglog[s]
    BY <1>5 DEF AppendFresh, AppendLost, Insert, TypeOK, Rows
  <2>2. \A s \in Pending : s \in Pending' /\ msglog'[s] = msglog[s]
    BY <2>1 DEF Pending, Rows
  <2> QED BY <2>1, <2>2 DEF PendingMsgs
<1>6. ASSUME NEW R \in SUBSET Rowid, Collect(R)
      PROVE  ErrorsArePending'
  <2>1. /\ errors' \subseteq errors
        /\ \A s \in Pending : s \in Pending' /\ msglog'[s] = msglog[s]
    BY <1>6 DEF Collect, Pending, Rows
  <2> QED BY <2>1 DEF PendingMsgs
<1> QED BY <1>1, <1>3, <1>4, <1>5, <1>6
        DEF vars, Next, ReplayStep, LoopStep, RunStep, WorkerStep, HandlerStep, EditorStep, Start,
            ReplayNext, ReplaySend, ReplayClose, ReplayDone, LoopReceive, LoopCancelled,
            LoopClosed, LoopAcquire, LoopAcquireCancelled, LoopDrained, WorkerRead,
            WorkerReadFail, WorkerFail, WorkerDeliver, WorkerRetireFail, Post, AppendDuplicate,
            AppendFail, Enqueue, EnqueueTimeout, Respond, PauseAsk, PauseGranted, PauseTimeout,
            Resume, Cancel, StopServer, ServeError, Quit, Exit, Crash, Gone

\* What a step does to the messages of pending rows and of tombstones.
LogChange ==
  \/ /\ PendingMsgs' = PendingMsgs /\ TombMsgs' = TombMsgs
     /\ UNCHANGED <<delivered, acked>>
  \/ /\ PendingMsgs' = PendingMsgs /\ TombMsgs' = TombMsgs
     /\ \E h \in Handler : Respond(h)
  \/ /\ PendingMsgs' = PendingMsgs /\ TombMsgs' = TombMsgs
     /\ \E p \in Proc : WorkerDeliver(p) /\ proc[p].msg \in PendingMsgs \intersect Message
  \/ /\ UNCHANGED <<delivered, acked>> /\ TombMsgs' = TombMsgs
     /\ \E m \in Message : /\ m \notin PendingMsgs \union TombMsgs
                           /\ PendingMsgs' = PendingMsgs \union {m}
  \/ /\ UNCHANGED <<delivered, acked>>
     /\ \E p \in Proc : /\ WorkerRetire(p) /\ proc[p].msg \in PendingMsgs \intersect Message
                        /\ PendingMsgs' = PendingMsgs \ {proc[p].msg}
                        /\ TombMsgs' = TombMsgs \union {proc[p].msg}
  \/ /\ UNCHANGED <<delivered, acked>> /\ PendingMsgs' = PendingMsgs
     /\ \E M \in SUBSET TombMsgs : M \subseteq Message /\ TombMsgs' = TombMsgs \ M

LEMMA LogSteps ==
  ASSUME TypeOK, Shape, LogOK, Once, Next
  PROVE  LogChange
<1> USE DEF LogChange
<1>1. UNCHANGED <<msglog, tomb>> => PendingMsgs' = PendingMsgs /\ TombMsgs' = TombMsgs
  BY DEF PendingMsgs, TombMsgs, Pending, Rows
<1>2. ASSUME NEW p \in Proc, proc[p].pc \in {"work", "retire", "record"}
      PROVE  /\ proc[p].row \in Pending /\ proc[p].msg = msglog[proc[p].row]
             /\ proc[p].msg \in PendingMsgs \intersect Message
  <2>1. proc[p].row \in WorkerRows
    BY <1>2 DEF WorkerRows, Shape
  <2> QED BY <2>1, <1>2, PipelineConstants DEF Once, AllPending, ReadOK, PendingMsgs, TypeOK, Pending, Rows
<1>3. CASE UNCHANGED <<msglog, tomb, delivered, acked>>
  BY <1>1, <1>3
<1>4. ASSUME NEW h \in Handler, Respond(h) PROVE LogChange
  BY <1>1, <1>4 DEF Respond
<1>5. ASSUME NEW p \in Proc, WorkerDeliver(p) PROVE LogChange
  BY <1>1, <1>2, <1>5 DEF WorkerDeliver
<1>6. ASSUME NEW h \in Handler, NEW r \in Rowid, AppendFresh(h, r) \/ AppendLost(h, r)
      PROVE  LogChange
  <2> DEFINE m == http[h].msg
  <2>1. /\ UNCHANGED <<delivered, acked>> /\ tomb' = tomb /\ r \notin Rows /\ m \notin Logged
        /\ m \in Message /\ msglog'[r] = m
        /\ \A s \in Rowid \ {r} : msglog'[s] = msglog[s]
    BY <1>6, PipelineConstants DEF AppendFresh, AppendLost, Insert, TypeOK, Shape, HttpState
  <2>2. Pending' = Pending \union {r} /\ r \notin Pending /\ r \notin tomb
    BY <2>1, PipelineConstants DEF Pending, Rows, LogOK
  <2>3. PendingMsgs' = PendingMsgs \union {m} /\ TombMsgs' = TombMsgs
    <3>1. \A s \in Pending : s \in Rowid \ {r}
      BY <2>2 DEF Pending, Rows
    <3>2. \A s \in tomb : s \in Rowid \ {r}
      BY <2>2 DEF TypeOK
    <3> QED BY <2>1, <2>2, <3>1, <3>2 DEF PendingMsgs, TombMsgs
  <2>4. m \notin PendingMsgs \union TombMsgs
    BY <2>1 DEF PendingMsgs, TombMsgs, Logged, Pending, LogOK
  <2> QED BY <2>1, <2>3, <2>4
<1>7. ASSUME NEW p \in Proc, WorkerRetire(p) PROVE LogChange
  <2> DEFINE r == proc[p].row
             m == proc[p].msg
  <2>1. r \in Pending /\ m = msglog[r] /\ m \in PendingMsgs \intersect Message
    BY <1>2, <1>7 DEF WorkerRetire
  <2>2. /\ UNCHANGED <<msglog, delivered, acked>> /\ tomb' = tomb \union {r}
        /\ Pending' = Pending \ {r}
    BY <1>7 DEF WorkerRetire, Pending, Rows
  <2>3. TombMsgs' = TombMsgs \union {m}
    BY <2>1, <2>2 DEF TombMsgs
  <2>4. PendingMsgs' = PendingMsgs \ {m}
    <3>1. \A s \in Pending : msglog[s] = m => s = r
      BY <2>1 DEF LogOK, Pending
    <3> QED BY <2>1, <2>2, <3>1 DEF PendingMsgs
  <2> QED BY <1>7, <2>1, <2>2, <2>3, <2>4
<1>8. ASSUME NEW R \in SUBSET Rowid, Collect(R) PROVE LogChange
  <2> DEFINE M == {msglog[r] : r \in R}
  <2>1. /\ UNCHANGED <<delivered, acked>> /\ R \subseteq tomb /\ tomb' = tomb \ R
        /\ Pending' = Pending
        /\ \A s \in Rowid \ R : msglog'[s] = msglog[s]
    BY <1>8 DEF Collect, Pending, Rows
  <2>2. PendingMsgs' = PendingMsgs
    BY <2>1 DEF PendingMsgs, Pending, Rows
  <2>3. M \subseteq TombMsgs /\ M \subseteq Message
    BY <2>1, PipelineConstants DEF TombMsgs, TypeOK, LogOK, Rows
  <2>4. TombMsgs' = TombMsgs \ M
    <3>1. \A s \in tomb \ R : msglog[s] \notin M
      BY <2>1 DEF LogOK
    <3> QED BY <2>1, <3>1 DEF TombMsgs, TypeOK
  <2> QED BY <2>1, <2>2, <2>3, <2>4
<1>9. \/ UNCHANGED <<msglog, tomb, delivered, acked>>
      \/ \E h \in Handler : Respond(h)
      \/ \E h \in Handler, r \in Rowid : AppendFresh(h, r) \/ AppendLost(h, r)
      \/ \E p \in Proc : WorkerDeliver(p) \/ WorkerRetire(p)
      \/ \E R \in SUBSET Rowid : Collect(R)
  <2> HIDE DEF LogChange
  <2> QED
    BY  DEF vars, Next, ReplayStep, LoopStep, RunStep, WorkerStep, HandlerStep, EditorStep, Start,
            ReplayNext, ReplaySend, ReplayClose, ReplayDone, LoopReceive, LoopCancelled,
            LoopClosed, LoopAcquire, LoopAcquireCancelled, LoopDrained, WorkerRead, WorkerRecord,
            GiveUp, WorkerReadFail, WorkerFail, WorkerRetireFail, Post, AppendDuplicate,
            AppendFail, Enqueue, EnqueueTimeout, PauseAsk, PauseGranted, PauseTimeout,
            Resume, Cancel, StopServer, ServeError, Quit, Exit, Crash, Gone
<1> HIDE DEF LogChange
<1> QED BY <1>3, <1>4, <1>5, <1>6, <1>7, <1>8, <1>9

\* A message that is pending or was delivered stays so.
LEMMA KeptStep ==
  ASSUME DeliveryOK, LogChange
  PROVE  PendingMsgs \union delivered \subseteq (PendingMsgs \union delivered)'
<1>1. ASSUME NEW p \in Proc, WorkerRetire(p)
      PROVE  proc[p].msg \in delivered
  BY <1>1 DEF WorkerRetire, DeliveryOK
<1> QED BY <1>1 DEF LogChange, WorkerDeliver, Respond

\* Nothing is retired before it was delivered, nor answered 200 before it is safe.
LEMMA DeliveryStep ==
  TypeOK /\ Shape /\ LogOK /\ Once /\ DeliveryOK /\ AckedIsDurable /\ [Next]_vars =>
    DeliveryOK' /\ AckedIsDurable'
<1> SUFFICES ASSUME TypeOK, Shape, LogOK, Once, DeliveryOK, AckedIsDurable, [Next]_vars
             PROVE  DeliveryOK' /\ AckedIsDurable'
  OBVIOUS
<1>1. CASE UNCHANGED vars
  BY <1>1 DEF vars, DeliveryOK, AckedIsDurable, PendingMsgs, Pending, Rows
<1>2. CASE Next
  <2>1. PendingMsgs \union delivered \subseteq (PendingMsgs \union delivered)'
    BY <1>2, LogSteps, KeptStep
  <2>2. delivered \subseteq delivered'
    BY <1>2, LogSteps DEF LogChange, WorkerDeliver, Respond
  <2>3. ASSUME NEW r \in tomb'
        PROVE  msglog'[r] \in delivered'
    <3>1. TombMsgs \subseteq delivered
      BY DEF TombMsgs, DeliveryOK
    <3>2. TombMsgs' \subseteq delivered'
      BY <1>2, <2>2, <3>1, LogSteps DEF LogChange, WorkerRetire, DeliveryOK
    <3> QED BY <2>3, <3>2 DEF TombMsgs
  <2>4. ASSUME NEW p \in Proc, proc'[p].pc = "retire"
        PROVE  proc'[p].msg \in delivered'
    <3>1. CASE proc'[p] = proc[p]
      BY <2>2, <2>4, <3>1 DEF DeliveryOK
    <3>2. CASE WorkerDeliver(p)
      BY <3>2 DEF WorkerDeliver, TypeOK, ProcState
    <3>3. proc'[p] = proc[p] \/ WorkerDeliver(p)
      <4>1. proc' = proc \/ (\E q \in Proc : LoopAcquire(q) \/ WorkerStep(q)) \/ Gone
        BY <1>2 DEF Next, ReplayStep, LoopStep, HandlerStep, EditorStep, RunStep, Start,
           ReplayNext, ReplaySend, ReplayClose, ReplayDone, LoopReceive, LoopCancelled, LoopClosed,
           LoopAcquireCancelled, LoopDrained, Post, AppendFresh, AppendLost, AppendDuplicate,
           AppendFail, Enqueue, EnqueueTimeout, Respond, PauseAsk, PauseGranted, PauseTimeout,
           Resume, Cancel, StopServer, ServeError, Quit, Exit, Crash, Collect
      <4>2. CASE Gone
        BY <2>4, <4>2 DEF Gone, IdleProc
      <4>3. ASSUME NEW q \in Proc, LoopAcquire(q) \/ WorkerStep(q)
            PROVE  proc'[p] = proc[p] \/ WorkerDeliver(p)
        BY <2>4, <4>3 DEF LoopAcquire, WorkerStep, WorkerRead, WorkerReadFail, WorkerFail,
           WorkerDeliver, WorkerRetire, WorkerRetireFail, WorkerRecord, GiveUp, IdleProc, TypeOK,
           ProcState
      <4> QED BY <4>1, <4>2, <4>3
    <3> QED BY <3>1, <3>2, <3>3
  <2>5. ASSUME NEW h \in Handler, http'[h].pc = "respond", http'[h].code = "200"
        PROVE  http'[h].msg \in (PendingMsgs \union delivered)'
    <3>1. \/ http'[h] = http[h]
          \/ /\ AppendDuplicate(h) \/ Enqueue(h)
             /\ http'[h].msg = http[h].msg
      <4>1. http' = http \/ (\E g \in Handler : HandlerStep(g) \/ \E m \in Message : Post(g, m)) \/ Gone
        BY <1>2 DEF Next, ReplayStep, LoopStep, WorkerStep, EditorStep, RunStep, Start,
           ReplayNext, ReplaySend, ReplayClose, ReplayDone, LoopReceive, LoopCancelled, LoopClosed,
           LoopAcquire, LoopAcquireCancelled, LoopDrained, WorkerRead, WorkerReadFail, WorkerFail,
           WorkerDeliver, WorkerRetire, WorkerRetireFail, WorkerRecord, PauseAsk, PauseGranted,
           PauseTimeout, Resume, Cancel, StopServer, ServeError, Quit, Exit, Crash, Collect
      <4>2. CASE Gone
        BY <2>5, <4>2 DEF Gone, IdleHttp
      <4>3. ASSUME NEW g \in Handler, HandlerStep(g) \/ \E m \in Message : Post(g, m)
            PROVE  \/ http'[h] = http[h]
                   \/ /\ AppendDuplicate(h) \/ Enqueue(h)
                      /\ http'[h].msg = http[h].msg
        <5> USE DEF TypeOK
        <5>1. g # h => http'[h] = http[h]
          BY <4>3 DEF HandlerStep, Post, AppendFresh, AppendLost, AppendDuplicate, AppendFail,
             Enqueue, EnqueueTimeout, Respond, Answer
        <5>2. ASSUME Answer(h, "200")
              PROVE  http'[h].msg = http[h].msg
          BY <5>2 DEF Answer
        <5>3. AppendDuplicate(h) \/ Enqueue(h) => Answer(h, "200")
          BY DEF AppendDuplicate, Enqueue
        <5>4. ~Respond(h)
          BY <2>5 DEF Respond, IdleHttp
        <5>5. ASSUME NEW m \in Message
              PROVE  ~Post(h, m)
          BY <2>5 DEF Post, IdleHttp
        <5>6. ~(AppendFail(h) \/ EnqueueTimeout(h))
          BY <2>5 DEF AppendFail, EnqueueTimeout, Answer
        <5>7. ~(\E r \in Rowid : AppendFresh(h, r) \/ AppendLost(h, r))
          BY <2>5 DEF AppendFresh, AppendLost, Answer
        <5> QED BY <4>3, <5>1, <5>2, <5>3, <5>4, <5>5, <5>6, <5>7 DEF HandlerStep
      <4> QED BY <4>1, <4>2, <4>3
    <3>2. CASE http'[h] = http[h]
      BY <2>1, <2>5, <3>2 DEF DeliveryOK
    <3>3. CASE AppendDuplicate(h) /\ http'[h].msg = http[h].msg
      <4>1. http[h].msg \in PendingMsgs \union TombMsgs
        BY <3>3 DEF AppendDuplicate, Logged, PendingMsgs, TombMsgs, Pending
      <4>2. TombMsgs \subseteq delivered
        BY DEF TombMsgs, DeliveryOK
      <4> QED BY <2>1, <3>3, <4>1, <4>2
    <3>4. CASE Enqueue(h) /\ http'[h].msg = http[h].msg
      <4>1. http[h].row \in Pending /\ http[h].msg = msglog[http[h].row]
        BY <3>4 DEF Enqueue, Once, AllPending, SendOK, HandlerRows, Shape
      <4>2. http[h].msg \in PendingMsgs
        BY <4>1 DEF PendingMsgs
      <4> QED BY <2>1, <3>4, <4>2
    <3> QED BY <3>1, <3>2, <3>3, <3>4
  <2>6. AckedIsDurable'
    <3>1. acked' = acked \/ \E h \in Handler : Respond(h)
      BY <1>2, LogSteps DEF LogChange, WorkerDeliver
    <3>2. ASSUME NEW h \in Handler, Respond(h)
          PROVE  acked' \subseteq PendingMsgs \union delivered
      BY <3>2 DEF Respond, DeliveryOK, AckedIsDurable
    <3> QED BY <2>1, <3>1, <3>2 DEF AckedIsDurable
  <2> QED BY <2>3, <2>4, <2>5, <2>6 DEF DeliveryOK
<1> QED BY <1>1, <1>2

----------------------------------------------------------------------------
(* The theorems *)

\* The inductive invariant is one.
LEMMA NextIInv == IInv /\ [Next]_vars => IInv'
  BY TypeStep, ShapeStep, PauseStep, OnceIs, OnceStep, ErrorsStep, DeliveryStep DEF IInv

\* Every reachable state satisfies the inductive invariant.
THEOREM Invariance == Spec => []IInv
  BY InitIInv, NextIInv, PTL DEF Spec

\* The variables keep their types.
THEOREM TypeCorrect == Spec => []TypeOK
<1>1. IInv => TypeOK
  BY DEF IInv
<1> QED BY Invariance, <1>1, PTL

\* A rowid on its way to a worker names a pending row and the message it was
\* stored for: the "shouldn't happen?" branch of runMsgProc is dead.
THEOREM InFlightPending == Spec => []InFlightIsPending
<1>1. IInv => InFlightIsPending
  BY DEF IInv
<1> QED BY Invariance, <1>1, PTL

\* No row is worked on twice in one life of the process.
THEOREM WorkedOnce == Spec => []NoDoubleWork
<1>1. IInv => NoDoubleWork
  BY DEF IInv
<1> QED BY Invariance, <1>1, PTL

\* No pending row is forgotten while the context is live.
THEOREM NoneForgotten == Spec => []NothingForgotten
<1>1. IInv => NothingForgotten
  BY DEF IInv
<1> QED BY Invariance, <1>1, PTL

\* A message answered 200 is pending or was delivered.
THEOREM Durability == Spec => []AckedIsDurable
<1>1. IInv => AckedIsDurable
  BY DEF IInv
<1> QED BY Invariance, <1>1, PTL

\* Recorded errors are those of messages that were not delivered yet: also a
\* tombstone, which the foreign key of table errors would let it name, has none.
THEOREM ErrorsPending == Spec => []ErrorsArePending
<1>1. IInv => ErrorsArePending
  BY DEF IInv
<1> QED BY Invariance, <1>1, PTL

\* Run closes the database after the last worker, and replayLog closes a
\* channel no request sends on.
THEOREM ShutdownInOrder == Spec => []OrderlyShutdown
<1>1. IInv => OrderlyShutdown
  BY DEF IInv, Shape, OrderlyShutdown, IdleProcs, Closed
<1> QED BY Invariance, <1>1, PTL

\* No delivery is under way while EditSub holds the pause.
THEOREM PauseExclusive == Spec => []PauseIsExclusive
<1>1. IInv => PauseIsExclusive
  BY DEF IInv
<1> QED BY Invariance, <1>1, PTL

----------------------------------------------------------------------------
(* The pipeline implements module Notifications *)

LEMMA RefineInit == Init => Abstract!NInit
  BY DEF Init, Abstract!NInit, PendingMsgs, TombMsgs, Pending, Rows

\* Every step of the pipeline is a step of the abstract specification, or
\* changes nothing it knows of.
LEMMA RefineNext == IInv /\ [Next]_vars => [Abstract!NNext]_(Abstract!nvars)
<1> SUFFICES ASSUME IInv, [Next]_vars PROVE [Abstract!NNext]_(Abstract!nvars)
  OBVIOUS
<1> USE DEF Abstract!nvars
<1>1. TypeOK /\ Shape /\ LogOK /\ Once /\ DeliveryOK
  BY OnceIs DEF IInv
<1>2. CASE UNCHANGED vars
  BY <1>2 DEF vars, PendingMsgs, TombMsgs, Pending, Rows
<1>3. CASE Next
  <2>1. LogChange
    BY <1>1, <1>3, LogSteps
  <2>2. CASE /\ PendingMsgs' = PendingMsgs /\ TombMsgs' = TombMsgs
             /\ UNCHANGED <<delivered, acked>>
    BY <2>2
  <2>3. ASSUME PendingMsgs' = PendingMsgs, TombMsgs' = TombMsgs,
               NEW h \in Handler, Respond(h)
        PROVE  [Abstract!NNext]_(Abstract!nvars)
    <3>1. /\ http[h].msg \in Message /\ delivered' = delivered
          /\ \/ acked' = acked
             \/ /\ acked' = acked \union {http[h].msg}
                /\ http[h].msg \in PendingMsgs \union delivered
      BY <1>1, <2>3 DEF Respond, DeliveryOK, TypeOK, HttpState, Shape
    <3> QED BY <2>3, <3>1 DEF Abstract!NNext, Abstract!Ack
  <2>4. ASSUME PendingMsgs' = PendingMsgs, TombMsgs' = TombMsgs,
               NEW p \in Proc, WorkerDeliver(p), proc[p].msg \in PendingMsgs \intersect Message
        PROVE  Abstract!NNext
    BY <2>4 DEF WorkerDeliver, Abstract!NNext, Abstract!Deliver
  <2>5. ASSUME UNCHANGED <<delivered, acked>>, TombMsgs' = TombMsgs,
               NEW m \in Message, m \notin PendingMsgs \union TombMsgs,
               PendingMsgs' = PendingMsgs \union {m}
        PROVE  Abstract!NNext
    BY <2>5 DEF Abstract!NNext, Abstract!Log
  <2>6. ASSUME UNCHANGED <<delivered, acked>>,
               NEW p \in Proc, WorkerRetire(p), proc[p].msg \in PendingMsgs \intersect Message,
               PendingMsgs' = PendingMsgs \ {proc[p].msg},
               TombMsgs' = TombMsgs \union {proc[p].msg}
        PROVE  Abstract!NNext
    <3>1. proc[p].msg \in delivered
      BY <1>1, <2>6 DEF WorkerRetire, DeliveryOK
    <3> QED BY <2>6, <3>1 DEF Abstract!NNext, Abstract!Retire
  <2>7. ASSUME UNCHANGED <<delivered, acked>>, PendingMsgs' = PendingMsgs,
               NEW M \in SUBSET TombMsgs, M \subseteq Message, TombMsgs' = TombMsgs \ M
        PROVE  Abstract!NNext
    BY <2>7 DEF Abstract!NNext, Abstract!Forget
  <2> QED BY <2>1, <2>2, <2>3, <2>4, <2>5, <2>6, <2>7 DEF LogChange
<1> QED BY <1>2, <1>3

\* The pipeline keeps the promise of module Notifications: across crashes,
\* duplicates, failed statements and collections every message goes from logged
\* to delivered to retired to forgotten, and is answered 200 only from the log.
THEOREM Implements == Spec => Refinement
  BY Invariance, RefineInit, RefineNext, PTL DEF Spec, Refinement, Abstract!NSpec

============================================================================
