--------------------------- MODULE RetrierProofs ---------------------------
(***************************************************************************)
(* No notification is lost on the way from SNS to sesrcvr, for every       *)
(* number of messages, runs at a time, batch size and number of batches.   *)
(***************************************************************************)
EXTENDS Retrier, TLAPS

Answered(m) == m \in taken \union refused

\* What a run is about to delete from the queue is in the table, or was posted
\* from there since.
StoredIsKept == \A r \in Run : \A d \in run[r].stored : d.msg \in table \/ Answered(d.msg)

\* What a run is about to delete from the table was answered.
DeletingIsAnswered == \A r \in Run : \A m \in run[r].deleting : Answered(m)

\* A run that is about to query has a round left.
RoundLeft ==
  \A r \in Run :
    /\ run[r].pc \in {"off", "poll", "store"} => run[r].round = 0
    /\ run[r].pc = "query" => run[r].round < Rounds

IInv == TypeOK /\ RoundLeft /\ StoredIsKept /\ DeletingIsAnswered /\ NothingLost

RunType ==
  [pc : {"off", "poll", "store", "query", "post"}, known : BOOLEAN, ep : Url,
   received : SUBSET Delivery, stored : SUBSET Delivery,
   posting : SUBSET Msg, deleting : SUBSET Msg, deleted : SUBSET Msg,
   failed : BOOLEAN, full : BOOLEAN, round : 0 .. Rounds]

\* A run that was not started, or has returned, is well typed.
LEMMA OffIsRun == Off \in RunType
  BY RetrierConstants DEF Off, RunType, Url

\* The state of every run is well typed, as Start, Poll and the loops leave it.
LEMMA RunTyped == IInv => run \in [Run -> RunType]
  BY DEF IInv, TypeOK, RunType

LEMMA InitIInv == Init => IInv
  <1> SUFFICES ASSUME Init PROVE IInv
    OBVIOUS
  <1>1. TypeOK
    BY OffIsRun, RetrierConstants DEF Init, TypeOK, RunType, Url
  <1>2. RoundLeft /\ StoredIsKept /\ DeletingIsAnswered
    BY RetrierConstants DEF Init, RoundLeft, StoredIsKept, DeletingIsAnswered, Off
  <1>3. NothingLost
    BY DEF Init, NothingLost
  <1> QED
    BY <1>1, <1>2, <1>3 DEF IInv

----------------------------------------------------------------------------
(* Steps that leave the runs alone *)

\* SNS delivers, gives up, or hands a message to the interim lambda.
LEMMA SnsStep ==
  ASSUME IInv, NEW d \in Delivery,
         Deliver(d) \/ GiveUp(d) \/ InterimStores(d) \/ InterimFails(d)
  PROVE  IInv'
  <1>1. d.msg \in Msg
    BY DEF Delivery
  <1>2. TypeOK'
    BY <1>1 DEF IInv, TypeOK, Deliver, GiveUp, InterimStores, InterimFails, Accepts, Fails,
                seen, subs
  <1>3. RoundLeft'
    BY DEF IInv, RoundLeft, Deliver, GiveUp, InterimStores, InterimFails
  <1>4. table \subseteq table' /\ taken \subseteq taken' /\ refused \subseteq refused' /\ run' = run
    BY DEF Deliver, GiveUp, InterimStores, InterimFails, Accepts, Fails, seen
  <1>5. StoredIsKept' /\ DeletingIsAnswered'
    BY <1>4 DEF IInv, StoredIsKept, DeletingIsAnswered, Answered
  <1>6. NothingLost'
    <2> SUFFICES ASSUME NEW m \in 1 .. published PROVE Held(m)' \/ m \in taken' \union refused'
      BY DEF NothingLost, Deliver, GiveUp, InterimStores, InterimFails
    <2>1. Held(m) \/ m \in taken \union refused
      BY DEF IInv, NothingLost
    <2>2. CASE d.msg = m
      BY <2>2 DEF Held, Deliver, GiveUp, InterimStores, InterimFails, Accepts
    <2>3. CASE d.msg # m
      BY <1>4, <2>1, <2>3 DEF Held, Deliver, GiveUp, InterimStores, InterimFails
    <2> QED
      BY <2>2, <2>3
  <1> QED
    BY <1>2, <1>3, <1>5, <1>6 DEF IInv

LEMMA PublishStep ==
  ASSUME IInv, Publish
  PROVE  IInv'
  <1>1. published \in Nat /\ published < Last /\ published' = published + 1
    BY RetrierConstants DEF IInv, TypeOK, Publish
  <1>2. PICK to \in (SUBSET Via) \ {{}} :
          sns' = sns \union {[msg |-> published', to |-> t] : t \in to}
    BY DEF Publish
  <1>3. published' \in Msg /\ published' \in 0 .. Last
    BY <1>1, RetrierConstants DEF Msg
  <1>4. TypeOK'
    BY <1>2, <1>3 DEF IInv, TypeOK, Publish, Delivery, subs, seen
  <1>5. RoundLeft' /\ StoredIsKept' /\ DeletingIsAnswered'
    BY DEF IInv, RoundLeft, StoredIsKept, DeletingIsAnswered, Answered, Publish, seen
  <1>6. NothingLost'
    <2> SUFFICES ASSUME NEW m \in 1 .. published' PROVE Held(m)' \/ m \in taken' \union refused'
      BY DEF NothingLost
    <2>1. CASE m \in 1 .. published
      BY <1>2, <2>1 DEF IInv, NothingLost, Held, Publish, seen
    <2>2. CASE m = published'
      <3>1. PICK t \in to : TRUE
        BY <1>2
      <3>2. [msg |-> m, to |-> t] \in sns' /\ [msg |-> m, to |-> t].msg = m
        BY <1>2, <2>2
      <3> QED
        BY <3>2 DEF Held
    <2> QED
      BY <1>1, <2>1, <2>2
  <1> QED
    BY <1>4, <1>5, <1>6 DEF IInv

\* The subscription of the topic changes.
LEMMA SubscriptionStep ==
  ASSUME IInv, NEW e \in Url, SetItem(e) \/ SetRow(e)
  PROVE  IInv'
  BY DEF IInv, TypeOK, RoundLeft, StoredIsKept, DeletingIsAnswered, NothingLost, Answered, Held,
         SetItem, SetRow, cloud, seen

----------------------------------------------------------------------------
(* Steps of a run *)

\* A step of a run that loses nothing keeps the invariant: the run stays well
\* typed and what it is about to delete is safe.
LEMMA RunStep ==
  ASSUME IInv, NEW r \in Run, NEW new \in RunType,
         run' = [run EXCEPT ![r] = new], NothingLost', TypeOK',
         table \subseteq table' \/ \A m \in table \ table' : Answered(m),
         taken \subseteq taken' /\ refused \subseteq refused',
         new.pc \in {"off", "poll", "store"} => new.round = 0,
         new.pc = "query" => new.round < Rounds,
         \A d \in new.stored : d \in run[r].stored \/ d.msg \in table',
         \A m \in new.deleting : m \in run[r].deleting \/ m \in taken' \union refused'
  PROVE  IInv'
  <1>1. /\ run'[r] = new
        /\ \A q \in Run : q # r => run'[q] = run[q]
    BY RunTyped
  <1>2. RoundLeft'
    BY <1>1 DEF IInv, RoundLeft
  <1>3. StoredIsKept'
    <2> SUFFICES ASSUME NEW q \in Run, NEW d \in run'[q].stored
                 PROVE  d.msg \in table' \/ d.msg \in taken' \union refused'
      BY DEF StoredIsKept, Answered
    <2>1. CASE d \in run[q].stored
      BY <2>1 DEF IInv, StoredIsKept, Answered
    <2>2. CASE d \notin run[q].stored
      BY <1>1, <2>2
    <2> QED
      BY <2>1, <2>2
  <1>4. DeletingIsAnswered'
    <2> SUFFICES ASSUME NEW q \in Run, NEW m \in run'[q].deleting
                 PROVE  m \in taken' \union refused'
      BY DEF DeletingIsAnswered, Answered
    <2>1. CASE m \in run[q].deleting
      BY <2>1 DEF IInv, DeletingIsAnswered, Answered
    <2>2. CASE m \notin run[q].deleting
      BY <1>1, <2>2
    <2> QED
      BY <2>1, <2>2
  <1> QED
    BY <1>2, <1>3, <1>4 DEF IInv

\* Steps that only change the run: it starts, reads the item, polls, goes on
\* with the next batch, returns, or dies.
LEMMA InnerStep ==
  ASSUME IInv, NEW r \in Run,
         \/ Start(r) \/ ReadItem(r) \/ Poll(r) \/ NextBatch(r) \/ Return(r) \/ Dies(r)
         \/ \E late \in SUBSET run[r].deleted : Query(r, late)
  PROVE  IInv'
  <1> USE RunTyped, RetrierConstants
  <1>1. run[r] \in RunType
    OBVIOUS
  <1>2. UNCHANGED <<cloud, subs, seen>>
    BY DEF Start, ReadItem, Poll, NextBatch, Return, Dies, Query
  <1>3. NothingLost'
    BY <1>2 DEF IInv, NothingLost, Held, cloud, seen
  <1>4. SUFFICES ASSUME NEW new \in RunType, run' = [run EXCEPT ![r] = new],
                        new.pc \in {"off", "poll", "store"} => new.round = 0,
                        new.pc = "query" => new.round < Rounds,
                        new.stored \subseteq run[r].stored,
                        new.deleting \subseteq run[r].deleting
                 PROVE  IInv'
    <2>1. CASE Start(r)
      <3> DEFINE new == [Off EXCEPT !.pc = "poll"]
      <3>1. new \in RunType /\ run' = [run EXCEPT ![r] = new]
        BY <2>1, OffIsRun DEF Start, RunType
      <3>2. new.round = 0 /\ new.pc = "poll" /\ new.stored = {} /\ new.deleting = {}
        BY DEF Off
      <3> QED
        BY <3>1, <3>2, <1>4
    <2>2. CASE ReadItem(r)
      <3> DEFINE new == [run[r] EXCEPT !.known = TRUE, !.ep = item]
      <3>1. item \in Url
        BY DEF IInv, TypeOK
      <3>2. new \in RunType /\ run' = [run EXCEPT ![r] = new]
        BY <1>1, <2>2, <3>1 DEF ReadItem, RunType
      <3>3. /\ new.pc = run[r].pc /\ new.round = run[r].round
            /\ new.stored = run[r].stored /\ new.deleting = run[r].deleting
        BY <1>1 DEF RunType
      <3> QED
        BY <3>2, <3>3, <1>4 DEF IInv, RoundLeft
    <2>3. CASE Poll(r)
      <3>1. PICK received \in SUBSET dlq :
              run' = [run EXCEPT ![r].pc = "store", ![r].received = received]
        BY <2>3 DEF Poll
      <3> DEFINE new == [run[r] EXCEPT !.pc = "store", !.received = received]
      <3>2. received \in SUBSET Delivery
        BY DEF IInv, TypeOK
      <3>3. new \in RunType /\ run' = [run EXCEPT ![r] = new]
        BY <1>1, <3>1, <3>2 DEF RunType
      <3>4. /\ new.pc = "store" /\ new.round = run[r].round /\ run[r].pc = "poll"
            /\ new.stored = run[r].stored /\ new.deleting = run[r].deleting
        BY <1>1, <2>3 DEF RunType, Poll
      <3> QED
        BY <3>3, <3>4, <1>4 DEF IInv, RoundLeft
    <2>4. CASE NextBatch(r)
      <3> DEFINE new == [run[r] EXCEPT !.pc = "query"]
      <3>1. new \in RunType /\ run' = [run EXCEPT ![r] = new]
        BY <1>1, <2>4 DEF NextBatch, RunType
      <3>2. /\ new.pc = "query" /\ new.round = run[r].round
            /\ new.stored = run[r].stored /\ new.deleting = run[r].deleting
        BY <1>1 DEF RunType
      <3>3. run[r].round < Rounds
        BY <2>4 DEF NextBatch, Continues
      <3> QED
        BY <3>1, <3>2, <3>3, <1>4
    <2>5. CASE Return(r) \/ Dies(r)
      <3>1. run' = [run EXCEPT ![r] = Off]
        BY <2>5 DEF Return, Dies
      <3>2. Off.round = 0 /\ Off.pc = "off" /\ Off.stored = {} /\ Off.deleting = {}
        BY DEF Off
      <3> QED
        BY <3>1, <3>2, <1>4, OffIsRun
    <2>6. CASE \E late \in SUBSET run[r].deleted : Query(r, late)
      <3>1. PICK late \in SUBSET run[r].deleted : Query(r, late)
        BY <2>6
      <3> DEFINE batch == Oldest(table \union late)
                 full == Cardinality(batch) = Batch
                 new == [run[r] EXCEPT !.pc = "post", !.posting = batch, !.full = full,
                                       !.failed = FALSE, !.round = run[r].round + 1]
      <3>2. batch \in SUBSET Msg
        BY <1>1 DEF IInv, TypeOK, RunType, Oldest
      <3>3. full \in BOOLEAN
        OBVIOUS
      <3>4. run[r].pc = "query" /\ run[r].round \in 0 .. Rounds
        BY <1>1, <3>1 DEF Query, RunType
      <3>5. run[r].round + 1 \in 0 .. Rounds
        BY <3>4 DEF IInv, RoundLeft
      <3>6. run' = [run EXCEPT ![r] = new]
        BY <3>1 DEF Query
      <3> HIDE DEF batch, full
      <3>7. new \in RunType
        BY <1>1, <3>2, <3>3, <3>5 DEF RunType
      <3>8. /\ new.pc = "post"
            /\ new.stored = run[r].stored /\ new.deleting = run[r].deleting
        BY <1>1 DEF RunType
      <3> HIDE DEF new
      <3> QED
        BY <3>6, <3>7, <3>8, <1>4
    <2> QED
      BY <2>1, <2>2, <2>3, <2>4, <2>5, <2>6
  <1>5. TypeOK'
    BY <1>2, <1>4 DEF IInv, TypeOK, RunType, cloud, subs, seen
  <1> QED
    BY <1>2, <1>3, <1>4, <1>5, RunStep DEF cloud, seen

\* PutItem of a received message, done or failed, with or without effect.
LEMMA StoreStep ==
  ASSUME IInv, NEW r \in Run, NEW d \in Delivery, Store(r, d) \/ StoreFails(r, d)
  PROVE  IInv'
  <1> USE RunTyped
  <1>1. run[r] \in RunType /\ d.msg \in Msg /\ d \in run[r].received
    BY DEF Delivery, Store, StoreFails
  <1>2. PICK stored \in {run[r].stored, run[r].stored \union {d}} :
          /\ run' = [run EXCEPT ![r].received = @ \ {d}, ![r].stored = stored]
          /\ stored = run[r].stored \/ d.msg \in table'
    BY <1>1 DEF Store, StoreFails, RunType
  <1> DEFINE new == [run[r] EXCEPT !.received = @ \ {d}, !.stored = stored]
  <1>3. new \in RunType /\ run' = [run EXCEPT ![r] = new]
    BY <1>1, <1>2 DEF RunType
  <1>4. /\ new.pc = run[r].pc /\ new.round = run[r].round
        /\ new.stored = stored /\ new.deleting = run[r].deleting
    BY <1>1 DEF RunType
  <1>5. table' \in SUBSET Msg /\ table \subseteq table' /\ UNCHANGED <<published, sns, dlq, subs, seen>>
    BY <1>1 DEF Store, StoreFails, IInv, TypeOK
  <1>6. NothingLost'
    BY <1>5 DEF IInv, NothingLost, Held, seen
  <1>7. TypeOK'
    BY <1>3, <1>5 DEF IInv, TypeOK, RunType, subs, seen
  <1>8. \A x \in new.stored : x \in run[r].stored \/ x.msg \in table'
    BY <1>2, <1>4
  <1> HIDE DEF new
  <1> QED
    BY <1>3, <1>4, <1>5, <1>6, <1>7, <1>8, RunStep DEF IInv, RoundLeft, seen

\* DeleteMessageBatch: what leaves the queue is in the table, or was answered.
LEMMA FlushStep ==
  ASSUME IInv, NEW r \in Run, NEW done \in SUBSET run[r].stored, Flush(r, done)
  PROVE  IInv'
  <1> USE RunTyped
  <1>1. run[r] \in RunType
    OBVIOUS
  <1> DEFINE new == [run[r] EXCEPT !.pc = "query", !.stored = {}]
  <1>2. new \in RunType /\ run' = [run EXCEPT ![r] = new]
    BY <1>1 DEF Flush, RunType
  <1>3. /\ new.pc = "query" /\ new.round = run[r].round
        /\ new.stored = {} /\ new.deleting = run[r].deleting
    BY <1>1 DEF RunType
  <1>4. dlq' = dlq \ done /\ UNCHANGED <<published, sns, table, subs, seen>>
    BY DEF Flush
  <1>5. NothingLost'
    BY <1>4 DEF IInv, NothingLost, StoredIsKept, Answered, Held, seen
  <1>6. TypeOK'
    BY <1>2, <1>4 DEF IInv, TypeOK, RunType, subs, seen
  <1>7. new.round < Rounds
    BY <1>3, RetrierConstants DEF IInv, RoundLeft, Flush
  <1> HIDE DEF new
  <1> QED
    BY <1>2, <1>3, <1>4, <1>5, <1>6, <1>7, RunStep DEF seen

\* The endpoint answers the run, or does not.
LEMMA PostStep ==
  ASSUME IInv, NEW r \in Run, NEW m \in Msg,
         PostOk(r, m) \/ PostRefused(r, m) \/ PostFails(r, m)
  PROVE  IInv'
  <1> USE RunTyped
  <1>1. run[r] \in RunType /\ UNCHANGED <<cloud, subs>>
    BY DEF PostOk, PostRefused, PostFails
  <1>2. taken' \in {taken, taken \union {m}} /\ refused' \in {refused, refused \union {m}}
    BY DEF PostOk, PostRefused, PostFails, Accepts, Refuses, Fails
  <1>3. NothingLost'
    BY <1>1, <1>2 DEF IInv, NothingLost, Held, cloud
  <1>4. ASSUME NEW new \in RunType, run' = [run EXCEPT ![r] = new],
               new.pc = run[r].pc, new.round = run[r].round, new.stored = run[r].stored,
               \A x \in new.deleting : x \in run[r].deleting \/ x \in taken' \union refused'
        PROVE  IInv'
    <2>1. TypeOK'
      BY <1>1, <1>2, <1>4 DEF IInv, TypeOK, RunType, cloud, subs
    <2> QED
      BY <1>1, <1>2, <1>3, <1>4, <2>1, RunStep DEF IInv, RoundLeft, cloud
  <1>5. CASE PostOk(r, m) \/ PostRefused(r, m)
    <2> DEFINE new == [run[r] EXCEPT !.posting = @ \ {m}, !.deleting = @ \union {m}]
    <2>1. new \in RunType /\ run' = [run EXCEPT ![r] = new]
      BY <1>1, <1>5 DEF PostOk, PostRefused, RunType
    <2>2. /\ new.pc = run[r].pc /\ new.round = run[r].round /\ new.stored = run[r].stored
          /\ new.deleting = run[r].deleting \union {m}
      BY <1>1 DEF RunType
    <2>3. m \in taken' \union refused'
      BY <1>5 DEF PostOk, PostRefused, Accepts, Refuses
    <2> HIDE DEF new
    <2> QED
      BY <1>4, <2>1, <2>2, <2>3
  <1>6. CASE PostFails(r, m)
    <2> DEFINE new == [run[r] EXCEPT !.posting = @ \ {m}, !.failed = TRUE]
    <2>1. new \in RunType /\ run' = [run EXCEPT ![r] = new]
      BY <1>1, <1>6 DEF PostFails, RunType
    <2>2. /\ new.pc = run[r].pc /\ new.round = run[r].round /\ new.stored = run[r].stored
          /\ new.deleting = run[r].deleting
      BY <1>1 DEF RunType
    <2> HIDE DEF new
    <2> QED
      BY <1>4, <2>1, <2>2
  <1> QED
    BY <1>5, <1>6

\* DeleteItem of an answered message, done or failed.
LEMMA DeleteStep ==
  ASSUME IInv, NEW r \in Run, NEW m \in Msg, Delete(r, m) \/ DeleteFails(r, m)
  PROVE  IInv'
  <1> USE RunTyped
  <1>1. run[r] \in RunType /\ m \in run[r].deleting /\ Answered(m)
    BY DEF Delete, DeleteFails, IInv, DeletingIsAnswered
  <1>2. table' \in {table, table \ {m}} /\ UNCHANGED <<published, sns, dlq, subs, seen>>
    BY DEF Delete, DeleteFails
  <1>3. NothingLost'
    BY <1>1, <1>2 DEF IInv, NothingLost, Held, Answered, seen
  <1>4. PICK deleted \in SUBSET Msg :
          run' = [run EXCEPT ![r].deleting = @ \ {m}, ![r].deleted = deleted]
    <2>1. CASE Delete(r, m)
      <3>1. run[r].deleted \union {m} \in SUBSET Msg
        BY <1>1 DEF RunType
      <3> QED
        BY <2>1, <3>1 DEF Delete
    <2>2. CASE DeleteFails(r, m)
      <3>1. run[r].deleted \in SUBSET Msg
        BY <1>1 DEF RunType
      <3>2. run' = [run EXCEPT ![r].deleting = @ \ {m}, ![r].deleted = run[r].deleted]
        BY <1>1, <2>2 DEF DeleteFails, RunType
      <3> QED
        BY <3>1, <3>2
    <2> QED
      BY <2>1, <2>2
  <1> DEFINE new == [run[r] EXCEPT !.deleting = @ \ {m}, !.deleted = deleted]
  <1>5. new \in RunType /\ run' = [run EXCEPT ![r] = new]
    BY <1>1, <1>4 DEF RunType
  <1>6. /\ new.pc = run[r].pc /\ new.round = run[r].round /\ new.stored = run[r].stored
        /\ new.deleting \subseteq run[r].deleting
    BY <1>1 DEF RunType
  <1>7. TypeOK'
    BY <1>2, <1>5 DEF IInv, TypeOK, RunType, subs, seen
  <1>8. \A x \in table \ table' : Answered(x)
    BY <1>1, <1>2
  <1> HIDE DEF new
  <1> QED
    BY <1>2, <1>3, <1>5, <1>6, <1>7, <1>8, RunStep DEF IInv, RoundLeft, seen

----------------------------------------------------------------------------
LEMMA NextIInv == IInv /\ [Next]_vars => IInv'
  <1> SUFFICES ASSUME IInv, [Next]_vars PROVE IInv'
    OBVIOUS
  <1>1. CASE Publish
    BY <1>1, PublishStep
  <1>2. CASE Sns
    BY <1>2, SnsStep DEF Sns
  <1>3. CASE \E e \in Url : SetItem(e) \/ SetRow(e)
    BY <1>3, SubscriptionStep
  <1>4. ASSUME NEW r \in Run, Succeeds(r) \/ Errs(r) PROVE IInv'
    <2>1. \/ \/ Start(r) \/ ReadItem(r) \/ Poll(r) \/ NextBatch(r) \/ Return(r) \/ Dies(r)
             \/ \E late \in SUBSET run[r].deleted : Query(r, late)
          \/ \E d \in Delivery : Store(r, d) \/ StoreFails(r, d)
          \/ \E done \in SUBSET run[r].stored : Flush(r, done)
          \/ \E m \in Msg : PostOk(r, m) \/ PostRefused(r, m) \/ PostFails(r, m)
          \/ \E m \in Msg : Delete(r, m) \/ DeleteFails(r, m)
      BY <1>4 DEF Succeeds, Errs
    <2> QED
      BY <2>1, InnerStep, StoreStep, FlushStep, PostStep, DeleteStep
  <1>5. CASE UNCHANGED vars
    BY <1>5 DEF vars, IInv, TypeOK, RoundLeft, StoredIsKept, DeletingIsAnswered, NothingLost,
                Answered, Held
  <1> QED
    BY <1>1, <1>2, <1>3, <1>4, <1>5 DEF Next

LEMMA Inductive == Spec => []IInv
  BY InitIInv, NextIInv, PTL DEF Spec

\* The variables keep their types, and a run its bound on the batches it posts.
THEOREM TypeCorrect == Spec => []TypeOK
  <1>1. IInv => TypeOK
    BY DEF IInv
  <1> QED
    BY <1>1, Inductive, PTL

\* A notification leaves SNS, the dead-letter queue and the table only when
\* sesrcvr has logged it or has answered the retrier with 4xx.
THEOREM NoLoss == Spec => []NothingLost
  <1>1. IInv => NothingLost
    BY DEF IInv
  <1> QED
    BY <1>1, Inductive, PTL
=============================================================================
