------------------------------ MODULE Retrier ------------------------------
(***************************************************************************)
(* The way of a notification that SNS could not deliver: SNS's             *)
(* dead-letter queue, the interim lambda (aws/interim-sub), the DynamoDB   *)
(* table, and the delivery retrier (aws/delivery-retrier), which moves     *)
(* the queue to the table and posts the table to the endpoint of sesrcvr.  *)
(*                                                                         *)
(* A run of the retrier polls the queue, writes what it received to the    *)
(* table, deletes it from the queue, and posts the oldest of the table,    *)
(* a batch at a time, one goroutine per message.  Any call to AWS may      *)
(* fail, with or without its effect, and a run may end anywhere.           *)
(*                                                                         *)
(* Messages are numbered in the order of their timestamps.                 *)
(***************************************************************************)
EXTENDS Naturals, FiniteSets

CONSTANTS
  Last,     \* number of messages (a bound)
  Via,      \* how SNS delivers: to the endpoint, to the interim lambda
  Endpoint, \* URLs of sesrcvr, each with the uuid of a row
  Run,      \* runs of the retrier at a time: EventBridge may start one twice
  Batch,    \* batchSize, and the messages of a poll: 10 in the code
  Rounds,   \* batches of a run: 3 in the code
  None      \* no endpoint

ASSUME RetrierConstants ==
  /\ Last \in Nat /\ Batch \in Nat \ {0} /\ Rounds \in Nat \ {0}
  /\ Via \subseteq {"endpoint", "interim"} /\ None \notin Endpoint

VARIABLES
  published, \* messages that were published so far
  sns,       \* deliveries SNS still has to make
  dlq,       \* the deliveries that failed, in the dead-letter queue
  table,     \* messages in the table
  item,      \* the endpoint the topic's item has, with a subscription ARN
  row,       \* the endpoint of sesrcvr's row of the topic
  run,       \* the runs
  taken,     \* messages sesrcvr has logged
  refused    \* messages sesrcvr answered 4xx when the retrier posted them

cloud == <<published, sns, dlq, table>>
subs  == <<item, row>>
seen  == <<taken, refused>>
vars  == <<published, sns, dlq, table, item, row, run, taken, refused>>

Msg      == 1 .. Last
Delivery == [msg : Msg, to : Via]
Url      == Endpoint \union {None}

Off == [pc |-> "off", known |-> FALSE, ep |-> None, received |-> {}, stored |-> {},
        posting |-> {}, deleting |-> {}, deleted |-> {},
        failed |-> FALSE, full |-> FALSE, round |-> 0]

\* A query of the index: in the order of the timestamps, at most a batch.
Oldest(S) == {m \in S : Cardinality({n \in S : n < m}) < Batch}

Init ==
  /\ published = 0 /\ sns = {} /\ dlq = {} /\ table = {}
  /\ item = None /\ row = None
  /\ run = [r \in Run |-> Off]
  /\ taken = {} /\ refused = {}

----------------------------------------------------------------------------
(* Answers of sesrcvr *)

\* 200: the message is in the log.
Accepts(m) == taken' = taken \union {m} /\ refused' = refused

\* 403: the uuid is not the row's, or the row or the certificate of the
\* signature could not be read.
Refuses(m) == taken' = taken /\ refused' = refused \union {m}

\* 5xx or no answer; the message may be logged all the same.
Fails(m) == taken' \in {taken, taken \union {m}} /\ refused' = refused

----------------------------------------------------------------------------
(* Subscriptions and SNS *)

\* Module Subscriptions: the item and the row change on their own.
SetItem(e) == item' = e /\ UNCHANGED <<cloud, row, run, seen>>
SetRow(e)  == row' = e /\ UNCHANGED <<cloud, item, run, seen>>

\* SES publishes a notification; somebody is subscribed.
Publish ==
  /\ published < Last
  /\ published' = published + 1
  /\ \E to \in (SUBSET Via) \ {{}} :
       sns' = sns \union {[msg |-> published', to |-> t] : t \in to}
  /\ UNCHANGED <<dlq, table, subs, run, seen>>

Deliver(d) ==
  /\ d \in sns /\ d.to = "endpoint" /\ row # None
  /\ sns' = sns \ {d}
  /\ Accepts(d.msg)
  /\ UNCHANGED <<published, dlq, table, subs, run>>

\* After the retries of its delivery policy, or at once when answered 4xx.
GiveUp(d) ==
  /\ d \in sns /\ d.to = "endpoint"
  /\ sns' = sns \ {d} /\ dlq' = dlq \union {d}
  /\ Fails(d.msg)
  /\ UNCHANGED <<published, table, subs, run>>

\* The interim lambda.
InterimStores(d) ==
  /\ d \in sns /\ d.to = "interim"
  /\ sns' = sns \ {d} /\ table' = table \union {d.msg}
  /\ UNCHANGED <<published, dlq, subs, run, seen>>

InterimFails(d) ==
  /\ d \in sns /\ d.to = "interim"
  /\ sns' = sns \ {d} /\ dlq' = dlq \union {d}
  /\ table' \in {table, table \union {d.msg}}
  /\ UNCHANGED <<published, subs, run, seen>>

----------------------------------------------------------------------------
(* A run: from the queue to the table *)

Start(r) ==
  /\ run[r].pc = "off"
  /\ run' = [run EXCEPT ![r] = [Off EXCEPT !.pc = "poll"]]
  /\ UNCHANGED <<cloud, subs, seen>>

\* The goroutine reads the topic's item; without it the run is over.
ReadItem(r) ==
  /\ run[r].pc # "off" /\ ~run[r].known
  /\ run' = [run EXCEPT ![r].known = TRUE, ![r].ep = item]
  /\ UNCHANGED <<cloud, subs, seen>>

Poll(r) ==
  /\ run[r].pc = "poll"
  /\ \E received \in SUBSET dlq :
       /\ Cardinality(received) <= Batch
       /\ run' = [run EXCEPT ![r].pc = "store", ![r].received = received]
  /\ UNCHANGED <<cloud, subs, seen>>

Store(r, d) ==
  /\ d \in run[r].received
  /\ table' = table \union {d.msg}
  /\ run' = [run EXCEPT ![r].received = @ \ {d}, ![r].stored = @ \union {d}]
  /\ UNCHANGED <<published, sns, dlq, subs, seen>>

\* Mutant: the index is appended before the error is looked at.
StoreFailsStored(r, d) ==
  /\ d \in run[r].received
  /\ table' \in {table, table \union {d.msg}}
  /\ run' = [run EXCEPT ![r].received = @ \ {d}, ![r].stored = @ \union {d}]
  /\ UNCHANGED <<published, sns, dlq, subs, seen>>

StoreFails(r, d) ==
  /\ d \in run[r].received
  /\ table' \in {table, table \union {d.msg}}
  /\ run' = [run EXCEPT ![r].received = @ \ {d}]
  /\ UNCHANGED <<published, sns, dlq, subs, seen>>

\* DeleteMessageBatch: some of them, or none, if it fails.
Flush(r, done) ==
  /\ run[r].pc = "store" /\ run[r].received = {}
  /\ done \subseteq run[r].stored
  /\ dlq' = dlq \ done
  /\ run' = [run EXCEPT ![r].pc = "query", ![r].stored = {}]
  /\ UNCHANGED <<published, sns, table, subs, seen>>

----------------------------------------------------------------------------
(* A run: from the table to the endpoint *)

\* The read is eventually consistent: what this run deleted may come back.
Query(r, late) ==
  /\ run[r].pc = "query" /\ run[r].known /\ run[r].ep # None
  /\ late \subseteq run[r].deleted
  /\ LET batch == Oldest(table \union late) IN
     run' = [run EXCEPT ![r].pc = "post", ![r].posting = batch,
                        ![r].full = Cardinality(batch) = Batch,
                        ![r].failed = FALSE, ![r].round = @ + 1]
  /\ UNCHANGED <<cloud, subs, seen>>

PostOk(r, m) ==
  /\ m \in run[r].posting /\ run[r].ep = row
  /\ Accepts(m)
  /\ run' = [run EXCEPT ![r].posting = @ \ {m}, ![r].deleting = @ \union {m}]
  /\ UNCHANGED <<cloud, subs>>

\* 4xx is "considered successful delivery".
PostRefused(r, m) ==
  /\ m \in run[r].posting
  /\ Refuses(m)
  /\ run' = [run EXCEPT ![r].posting = @ \ {m}, ![r].deleting = @ \union {m}]
  /\ UNCHANGED <<cloud, subs>>

PostFails(r, m) ==
  /\ m \in run[r].posting
  /\ Fails(m)
  /\ run' = [run EXCEPT ![r].posting = @ \ {m}, ![r].failed = TRUE]
  /\ UNCHANGED <<cloud, subs>>

Delete(r, m) ==
  /\ m \in run[r].deleting
  /\ table' = table \ {m}
  /\ run' = [run EXCEPT ![r].deleting = @ \ {m}, ![r].deleted = @ \union {m}]
  /\ UNCHANGED <<published, sns, dlq, subs, seen>>

DeleteFails(r, m) ==
  /\ m \in run[r].deleting
  /\ table' \in {table, table \ {m}}
  /\ run' = [run EXCEPT ![r].deleting = @ \ {m}]
  /\ UNCHANGED <<published, sns, dlq, subs, seen>>

\* wg.Wait returned.
BatchDone(r) == run[r].pc = "post" /\ run[r].posting = {} /\ run[r].deleting = {}

Continues(r) == ~run[r].failed /\ run[r].full /\ run[r].round < Rounds

NextBatch(r) ==
  /\ BatchDone(r) /\ Continues(r)
  /\ run' = [run EXCEPT ![r].pc = "query"]
  /\ UNCHANGED <<cloud, subs, seen>>

Return(r) ==
  /\ \/ BatchDone(r) /\ ~Continues(r)
     \/ run[r].pc = "query" /\ run[r].known /\ run[r].ep = None
  /\ run' = [run EXCEPT ![r] = Off]
  /\ UNCHANGED <<cloud, subs, seen>>

\* A call fails and the handler returns, or its deadline ends the run.
Dies(r) ==
  /\ run[r].pc # "off"
  /\ run' = [run EXCEPT ![r] = Off]
  /\ UNCHANGED <<cloud, subs, seen>>

----------------------------------------------------------------------------
Succeeds(r) ==
  \/ Start(r) \/ ReadItem(r) \/ Poll(r) \/ Flush(r, run[r].stored)
  \/ Query(r, {}) \/ NextBatch(r) \/ Return(r)
  \/ \E d \in Delivery : Store(r, d)
  \/ \E m \in Msg : PostOk(r, m) \/ Delete(r, m)

Errs(r) ==
  \/ Dies(r)
  \/ \E done \in SUBSET run[r].stored : Flush(r, done)
  \/ \E late \in SUBSET run[r].deleted : Query(r, late)
  \/ \E d \in Delivery : StoreFails(r, d)
  \/ \E m \in Msg : PostRefused(r, m) \/ PostFails(r, m) \/ DeleteFails(r, m)

Sns ==
  \E d \in Delivery : Deliver(d) \/ GiveUp(d) \/ InterimStores(d) \/ InterimFails(d)

Next ==
  \/ Publish \/ Sns
  \/ \E e \in Url : SetItem(e) \/ SetRow(e)
  \/ \E r \in Run : Succeeds(r) \/ Errs(r)

Spec == Init /\ [][Next]_vars

\* The endpoint the run read is not sesrcvr's any more: it answers 403.
Outdated(r) == run[r].ep # row /\ \E m \in Msg : PostRefused(r, m)

Steady == Publish \/ Sns \/ \E r \in Run : Succeeds(r) \/ Outdated(r)

\* SNS delivers or gives up, the cron rule starts runs, they go on, and a poll
\* does not leave out the same message for ever.
Fairness ==
  /\ WF_vars(Sns)
  /\ \A r \in Run :
       /\ WF_vars(Succeeds(r) \/ Outdated(r))
       /\ \A d \in Delivery : SF_vars(Poll(r) /\ d \in run'[r].received)

\* Assumed besides: failures, late reads and changes of the subscription come to
\* an end, with the item and the row at one endpoint.
FairSpec == Spec /\ Fairness /\ <>[][Steady]_vars /\ <>[](item = row /\ row # None)

----------------------------------------------------------------------------
TypeOK ==
  /\ published \in 0 .. Last
  /\ sns \subseteq Delivery /\ dlq \subseteq Delivery /\ table \subseteq Msg
  /\ item \in Url /\ row \in Url
  /\ run \in [Run -> [pc : {"off", "poll", "store", "query", "post"},
                      known : BOOLEAN, ep : Url,
                      received : SUBSET Delivery, stored : SUBSET Delivery,
                      posting : SUBSET Msg, deleting : SUBSET Msg, deleted : SUBSET Msg,
                      failed : BOOLEAN, full : BOOLEAN, round : 0 .. Rounds]]
  /\ taken \subseteq Msg /\ refused \subseteq Msg

\* A place of the cloud still has the message.
Held(m) == m \in table \/ \E d \in sns \union dlq : d.msg = m

\* A notification leaves SNS, the queue and the table only when sesrcvr has it
\* in its log or has answered the retrier with 4xx: no failed call and no run
\* that ends between two steps loses one.
NothingLost == \A m \in 1 .. published : Held(m) \/ m \in taken \union refused

\* However often the runs end in the middle, once they do not any more every
\* notification reaches sesrcvr, also one behind a full batch of older ones.
EventuallyTaken == \A m \in Msg : m <= published ~> m \in taken \union refused

\* doc/README.md: the records of the table are removed "on success".
KeptUntilTaken == \A m \in 1 .. published : Held(m) \/ m \in taken
=============================================================================
