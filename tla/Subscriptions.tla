---------------------------- MODULE Subscriptions ----------------------------
(***************************************************************************)
(* The subscription of one SNS topic, in the four places that hold it: the *)
(* table and the cache of sesrcvr, SNS itself, and the topic's item in     *)
(* DynamoDB, which the subscription manager lambda (aws/submgr) writes.    *)
(*                                                                         *)
(* In sesrcvr the RPCs EditSub and RemoveSub and the requests of SNS take  *)
(* turns through withTopic (module TopicLock: a mutex, waiters in order).  *)
(* Inside, they may invoke the lambda and wait.  The lambda is several     *)
(* calls to AWS: each may fail, an invocation the caller gave up on goes   *)
(* on, and the SDK invokes it again when the connection breaks.            *)
(*                                                                         *)
(* An endpoint is the URL with the uuid (column auth) of a row, and is     *)
(* named by that uuid.                                                     *)
(***************************************************************************)
EXTENDS Naturals, Sequences, FiniteSets, SequencesExt

CONSTANTS
  Auth,    \* uuids
  Arn,     \* ARNs of SNS subscriptions
  Call,    \* invocations of the lambda at a time (a bound)
  MaxWait, \* bound on the callers that wait in withTopic
  None     \* SQL NULL, a missing attribute, nil

ASSUME SubscriptionsConstants ==
  /\ MaxWait \in Nat /\ None \notin Auth \union Arn \union Call
  /\ \A k \in Arn \union {None} : None # [arn |-> k]

VARIABLES
  row,     \* the topic's row in subscriptions; without a uuid, there is none
  issued,  \* uuids that were given to rows
  cached,  \* lockedSub.cached
  queue,   \* callers waiting in withTopic, in order
  op,      \* the callback that runs in withTopic and waits for the lambda
  lambda,  \* the invocations of the subscription manager
  sns,     \* subscriptions of the topic with protocol http[s]
  interim, \* the interim lambda is subscribed to the topic
  item,    \* the topic's item in the DynamoDB table
  mishaps  \* history: what happened to invocations and notifications

server == <<row, issued, cached, queue, op>>
cloud  == <<lambda, sns, interim, item>>
vars   == <<row, issued, cached, queue, op, lambda, sns, interim, item, mishaps>>

----------------------------------------------------------------------------
NoRow   == [auth |-> None, arn |-> None]
NoItem  == [url |-> None, arn |-> None]
NoOp    == [kind |-> "none", arn |-> None, call |-> None]
OffCall == [pc |-> "off", api |-> "none", url |-> None, arn |-> None]

\* What initSubs and EditSub cache of the row.
Loaded(r) == IF r.auth = None THEN None ELSE [arn |-> r.arn]

HasState(state) == {k \in Arn : sns[k].state = state}
Subscribed(url) == {k \in HasState("pending") \union HasState("confirmed") : sns[k].url = url}
Running(l)      == lambda[l].pc \notin {"off", "ok", "failed"}

\* History.  "loose": an invocation goes on without its caller, or is repeated;
\* nothing that comes later counts.  "late": a notification has its turn when its
\* subscription was left already.  "cut": an invocation failed between the end of
\* the endpoint's subscription and that of the interim lambda.
Remember(mishap, happened) ==
  mishaps' = IF ~happened \/ "loose" \in mishaps THEN mishaps
             ELSE IF mishap = "loose" THEN {"loose"} ELSE mishaps \union {mishap}

Init ==
  /\ row = NoRow /\ issued = {} /\ cached = None
  /\ queue = <<>> /\ op = NoOp
  /\ lambda = [l \in Call |-> OffCall]
  /\ sns = [k \in Arn |-> [url |-> None, state |-> "new"]]
  /\ interim = TRUE /\ item = NoItem /\ mishaps = {}

----------------------------------------------------------------------------
(* Arrivals *)

Wait(kind, arn) ==
  /\ Len(queue) < MaxWait
  /\ queue' = Append(queue, [kind |-> kind, arn |-> arn])
  /\ UNCHANGED <<row, issued, cached, op, cloud, mishaps>>

\* The user adds the topic, or deletes it, with or without --force.
Ask(kind) ==
  /\ \A i \in DOMAIN queue : queue[i].kind # kind
  /\ Wait(kind, None)

\* A request of SNS whose path is that of the row gets as far as withTopic.  SNS
\* repeats a confirmation that was not answered 200.  A notification goes there
\* after it was logged; it matters while unconfirmed.
Receive(kind, k) ==
  /\ row.auth = sns[k].url
  /\ \/ kind = "confirm" /\ sns[k].state \in {"pending", "confirmed"}
     \/ kind = "unsub" /\ sns[k].state = "leaving"
     \/ kind = "notify" /\ sns[k].state = "confirmed" /\ row.arn = None
  /\ \A i \in DOMAIN queue : queue[i] # [kind |-> kind, arn |-> k]
  /\ Wait(kind, k)

\* The delivery retrier posts what it stored, to the endpoint and with the
\* subscription of the item.
ReceiveRetried ==
  /\ item.url = row.auth /\ item.arn # None
  /\ row.auth # None /\ row.arn = None
  /\ \A i \in DOMAIN queue : queue[i].kind # "notify"
  /\ Wait("notify", item.arn)

\* A caller's context ends while it waits, or its callback fails at the
\* database or at a check: an error is answered, nothing is changed.
Refuse(i) ==
  /\ queue' = RemoveAt(queue, i)
  /\ UNCHANGED <<row, issued, cached, op, cloud, mishaps>>

----------------------------------------------------------------------------
(* The callbacks of withTopic *)

\* The first waiter is let in when the callback before it has returned.
Turn(kind) == op = NoOp /\ queue # <<>> /\ Head(queue).kind = kind /\ queue' = Tail(queue)

\* subManager.call: the lambda is invoked and waited for.
Invoke(kind, api, url, arn) ==
  \E l \in Call :
    /\ lambda[l].pc = "off"
    /\ lambda' = [lambda EXCEPT ![l] = [pc |-> "start", api |-> api, url |-> url, arn |-> arn]]
    /\ op' = [kind |-> kind, arn |-> arn, call |-> l]

\* EditSub: the transaction inserts or updates the row and commits, the cache is
\* set, and the topic is subscribed unless it was confirmed.  (A new template
\* alone changes nothing here.)
EditSub ==
  /\ Turn("edit")
  /\ \/ row.auth # None /\ row' = row /\ issued' = issued
     \/ /\ row.auth = None
        /\ \E a \in Auth \ issued :
             row' = [auth |-> a, arn |-> None] /\ issued' = issued \union {a}
  /\ cached' = Loaded(row')
  /\ IF cached = None \/ cached.arn = None
     THEN Invoke("edit", "Subscribe", row'.auth, None)
     ELSE UNCHANGED <<op, lambda>>
  /\ UNCHANGED <<sns, interim, item, mishaps>>

\* RemoveSub without --force: only an unconfirmed row is deleted.
RemoveSub ==
  /\ Turn("remove")
  /\ cached # None /\ row.auth # None /\ row.arn = None
  /\ row' = NoRow /\ cached' = None
  /\ UNCHANGED <<issued, op, cloud, mishaps>>

\* RemoveSub with --force: SNS is unsubscribed first, if it was confirmed.
ForceRemoveSub ==
  /\ Turn("force")
  /\ cached # None
  /\ IF cached.arn # None
     THEN Invoke("force", "Unsubscribe", None, cached.arn) /\ UNCHANGED <<row, cached>>
     ELSE /\ row' = IF row.arn = None THEN NoRow ELSE row
          /\ cached' = None
          /\ UNCHANGED <<op, lambda>>
  /\ UNCHANGED <<issued, sns, interim, item, mishaps>>

\* subFn, SubscriptionConfirmation.
Confirm ==
  /\ Turn("confirm")
  /\ cached # None /\ cached.arn = None
  /\ Invoke("confirm", "Confirm", None, Head(queue).arn)
  /\ UNCHANGED <<row, issued, cached, sns, interim, item, mishaps>>

\* Mutant: the cache keeps the subscription.
UnsubKeepsCache ==
  /\ Turn("unsub")
  /\ row' = NoRow
  /\ sns' = [sns EXCEPT ![Head(queue).arn].state = "gone"]
  /\ UNCHANGED <<issued, cached, op, lambda, interim, item, mishaps>>

\* subFn, UnsubscribeConfirmation: the topic's row is deleted.  The answer 200
\* ends SNS's attempts.
Unsub ==
  /\ Turn("unsub")
  /\ row' = NoRow /\ cached' = None
  /\ sns' = [sns EXCEPT ![Head(queue).arn].state = "gone"]
  /\ UNCHANGED <<issued, op, lambda, interim, item, mishaps>>

\* Mutant: only the cache learns of the confirmation.
SetArnCached(k) == row' = row /\ cached' = [arn |-> k]

\* The row is updated, if there is one.
SetArn(k) ==
  /\ row' = IF row.auth = None THEN row ELSE [row EXCEPT !.arn = k]
  /\ cached' = [arn |-> k]

\* After a notification: the subscription must have been confirmed manually.
Notification ==
  /\ Turn("notify")
  /\ cached # None /\ cached.arn = None
  /\ SetArn(Head(queue).arn)
  /\ Remember("late", sns[Head(queue).arn].state # "confirmed")
  /\ UNCHANGED <<issued, op, cloud>>

----------------------------------------------------------------------------
(* The callback waits for the lambda *)

\* The reply is taken and the invocation is over.
Returned(result) ==
  /\ op # NoOp /\ lambda[op.call].pc = result
  /\ lambda' = [lambda EXCEPT ![op.call] = OffCall]
  /\ op' = NoOp

\* Mutant: the row goes although the lambda failed.
ReturnedErrorRemoves ==
  /\ Returned("failed")
  /\ IF op.kind = "force" THEN row' = NoRow /\ cached' = None ELSE UNCHANGED <<row, cached>>
  /\ UNCHANGED <<issued, queue, sns, interim, item, mishaps>>

\* An error, also of the database call that follows a success: nothing is
\* changed here.
ReturnedError ==
  /\ Returned("failed") \/ Returned("ok")
  /\ UNCHANGED <<row, issued, cached, queue, sns, interim, item, mishaps>>

ReturnedOk ==
  /\ Returned("ok")
  /\ CASE op.kind = "edit"    -> UNCHANGED <<row, cached>>
       [] op.kind = "confirm" -> SetArn(op.arn)
       [] op.kind = "force"   -> row' = NoRow /\ cached' = None
  /\ UNCHANGED <<issued, queue, sns, interim, item, mishaps>>

\* The caller's context ends; the lambda goes on.
GiveUp ==
  /\ op # NoOp
  /\ op' = NoOp
  /\ lambda' = [lambda EXCEPT ![op.call] = IF Running(op.call) THEN @ ELSE OffCall]
  /\ Remember("loose", Running(op.call))
  /\ UNCHANGED <<row, issued, cached, queue, sns, interim, item>>

\* The connection broke: the SDK sends the request again.
InvokeAgain ==
  /\ op # NoOp /\ Running(op.call)
  /\ LET c == lambda[op.call] IN Invoke(op.kind, c.api, c.url, c.arn)
  /\ Remember("loose", TRUE)
  /\ UNCHANGED <<row, issued, cached, queue, sns, interim, item>>

\* The process dies and is started again: initSubs.
Restart ==
  /\ queue' = <<>> /\ op' = NoOp
  /\ cached' = Loaded(row)
  /\ lambda' = [l \in Call |-> IF Running(l) THEN lambda[l] ELSE OffCall]
  /\ Remember("loose", op # NoOp /\ Running(op.call))
  /\ UNCHANGED <<row, issued, sns, interim, item>>

----------------------------------------------------------------------------
(* The lambda: snsSubHandler *)

At(l, api, pc) == lambda[l].pc = pc /\ (lambda[l].api = api)

Goto(l, pc) == lambda' = [lambda EXCEPT ![l].pc = pc]

\* The handler returns; if its caller is gone, so is the invocation.
Reply(l, result) ==
  lambda' = [lambda EXCEPT ![l] = IF op.call = l THEN [@ EXCEPT !.pc = result] ELSE OffCall]

\* Any call fails, or the deadline ends.
LambdaFails(l) ==
  /\ Running(l)
  /\ Reply(l, "failed")
  /\ Remember("cut", At(l, "Unsubscribe", "interim"))
  /\ UNCHANGED <<server, sns, interim, item>>

\* Mutant: the put is not conditional.
PutEndpointAlways(l) ==
  /\ At(l, "Subscribe", "start")
  /\ item' = [url |-> lambda[l].url, arn |-> None]
  /\ IF item.arn = None THEN Goto(l, "sns") ELSE Reply(l, "ok")
  /\ UNCHANGED <<server, sns, interim, mishaps>>

\* Subscribe: the conditional put replaces the whole item; the old one tells
\* whether the subscription was confirmed already.
PutEndpoint(l) ==
  /\ At(l, "Subscribe", "start")
  /\ item.url \in {None, lambda[l].url}
  /\ item' = [url |-> lambda[l].url, arn |-> None]
  /\ IF item.arn = None THEN Goto(l, "sns") ELSE Reply(l, "ok")
  /\ UNCHANGED <<server, sns, interim, mishaps>>

\* The condition does not hold.
PutRefused(l) ==
  /\ At(l, "Subscribe", "start")
  /\ item.url \notin {None, lambda[l].url}
  /\ Reply(l, "failed")
  /\ UNCHANGED <<server, sns, interim, item, mishaps>>

\* SNS returns the endpoint's subscription, or makes one and sends it the
\* confirmation.
SnsSubscribe(l) ==
  /\ At(l, "Subscribe", "sns")
  /\ Reply(l, "ok")
  /\ IF Subscribed(lambda[l].url) # {}
     THEN UNCHANGED sns
     ELSE \E k \in HasState("new") :
            sns' = [sns EXCEPT ![k] = [url |-> lambda[l].url, state |-> "pending"]]
  /\ UNCHANGED <<server, interim, item, mishaps>>

\* Unsubscribe: SNS tells the endpoint.  (To unsubscribe again is no error.)
SnsUnsubscribe(l) ==
  /\ At(l, "Unsubscribe", "start")
  /\ Goto(l, "interim")
  /\ LET k == lambda[l].arn IN
     sns' = [sns EXCEPT ![k].state = IF @ = "confirmed" THEN "leaving" ELSE @]
  /\ UNCHANGED <<server, interim, item, mishaps>>

\* Mutant: the interim lambda is forgotten.
AddInterimNot(l) ==
  /\ At(l, "Unsubscribe", "interim")
  /\ Goto(l, "item")
  /\ UNCHANGED <<server, sns, interim, item, mishaps>>

AddInterim(l) ==
  /\ At(l, "Unsubscribe", "interim")
  /\ Goto(l, "item")
  /\ interim' = TRUE
  /\ UNCHANGED <<server, sns, item, mishaps>>

DeleteItem(l) ==
  /\ At(l, "Unsubscribe", "item")
  /\ Reply(l, "ok")
  /\ item' = NoItem
  /\ UNCHANGED <<server, sns, interim, mishaps>>

\* Mutant: the token is not sent to SNS.
SnsConfirmSkipped(l) ==
  /\ At(l, "Confirm", "start")
  /\ Goto(l, "interim")
  /\ UNCHANGED <<server, sns, interim, item, mishaps>>

\* ConfirmSubscription: a token may be used again.
SnsConfirm(l) ==
  /\ At(l, "Confirm", "start")
  /\ sns[lambda[l].arn].state \in {"pending", "confirmed"}
  /\ Goto(l, "interim")
  /\ sns' = [sns EXCEPT ![lambda[l].arn].state = "confirmed"]
  /\ UNCHANGED <<server, interim, item, mishaps>>

RemoveInterim(l) ==
  /\ At(l, "Confirm", "interim")
  /\ Goto(l, "item")
  /\ interim' = FALSE
  /\ UNCHANGED <<server, sns, item, mishaps>>

\* The update creates the item if there is none.
UpdateItem(l) ==
  /\ At(l, "Confirm", "item")
  /\ Reply(l, "ok")
  /\ item' = [item EXCEPT !.arn = lambda[l].arn]
  /\ UNCHANGED <<server, sns, interim, mishaps>>

----------------------------------------------------------------------------
Arrival ==
  \/ \E k \in Arn, kind \in {"confirm", "unsub", "notify"} : Receive(kind, k)
  \/ ReceiveRetried

Callback ==
  \/ EditSub \/ RemoveSub \/ ForceRemoveSub
  \/ Confirm \/ Unsub \/ Notification
  \/ ReturnedOk \/ ReturnedError

LambdaStep(l) ==
  \/ PutEndpoint(l) \/ PutRefused(l) \/ SnsSubscribe(l)
  \/ SnsUnsubscribe(l) \/ AddInterim(l) \/ DeleteItem(l)
  \/ SnsConfirm(l) \/ RemoveInterim(l) \/ UpdateItem(l)

Unattended ==
  \/ Arrival \/ Callback
  \/ \E i \in DOMAIN queue : Refuse(i)
  \/ \E l \in Call : LambdaStep(l) \/ LambdaFails(l)

Next ==
  \/ Unattended \/ GiveUp \/ InvokeAgain \/ Restart
  \/ \E kind \in {"edit", "remove", "force"} : Ask(kind)

Spec == Init /\ [][Next]_vars

\* Waiters are served or their deadline ends, an invocation ends.  Assumed of
\* the environment: SNS repeats the confirmation until it is answered 200, or
\* mails keep coming; the calls of a confirmation do not fail for ever, and in
\* the end fast enough for the caller; the user, the restarts and the repeated
\* invocations come to an end.
Fairness ==
  /\ WF_vars(Callback) /\ WF_vars(\E i \in DOMAIN queue : Refuse(i))
  /\ SF_vars(Confirm) /\ SF_vars(ReturnedOk) /\ SF_vars(Notification)
  /\ \A k \in Arn : SF_vars(Receive("confirm", k)) /\ SF_vars(Receive("notify", k))
  /\ \A l \in Call :
       /\ WF_vars(LambdaStep(l) \/ LambdaFails(l))
       /\ SF_vars(SnsConfirm(l)) /\ SF_vars(RemoveInterim(l)) /\ SF_vars(UpdateItem(l))

FairSpec == Spec /\ Fairness /\ <>[][Unattended]_vars

----------------------------------------------------------------------------
Kinds   == {"edit", "remove", "force", "confirm", "unsub", "notify"}
ArnNull == Arn \union {None}

TypeOK ==
  /\ row \in [auth : Auth \union {None}, arn : ArnNull]
  /\ issued \subseteq Auth
  /\ cached \in [arn : ArnNull] \union {None}
  /\ queue \in Seq([kind : Kinds, arn : ArnNull])
  /\ op \in [kind : Kinds, arn : ArnNull, call : Call] \union {NoOp}
  /\ lambda \in [Call -> [pc : {"off", "start", "sns", "interim", "item", "ok", "failed"},
                          api : {"none", "Subscribe", "Unsubscribe", "Confirm"},
                          url : Auth \union {None}, arn : ArnNull]]
  /\ sns \in [Arn -> [url : Auth \union {None},
                      state : {"new", "pending", "confirmed", "leaving", "gone"}]]
  /\ interim \in BOOLEAN
  /\ item \in [url : Auth \union {None}, arn : ArnNull]
  /\ mishaps \subseteq {"loose", "late", "cut"}

Quiet == op = NoOp /\ \A l \in Call : ~Running(l)

\* The cache, which decides what an RPC or a request may do, is what a restart
\* would load from the table.  RemoveSub calls anything else a de-sync by
\* "probably out-of-band db write".
CacheIsTable == cached = Loaded(row)

\* sesrcvr and the retrier only go by subscriptions that were confirmed,
\* whatever invocation was given up, repeated or overtaken.
ArnWasConfirmed ==
  \A k \in {row.arn, item.arn} \ {None} : sns[k].state \in {"confirmed", "leaving", "gone"}

\* RemoveSub deletes a confirmed row only once SNS was unsubscribed from it,
\* although the invocation may be repeated and other callbacks ran since it was
\* asked for.  (A message of SNS may delete any row: UnsubDeletesIt.)
ConfirmedIsUnsubscribed ==
  [][row.arn # None /\ row'.auth = None /\ ~Unsub
       => sns[row.arn].state \in {"leaving", "gone"}]_vars

\* doc/README.md: the subscription manager ensures a unique subscriber.  Whatever
\* calls fail and however the user removes and adds the topic, SNS has at most one
\* confirmed endpoint, as long as callers wait for their invocations and no
\* notification comes late (UniqueSubscriber: otherwise it may have two).
OneSubscriber ==
  mishaps \cap {"loose", "late"} = {} => Cardinality(HasState("confirmed")) <= 1

\* doc/README.md: the interim lambda is installed whenever no endpoint is active.
\* When no invocation runs, mails go somewhere, unless one was left alone or cut.
NoMailLost ==
  Quiet /\ mishaps \cap {"loose", "cut"} = {} => interim \/ HasState("confirmed") # {}

\* A subscription that waits for its confirmation gets it, unless the user
\* removes it (the sub add command: it "should be confirmed automatically").
ConfirmedAutomatically ==
  \A k \in Arn :
    sns[k].state = "pending" /\ row.auth = sns[k].url ~>
      row.auth # sns[k].url \/ row.arn # None

----------------------------------------------------------------------------
(* What comments, help texts and documents say, which the code does not keep *)

\* doc/README.md: the interim lambda is installed whenever there is no active
\* sesrcvr subscriber.
SomebodyListens == Quiet /\ row.auth = None => interim \/ HasState("confirmed") # {}

\* doc/README.md: the subscription manager ensures a unique subscriber.
UniqueSubscriber == Cardinality(HasState("confirmed")) <= 1

\* sub delete --force: unsubscribe, if confirmed, and delete: when the row goes,
\* its endpoint has no confirmed subscription.
ForceUnsubscribes ==
  [][ForceRemoveSub /\ row'.auth = None =>
       \A k \in HasState("confirmed") : sns[k].url # row.auth]_vars

\* EditSub's errors tell the user to recreate the subscription, and comments of
\* the lambda say that the put is conditional to keep one subscriber: the
\* endpoint that makes SNS's subscription be refused is that of the row.
RecreateWorks ==
  \A l \in Call :
    At(l, "Subscribe", "start") /\ item.url \notin {None, lambda[l].url} => item.url = row.auth

\* subFn: "If unsubscribed we will delete it": the row that is deleted is the
\* one SNS's message is about.
UnsubDeletesIt == [][Unsub /\ row.auth # None => row.auth = sns[Head(queue).arn].url]_vars
=============================================================================
