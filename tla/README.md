# TLA+ models of email-notifier

These modules model the parts of email-notifier whose correctness depends on
interleavings, failures and restarts: the server `sesrcvr`, which receives the
notifications about mails that SES stored in S3 and delivers each mail through a
template of its user, and the AWS lambdas around it. TLC checks them on small
instances; TLAPS proves the safety of the central ones for every instance. Line
numbers refer to `src/`; `ep_server.go`, `cli.go`, `aws_client.go`,
`delivery_data.go` and `config.go` are in `src/sesrcvr`, "manager" is
`src/aws/submgr/lambda/main.go`, "retrier" is `src/aws/delivery-retrier/main.go`.

Contents: [1 The system](#1-the-system), [2 Modules](#2-the-modules-and-the-code),
[3 Runs](#3-what-tlc-checks), [4 Fairness](#4-fairness), [5 Proofs](#5-what-is-proved),
[6 Deviations](#6-where-the-code-does-not-keep-its-word),
[7 Not modelled](#7-what-is-not-modelled), [8 Plan](#8-plan).

## 1 The system

    SES --> S3 object, SNS topic
    SNS --post--> sesrcvr                     (subscribed endpoint, its URL has the row's uuid)
    SNS --------> interim lambda --> DynamoDB (no endpoint is confirmed)
    SNS --------> dead-letter queue           (an endpoint does not answer for an hour)
    retrier: queue --> DynamoDB --post--> sesrcvr
    sesrcvr --invoke--> subscription manager --> SNS, DynamoDB item of the topic

| component | state | operations | correct when |
|---|---|---|---|
| HTTP handler, `ServeHTTP` | none of its own | log a notification, queue its rowid; confirm, unsubscribe | 200 only for what is in the log; no row is queued twice or forgotten |
| message processor, `runMsgProc`, `replayLog`, `pauseMsgProc` | `msgCh`, `procLock`, tables `msglog`, `errors` | start a worker per rowid, deliver, retire the row or record the error; replay at start; pause | at most one worker for a row; all pending rows are attempted; a pause is exclusive; shutdown in order |
| collector, `runGCProc` | `tombCount`, `scanPeriod`, `collectThreshold`, temp table | delete the objects of delivered mails, then their rows, in batches | only garbage is collected; the count agrees with the table; all garbage goes |
| subscription cache, `withTopic` | map of entries, each with a counter, a semaphore and a subscription | run a callback alone for its topic; clear and delete entries | mutual exclusion also while entries are deleted and created; no lost wakeup |
| subscriptions, `EditSub`, `RemoveSub`, the confirmation requests, `initSubs` | table `subscriptions`, the cache | transaction, cache, invocation of the manager | the cache is what a restart would load; an ARN in use was confirmed |
| subscription manager lambda | SNS subscriptions, an item per topic | Subscribe, Confirm, Unsubscribe: three calls each | one subscriber of a topic at any time |
| retrier and interim lambdas | queue, table | move the queue to the table, post the oldest | nothing leaves a place before the next one has it |
| configuration, `SetConfig`, `Run` up to line 1122 | table `config`, `_cfgLock`, cached values, the collector's timer, `epState`, `confInitCh` | validate, store, update the caches, wake `confCheckLoop` | the cached values follow the table; the server starts once the table is valid; whoever must restart it is told |
| delivery data, template functions | the file of a mail, its offset, a goroutine and a process per command, the parsed header | download, pipe to a command, scan with rspamd, change the header | a command gets the whole mail or none; a row is retired after its commands succeeded; a change does what its comment says |
| S3 reader, AWS clients | body of an object | read, start over after a timeout | the bytes of the object, once |
| SNS signatures, CLI, generated RPC code, deployment | - | - | - |

How they meet. Handlers send rowids on `msgCh` to the loop; workers, the loop
and `EditSub` share the weighted semaphore `procLock`, which is FIFO; workers,
handlers and RPCs go through `withTopic`; the collector shares `msglog`,
`tombCount` and the cache with them and with the rowids SQLite reuses. Only
SQLite survives the process, which systemd starts again (`nixos/systemd.nix:75`).
SNS repeats a request that was not answered 2xx; the AWS SDK repeats an invocation
whose connection broke, and a lambda goes on after its caller gave up.

What is hard, and where it is looked after: the INSERT and the send of its rowid
are two steps (Pipeline); `replayLog` swaps the channel while a loop runs
(Pipeline); a caller of `withTopic` waits on an entry it found in a critical
section that is over (TopicLock); the collector uses a list of rows and of
clients it read earlier (Collector); a change of a subscription is spread over
three calls, each of which fails or is repeated on its own (Subscriptions); the
retrier ends anywhere between a write and a delete (Retrier); `SetConfig` commits
and tells three others afterwards while `Run` reads the table key by key
(Configuration); a worker waits for a command and not for the goroutine that
feeds it, which goes on with the shared file (MailPipe); a header is kept in two
lists whose border depends on the changes so far (HeaderMods). `PROJECT.json`
lists each hazard with its line and the properties that would notice it.

## 2 The modules and the code

| module | models | source |
|---|---|---|
| Notifications | the promise about a notification, without queue, workers, restarts | what `ServeHTTP`, `runMsgProc` offer |
| Pipeline | intake, queue, loop, workers, replay, pause, start, stop, crash | ep_server.go 700-850, 1015-1405 |
| PipelineProofs | theorems about Pipeline | |
| TopicMutex | the promise of `withTopic`: one mutex, one subscription | |
| TopicLock | `withTopic` statement by statement | ep_server.go 570-668 |
| TopicLockProofs | theorems about TopicLock | |
| Collector | `runGCProc` with its load | ep_server.go 1385-1593 |
| CollectorProofs | theorems about Collector | |
| Subscriptions | the RPCs, SNS's requests, the manager lambda, SNS | ep_server.go 707-837, 1896-2060; manager 57-261; aws_client.go 154-244 |
| SubscriptionsProofs | theorems about Subscriptions | |
| Retrier | queue, table, interim lambda, runs of the retrier | retrier 39-343; aws/interim-sub, aws/sns.go |
| RetrierProofs | theorems about Retrier | |
| Configuration | `SetConfig`, `confCheckLoop`, the start of `Run`, the timer of `runGCProc`, the url of `EditSub` | ep_server.go 850-1130, 1385-1450, 1690-1895, 1990-2060 |
| ConfigurationProofs | theorems about Configuration | |
| MailPipe | a delivery: download, commands, their goroutines, the file | delivery_data.go 40-250, 560-668; ep_server.go 1150-1240; aws_client.go 246-305 |
| MailPipeProofs | theorems about MailPipe | |
| HeaderMods | `HeaderMod.Transform`, `RspamdScanResult.Transform`, what `MailPipeTo` adds | delivery_data.go 250-560 |
| HeaderModsProofs | theorems about HeaderMods | |
| MCPipeline, MCCollector, MCSubscriptions, MCRetrier | the values and the symmetry sets for TLC (a run of a liveness property has none) | |
| MCConfiguration, MCMailPipe, MCHeaderMods | requests, templates, mails for TLC | |

**Pipeline.** A row of `msglog` is a rowid with a message id; `tomb` are the rows
with `tomb = 1`. A goroutine is a record with a `pc` named for what it does next:
`http[h]` (`append`, `send`, `respond`), `loop` (`select`, `acquire`, `drain`),
`proc[p]` for the worker on permit `p` (`query`, `work`, `retire`, `record`),
`replay` (`next`, `send`, `finish`), `editor[e]`. `waiters` is the list inside
the semaphore. A SQL statement is one step; one that commits and is reported as
failed is a step of its own (`AppendLost`), as is one that fails. The triggers of
`createMsgLogTSQL` and the foreign key of `createErrLogTSQL` (in force through the
build tag `sqlite_foreign_keys`) are part of the statements that fire them: an error
is recorded only of a message in the log, and goes with its row. The template is a
worker's step that succeeds or fails; `AppendFresh` may take the rowid of a row
that was collected, as SQLite does. `acked`, `delivered`, `attempted`,
`stranded`, `unreported` are history variables: the code has none of them.

**TopicLock.** One topic (topics share only `mu`). An entry is an object with
`ref`, `cached` and the queue of its semaphore. A critical section of `mu` is a
step; between `Find` or `Create` and `AcquireNow`/`AcquireWait` anything may
happen. `Cleanup` is the deferred section at 645-652, before `Release`.

**Collector.** `gc.pc` follows the calls of a pass: select into `temp.gcready`,
look up clients under `mu`, `GetBucketVersioning` and `DeleteObjects` per topic and
bucket, clear the rows, subtract the count. A row has a message, which names a topic
and an object; only the SNS id of a message is unique, so rows may name one object
(two rules of SES store a mail), which `DeleteObjects` takes by its key. `gc.batch`
is `temp.gcready`, `gc.todo` what is left of `toDelete`, the list in memory. `object`
are the objects that exist: SES stored every mail before it notified anybody, and
`Store` stores one again. `bucket` says what S3 reports of versioning;
a bucket that never had versioning makes `*verOut.Status` a nil dereference
(1561), a topic without a client another (1541, 1553): the step sets `phase` to
`"failed"`. Workers only retire and count; `Pipeline` has the rest of them.

**Subscriptions.** `row` and `cached` are the server's two copies, `item` and `sns`
the cloud's. `queue` are callers waiting in `withTopic`, `op` the callback that
waits for an invocation; TopicLock is what justifies running callbacks one at a
time. The lambda's `pc` steps through its calls; `LambdaFails` ends it at each;
`GiveUp` is the caller's deadline, `InvokeAgain` the SDK's retry. An endpoint URL
is named by the uuid it ends with. `mishaps` is history: an invocation went on without
its caller or was repeated (`loose`), a notification had its turn after its
subscription was left (`late`), an invocation ended between leaving the
endpoint and subscribing the interim lambda (`cut`). They are what the code has no answer to.

**Retrier.** Messages are numbered by timestamp. A delivery is a message and the
way SNS tried it; when SNS gives up it is in `dlq`. A run keeps what it received,
what it stored, what it is posting and deleting. `Query(r, late)` may still
return what was deleted moments ago, since the index is read with eventual consistency.
`taken` and `refused` are history: what sesrcvr logged, what it answered 4xx.

**Configuration.** `table` is the table `config`, `row` whether a subscription has a
row (which is what the triggers `configRoUrl*` look at). `run` is where `Run` is
and what it has read so far: a step per key, because `readConf` is a statement of
its own. A call of `SetConfig` is a record whose `pc` is what it does next:
`begin` (the transaction, one step, as SQLite serialises it), `swap`, `trigger`,
`store`, `check`, `release`. `lock` is the semaphore `_cfgLock` with its queue;
`GiveUp` is a call whose context ends while it waits, and which releases what it
never got. `gc` is the loop of `runGCProc` as far as its timer and its trigger
channel go. `answer`, `refused` and `broken` are history. `Die` and `Start` lose
everything but the tables.

**MailPipe.** `path` is the name in the download directory, `content` what the
files hold (a file may outlive its name), `worker[w]` has the descriptor and the
offset that all goroutines of the row share. `Launch` starts the goroutine and
the process of a command; `feeder[w][k]` goes through seek, parse, read, write,
close or cancel, rewind; `Wait` ends with the process and not with the goroutine.
A mail is a sequence of blocks; a block that was skipped is 0. What the user's
command does is a choice: it reads on, exits well early, or fails.
`taint` is history: what else happened that may damage the mail.

**HeaderMods.** A header is a sequence of fields; `mail` has the two lists
`lhdrs` and `hdr` of a `MailContent`. Each operation is the code's on two lists;
`Documented` is what its comment promises on one. A result of rspamd is applied in
steps, as the code's loops do: `Scan` (all removals), `Add` (a field of
`add_headers`, any that is left, since Go walks a map), `Verdict`. A field is found by
its place: `Places` are the indices of a key, `Nth` the j-th smallest of them.
`Text` are the strings; `Ours` those the program itself puts in.

Abstraction of data: message contents, templates, credentials, signatures and
errors' texts are left out; time is left out (a deadline may pass at any step).

## 3 What TLC checks

| run | bounds | properties | shows |
|---|---|---|---|
| pipeline | 2 messages, 2 rows, 2 requests, 2 workers, 1 editor, queue of 1 | InFlightIsPending, NoDoubleWork, NothingForgotten, AckedIsDurable, ErrorsArePending, OrderlyShutdown, PauseIsExclusive, Refinement | safety of the pipeline, with crashes and starts at every step |
| pipeline_live | 2 messages, 2 rows, 1 request, 1 worker, no editor | EveryRowAttempted, CancelStops | every pending row reaches a worker although the queue is shorter than the log; cancelling ends the program |
| topic_lock | 3 callers, 4 objects, 2 subscriptions | EntryIsCurrent, MutualExclusion, Refinement, EveryCallerServed | entries that are deleted and created still are one mutex |
| collector | 2 rows, 2 topics, 2 mails of which one goes to both, 1 bucket, 1 worker, batch of 2, threshold 1 | TombsCounted, BatchIsGarbage, UndeliveredMailKept, GarbageIsCollected | no undelivered mail is deleted, the count is exact, garbage goes |
| subscriptions | 2 uuids, 2 ARNs, 2 invocations, 3 waiters | CacheIsTable, ArnWasConfirmed, OneSubscriber, NoMailLost, ConfirmedIsUnsubscribed | the places that hold a subscription agree as far as they do; one endpoint is confirmed, and somebody gets the mails |
| subscriptions_live | the same with 1 invocation, 1 waiter | ConfirmedAutomatically | a pending subscription gets confirmed |
| retrier | 1 message in up to 2 deliveries, 2 runs, 2 endpoints | NothingLost | overlapping runs and failed calls lose nothing |
| retrier_live | 2 messages, 1 run, batch of 1 | EventuallyTaken | a message behind a full batch is posted too |
| configuration | 2 calls, 2 requests that differ in every key (one has no period), defaults of 1 | PermitOwned, CacheFollowsTable, NoLostWakeup, SubscribedUrl, AddressKnown, ValidTableRuns, PeriodTakesEffect | what was told of a new configuration agrees with the table, in every order of `Run`, two calls, the collector and an edit; the lock is neither lost nor doubled |
| mail_pipe | 2 rows of one object, 3 files, a mail of 1 block, one row scans and pipes, 1 timeout per download | WholeMail, NeverStuck, DoneMeansDelivered, DeliveryEnds | a command gets all of the mail or fails, and is never left waiting for it; a delivery and its goroutines end |
| header_mods | headers of up to 3 fields of 5, 2 changes of 41, 3 results of rspamd | ReturnPathIsOurs, AsDocumented, SpamMarkedOnce | the operations on two lists are the documented ones on one |
| delivered_is_collected | 1 row, 1 topic | DeliveredIsCollected | violated: see 6 |

Why the bounds are enough. Two rows and a queue of one make the queue full, the
log longer than the queue, and a rowid reused while the other row is in
flight; two requests and two workers race for a row; the proofs of section 5
remove the bounds from the safety of all components. Three callers are the
smallest number where one waits, one deletes and one creates an entry; four
objects keep an unused one at hand. Two topics in a batch let the first succeed
and the second panic; a batch of two is full with two rows, so that a pass is
repeated, and short with one; two rows name one mail or two,
of one topic or two. (The proof has any messages, buckets and batches.) Two ARNs
and two uuids are an old and a new subscription;
two invocations are a late one and its repetition;
with a third waiter a message of SNS about the old subscription is still queued when
the new one is confirmed. Two overlapping runs of the
retrier with two endpoints are an old and a new subscription again. Two calls of
`SetConfig` are one that holds `_cfgLock` and one that waits or gives up; the
requests differ in every key, so that whatever is mixed up shows; section 5
removes the bound. Two rows share the file of an object, three inodes let an
unlinked file live on beside two others; the row with two commands has the
goroutine of the first still at work when the second starts; with one block the
order of blocks is not at stake, its loss, repetition and truncation are
(the fewest that damage a mail), and the proof has mails of every length. Two changes are what it takes for the second to meet a header that the
first has split.

Every module has a TypeOK, which is proved for every instance (section 5) and is
not in the list of a run: add it to a cfg to check it.

Every property was broken by at least one changed definition (`mutants`): each
definition with a longer name beside its original, such as `CleanupAlways`, is
the code with a plausible mistake.

The cfgs that are not in the table are for use by hand, e.g.
`tlc -config UnsubDeletesIt.cfg MCSubscriptions`. `PauseLive` (MCPipeline; 2 editors)
holds: pauses that come again and again starve nobody. The others are
counterexamples, and section 6 tells what they show: `ConnectionsFinished`,
`StoredIsSent` (MCPipeline), `LastAccessor` (TopicLock), `CountIsLoaded`,
`PendingHasObject` (MCCollector), `UniqueSubscriber`, `SomebodyListens`, `ForceUnsubscribes`,
`RecreateWorks`, `UnsubDeletesIt` (MCSubscriptions), `KeptUntilTaken`
(MCRetrier), `TimeoutEndsOnlyTheCall`, `RestartAnnounced`, `ThresholdCached`
(MCConfiguration), `AlwaysWhole` (MCMailPipe), `ChangesIgnored`,
`RemovalsApplied`, `AddsOnlyMissingKeys` (MCHeaderMods).

## 4 Fairness

- **Pipeline**: weak fairness of each goroutine: the Go scheduler runs what can
  run, and a request has a deadline. A worker's step includes the end of its
  template: nothing in the code bounds the commands of a template, so this is an
  assumption about the user's template. `Post`, `Cancel`, `Crash`, `PauseAsk`,
  `Collect` are under no fairness. A waiter on `procLock` needs no strong
  fairness, the semaphore serves in order.
- **TopicLock**: weak fairness of each caller that can go on. Nobody is obliged
  to give up waiting, so `EveryCallerServed` does not rest on deadlines.
- **Collector**: the process is started again, the goroutine and its timers run.
  `GcSelect` and `GcClear` are strongly fair: a pass looks at the load
  (`shouldCollect` wants an empty queue, 1407) and needs SQLite; that the load
  pauses and SQLite recovers again and again is assumed.
- **Subscriptions**: waiters are served or refused, an invocation ends. Assumed of
  AWS: SNS repeats a confirmation, or mails keep coming, a call of a
  confirmation does not fail every time, and not always too late; and from some time
  on the user, restarts, deadlines and the SDK's repetitions leave the subscription alone.
- **Retrier**: cron starts runs and they go on; from some time on calls do not
  fail and the item and the row name one endpoint; a poll does not leave out one
  message for ever.
- **Configuration**: weak fairness of `Run`, of the collector's loop (its timer
  fires) and of each call that is under way. Nobody must start the process, call
  `SetConfig` or give up; an attempt of `Run` need not fail.
- **MailPipe**: weak fairness of each worker and each goroutine. A command that got its
  end of file exits: the same assumption about the user's template as in
  Pipeline. A command that did not need not do anything; that it is killed when
  its input fails is what `DeliveryEnds` is about. Downloads need not time out.

## 5 What is proved

`tlapm` checks every proof. The assumptions are those the modules name
(`PipelineConstants`, `TopicLockConstants`, `RetrierConstants`,
`ConfigurationConstants`, `SubscriptionsConstants`, `CollectorConstants`,
`MailPipeConstants`, `HeaderModsConstants`): no bound on messages, rows, requests, workers, callers, runs,
queue, batch, calls, configurations, uuids, ARNs, invocations, topics, blocks of a
mail, commands of a template, fields of a header or changes of it.

**PipelineProofs.** `TypeCorrect`, `InFlightPending`, `WorkedOnce`,
`NoneForgotten`, `Durability`, `ErrorsPending`, `ShutdownInOrder`,
`PauseExclusive`: the invariants of the run pipeline. `Implements`: Pipeline
implements Notifications. None of them is inductive alone. That no row is
worked on twice needs that a rowid is in one *place* (list to replay, queue,
loop, worker, request, given up, lost) and that a place only holds pending rows;
that this survives a start needs that the places are empty when the process is
down; that the channel is not swapped under a sender needs to know in which
phase there are senders. `IInv` is the conjunction of the safety properties with
`Shape` (where each goroutine may be in each phase of the process), `LogOK` (a message has one row; only rows are tombstones) and `DeliveryOK` (a
tombstone, and what a worker is about to retire, was delivered). `Invariance` proves it with a
lemma per kind of change (places lose a row, a row moves, a row is
retired, a row is logged) and a step per action.

**TopicLockProofs.** `TypeCorrect`, `CurrentEntry`, `Exclusion`, `Implements`
(TopicMutex). An entry is deleted when its caller finds `ref = 0` and
`cached = nil`. `OnlyCreator` is why this is right: `ref` counts everybody who
found the entry after its creator, so `ref = 0` means that the creator is the only one; together
with `OneHolder` (one caller has the permit) nobody else has a pointer to it.
The model's `ref` is not bounded in the proof; in the code it is an `int32`.

**RetrierProofs.** `TypeCorrect`, `NoLoss` (NothingLost). What is deleted from the
queue must be in the table (`StoredIsKept`), and what is about to be
deleted from the table must have been answered (`DeletingIsAnswered`), for all runs at
once, although another run may delete it first.

**ConfigurationProofs.** `TypeCorrect`, `CacheFollows`, `WakeupKept`, `UrlKept`,
`AddressTold`, `PermitKept` (PermitOwned): the invariants of the run configuration. The cache needs the most:
that it equals the table at the end follows only if, at every moment before, what
is cached *or what Run has read and is going to cache if nothing is* equals the
table, unless a call that asked for that key has committed and not stored it yet
(`PeriodFollows`, `ThresholdFollows`). That this call is the only one, so that
its values are still in the table (`RequestInTable`), is `OneHolder`, the mutual
exclusion of `_cfgLock`; it rests on `Queued` (a call in the queue waits and is
there once) and on `~broken`, since a call that gives up releases the permit of
another. `WakeupInv` extends the wakeup to the failed attempt before it
(`failed`); `UrlInv` has what `EditSub` read; `AddressInv` follows the address
from the moment `Run` reads it. The table's types need what `validateUserConf`
lets pass, which is the assumption about `Request`. `PermitKept` adds to it `Owned`:
a taken permit has a holder, a free one no queue, and a call that waits is in
the queue. It is kept since a release hands the permit to the head of the queue
and each way out of `SetConfig` passes the release; a panic ends the process.

**SubscriptionsProofs.** `TypeCorrect`, `CacheFaithful` (CacheIsTable),
`ArnConfirmed` (ArnWasConfirmed), `RemovedIsLeft` (ConfirmedIsUnsubscribed). An
invocation may go on when nobody waits for it, and be repeated, so what an
ARN in the row stands for cannot be seen from its caller. `LambdaInv` ties every
invocation, waited for or not, to what it has done at SNS: from its second call on a
Confirm's subscription was confirmed, an Unsubscribe's was left. This is kept
because SNS's states only move forward (`Monotone`). `OpInv` says that the
callback that waits and the invocation agree on the ARN, and that the row is
still the one the callback saw (nobody else changes it, `RowIsItsOwn`);
`QueueInv` that a notification that waits names a confirmed subscription.

`OneConfirmed` (OneSubscriber) and `Listened` (NoMailLost) need a second
invariant, `JInv`, about the time in which every invocation has its caller
(`Calm`). A live subscription, pending or confirmed, is then that of the
endpoint the lambda's item names, it is the only one, and there is none once
that of the row's ARN was left (`OneInv`): the put of Subscribe refuses another
endpoint, and Unsubscribe deletes the item only after the subscription was
left. `ListenInv` says that mails go to the interim lambda or to an endpoint,
except while an Unsubscribe is between the end of the endpoint and the interim
lambda. `OneInv` also needs that no notification came `late`; `ListenInv` does
not, but needs that no invocation was `cut` short. The proof goes
by callbacks (who is in `withTopic`) and by the calls of the lambda.

**CollectorProofs.** `TypeCorrect`, `CountIsRight` (TombsCounted), `OnlyGarbage`
(BatchIsGarbage), `MailKept` (UndeliveredMailKept). The count is exact only if
each tombstone is counted by one worker: a row is worked on by one (`WorkedByOne`)
and pending as long (`WorkIsPending`), which is what PipelineProofs shows of
the real intake and Collector's `Take` takes over. `Asleep` says that nothing is counted on
behalf of a process that ended. That a batch stays garbage is a matter of
rowids: SQLite gives the next message the greatest rowid plus one, which may be
that of a deleted row, but never one that is in the table (`MaxIsGreatest`), and
the batch is in the table until it is cleared. `MailKept` does not follow from
rowids, as a pending row may name the object of a tombstone: what `toDelete` names
is the mail of a tombstone of the batch, and that was delivered (`TombsDelivered`).

**MailPipeProofs.** `TypeCorrect`, `Whole` (WholeMail), `Retired`
(DoneMeansDelivered). `Sound` is about a row with no `taint`: no other row has its
file, the download has written exactly the blocks before the offset, only the
goroutine of the current command moves the offset, and the process got
the blocks before it (`Fed`). `Delivered` says that a command without a result is not behind
the worker. `CommandsAreServed` (NeverStuck) rests on `Served`: while a command runs and
has not got its end of file, its goroutine has yet to close the pipe or to kill it. The steps are proved row by row: a step changes its own row,
and of another row at most the file, which taints that row (`Untouched`), so that
everything else about it stays (`OthersKeep`).

**HeaderModsProofs.** `TypeCorrect`, `TransformAsDocumented`, `EditsAsDocumented` (AsDocumented),
`SpamIsMarkedOnce` (SpamMarkedOnce), `WrittenReturnPath` (ReturnPathIsOurs), for
headers of any length, split anywhere. Every operation is one cut of the
joined list: what is before a place, perhaps a new field, what is behind it (`Upto`,
`Rest`), wherever the border of `lhdrs` and `hdr` is. That the index of the code,
which is counted in two lists, is the index in the joined one is a fact about
`Nth`: the j-th place of a key in `s \o t` is the j-th of `s`, or the (j - n)-th of
`t` moved by the length of `s`. That whole keys are removed is a fact about
`Select`, which commutes with joining. Both follow from the cardinalities of sets of
places, without induction on the lists.

Only model-checked: the liveness properties CancelStops, EveryRowAttempted,
EveryCallerServed, GarbageIsCollected, ConfirmedAutomatically, EventuallyTaken,
ValidTableRuns, PeriodTakesEffect and DeliveryEnds, since fairness and ENABLED are out of
the prover's reach. Every safety property that a passing run checks is a theorem.

## 6 Where the code does not keep its word

The run that TLC must find violated; its `finding` in `PROJECT.json` quotes the text.

- **DeliveredIsCollected** (doc/README.md:41): tombstones of a topic that was
  removed make the collector dereference nil; the process panics, is
  restarted and panics again.

Shown by the cfgs to run by hand:

- **ConnectionsFinished** (config.go:16): `stopServer` derives Shutdown's context from the one
  that was just cancelled, so requests are still served after `Run` closed the
  database.
- **UniqueSubscriber** (doc/README.md:19): an invocation that was given up or
  repeated deletes the item of the next endpoint; two confirmed endpoints. Without
  such an invocation there is one more way, which takes three waiters: a
  notification of an endpoint that was left waits in `withTopic` while the topic is
  added again, and gives the new row the old ARN, so that the next removal
  leaves the new endpoint confirmed. `OneSubscriber` excepts both.
- **StoredIsSent** (doc/README.md:37): SNS's repetition of a request that timed
  out on a full queue is a duplicate and answered 200 without queueing the row,
  which waits for the next start. `NothingForgotten` therefore excepts `stranded`.
- **LastAccessorDeletes** (ep_server.go:647): a cleared entry that a second caller
  ever found stays in the map.
- **PendingHasObject** (ep_server.go:1524): objects are deleted by bucket and key.
  Of two messages of one mail, the first that is delivered and collected takes the
  object of the other along, whose download then fails for ever. No document
  says otherwise; `UndeliveredMailKept` shows that the mail was delivered once.
- **CountIsLoaded** (ep_server.go:1110): the error of the count query is
  dropped (1112). `TombsCounted` therefore has `missed`.
- **SomebodyListens** (doc/README.md:20): Unsubscribe removes the endpoint before
  it subscribes the interim lambda; a failure between them leaves no subscriber.
  `NoMailLost` excepts it. It takes a confirmed endpoint for a listener also when the
  row is gone and sesrcvr answers it 403: its mails then go to the dead-letter queue.
- **ForceUnsubscribes** (cli.go:453): a confirmation whose reply was lost is not
  known to `RemoveSub`.
- **RecreateWorks** (ep_server.go:1962): the item of a removed, unconfirmed row
  refuses the endpoint of the new row.
- **UnsubDeletesIt** (ep_server.go:778): the uuid is compared before the turn in
  `withTopic`; by then the row may be another, and even a confirmed one (which
  `ConfirmedIsUnsubscribed` therefore excepts).
- **KeptUntilTaken** (doc/README.md:26): the retrier counts every 4xx as success;
  sesrcvr answers 403 when it cannot read its table or the certificate.
- **TimeoutEndsOnlyTheCall** (cli.go:73): the timeout is one "for the operation". A
  `SetConfig` whose deadline passes while it waits for `_cfgLock` drops the error of
  Acquire (1775) and releases the permit of the call that has it; when that
  one releases too, the semaphore panics and the process ends.
- **RestartAnnounced** (cli.go:246): a new address that is stored after `Run` read the
  old one and before `epState` is Running is neither used nor announced.
- **ThresholdCached** (ep_server.go:1818): a threshold of 0 is stored and not
  cached; the value before it stays in force until the next start.
- **AlwaysWhole** (the template functions' promise to pass the mail on): a command
  gets a damaged mail and its end of file, and the row is retired, in three
  ways. Two notifications of one object share the file, which the second
  empties and the first removes; the deferred Seek of a goroutine races with the
  next command; and a download that timed out starts over behind the bytes it
  already wrote.
- **ChangesIgnored** (delivery_data.go:256, 419): changes to Content-Type are not
  ignored but refused, and the mail is not delivered.
- **RemovalsApplied** (delivery_data.go:482): the condition at 485 is inverted; an
  index that is an integer is skipped, one that is not removes every field.
- **AddsOnlyMissingKeys** (delivery_data.go:355): a replacement adds the field
  although the mail has it, when all of them were moved to `lhdrs`.

## 7 What is not modelled

- The signature check: cryptography over strings. A request that passed it is
  `Post`; one that did not changes nothing. The cache of certificates changes no outcome.
- `MatchRecipients` and the other template functions without state: matching of
  strings.
- The CLI's arguments and printing. Its signals are `Cancel` of Pipeline, its
  deadline is `GiveUp`.
- Of the configuration: the file of the control socket (one process finds it and
  refuses to start), VACUUM, the notifications to systemd, which have no
  effect on the server.
- Of the AWS clients: regions and credentials.
- `ListSub` and `GetErrors` only read. Messages in the dead-letter queue that are
  not notifications are left out of Retrier.
- The generated RPC code and the deployment files have no state of their own.

## 8 Plan

Done, in this order: Notifications, Pipeline, PipelineProofs; TopicMutex,
TopicLock, TopicLockProofs; Collector; Subscriptions; Retrier, RetrierProofs;
Configuration, MailPipe, HeaderMods; ConfigurationProofs, SubscriptionsProofs,
CollectorProofs, MailPipeProofs, HeaderModsProofs.

Nothing planned is left. What could still be added: the control socket's file with
two processes, and the order of blocks in the run of MailPipe (two blocks: 7.6
million states).
