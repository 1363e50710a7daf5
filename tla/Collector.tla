------------------------------ MODULE Collector ------------------------------
(***************************************************************************)
(* The garbage collector of sesrcvr (runGCProc in sesrcvr/ep_server.go):   *)
(* it deletes the S3 objects of delivered messages and then their rows, in *)
(* batches, while workers retire rows and count them, topics are           *)
(* subscribed and removed, and the process dies and is started again.      *)
(*                                                                         *)
(* A message is the topic and the object in S3 that its notification names *)
(* (bucketName and objectKey): several messages may name one object, when  *)
(* SES stores a mail by several rules.  What becomes of the rows before    *)
(* they are retired is the matter of module Pipeline.                      *)
(***************************************************************************)
EXTENDS Integers, FiniteSets, FiniteSetsExt

CONSTANTS
  MaxRow,     \* bound on the rowids of msglog
  Topic,      \* SNS topics
  Object,     \* objects of S3: a bucket and a key, which SES makes of the mail
  Bucket,     \* buckets
  BucketOf,   \* object -> its bucket
  Message,    \* the notifications SES makes: of a mail's object, to a topic of its rule
  Worker,     \* message processors
  Batch,      \* incrementalGCAmount
  Threshold,  \* collectThreshold
  None        \* no message, no row

ASSUME CollectorConstants ==
  /\ MaxRow \in Nat /\ IsFiniteSet(Worker)
  /\ Batch \in Nat \ {0} /\ Threshold \in Nat
  /\ BucketOf \in [Object -> Bucket]
  /\ Message \subseteq [topic : Topic, object : Object]
  /\ None \notin Message \union Nat

Row == 1..MaxRow

VARIABLES
  \* durable: the database and the buckets
  msglog,    \* row -> its message, None when the row does not exist
  tomb,      \* rows with tomb = 1
  table,     \* topics with a row in subscriptions
  object,    \* objects that are in their bucket
  bucket,    \* the versioning of each bucket, fixed
  \* the process
  phase,     \* "up", "down", or "failed": ended by a run-time panic
  entry,     \* cachedSubs.m: no entry, an entry cleared by RemoveSub, a subscription
  worker,    \* what a worker does, and its row
  tombCount,
  gc,        \* runGCProc: where it is, temp.gcready, what is left of toDelete, !cont
  canDelete, \* bucketDelReady
  \* history
  delivered, \* objects whose mail was delivered for some message
  missed     \* tombstones that were not counted at the start

vars == <<msglog, tomb, table, object, bucket, phase, entry, worker, tombCount, gc,
          canDelete, delivered, missed>>

----------------------------------------------------------------------------
Rows       == {r \in Row : msglog[r] # None}
Pending    == Rows \ tomb
Counting   == {w \in Worker : worker[w].pc = "count"}
Messages(R) == {msglog[r] : r \in R}
Topics(M)   == {m.topic : m \in M}
\* The objects of one group of toDelete, which one call deletes.
Group(t, b) == {m \in gc.todo : m.topic = t /\ BucketOf[m.object] = b}

IdleWorker == [pc |-> "idle", row |-> None]
GcOff      == [pc |-> "off", batch |-> {}, todo |-> {}, clients |-> {}, last |-> FALSE]
\* The next select, and the next pass of the incremental collection.
GcWait     == [GcOff EXCEPT !.pc = "wait"]
GcScan     == [GcOff EXCEPT !.pc = "scan"]
GcPause    == [GcOff EXCEPT !.pc = "pause"]
\* A pass ends: another follows after a delay, unless this was the last.
GcAgain    == IF gc.last THEN GcWait ELSE GcPause

Init ==
  /\ msglog = [r \in Row |-> None] /\ tomb = {} /\ object = Object
  /\ table = {}
  /\ bucket \in [Bucket -> {"enabled", "suspended", "never"}]
  /\ phase = "down"
  /\ entry = [t \in Topic |-> "absent"]
  /\ worker = [w \in Worker |-> IdleWorker]
  /\ tombCount = 0 /\ gc = GcOff
  /\ canDelete = [b \in Bucket |-> "unknown"]
  /\ delivered = {} /\ missed = 0

----------------------------------------------------------------------------
(* The process starts and ends *)

\* initSubs loads the table, and the tombstones are counted.  An error of the
\* count query is not looked at: the count stays 0.
Start ==
  /\ phase # "up"
  /\ phase' = "up"
  /\ entry' = [t \in Topic |-> IF t \in table THEN "sub" ELSE "absent"]
  /\ \/ tombCount' = Cardinality(tomb) /\ missed' = 0
     \/ tombCount' = 0 /\ missed' = Cardinality(tomb)
  /\ UNCHANGED <<msglog, tomb, table, object, bucket, worker, gc, canDelete, delivered>>

\* Replay is over: Run starts the collector.
StartGc ==
  /\ phase = "up" /\ gc.pc = "off"
  /\ gc' = GcWait
  /\ UNCHANGED <<msglog, tomb, table, object, bucket, phase, entry, worker, tombCount,
                 canDelete, delivered, missed>>

Die(how) ==
  /\ phase' = how
  /\ entry' = [t \in Topic |-> "absent"]
  /\ worker' = [w \in Worker |-> IdleWorker]
  /\ tombCount' = 0 /\ gc' = GcOff
  /\ canDelete' = [b \in Bucket |-> "unknown"]
  /\ missed' = 0
  /\ UNCHANGED <<msglog, tomb, table, object, bucket, delivered>>

\* The context is cancelled, which every step of a pass notices, or the process
\* is killed: what the collector had not cleared is still in the log.
Stop == phase = "up" /\ Die("down")

----------------------------------------------------------------------------
(* Messages and subscriptions *)

\* Another rule of SES stores the mail again.  (It was stored before the first
\* notification of it: Init.)
Store(o) ==
  /\ o \notin object /\ object' = object \union {o}
  /\ UNCHANGED <<msglog, tomb, table, bucket, phase, entry, worker, tombCount, gc, canDelete,
                 delivered, missed>>

\* A notification is logged: the id it must not share with another row is that
\* of SNS, and not the object.  SQLite takes the rowid after the greatest one in
\* use, which may be one that was deleted.
Log(r, m) ==
  /\ phase = "up" /\ r = Max(Rows \union {0}) + 1
  /\ msglog' = [msglog EXCEPT ![r] = m]
  /\ UNCHANGED <<tomb, table, object, bucket, phase, entry, worker, tombCount, gc, canDelete,
                 delivered, missed>>

\* A worker finds the subscription of the message's topic and downloads the mail.
\* (Without one of them it gives up at once, which is no step here.)
Take(w, r) ==
  /\ phase = "up" /\ worker[w].pc = "idle"
  /\ r \in Pending /\ entry[msglog[r].topic] = "sub" /\ msglog[r].object \in object
  /\ \A v \in Worker : worker[v].row # r
  /\ worker' = [worker EXCEPT ![w] = [pc |-> "work", row |-> r]]
  /\ UNCHANGED <<msglog, tomb, table, object, bucket, phase, entry, tombCount, gc,
                 canDelete, delivered, missed>>

GiveUp(w) ==
  /\ worker[w].pc = "work"
  /\ worker' = [worker EXCEPT ![w] = IdleWorker]
  /\ UNCHANGED <<msglog, tomb, table, object, bucket, phase, entry, tombCount, gc,
                 canDelete, delivered, missed>>

\* The message was delivered: its row becomes a tombstone.
Retire(w) ==
  /\ worker[w].pc = "work"
  /\ tomb' = tomb \union {worker[w].row}
  /\ delivered' = delivered \union {msglog[worker[w].row].object}
  /\ worker' = [worker EXCEPT ![w] = [pc |-> "count", row |-> None]]
  /\ UNCHANGED <<msglog, table, object, bucket, phase, entry, tombCount, gc,
                 canDelete, missed>>

\* tombCount.Inc, and the collector is triggered if it is waiting right now.
Count(w) ==
  /\ worker[w].pc = "count"
  /\ tombCount' = tombCount + 1
  /\ worker' = [worker EXCEPT ![w] = IdleWorker]
  /\ \/ UNCHANGED gc
     \/ tombCount + 1 >= Threshold /\ gc.pc = "wait" /\ gc' = GcScan
  /\ UNCHANGED <<msglog, tomb, table, object, bucket, phase, entry, canDelete, delivered, missed>>

\* EditSub creates the subscription, or SNS and RemoveSub end it.
Subscribe(t) ==
  /\ phase = "up" /\ entry[t] # "sub"
  /\ entry' = [entry EXCEPT ![t] = "sub"]
  /\ table' = table \union {t}
  /\ UNCHANGED <<msglog, tomb, object, bucket, phase, worker, tombCount, gc,
                 canDelete, delivered, missed>>

Unsubscribe(t) ==
  /\ phase = "up" /\ entry[t] = "sub"
  /\ entry' = [entry EXCEPT ![t] = "cleared"]
  /\ table' = table \ {t}
  /\ UNCHANGED <<msglog, tomb, object, bucket, phase, worker, tombCount, gc,
                 canDelete, delivered, missed>>

\* Two callers of withTopic at a time leave a cleared entry (module TopicLock).
Touch(t) ==
  /\ phase = "up" /\ entry[t] = "absent"
  /\ entry' = [entry EXCEPT ![t] = "cleared"]
  /\ UNCHANGED <<msglog, tomb, table, object, bucket, phase, worker, tombCount, gc,
                 canDelete, delivered, missed>>

----------------------------------------------------------------------------
(* The collector *)

collects == UNCHANGED <<table, bucket, phase, entry, worker, delivered, missed>>

\* The scan timer, or the GC call.
GcWake ==
  /\ gc.pc = "wait" /\ gc' = GcScan
  /\ collects /\ UNCHANGED <<msglog, tomb, object, tombCount, canDelete>>

\* msgCh is not empty: this pass is skipped.
GcBusy ==
  /\ gc.pc = "scan" /\ gc' = GcPause
  /\ collects /\ UNCHANGED <<msglog, tomb, object, tombCount, canDelete>>

GcResume ==
  /\ gc.pc = "pause" /\ gc' = GcScan
  /\ collects /\ UNCHANGED <<msglog, tomb, object, tombCount, canDelete>>

\* Mutant: the scan misses its condition tomb = 1.
GcSelectAny ==
  /\ gc.pc = "scan"
  /\ \E R \in SUBSET Rows :
       /\ IF Cardinality(Rows) <= Batch THEN R = Rows ELSE Cardinality(R) = Batch
       /\ gc' = IF R = {} THEN GcWait
                ELSE [pc |-> "clients", batch |-> R, todo |-> Messages(R), clients |-> {},
                      last |-> Cardinality(R) < Batch]
  /\ collects /\ UNCHANGED <<msglog, tomb, object, tombCount, canDelete>>

\* Up to Batch tombstones go to temp.gcready, in the order of their rowids
\* (there is no index on tomb); fewer end the cycle.
GcSelect ==
  /\ gc.pc = "scan"
  /\ \E R \in SUBSET tomb :
       /\ IF Cardinality(tomb) <= Batch THEN R = tomb ELSE Cardinality(R) = Batch
       /\ \A r \in R, s \in tomb \ R : r < s
       /\ gc' = IF R = {} THEN GcWait
                ELSE [pc |-> "clients", batch |-> R, todo |-> Messages(R), clients |-> {},
                      last |-> Cardinality(R) < Batch]
  /\ collects /\ UNCHANGED <<msglog, tomb, object, tombCount, canDelete>>

\* The table was not created or not filled, or reading it back failed.
GcSelectFail ==
  /\ gc.pc = "scan"
  /\ gc' \in {GcPause, GcWait}
  /\ collects /\ UNCHANGED <<msglog, tomb, object, tombCount, canDelete>>

\* The clients of the topics are looked up in the cache: a topic without an
\* entry is a nil dereference.
GcClients ==
  /\ gc.pc = "clients"
  /\ IF \E t \in Topics(gc.todo) : entry[t] = "absent"
     THEN Die("failed")
     ELSE /\ gc' = [gc EXCEPT !.pc = "buckets",
                              !.clients = {t \in Topics(gc.todo) : entry[t] = "sub"}]
          /\ collects /\ UNCHANGED <<msglog, tomb, object, tombCount, canDelete>>

\* The versioning of a bucket is asked for once.  Asking without a client is a
\* nil dereference, and so is the status of a bucket that never had versioning.
GcVersioning(t, b) ==
  /\ gc.pc = "buckets" /\ Group(t, b) # {} /\ canDelete[b] = "unknown"
  /\ IF t \notin gc.clients \/ bucket[b] = "never"
     THEN Die("failed")
     ELSE /\ canDelete' = [canDelete EXCEPT ![b] = IF bucket[b] = "enabled" THEN "yes" ELSE "no"]
          /\ collects /\ UNCHANGED <<msglog, tomb, object, tombCount, gc>>

\* The call failed: the objects stay.
GcVersioningFail(t, b) ==
  /\ gc.pc = "buckets" /\ Group(t, b) # {} /\ t \in gc.clients /\ canDelete[b] = "unknown"
  /\ gc' = [gc EXCEPT !.todo = @ \ Group(t, b)]
  /\ collects /\ UNCHANGED <<msglog, tomb, object, tombCount, canDelete>>

\* The objects are deleted by their keys, whoever else names them.  Some may stay:
\* errors are logged, or not even looked at.
GcDelete(t, b) ==
  /\ gc.pc = "buckets" /\ Group(t, b) # {} /\ canDelete[b] # "unknown"
  /\ IF canDelete[b] = "yes" /\ t \in gc.clients
     THEN \E M \in SUBSET Group(t, b) : object' = object \ {m.object : m \in M}
     ELSE UNCHANGED object
  /\ gc' = [gc EXCEPT !.todo = @ \ Group(t, b)]
  /\ collects /\ UNCHANGED <<msglog, tomb, tombCount, canDelete>>

\* Mutant: tombCount is not lowered.
GcClearUncounted ==
  /\ gc.pc = "buckets" /\ gc.todo = {}
  /\ msglog' = [r \in Row |-> IF r \in gc.batch THEN None ELSE msglog[r]]
  /\ tomb' = tomb \ gc.batch
  /\ gc' = GcAgain
  /\ collects /\ UNCHANGED <<object, tombCount, canDelete>>

GcClear ==
  /\ gc.pc = "buckets" /\ gc.todo = {}
  /\ msglog' = [r \in Row |-> IF r \in gc.batch THEN None ELSE msglog[r]]
  /\ tomb' = tomb \ gc.batch
  /\ gc' = [gc EXCEPT !.pc = "count"]
  /\ collects /\ UNCHANGED <<object, tombCount, canDelete>>

GcClearFail ==
  /\ gc.pc = "buckets" /\ gc.todo = {}
  /\ gc' = GcAgain
  /\ collects /\ UNCHANGED <<msglog, tomb, object, tombCount, canDelete>>

\* Mutant: the collector stops after one pass that was not the last.
GcCountStops ==
  /\ gc.pc = "count"
  /\ tombCount' = tombCount - Cardinality(gc.batch)
  /\ gc' = IF gc.last THEN GcWait ELSE [GcOff EXCEPT !.pc = "stopped"]
  /\ collects /\ UNCHANGED <<msglog, tomb, object, canDelete>>

GcCount ==
  /\ gc.pc = "count"
  /\ tombCount' = tombCount - Cardinality(gc.batch)
  /\ gc' = GcAgain
  /\ collects /\ UNCHANGED <<msglog, tomb, object, canDelete>>

----------------------------------------------------------------------------
\* Between two passes nothing depends on the load or on the database.
GcStep ==
  \/ GcWake \/ GcBusy \/ GcResume \/ GcSelectFail \/ GcClients
  \/ \E t \in Topic, b \in Bucket :
       GcVersioning(t, b) \/ GcVersioningFail(t, b) \/ GcDelete(t, b)
  \/ GcClearFail \/ GcCount

Next ==
  \/ Start \/ StartGc \/ Stop
  \/ \E o \in Object : Store(o)
  \/ \E r \in Row, m \in Message : Log(r, m)
  \/ \E w \in Worker : GiveUp(w) \/ Retire(w) \/ Count(w) \/ \E r \in Row : Take(w, r)
  \/ \E t \in Topic : Subscribe(t) \/ Unsubscribe(t) \/ Touch(t)
  \/ GcStep \/ GcSelect \/ GcClear

Spec == Init /\ [][Next]_vars

\* The process is started again (systemd restarts it), the collector's
\* goroutine runs and its timers fire.  Assumed of the load: the queue is found
\* empty again and again, of SQLite: a statement does not fail for ever.
Fairness ==
  /\ WF_vars(Start) /\ WF_vars(StartGc) /\ WF_vars(GcStep)
  /\ SF_vars(GcSelect) /\ SF_vars(GcClear)

FairSpec == Spec /\ Fairness

\* The process is stopped and killed only finitely often.
SteadySpec == FairSpec /\ <>[][~Stop]_vars

----------------------------------------------------------------------------
TypeOK ==
  /\ msglog \in [Row -> Message \union {None}]
  /\ tomb \subseteq Row /\ table \subseteq Topic
  /\ object \subseteq Object /\ delivered \subseteq Object
  /\ bucket \in [Bucket -> {"enabled", "suspended", "never"}]
  /\ phase \in {"up", "down", "failed"}
  /\ entry \in [Topic -> {"absent", "cleared", "sub"}]
  /\ worker \in [Worker -> [pc : {"idle", "work", "count"}, row : Row \union {None}]]
  /\ tombCount \in Int
  /\ gc \in [pc : {"off", "wait", "scan", "clients", "buckets", "count", "pause"},
             batch : SUBSET Row, todo : SUBSET Message, clients : SUBSET Topic, last : BOOLEAN]
  /\ canDelete \in [Bucket -> {"unknown", "yes", "no"}]
  /\ missed \in Nat

\* Between all the steps that change one without the other, tombCount is the
\* number of tombstones, up to those a worker retired and has not counted yet,
\* those the collector deleted and has not subtracted yet, and those missed at
\* the start.
TombsCounted ==
  phase = "up" =>
    tombCount + Cardinality(Counting) + missed =
      Cardinality(tomb) + IF gc.pc = "count" THEN Cardinality(gc.batch) ELSE 0

\* temp.gcready holds tombstones until they are cleared, and never the rowid of
\* a message that was logged meanwhile; toDelete was read from these rows.
BatchIsGarbage ==
  gc.pc \in {"clients", "buckets"} =>
    /\ gc.batch \subseteq tomb
    /\ gc.todo \subseteq Messages(gc.batch)
    /\ gc.clients \subseteq Topics(Messages(gc.batch))

\* A mail is in its bucket until it was delivered, whatever rows name it, whatever
\* becomes of their rowids, and whatever of a batch was done when the process died.
\* (Not: until it was delivered for every message that names it, PendingHasObject.)
UndeliveredMailKept == Object \ delivered \subseteq object

\* A tombstone is collected, unless the process ends, a topic has no
\* subscription, or a bucket never had versioning.
GarbageIsCollected ==
  \A r \in Row :
    r \in tomb ~> \/ r \notin tomb \/ phase # "up"
                  \/ \E t \in Topic : entry[t] # "sub"
                  \/ \E b \in Bucket : bucket[b] = "never"

----------------------------------------------------------------------------
(* What comments and documents say, which the code does not keep *)

\* The comment in Run: the cached count is initialised from the database.
CountIsLoaded ==
  phase = "up" /\ gc.pc = "off" => tombCount + Cardinality(Counting) = Cardinality(tomb)

\* doc/README.md: delivered notifications are tombstoned and later collected.
\* Every tombstone is collected, if the bucket of its topic has versioning.
DeliveredIsCollected ==
  \A r \in Row :
    r \in tomb ~> r \notin tomb \/ \E b \in Bucket : bucket[b] = "never"

\* The object of a message that is not delivered yet is in its bucket.  Another
\* message of the same mail, delivered and collected before, takes it along.
PendingHasObject == \A r \in Pending : msglog[r].object \in object
============================================================================
