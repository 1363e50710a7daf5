--------------------------- MODULE CollectorProofs ---------------------------
(***************************************************************************)
(* The safety of the collector, for every number of rows, topics, workers, *)
(* every size of a batch and every threshold.                              *)
(***************************************************************************)
EXTENDS Collector, FiniteSetTheorems, WellFoundedInduction, TLAPS

Versionings == {"enabled", "suspended", "never"}
WorkerType  == [pc : {"idle", "work", "count"}, row : Row \union {None}]
GcType      == [pc : {"off", "wait", "scan", "clients", "buckets", "count", "pause"},
                batch : SUBSET Row, todo : SUBSET Message, clients : SUBSET Topic,
                last : BOOLEAN]

Typed ==
  /\ msglog \in [Row -> Message \union {None}]
  /\ tomb \subseteq Row /\ table \subseteq Topic
  /\ object \subseteq Object /\ delivered \subseteq Object
  /\ bucket \in [Bucket -> Versionings]
  /\ phase \in {"up", "down", "failed"}
  /\ entry \in [Topic -> {"absent", "cleared", "sub"}]
  /\ worker \in [Worker -> WorkerType]
  /\ tombCount \in Int
  /\ gc \in GcType
  /\ canDelete \in [Bucket -> {"unknown", "yes", "no"}]
  /\ missed \in Nat

\* Without the process, nobody works and nothing is collected.
Asleep == phase # "up" => (\A w \in Worker : worker[w] = IdleWorker) /\ gc.pc = "off"

\* Tombstones are rows, and a message of their mail was delivered.
TombsAreRows   == tomb \subseteq Rows
TombsDelivered == \A r \in tomb : msglog[r].object \in delivered

\* A row is worked on by one worker, and is pending as long.
WorkIsPending == \A w \in Worker : worker[w].pc = "work" => worker[w].row \in Pending
WorkedByOne ==
  \A v, w \in Worker :
    v # w /\ worker[v].pc = "work" /\ worker[w].pc = "work" => worker[v].row # worker[w].row

IInv == /\ Typed /\ Asleep /\ TombsAreRows /\ TombsDelivered /\ WorkIsPending /\ WorkedByOne
        /\ TombsCounted /\ BatchIsGarbage /\ UndeliveredMailKept

----------------------------------------------------------------------------
(* The steps, by what they change *)

Working == \E w \in Worker : GiveUp(w) \/ Retire(w) \/ Count(w) \/ \E r \in Row : Take(w, r)
Subscribing == \E t \in Topic : Subscribe(t) \/ Unsubscribe(t) \/ Touch(t)
Idling == StartGc \/ GcWake \/ GcBusy \/ GcResume \/ GcSelectFail \/ GcClearFail
Storing == \E o \in Object : Store(o)
Dying == \E how \in {"down", "failed"} : Die(how)

\* What a pass does when it does not end the process.
Found == GcClients /\ gc' = [gc EXCEPT !.pc = "buckets",
                                       !.clients = {t \in Topics(gc.todo) : entry[t] = "sub"}]
Asking == \E t \in Topic, b \in Bucket : GcVersioning(t, b) /\ UNCHANGED <<phase, gc>>
Through == \E t \in Topic, b \in Bucket : GcVersioningFail(t, b) \/ GcDelete(t, b)

LEMMA Cases ==
  ASSUME [Next]_vars
  PROVE  \/ UNCHANGED vars \/ Start \/ Dying \/ Idling \/ Working \/ Subscribing \/ Storing
         \/ \E r \in Row, m \in Message : Log(r, m)
         \/ GcSelect \/ (Found /\ collects /\ UNCHANGED <<msglog, tomb, object, tombCount, canDelete>>)
         \/ (Asking /\ collects /\ UNCHANGED <<msglog, tomb, object, tombCount>>)
         \/ Through \/ GcClear \/ GcCount
  <1>1. GcClients => Dying \/ (Found /\ collects /\ UNCHANGED <<msglog, tomb, object, tombCount, canDelete>>)
    BY DEF GcClients, Dying, Found
  <1>2. \A t \in Topic, b \in Bucket :
          GcVersioning(t, b) => Dying \/ (Asking /\ collects /\ UNCHANGED <<msglog, tomb, object, tombCount>>)
    BY DEF GcVersioning, Dying, Asking, collects
  <1>3. Stop => Dying
    BY DEF Stop, Dying
  <1> QED
    BY <1>1, <1>2, <1>3 DEF Next, GcStep, Working, Subscribing, Storing, Idling, Through
\* A bounded set of numbers has a greatest one: the numbers are counted down from
\* the bound, and the least of these is taken.
LEMMA MaxIsGreatest ==
  ASSUME NEW n \in Nat, NEW S \in SUBSET (0..n), S # {}
  PROVE  Max(S) \in S /\ \A x \in S : x <= Max(S)
  <1> DEFINE T == {n - x : x \in S}
             Less == OpToRel(<, Nat)
  <1>1. T \subseteq Nat /\ T # {}
    <2>1. \A x \in S : n - x \in Nat
      OBVIOUS
    <2>2. PICK x \in S : TRUE
      OBVIOUS
    <2> QED
      BY <2>1, <2>2
  <1>2. \A x, y \in Nat : x < y => <<x, y>> \in Less
    BY DEF OpToRel
  <1>3. IsWellFoundedOn(Less, Nat)
    BY NatLessThanWellFounded
  <1> HIDE DEF Less
  <1>4. PICK t \in T : \A u \in T : ~(<<u, t>> \in Less)
    <2> HIDE DEF T
    <2> QED
      BY <1>1, <1>3, WFMin
  <1>5. PICK m \in S : t = n - m
    BY <1>4
  <1>6. \A x \in S : x <= m
    <2> SUFFICES ASSUME NEW x \in S, m < x PROVE FALSE
      OBVIOUS
    <2>1. n - x \in T /\ n - x \in Nat /\ t \in Nat /\ n - x < t
      BY <1>1, <1>4, <1>5
    <2> QED
      BY <1>2, <1>4, <2>1
  <1>7. \E x \in S : \A y \in S : x >= y
    BY <1>6
  <1>8. Max(S) \in S /\ \A y \in S : Max(S) >= y
    BY <1>7 DEF Max
  <1> QED
    BY <1>8
----------------------------------------------------------------------------
(* Facts about the constants and the records *)

LEMMA Constants ==
  /\ MaxRow \in Nat /\ IsFiniteSet(Worker) /\ Batch \in Nat \ {0}
  /\ None \notin Message /\ None \notin Nat
  /\ \A m \in Message : m.topic \in Topic /\ m.object \in Object
  BY CollectorConstants

LEMMA Finite ==
  /\ IsFiniteSet(Row)
  /\ \A R \in SUBSET Row : IsFiniteSet(R) /\ Cardinality(R) \in Nat
  <1>1. IsFiniteSet(Row)
    BY Constants, FS_Interval DEF Row
  <1> QED
    BY <1>1, FS_Subset, FS_CardinalityType

LEMMA Resting ==
  /\ IdleWorker \in WorkerType /\ IdleWorker.pc = "idle"
  /\ \A g \in {GcOff, GcWait, GcScan, GcPause} : g \in GcType /\ g.batch = {}
  /\ GcOff.pc = "off" /\ GcWait.pc = "wait" /\ GcScan.pc = "scan" /\ GcPause.pc = "pause"
  <1>1. GcOff \in GcType /\ GcOff.pc = "off" /\ GcOff.batch = {}
    BY DEF GcOff, GcType
  <1>2. ASSUME NEW pc \in {"wait", "scan", "pause"}, NEW g, g = [GcOff EXCEPT !.pc = pc]
        PROVE  g \in GcType /\ g.pc = pc /\ g.batch = {}
    BY <1>1, <1>2 DEF GcType
  <1>3. IdleWorker \in WorkerType /\ IdleWorker.pc = "idle"
    BY DEF IdleWorker, WorkerType
  <1> QED
    BY <1>1, <1>2, <1>3 DEF GcWait, GcScan, GcPause

\* A notification that is logged takes a rowid that was not in use.
LEMMA Logged ==
  ASSUME IInv, NEW r \in Row, NEW m \in Message, Log(r, m)
  PROVE  /\ r \notin Rows /\ r \notin tomb
         /\ msglog' \in [Row -> Message \union {None}] /\ msglog'[r] = m
         /\ \A s \in Row \ {r} : msglog'[s] = msglog[s]
         /\ Rows' = Rows \union {r}
         /\ UNCHANGED <<tomb, table, object, bucket, phase, entry, worker, tombCount, gc, canDelete,
                        delivered, missed>>
  <1>1. r = Max(Rows \union {0}) + 1
    BY DEF Log
  <1>2. r \notin Rows
    <2>1. Rows \union {0} \in SUBSET (0..MaxRow) /\ MaxRow \in Nat
      BY Constants DEF Rows, Row
    <2> DEFINE S == Rows \union {0}
    <2>2. Max(S) \in S /\ \A x \in S : x <= Max(S)
      <3>1. S # {} /\ S \in SUBSET (0..MaxRow)
        BY <2>1
      <3> HIDE DEF S
      <3> QED
        BY <2>1, <3>1, MaxIsGreatest
    <2>3. Max(S) \in Int
      BY <2>1, <2>2
    <2> QED
      BY <1>1, <2>2, <2>3
  <1>3. /\ msglog' = [msglog EXCEPT ![r] = m] /\ msglog \in [Row -> Message \union {None}]
        /\ UNCHANGED <<tomb, table, object, bucket, phase, entry, worker, tombCount, gc, canDelete,
                       delivered, missed>>
    BY DEF Log, IInv, Typed
  <1>4. Rows' = Rows \union {r}
    BY <1>3, Constants DEF Rows
  <1> QED
    BY <1>2, <1>3, <1>4 DEF IInv, TombsAreRows

\* A row has a message, with the object of its mail.
LEMMA Named ==
  ASSUME Typed, NEW r \in Rows
  PROVE  msglog[r] \in Message /\ msglog[r].object \in Object
  BY Constants DEF Typed, Rows

\* What a worker does, alone.
LEMMA Works ==
  ASSUME IInv, Working
  PROVE  /\ phase = "up" /\ UNCHANGED <<msglog, table, object, bucket, phase, entry, canDelete, missed>>
         /\ gc' = gc \/ (gc.pc = "wait" /\ gc' = GcScan)
         /\ \E w \in Worker, x \in WorkerType :
              /\ worker' = [worker EXCEPT ![w] = x]
              /\ \/ /\ x.pc = "idle" /\ worker[w].pc = "work"
                    /\ UNCHANGED <<tomb, tombCount, delivered>>
                 \/ /\ x.pc = "count" /\ worker[w].pc = "work"
                    /\ tomb' = tomb \union {worker[w].row} /\ tombCount' = tombCount
                    /\ delivered' = delivered \union {msglog[worker[w].row].object}
                 \/ /\ x.pc = "idle" /\ worker[w].pc = "count"
                    /\ tombCount' = tombCount + 1 /\ UNCHANGED <<tomb, delivered>>
                 \/ /\ x.pc = "work" /\ worker[w].pc = "idle" /\ x.row \in Pending
                    /\ \A v \in Worker : worker[v].row # x.row
                    /\ UNCHANGED <<tomb, tombCount, delivered>>
  <1> /\ Asleep /\ IdleWorker.pc = "idle" /\ IdleWorker \in WorkerType
    BY Resting DEF IInv
  <1>1. ASSUME NEW w \in Worker, GiveUp(w) \/ Retire(w) \/ Count(w) PROVE phase = "up"
    BY <1>1 DEF GiveUp, Retire, Count, Asleep
  <1>2. [pc |-> "count", row |-> None] \in WorkerType
    BY DEF WorkerType
  <1>3. ASSUME NEW r \in Row PROVE [pc |-> "work", row |-> r] \in WorkerType
    BY DEF WorkerType
  <1>4. PICK w \in Worker : GiveUp(w) \/ Retire(w) \/ Count(w) \/ \E r \in Row : Take(w, r)
    BY DEF Working
  <1>5. CASE GiveUp(w)
    BY <1>1, <1>5 DEF GiveUp
  <1>6. CASE Retire(w)
    BY <1>1, <1>2, <1>6 DEF Retire
  <1>7. CASE Count(w)
    BY <1>1, <1>7 DEF Count
  <1>8. ASSUME NEW r \in Row, Take(w, r)
        PROVE  /\ phase = "up" /\ r \in Pending /\ worker[w].pc = "idle"
               /\ worker' = [worker EXCEPT ![w] = [pc |-> "work", row |-> r]]
               /\ \A v \in Worker : worker[v].row # r
               /\ UNCHANGED <<msglog, tomb, table, object, bucket, phase, entry, tombCount, gc,
                              canDelete, delivered, missed>>
    BY <1>8 DEF Take
  <1>9. CASE \E r \in Row : Take(w, r)
    BY <1>3, <1>8, <1>9
  <1> QED
    BY <1>4, <1>5, <1>6, <1>7, <1>9
\* What the collector does between and in the passes.
LEMMA Idles ==
  ASSUME IInv, Idling
  PROVE  /\ phase = "up" /\ gc' \in {GcWait, GcScan, GcPause} /\ gc.pc # "count"
         /\ UNCHANGED <<msglog, tomb, table, object, bucket, phase, entry, worker, tombCount,
                        canDelete, delivered, missed>>
  BY DEF Idling, StartGc, GcWake, GcBusy, GcResume, GcSelectFail, GcClearFail, GcAgain, collects,
         IInv, Asleep

LEMMA Selects ==
  ASSUME IInv, GcSelect
  PROVE  /\ phase = "up" /\ gc.pc = "scan"
         /\ UNCHANGED <<msglog, tomb, table, object, bucket, phase, entry, worker, tombCount,
                        canDelete, delivered, missed>>
         /\ \/ gc' = GcWait
            \/ /\ gc' \in GcType /\ gc'.pc = "clients" /\ gc'.batch \subseteq tomb
               /\ gc'.todo = Messages(gc'.batch) /\ gc'.clients = {}
  <1> tomb \subseteq Rows /\ Rows \subseteq Row /\ msglog \in [Row -> Message \union {None}]
    BY DEF IInv, TombsAreRows, Typed, Rows
  <1>1. /\ phase = "up" /\ gc.pc = "scan"
        /\ UNCHANGED <<msglog, tomb, table, object, bucket, phase, entry, worker, tombCount,
                       canDelete, delivered, missed>>
    BY DEF GcSelect, collects, IInv, Asleep
  <1>2. PICK R \in SUBSET tomb :
          gc' = IF R = {} THEN GcWait
                ELSE [pc |-> "clients", batch |-> R, todo |-> Messages(R), clients |-> {},
                      last |-> Cardinality(R) < Batch]
    BY DEF GcSelect
  <1>3. R \in SUBSET Row /\ Messages(R) \in SUBSET Message
    BY DEF Messages, Rows
  <1> DEFINE g == [pc |-> "clients", batch |-> R, todo |-> Messages(R), clients |-> {},
                   last |-> Cardinality(R) < Batch]
  <1>4. g \in GcType /\ g.pc = "clients" /\ g.batch = R /\ g.todo = Messages(R) /\ g.clients = {}
    BY <1>3 DEF GcType
  <1> HIDE DEF g
  <1>5. gc' = GcWait \/ gc' = g
    BY <1>2 DEF g
  <1> QED
    BY <1>1, <1>4, <1>5

LEMMA Finds ==
  ASSUME IInv, Found
  PROVE  /\ phase = "up" /\ gc.pc = "clients"
         /\ gc' \in GcType /\ gc'.pc = "buckets" /\ gc'.batch = gc.batch
         /\ gc'.todo = gc.todo /\ gc'.clients \subseteq Topics(gc.todo)
  <1> gc \in GcType /\ phase = "up" /\ gc.pc = "clients"
    BY DEF Found, GcClients, IInv, Typed, Asleep
  <1>1. /\ gc' = [gc EXCEPT !.pc = "buckets", !.clients = {t \in Topics(gc.todo) : entry[t] = "sub"}]
        /\ {t \in Topics(gc.todo) : entry[t] = "sub"} \in SUBSET Topic
    BY Constants DEF Found, GcType, Topics
  <1> DEFINE C == {t \in Topics(gc.todo) : entry[t] = "sub"}
  <1>2. C \subseteq Topics(gc.todo) /\ C \in SUBSET Topic /\ gc' = [gc EXCEPT !.pc = "buckets", !.clients = C]
    BY <1>1
  <1> HIDE DEF C
  <1> QED
    BY <1>2 DEF GcType

LEMMA Passes ==
  ASSUME IInv, Through
  PROVE  /\ phase = "up" /\ gc.pc = "buckets"
         /\ gc' \in GcType /\ gc'.pc = "buckets" /\ gc'.batch = gc.batch
         /\ gc'.todo \subseteq gc.todo /\ gc'.clients = gc.clients
         /\ UNCHANGED <<msglog, tomb, table, bucket, phase, entry, worker, tombCount, canDelete,
                        delivered, missed>>
         /\ \E M \in SUBSET gc.todo : object' = object \ {m.object : m \in M}
  <1> gc \in GcType
    BY DEF IInv, Typed
  <1>1. PICK t \in Topic, b \in Bucket : GcVersioningFail(t, b) \/ GcDelete(t, b)
    BY DEF Through
  <1>2. /\ gc.pc = "buckets" /\ gc' = [gc EXCEPT !.todo = gc.todo \ Group(t, b)]
        /\ UNCHANGED <<msglog, tomb, table, bucket, phase, entry, worker, tombCount, canDelete,
                       delivered, missed>>
    BY <1>1 DEF GcVersioningFail, GcDelete, collects
  <1>3. \E M \in SUBSET gc.todo : object' = object \ {m.object : m \in M}
    <2>1. \/ object' = object
          \/ \E M \in SUBSET Group(t, b) : object' = object \ {m.object : m \in M}
      BY <1>1 DEF GcVersioningFail, GcDelete
    <2>2. {} \in SUBSET gc.todo /\ object = object \ {m.object : m \in {}}
      OBVIOUS
    <2>3. SUBSET Group(t, b) \subseteq SUBSET gc.todo
      BY DEF Group
    <2> QED
      BY <2>1, <2>2, <2>3
  <1>4. /\ gc' \in GcType /\ gc'.pc = "buckets" /\ gc'.batch = gc.batch
        /\ gc'.todo \subseteq gc.todo /\ gc'.clients = gc.clients
    BY <1>2 DEF GcType
  <1> QED
    BY <1>2, <1>3, <1>4 DEF IInv, Asleep

\* The rows of the batch, all of them tombstones, leave the log.
LEMMA Clears ==
  ASSUME IInv, GcClear
  PROVE  /\ phase = "up" /\ gc.pc = "buckets" /\ gc.batch \subseteq tomb
         /\ msglog' \in [Row -> Message \union {None}]
         /\ Rows' = Rows \ gc.batch /\ tomb' = tomb \ gc.batch
         /\ gc' \in GcType /\ gc'.pc = "count" /\ gc'.batch = gc.batch
         /\ UNCHANGED <<table, object, bucket, phase, entry, worker, tombCount, canDelete, delivered,
                        missed>>
  <1> gc \in GcType /\ msglog \in [Row -> Message \union {None}] /\ gc.batch \subseteq tomb
    BY DEF IInv, Typed, BatchIsGarbage, GcClear
  <1>1. /\ gc.pc = "buckets" /\ gc' = [gc EXCEPT !.pc = "count"] /\ tomb' = tomb \ gc.batch
        /\ msglog' = [r \in Row |-> IF r \in gc.batch THEN None ELSE msglog[r]]
        /\ UNCHANGED <<table, object, bucket, phase, entry, worker, tombCount, canDelete, delivered,
                       missed>>
    BY DEF GcClear, collects
  <1>2. msglog' \in [Row -> Message \union {None}] /\ Rows' = Rows \ gc.batch
    BY <1>1 DEF Rows
  <1>3. gc' \in GcType /\ gc'.pc = "count" /\ gc'.batch = gc.batch
    BY <1>1 DEF GcType
  <1> QED
    BY <1>1, <1>2, <1>3 DEF IInv, Asleep

LEMMA Counted ==
  ASSUME IInv, GcCount
  PROVE  /\ phase = "up" /\ gc.pc = "count" /\ gc' \in {GcWait, GcPause}
         /\ tombCount' = tombCount - Cardinality(gc.batch)
         /\ UNCHANGED <<msglog, tomb, table, object, bucket, phase, entry, worker, canDelete, delivered,
                        missed>>
  BY DEF GcCount, GcAgain, collects, IInv, Asleep
\* The process ends or starts.
LEMMA Dies ==
  ASSUME IInv, Dying
  PROVE  /\ phase' \in {"down", "failed"} /\ worker' = [w \in Worker |-> IdleWorker]
         /\ tombCount' = 0 /\ gc' = GcOff /\ missed' = 0
         /\ entry' \in [Topic -> {"absent", "cleared", "sub"}]
         /\ canDelete' \in [Bucket -> {"unknown", "yes", "no"}]
         /\ UNCHANGED <<msglog, tomb, table, object, bucket, delivered>>
  BY DEF Dying, Die

LEMMA Starts ==
  ASSUME IInv, Start
  PROVE  /\ phase # "up" /\ phase' = "up"
         /\ entry' \in [Topic -> {"absent", "cleared", "sub"}]
         /\ tombCount' \in Int /\ missed' \in Nat /\ tombCount' + missed' = Cardinality(tomb)
         /\ UNCHANGED <<msglog, tomb, table, object, bucket, worker, gc, canDelete, delivered>>
  <1>1. Cardinality(tomb) \in Nat
    BY Finite DEF IInv, Typed
  <1> QED
    BY <1>1 DEF Start

----------------------------------------------------------------------------
(* Every step keeps the parts of the invariant *)

LEMMA TypedStep == ASSUME IInv, [Next]_vars PROVE Typed'
  <1> Typed
    BY DEF IInv
  <1>1. CASE UNCHANGED vars
    BY <1>1 DEF Typed, vars
  <1>2. CASE Start
    BY <1>2, Starts DEF Typed
  <1>3. CASE Dying
    <2>1. worker' \in [Worker -> WorkerType] /\ gc' \in GcType
      BY <1>3, Dies, Resting
    <2> QED
      BY <1>3, <2>1, Dies DEF Typed
  <1>4. CASE Idling
    BY <1>4, Idles, Resting DEF Typed
  <1>5. CASE Working
    <2>1. gc' \in GcType
      BY <1>5, Works, Resting DEF Typed
    <2>2. PICK w \in Worker, x \in WorkerType :
            /\ worker' = [worker EXCEPT ![w] = x]
            /\ tombCount' \in {tombCount, tombCount + 1}
      BY <1>5, Works
    <2>3. \A v \in Worker : worker[v].pc = "work" =>
            worker[v].row \in Row /\ msglog[worker[v].row].object \in Object
      BY Named DEF IInv, WorkIsPending, Pending, Rows
    <2>4. tomb' \subseteq Row /\ delivered' \subseteq Object
      BY <1>5, <2>3, Works DEF Typed
    <2> QED
      BY <1>5, <2>1, <2>2, <2>4, Works DEF Typed
  <1>6. CASE Subscribing
    BY <1>6 DEF Subscribing, Subscribe, Unsubscribe, Touch, Typed
  <1>14. CASE Storing
    BY <1>14 DEF Storing, Store, Typed
  <1>7. ASSUME NEW r \in Row, NEW m \in Message, Log(r, m) PROVE Typed'
    BY <1>7, Logged DEF Typed
  <1>8. CASE GcSelect
    BY <1>8, Selects, Resting DEF Typed
  <1>9. CASE Found /\ collects /\ UNCHANGED <<msglog, tomb, object, tombCount, canDelete>>
    BY <1>9, Finds DEF collects, Typed
  <1>10. CASE Asking /\ collects /\ UNCHANGED <<msglog, tomb, object, tombCount>>
    <2>1. canDelete' \in [Bucket -> {"unknown", "yes", "no"}] /\ gc' = gc
      BY <1>10 DEF Asking, GcVersioning, Typed, Die
    <2> QED
      BY <1>10, <2>1 DEF collects, Typed
  <1>11. CASE Through
    BY <1>11, Passes DEF Typed
  <1>12. CASE GcClear
    BY <1>12, Clears DEF Typed
  <1>13. CASE GcCount
    <2>1. Cardinality(gc.batch) \in Nat
      BY Finite DEF Typed, GcType
    <2> QED
      BY <1>13, <2>1, Counted, Resting DEF Typed
  <1> QED
    BY <1>1, <1>2, <1>3, <1>4, <1>5, <1>6, <1>7, <1>8, <1>9, <1>10, <1>11, <1>12, <1>13, <1>14,
       Cases

LEMMA AsleepStep == ASSUME IInv, [Next]_vars PROVE Asleep'
  <1>1. CASE UNCHANGED vars
    BY <1>1 DEF IInv, Asleep, vars
  <1>2. CASE Dying
    BY <1>2, Dies, Resting DEF Asleep
  <1>7. CASE Storing
    BY <1>7 DEF Storing, Store, IInv, Asleep
  <1>3. Subscribing => phase' = "up"
    BY DEF Subscribing, Subscribe, Unsubscribe, Touch
  <1>4. (Asking \/ Found) /\ collects => phase' = "up"
    BY DEF Asking, Found, GcVersioning, GcClients, collects, IInv, Asleep
  <1>5. Start \/ (\E r \in Row, m \in Message : Log(r, m)) => phase' = "up"
    BY DEF Start, Log
  <1>6. GcCount \/ GcClear \/ Through \/ GcSelect \/ Idling \/ Working => phase' = "up"
    BY Idles, Works, Selects, Passes, Clears, Counted
  <1> QED
    BY <1>1, <1>2, <1>3, <1>4, <1>5, <1>6, <1>7, Cases DEF Asleep

\* What the steps do to rows, tombstones and what was delivered.
LEMMA TombsStep == ASSUME IInv, [Next]_vars PROVE TombsAreRows' /\ TombsDelivered'
  <1> /\ tomb \subseteq Rows /\ Rows \subseteq Row
      /\ \A r \in tomb : msglog[r].object \in delivered
    BY DEF IInv, TombsAreRows, TombsDelivered, Rows
  <1>1. CASE UNCHANGED <<msglog, tomb, delivered>>
    BY <1>1 DEF TombsAreRows, TombsDelivered, Rows
  <1>2. CASE Working
    <2>1. \E w \in Worker :
            \/ UNCHANGED <<tomb, delivered>>
            \/ /\ worker[w].pc = "work" /\ tomb' = tomb \union {worker[w].row}
               /\ delivered' = delivered \union {msglog[worker[w].row].object}
      BY <1>2, Works
    <2>2. msglog' = msglog
      BY <1>2, Works
    <2>3. \A w \in Worker : worker[w].pc = "work" => worker[w].row \in Rows
      BY DEF IInv, WorkIsPending, Pending
    <2> QED
      BY <2>1, <2>2, <2>3 DEF TombsAreRows, TombsDelivered, Rows
  <1>3. ASSUME NEW r \in Row, NEW m \in Message, Log(r, m) PROVE TombsAreRows' /\ TombsDelivered'
    <2>1. /\ r \notin tomb /\ Rows' = Rows \union {r} /\ UNCHANGED <<tomb, delivered>>
          /\ \A s \in Row \ {r} : msglog'[s] = msglog[s]
      BY <1>3, Logged
    <2> QED
      BY <2>1 DEF TombsAreRows, TombsDelivered
  <1>4. CASE GcClear
    <2>1. /\ Rows' = Rows \ gc.batch /\ tomb' = tomb \ gc.batch /\ delivered' = delivered
          /\ \A s \in Row \ gc.batch : msglog'[s] = msglog[s]
      BY <1>4, Clears DEF GcClear
    <2> QED
      BY <2>1 DEF TombsAreRows, TombsDelivered
  <1>5. Dying \/ Start \/ Idling \/ GcSelect \/ GcCount \/ Through
          => UNCHANGED <<msglog, tomb, delivered>>
    BY Dies, Starts, Idles, Selects, Counted, Passes
  <1>6. Subscribing \/ Storing \/ UNCHANGED vars => UNCHANGED <<msglog, tomb, delivered>>
    BY DEF Subscribing, Subscribe, Unsubscribe, Touch, Storing, Store, vars
  <1> QED
    BY <1>1, <1>2, <1>3, <1>4, <1>5, <1>6, Cases DEF collects

\* Only the collector takes objects away, and only those that rows of the batch,
\* all of them tombstones, name.
LEMMA KeptStep == ASSUME IInv, [Next]_vars PROVE UndeliveredMailKept'
  <1> Object \ delivered \subseteq object
    BY DEF IInv, UndeliveredMailKept
  <1>1. CASE object' = object /\ delivered \subseteq delivered'
    BY <1>1 DEF UndeliveredMailKept
  <1>2. CASE Through
    <2>1. PICK M \in SUBSET gc.todo : object' = object \ {m.object : m \in M}
      BY <1>2, Passes
    <2>2. \A m \in gc.todo : m.object \in delivered
      BY <1>2, Passes DEF IInv, BatchIsGarbage, Messages, TombsDelivered
    <2>3. delivered' = delivered
      BY <1>2, Passes
    <2> QED
      BY <2>1, <2>2, <2>3 DEF UndeliveredMailKept
  <1>3. CASE Storing
    BY <1>3 DEF Storing, Store, UndeliveredMailKept
  <1>4. Working => object' = object /\ delivered \subseteq delivered'
    BY Works
  <1>5. Dying \/ Start \/ Idling \/ GcSelect \/ GcClear \/ GcCount
          => UNCHANGED <<object, delivered>>
    BY Dies, Starts, Idles, Selects, Clears, Counted
  <1>6. Subscribing \/ UNCHANGED vars \/ (\E r \in Row, m \in Message : Log(r, m))
          => UNCHANGED <<object, delivered>>
    BY DEF Subscribing, Subscribe, Unsubscribe, Touch, Log, vars
  <1> QED
    BY <1>1, <1>2, <1>3, <1>4, <1>5, <1>6, Cases DEF collects

LEMMA WorkStep == ASSUME IInv, [Next]_vars PROVE WorkIsPending' /\ WorkedByOne'
  <1> /\ \A w \in Worker : worker[w].pc = "work" => worker[w].row \in Pending
      /\ WorkedByOne /\ worker \in [Worker -> WorkerType]
    BY DEF IInv, WorkIsPending, Typed
  <1>1. ASSUME worker' = worker, Pending \subseteq Pending' PROVE WorkIsPending' /\ WorkedByOne'
    BY <1>1 DEF WorkIsPending, WorkedByOne
  <1>2. CASE UNCHANGED <<worker, msglog, tomb>>
    BY <1>1, <1>2 DEF Pending, Rows
  <1>3. CASE Dying
    BY <1>3, Dies, Resting DEF WorkIsPending, WorkedByOne
  <1>4. CASE Working
    <2>1. Rows' = Rows
      BY <1>4, Works DEF Rows
    <2>2. PICK w \in Worker, x \in WorkerType :
            /\ worker' = [worker EXCEPT ![w] = x]
            /\ \/ x.pc = "idle" /\ tomb' = tomb
               \/ x.pc = "count" /\ worker[w].pc = "work" /\ tomb' = tomb \union {worker[w].row}
               \/ /\ x.pc = "work" /\ x.row \in Pending /\ tomb' = tomb
                  /\ \A v \in Worker : worker[v].row # x.row
      BY <1>4, Works
    <2>3. \A v \in Worker : worker'[v] = IF v = w THEN x ELSE worker[v]
      BY <2>2
    <2>4. ASSUME NEW v \in Worker, worker'[v].pc = "work" PROVE worker'[v].row \in Pending'
      <3>1. CASE v = w
        BY <2>1, <2>2, <2>3, <2>4, <3>1 DEF Pending
      <3>2. CASE v # w
        <4>1. worker[v].pc = "work" /\ worker[v].row \in Pending /\ worker'[v] = worker[v]
          BY <2>3, <2>4, <3>2
        <4>2. worker[w].pc = "work" => worker[v].row # worker[w].row
          BY <3>2, <4>1 DEF WorkedByOne
        <4> QED
          BY <2>1, <2>2, <4>1, <4>2 DEF Pending
      <3> QED
        BY <3>1, <3>2
    <2>5. WorkedByOne'
      BY <2>2, <2>3 DEF WorkedByOne
    <2> QED
      BY <2>4, <2>5 DEF WorkIsPending
  <1>5. ASSUME NEW r \in Row, NEW m \in Message, Log(r, m) PROVE WorkIsPending' /\ WorkedByOne'
    BY <1>1, <1>5, Logged DEF Pending
  <1>6. CASE GcClear
    BY <1>1, <1>6, Clears DEF Pending
  <1>7. Start \/ Idling \/ GcSelect \/ GcCount \/ Through => UNCHANGED <<worker, msglog, tomb>>
    BY Starts, Idles, Selects, Counted, Passes
  <1>8. Subscribing \/ Storing \/ UNCHANGED vars => UNCHANGED <<worker, msglog, tomb>>
    BY DEF Subscribing, Subscribe, Unsubscribe, Touch, Storing, Store, vars
  <1> QED
    BY <1>2, <1>3, <1>4, <1>5, <1>6, <1>7, <1>8, Cases DEF collects

\* The batch and its topics stay what they were selected as.
LEMMA BatchStep == ASSUME IInv, [Next]_vars PROVE BatchIsGarbage'
  <1> DEFINE OK(g) == /\ g.batch \subseteq tomb
                      /\ g.todo \subseteq Messages(g.batch)
                      /\ g.clients \subseteq Topics(Messages(g.batch))
             Passing(g) == g.pc \in {"clients", "buckets"}
  <1> Passing(gc) => OK(gc)
    BY DEF IInv, BatchIsGarbage
  <1>1. CASE ~Passing(gc')
    BY <1>1 DEF BatchIsGarbage
  <1>2. CASE UNCHANGED <<msglog, tomb>> /\ Passing(gc') /\ OK(gc')
    BY <1>2 DEF BatchIsGarbage, Messages
  <1>3. CASE UNCHANGED <<msglog, tomb, gc>>
    BY <1>3 DEF BatchIsGarbage, Messages, IInv
  <1>4. Start \/ Subscribing \/ Storing \/ UNCHANGED vars => UNCHANGED <<msglog, tomb, gc>>
    BY Starts DEF Subscribing, Subscribe, Unsubscribe, Touch, Storing, Store, vars
  <1>5. Dying \/ Idling \/ GcClear \/ GcCount => ~Passing(gc')
    BY Dies, Idles, Clears, Counted, Resting
  <1>6. GcSelect => ~Passing(gc') \/ (UNCHANGED <<msglog, tomb>> /\ Passing(gc') /\ OK(gc'))
    BY Selects, Resting
  <1>7. Through => UNCHANGED <<msglog, tomb>> /\ Passing(gc') /\ OK(gc')
    BY Passes
  <1>8. Found => Passing(gc') /\ OK(gc')
    BY Finds DEF Topics
  <1>9. Asking => gc' = gc
    BY DEF Asking
  <1>10. CASE Working
    <2>1. \E w \in Worker : tomb' = tomb \/ tomb' = tomb \union {worker[w].row}
      BY <1>10, Works
    <2>2. msglog' = msglog /\ (gc' = gc \/ ~Passing(gc')) /\ tomb \subseteq tomb'
      BY <1>10, <2>1, Works, Resting
    <2> QED
      BY <2>2 DEF BatchIsGarbage, Messages
  <1>11. ASSUME NEW r \in Row, NEW m \in Message, Log(r, m) PROVE BatchIsGarbage'
    <2>1. /\ gc' = gc /\ tomb' = tomb /\ r \notin tomb
          /\ \A s \in Row \ {r} : msglog'[s] = msglog[s]
      BY <1>11, Logged
    <2> SUFFICES ASSUME Passing(gc) PROVE BatchIsGarbage'
      BY <2>1 DEF BatchIsGarbage
    <2>2. gc.batch \subseteq Row \ {r} /\ OK(gc)
      BY <2>1 DEF IInv, Typed
    <2>3. Messages(gc.batch)' = Messages(gc.batch)
      BY <2>1, <2>2 DEF Messages
    <2> QED
      BY <2>1, <2>2, <2>3 DEF BatchIsGarbage
  <1> QED
    BY <1>1, <1>2, <1>3, <1>4, <1>5, <1>6, <1>7, <1>8, <1>9, <1>10, <1>11, Cases
\* A worker that retires a row is counted as long as tombCount does not have it.
LEMMA CountStep == ASSUME IInv, [Next]_vars PROVE TombsCounted'
  <1> DEFINE Extra(g) == IF g.pc = "count" THEN Cardinality(g.batch) ELSE 0
             Sum == tombCount + Cardinality(Counting) + missed
  <1>0. /\ phase = "up" => Sum = Cardinality(tomb) + Extra(gc)
        /\ tomb \in SUBSET Row /\ gc.batch \in SUBSET Row /\ tombCount \in Int /\ missed \in Nat
        /\ worker \in [Worker -> WorkerType]
    BY DEF IInv, Typed, GcType, TombsCounted
  <1>1. /\ IsFiniteSet(Counting) /\ Cardinality(Counting) \in Nat
        /\ IsFiniteSet(tomb) /\ Cardinality(tomb) \in Nat
        /\ IsFiniteSet(gc.batch) /\ Cardinality(gc.batch) \in Nat
    <2>1. Counting \in SUBSET Worker
      BY DEF Counting
    <2> QED
      BY <1>0, <2>1, Constants, Finite, FS_Subset, FS_CardinalityType
  <1>2. CASE phase' # "up"
    BY <1>2 DEF TombsCounted
  <1>3. CASE /\ UNCHANGED <<phase, tombCount, worker, missed, tomb>>
             /\ gc' = gc \/ (gc.pc # "count" /\ gc'.pc # "count")
    BY <1>0, <1>3 DEF TombsCounted, Counting
  <1>4. CASE Start
    <2>1. Counting' = {} /\ gc'.pc # "count"
      BY <1>4, Starts, Resting DEF Counting, IInv, Asleep
    <2>2. tomb' = tomb /\ tombCount' + missed' = Cardinality(tomb) /\ tombCount' \in Int /\ missed' \in Nat
      BY <1>4, Starts
    <2> QED
      BY <1>1, <2>1, <2>2, FS_EmptySet DEF TombsCounted
  <1>5. CASE Working
    <2>1. phase = "up" /\ phase' = "up" /\ missed' = missed /\ Extra(gc') = Extra(gc)
      BY <1>5, Works, Resting
    <2>2. PICK w \in Worker, x \in WorkerType :
            /\ worker' = [worker EXCEPT ![w] = x]
            /\ \/ /\ x.pc # "count" /\ worker[w].pc # "count" /\ UNCHANGED <<tomb, tombCount>>
               \/ /\ x.pc = "count" /\ worker[w].pc = "work"
                  /\ tomb' = tomb \union {worker[w].row} /\ tombCount' = tombCount
               \/ /\ x.pc = "idle" /\ worker[w].pc = "count"
                  /\ tombCount' = tombCount + 1 /\ tomb' = tomb
      BY <1>5, Works
    <2>3. \A v \in Worker : worker'[v] = IF v = w THEN x ELSE worker[v]
      BY <1>0, <2>2
    <2>4. CASE x.pc # "count" /\ worker[w].pc # "count" /\ UNCHANGED <<tomb, tombCount>>
      <3>1. Counting' = Counting
        BY <2>3, <2>4 DEF Counting
      <3> QED
        BY <1>0, <1>1, <2>1, <2>4, <3>1 DEF TombsCounted
    <2>5. CASE /\ x.pc = "count" /\ worker[w].pc = "work"
               /\ tomb' = tomb \union {worker[w].row} /\ tombCount' = tombCount
      <3>1. Counting' = Counting \union {w} /\ w \notin Counting
        BY <2>3, <2>5 DEF Counting
      <3>2. Cardinality(Counting') = Cardinality(Counting) + 1
        BY <1>1, <3>1, FS_AddElement
      <3>3. worker[w].row \notin tomb
        BY <2>5 DEF IInv, WorkIsPending, Pending
      <3>4. Cardinality(tomb') = Cardinality(tomb) + 1
        BY <1>1, <2>5, <3>3, FS_AddElement
      <3> QED
        BY <1>0, <1>1, <2>1, <2>5, <3>2, <3>4 DEF TombsCounted
    <2>6. CASE /\ x.pc = "idle" /\ worker[w].pc = "count"
               /\ tombCount' = tombCount + 1 /\ tomb' = tomb
      <3>1. Counting' = Counting \ {w} /\ w \in Counting
        BY <2>3, <2>6 DEF Counting
      <3>2. Cardinality(Counting') = Cardinality(Counting) - 1
        BY <1>1, <3>1, FS_RemoveElement
      <3> QED
        BY <1>0, <1>1, <2>1, <2>6, <3>2 DEF TombsCounted
    <2> QED
      BY <2>2, <2>4, <2>5, <2>6
  <1>6. CASE GcClear
    <2>1. /\ phase = "up" /\ gc.pc = "buckets" /\ gc.batch \subseteq tomb /\ tomb' = tomb \ gc.batch
          /\ gc'.pc = "count" /\ gc'.batch = gc.batch /\ UNCHANGED <<worker, tombCount, missed>>
      BY <1>6, Clears
    <2>2. Cardinality(tomb') = Cardinality(tomb) - Cardinality(gc.batch)
      <3>1. tomb \cap gc.batch = gc.batch
        BY <2>1
      <3>2. Cardinality(tomb \ gc.batch) = Cardinality(tomb) - Cardinality(tomb \cap gc.batch)
        BY <1>1, FS_Difference
      <3> QED
        BY <2>1, <3>1, <3>2
    <2>3. Counting' = Counting
      BY <2>1 DEF Counting
    <2> QED
      BY <1>0, <1>1, <2>1, <2>2, <2>3 DEF TombsCounted
  <1>7. CASE GcCount
    <2>1. /\ phase = "up" /\ gc.pc = "count" /\ gc'.pc # "count"
          /\ tombCount' = tombCount - Cardinality(gc.batch) /\ UNCHANGED <<tomb, worker, missed>>
      BY <1>7, Counted, Resting
    <2>2. Counting' = Counting
      BY <2>1 DEF Counting
    <2> QED
      BY <1>0, <1>1, <2>1, <2>2 DEF TombsCounted
  <1> DEFINE Same == /\ UNCHANGED <<phase, tombCount, worker, missed, tomb>>
                     /\ gc' = gc \/ (gc.pc # "count" /\ gc'.pc # "count")
  <1>8. Dying => phase' # "up"
    BY Dies
  <1>9. Idling \/ GcSelect \/ Through => Same
    BY Idles, Selects, Passes, Resting
  <1>10. Subscribing \/ Storing \/ (\E r \in Row, m \in Message : Log(r, m)) \/ UNCHANGED vars => Same
    BY Logged DEF Subscribing, Subscribe, Unsubscribe, Touch, Storing, Store, vars
  <1>11. /\ Found /\ collects /\ UNCHANGED <<msglog, tomb, object, tombCount, canDelete>> => Same
         /\ Asking /\ collects /\ UNCHANGED <<msglog, tomb, object, tombCount>> => Same
    BY Finds DEF Asking, collects
  <1> QED
    BY <1>2, <1>3, <1>4, <1>5, <1>6, <1>7, <1>8, <1>9, <1>10, <1>11, Cases

LEMMA InitIInv == ASSUME Init PROVE IInv
  <1>1. Typed /\ Asleep /\ WorkIsPending /\ WorkedByOne
    BY Resting DEF Init, Typed, Versionings, Asleep, WorkIsPending, WorkedByOne
  <1>2. TombsAreRows /\ TombsCounted /\ BatchIsGarbage /\ TombsDelivered /\ UndeliveredMailKept
    BY Resting DEF Init, TombsAreRows, TombsCounted, BatchIsGarbage, TombsDelivered,
                   UndeliveredMailKept, Rows
  <1> QED
    BY <1>1, <1>2 DEF IInv

LEMMA StepIInv == ASSUME IInv, [Next]_vars PROVE IInv'
  BY TypedStep, AsleepStep, TombsStep, KeptStep, WorkStep, BatchStep, CountStep DEF IInv

----------------------------------------------------------------------------
(* The theorems *)

\* The inductive invariant: the three properties, with the types, that the process
\* leaves nothing behind when it ends, that a tombstone's mail was delivered, and
\* that a row is worked on by one worker and pending as long (the matter of Pipeline).
THEOREM Inductive == Spec => []IInv
  <1>1. Init => IInv
    BY InitIInv
  <1>2. IInv /\ [Next]_vars => IInv'
    BY StepIInv
  <1> QED
    BY <1>1, <1>2, PTL DEF Spec

\* The variables of the collector, the database and the buckets keep their types.
THEOREM TypeCorrect == Spec => []TypeOK
  <1>1. IInv => TypeOK
    BY DEF IInv, Typed, TypeOK, Versionings, WorkerType, GcType
  <1> QED
    BY <1>1, Inductive, PTL

\* tombCount is the number of tombstones, up to what workers and the collector are
\* about to add and subtract and what was missed at the start.
THEOREM CountIsRight == Spec => []TombsCounted
  <1>1. IInv => TombsCounted
    BY DEF IInv
  <1> QED
    BY <1>1, Inductive, PTL

\* temp.gcready never has the row of a message that was logged meanwhile, although
\* SQLite uses the rowids of deleted rows again, and toDelete has what these rows
\* name, wherever the pass is.
THEOREM OnlyGarbage == Spec => []BatchIsGarbage
  <1>1. IInv => BatchIsGarbage
    BY DEF IInv
  <1> QED
    BY <1>1, Inductive, PTL

\* runGCProc never deletes the mail that no message delivered yet, wherever a pass
\* ended, and although several rows may name one object.
THEOREM MailKept == Spec => []UndeliveredMailKept
  <1>1. IInv => UndeliveredMailKept
    BY DEF IInv
  <1> QED
    BY <1>1, Inductive, PTL

=============================================================================
