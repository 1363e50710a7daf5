---------------------------- MODULE Configuration ----------------------------
(***************************************************************************)
(* The configuration of sesrcvr: a table that SetConfig writes and Run     *)
(* reads, two values of it cached for the garbage collector, the address   *)
(* Run listens on, and the url that EditSub subscribes with.               *)
(*                                                                         *)
(* SetConfig (a goroutine of the control server for each call) and Run do  *)
(* not exclude each other: Run reads the table key by key, then fills the  *)
(* caches that SetConfig may have filled with something newer.  SetConfig  *)
(* commits first and tells the others afterwards: the cached values, the   *)
(* collector's timer (a send nobody may receive), the goroutine that waits *)
(* for a good configuration (a channel of one), its caller.                *)
(***************************************************************************)
EXTENDS Integers, Sequences, SequencesExt, TLC

CONSTANTS
  Call,              \* concurrent calls of SetConfig
  Request,           \* what they may ask for: functions from some of Key
  DefaultPeriod,     \* what stands for a missing scan period
  DefaultThreshold,  \* and for a missing threshold
  Missing            \* no value

\* The keys in the order validateConf reads them.
Order == <<"url", "address", "period", "threshold">>
Key   == {"url", "address", "period", "threshold"}

\* What validateUserConf lets pass.
ASSUME ConfigurationConstants ==
  /\ DefaultPeriod \in Nat \ {0} /\ DefaultThreshold \in Nat \ {0}
  /\ Missing \notin Nat
  /\ \A in \in Request :
       /\ DOMAIN in \subseteq Key
       /\ \A k \in DOMAIN in : in[k] # Missing
       /\ "period" \in DOMAIN in => in["period"] \in Nat \ {0}
       /\ "threshold" \in DOMAIN in => in["threshold"] \in Nat

VARIABLES
  table,      \* the table config: a value or Missing per key
  row,        \* the table has a row of the subscription
  endpoint,   \* the url (without the uuid) the row was subscribed with, or Missing
  epState,    \* SNSEndpoint.epState
  run,        \* where Run is, and the epConfig it has read so far
  confInit,   \* confInitCh holds an element
  listening,  \* the address of httpListener
  cached,     \* scanPeriod and collectThreshold, 0 when unset
  gc,         \* where runGCProc is, and the period its timer was set to
  edit,       \* where EditSub is, and the url it read
  call,       \* where each call of SetConfig is, its request, whether it set a new address
  lock,       \* _cfgLock: permits taken, calls that wait
  answer,     \* history: what the last call that changed the address was told
  refused,    \* history: Run's last attempt failed in a call, not for the table
  broken      \* history: a call left the queue of _cfgLock to release it

process == <<epState, run, confInit, listening, cached, gc, edit, call, lock, broken>>
store   == <<table, row, endpoint>>
vars    == <<store, process, answer, refused>>

----------------------------------------------------------------------------
NoConf == [k \in Key |-> Missing]
Idle   == [pc |-> "idle", in |-> <<>>, moved |-> FALSE]

PeriodOf(t)    == IF t["period"] = Missing THEN DefaultPeriod ELSE t["period"]
ThresholdOf(t) == IF t["threshold"] = Missing THEN DefaultThreshold ELSE t["threshold"]

\* checkAll: the keys that have no default.
Complete(t) == t["url"] # Missing /\ t["address"] # Missing

Init ==
  /\ table = NoConf /\ row = FALSE /\ endpoint = Missing
  /\ epState = "stopped" /\ run = [pc |-> "off", conf |-> NoConf]
  /\ confInit = FALSE /\ listening = Missing
  /\ cached = [period |-> 0, threshold |-> 0]
  /\ gc = [pc |-> "off", armed |-> 0]
  /\ edit = [pc |-> "idle", url |-> Missing]
  /\ call = [c \in Call |-> Idle]
  /\ lock = [cur |-> 0, waiters |-> <<>>]
  /\ answer = "nothing" /\ refused = FALSE /\ broken = FALSE

\* The process is gone; the tables are not.
Down ==
  /\ epState' = "stopped" /\ run' = [pc |-> "off", conf |-> NoConf]
  /\ confInit' = FALSE /\ listening' = Missing
  /\ cached' = [period |-> 0, threshold |-> 0]
  /\ gc' = [pc |-> "off", armed |-> 0]
  /\ edit' = [pc |-> "idle", url |-> Missing]
  /\ call' = [c \in Call |-> Idle]
  /\ lock' = [cur |-> 0, waiters |-> <<>>]
  /\ answer' = "nothing" /\ refused' = FALSE /\ broken' = FALSE
  /\ UNCHANGED store

\* It is cancelled, killed, or another part of it fails.
Die == epState # "stopped" /\ Down

----------------------------------------------------------------------------
(* Run *)

At(pc) == run.pc = pc
Goto(pc) == run' = [run EXCEPT !.pc = pc]

\* NewSNSEndpoint, which puts the first element into confInitCh, and Run.
Start ==
  /\ epState = "stopped"
  /\ epState' = "starting" /\ confInit' = TRUE /\ Goto("select")
  /\ UNCHANGED <<store, listening, cached, gc, edit, call, lock, answer,
                 refused, broken>>

\* An iteration of confCheckLoop begins.
TakeConfInit ==
  /\ At("select") /\ confInit
  /\ confInit' = FALSE /\ refused' = FALSE
  /\ run' = [pc |-> "url", conf |-> NoConf]
  /\ UNCHANGED <<store, epState, listening, cached, gc, edit, call, lock,
                 answer, broken>>

\* What validateConf keeps of what it read.
Accepted(k, v) ==
  IF v # Missing THEN v
  ELSE CASE k = "period" -> DefaultPeriod
         [] k = "threshold" -> DefaultThreshold
         [] OTHER -> Missing

\* One readConf: a missing key ends the attempt unless it has a default.
ReadKey(i) ==
  LET v == Accepted(Order[i], table[Order[i]])
  IN  /\ At(Order[i])
      /\ run' = IF v = Missing THEN [pc |-> "failed", conf |-> NoConf]
                ELSE [pc |-> IF i = Len(Order) THEN "listen" ELSE Order[i + 1],
                      conf |-> [run.conf EXCEPT ![Order[i]] = v]]
      /\ UNCHANGED <<store, epState, confInit, listening, cached, gc, edit, call,
                     lock, answer, refused, broken>>

\* The configuration is good: net.Listen, and confCheckLoop is left.
Listen ==
  /\ At("listen") /\ listening' = run.conf["address"] /\ Goto("threshold-set")
  /\ UNCHANGED <<store, epState, confInit, cached, gc, edit, call, lock,
                 answer, refused, broken>>

\* A query or net.Listen fails.
AttemptFails ==
  /\ run.pc \in Key \union {"listen"}
  /\ refused' = TRUE /\ run' = [pc |-> "failed", conf |-> NoConf]
  /\ UNCHANGED <<store, epState, confInit, listening, cached, gc, edit, call, lock,
                 answer, broken>>

\* "Waiting for config" is reported, and confCheckLoop waits again.
WaitAgain ==
  /\ At("failed") /\ Goto("select")
  /\ UNCHANGED <<store, epState, confInit, listening, cached, gc, edit, call,
                 lock, answer, refused, broken>>

\* Mutant: a plain store instead of the compare-and-swap.
SetIfUnsetPlain(old, v) == v

\* CompareAndSwap(0, v) leaves a newer value alone.
SetIfUnset(old, v) == IF old = 0 THEN v ELSE old

FillThreshold ==
  /\ At("threshold-set") /\ Goto("period-set")
  /\ cached' = [cached EXCEPT !.threshold = SetIfUnset(@, run.conf["threshold"])]
  /\ UNCHANGED <<store, epState, confInit, listening, gc, edit, call, lock,
                 answer, refused, broken>>

FillPeriod ==
  /\ At("period-set") /\ Goto("ready")
  /\ cached' = [cached EXCEPT !.period = SetIfUnset(@, run.conf["period"])]
  /\ UNCHANGED <<store, epState, confInit, listening, gc, edit, call, lock,
                 answer, refused, broken>>

\* The log is replayed in this state.
ConfigReady ==
  /\ At("ready") /\ epState = "starting" /\ epState' = "configReady"
  /\ UNCHANGED <<store, run, confInit, listening, cached, gc, edit, call, lock,
                 answer, refused, broken>>

\* The goroutines are started, runGCProc last.  Nobody receives from confInitCh
\* any more: what it holds is forgotten here.
Run ==
  /\ At("ready") /\ epState = "configReady"
  /\ epState' = "running" /\ run' = [pc |-> "serve", conf |-> NoConf]
  /\ gc' = [gc EXCEPT !.pc = "loop"] /\ confInit' = FALSE
  /\ UNCHANGED <<store, listening, cached, edit, call, lock, answer,
                 refused, broken>>

----------------------------------------------------------------------------
(* runGCProc: its select and its timer *)

NotGc == <<store, epState, run, confInit, listening, cached, edit, call, lock,
           answer, refused, broken>>

\* A pass ends; resetScanTimer loads the period at the top of the loop.
GcReset ==
  /\ gc.pc = "loop" /\ gc' = [pc |-> "armed", armed |-> cached.period]
  /\ UNCHANGED NotGc

\* Only now can a send on gcTriggerCh be received.
GcSelect == gc.pc = "armed" /\ gc' = [gc EXCEPT !.pc = "select"] /\ UNCHANGED NotGc

\* Mutant: the timer goes on with the old period.
GcWakeAgain == gc.pc = "select" /\ gc' = [gc EXCEPT !.pc = "armed"] /\ UNCHANGED NotGc

\* The timer fires or a worker asks for a collection: the pass begins.
GcWake == gc.pc = "select" /\ gc' = [pc |-> "loop", armed |-> 0] /\ UNCHANGED NotGc

----------------------------------------------------------------------------
(* SetConfig *)

NotCall == <<row, endpoint, epState, run, listening, edit, refused>>
CallTo(c, pc) == call' = [call EXCEPT ![c].pc = pc]

\* Mutant: whoever returns before the end does not release.
LeaveAtOnce(c) == call' = [call EXCEPT ![c] = Idle]

\* The deferred Release is what is left to do.
Leave(c) == call' = [call EXCEPT ![c] = [Idle EXCEPT !.pc = "release"]]

Merged(in) == [k \in Key |-> IF k \in DOMAIN in THEN in[k] ELSE table[k]]
Differing(in) == {k \in DOMAIN in : table[k] # in[k]}

\* A call arrives and acquires _cfgLock or waits for it.
Acquire(c, in) ==
  /\ epState # "stopped" /\ call[c].pc = "idle"
  /\ LET free == lock.cur = 0 /\ lock.waiters = <<>>
     IN  /\ lock' = IF free THEN [lock EXCEPT !.cur = 1]
                    ELSE [lock EXCEPT !.waiters = Append(@, c)]
         /\ call' = [call EXCEPT ![c] = [pc |-> IF free THEN "begin" ELSE "wait",
                                         in |-> in, moved |-> FALSE]]
  /\ UNCHANGED <<NotCall, table, confInit, cached, gc, answer, broken>>

\* The context of a call that waits ends: Acquire's error is dropped, BeginTx
\* fails with the same context, the deferred Release is run all the same.
GiveUp(c) ==
  /\ call[c].pc = "wait" /\ Leave(c)
  /\ \E i \in DOMAIN lock.waiters :
       lock.waiters[i] = c /\ lock' = [lock EXCEPT !.waiters = RemoveAt(@, i)]
  /\ broken' = TRUE
  /\ UNCHANGED <<NotCall, table, confInit, cached, gc, answer>>

\* Mutant: no trigger protects the url.
AbortsNever(in) == FALSE

\* The triggers configRoUrl* keep the url while there are subscriptions.
Aborts(in) == "url" \in Differing(in) /\ table["url"] # Missing /\ row

\* The transaction, from BEGIN IMMEDIATE to COMMIT.
Commit(c) ==
  /\ call[c].pc = "begin" /\ ~Aborts(call[c].in)
  /\ table' = Merged(call[c].in)
  /\ call' = [call EXCEPT ![c].pc = "swap", ![c].moved = "address" \in Differing(call[c].in)]
  /\ UNCHANGED <<NotCall, confInit, cached, gc, lock, answer, broken>>

\* It fails: refused by the trigger, by a busy database, by the context.
TxFails(c) ==
  /\ call[c].pc = "begin" /\ Leave(c)
  /\ UNCHANGED <<NotCall, table, confInit, cached, gc, lock, answer, broken>>

Asks(c, k) == k \in DOMAIN call[c].in

\* scanPeriod.Swap, and the threshold follows when the period is the old one.
Swap(c) ==
  /\ call[c].pc = "swap"
  /\ LET p == call[c].in["period"]
     IN  IF Asks(c, "period")
         THEN /\ cached' = [cached EXCEPT !.period = p]
              /\ CallTo(c, IF cached.period # p THEN "trigger" ELSE "store")
         ELSE CallTo(c, "store") /\ UNCHANGED cached
  /\ UNCHANGED <<NotCall, table, confInit, gc, lock, answer, broken>>

\* A send on gcTriggerCh, dropped unless runGCProc is in its select.
Trigger(c) ==
  /\ call[c].pc = "trigger" /\ CallTo(c, "store")
  /\ gc' = IF gc.pc = "select" THEN [pc |-> "loop", armed |-> 0] ELSE gc
  /\ UNCHANGED <<NotCall, table, confInit, cached, lock, answer, broken>>

\* A threshold of 0 counts as none.
Store(c) ==
  /\ call[c].pc = "store" /\ CallTo(c, "check")
  /\ cached' = IF Asks(c, "threshold") /\ call[c].in["threshold"] # 0
               THEN [cached EXCEPT !.threshold = call[c].in["threshold"]] ELSE cached
  /\ UNCHANGED <<NotCall, table, confInit, gc, lock, answer, broken>>

\* Run has read the address it is going to listen on.
AddressRead == run.conf["address"] # Missing \/ listening # Missing

\* Mutant: confInitCh has no buffer.
WakeUpUnbuffered(c) ==
  /\ call[c].pc = "check" /\ epState \in {"starting", "configReady"}
  /\ confInit' = (confInit \/ At("select")) /\ Leave(c)
  /\ answer' = IF call[c].moved
               THEN (IF AddressRead THEN "late" ELSE "nothing") ELSE answer
  /\ UNCHANGED <<NotCall, table, cached, gc, lock, broken>>

\* Not running: wake confCheckLoop.
WakeUp(c) ==
  /\ call[c].pc = "check" /\ epState \in {"starting", "configReady"}
  /\ confInit' = TRUE /\ Leave(c)
  /\ answer' = IF call[c].moved
               THEN (IF AddressRead THEN "late" ELSE "nothing") ELSE answer
  /\ UNCHANGED <<NotCall, table, cached, gc, lock, broken>>

\* Mutant: a new address is not looked for among the changes.
NeedRestartNever(c) == FALSE

\* Running: the caller is told of a new address.
NeedRestart(c) == call[c].moved

Reply(c) ==
  /\ call[c].pc = "check" /\ epState = "running" /\ Leave(c)
  /\ answer' = IF NeedRestart(c) THEN "restart" ELSE answer
  /\ UNCHANGED <<NotCall, table, confInit, cached, gc, lock, broken>>

\* semaphore.Release: the longest waiting call is next; without a permit taken
\* it panics, and no handler of the control server recovers.
Release(c) ==
  /\ call[c].pc = "release"
  /\ IF lock.cur = 0 THEN Down
     ELSE /\ call' = [d \in Call |->
                        IF d = c THEN Idle
                        ELSE IF lock.waiters # <<>> /\ d = Head(lock.waiters)
                             THEN [call[d] EXCEPT !.pc = "begin"] ELSE call[d]]
          /\ lock' = IF lock.waiters = <<>> THEN [lock EXCEPT !.cur = 0]
                     ELSE [lock EXCEPT !.waiters = Tail(@)]
          /\ UNCHANGED <<NotCall, table, confInit, cached, gc, answer, broken>>

----------------------------------------------------------------------------
(* EditSub and RemoveSub of one topic, which take turns in withTopic *)

NotEdit == <<table, epState, run, confInit, listening, cached, gc, call, lock,
             answer, refused, broken>>

\* The transaction; whoever sent credentials for an unconfirmed row goes on.
EditRow ==
  /\ epState = "running" /\ edit.pc = "idle"
  /\ row' = TRUE /\ edit' = [edit EXCEPT !.pc = "read"]
  /\ UNCHANGED <<NotEdit, endpoint>>

\* validateDBConf
EditRead ==
  /\ edit.pc = "read" /\ edit' = [pc |-> "subscribe", url |-> table["url"]]
  /\ UNCHANGED <<NotEdit, row, endpoint>>

EditSubscribe ==
  /\ edit.pc = "subscribe" /\ edit' = [pc |-> "idle", url |-> Missing]
  /\ endpoint' \in {endpoint, edit.url}
  /\ UNCHANGED <<NotEdit, row>>

\* Another subscription of the topic is another row.
RemoveSub ==
  /\ epState = "running" /\ edit.pc = "idle" /\ row
  /\ row' = FALSE /\ endpoint' = Missing
  /\ UNCHANGED <<NotEdit, edit>>

----------------------------------------------------------------------------
RunStep ==
  \/ TakeConfInit \/ (\E i \in DOMAIN Order : ReadKey(i)) \/ Listen \/ WaitAgain
  \/ FillThreshold \/ FillPeriod \/ ConfigReady \/ Run
GcStep == GcReset \/ GcSelect \/ GcWake
SetConfig(c) ==
  Commit(c) \/ TxFails(c) \/ Swap(c) \/ Trigger(c) \/ Store(c) \/ WakeUp(c)
  \/ Reply(c) \/ Release(c)
EditStep == EditRead \/ EditSubscribe

Next ==
  \/ Start \/ Die \/ AttemptFails \/ RunStep \/ GcStep
  \/ \E c \in Call : SetConfig(c) \/ GiveUp(c) \/ \E in \in Request : Acquire(c, in)
  \/ EditRow \/ EditStep \/ RemoveSub

Spec == Init /\ [][Next]_vars

\* The goroutines run.  Nobody has to start the process, call, or give up.
FairSpec ==
  /\ Spec
  /\ WF_vars(RunStep) /\ WF_vars(GcStep)
  /\ \A c \in Call : WF_vars(SetConfig(c))

----------------------------------------------------------------------------
(* Properties *)

\* The types, and which part of the process has been started when.
TypeOK ==
  /\ DOMAIN table = Key /\ row \in BOOLEAN
  /\ table["period"] \in (Nat \ {0}) \union {Missing}
  /\ table["threshold"] \in Nat \union {Missing}
  /\ epState \in {"stopped", "starting", "configReady", "running"}
  /\ DOMAIN run.conf = Key
  /\ run.pc \in Key \union {"off", "select", "failed", "listen", "threshold-set", "period-set",
                            "ready", "serve"}
  /\ confInit \in BOOLEAN /\ refused \in BOOLEAN /\ broken \in BOOLEAN
  /\ cached \in [period : Nat, threshold : Nat]
  /\ gc.pc \in {"off", "loop", "armed", "select"}
  /\ gc.pc \in {"armed", "select"} => gc.armed \in Nat \ {0}
  /\ edit.pc \in {"idle", "read", "subscribe"}
  /\ \A c \in Call :
       /\ call[c].pc \in {"idle", "wait", "begin", "swap", "trigger", "store", "check",
                          "release"}
       /\ call[c].pc \notin {"idle", "release"} => call[c].in \in Request
  /\ lock.cur \in {0, 1} /\ lock.waiters \in Seq(Call)

Nobody(pcs) == \A c \in Call : call[c].pc \notin pcs
Holding == {"begin", "swap", "trigger", "store", "check", "release"}

\* _cfgLock has one holder at a time, is free when it has none, and has a queue
\* only behind a holder, wherever calls fail, until a call that waits gives up: no
\* call waits for a permit nobody will release.
PermitOwned ==
  ~broken =>
    /\ \A c, d \in Call : call[c].pc \in Holding /\ call[d].pc \in Holding => c = d
    /\ lock.cur = 0 => Nobody({"wait"} \union Holding)
    /\ lock.cur = 1 => ~Nobody(Holding)
    /\ \A c \in Call : call[c].pc = "wait" => \E i \in DOMAIN lock.waiters : lock.waiters[i] = c

\* Once Run has filled them, the cached values are those of the table, unless a
\* call is between its commit and its update of the cache, although Run read
\* the table before and may overwrite nothing.  A threshold of 0 in the table is
\* not cached, and a call that released the lock of another breaks the order.
CacheFollowsTable ==
  run.pc \in {"ready", "serve"} /\ ~broken =>
    /\ Nobody({"swap"}) => cached.period = PeriodOf(table)
    /\ Nobody({"swap", "trigger", "store"}) /\ table["threshold"] # 0
         => cached.threshold = ThresholdOf(table)

\* confCheckLoop never waits while the table holds what it waits for, unless a
\* call that is going to wake it is under way or the attempt failed for another
\* reason: the wakeup that SetConfig drops on a full channel is not lost.
NoLostWakeup ==
  At("select") /\ Complete(table) /\ Nobody({"swap", "trigger", "store", "check"})
    => confInit \/ refused

\* A subscription was made with the url that is in the table, although EditSub
\* reads the url after its own transaction and while SetConfig may run.
SubscribedUrl == row => endpoint \in {Missing, table["url"]}

\* When the address in the table is not the one sesrcvr listens on, whoever set
\* it was told that a restart is needed, or set it before epState was Running.
AddressKnown ==
  epState = "running" /\ Nobody({"swap", "trigger", "store", "check"})
  /\ listening # table["address"] => answer \in {"restart", "late"}

\* A complete table ends the wait for one.
ValidTableRuns ==
  (epState = "starting" /\ Complete(table)) ~> (epState # "starting" \/ refused)

\* A new period reaches the collector's timer, although the send that announces
\* it is dropped while the collector is not in its select.
PeriodTakesEffect ==
  (gc.pc # "off" /\ gc.armed # cached.period) ~> (gc.armed = cached.period)

----------------------------------------------------------------------------
(* What the code does not keep *)

\* cli.go:73: a timeout is one "for the operation".
TimeoutEndsOnlyTheCall ==
  \A c \in Call : call[c].pc = "release" => lock.cur = 1

\* cli.go:246: "Some changes require a restart to take effect." is printed.
RestartAnnounced ==
  epState = "running" /\ Nobody({"swap", "trigger", "store", "check"})
  /\ listening # table["address"] => answer = "restart"

\* ep_server.go:1818: "Update cache and server state as needed."
ThresholdCached ==
  epState = "running" /\ Nobody({"swap", "trigger", "store"}) /\ ~broken
    => cached.threshold = ThresholdOf(table)
=============================================================================
