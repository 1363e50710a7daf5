------------------------ MODULE ConfigurationProofs ------------------------
(***************************************************************************)
(* The safety of the configuration, for every number of concurrent calls   *)
(* and every set of requests.                                              *)
(***************************************************************************)
EXTENDS Configuration, SequenceTheorems, TLAPS

Value == {Missing} \union Nat \union UNION {{in[k] : k \in DOMAIN in} : in \in Request}

RunType  == [pc : Key \union {"off", "select", "failed", "listen", "threshold-set", "period-set",
                              "ready", "serve"},
             conf : [Key -> Value]]
GcType   == [pc : {"off", "loop", "armed", "select"}, armed : Nat]
EditType == [pc : {"idle", "read", "subscribe"}, url : Value]
CallPc   == {"idle", "wait", "begin", "swap", "trigger", "store", "check", "release"}
CallType == [pc : CallPc, in : Request \union {<<>>}, moved : BOOLEAN]

\* The domains that TypeOK leaves out because the model checker does not need them.
Typed ==
  /\ table \in [Key -> Value]
  /\ table["period"] \in (Nat \ {0}) \union {Missing}
  /\ table["threshold"] \in Nat \union {Missing}
  /\ row \in BOOLEAN /\ endpoint \in Value
  /\ epState \in {"stopped", "starting", "configReady", "running"}
  /\ run \in RunType /\ gc \in GcType /\ edit \in EditType
  /\ confInit \in BOOLEAN /\ refused \in BOOLEAN /\ broken \in BOOLEAN
  /\ listening \in Value
  /\ cached \in [period : Nat, threshold : Nat]
  /\ call \in [Call -> CallType]
  /\ \A c \in Call : call[c].pc \notin {"idle", "release"} => call[c].in \in Request
  /\ lock \in [cur : {0, 1}, waiters : Seq(Call)]

\* Who is in the queue of _cfgLock waits, and is there once.
Queued ==
  /\ \A i \in DOMAIN lock.waiters : call[lock.waiters[i]].pc = "wait"
  /\ \A i, j \in DOMAIN lock.waiters : lock.waiters[i] = lock.waiters[j] => i = j

Filled == {"ready", "serve"}

\* Where Run is decides what the process has: the state it shows, the collector,
\* what of the configuration has been read.
Phases ==
  /\ run.pc = "off" => epState = "stopped"
  /\ run.pc = "serve" <=> epState = "running"
  /\ run.pc = "ready" => epState \in {"starting", "configReady"}
  /\ run.pc \notin {"off", "ready", "serve"} => epState = "starting"
  /\ gc.pc # "off" => run.pc = "serve"
  /\ gc.pc \in {"armed", "select"} => gc.armed # 0
  /\ run.pc \in {"threshold", "listen", "threshold-set", "period-set"}
       => run.conf["period"] \in Nat \ {0}
  /\ run.pc \in {"listen", "threshold-set"} => run.conf["threshold"] \in Nat
  /\ run.pc \in {"period", "threshold", "listen"} => run.conf["address"] # Missing
  /\ run.pc \in {"threshold-set", "period-set"} \union Filled => listening # Missing
  /\ run.pc \in {"off", "select", "failed", "url"} => listening = Missing /\ run.conf = NoConf
  /\ run.pc \in Key \union {"listen"} => listening = Missing
  /\ run.pc \in Filled => cached.period # 0

----------------------------------------------------------------------------
(* The lock and the cached values *)

Updating == {"swap", "trigger", "store", "check"}

\* _cfgLock excludes, as long as nobody releases what is not his.
OneHolder ==
  /\ \A c, d \in Call : call[c].pc \in Holding /\ call[d].pc \in Holding => c = d
  /\ lock.cur = 0 => Nobody(Holding)

\* A call that has committed and not told everybody yet finds its values in the table.
RequestInTable ==
  \A c \in Call : call[c].pc \in {"swap", "trigger", "store"} =>
    \A k \in DOMAIN call[c].in : table[k] = call[c].in[k]

PeriodOnItsWay    == \E c \in Call : call[c].pc = "swap" /\ Asks(c, "period")
ThresholdOnItsWay == \E c \in Call : call[c].pc \in {"swap", "trigger", "store"} /\ Asks(c, "threshold")

\* What is cached, and what Run is about to cache if nothing is, is the table's
\* value, or a call is going to replace it.
PeriodFollows ==
  \/ PeriodOnItsWay
  \/ /\ cached.period # 0 => cached.period = PeriodOf(table)
     /\ cached.period = 0 /\ run.pc \in {"threshold", "listen", "threshold-set", "period-set"}
          => run.conf["period"] = PeriodOf(table)

ThresholdFollows ==
  \/ ThresholdOnItsWay
  \/ table["threshold"] = 0
  \/ /\ cached.threshold # 0 => cached.threshold = ThresholdOf(table)
     /\ cached.threshold = 0 /\ run.pc \in {"listen", "threshold-set"}
          => run.conf["threshold"] = ThresholdOf(table)
     /\ run.pc \in {"period-set"} \union Filled => cached.threshold # 0

CacheInv == ~broken => OneHolder /\ RequestInTable /\ PeriodFollows /\ ThresholdFollows

----------------------------------------------------------------------------
(* The wakeup, the url, the address *)

\* An attempt that failed found the table incomplete, or failed by itself.
WakeupInv ==
  run.pc \in {"select", "failed"} /\ Complete(table) /\ Nobody(Updating)
    => confInit \/ refused

\* What EditSub has read is still in the table, because the row was there before.
UrlInv ==
  /\ SubscribedUrl
  /\ ~row => endpoint = Missing
  /\ edit.pc # "idle" => row
  /\ edit.pc = "subscribe" => edit.url \in {Missing, table["url"]}

\* The address that Run listens on, or is going to.
Address == IF listening # Missing THEN listening ELSE run.conf["address"]

AddressInv ==
  Address \notin {Missing, table["address"]} =>
    \/ \E c \in Call : call[c].pc \in Updating /\ call[c].moved
    \/ answer \in {"restart", "late"}

IInv == Typed /\ Queued /\ Phases /\ CacheInv /\ WakeupInv /\ UrlInv /\ AddressInv
----------------------------------------------------------------------------
(* Types *)

LEMMA Values ==
  /\ Missing \in Value /\ Nat \subseteq Value
  /\ \A in \in Request : \A k \in DOMAIN in : in[k] \in Value
  BY DEF Value

\* A waiter leaves the queue: those behind it move up.
LEMMA RemoveAtIs ==
  ASSUME NEW S, NEW s \in Seq(S), NEW i \in DOMAIN s
  PROVE  /\ RemoveAt(s, i) \in Seq(S) /\ Len(RemoveAt(s, i)) = Len(s) - 1
         /\ \A j \in 1 .. Len(s) - 1 : RemoveAt(s, i)[j] = IF j < i THEN s[j] ELSE s[j + 1]
  <1>1. i \in 1 .. Len(s) /\ Len(s) \in Nat /\ \A j \in 1 .. Len(s) : s[j] \in S
    OBVIOUS
  <1>2. /\ SubSeq(s, 1, i - 1) \in Seq(S) /\ Len(SubSeq(s, 1, i - 1)) = i - 1
        /\ \A j \in 1 .. i - 1 : SubSeq(s, 1, i - 1)[j] = s[j]
    <2>1. 1 \in Int /\ i - 1 \in Int /\ \A j \in 1 .. (i - 1) : s[j] \in S
      BY <1>1
    <2> QED
      BY <1>1, <2>1, SubSeqProperties
  <1>3. /\ SubSeq(s, i + 1, Len(s)) \in Seq(S) /\ Len(SubSeq(s, i + 1, Len(s))) = Len(s) - i
        /\ \A j \in 1 .. Len(s) - i : SubSeq(s, i + 1, Len(s))[j] = s[i + j]
    <2>1. i + 1 \in Int /\ Len(s) \in Int /\ \A j \in (i + 1) .. Len(s) : s[j] \in S
      BY <1>1
    <2> QED
      BY <1>1, <2>1, SubSeqProperties
  <1> DEFINE p == SubSeq(s, 1, i - 1)
             q == SubSeq(s, i + 1, Len(s))
  <1>4. RemoveAt(s, i) = p \o q
    BY DEF RemoveAt
  <1> HIDE DEF p, q
  <1>5. /\ p \in Seq(S) /\ Len(p) = i - 1 /\ \A j \in 1 .. i - 1 : p[j] = s[j]
        /\ q \in Seq(S) /\ Len(q) = Len(s) - i /\ \A j \in 1 .. Len(s) - i : q[j] = s[i + j]
    BY <1>2, <1>3 DEF p, q
  <1>6. /\ p \o q \in Seq(S) /\ Len(p \o q) = Len(p) + Len(q)
        /\ \A j \in 1 .. Len(p) + Len(q) :
             (p \o q)[j] = IF j <= Len(p) THEN p[j] ELSE q[j - Len(p)]
    BY <1>5, ConcatProperties
  <1>7. Len(p) + Len(q) = Len(s) - 1
    BY <1>1, <1>5
  <1>8. ASSUME NEW j \in 1 .. Len(s) - 1
        PROVE  (p \o q)[j] = IF j < i THEN s[j] ELSE s[j + 1]
    <2>1. CASE j < i
      <3>1. j <= Len(p) /\ j \in 1 .. i - 1
        BY <1>1, <1>5, <2>1
      <3> QED
        BY <1>5, <1>6, <1>7, <2>1, <3>1
    <2>2. CASE ~(j < i)
      <3> DEFINE n == j - (i - 1)
      <3>1. n \in 1 .. Len(s) - i /\ i + n = j + 1 /\ ~(j <= Len(p)) /\ j - Len(p) = n
        BY <1>1, <1>5, <2>2
      <3> HIDE DEF n
      <3>2. (p \o q)[j] = q[n]
        BY <1>6, <1>7, <3>1
      <3> QED
        BY <1>5, <2>2, <3>1, <3>2
    <2> QED
      BY <2>1, <2>2
  <1> QED
    BY <1>4, <1>6, <1>7, <1>8

\* What a commit leaves in the table.
LEMMA MergedTyped ==
  ASSUME Typed, NEW in \in Request
  PROVE  /\ Merged(in) \in [Key -> Value]
         /\ Merged(in)["period"] \in (Nat \ {0}) \union {Missing}
         /\ Merged(in)["threshold"] \in Nat \union {Missing}
  BY Values, ConfigurationConstants DEF Typed, Merged, Key

\* A call that enters, leaves or goes on.
LEMMA CallTyped ==
  ASSUME Typed, NEW c \in Call
  PROVE  /\ call[c] \in CallType
         /\ [Idle EXCEPT !.pc = "release"] \in CallType /\ Idle \in CallType
  BY DEF Typed, CallType, CallPc, Idle

\* A call whose pc changes.
LEMMA GoesOn ==
  ASSUME Typed, NEW c \in Call, NEW pc \in CallPc, CallTo(c, pc)
  PROVE  /\ call' \in [Call -> CallType]
         /\ \A d \in Call : call'[d].in = call[d].in /\ call'[d].moved = call[d].moved
         /\ \A d \in Call : call'[d].pc = IF d = c THEN pc ELSE call[d].pc
  BY DEF Typed, CallTo, CallType

\* A process that was not started is well typed.
LEMMA OffTyped ==
  /\ NoConf \in [Key -> Value] /\ NoConf["period"] = Missing /\ NoConf["threshold"] = Missing
  /\ [pc |-> "off", conf |-> NoConf] \in RunType
  /\ [pc |-> "off", armed |-> 0] \in GcType
  /\ [pc |-> "idle", url |-> Missing] \in EditType
  /\ [c \in Call |-> Idle] \in [Call -> CallType] /\ Idle.pc = "idle"
  /\ [cur |-> 0, waiters |-> <<>>] \in [cur : {0, 1}, waiters : Seq(Call)]
  BY Values DEF NoConf, RunType, GcType, EditType, CallType, CallPc, Idle, Key

LEMMA DownTyped == ASSUME Typed, Down PROVE Typed'
  BY OffTyped, Values DEF Typed, Down, store

LEMMA InitTyped == ASSUME Init PROVE Typed
  <1>1. /\ table \in [Key -> Value]
        /\ table["period"] = Missing /\ table["threshold"] = Missing
    BY OffTyped DEF Init
  <1>2. run \in RunType /\ gc \in GcType /\ edit \in EditType
    BY OffTyped DEF Init
  <1>3. /\ call \in [Call -> CallType] /\ \A c \in Call : call[c].pc = "idle"
        /\ lock \in [cur : {0, 1}, waiters : Seq(Call)]
    BY OffTyped DEF Init
  <1>4. row \in BOOLEAN /\ confInit \in BOOLEAN /\ refused \in BOOLEAN /\ broken \in BOOLEAN
    BY DEF Init
  <1>5. /\ endpoint \in Value /\ listening \in Value
        /\ epState \in {"stopped", "starting", "configReady", "running"}
        /\ cached \in [period : Nat, threshold : Nat]
    BY Values DEF Init
  <1> QED
    BY <1>1, <1>2, <1>3, <1>4, <1>5 DEF Typed

\* What Run keeps of a key it read.
LEMMA AcceptedTyped ==
  ASSUME Typed, NEW k \in Key
  PROVE  /\ Accepted(k, table[k]) \in Value
         /\ k = "period" => Accepted(k, table[k]) \in Nat \ {0}
         /\ k = "threshold" => Accepted(k, table[k]) \in Nat
  BY Values, ConfigurationConstants DEF Typed, Accepted, Key

LEMMA RunTyped ==
  ASSUME IInv, RunStep \/ Start \/ AttemptFails
  PROVE  Typed'
  <1> USE DEF IInv, At, Goto, store
  <1>1. CASE Start \/ TakeConfInit \/ AttemptFails \/ WaitAgain \/ ConfigReady \/ Run
    <2>1. run' \in RunType
      BY <1>1, OffTyped DEF Typed, Start, TakeConfInit, AttemptFails, WaitAgain, ConfigReady,
                            Run, RunType, Key
    <2>2. gc' \in GcType
      BY <1>1 DEF Typed, Start, TakeConfInit, AttemptFails, WaitAgain, ConfigReady, Run, GcType
    <2> QED
      BY <1>1, <2>1, <2>2 DEF Typed, Start, TakeConfInit, AttemptFails, WaitAgain, ConfigReady, Run
  <1>2. ASSUME NEW i \in DOMAIN Order, ReadKey(i) PROVE Typed'
    <2>1. i \in 1 .. 4 /\ Order[i] \in Key /\ (i # 4 => Order[i + 1] \in Key)
      BY <1>2 DEF Order, Key
    <2>2. Accepted(Order[i], table[Order[i]]) \in Value
      BY <2>1, AcceptedTyped
    <2>3. run' \in RunType
      BY <1>2, <2>1, <2>2, Values DEF Typed, ReadKey, RunType, NoConf, Order
    <2> QED
      BY <1>2, <2>3 DEF Typed, ReadKey
  <1>3. CASE Listen
    BY <1>3 DEF Typed, Listen, RunType, Key
  <1>4. CASE FillThreshold \/ FillPeriod
    BY <1>4 DEF Typed, Phases, FillThreshold, FillPeriod, SetIfUnset, RunType
  <1> QED
    BY <1>1, <1>2, <1>3, <1>4 DEF RunStep

LEMMA OtherTyped ==
  ASSUME IInv, GcStep \/ EditRow \/ EditStep \/ RemoveSub
  PROVE  Typed'
  <1>1. CASE GcStep
    BY <1>1 DEF IInv, Typed, GcStep, GcReset, GcSelect, GcWake, NotGc, GcType, store
  <1>2. CASE EditRow \/ EditRead \/ EditSubscribe \/ RemoveSub
    <2>1. edit' \in EditType
      BY <1>2, Values DEF IInv, Typed, EditRow, EditRead, EditSubscribe, RemoveSub, EditType, Key
    <2>2. row' \in BOOLEAN /\ endpoint' \in Value
      BY <1>2, Values DEF IInv, Typed, EditRow, EditRead, EditSubscribe, RemoveSub, EditType
    <2> QED
      BY <1>2, <2>1, <2>2 DEF IInv, Typed, EditRow, EditRead, EditSubscribe, RemoveSub, NotEdit
  <1> QED
    BY <1>1, <1>2 DEF EditStep

LEMMA SetConfigTyped ==
  ASSUME IInv, NEW c \in Call, SetConfig(c) \/ GiveUp(c) \/ \E in \in Request : Acquire(c, in)
  PROVE  Typed'
  <1> USE DEF IInv, NotCall
  <1> call[c] \in CallType /\ [Idle EXCEPT !.pc = "release"] \in CallType
    BY CallTyped
  <1>1. ASSUME NEW in \in Request, Acquire(c, in) PROVE Typed'
    <2>1. call' \in [Call -> CallType]
      BY <1>1 DEF Typed, Acquire, CallType, CallPc
    <2>2. \A d \in Call : call'[d].pc \notin {"idle", "release"} => call'[d].in \in Request
      BY <1>1 DEF Typed, Acquire
    <2>3. lock' \in [cur : {0, 1}, waiters : Seq(Call)]
      <3>1. Append(lock.waiters, c) \in Seq(Call)
        BY DEF Typed
      <3>2. lock' \in {[lock EXCEPT !.cur = 1], [lock EXCEPT !.waiters = Append(lock.waiters, c)]}
        BY <1>1 DEF Acquire
      <3> QED
        BY <3>1, <3>2 DEF Typed
    <2> QED
      BY <1>1, <2>1, <2>2, <2>3 DEF Typed, Acquire
  <1>2. CASE Commit(c)
    <2>1. call[c].in \in Request
      BY <1>2 DEF Typed, Commit
    <2>2. call' \in [Call -> CallType]
      <3> DEFINE moved == "address" \in Differing(call[c].in)
      <3>1. moved \in BOOLEAN
        OBVIOUS
      <3>2. call' = [call EXCEPT ![c].pc = "swap", ![c].moved = moved]
        BY <1>2 DEF Commit
      <3> HIDE DEF moved
      <3> QED
        BY <3>1, <3>2 DEF Typed, CallType, CallPc
    <2>3. \A d \in Call : call'[d].pc \notin {"idle", "release"} => call'[d].in \in Request
      BY <1>2, <2>1 DEF Typed, Commit, CallType
    <2> QED
      BY <1>2, <2>1, <2>2, <2>3, MergedTyped DEF Typed, Commit
  <1>3. CASE TxFails(c) \/ GiveUp(c) \/ WakeUp(c) \/ Reply(c)
    <2>1. call' \in [Call -> CallType]
      BY <1>3 DEF Typed, TxFails, GiveUp, WakeUp, Reply, Leave
    <2>2. \A d \in Call : call'[d].pc \notin {"idle", "release"} => call'[d].in \in Request
      BY <1>3 DEF Typed, TxFails, GiveUp, WakeUp, Reply, Leave, Idle
    <2>3. lock' \in [cur : {0, 1}, waiters : Seq(Call)]
      BY <1>3, RemoveAtIs DEF Typed, TxFails, GiveUp, WakeUp, Reply
    <2> QED
      BY <1>3, <2>1, <2>2, <2>3 DEF Typed, TxFails, GiveUp, WakeUp, Reply
  <1>4. CASE Swap(c) \/ Trigger(c) \/ Store(c)
    <2>1. PICK pc \in {"trigger", "store", "check"} : CallTo(c, pc)
      BY <1>4 DEF Swap, Trigger, Store
    <2>2. /\ call' \in [Call -> CallType]
          /\ \A d \in Call : call'[d].pc \notin {"idle", "release"} => call'[d].in \in Request
      <3>1. pc \in CallPc /\ call[c].pc \notin {"idle", "release"}
        BY <1>4, <2>1 DEF CallPc, Swap, Trigger, Store
      <3> QED
        BY <2>1, <3>1, GoesOn DEF Typed
    <2>3. cached' \in [period : Nat, threshold : Nat]
      <3>1. call[c].in \in Request
        BY <1>4 DEF Typed, Swap, Trigger, Store
      <3> QED
        BY <1>4, <3>1, ConfigurationConstants DEF Typed, Swap, Trigger, Store, Asks
    <2>4. gc' \in GcType
      BY <1>4 DEF Typed, Swap, Trigger, Store, GcType
    <2> QED
      BY <1>4, <2>2, <2>3, <2>4 DEF Typed, Swap, Trigger, Store
  <1>5. CASE Release(c)
    <2>1. CASE lock.cur = 0
      BY <1>5, <2>1, DownTyped DEF Release
    <2>2. CASE lock.cur # 0 /\ lock.waiters = <<>>
      <3>1. call' = [d \in Call |-> IF d = c THEN Idle ELSE call[d]]
        BY <1>5, <2>2 DEF Release
      <3>2. /\ call' \in [Call -> CallType]
            /\ \A d \in Call : call'[d].pc \notin {"idle", "release"} => call'[d].in \in Request
        BY <3>1, CallTyped DEF Typed, Idle
      <3> QED
        BY <1>5, <2>2, <3>2 DEF Typed, Release
    <2>3. CASE lock.cur # 0 /\ lock.waiters # <<>>
      <3>1. /\ Head(lock.waiters) \in Call /\ call[Head(lock.waiters)].pc = "wait"
            /\ Tail(lock.waiters) \in Seq(Call)
        BY <2>3 DEF Typed, Queued
      <3>2. call' = [d \in Call |-> IF d = c THEN Idle
                                    ELSE IF d = Head(lock.waiters)
                                         THEN [call[d] EXCEPT !.pc = "begin"] ELSE call[d]]
        BY <1>5, <2>3 DEF Release
      <3>3. \A d \in Call : [call[d] EXCEPT !.pc = "begin"] \in CallType
        BY DEF Typed, CallType, CallPc
      <3>4. call' \in [Call -> CallType]
        BY <3>2, <3>3, CallTyped DEF Typed
      <3>5. \A d \in Call : call'[d].pc \notin {"idle", "release"} => call'[d].in \in Request
        BY <3>1, <3>2 DEF Typed, CallType, Idle
      <3> QED
        BY <1>5, <2>3, <3>1, <3>4, <3>5 DEF Typed, Release
    <2> QED
      BY <2>1, <2>2, <2>3
  <1> QED
    BY <1>1, <1>2, <1>3, <1>4, <1>5 DEF SetConfig

----------------------------------------------------------------------------
(* What the groups of actions leave alone *)

RunMoves == RunStep \/ Start \/ AttemptFails
EditMoves == EditRow \/ EditStep \/ RemoveSub
\* A call goes on and keeps its place in the lock.
Advances(c) == Commit(c) \/ TxFails(c) \/ Swap(c) \/ Trigger(c) \/ Store(c) \/ WakeUp(c) \/ Reply(c)

LEMMA RunFrame == RunMoves => UNCHANGED <<table, row, endpoint, edit, call, lock, answer, broken>>
  BY DEF RunMoves, RunStep, Start, AttemptFails, TakeConfInit, ReadKey, Listen, WaitAgain,
         FillThreshold, FillPeriod, ConfigReady, Run, store

LEMMA GcFrame ==
  GcStep => UNCHANGED <<table, row, endpoint, epState, run, confInit, listening, cached, edit, call,
                        lock, answer, refused, broken>>
  BY DEF GcStep, GcReset, GcSelect, GcWake, NotGc, store

LEMMA EditFrame ==
  EditMoves => UNCHANGED <<table, epState, run, confInit, listening, cached, gc, call, lock, answer,
                           refused, broken>>
  BY DEF EditMoves, EditRow, EditStep, EditRead, EditSubscribe, RemoveSub, NotEdit

LEMMA AdvanceFrame ==
  ASSUME IInv, NEW c \in Call, Advances(c)
  PROVE  /\ UNCHANGED <<row, endpoint, epState, run, listening, edit, refused, lock, broken>>
         /\ \A d \in Call \ {c} : call'[d] = call[d]
         /\ call[c].pc \in {"begin", "swap", "trigger", "store", "check"}
         /\ call'[c].pc \in {"swap", "trigger", "store", "check", "release"}
  <1>1. call[c] \in CallType
    BY CallTyped DEF IInv
  <1>2. CASE Commit(c)
    BY <1>1, <1>2 DEF Commit, NotCall, IInv, Typed, CallType
  <1>3. CASE TxFails(c) \/ WakeUp(c) \/ Reply(c)
    BY <1>1, <1>3 DEF TxFails, WakeUp, Reply, Leave, NotCall, IInv, Typed, Idle
  <1>4. CASE Swap(c) \/ Trigger(c) \/ Store(c)
    BY <1>1, <1>4 DEF Swap, Trigger, Store, CallTo, NotCall, IInv, Typed, CallType
  <1> QED
    BY <1>2, <1>3, <1>4 DEF Advances

\* A call that gives up its place in the queue.
LEMMA GiveUpFrame ==
  ASSUME IInv, NEW c \in Call, GiveUp(c)
  PROVE  /\ UNCHANGED <<row, endpoint, epState, run, listening, edit, refused, table, confInit,
                         cached, gc, answer>>
         /\ \A d \in Call \ {c} : call'[d] = call[d]
         /\ call[c].pc = "wait" /\ call'[c].pc = "release" /\ call'[c].moved = FALSE
         /\ broken' = TRUE
  BY DEF GiveUp, Leave, NotCall, IInv, Typed, Idle

\* A call arrives.
LEMMA AcquireFrame ==
  ASSUME IInv, NEW c \in Call, NEW in \in Request, Acquire(c, in)
  PROVE  /\ UNCHANGED <<row, endpoint, epState, run, listening, edit, refused, table, confInit,
                         cached, gc, answer, broken>>
         /\ \A d \in Call \ {c} : call'[d] = call[d]
         /\ call[c].pc = "idle" /\ call'[c].moved = FALSE
         /\ \/ call'[c].pc = "begin" /\ lock.cur = 0 /\ lock' = [lock EXCEPT !.cur = 1]
            \/ call'[c].pc = "wait" /\ lock' = [lock EXCEPT !.waiters = Append(@, c)]
  BY DEF Acquire, NotCall, IInv, Typed

\* The lock is handed on.
LEMMA ReleaseFrame ==
  ASSUME IInv, NEW c \in Call, Release(c), lock.cur # 0
  PROVE  /\ UNCHANGED <<row, endpoint, epState, run, listening, edit, refused, table, confInit,
                         cached, gc, answer, broken>>
         /\ call[c].pc = "release"
         /\ \/ /\ lock.waiters = <<>> /\ lock' = [lock EXCEPT !.cur = 0]
               /\ \A d \in Call : call'[d] = IF d = c THEN Idle ELSE call[d]
            \/ \E h \in Call :
                 /\ lock.waiters # <<>> /\ h = Head(lock.waiters) /\ call[h].pc = "wait"
                 /\ lock' = [lock EXCEPT !.waiters = Tail(@)]
                 /\ \A d \in Call : call'[d] = IF d = c THEN Idle
                                               ELSE IF d = h THEN [call[d] EXCEPT !.pc = "begin"]
                                               ELSE call[d]
  <1>1. CASE lock.waiters = <<>>
    BY <1>1 DEF Release, NotCall
  <1>2. CASE lock.waiters # <<>>
    <2>1. Head(lock.waiters) \in Call /\ call[Head(lock.waiters)].pc = "wait"
      BY <1>2 DEF IInv, Typed, Queued
    <2> QED
      BY <1>2, <2>1 DEF Release, NotCall
  <1> QED
    BY <1>1, <1>2

\* Every step is one of these.
LEMMA Cases ==
  ASSUME [Next]_vars
  PROVE  \/ UNCHANGED vars \/ Down \/ RunMoves \/ GcStep \/ EditMoves
         \/ \E c \in Call : \/ Advances(c) \/ GiveUp(c) \/ \E in \in Request : Acquire(c, in)
                            \/ Release(c) /\ lock.cur # 0
  BY DEF Next, Die, RunMoves, EditMoves, SetConfig, Advances, Release

LEMMA TypedStep == ASSUME IInv, [Next]_vars PROVE Typed'
  <1>1. CASE UNCHANGED vars
    BY <1>1 DEF IInv, Typed, vars, store, process
  <1>2. CASE Down
    BY <1>2, DownTyped DEF IInv
  <1>3. CASE RunMoves \/ GcStep \/ EditMoves
    BY <1>3, RunTyped, OtherTyped DEF RunMoves, EditMoves
  <1>4. ASSUME NEW c \in Call, \/ Advances(c) \/ GiveUp(c) \/ \E in \in Request : Acquire(c, in)
                              \/ Release(c)
        PROVE  Typed'
    BY <1>4, SetConfigTyped DEF Advances, SetConfig
  <1> QED
    BY <1>1, <1>2, <1>3, <1>4, Cases

----------------------------------------------------------------------------
(* The lock *)

LEMMA QueuedStep == ASSUME IInv, [Next]_vars PROVE Queued'
  <1> lock.waiters \in Seq(Call) /\ lock = [cur |-> lock.cur, waiters |-> lock.waiters]
    BY DEF IInv, Typed
  <1>1. CASE UNCHANGED <<call, lock>>
    BY <1>1 DEF IInv, Queued
  <1>2. CASE Down
    BY <1>2 DEF Down, Queued
  <1>3. ASSUME NEW c \in Call, Advances(c) PROVE Queued'
    <2>1. \A i \in DOMAIN lock.waiters : lock.waiters[i] # c
      BY <1>3, AdvanceFrame DEF IInv, Queued
    <2> QED
      BY <1>3, <2>1, AdvanceFrame DEF IInv, Queued
  <1>4. ASSUME NEW c \in Call, GiveUp(c) PROVE Queued'
    <2>1. PICK i \in DOMAIN lock.waiters :
            lock.waiters[i] = c /\ lock' = [lock EXCEPT !.waiters = RemoveAt(@, i)]
      BY <1>4 DEF GiveUp
    <2> DEFINE rest == RemoveAt(lock.waiters, i)
    <2>2. /\ rest \in Seq(Call) /\ Len(rest) = Len(lock.waiters) - 1
          /\ \A j \in 1 .. Len(lock.waiters) - 1 :
               rest[j] = IF j < i THEN lock.waiters[j] ELSE lock.waiters[j + 1]
      BY RemoveAtIs
    <2>3. lock'.waiters = rest
      BY <2>1
    <2> HIDE DEF rest
    <2>4. \A j \in DOMAIN rest : \E k \in DOMAIN lock.waiters :
            k # i /\ rest[j] = lock.waiters[k] /\ k = IF j < i THEN j ELSE j + 1
      <3> SUFFICES ASSUME NEW j \in DOMAIN rest
                   PROVE  \E k \in DOMAIN lock.waiters :
                            k # i /\ rest[j] = lock.waiters[k] /\ k = IF j < i THEN j ELSE j + 1
        OBVIOUS
      <3>1. j \in 1 .. Len(lock.waiters) - 1 /\ i \in 1 .. Len(lock.waiters)
        BY <2>2
      <3>2. CASE j < i
        BY <2>2, <3>1, <3>2
      <3>3. CASE ~(j < i)
        <4>1. j + 1 \in DOMAIN lock.waiters /\ j + 1 # i
          BY <3>1, <3>3
        <4> QED
          BY <2>2, <3>1, <3>3, <4>1
      <3> QED
        BY <3>2, <3>3
    <2>5. \A j \in DOMAIN rest : rest[j] # c /\ rest[j] \in Call /\ call[rest[j]].pc = "wait"
      BY <2>1, <2>2, <2>4 DEF IInv, Queued
    <2>6. \A j, k \in DOMAIN rest : rest[j] = rest[k] => j = k
      <3> SUFFICES ASSUME NEW j \in DOMAIN rest, NEW k \in DOMAIN rest, rest[j] = rest[k]
                   PROVE  j = k
        OBVIOUS
      <3>1. PICK m \in DOMAIN lock.waiters :
              rest[j] = lock.waiters[m] /\ m = IF j < i THEN j ELSE j + 1
        BY <2>4
      <3>2. PICK n \in DOMAIN lock.waiters :
              rest[k] = lock.waiters[n] /\ n = IF k < i THEN k ELSE k + 1
        BY <2>4
      <3>3. m = n
        BY <3>1, <3>2 DEF IInv, Queued
      <3> QED
        BY <2>2, <3>1, <3>2, <3>3
    <2> QED
      <3>1. \A j \in DOMAIN rest : call'[rest[j]].pc = "wait"
        BY <1>4, <2>5, GiveUpFrame
      <3> QED
        BY <2>3, <2>6, <3>1 DEF Queued
  <1>5. ASSUME NEW c \in Call, NEW in \in Request, Acquire(c, in) PROVE Queued'
    <2>1. \A i \in DOMAIN lock.waiters :
            /\ lock.waiters[i] # c /\ lock.waiters[i] \in Call
            /\ call'[lock.waiters[i]].pc = "wait"
      <3>1. call[c].pc = "idle" /\ \A d \in Call \ {c} : call'[d] = call[d]
        BY <1>5, AcquireFrame
      <3>2. \A i \in DOMAIN lock.waiters :
              lock.waiters[i] \in Call /\ call[lock.waiters[i]].pc = "wait"
        BY DEF IInv, Queued
      <3> QED
        BY <3>1, <3>2
    <2>2. CASE lock' = [lock EXCEPT !.cur = 1]
      <3>1. lock'.waiters = lock.waiters
        BY <2>2
      <3> QED
        BY <2>1, <3>1 DEF IInv, Queued
    <2>3. CASE call'[c].pc = "wait" /\ lock' = [lock EXCEPT !.waiters = Append(@, c)]
      <3>1. lock'.waiters = Append(lock.waiters, c)
        BY <2>3
      <3> DEFINE n == Len(lock.waiters)
      <3>2. /\ DOMAIN lock'.waiters = 1 .. n + 1 /\ n \in Nat /\ DOMAIN lock.waiters = 1 .. n
            /\ lock'.waiters[n + 1] = c
            /\ \A i \in 1 .. n : lock'.waiters[i] = lock.waiters[i]
        BY <3>1
      <3> HIDE DEF n
      <3>3. \A i \in DOMAIN lock'.waiters : call'[lock'.waiters[i]].pc = "wait"
        BY <2>1, <2>3, <3>2
      <3>4. \A i, j \in DOMAIN lock'.waiters : lock'.waiters[i] = lock'.waiters[j] => i = j
        <4>1. \A i, j \in 1 .. n : lock'.waiters[i] = lock'.waiters[j] => i = j
          BY <3>2 DEF IInv, Queued
        <4>2. \A i \in 1 .. n : lock'.waiters[i] # c
          BY <2>1, <3>2
        <4>3. \A i \in 1 .. n + 1 : i = n + 1 \/ i \in 1 .. n
          BY <3>2
        <4> QED
          BY <3>2, <4>1, <4>2, <4>3
      <3> QED
        BY <3>3, <3>4 DEF Queued
    <2> QED
      BY <1>5, <2>2, <2>3, AcquireFrame
  <1>6. ASSUME NEW c \in Call, Release(c), lock.cur # 0 PROVE Queued'
    <2>1. \A i \in DOMAIN lock.waiters : lock.waiters[i] # c
      BY <1>6, ReleaseFrame DEF IInv, Queued
    <2>2. CASE lock.waiters = <<>>
      BY <1>6, <2>2, ReleaseFrame DEF Queued
    <2>3. CASE lock.waiters # <<>>
      <3>1. lock'.waiters = Tail(lock.waiters)
        BY <1>6, <2>3, ReleaseFrame
      <3>2. /\ Len(Tail(lock.waiters)) = Len(lock.waiters) - 1
            /\ \A i \in 1 .. Len(lock.waiters) - 1 :
                 /\ Tail(lock.waiters)[i] = lock.waiters[i + 1]
                 /\ i + 1 \in DOMAIN lock.waiters
        BY <2>3
      <3>3. \A i \in 1 .. Len(lock.waiters) - 1 : lock.waiters[i + 1] # Head(lock.waiters)
        BY <2>3, <3>2 DEF IInv, Queued
      <3>4. \A i \in 1 .. Len(lock.waiters) - 1 : call'[lock.waiters[i + 1]] = call[lock.waiters[i + 1]]
        <4>1. \A d \in Call : d # c /\ d # Head(lock.waiters) => call'[d] = call[d]
          BY <1>6, <2>3, ReleaseFrame
        <4>2. \A i \in 1 .. Len(lock.waiters) - 1 : lock.waiters[i + 1] \in Call
          BY <3>2
        <4> QED
          BY <2>1, <3>2, <3>3, <4>1, <4>2
      <3> QED
        BY <3>1, <3>2, <3>4 DEF IInv, Queued
    <2> QED
      BY <2>2, <2>3
  <1>7. RunMoves \/ GcStep \/ EditMoves \/ UNCHANGED vars => UNCHANGED <<call, lock>>
    BY RunFrame, GcFrame, EditFrame DEF vars, process
  <1> QED
    BY <1>1, <1>2, <1>3, <1>4, <1>5, <1>6, <1>7, Cases

----------------------------------------------------------------------------
(* Where Run is *)

\* One key has been read: the attempt ends, or goes on with the value.
LEMMA KeyRead ==
  ASSUME IInv, NEW i \in DOMAIN Order, ReadKey(i)
  PROVE  \/ run' = [pc |-> "failed", conf |-> NoConf] /\ table[Order[i]] = Missing
            /\ i \in {1, 2}
         \/ /\ run'.pc = IF i = 4 THEN "listen" ELSE Order[i + 1]
            /\ run'.conf \in [Key -> Value]
            /\ run'.conf[Order[i]] = Accepted(Order[i], table[Order[i]])
            /\ run'.conf[Order[i]] # Missing
            /\ \A k \in Key \ {Order[i]} : run'.conf[k] = run.conf[k]
  <1> DEFINE v == Accepted(Order[i], table[Order[i]])
  <1>1. i \in 1 .. 4 /\ Order[i] \in Key
    BY DEF Order, Key
  <1>2. v \in Value
    BY <1>1, AcceptedTyped DEF IInv
  <1>3. run' = IF v = Missing THEN [pc |-> "failed", conf |-> NoConf]
               ELSE [pc |-> IF i = 4 THEN "listen" ELSE Order[i + 1],
                     conf |-> [run.conf EXCEPT ![Order[i]] = v]]
    BY DEF ReadKey, Order
  <1>4. CASE v = Missing
    <2>1. table[Order[i]] = Missing
      BY <1>4 DEF Accepted
    <2>2. Order[i] \notin {"period", "threshold"}
      BY <1>1, <1>4, AcceptedTyped, ConfigurationConstants DEF IInv
    <2>3. i \in {1, 2}
      BY <1>1, <2>2 DEF Order
    <2> QED
      BY <1>3, <1>4, <2>1, <2>3
  <1>5. CASE v # Missing
    <2>1. run.conf \in [Key -> Value]
      BY DEF IInv, Typed, RunType
    <2> HIDE DEF v
    <2>2. run' = [pc |-> IF i = 4 THEN "listen" ELSE Order[i + 1],
                  conf |-> [run.conf EXCEPT ![Order[i]] = v]]
      BY <1>3, <1>5
    <2>3. /\ run'.pc = IF i = 4 THEN "listen" ELSE Order[i + 1]
          /\ run'.conf = [run.conf EXCEPT ![Order[i]] = v]
      BY <2>2
    <2>4. /\ run'.conf \in [Key -> Value] /\ run'.conf[Order[i]] = v
          /\ \A k \in Key \ {Order[i]} : run'.conf[k] = run.conf[k]
      BY <1>1, <1>2, <2>1, <2>3
    <2> QED
      BY <1>5, <2>3, <2>4 DEF v
  <1> QED
    BY <1>4, <1>5

LEMMA PhasesStep == ASSUME IInv, [Next]_vars PROVE Phases'
  <1> USE DEF At, Goto
  <1> /\ run \in RunType /\ gc \in GcType /\ cached \in [period : Nat, threshold : Nat]
    BY DEF IInv, Typed
  <1>1. CASE UNCHANGED <<epState, run, gc, listening, cached>>
    BY <1>1 DEF IInv, Phases
  <1>2. CASE Down
    BY <1>2 DEF Down, Phases, Filled, Key
  <1>3. CASE RunMoves
    <2>1. CASE Start \/ TakeConfInit \/ AttemptFails \/ WaitAgain \/ ConfigReady \/ Run
      <3>1. CASE Start
        BY <3>1 DEF IInv, Phases, Start, Filled, Key, RunType, GcType
      <3>2. CASE TakeConfInit \/ AttemptFails
        BY <3>2 DEF IInv, Phases, TakeConfInit, AttemptFails, Filled, Key, RunType
      <3>3. CASE WaitAgain \/ ConfigReady
        BY <3>3 DEF IInv, Phases, WaitAgain, ConfigReady, Filled, Key, RunType
      <3>4. CASE Run
        BY <3>4 DEF IInv, Phases, Run, Filled, Key, RunType, GcType
      <3> QED
        BY <2>1, <3>1, <3>2, <3>3, <3>4
    <2>2. ASSUME NEW i \in DOMAIN Order, ReadKey(i) PROVE Phases'
      <3>1. /\ i \in 1 .. 4 /\ run.pc = Order[i]
            /\ UNCHANGED <<epState, gc, listening, cached>>
        BY <2>2 DEF ReadKey, Order
      <3>2. Order[1] = "url" /\ Order[2] = "address" /\ Order[3] = "period" /\ Order[4] = "threshold"
        BY DEF Order
      <3>3. /\ Accepted("period", table["period"]) \in Nat \ {0}
            /\ Accepted("threshold", table["threshold"]) \in Nat
        BY AcceptedTyped DEF IInv, Key
      <3>4. epState = "starting" /\ listening = Missing /\ gc.pc = "off"
        BY <3>1, <3>2 DEF IInv, Phases, Key, GcType
      <3>5. CASE i = 1
        BY <2>2, <3>1, <3>2, <3>4, <3>5, KeyRead DEF Phases, Filled, Key
      <3>6. CASE i = 2
        BY <2>2, <3>1, <3>2, <3>4, <3>6, KeyRead DEF Phases, Filled, Key
      <3>7. CASE i = 3
        BY <2>2, <3>1, <3>2, <3>3, <3>4, <3>7, KeyRead DEF IInv, Phases, Filled, Key
      <3>8. CASE i = 4
        BY <2>2, <3>1, <3>2, <3>3, <3>4, <3>8, KeyRead DEF IInv, Phases, Filled, Key
      <3> QED
        BY <3>1, <3>5, <3>6, <3>7, <3>8
    <2>3. CASE Listen
      BY <2>3 DEF IInv, Phases, Listen, Filled, Key, RunType
    <2>4. CASE FillThreshold \/ FillPeriod
      BY <2>4 DEF IInv, Phases, FillThreshold, FillPeriod, SetIfUnset, Filled, Key, RunType
    <2> QED
      BY <1>3, <2>1, <2>2, <2>3, <2>4 DEF RunMoves, RunStep
  <1>4. CASE GcStep
    BY <1>4 DEF IInv, Phases, GcStep, GcReset, GcSelect, GcWake, NotGc, Filled, GcType
  <1>5. ASSUME NEW c \in Call, Advances(c) PROVE Phases'
    <2>1. UNCHANGED <<epState, run, listening>>
      BY <1>5, AdvanceFrame
    <2>2. cached.period # 0 => cached'.period # 0
      <3>1. Swap(c) => call[c].in \in Request
        BY DEF IInv, Typed, Swap
      <3> QED
        BY <1>5, <3>1, ConfigurationConstants DEF Advances, Commit, TxFails, Swap, Trigger, Store,
                                                  WakeUp, Reply, Asks
    <2>3. gc' = gc \/ (gc' = [pc |-> "loop", armed |-> 0] /\ gc.pc = "select")
      <3>1. CASE Trigger(c)
        BY <3>1 DEF Trigger
      <3>2. ~Trigger(c) => gc' = gc
        BY <1>5 DEF Advances, Commit, TxFails, Swap, Store, WakeUp, Reply
      <3> QED
        BY <3>1, <3>2
    <2> QED
      BY <2>1, <2>2, <2>3 DEF IInv, Phases
  <1>6. UNCHANGED vars \/ EditMoves => UNCHANGED <<epState, run, gc, listening, cached>>
    BY EditFrame DEF vars, process
  <1>7. \A c \in Call : \/ GiveUp(c) \/ (\E in \in Request : Acquire(c, in))
                        \/ Release(c) /\ lock.cur # 0
          => UNCHANGED <<epState, run, gc, listening, cached>>
    BY GiveUpFrame, AcquireFrame, ReleaseFrame
  <1> QED
    BY <1>1, <1>2, <1>3, <1>4, <1>5, <1>6, <1>7, Cases

----------------------------------------------------------------------------
(* The lock excludes *)

LEMMA HolderStep == ASSUME IInv, [Next]_vars, ~broken' PROVE OneHolder'
  <1> lock \in [cur : {0, 1}, waiters : Seq(Call)]
    BY DEF IInv, Typed
  <1>0. ASSUME ~broken PROVE OneHolder
    BY <1>0 DEF IInv, CacheInv
  <1>1. CASE UNCHANGED <<call, lock, broken>>
    BY <1>0, <1>1 DEF OneHolder, Nobody
  <1>2. CASE Down
    BY <1>2, OffTyped DEF Down, OneHolder, Nobody, Holding
  <1>3. ASSUME NEW c \in Call, Advances(c) PROVE OneHolder'
    <2>1. OneHolder /\ lock' = lock
      BY <1>0, <1>3, AdvanceFrame
    <2>2. call[c].pc \in Holding
      BY <1>3, AdvanceFrame DEF Holding
    <2>3. \A d \in Call : call'[d].pc \in Holding => call[d].pc \in Holding
      BY <1>3, <2>2, AdvanceFrame
    <2> QED
      BY <2>1, <2>2, <2>3 DEF OneHolder, Nobody
  <1>4. ASSUME NEW c \in Call, NEW in \in Request, Acquire(c, in) PROVE OneHolder'
    <2>1. OneHolder /\ \A d \in Call \ {c} : call'[d] = call[d]
      BY <1>0, <1>4, AcquireFrame
    <2>2. CASE call'[c].pc = "begin" /\ lock.cur = 0 /\ lock' = [lock EXCEPT !.cur = 1]
      BY <2>1, <2>2 DEF OneHolder, Nobody
    <2>3. CASE call'[c].pc = "wait" /\ lock' = [lock EXCEPT !.waiters = Append(@, c)]
      <3>1. call'[c].pc \notin Holding /\ lock'.cur = lock.cur
        BY <2>3 DEF Holding
      <3> QED
        BY <2>1, <3>1 DEF OneHolder, Nobody
    <2> QED
      BY <1>4, <2>2, <2>3, AcquireFrame
  <1>5. ASSUME NEW c \in Call, Release(c), lock.cur # 0 PROVE OneHolder'
    <2>1. OneHolder /\ call[c].pc = "release"
      BY <1>0, <1>5, ReleaseFrame
    <2>2. \A d \in Call \ {c} : call[d].pc \notin Holding
      BY <2>1 DEF OneHolder, Holding
    <2>3. Idle.pc \notin Holding
      BY DEF Idle, Holding
    <2>4. CASE \A d \in Call : call'[d] = IF d = c THEN Idle ELSE call[d]
      BY <2>2, <2>3, <2>4 DEF OneHolder, Nobody
    <2>5. ASSUME NEW h \in Call, lock' = [lock EXCEPT !.waiters = Tail(@)],
                 \A d \in Call : call'[d] = IF d = c THEN Idle
                                            ELSE IF d = h THEN [call[d] EXCEPT !.pc = "begin"]
                                            ELSE call[d]
          PROVE  OneHolder'
      <3>1. \A d \in Call : call'[d].pc \in Holding => d = h
        BY <2>2, <2>3, <2>5
      <3>2. lock'.cur # 0
        BY <1>5, <2>5
      <3> QED
        BY <3>1, <3>2 DEF OneHolder
    <2> QED
      BY <1>5, <2>4, <2>5, ReleaseFrame
  <1>6. UNCHANGED vars \/ RunMoves \/ GcStep \/ EditMoves => UNCHANGED <<call, lock, broken>>
    BY RunFrame, GcFrame, EditFrame DEF vars, process
  <1>7. \A c \in Call : ~GiveUp(c)
    BY GiveUpFrame
  <1> QED
    BY <1>1, <1>2, <1>3, <1>4, <1>5, <1>6, <1>7, Cases

\* While a call has the lock nobody else is where only its holder can be.
LEMMA OnlyHolder ==
  ASSUME IInv, ~broken, NEW c \in Call, call[c].pc \in Holding
  PROVE  \A d \in Call \ {c} : call[d].pc \notin Holding
  BY DEF IInv, CacheInv, OneHolder

\* Calls that arrive or leave do not change what is on its way.
LEMMA PassingBy ==
  ASSUME IInv, NEW c \in Call, \/ \E in \in Request : Acquire(c, in)
                               \/ Release(c) /\ lock.cur # 0
                               \/ GiveUp(c)
  PROVE  /\ UNCHANGED <<table, cached, run, listening, epState, confInit, refused, answer, row,
                         endpoint, edit>>
         /\ \A d \in Call : \/ call'[d] = call[d]
                            \/ call[d].pc \notin Updating /\ call'[d].pc \notin Updating
  <1> USE DEF Updating
  <1>1. ASSUME Release(c), lock.cur # 0
        PROVE \A d \in Call : \/ call'[d] = call[d]
                              \/ call[d].pc \notin Updating /\ call'[d].pc \notin Updating
    <2>1. Idle.pc = "idle" /\ call[c].pc = "release"
      BY <1>1, ReleaseFrame DEF Idle
    <2>2. \A d \in Call : [call[d] EXCEPT !.pc = "begin"].pc = "begin"
      BY DEF IInv, Typed, CallType
    <2> QED
      BY <1>1, <2>1, <2>2, ReleaseFrame
  <1> QED
    BY <1>1, GiveUpFrame, AcquireFrame, ReleaseFrame

----------------------------------------------------------------------------
(* What is cached *)

\* A call has its values in the table from its commit on.
LEMMA RequestStep == ASSUME IInv, [Next]_vars, ~broken' PROVE RequestInTable'
  <1>0. ASSUME ~broken PROVE RequestInTable
    BY <1>0 DEF IInv, CacheInv
  <1>1. CASE UNCHANGED <<call, table, broken>>
    BY <1>0, <1>1 DEF RequestInTable
  <1>2. CASE Down
    BY <1>2, OffTyped DEF Down, RequestInTable
  <1>3. ASSUME NEW c \in Call, Advances(c) PROVE RequestInTable'
    <2>0. ~broken /\ RequestInTable
      BY <1>0, <1>3, AdvanceFrame
    <2>1. \A d \in Call \ {c} : call'[d].pc \notin {"swap", "trigger", "store"}
      <3>1. call[c].pc \in Holding
        BY <1>3, AdvanceFrame DEF Holding
      <3> QED
        BY <1>3, <2>0, <3>1, AdvanceFrame, OnlyHolder DEF Holding
    <2>2. CASE Commit(c)
      <3>1. table' = Merged(call[c].in) /\ call'[c].in = call[c].in
        BY <2>2, CallTyped DEF Commit, IInv, Typed, CallType
      <3>2. DOMAIN call[c].in \subseteq Key
        BY <2>2, ConfigurationConstants DEF Commit, IInv, Typed
      <3>3. \A k \in DOMAIN call[c].in : table'[k] = call[c].in[k]
        BY <3>1, <3>2 DEF Merged
      <3> QED
        BY <2>1, <3>1, <3>3 DEF RequestInTable
    <2>3. CASE Swap(c) \/ Trigger(c) \/ Store(c)
      <3>1. table' = table /\ call'[c].in = call[c].in
            /\ call[c].pc \in {"swap", "trigger", "store"}
        BY <2>3, CallTyped DEF Swap, Trigger, Store, CallTo, IInv, Typed, CallType
      <3> QED
        BY <2>0, <2>1, <3>1 DEF RequestInTable
    <2>4. CASE TxFails(c) \/ WakeUp(c) \/ Reply(c)
      <3>1. call'[c].pc = "release"
        BY <2>4 DEF TxFails, WakeUp, Reply, Leave, Idle, IInv, Typed
      <3> QED
        BY <2>1, <3>1 DEF RequestInTable
    <2> QED
      BY <1>3, <2>2, <2>3, <2>4 DEF Advances
  <1>4. ASSUME NEW c \in Call, NEW in \in Request, Acquire(c, in) PROVE RequestInTable'
    <2>1. RequestInTable
      BY <1>0, <1>4, AcquireFrame
    <2> QED
      BY <1>4, <2>1, PassingBy DEF RequestInTable, Updating
  <1>5. ASSUME NEW c \in Call, Release(c), lock.cur # 0 PROVE RequestInTable'
    <2>1. RequestInTable
      BY <1>0, <1>5, ReleaseFrame
    <2> QED
      BY <1>5, <2>1, PassingBy DEF RequestInTable, Updating
  <1>6. UNCHANGED vars \/ RunMoves \/ GcStep \/ EditMoves => UNCHANGED <<call, table, broken>>
    BY RunFrame, GcFrame, EditFrame DEF vars, process, store
  <1>7. \A c \in Call : ~GiveUp(c)
    BY GiveUpFrame
  <1> QED
    BY <1>1, <1>2, <1>3, <1>4, <1>5, <1>6, <1>7, Cases

\* The values a table stands for.
LEMMA TableValues ==
  ASSUME IInv
  PROVE  /\ PeriodOf(table) \in Nat \ {0} /\ ThresholdOf(table) \in Nat
         /\ table["threshold"] # 0 => ThresholdOf(table) # 0
         /\ Accepted("period", table["period"]) = PeriodOf(table)
         /\ Accepted("threshold", table["threshold"]) = ThresholdOf(table)
  BY ConfigurationConstants DEF IInv, Typed, PeriodOf, ThresholdOf, Accepted

\* What Run reads is what the table holds.
LEMMA RunReads ==
  ASSUME IInv, RunMoves
  PROVE  /\ run'.pc \in {"threshold", "listen", "threshold-set", "period-set"} =>
              \/ run'.conf["period"] = PeriodOf(table)
              \/ /\ run.pc \in {"threshold", "listen", "threshold-set", "period-set"}
                 /\ run'.conf["period"] = run.conf["period"]
         /\ run'.pc \in {"listen", "threshold-set"} =>
              \/ run'.conf["threshold"] = ThresholdOf(table)
              \/ /\ run.pc \in {"listen", "threshold-set"}
                 /\ run'.conf["threshold"] = run.conf["threshold"]
  <1> run \in RunType
    BY DEF IInv, Typed
  <1>1. ASSUME NEW i \in DOMAIN Order, ReadKey(i)
        PROVE /\ run'.pc \in {"threshold", "listen", "threshold-set", "period-set"} =>
                   \/ run'.conf["period"] = PeriodOf(table)
                   \/ run.pc = "threshold" /\ run'.conf["period"] = run.conf["period"]
              /\ run'.pc \in {"listen", "threshold-set"} =>
                   run'.conf["threshold"] = ThresholdOf(table)
    <2>1. /\ i \in 1 .. 4 /\ run.pc = Order[i] /\ Order[1] = "url" /\ Order[2] = "address"
          /\ Order[3] = "period" /\ Order[4] = "threshold"
      BY <1>1 DEF ReadKey, Order, At
    <2>2. CASE i \in {1, 2}
      BY <1>1, <2>1, <2>2, KeyRead
    <2>3. CASE i = 3
      BY <1>1, <2>1, <2>3, KeyRead, TableValues
    <2>4. CASE i = 4
      BY <1>1, <2>1, <2>4, KeyRead, TableValues DEF Key
    <2> QED
      BY <2>1, <2>2, <2>3, <2>4
  <1>2. CASE Start \/ TakeConfInit \/ AttemptFails \/ WaitAgain \/ ConfigReady \/ Run
    BY <1>2 DEF Start, TakeConfInit, AttemptFails, WaitAgain, ConfigReady, Run, At, Goto, RunType
  <1>3. CASE Listen \/ FillThreshold \/ FillPeriod
    BY <1>3 DEF Listen, FillThreshold, FillPeriod, At, Goto, RunType
  <1> QED
    BY <1>1, <1>2, <1>3 DEF RunMoves, RunStep

\* What the steps of the holder do to the table, to the cached values and to itself.
LEMMA CommitDoes ==
  ASSUME IInv, NEW c \in Call, Commit(c)
  PROVE  /\ call[c].in \in Request /\ call[c].pc = "begin" /\ ~Aborts(call[c].in)
         /\ \A k \in Key : table'[k] = IF k \in DOMAIN call[c].in THEN call[c].in[k] ELSE table[k]
         /\ call'[c].pc = "swap" /\ call'[c].in = call[c].in
         /\ call'[c].moved <=> "address" \in Differing(call[c].in)
         /\ UNCHANGED <<cached, confInit, answer, gc>>
  <1> DEFINE moved == "address" \in Differing(call[c].in)
  <1>1. call' = [call EXCEPT ![c].pc = "swap", ![c].moved = moved]
    BY DEF Commit
  <1> HIDE DEF moved
  <1>2. call'[c].pc = "swap" /\ call'[c].in = call[c].in /\ call'[c].moved = moved
    BY <1>1, CallTyped DEF IInv, Typed, CallType
  <1>3. /\ call[c].pc = "begin" /\ call[c].in \in Request /\ ~Aborts(call[c].in)
        /\ table' = Merged(call[c].in) /\ UNCHANGED <<cached, confInit, answer, gc>>
    BY DEF Commit, IInv, Typed
  <1>4. \A k \in Key : Merged(call[c].in)[k] = IF k \in DOMAIN call[c].in THEN call[c].in[k] ELSE table[k]
    BY DEF Merged
  <1> QED
    BY <1>2, <1>3, <1>4 DEF moved

LEMMA SwapDoes ==
  ASSUME IInv, NEW c \in Call, Swap(c)
  PROVE  /\ call[c].in \in Request /\ call[c].pc = "swap"
         /\ call'[c].pc \in {"trigger", "store"} /\ call'[c].in = call[c].in
         /\ call'[c].moved = call[c].moved
         /\ cached' = IF Asks(c, "period") THEN [cached EXCEPT !.period = call[c].in["period"]] ELSE cached
         /\ UNCHANGED <<table, confInit, answer, gc>>
  BY CallTyped DEF Swap, CallTo, IInv, Typed, CallType

LEMMA StoreDoes ==
  ASSUME IInv, NEW c \in Call, Store(c)
  PROVE  /\ call[c].in \in Request /\ call[c].pc = "store"
         /\ call'[c].pc = "check" /\ call'[c].in = call[c].in
         /\ call'[c].moved = call[c].moved
         /\ cached' = IF Asks(c, "threshold") /\ call[c].in["threshold"] # 0
                      THEN [cached EXCEPT !.threshold = call[c].in["threshold"]] ELSE cached
         /\ UNCHANGED <<table, confInit, answer, gc>>
  BY CallTyped DEF Store, CallTo, IInv, Typed, CallType

LEMMA TriggerDoes ==
  ASSUME IInv, NEW c \in Call, Trigger(c)
  PROVE  /\ call[c].pc = "trigger" /\ call'[c].pc = "store" /\ call'[c].in = call[c].in
         /\ call'[c].moved = call[c].moved
         /\ UNCHANGED <<table, cached, confInit, answer>>
  BY CallTyped DEF Trigger, CallTo, IInv, Typed, CallType

\* It gives up, or tells Run or its caller.
LEMMA LeavingDoes ==
  ASSUME IInv, NEW c \in Call, TxFails(c) \/ WakeUp(c) \/ Reply(c)
  PROVE  /\ call'[c].pc = "release" /\ call'[c].moved = FALSE
         /\ call[c].pc \in {"begin", "check"} /\ UNCHANGED <<table, cached, gc>>
  BY DEF TxFails, WakeUp, Reply, Leave, Idle, IInv, Typed

LEMMA PeriodStep == ASSUME IInv, [Next]_vars, ~broken' PROVE PeriodFollows'
  <1> cached \in [period : Nat, threshold : Nat]
    BY DEF IInv, Typed
  <1>0. ASSUME ~broken PROVE PeriodFollows /\ RequestInTable
    BY <1>0 DEF IInv, CacheInv
  <1>1. CASE UNCHANGED <<call, table, cached, run, broken>>
    BY <1>0, <1>1 DEF PeriodFollows, PeriodOnItsWay, Asks, PeriodOf
  <1>2. CASE Down
    BY <1>2 DEF Down, PeriodFollows
  <1>3. CASE RunMoves
    <2>1. PeriodFollows /\ UNCHANGED <<call, table, broken>>
      BY <1>0, <1>3, RunFrame
    <2>2. PeriodOnItsWay' = PeriodOnItsWay /\ PeriodOf(table)' = PeriodOf(table)
      BY <2>1 DEF PeriodOnItsWay, Asks, PeriodOf
    <2>3. CASE FillPeriod
      <3>1. /\ run.pc = "period-set" /\ run'.pc = "ready"
            /\ cached'.period = IF cached.period = 0 THEN run.conf["period"] ELSE cached.period
        BY <2>3 DEF FillPeriod, SetIfUnset, At, Goto, IInv, Typed, RunType
      <3> QED
        BY <2>1, <2>2, <3>1 DEF PeriodFollows
    <2>4. CASE ~FillPeriod
      <3>1. cached'.period = cached.period
        BY <1>3, <2>4 DEF RunMoves, RunStep, Start, AttemptFails, TakeConfInit, ReadKey, Listen,
                          WaitAgain, FillThreshold, ConfigReady, Run
      <3> QED
        BY <1>3, <2>1, <2>2, <3>1, RunReads DEF PeriodFollows
    <2> QED
      BY <2>3, <2>4
  <1>4. ASSUME NEW c \in Call, Advances(c) PROVE PeriodFollows'
    <2>0. ~broken /\ PeriodFollows /\ RequestInTable /\ run' = run
      BY <1>0, <1>4, AdvanceFrame
    <2>1. \A d \in Call \ {c} : call[d].pc # "swap" /\ call'[d] = call[d]
      <3>1. call[c].pc \in Holding
        BY <1>4, AdvanceFrame DEF Holding
      <3> QED
        BY <1>4, <2>0, <3>1, AdvanceFrame, OnlyHolder DEF Holding
    <2>2. CASE Commit(c)
      <3>1. CASE Asks(c, "period")
        BY <2>2, <3>1, CommitDoes DEF PeriodFollows, PeriodOnItsWay, Asks
      <3>2. CASE ~Asks(c, "period")
        <4>1. table'["period"] = table["period"]
          BY <2>2, <3>2, CommitDoes DEF Asks, Key
        <4>2. ~PeriodOnItsWay
          BY <2>1, <2>2, CommitDoes DEF PeriodOnItsWay
        <4> QED
          BY <2>0, <2>2, <4>1, <4>2, CommitDoes DEF PeriodFollows, PeriodOf
      <3> QED
        BY <3>1, <3>2
    <2>3. CASE Swap(c)
      <3>1. CASE Asks(c, "period")
        <4>1. /\ cached'.period = call[c].in["period"] /\ table["period"] = call[c].in["period"]
              /\ table' = table
          BY <2>0, <2>3, <3>1, SwapDoes DEF RequestInTable, Asks
        <4>2. call[c].in["period"] \in Nat \ {0}
          BY <2>3, <3>1, SwapDoes, ConfigurationConstants DEF Asks
        <4>3. PeriodOf(table') = cached'.period /\ cached'.period # 0
          BY <4>1, <4>2, ConfigurationConstants DEF PeriodOf
        <4> QED
          BY <4>3 DEF PeriodFollows, PeriodOf
      <3>2. CASE ~Asks(c, "period")
        <4>1. ~PeriodOnItsWay
          BY <2>1, <3>2 DEF PeriodOnItsWay
        <4> QED
          BY <2>0, <2>3, <3>2, <4>1, SwapDoes DEF PeriodFollows, PeriodOf
      <3> QED
        BY <3>1, <3>2
    <2>4. CASE Trigger(c) \/ Store(c) \/ TxFails(c) \/ WakeUp(c) \/ Reply(c)
      <3>1. table' = table /\ cached'.period = cached.period /\ call[c].pc # "swap"
        BY <2>4, TriggerDoes, StoreDoes, LeavingDoes
      <3>2. ~PeriodOnItsWay
        BY <2>1, <3>1 DEF PeriodOnItsWay
      <3> QED
        BY <2>0, <3>1, <3>2 DEF PeriodFollows, PeriodOf
    <2> QED
      BY <1>4, <2>2, <2>3, <2>4 DEF Advances
  <1>5. ASSUME NEW c \in Call, \/ \E in \in Request : Acquire(c, in)
                               \/ Release(c) /\ lock.cur # 0
        PROVE  PeriodFollows'
    <2>1. PeriodFollows
      BY <1>0, <1>5, AcquireFrame, ReleaseFrame
    <2>2. /\ UNCHANGED <<table, cached, run>>
          /\ \A d \in Call : \/ call'[d] = call[d]
                             \/ call[d].pc # "swap" /\ call'[d].pc # "swap"
      BY <1>5, PassingBy DEF Updating
    <2>3. PeriodOnItsWay => PeriodOnItsWay'
      BY <2>2 DEF PeriodOnItsWay, Asks
    <2> QED
      BY <2>1, <2>2, <2>3 DEF PeriodFollows, PeriodOf
  <1>6. UNCHANGED vars \/ GcStep \/ EditMoves => UNCHANGED <<call, table, cached, run, broken>>
    BY GcFrame, EditFrame DEF vars, process, store
  <1>7. \A c \in Call : ~GiveUp(c)
    BY GiveUpFrame
  <1> QED
    BY <1>1, <1>2, <1>3, <1>4, <1>5, <1>6, <1>7, Cases

LEMMA ThresholdStep == ASSUME IInv, [Next]_vars, ~broken' PROVE ThresholdFollows'
  <1> cached \in [period : Nat, threshold : Nat] /\ run \in RunType
    BY DEF IInv, Typed
  <1>0. ASSUME ~broken PROVE ThresholdFollows /\ RequestInTable
    BY <1>0 DEF IInv, CacheInv
  <1>1. CASE UNCHANGED <<call, table, cached, run, broken>>
    BY <1>0, <1>1 DEF ThresholdFollows, ThresholdOnItsWay, Asks, ThresholdOf
  <1>2. CASE Down
    BY <1>2 DEF Down, ThresholdFollows, Filled
  <1>3. CASE RunMoves
    <2>1. ThresholdFollows /\ UNCHANGED <<call, table, broken>>
      BY <1>0, <1>3, RunFrame
    <2>2. ThresholdOnItsWay' = ThresholdOnItsWay /\ ThresholdOf(table)' = ThresholdOf(table)
      BY <2>1 DEF ThresholdOnItsWay, Asks, ThresholdOf
    <2>3. CASE FillThreshold
      <3>1. /\ run.pc = "threshold-set" /\ run'.pc = "period-set"
            /\ cached'.threshold = IF cached.threshold = 0 THEN run.conf["threshold"]
                                   ELSE cached.threshold
        BY <2>3 DEF FillThreshold, SetIfUnset, At, Goto, RunType
      <3> QED
        BY <2>1, <2>2, <3>1, TableValues DEF ThresholdFollows
    <2>4. CASE ~FillThreshold
      <3>1. cached'.threshold = cached.threshold
        BY <1>3, <2>4 DEF RunMoves, RunStep, Start, AttemptFails, TakeConfInit, ReadKey, Listen,
                          WaitAgain, FillPeriod, ConfigReady, Run
      <3>2. run'.pc \in {"period-set"} \union Filled => run.pc \in {"period-set"} \union Filled
        <4>1. ASSUME NEW i \in DOMAIN Order, ReadKey(i)
              PROVE  run'.pc \notin {"period-set"} \union Filled
          BY <4>1, KeyRead DEF Order, Filled
        <4>2. CASE Start \/ AttemptFails \/ TakeConfInit \/ Listen \/ WaitAgain \/ FillPeriod
                   \/ ConfigReady \/ Run
          BY <4>2 DEF Start, AttemptFails, TakeConfInit, Listen, WaitAgain, FillPeriod, ConfigReady,
                      Run, At, Goto, RunType, Filled
        <4> QED
          BY <1>3, <2>4, <4>1, <4>2 DEF RunMoves, RunStep
      <3> QED
        BY <1>3, <2>1, <2>2, <3>1, <3>2, RunReads DEF ThresholdFollows
    <2> QED
      BY <2>3, <2>4
  <1>4. ASSUME NEW c \in Call, Advances(c) PROVE ThresholdFollows'
    <2>0. ~broken /\ ThresholdFollows /\ RequestInTable /\ run' = run
      BY <1>0, <1>4, AdvanceFrame
    <2>1. \A d \in Call \ {c} : call[d].pc \notin {"swap", "trigger", "store"}
      <3>1. call[c].pc \in Holding
        BY <1>4, AdvanceFrame DEF Holding
      <3> QED
        BY <2>0, <3>1, OnlyHolder DEF Holding
    <2>2. CASE Commit(c)
      <3>1. CASE Asks(c, "threshold")
        BY <2>2, <3>1, CommitDoes DEF ThresholdFollows, ThresholdOnItsWay, Asks
      <3>2. CASE ~Asks(c, "threshold")
        <4>1. table'["threshold"] = table["threshold"]
          BY <2>2, <3>2, CommitDoes DEF Asks, Key
        <4>2. ~ThresholdOnItsWay
          BY <2>1, <2>2, CommitDoes DEF ThresholdOnItsWay
        <4> QED
          BY <2>0, <2>2, <4>1, <4>2, CommitDoes DEF ThresholdFollows, ThresholdOf
      <3> QED
        BY <3>1, <3>2
    <2>3. CASE Swap(c) \/ Trigger(c)
      <3>1. /\ table' = table /\ cached'.threshold = cached.threshold
            /\ call'[c].in = call[c].in /\ call'[c].pc \in {"trigger", "store"}
        BY <2>3, SwapDoes, TriggerDoes
      <3>2. ThresholdOnItsWay => ThresholdOnItsWay'
        BY <2>1, <3>1 DEF ThresholdOnItsWay, Asks
      <3> QED
        BY <2>0, <3>1, <3>2 DEF ThresholdFollows, ThresholdOf
    <2>4. CASE Store(c)
      <3>1. CASE Asks(c, "threshold") /\ call[c].in["threshold"] # 0
        <4>1. /\ cached'.threshold = call[c].in["threshold"] /\ table' = table
              /\ table["threshold"] = call[c].in["threshold"]
          BY <2>0, <2>4, <3>1, StoreDoes DEF RequestInTable, Asks
        <4>2. call[c].in["threshold"] \in Nat \ {0}
          BY <2>4, <3>1, StoreDoes, ConfigurationConstants DEF Asks
        <4>3. ThresholdOf(table') = cached'.threshold /\ cached'.threshold # 0
          BY <4>1, <4>2, ConfigurationConstants DEF ThresholdOf
        <4> QED
          BY <4>3 DEF ThresholdFollows, ThresholdOf
      <3>2. CASE Asks(c, "threshold") /\ call[c].in["threshold"] = 0
        BY <2>0, <2>4, <3>2, StoreDoes DEF RequestInTable, Asks, ThresholdFollows
      <3>3. CASE ~Asks(c, "threshold")
        <4>1. ~ThresholdOnItsWay
          BY <2>1, <3>3 DEF ThresholdOnItsWay
        <4> QED
          BY <2>0, <2>4, <3>3, <4>1, StoreDoes DEF ThresholdFollows, ThresholdOf
      <3> QED
        BY <3>1, <3>2, <3>3
    <2>5. CASE TxFails(c) \/ WakeUp(c) \/ Reply(c)
      <3>1. table' = table /\ cached' = cached /\ call[c].pc \in {"begin", "check"}
        BY <2>5, LeavingDoes
      <3>2. ~ThresholdOnItsWay
        BY <2>1, <3>1 DEF ThresholdOnItsWay
      <3> QED
        BY <2>0, <3>1, <3>2 DEF ThresholdFollows, ThresholdOf
    <2> QED
      BY <1>4, <2>2, <2>3, <2>4, <2>5 DEF Advances
  <1>5. ASSUME NEW c \in Call, \/ \E in \in Request : Acquire(c, in)
                               \/ Release(c) /\ lock.cur # 0
        PROVE  ThresholdFollows'
    <2>1. ThresholdFollows
      BY <1>0, <1>5, AcquireFrame, ReleaseFrame
    <2>2. /\ UNCHANGED <<table, cached, run>>
          /\ \A d \in Call : \/ call'[d] = call[d]
                             \/ /\ call[d].pc \notin {"swap", "trigger", "store"}
                                /\ call'[d].pc \notin {"swap", "trigger", "store"}
      BY <1>5, PassingBy DEF Updating
    <2>3. ThresholdOnItsWay => ThresholdOnItsWay'
      BY <2>2 DEF ThresholdOnItsWay, Asks
    <2> QED
      BY <2>1, <2>2, <2>3 DEF ThresholdFollows, ThresholdOf
  <1>6. UNCHANGED vars \/ GcStep \/ EditMoves => UNCHANGED <<call, table, cached, run, broken>>
    BY GcFrame, EditFrame DEF vars, process, store
  <1>7. \A c \in Call : ~GiveUp(c)
    BY GiveUpFrame
  <1> QED
    BY <1>1, <1>2, <1>3, <1>4, <1>5, <1>6, <1>7, Cases

LEMMA CacheStep == ASSUME IInv, [Next]_vars PROVE CacheInv'
  BY HolderStep, RequestStep, PeriodStep, ThresholdStep DEF CacheInv

----------------------------------------------------------------------------
(* The wakeup *)

LEMMA WakeupStep == ASSUME IInv, [Next]_vars PROVE WakeupInv'
  <1> run \in RunType
    BY DEF IInv, Typed
  <1>1. CASE UNCHANGED <<run, table, call, confInit, refused>>
    BY <1>1 DEF IInv, WakeupInv, Complete, Nobody
  <1>2. CASE Down
    BY <1>2 DEF Down, WakeupInv
  <1>3. CASE RunMoves
    <2>1. UNCHANGED <<table, call>>
      BY <1>3, RunFrame
    <2>2. ASSUME NEW i \in DOMAIN Order, ReadKey(i) PROVE WakeupInv'
      <3>1. /\ Order[1] = "url" /\ Order[2] = "address" /\ Order[3] = "period"
            /\ Order[4] = "threshold" /\ i \in {1, 2, 3, 4}
        BY DEF Order
      <3>2. run'.pc \in {"select", "failed"} => table[Order[i]] = Missing /\ i \in {1, 2}
        BY <2>2, <3>1, KeyRead
      <3> QED
        BY <2>1, <3>1, <3>2 DEF WakeupInv, Complete
    <2>3. CASE Start \/ TakeConfInit \/ AttemptFails
      BY <2>3 DEF Start, TakeConfInit, AttemptFails, WakeupInv, Goto, RunType
    <2>4. CASE WaitAgain
      BY <2>1, <2>4 DEF WaitAgain, WakeupInv, At, Goto, RunType, IInv, Complete, Nobody
    <2>5. CASE Listen \/ FillThreshold \/ FillPeriod \/ ConfigReady \/ Run
      BY <2>5 DEF Listen, FillThreshold, FillPeriod, ConfigReady, Run, WakeupInv, At, Goto, RunType
    <2> QED
      BY <1>3, <2>2, <2>3, <2>4, <2>5 DEF RunMoves, RunStep
  <1>4. ASSUME NEW c \in Call, Advances(c) PROVE WakeupInv'
    <2>1. CASE Commit(c) \/ Swap(c) \/ Trigger(c) \/ Store(c)
      <3>1. call'[c].pc \in Updating
        BY <2>1, CommitDoes, SwapDoes, TriggerDoes, StoreDoes DEF Updating
      <3> QED
        BY <3>1 DEF WakeupInv, Nobody
    <2>2. CASE TxFails(c)
      <3>1. UNCHANGED <<run, table, confInit, refused>> /\ call[c].pc = "begin"
        BY <2>2 DEF TxFails, NotCall
      <3>2. Nobody(Updating)' => Nobody(Updating)
        BY <1>4, <3>1, AdvanceFrame DEF Nobody, Updating
      <3> QED
        BY <3>1, <3>2 DEF IInv, WakeupInv, Complete
    <2>3. CASE WakeUp(c)
      BY <2>3 DEF WakeUp, WakeupInv
    <2>4. CASE Reply(c)
      BY <2>4 DEF Reply, NotCall, WakeupInv, IInv, Phases
    <2> QED
      BY <1>4, <2>1, <2>2, <2>3, <2>4 DEF Advances
  <1>5. ASSUME NEW c \in Call, \/ \E in \in Request : Acquire(c, in)
                               \/ Release(c) /\ lock.cur # 0
                               \/ GiveUp(c)
        PROVE  WakeupInv'
    <2>1. /\ UNCHANGED <<table, run, confInit, refused>>
          /\ \A d \in Call : call[d].pc \in Updating => call'[d].pc \in Updating
      BY <1>5, PassingBy
    <2> QED
      BY <2>1 DEF IInv, WakeupInv, Complete, Nobody
  <1>6. UNCHANGED vars \/ GcStep \/ EditMoves => UNCHANGED <<run, table, call, confInit, refused>>
    BY GcFrame, EditFrame DEF vars, process, store
  <1> QED
    BY <1>1, <1>2, <1>3, <1>4, <1>5, <1>6, Cases

----------------------------------------------------------------------------
(* The url *)

LEMMA UrlStep == ASSUME IInv, [Next]_vars PROVE UrlInv'
  <1> USE DEF UrlInv, SubscribedUrl
  <1> edit \in EditType /\ UrlInv
    BY DEF IInv, Typed
  <1>1. CASE UNCHANGED <<table, row, endpoint, edit>>
    BY <1>1
  <1>2. CASE Down
    BY <1>2 DEF Down, store
  <1>3. CASE EditMoves
    BY <1>3 DEF EditMoves, EditRow, EditStep, EditRead, EditSubscribe, RemoveSub, NotEdit, EditType
  <1>4. ASSUME NEW c \in Call, Advances(c) PROVE UrlInv'
    <2>1. UNCHANGED <<row, endpoint, edit>>
      BY <1>4, AdvanceFrame
    <2>2. row /\ table["url"] # Missing => table'["url"] = table["url"]
      <3>1. CASE Commit(c)
        <4>1. DOMAIN call[c].in \subseteq Key
          BY <3>1, CommitDoes, ConfigurationConstants
        <4> QED
          BY <3>1, <4>1, CommitDoes DEF Aborts, Differing, Key
      <3>2. ~Commit(c) => table' = table
        BY <1>4, SwapDoes, TriggerDoes, StoreDoes, LeavingDoes DEF Advances
      <3> QED
        BY <3>1, <3>2
    <2> QED
      BY <2>1, <2>2
  <1>5. UNCHANGED vars \/ RunMoves \/ GcStep => UNCHANGED <<table, row, endpoint, edit>>
    BY RunFrame, GcFrame DEF vars, process, store
  <1>6. \A c \in Call : \/ \E in \in Request : Acquire(c, in)
                        \/ Release(c) /\ lock.cur # 0
                        \/ GiveUp(c)
          => UNCHANGED <<table, row, endpoint, edit>>
    BY PassingBy
  <1> QED
    BY <1>1, <1>2, <1>3, <1>4, <1>5, <1>6, Cases

----------------------------------------------------------------------------
(* The address *)

\* Run reads the address of the table, keeps what it has, or starts again.
LEMMA RunAddress == ASSUME IInv, RunMoves PROVE Address' \in {Address, Missing, table["address"]}
  <1> USE DEF At, Goto
  <1> run \in RunType /\ NoConf["address"] = Missing
    BY DEF IInv, Typed, NoConf, Key
  <1>1. ASSUME NEW i \in DOMAIN Order, ReadKey(i)
        PROVE  Address' \in {Address, Missing, table["address"]}
    <2>1. /\ Order[1] = "url" /\ Order[2] = "address" /\ Order[3] = "period"
          /\ Order[4] = "threshold" /\ i \in {1, 2, 3, 4}
      BY DEF Order
    <2>2. listening = Missing /\ listening' = listening
      BY <1>1, <2>1 DEF ReadKey, IInv, Phases, Key
    <2>3. Accepted("address", table["address"]) = table["address"]
      BY DEF Accepted
    <2>4. run'.conf["address"] \in {run.conf["address"], Missing, table["address"]}
      BY <1>1, <2>1, <2>3, KeyRead DEF Key
    <2> QED
      BY <2>2, <2>4 DEF Address
  <1>2. CASE TakeConfInit \/ AttemptFails
    <2>1. listening' = Missing /\ run'.conf = NoConf
      BY <1>2 DEF TakeConfInit, AttemptFails, IInv, Phases
    <2> QED
      BY <2>1 DEF Address
  <1>3. CASE Listen
    <2>1. /\ run.conf["address"] # Missing /\ listening = Missing
          /\ listening' = run.conf["address"]
      BY <1>3 DEF Listen, IInv, Phases
    <2> QED
      BY <2>1 DEF Address
  <1>4. CASE Run
    <2>1. listening # Missing /\ listening' = listening
      BY <1>4 DEF Run, IInv, Phases, Filled
    <2> QED
      BY <2>1 DEF Address
  <1>5. CASE Start \/ WaitAgain \/ FillThreshold \/ FillPeriod \/ ConfigReady
    <2>1. listening' = listening /\ run'.conf = run.conf
      BY <1>5 DEF Start, WaitAgain, FillThreshold, FillPeriod, ConfigReady, RunType
    <2> QED
      BY <2>1 DEF Address
  <1> QED
    BY <1>1, <1>2, <1>3, <1>4, <1>5 DEF RunMoves, RunStep

LEMMA AddressStep == ASSUME IInv, [Next]_vars PROVE AddressInv'
  <1> AddressInv
    BY DEF IInv
  <1>1. CASE UNCHANGED <<run, listening, table, call, answer>>
    BY <1>1 DEF AddressInv, Address
  <1>2. CASE Down
    <2>1. Address' = Missing
      BY <1>2 DEF Down, Address, NoConf, Key
    <2> QED
      BY <2>1 DEF AddressInv
  <1>3. CASE RunMoves
    BY <1>3, RunFrame, RunAddress DEF AddressInv
  <1>4. ASSUME NEW c \in Call, Advances(c) PROVE AddressInv'
    <2>1. Address' = Address /\ \A d \in Call \ {c} : call'[d] = call[d]
      BY <1>4, AdvanceFrame DEF Address
    <2>2. CASE Commit(c)
      <3>1. CASE "address" \in Differing(call[c].in)
        <4>1. call'[c].pc \in Updating /\ call'[c].moved
          BY <2>2, <3>1, CommitDoes DEF Updating
        <4> QED
          BY <4>1 DEF AddressInv
      <3>2. CASE "address" \notin Differing(call[c].in)
        <4>1. table'["address"] = table["address"]
          BY <2>2, <3>2, CommitDoes DEF Differing, Key
        <4>2. call[c].pc \notin Updating /\ answer' = answer
          BY <2>2, CommitDoes DEF Updating
        <4> QED
          BY <2>1, <4>1, <4>2 DEF AddressInv
      <3> QED
        BY <3>1, <3>2
    <2>3. CASE Swap(c) \/ Trigger(c) \/ Store(c)
      <3>1. /\ table' = table /\ answer' = answer /\ call'[c].moved = call[c].moved
            /\ call'[c].pc \in Updating
        BY <2>3, SwapDoes, TriggerDoes, StoreDoes DEF Updating
      <3> QED
        BY <2>1, <3>1 DEF AddressInv
    <2>4. CASE TxFails(c)
      <3>1. table' = table /\ answer' = answer /\ call[c].pc = "begin"
        BY <2>4 DEF TxFails
      <3> QED
        BY <2>1, <3>1 DEF AddressInv, Updating
    <2>5. CASE WakeUp(c)
      <3>1. table' = table /\ run' = run /\ listening' = listening
        BY <2>5 DEF WakeUp, NotCall
      <3>2. CASE call[c].moved
        <4>1. Address = Missing \/ answer' = "late"
          BY <2>5, <3>2 DEF WakeUp, AddressRead, Address
        <4> QED
          BY <2>1, <4>1 DEF AddressInv
      <3>3. CASE ~call[c].moved
        <4>1. answer' = answer
          BY <2>5, <3>3 DEF WakeUp
        <4> QED
          BY <2>1, <3>1, <3>3, <4>1 DEF AddressInv
      <3> QED
        BY <3>2, <3>3
    <2>6. CASE Reply(c)
      <3>1. table' = table /\ answer' = IF call[c].moved THEN "restart" ELSE answer
        BY <2>6 DEF Reply, NeedRestart
      <3> QED
        BY <2>1, <3>1 DEF AddressInv
    <2> QED
      BY <1>4, <2>2, <2>3, <2>4, <2>5, <2>6 DEF Advances
  <1>5. ASSUME NEW c \in Call, \/ \E in \in Request : Acquire(c, in)
                               \/ Release(c) /\ lock.cur # 0
                               \/ GiveUp(c)
        PROVE  AddressInv'
    <2>1. /\ UNCHANGED <<table, run, listening, answer>>
          /\ \A d \in Call : call[d].pc \in Updating => call'[d] = call[d]
      BY <1>5, PassingBy
    <2> QED
      BY <2>1 DEF AddressInv, Address
  <1>6. UNCHANGED vars \/ GcStep \/ EditMoves => UNCHANGED <<run, listening, table, call, answer>>
    BY GcFrame, EditFrame DEF vars, process, store
  <1> QED
    BY <1>1, <1>2, <1>3, <1>4, <1>5, <1>6, Cases

----------------------------------------------------------------------------
(* The theorems *)

LEMMA InitIInv == Init => IInv
  <1> SUFFICES ASSUME Init PROVE IInv
    OBVIOUS
  <1>1. /\ \A c \in Call : call[c].pc = "idle"
        /\ NoConf["address"] = Missing
    BY OffTyped DEF Init, NoConf, Key
  <1>2. Queued /\ Phases
    BY DEF Init, Queued, Phases, Filled, Key
  <1>3. OneHolder /\ RequestInTable
    BY <1>1 DEF OneHolder, RequestInTable, Nobody, Holding
  <1>4. PeriodFollows /\ ThresholdFollows
    BY DEF Init, PeriodFollows, ThresholdFollows, Filled
  <1>5. WakeupInv /\ UrlInv
    BY DEF Init, WakeupInv, UrlInv, SubscribedUrl
  <1>6. AddressInv
    BY <1>1 DEF Init, AddressInv, Address
  <1> QED
    BY InitTyped, <1>2, <1>3, <1>4, <1>5, <1>6 DEF IInv, CacheInv

LEMMA StepIInv == IInv /\ [Next]_vars => IInv'
  BY TypedStep, QueuedStep, PhasesStep, CacheStep, WakeupStep, UrlStep, AddressStep DEF IInv

\* Every reachable state satisfies the inductive invariant.
THEOREM Inductive == Spec => []IInv
  BY InitIInv, StepIInv, PTL DEF Spec

\* The types, whatever the calls ask for: the period of the timer of runGCProc is
\* never 0 once it is armed (ep_server.go: resetScanTimer), which would spin.
THEOREM TypeCorrect == Spec => []TypeOK
  <1>1. IInv => TypeOK
    <2> SUFFICES ASSUME IInv PROVE TypeOK
      OBVIOUS
    <2>1. DOMAIN table = Key /\ DOMAIN run.conf = Key
      BY DEF IInv, Typed, RunType
    <2>2. run.pc \in Key \union {"off", "select", "failed", "listen", "threshold-set",
                                 "period-set", "ready", "serve"}
      BY DEF IInv, Typed, RunType
    <2>3. /\ gc.pc \in {"off", "loop", "armed", "select"}
          /\ gc.pc \in {"armed", "select"} => gc.armed \in Nat \ {0}
          /\ edit.pc \in {"idle", "read", "subscribe"}
      BY DEF IInv, Typed, Phases, GcType, EditType
    <2>4. \A c \in Call :
            /\ call[c].pc \in {"idle", "wait", "begin", "swap", "trigger", "store", "check",
                               "release"}
            /\ call[c].pc \notin {"idle", "release"} => call[c].in \in Request
      BY CallTyped DEF IInv, Typed, CallType, CallPc
    <2>5. lock.cur \in {0, 1} /\ lock.waiters \in Seq(Call)
      BY DEF IInv, Typed
    <2> QED
      BY <2>1, <2>2, <2>3, <2>4, <2>5 DEF IInv, Typed, TypeOK
  <1> QED
    BY <1>1, Inductive, PTL

\* SetConfig and Run, which do not exclude each other, leave the cached period and
\* threshold equal to those of the table, as long as no call gave up its place in
\* the queue of _cfgLock and released it all the same.
THEOREM CacheFollows == Spec => []CacheFollowsTable
  <1>1. IInv => CacheFollowsTable
    <2> SUFFICES ASSUME IInv, run.pc \in {"ready", "serve"}, ~broken
                 PROVE  /\ Nobody({"swap"}) => cached.period = PeriodOf(table)
                        /\ Nobody({"swap", "trigger", "store"}) /\ table["threshold"] # 0
                             => cached.threshold = ThresholdOf(table)
      BY DEF CacheFollowsTable
    <2>1. PeriodFollows /\ ThresholdFollows /\ cached.period # 0
      BY DEF IInv, CacheInv, Phases, Filled
    <2>2. Nobody({"swap"}) => ~PeriodOnItsWay
      BY DEF Nobody, PeriodOnItsWay
    <2>3. Nobody({"swap", "trigger", "store"}) => ~ThresholdOnItsWay
      BY DEF Nobody, ThresholdOnItsWay
    <2> QED
      BY <2>1, <2>2, <2>3 DEF PeriodFollows, ThresholdFollows, Filled
  <1> QED
    BY <1>1, Inductive, PTL

\* confCheckLoop never waits for a configuration that the table already holds and
\* nobody is going to announce.
THEOREM WakeupKept == Spec => []NoLostWakeup
  <1>1. IInv => NoLostWakeup
    BY DEF IInv, WakeupInv, NoLostWakeup, At, Updating
  <1> QED
    BY <1>1, Inductive, PTL

\* EditSub reads the url after its transaction, and yet subscribes with the one
\* that the table holds.
THEOREM UrlKept == Spec => []SubscribedUrl
  <1>1. IInv => SubscribedUrl
    BY DEF IInv, UrlInv
  <1> QED
    BY <1>1, Inductive, PTL

\* An address that Run does not listen on was set by a call whose caller was told
\* to restart, or before epState was Running.
THEOREM AddressTold == Spec => []AddressKnown
  <1>1. IInv => AddressKnown
    <2> SUFFICES ASSUME IInv, epState = "running", Nobody({"swap", "trigger", "store", "check"}),
                        listening # table["address"]
                 PROVE  answer \in {"restart", "late"}
      BY DEF AddressKnown
    <2>1. listening # Missing
      BY DEF IInv, Phases, Filled
    <2>2. Address \notin {Missing, table["address"]}
      BY <2>1 DEF Address
    <2> QED
      BY <2>2 DEF IInv, AddressInv, Nobody, Updating
  <1> QED
    BY <1>1, Inductive, PTL
----------------------------------------------------------------------------
(* The permit *)

\* What PermitOwned needs besides: a queue forms behind a holder only, and who
\* waits is in it.
Owned ==
  /\ lock.cur = 1 => ~Nobody(Holding)
  /\ lock.cur = 0 => lock.waiters = <<>>
  /\ \A c \in Call : call[c].pc = "wait" => \E i \in DOMAIN lock.waiters : lock.waiters[i] = c

PermitInv == ~broken => Owned

\* A call that goes on keeps the permit.
LEMMA OwnedAdvance ==
  ASSUME IInv, Owned, NEW c \in Call, Advances(c)
  PROVE  Owned'
  <1>1. lock' = lock /\ call[c].pc # "wait" /\ call'[c].pc \in Holding /\ call'[c].pc # "wait"
    BY AdvanceFrame DEF Holding
  <1>2. \A d \in Call \ {c} : call'[d] = call[d]
    BY AdvanceFrame
  <1>3. ~Nobody(Holding)'
    BY <1>1 DEF Nobody
  <1>4. ASSUME NEW d \in Call, call'[d].pc = "wait"
        PROVE  \E i \in DOMAIN lock'.waiters : lock'.waiters[i] = d
    <2>1. call[d].pc = "wait"
      BY <1>1, <1>2, <1>4
    <2> QED
      BY <1>1, <2>1 DEF Owned
  <1> QED
    BY <1>1, <1>3, <1>4 DEF Owned

\* A call that arrives finds the lock free and takes it, or goes to the end of
\* the queue of whoever has it.
LEMMA OwnedAcquire ==
  ASSUME IInv, Owned, NEW c \in Call, NEW in \in Request, Acquire(c, in)
  PROVE  Owned'
  <1>1. lock \in [cur : {0, 1}, waiters : Seq(Call)]
    BY DEF IInv, Typed
  <1>2. /\ \A d \in Call \ {c} : call'[d] = call[d]
        /\ call[c].pc = "idle"
    BY AcquireFrame
  <1>3. \A d \in Call : call[d].pc \in Holding => call'[d].pc \in Holding
    BY <1>2 DEF Holding
  <1>4. CASE lock.cur = 0 /\ lock.waiters = <<>>
    <2>1. call'[c].pc = "begin" /\ lock' = [lock EXCEPT !.cur = 1]
      BY <1>4 DEF Acquire, IInv, Typed
    <2>2. lock'.cur = 1 /\ lock'.waiters = lock.waiters
      BY <1>1, <2>1
    <2>3. ~Nobody(Holding)'
      BY <2>1 DEF Nobody, Holding
    <2>4. ASSUME NEW d \in Call, call'[d].pc = "wait"
          PROVE  \E i \in DOMAIN lock'.waiters : lock'.waiters[i] = d
      <3>1. call[d].pc = "wait"
        BY <1>2, <2>1, <2>4
      <3> QED
        BY <2>2, <3>1 DEF Owned
    <2> QED
      BY <2>2, <2>3, <2>4 DEF Owned
  <1>5. CASE ~(lock.cur = 0 /\ lock.waiters = <<>>)
    <2>1. lock' = [lock EXCEPT !.waiters = Append(lock.waiters, c)]
      BY <1>5 DEF Acquire
    <2>2. lock.cur = 1
      BY <1>1, <1>5 DEF Owned
    <2>3. lock'.cur = 1 /\ lock'.waiters = Append(lock.waiters, c)
      BY <1>1, <2>1, <2>2
    <2>4. ~Nobody(Holding)'
      BY <1>3, <2>2 DEF Owned, Nobody
    <2>5. /\ lock'.waiters[Len(lock.waiters) + 1] = c
          /\ Len(lock.waiters) + 1 \in DOMAIN lock'.waiters
          /\ \A i \in DOMAIN lock.waiters :
               i \in DOMAIN lock'.waiters /\ lock'.waiters[i] = lock.waiters[i]
      BY <1>1, <2>3
    <2>6. ASSUME NEW d \in Call, call'[d].pc = "wait"
          PROVE  \E i \in DOMAIN lock'.waiters : lock'.waiters[i] = d
      <3>1. CASE d = c
        BY <2>5, <3>1
      <3>2. CASE d # c
        <4>1. call[d].pc = "wait"
          BY <1>2, <2>6, <3>2
        <4>2. PICK i \in DOMAIN lock.waiters : lock.waiters[i] = d
          BY <4>1 DEF Owned
        <4> QED
          BY <2>5, <4>2
      <3> QED
        BY <3>1, <3>2
    <2> QED
      BY <2>3, <2>4, <2>6 DEF Owned
  <1> QED
    BY <1>4, <1>5

\* The permit goes to the longest waiting call, or back.
LEMMA OwnedRelease ==
  ASSUME IInv, ~broken, Owned, NEW c \in Call, Release(c), lock.cur # 0
  PROVE  Owned'
  <1>1. lock \in [cur : {0, 1}, waiters : Seq(Call)] /\ lock.cur = 1
    BY DEF IInv, Typed
  <1>2. Idle.pc = "idle"
    BY DEF Idle
  <1>3. CASE lock.waiters = <<>>
    <2>1. /\ lock' = [lock EXCEPT !.cur = 0]
          /\ \A d \in Call : call'[d] = IF d = c THEN Idle ELSE call[d]
      BY <1>3, ReleaseFrame
    <2>2. lock'.cur = 0 /\ lock'.waiters = <<>>
      BY <1>1, <1>3, <2>1
    <2>3. \A d \in Call : call[d].pc # "wait"
      BY <1>3 DEF Owned
    <2>4. \A d \in Call : call'[d].pc # "wait"
      BY <1>2, <2>1, <2>3
    <2> QED
      BY <2>2, <2>4 DEF Owned
  <1>4. CASE lock.waiters # <<>>
    <2>1. PICK h \in Call :
            /\ h = Head(lock.waiters) /\ call[h].pc = "wait"
            /\ lock' = [lock EXCEPT !.waiters = Tail(@)]
            /\ \A d \in Call : call'[d] = IF d = c THEN Idle
                                          ELSE IF d = h THEN [call[d] EXCEPT !.pc = "begin"]
                                          ELSE call[d]
      BY <1>4, ReleaseFrame
    <2>2. call[c].pc = "release" /\ h # c
      BY <2>1, ReleaseFrame
    <2>3. call'[h].pc = "begin"
      BY <2>1, <2>2, CallTyped DEF IInv, CallType
    <2>4. lock'.cur = 1 /\ lock'.waiters = Tail(lock.waiters)
      BY <1>1, <2>1
    <2>5. ~Nobody(Holding)'
      BY <2>3 DEF Nobody, Holding
    <2>6. ASSUME NEW d \in Call, call'[d].pc = "wait"
          PROVE  \E i \in DOMAIN lock'.waiters : lock'.waiters[i] = d
      <3>1. d # h /\ d # c /\ call[d].pc = "wait"
        BY <1>2, <2>1, <2>3, <2>6
      <3>2. PICK i \in DOMAIN lock.waiters : lock.waiters[i] = d
        BY <3>1 DEF Owned
      <3>3. i # 1 /\ i \in 1 .. Len(lock.waiters) /\ Len(lock.waiters) \in Nat
        BY <1>1, <2>1, <3>1, <3>2
      <3>4. /\ i - 1 \in DOMAIN Tail(lock.waiters)
            /\ Tail(lock.waiters)[i - 1] = lock.waiters[i]
        <4>1. /\ DOMAIN Tail(lock.waiters) = 1 .. Len(lock.waiters) - 1
              /\ \A j \in 1 .. Len(lock.waiters) - 1 : Tail(lock.waiters)[j] = lock.waiters[j + 1]
          BY <1>1, <1>4
        <4>2. i - 1 \in 1 .. Len(lock.waiters) - 1 /\ (i - 1) + 1 = i
          BY <3>3
        <4> QED
          BY <4>1, <4>2
      <3> QED
        BY <2>4, <3>2, <3>4
    <2> QED
      BY <2>4, <2>5, <2>6 DEF Owned
  <1> QED
    BY <1>3, <1>4

LEMMA PermitStep == ASSUME IInv, PermitInv, [Next]_vars PROVE PermitInv'
  <1>1. CASE UNCHANGED <<call, lock, broken>>
    BY <1>1 DEF PermitInv, Owned, Nobody
  <1>2. CASE Down
    <2>1. lock'.cur = 0 /\ lock'.waiters = <<>> /\ \A c \in Call : call'[c].pc = "idle"
      BY <1>2, OffTyped DEF Down
    <2> QED
      BY <2>1 DEF PermitInv, Owned
  <1>3. ASSUME NEW c \in Call, Advances(c) PROVE PermitInv'
    BY <1>3, OwnedAdvance, AdvanceFrame DEF PermitInv
  <1>4. ASSUME NEW c \in Call, NEW in \in Request, Acquire(c, in) PROVE PermitInv'
    BY <1>4, OwnedAcquire, AcquireFrame DEF PermitInv
  <1>5. ASSUME NEW c \in Call, Release(c), lock.cur # 0 PROVE PermitInv'
    BY <1>5, OwnedRelease, ReleaseFrame DEF PermitInv
  <1>6. ASSUME NEW c \in Call, GiveUp(c) PROVE PermitInv'
    BY <1>6, GiveUpFrame DEF PermitInv
  <1>7. UNCHANGED vars \/ RunMoves \/ GcStep \/ EditMoves => UNCHANGED <<call, lock, broken>>
    BY RunFrame, GcFrame, EditFrame DEF vars, process
  <1> QED
    BY <1>1, <1>2, <1>3, <1>4, <1>5, <1>6, <1>7, Cases

\* The permit of _cfgLock is never lost and never doubled, whatever fails, until a
\* call gives up its place in the queue: each call that waits has a holder before it.
THEOREM PermitKept == Spec => []PermitOwned
  <1>1. Init => PermitInv
    BY OffTyped DEF Init, PermitInv, Owned
  <1>2. IInv /\ PermitInv /\ [Next]_vars => PermitInv'
    BY PermitStep
  <1>3. IInv /\ PermitInv => PermitOwned
    <2> SUFFICES ASSUME IInv, Owned, ~broken
                 PROVE  /\ \A c, d \in Call :
                             call[c].pc \in Holding /\ call[d].pc \in Holding => c = d
                        /\ lock.cur = 0 => Nobody({"wait"} \union Holding)
                        /\ lock.cur = 1 => ~Nobody(Holding)
                        /\ \A c \in Call : call[c].pc = "wait" =>
                             \E i \in DOMAIN lock.waiters : lock.waiters[i] = c
      BY DEF PermitInv, PermitOwned
    <2>1. OneHolder
      BY DEF IInv, CacheInv
    <2>2. lock.cur = 0 => \A c \in Call : call[c].pc # "wait" /\ call[c].pc \notin Holding
      BY <2>1 DEF Owned, OneHolder, Nobody
    <2> QED
      BY <2>1, <2>2 DEF Owned, OneHolder, Nobody
  <1>4. Spec => []PermitInv
    BY <1>1, <1>2, Inductive, PTL DEF Spec
  <1> QED
    BY <1>3, <1>4, Inductive, PTL

=============================================================================
