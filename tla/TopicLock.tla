------------------------------ MODULE TopicLock ------------------------------
(***************************************************************************)
(* The per-topic lock of sesrcvr: subscriptions.withTopic, which every     *)
(* reader and writer of a cached subscription goes through (the requests   *)
(* of SNS, the workers, EditSub and RemoveSub).                            *)
(*                                                                         *)
(* The map m of the topics' entries is guarded by the mutex mu, held for a *)
(* few statements, so a critical section of mu is one step.  An entry is   *)
(* an object with a semaphore: a caller that found it in the map goes on   *)
(* to wait on it after mu was released, and by then the map may have       *)
(* changed.  One topic is modelled; topics share nothing but mu.           *)
(***************************************************************************)
EXTENDS Integers, Sequences, SequencesExt

CONSTANTS
  Caller,  \* goroutines that call withTopic for the topic
  Object,  \* lockedSub objects
  Sub,     \* subscriptions
  MaxRef,  \* bound on ref (in the code int32: it wraps after 2^31 - 1)
  None     \* no object, no subscription, no caller

ASSUME TopicLockConstants ==
  /\ MaxRef \in Nat
  /\ None \notin Object \union Sub \union Caller

VARIABLES
  entry,   \* the topic's entry in subs.m
  ref,     \* lockedSub.ref per object
  cached,  \* lockedSub.cached per object
  queue,   \* callers blocked on lockedSub.sem per object, in order
  caller   \* where each goroutine is, and the object it found

vars == <<entry, ref, cached, queue, caller>>

----------------------------------------------------------------------------
Idle == [pc |-> "idle", obj |-> None]

\* Goroutines that have a pointer to the object.
Users(o)   == {c \in Caller : caller[c].obj = o}
\* The semaphore's permit is held from Acquire to Release.
Holders(o) == {c \in Users(o) : caller[c].pc \in {"inside", "leave", "release"}}
Free(o)    == Holders(o) = {}

\* Objects that nothing points to: a new object is one of them.
Unused == {o \in Object : o # entry /\ Users(o) = {}}

AtFront(c, o) == queue[o] # <<>> /\ Head(queue[o]) = c

----------------------------------------------------------------------------
\* initSubs loads a subscription of the table, or the topic has no entry.
Init ==
  /\ caller = [c \in Caller |-> Idle]
  /\ queue = [o \in Object |-> <<>>]
  /\ ref = [o \in Object |-> 0]
  /\ \/ entry = None /\ cached = [o \in Object |-> None]
     \/ \E o \in Object, s \in Sub :
          entry = o /\ cached = [x \in Object |-> IF x = o THEN s ELSE None]

\* The process died and was started again: initSubs reads the table anew.
Restart ==
  /\ caller' = [c \in Caller |-> Idle]
  /\ queue' = [o \in Object |-> <<>>]
  /\ ref' = [o \in Object |-> 0]
  /\ \/ entry' = None /\ cached' = [o \in Object |-> None]
     \/ \E o \in Object, s \in Sub :
          entry' = o /\ cached' = [x \in Object |-> IF x = o THEN s ELSE None]

\* The first critical section of mu, no entry: newLockedSub(nil).
Create(c) ==
  /\ caller[c].pc = "idle" /\ entry = None
  /\ \E o \in Unused :
       /\ entry' = o
       /\ ref' = [ref EXCEPT ![o] = 0]
       /\ cached' = [cached EXCEPT ![o] = None]
       /\ caller' = [caller EXCEPT ![c] = [pc |-> "found", obj |-> o]]
  /\ UNCHANGED queue

\* Mutant: ref is not counted.
FindUncounted(c) ==
  /\ caller[c].pc = "idle" /\ entry # None
  /\ caller' = [caller EXCEPT ![c] = [pc |-> "found", obj |-> entry]]
  /\ UNCHANGED <<entry, ref, cached, queue>>

\* The first critical section of mu: the entry exists.
Find(c) ==
  /\ caller[c].pc = "idle" /\ entry # None
  /\ ref[entry] < MaxRef
  /\ ref' = [ref EXCEPT ![entry] = @ + 1]
  /\ caller' = [caller EXCEPT ![c] = [pc |-> "found", obj |-> entry]]
  /\ UNCHANGED <<entry, cached, queue>>

\* Acquire finds the permit free and nobody waiting.
AcquireNow(c) ==
  LET o == caller[c].obj IN
  /\ caller[c].pc = "found" /\ Free(o) /\ queue[o] = <<>>
  /\ caller' = [caller EXCEPT ![c] = [pc |-> "inside", obj |-> o]]
  /\ UNCHANGED <<entry, ref, cached, queue>>

\* Acquire joins the queue of waiters.
AcquireWait(c) ==
  LET o == caller[c].obj IN
  /\ caller[c].pc = "found" /\ ~(Free(o) /\ queue[o] = <<>>)
  /\ queue' = [queue EXCEPT ![o] = Append(@, c)]
  /\ caller' = [caller EXCEPT ![c] = [pc |-> "waiting", obj |-> o]]
  /\ UNCHANGED <<entry, ref, cached>>

\* Release hands the permit to the first waiter.
Granted(c) ==
  LET o == caller[c].obj IN
  /\ caller[c].pc = "waiting" /\ AtFront(c, o) /\ Free(o)
  /\ queue' = [queue EXCEPT ![o] = Tail(@)]
  /\ caller' = [caller EXCEPT ![c] = [pc |-> "inside", obj |-> o]]
  /\ UNCHANGED <<entry, ref, cached>>

\* Mutant: the waiter stays in the queue.
AcquireFailStays(c) ==
  LET o == caller[c].obj IN
  /\ caller[c].pc = "waiting" /\ ~(AtFront(c, o) /\ Free(o))
  /\ caller' = [caller EXCEPT ![c] = Idle]
  /\ UNCHANGED <<entry, ref, cached, queue>>

\* The caller's context is done while it waits: withTopic returns the error
\* before its cleanup is deferred.
AcquireFail(c) ==
  LET o == caller[c].obj IN
  /\ caller[c].pc = "waiting" /\ ~(AtFront(c, o) /\ Free(o))
  /\ \E i \in {j \in DOMAIN queue[o] : queue[o][j] = c} :
       queue' = [queue EXCEPT ![o] = RemoveAt(@, i)]
  /\ caller' = [caller EXCEPT ![c] = Idle]
  /\ UNCHANGED <<entry, ref, cached>>

\* The callback sets or clears the subscription: EditSub stores one, RemoveSub
\* and the confirmation of an unsubscription clear it.
Store(c) ==
  /\ caller[c].pc = "inside"
  /\ \E s \in Sub \union {None} : cached' = [cached EXCEPT ![caller[c].obj] = s]
  /\ UNCHANGED <<entry, ref, queue, caller>>

\* The callback returns.
Return(c) ==
  /\ caller[c].pc = "inside"
  /\ caller' = [caller EXCEPT ![c] = [pc |-> "leave", obj |-> caller[c].obj]]
  /\ UNCHANGED <<entry, ref, cached, queue>>

\* Mutant: whoever leaves a cleared entry deletes it.
CleanupAlways(c) ==
  LET o == caller[c].obj IN
  /\ caller[c].pc = "leave"
  /\ entry' = IF cached[o] = None THEN None ELSE entry
  /\ caller' = [caller EXCEPT ![c] = [pc |-> "release", obj |-> o]]
  /\ UNCHANGED <<ref, cached, queue>>

\* The deferred critical section of mu: the entry is deleted if its creator is
\* the only one who ever found it and it is cleared.
Cleanup(c) ==
  LET o == caller[c].obj IN
  /\ caller[c].pc = "leave"
  /\ entry' = IF ref[o] = 0 /\ cached[o] = None THEN None ELSE entry
  /\ caller' = [caller EXCEPT ![c] = [pc |-> "release", obj |-> o]]
  /\ UNCHANGED <<ref, cached, queue>>

Release(c) ==
  /\ caller[c].pc = "release"
  /\ caller' = [caller EXCEPT ![c] = Idle]
  /\ UNCHANGED <<entry, ref, cached, queue>>

Step(c) ==
  \/ AcquireNow(c) \/ AcquireWait(c) \/ Granted(c)
  \/ Return(c) \/ Cleanup(c) \/ Release(c)

Next == Restart \/ \E c \in Caller : Create(c) \/ Find(c) \/ Step(c) \/ AcquireFail(c) \/ Store(c)

Spec == Init /\ [][Next]_vars

\* A goroutine that can go on does, and callbacks return (what they call has a
\* context with a deadline, or none of their own to wait for).  Nobody is
\* obliged to give up waiting.
FairSpec == Spec /\ \A c \in Caller : WF_vars(Step(c))

----------------------------------------------------------------------------
CallerState == [pc : {"idle", "found", "waiting", "inside", "leave", "release"},
                obj : Object \union {None}]

TypeOK ==
  /\ entry \in Object \union {None}
  /\ ref \in [Object -> Nat]
  /\ cached \in [Object -> Sub \union {None}]
  /\ queue \in [Object -> Seq(Caller)]
  /\ caller \in [Caller -> CallerState]

\* A caller never uses an entry that is no longer the topic's: what it reads is
\* the topic's subscription and what it stores is not lost, although it found
\* the entry in a critical section of mu that ended long ago.
EntryIsCurrent ==
  \A c \in Caller :
    caller[c].pc \in {"found", "waiting", "inside", "leave"} => caller[c].obj = entry

\* Two callbacks for one topic never overlap, also when the second caller came
\* while the entry of the first was being deleted.
MutualExclusion ==
  \A c, d \in Caller :
    caller[c].pc \in {"inside", "leave"} /\ caller[d].pc \in {"inside", "leave"} => c = d

\* The callers see one mutex and one subscription.
Inside   == {c \in Caller : caller[c].pc \in {"inside", "leave"}}
Only(S)  == IF S = {} THEN None ELSE CHOOSE c \in S : TRUE
TopicSub == IF entry = None THEN None ELSE cached[entry]

Abstract == INSTANCE TopicMutex WITH user <- Only(Inside), sub <- TopicSub
Refinement == Abstract!MSpec

\* A caller that waits on an entry gets its turn, unless its context is done:
\* no wakeup is lost when others give up and none overtakes it for ever.
EveryCallerServed ==
  \A c \in Caller : caller[c].pc \in {"found", "waiting"} ~> caller[c].pc \in {"inside", "idle"}

----------------------------------------------------------------------------
\* The comment in withTopic: the last accessor deletes the entry if it is
\* cleared.  When nobody uses the entry of the topic, it has a subscription.
LastAccessorDeletes == entry # None /\ Users(entry) = {} => cached[entry] # None
============================================================================
