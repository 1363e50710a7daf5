-------------------------- MODULE TopicLockProofs --------------------------
(***************************************************************************)
(* Proofs about module TopicLock, for any number of callers: two callbacks *)
(* for a topic never overlap, no caller works on an entry that is no       *)
(* longer the topic's, and the lock implements TopicMutex.                 *)
(***************************************************************************)
EXTENDS TopicLock, SequenceTheorems, TLAPS

----------------------------------------------------------------------------
(* The inductive invariant *)

Shape == \A c \in Caller : caller[c].pc = "idle" <=> caller[c].obj = None

\* A permit has one holder.
OneHolder ==
  \A c, d \in Caller :
    /\ caller[c].pc \in {"inside", "leave", "release"}
    /\ caller[d].pc \in {"inside", "leave", "release"}
    /\ caller[c].obj = caller[d].obj
    => c = d

\* While ref is 0, nobody but the creator of the entry has a pointer to it:
\* this is what makes deleting the entry safe.
OnlyCreator ==
  entry # None /\ ref[entry] = 0 =>
    \A c, d \in Caller : caller[c].obj = entry /\ caller[d].obj = entry => c = d

IInv == TypeOK /\ Shape /\ OneHolder /\ EntryIsCurrent /\ OnlyCreator

----------------------------------------------------------------------------
\* Removing an element leaves a sequence over the same set.
LEMMA RemoveAtType ==
  ASSUME NEW S, NEW s \in Seq(S), NEW i \in DOMAIN s
  PROVE  RemoveAt(s, i) \in Seq(S)
<1>1. i \in 1..Len(s) /\ Len(s) \in Nat /\ \A j \in 1..Len(s) : s[j] \in S
  OBVIOUS
<1>2. SubSeq(s, 1, i - 1) \in Seq(S)
  <2>1. 1 \in Int /\ i - 1 \in Int /\ \A j \in 1..(i - 1) : s[j] \in S
    BY <1>1
  <2> QED BY <2>1, SubSeqProperties
<1>3. SubSeq(s, i + 1, Len(s)) \in Seq(S)
  <2>1. i + 1 \in Int /\ Len(s) \in Int /\ \A j \in (i + 1)..Len(s) : s[j] \in S
    BY <1>1
  <2> QED BY <2>1, SubSeqProperties
<1> QED BY <1>2, <1>3, ConcatProperties DEF RemoveAt

\* Initially nobody is on an entry.
LEMMA InitIInv == Init => IInv
<1> SUFFICES ASSUME Init PROVE IInv
  OBVIOUS
<1>1. TypeOK
  BY TopicLockConstants DEF Init, TypeOK, Idle, CallerState
<1>2. \A c \in Caller : caller[c].pc = "idle" /\ caller[c].obj = None
  BY DEF Init, Idle
<1>3. Shape /\ OneHolder /\ EntryIsCurrent
  BY <1>2 DEF Shape, OneHolder, EntryIsCurrent
<1>4. OnlyCreator
  BY <1>2 DEF OnlyCreator
<1> QED BY <1>1, <1>3, <1>4 DEF IInv

\* The invariant is inductive.
LEMMA NextIInv == IInv /\ [Next]_vars => IInv'
<1> SUFFICES ASSUME IInv, [Next]_vars PROVE IInv'
  OBVIOUS
<1> USE TopicLockConstants
<1>t. TypeOK /\ Shape /\ OneHolder /\ EntryIsCurrent /\ OnlyCreator
  BY DEF IInv
<1>1. CASE Restart
  <2>1. TypeOK'
    BY <1>1 DEF Restart, TypeOK, Idle, CallerState
  <2>2. \A c \in Caller : caller'[c].pc = "idle" /\ caller'[c].obj = None
    BY <1>1 DEF Restart, Idle
  <2>3. Shape' /\ OneHolder' /\ EntryIsCurrent'
    BY <2>2 DEF Shape, OneHolder, EntryIsCurrent
  <2>4. OnlyCreator'
    BY <2>2 DEF OnlyCreator
  <2> QED BY <2>1, <2>3, <2>4 DEF IInv
<1>2. ASSUME NEW c \in Caller, Create(c)
      PROVE  IInv'
  <2>1. PICK o \in Unused :
          /\ entry' = o
          /\ ref' = [ref EXCEPT ![o] = 0]
          /\ cached' = [cached EXCEPT ![o] = None]
          /\ caller' = [caller EXCEPT ![c] = [pc |-> "found", obj |-> o]]
    BY <1>2 DEF Create
  <2>2. o \in Object /\ o # None /\ \A d \in Caller : caller[d].obj # o
    BY DEF Unused, Users
  <2>3. TypeOK'
    BY <1>t, <1>2, <2>1, <2>2 DEF Create, TypeOK, CallerState
  <2>4. /\ caller'[c].pc = "found" /\ caller'[c].obj = o
        /\ \A d \in Caller \ {c} : caller'[d] = caller[d]
    BY <1>t, <2>1 DEF TypeOK
  <2>5. entry = None
    BY <1>2 DEF Create
  <2>6. EntryIsCurrent'
    BY <1>t, <2>1, <2>4, <2>5 DEF EntryIsCurrent, Shape
  <2>7. OneHolder' /\ Shape'
    BY <1>t, <2>2, <2>4 DEF OneHolder, Shape
  <2>8. OnlyCreator'
    BY <2>1, <2>2, <2>4 DEF OnlyCreator
  <2> QED BY <2>3, <2>6, <2>7, <2>8 DEF IInv
<1>3. ASSUME NEW c \in Caller, Find(c)
      PROVE  IInv'
  <2>1. TypeOK'
    BY <1>t, <1>3 DEF Find, TypeOK, CallerState
  <2>2. /\ caller'[c].pc = "found" /\ caller'[c].obj = entry
        /\ \A d \in Caller \ {c} : caller'[d] = caller[d]
        /\ entry' = entry /\ entry # None
    BY <1>t, <1>3 DEF Find, TypeOK
  <2>3. Shape' /\ OneHolder' /\ EntryIsCurrent'
    BY <1>t, <2>2 DEF Shape, OneHolder, EntryIsCurrent
  <2>4. ref'[entry] # 0
    BY <1>t, <1>3 DEF Find, TypeOK
  <2> QED BY <2>1, <2>2, <2>3, <2>4 DEF IInv, OnlyCreator
<1>4. ASSUME NEW c \in Caller, AcquireNow(c) \/ Granted(c)
      PROVE  IInv'
  <2> DEFINE o == caller[c].obj
  <2>1. /\ caller[c].pc \in {"found", "waiting"} /\ Free(o)
        /\ entry' = entry /\ ref' = ref /\ cached' = cached
        /\ caller' = [caller EXCEPT ![c] = [pc |-> "inside", obj |-> o]]
    BY <1>4 DEF AcquireNow, Granted
  <2>2. o \in Object /\ o = entry
    BY <1>t, <2>1 DEF Shape, TypeOK, CallerState, EntryIsCurrent
  <2>3. queue' \in [Object -> Seq(Caller)]
    <3>1. CASE AcquireNow(c)
      BY <1>t, <3>1 DEF AcquireNow, TypeOK
    <3>2. CASE Granted(c)
      <4>1. queue[o] # <<>> /\ queue[o] \in Seq(Caller)
        BY <1>t, <2>2, <3>2 DEF Granted, AtFront, TypeOK
      <4>2. Tail(queue[o]) \in Seq(Caller)
        BY <4>1
      <4> QED BY <1>t, <3>2, <4>2 DEF Granted, TypeOK
    <3> QED BY <1>4, <3>1, <3>2
  <2>4. TypeOK'
    BY <1>t, <2>1, <2>2, <2>3 DEF TypeOK, CallerState
  <2>5. /\ caller'[c].pc = "inside" /\ caller'[c].obj = o
        /\ \A d \in Caller \ {c} : caller'[d] = caller[d]
    BY <1>t, <2>1 DEF TypeOK
  <2>6. \A d \in Caller : caller[d].obj = o => caller[d].pc \notin {"inside", "leave", "release"}
    BY <2>1 DEF Free, Holders, Users
  <2>7. Shape' /\ OneHolder' /\ EntryIsCurrent'
    BY <1>t, <2>1, <2>2, <2>5, <2>6 DEF Shape, OneHolder, EntryIsCurrent
  <2>8. OnlyCreator'
    BY <1>t, <2>1, <2>5 DEF OnlyCreator
  <2> QED BY <2>4, <2>7, <2>8 DEF IInv
<1>5. ASSUME NEW c \in Caller, AcquireWait(c) \/ Return(c) \/ Release(c) \/ AcquireFail(c)
      PROVE  IInv'
  <2> DEFINE o == caller[c].obj
  <2>1. /\ entry' = entry /\ ref' = ref /\ cached' = cached
        /\ caller[c].pc # "idle"
    BY <1>5 DEF AcquireWait, Return, Release, AcquireFail
  <2>2. o \in Object
    BY <1>t, <2>1 DEF Shape, TypeOK, CallerState
  <2>3. queue' \in [Object -> Seq(Caller)]
    <3>1. CASE AcquireWait(c)
      BY <1>t, <2>2, <3>1 DEF AcquireWait, TypeOK
    <3>2. CASE Return(c) \/ Release(c)
      BY <1>t, <3>2 DEF Return, Release, TypeOK
    <3>3. CASE AcquireFail(c)
      <4>1. PICK i \in DOMAIN queue[o] : queue' = [queue EXCEPT ![o] = RemoveAt(queue[o], i)]
        BY <3>3 DEF AcquireFail
      <4>2. RemoveAt(queue[o], i) \in Seq(Caller)
        BY <1>t, <2>2, <4>1, RemoveAtType DEF TypeOK
      <4> QED BY <1>t, <4>1, <4>2 DEF TypeOK
    <3> QED BY <1>5, <3>1, <3>2, <3>3
  <2>4. PICK s \in CallerState :
          /\ caller' = [caller EXCEPT ![c] = s]
          /\ \/ s.pc = "waiting" /\ s.obj = o /\ caller[c].pc = "found"
             \/ s.pc = "leave" /\ s.obj = o /\ caller[c].pc = "inside"
             \/ s.pc = "idle" /\ s.obj = None
    <3> DEFINE to(pc, x) == [pc |-> pc, obj |-> x]
    <3>1. to("waiting", o) \in CallerState /\ to("leave", o) \in CallerState
          /\ to("idle", None) \in CallerState
      BY <2>2 DEF CallerState
    <3> USE <3>1
    <3>2. CASE AcquireWait(c)
      <4> WITNESS to("waiting", o) \in CallerState
      <4> QED BY <3>2 DEF AcquireWait
    <3>3. CASE Return(c)
      <4> WITNESS to("leave", o) \in CallerState
      <4> QED BY <3>3 DEF Return
    <3>4. CASE Release(c) \/ AcquireFail(c)
      <4> WITNESS to("idle", None) \in CallerState
      <4> QED BY <3>4 DEF Release, AcquireFail, Idle
    <3> QED BY <1>5, <3>2, <3>3, <3>4
  <2>5. TypeOK'
    <3>1. caller' = [caller EXCEPT ![c] = s]
      BY <2>4
    <3>2. caller' \in [Caller -> CallerState]
      BY <1>t, <3>1 DEF TypeOK
    <3> QED BY <1>t, <2>1, <2>3, <3>2 DEF TypeOK, CallerState
  <2>6. /\ caller'[c] = s
        /\ \A d \in Caller \ {c} : caller'[d] = caller[d]
    BY <1>t, <2>4 DEF TypeOK
  <2>7. Shape' /\ OneHolder' /\ EntryIsCurrent'
    BY <1>t, <2>1, <2>2, <2>4, <2>6 DEF Shape, OneHolder, EntryIsCurrent
  <2>8. OnlyCreator'
    BY <1>t, <2>1, <2>4, <2>6 DEF OnlyCreator
  <2> QED BY <2>5, <2>7, <2>8 DEF IInv
<1>6. ASSUME NEW c \in Caller, Store(c)
      PROVE  IInv'
  <2>1. PICK s \in Sub \union {None} : cached' = [cached EXCEPT ![caller[c].obj] = s]
    BY <1>6 DEF Store
  <2>2. cached' \in [Object -> Sub \union {None}]
    BY <1>t, <2>1 DEF TypeOK
  <2>3. TypeOK'
    BY <1>t, <1>6, <2>2 DEF Store, TypeOK, CallerState
  <2> QED BY <1>t, <1>6, <2>3 DEF Store, IInv, Shape, OneHolder, EntryIsCurrent, OnlyCreator
<1>7. ASSUME NEW c \in Caller, Cleanup(c)
      PROVE  IInv'
  <2> DEFINE o == caller[c].obj
  <2>1. /\ caller[c].pc = "leave" /\ ref' = ref
        /\ entry' = IF ref[o] = 0 /\ cached[o] = None THEN None ELSE entry
        /\ caller' = [caller EXCEPT ![c] = [pc |-> "release", obj |-> o]]
    BY <1>7 DEF Cleanup
  <2>2. o \in Object /\ o = entry
    BY <1>t, <2>1 DEF Shape, TypeOK, CallerState, EntryIsCurrent
  <2>3. TypeOK'
    BY <1>t, <1>7, <2>2 DEF Cleanup, TypeOK, CallerState
  <2>4. /\ caller'[c].pc = "release" /\ caller'[c].obj = o
        /\ \A d \in Caller \ {c} : caller'[d] = caller[d]
    BY <1>t, <2>1 DEF TypeOK
  <2>5. Shape' /\ OneHolder'
    BY <1>t, <2>1, <2>2, <2>4 DEF Shape, OneHolder
  <2>6. EntryIsCurrent'
    <3>1. CASE ref[o] = 0 /\ cached[o] = None
      <4>1. \A d \in Caller \ {c} : caller[d].obj # entry
        BY <1>t, <2>2, <3>1 DEF OnlyCreator
      <4> QED BY <1>t, <2>4, <4>1 DEF EntryIsCurrent
    <3>2. CASE ~(ref[o] = 0 /\ cached[o] = None)
      BY <1>t, <2>1, <2>4, <3>2 DEF EntryIsCurrent
    <3> QED BY <3>1, <3>2
  <2>7. OnlyCreator'
    BY <1>t, <2>1, <2>4 DEF OnlyCreator
  <2> QED BY <2>3, <2>5, <2>6, <2>7 DEF IInv
<1>8. CASE UNCHANGED vars
  BY <1>t, <1>8 DEF vars, IInv, TypeOK, Shape, OneHolder, EntryIsCurrent, OnlyCreator
<1> QED BY <1>1, <1>2, <1>3, <1>4, <1>5, <1>6, <1>7, <1>8 DEF Next, Step

\* The invariant holds in every reachable state.
THEOREM Invariance == Spec => []IInv
<1> QED BY InitIInv, NextIInv, PTL DEF Spec

----------------------------------------------------------------------------
\* Types: entries, counters, queues and callers (withTopic, lockedSub).
THEOREM TypeCorrect == Spec => []TypeOK
<1>1. IInv => TypeOK
  BY DEF IInv
<1> QED BY <1>1, Invariance, PTL

\* From the moment a caller of withTopic found the entry until its callback
\* returned and was cleaned up after, the entry is the topic's.
THEOREM CurrentEntry == Spec => []EntryIsCurrent
<1>1. IInv => EntryIsCurrent
  BY DEF IInv
<1> QED BY <1>1, Invariance, PTL

\* Two callbacks of withTopic for one topic never overlap: callers on the same
\* entry share its semaphore, and there is only one entry.
THEOREM Exclusion == Spec => []MutualExclusion
<1>1. IInv => MutualExclusion
  BY DEF IInv, MutualExclusion, EntryIsCurrent, OneHolder
<1> QED BY <1>1, Invariance, PTL
----------------------------------------------------------------------------
(* The lock implements TopicMutex *)

\* The caller a set of at most one caller maps to.
LEMMA OnlyIs ==
  ASSUME NEW S, S \subseteq Caller, \A c, d \in S : c = d
  PROVE  /\ \A c \in S : Only(S) = c
         /\ S = {} => Only(S) = None
  BY DEF Only

\* Initial states map to initial states.
LEMMA RefineInit == Init => Abstract!MInit
<1> SUFFICES ASSUME Init PROVE Abstract!MInit
  OBVIOUS
<1>1. Inside = {}
  BY DEF Init, Inside, Idle
<1>2. TopicSub \in Sub \union {None}
  BY TopicLockConstants DEF Init, TopicSub
<1> QED BY <1>1, <1>2 DEF Abstract!MInit, Only

\* Every step maps to a step of the mutex or changes nothing there: the mutex
\* is taken when the semaphore is, and left when the callback was cleaned up.
LEMMA RefineNext == IInv /\ IInv' /\ [Next]_vars => [Abstract!MNext]_(Abstract!mvars)
<1> SUFFICES ASSUME IInv, IInv', [Next]_vars
             PROVE  Abstract!MNext \/ (Only(Inside)' = Only(Inside) /\ TopicSub' = TopicSub)
  BY DEF Abstract!mvars
<1> USE TopicLockConstants
<1>t. TypeOK /\ TypeOK' /\ Shape /\ EntryIsCurrent
  BY DEF IInv
<1>a. /\ Inside \subseteq Caller /\ \A c, d \in Inside : c = d
      /\ Inside' \subseteq Caller /\ \A c, d \in Inside' : c = d
  BY DEF IInv, EntryIsCurrent, OneHolder, Inside
<1>b. /\ \A c \in Inside : Only(Inside) = c
      /\ Inside = {} => Only(Inside) = None
      /\ \A c \in Inside' : Only(Inside') = c
      /\ Inside' = {} => Only(Inside') = None
  BY <1>a, OnlyIs
<1>c. TopicSub \in Sub \union {None} /\ TopicSub' \in Sub \union {None}
  BY <1>t DEF TopicSub, TypeOK
<1>1. CASE Restart
  <2>1. Inside' = {}
    BY <1>1 DEF Restart, Inside, Idle
  <2> QED BY <1>b, <1>c, <2>1 DEF Abstract!MNext, Abstract!Reload
<1>2. ASSUME NEW c \in Caller, Create(c) \/ Find(c)
      PROVE  Only(Inside)' = Only(Inside) /\ TopicSub' = TopicSub
  <2>1. /\ \A d \in Caller \ {c} : caller'[d] = caller[d]
        /\ caller[c].pc = "idle" /\ caller'[c].pc = "found"
    BY <1>2, <1>t DEF Create, Find, TypeOK
  <2>2. Inside' = Inside
    BY <2>1 DEF Inside
  <2>3. CASE Create(c)
    <3>1. PICK o \in Object : entry' = o /\ cached' = [cached EXCEPT ![o] = None]
      BY <2>3 DEF Create, Unused
    <3> QED BY <1>t, <2>2, <2>3, <3>1 DEF Create, TopicSub, TypeOK
  <2>4. CASE Find(c)
    BY <2>2, <2>4 DEF Find, TopicSub
  <2> QED BY <1>2, <2>3, <2>4
<1>3. ASSUME NEW c \in Caller, AcquireNow(c) \/ Granted(c)
      PROVE  Abstract!Enter(c)
  <2> DEFINE o == caller[c].obj
  <2>1. /\ caller[c].pc \in {"found", "waiting"} /\ Free(o)
        /\ UNCHANGED <<entry, ref, cached>>
        /\ caller' = [caller EXCEPT ![c] = [pc |-> "inside", obj |-> o]]
    BY <1>3 DEF AcquireNow, Granted
  <2>2. o = entry
    BY <1>t, <2>1 DEF EntryIsCurrent
  <2>3. Inside = {}
    BY <1>t, <2>1, <2>2 DEF Inside, Free, Holders, Users, EntryIsCurrent
  <2>4. c \in Inside'
    BY <1>t, <2>1 DEF Inside, TypeOK
  <2> QED BY <1>b, <2>1, <2>3, <2>4 DEF Abstract!Enter, TopicSub
<1>4. ASSUME NEW c \in Caller, AcquireWait(c) \/ AcquireFail(c) \/ Return(c) \/ Release(c)
      PROVE  Only(Inside)' = Only(Inside) /\ TopicSub' = TopicSub
  <2>1. /\ \A d \in Caller \ {c} : caller'[d] = caller[d]
        /\ caller[c].pc \in {"inside", "leave"} <=> caller'[c].pc \in {"inside", "leave"}
        /\ UNCHANGED <<entry, cached>>
    BY <1>4, <1>t DEF AcquireWait, AcquireFail, Return, Release, Idle, TypeOK
  <2>2. Inside' = Inside
    BY <2>1 DEF Inside
  <2> QED BY <2>1, <2>2 DEF TopicSub
<1>5. ASSUME NEW c \in Caller, Store(c)
      PROVE  Abstract!Replace(c)
  <2>1. c \in Inside /\ Inside' = Inside
    BY <1>5 DEF Store, Inside
  <2> QED BY <1>b, <1>c, <2>1 DEF Abstract!Replace
<1>6. ASSUME NEW c \in Caller, Cleanup(c)
      PROVE  Abstract!Leave(c)
  <2> DEFINE o == caller[c].obj
  <2>1. /\ caller[c].pc = "leave" /\ cached' = cached
        /\ entry' = IF ref[o] = 0 /\ cached[o] = None THEN None ELSE entry
        /\ caller' = [caller EXCEPT ![c] = [pc |-> "release", obj |-> o]]
    BY <1>6 DEF Cleanup
  <2>2. o = entry /\ o \in Object
    BY <1>t, <2>1 DEF EntryIsCurrent, Shape, TypeOK, CallerState
  <2>3. TopicSub' = TopicSub
    BY <2>1, <2>2 DEF TopicSub
  <2>4. c \in Inside
    BY <2>1 DEF Inside
  <2>5. Inside' = {}
    <3>1. \A d \in Caller \ {c} : d \notin Inside /\ caller'[d] = caller[d]
      BY <1>a, <1>t, <2>1, <2>4 DEF TypeOK
    <3>2. caller'[c].pc = "release"
      BY <1>t, <2>1 DEF TypeOK
    <3> QED BY <3>1, <3>2 DEF Inside
  <2> QED BY <1>b, <2>3, <2>4, <2>5 DEF Abstract!Leave
<1>7. CASE UNCHANGED vars
  BY <1>7 DEF vars, TopicSub, Inside
<1>8. CASE Next
  BY <1>1, <1>2, <1>3, <1>4, <1>5, <1>6, <1>8 DEF Next, Step, Abstract!MNext
<1> QED BY <1>7, <1>8

\* withTopic implements one mutex and one subscription per topic.
THEOREM Implements == Spec => Refinement
<1> QED BY RefineInit, RefineNext, InitIInv, NextIInv, PTL
     DEF Spec, Refinement, Abstract!MSpec
============================================================================
