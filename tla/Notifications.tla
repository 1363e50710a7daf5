--------------------------- MODULE Notifications ---------------------------
(***************************************************************************)
(* What sesrcvr promises about a notification SNS posts to it, without the *)
(* queue, the workers, the retries and the restarts by which it keeps the  *)
(* promise.                                                                *)
(*                                                                         *)
(* A message is logged, delivered (its delivery template ran to the end),  *)
(* retired (its log row is a tombstone) and finally forgotten.  The server *)
(* answers 200 for it only from the moment it is in the log.  A message    *)
(* may be delivered any number of times while its row is pending, and it   *)
(* may be logged afresh once it was forgotten.                             *)
(***************************************************************************)
CONSTANT Message

VARIABLES
  logged,     \* messages whose row is pending (tomb = 0)
  retired,    \* messages whose row is a tombstone (tomb = 1)
  delivered,  \* messages that were delivered at least once
  acked       \* messages the server answered 200 for

nvars == <<logged, retired, delivered, acked>>

NTypeOK ==
  /\ logged \subseteq Message
  /\ retired \subseteq Message
  /\ delivered \subseteq Message
  /\ acked \subseteq Message

NInit == logged = {} /\ retired = {} /\ delivered = {} /\ acked = {}

\* The message becomes durable.  One that is still in the log is never
\* logged a second time.
Log(m) ==
  /\ m \notin logged \union retired
  /\ logged' = logged \union {m}
  /\ UNCHANGED <<retired, delivered, acked>>

\* SNS is told it need not retry.
Ack(m) ==
  /\ m \in logged \union delivered
  /\ acked' = acked \union {m}
  /\ UNCHANGED <<logged, retired, delivered>>

Deliver(m) ==
  /\ m \in logged
  /\ delivered' = delivered \union {m}
  /\ UNCHANGED <<logged, retired, acked>>

\* Only a delivered message leaves the pending part of the log.
Retire(m) ==
  /\ m \in logged \intersect delivered
  /\ logged' = logged \ {m}
  /\ retired' = retired \union {m}
  /\ UNCHANGED <<delivered, acked>>

\* Garbage collection drops tombstones, any number of them at a time.
Forget(M) ==
  /\ M \subseteq retired
  /\ retired' = retired \ M
  /\ UNCHANGED <<logged, delivered, acked>>

NNext ==
  \/ \E m \in Message : Log(m) \/ Ack(m) \/ Deliver(m) \/ Retire(m)
  \/ \E M \in SUBSET Message : Forget(M)

NSpec == NInit /\ [][NNext]_nvars

----------------------------------------------------------------------------
\* No notification is lost: a message SNS was told to forget is still in the
\* log, or was delivered.
NothingLost == acked \subseteq logged \union delivered

\* The log never holds a row twice, and a tombstone only for what was
\* delivered.
LogSound ==
  /\ logged \intersect retired = {}
  /\ retired \subseteq delivered
============================================================================
