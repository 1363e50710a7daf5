----------------------------- MODULE TopicMutex -----------------------------
(***************************************************************************)
(* What the callers of withTopic (sesrcvr/ep_server.go) rely on: one       *)
(* subscription per topic, or none, that one callback at a time may read   *)
(* and replace.  There are no entries, counters or queues here.            *)
(***************************************************************************)
CONSTANTS
  Caller,  \* goroutines that call withTopic for the topic
  Sub,     \* subscriptions
  None     \* no subscription, no caller

VARIABLES
  user,    \* the caller whose callback runs
  sub      \* the topic's subscription

mvars == <<user, sub>>

MInit == user = None /\ sub \in Sub \union {None}

Enter(c) == user = None /\ user' = c /\ UNCHANGED sub

Replace(c) == user = c /\ sub' \in Sub \union {None} /\ UNCHANGED user

Leave(c) == user = c /\ user' = None /\ UNCHANGED sub

\* The process starts again with what its table of subscriptions holds.
Reload == user' = None /\ sub' \in Sub \union {None}

MNext == Reload \/ \E c \in Caller : Enter(c) \/ Replace(c) \/ Leave(c)

MSpec == MInit /\ [][MNext]_mvars
============================================================================
