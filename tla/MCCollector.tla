---------------------------- MODULE MCCollector ----------------------------
(* Collector on small instances: a few rows, topics, mails and workers. *)
EXTENDS Collector, TLC

CONSTANTS t1, t2, o1, o2, b1, b2

\* Two mails of one topic.
One    == {[topic |-> t1, object |-> o] : o \in {o1, o2}}
\* Two topics: a rule for each stores one mail, and one of them another.
Shared == {[topic |-> t, object |-> o1] : t \in {t1, t2}} \union {[topic |-> t2, object |-> o2]}

\* The mails are in one bucket, or in two.
Together == o1 :> b1 @@ o2 :> b1
Apart    == o1 :> b1 @@ o2 :> b2
============================================================================
