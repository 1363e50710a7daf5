---------------------------- MODULE MCHeaderMods ----------------------------
EXTENDS HeaderMods, TLC
AllText == STRING
SmallFields == [key : {"Subject", "X-Spam"}, value : {"old"}]
            \union {Field("Return-Path", "sender"), Field("Subject", "older"),
                    Field("X-Original-Return-Path", "old")}
SmallMails == UNION {[1..n -> SmallFields] : n \in 0..3}
Op(op, k, i) == [op |-> op, key |-> k, value |-> "new", index |-> i]
SomeMods ==
  {Op(op, k, i) : op \in {"remove", "change", "insert"}, k \in {"Subject", "X-Spam"}, i \in -2..3}
    \union {Op(op, "Return-Path", 0) : op \in {"add", "insert"}}
    \union {Op("add", "Subject", 0), Op("remove", "Content-Type", 0)}
SomeScans ==
  { [remove |-> <<>>, add |-> {}, spam |-> TRUE],
    [remove |-> "X-Spam" :> "integer", add |-> {}, spam |-> FALSE],
    [remove |-> "X-Spam" :> "fraction" @@ "Subject" :> "integer",
     add |-> {Op("insert", "X-Spam", 0), Op("add", "Subject", 0)}, spam |-> TRUE],
    [remove |-> <<>>, add |-> {Op("add", "X-Spam", 0), Op("add", "Content-Type", 0)},
     spam |-> FALSE],
    [remove |-> "Content-Type" :> "fraction", add |-> {}, spam |-> FALSE] }
=============================================================================
