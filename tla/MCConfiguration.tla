--------------------------- MODULE MCConfiguration ---------------------------
EXTENDS Configuration
\* A first configuration without a scan period, and one that changes all of it.
Requests ==
  { ("url" :> "u1") @@ ("address" :> "a1") @@ ("threshold" :> 2),
    ("url" :> "u2") @@ ("address" :> "a2") @@ ("period" :> 2) @@ ("threshold" :> 3) }
\* For ThresholdCached.
RequestsZero == Requests \union {"threshold" :> 0}
=============================================================================
