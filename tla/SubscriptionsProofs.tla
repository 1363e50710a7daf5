------------------------ MODULE SubscriptionsProofs ------------------------
(***************************************************************************)
(* The safety of the subscriptions, for every number of uuids, ARNs,       *)
(* invocations of the lambda and callers that wait.                        *)
(***************************************************************************)
EXTENDS Subscriptions, SequenceTheorems, FiniteSetTheorems, TLAPS

AuthNull   == Auth \union {None}
States     == {"new", "pending", "confirmed", "leaving", "gone"}
RowType    == [auth : AuthNull, arn : ArnNull]
WaiterType == [kind : Kinds, arn : ArnNull]
OpType     == [kind : Kinds, arn : ArnNull, call : Call]
LambdaType == [pc : {"off", "start", "sns", "interim", "item", "ok", "failed"},
               api : {"none", "Subscribe", "Unsubscribe", "Confirm"},
               url : AuthNull, arn : ArnNull]
SnsType    == [url : AuthNull, state : States]
ItemType   == [url : AuthNull, arn : ArnNull]

Typed ==
  /\ row \in RowType /\ issued \subseteq Auth
  /\ cached \in [arn : ArnNull] \union {None}
  /\ queue \in Seq(WaiterType)
  /\ op \in OpType \union {NoOp}
  /\ lambda \in [Call -> LambdaType]
  /\ sns \in [Arn -> SnsType]
  /\ interim \in BOOLEAN
  /\ item \in ItemType
  /\ mishaps \subseteq {"loose", "late", "cut"}

\* SNS has taken the token of a subscription at some time, and has been asked to
\* end it.
Once(k) == k \in Arn /\ sns[k].state \in {"confirmed", "leaving", "gone"}
Left(k) == k \in Arn /\ sns[k].state \in {"leaving", "gone"}

\* A request of SNS names a subscription, a notification one that was confirmed.
WaiterOK(w) ==
  /\ w.kind \in {"confirm", "unsub", "notify"} => w.arn \in Arn
  /\ w.kind = "notify" => Once(w.arn)
  /\ w.kind = "unsub" => Left(w.arn)
QueueInv == \A i \in DOMAIN queue : WaiterOK(queue[i])

\* What an invocation has done already, whoever waits for it.
Beyond == {"interim", "item", "ok"}
CallOK(c) ==
  /\ c.api = "Confirm" => c.arn \in Arn /\ (c.pc \in Beyond => Once(c.arn))
  /\ c.api = "Unsubscribe" => Once(c.arn) /\ (c.pc \in Beyond => Left(c.arn))
LambdaInv == \A l \in Call : lambda[l].pc # "off" => CallOK(lambda[l])

\* The callback that waits has the row and the invocation to itself.
OpInv ==
  op # NoOp =>
    LET c == lambda[op.call] IN
    /\ c.pc # "off" /\ c.arn = op.arn
    /\ \/ op.kind = "edit" /\ c.api = "Subscribe"
       \/ op.kind = "confirm" /\ c.api = "Confirm" /\ row.auth # None
       \/ op.kind = "force" /\ c.api = "Unsubscribe" /\ row.arn = op.arn

RowInv ==
  /\ row.auth = None => row.arn = None
  /\ row.arn # None => Once(row.arn)
  /\ item.arn # None => Once(item.arn)

IInv == Typed /\ CacheIsTable /\ QueueInv /\ LambdaInv /\ OpInv /\ RowInv

----------------------------------------------------------------------------
(* The steps, by what they change *)

Asked == \E kind \in {"edit", "remove", "force"} : Ask(kind)
Shrunk == \E i \in DOMAIN queue : Refuse(i)
Turned == EditSub \/ RemoveSub \/ ForceRemoveSub \/ Confirm \/ Unsub \/ Notification
Ended == ReturnedOk \/ ReturnedError \/ GiveUp \/ Restart
Cloudy(l) == LambdaStep(l) \/ LambdaFails(l)

LEMMA Cases ==
  ASSUME [Next]_vars
  PROVE  UNCHANGED vars \/ Asked \/ Arrival \/ Shrunk \/ Turned \/ Ended \/ InvokeAgain
         \/ \E l \in Call : Cloudy(l)
  BY DEF Next, Unattended, Callback, Asked, Shrunk, Turned, Ended, Cloudy

\* What is left of a queue was in it before.
LEMMA RestWasThere ==
  ASSUME NEW S, NEW s \in Seq(S)
  PROVE  /\ s # <<>> =>
              /\ Head(s) \in S /\ Tail(s) \in Seq(S) /\ 1 \in DOMAIN s /\ Head(s) = s[1]
              /\ \A j \in DOMAIN Tail(s) : \E i \in DOMAIN s : Tail(s)[j] = s[i]
         /\ \A n \in DOMAIN s :
              /\ RemoveAt(s, n) \in Seq(S)
              /\ \A j \in DOMAIN RemoveAt(s, n) : \E i \in DOMAIN s : RemoveAt(s, n)[j] = s[i]
         /\ \A e \in S :
              /\ Append(s, e) \in Seq(S)
              /\ \A j \in DOMAIN Append(s, e) :
                   Append(s, e)[j] = e \/ \E i \in DOMAIN s : Append(s, e)[j] = s[i]
  <1>1. ASSUME s # <<>>
        PROVE  /\ Head(s) \in S /\ Tail(s) \in Seq(S) /\ 1 \in DOMAIN s /\ Head(s) = s[1]
               /\ \A j \in DOMAIN Tail(s) : \E i \in DOMAIN s : Tail(s)[j] = s[i]
    <2>1. /\ Len(s) \in Nat /\ DOMAIN s = 1 .. Len(s) /\ Len(s) # 0
          /\ DOMAIN Tail(s) = 1 .. Len(s) - 1
          /\ \A j \in 1 .. Len(s) - 1 : Tail(s)[j] = s[j + 1]
      BY <1>1
    <2>2. \A j \in 1 .. Len(s) - 1 : j + 1 \in DOMAIN s
      BY <2>1
    <2>3. \A j \in DOMAIN Tail(s) : \E i \in DOMAIN s : Tail(s)[j] = s[i]
      BY <2>1, <2>2
    <2> QED
      BY <1>1, <2>1, <2>3
  <1>2. ASSUME NEW n \in DOMAIN s
        PROVE  /\ RemoveAt(s, n) \in Seq(S)
               /\ \A j \in DOMAIN RemoveAt(s, n) : \E i \in DOMAIN s : RemoveAt(s, n)[j] = s[i]
    <2> DEFINE r == RemoveAt(s, n)
           T == {s[i] : i \in DOMAIN s}
    <2>1. s \in Seq(T) /\ T \subseteq S /\ Len(s) \in Nat /\ n \in 1 .. Len(s)
      OBVIOUS
    <2> HIDE DEF T
    <2>2. SubSeq(s, 1, n - 1) \in Seq(T) /\ SubSeq(s, n + 1, Len(s)) \in Seq(T)
      <3>1. \A j \in 1 .. Len(s) : s[j] \in T
        BY <2>1
      <3> QED
        BY <2>1, <3>1, SubSeqProperties
    <2>3. r \in Seq(T)
      BY <2>2, ConcatProperties DEF RemoveAt
    <2>4. r \in Seq(S) /\ \A j \in DOMAIN r : r[j] \in T
      BY <2>1, <2>3
    <2> QED
      BY <2>4 DEF T
  <1>3. ASSUME NEW e \in S
        PROVE  /\ Append(s, e) \in Seq(S)
               /\ \A j \in DOMAIN Append(s, e) :
                    Append(s, e)[j] = e \/ \E i \in DOMAIN s : Append(s, e)[j] = s[i]
    <2>1. /\ Len(s) \in Nat /\ DOMAIN s = 1 .. Len(s) /\ DOMAIN Append(s, e) = 1 .. Len(s) + 1
          /\ Append(s, e)[Len(s) + 1] = e
          /\ \A j \in 1 .. Len(s) : Append(s, e)[j] = s[j]
      OBVIOUS
    <2>2. \A j \in 1 .. Len(s) + 1 : j = Len(s) + 1 \/ j \in 1 .. Len(s)
      BY <2>1
    <2>3. \A j \in DOMAIN Append(s, e) :
            Append(s, e)[j] = e \/ \E i \in DOMAIN s : Append(s, e)[j] = s[i]
      BY <2>1, <2>2
    <2> QED
      BY <2>3
  <1> QED
    BY <1>1, <1>2, <1>3
\* None is no uuid, no ARN and no invocation; no operation is no kind of one.
LEMMA Nothing ==
  /\ None \notin Auth /\ None \notin Arn /\ None \notin Call
  /\ NoOp.kind = "none" /\ NoOp.call = None
  /\ \A o \in OpType : o # NoOp
  /\ OffCall \in LambdaType /\ OffCall.pc = "off"
  /\ NoRow \in RowType /\ NoRow.auth = None /\ NoRow.arn = None
  /\ NoItem \in ItemType /\ NoItem.arn = None
  BY SubscriptionsConstants DEF NoOp, OpType, Kinds, OffCall, LambdaType, NoRow, RowType, NoItem,
                                ItemType, AuthNull, ArnNull

\* The history of mishaps grows, until nothing counts any more.
LEMMA Remembers ==
  ASSUME NEW m \in {"loose", "late", "cut"}, NEW h \in BOOLEAN, Remember(m, h)
  PROVE  /\ mishaps' \subseteq mishaps \union {"loose", "late", "cut"}
         /\ "loose" \notin mishaps' => /\ mishaps \subseteq mishaps'
                                       /\ h => m # "loose" /\ m \in mishaps'
  BY DEF Remember

LEMMA Grows ==
  ASSUME [Next]_vars
  PROVE  /\ mishaps' \subseteq mishaps \union {"loose", "late", "cut"}
         /\ "loose" \notin mishaps' => mishaps \subseteq mishaps'
  <1>1. ASSUME NEW m \in {"loose", "late", "cut"}, NEW h \in BOOLEAN, Remember(m, h)
        PROVE  /\ mishaps' \subseteq mishaps \union {"loose", "late", "cut"}
               /\ "loose" \notin mishaps' => mishaps \subseteq mishaps'
    BY <1>1, Remembers
  <1>2. CASE Notification
    BY <1>1, <1>2 DEF Notification
  <1>3. CASE GiveUp
    BY <1>1, <1>3 DEF GiveUp, Running
  <1>4. CASE InvokeAgain
    BY <1>1, <1>4 DEF InvokeAgain
  <1>5. CASE Restart
    BY <1>1, <1>5 DEF Restart, Running
  <1>6. ASSUME NEW l \in Call, LambdaFails(l)
        PROVE  /\ mishaps' \subseteq mishaps \union {"loose", "late", "cut"}
               /\ "loose" \notin mishaps' => mishaps \subseteq mishaps'
    BY <1>1, <1>6 DEF LambdaFails, At
  <1>7. ASSUME NEW l \in Call, LambdaStep(l) PROVE mishaps' = mishaps
    BY <1>7 DEF LambdaStep, PutEndpoint, PutRefused, SnsSubscribe, SnsUnsubscribe, AddInterim,
                DeleteItem, SnsConfirm, RemoveInterim, UpdateItem
  <1>8. EditSub \/ RemoveSub \/ ForceRemoveSub \/ Confirm \/ Unsub => mishaps' = mishaps
    BY DEF EditSub, RemoveSub, ForceRemoveSub, Confirm, Unsub
  <1>9. ReturnedOk \/ ReturnedError => mishaps' = mishaps
    BY DEF ReturnedOk, ReturnedError
  <1>10. Asked \/ Arrival \/ Shrunk \/ UNCHANGED vars => mishaps' = mishaps
    BY DEF Asked, Arrival, Shrunk, Ask, Receive, ReceiveRetried, Wait, Refuse, vars
  <1> QED
    BY <1>2, <1>3, <1>4, <1>5, <1>6, <1>7, <1>8, <1>9, <1>10, Cases DEF Turned, Ended, Cloudy

LEMMA Loads ==
  ASSUME NEW r \in RowType
  PROVE  /\ Loaded(r) \in [arn : ArnNull] \union {None}
         /\ r.auth = None => Loaded(r) = None
         /\ r.auth # None => Loaded(r) = [arn |-> r.arn] /\ Loaded(r) # None
  BY SubscriptionsConstants DEF Loaded, RowType, ArnNull

\* Somebody joins the queue.
LEMMA Arrived ==
  ASSUME IInv, Asked \/ Arrival
  PROVE  /\ UNCHANGED <<row, issued, cached, op, cloud>>
         /\ \E w \in WaiterType : WaiterOK(w) /\ queue' = Append(queue, w)
  <1>1. CASE Asked
    <2>1. PICK kind \in {"edit", "remove", "force"} : Ask(kind)
      BY <1>1 DEF Asked
    <2>2. [kind |-> kind, arn |-> None] \in WaiterType /\ WaiterOK([kind |-> kind, arn |-> None])
      BY DEF WaiterType, Kinds, ArnNull, WaiterOK
    <2> QED
      BY <2>1, <2>2 DEF Ask, Wait
  <1>2. ASSUME NEW k \in Arn, NEW kind \in {"confirm", "unsub", "notify"}, Receive(kind, k)
        PROVE  /\ UNCHANGED <<row, issued, cached, op, cloud>>
               /\ \E w \in WaiterType : WaiterOK(w) /\ queue' = Append(queue, w)
    <2>1. [kind |-> kind, arn |-> k] \in WaiterType /\ WaiterOK([kind |-> kind, arn |-> k])
      BY <1>2 DEF WaiterType, Kinds, ArnNull, WaiterOK, Receive, Once, Left
    <2> QED
      BY <1>2, <2>1 DEF Receive, Wait
  <1>3. CASE ReceiveRetried
    <2>1. Once(item.arn)
      BY <1>3 DEF ReceiveRetried, IInv, RowInv
    <2>2. /\ [kind |-> "notify", arn |-> item.arn] \in WaiterType
          /\ WaiterOK([kind |-> "notify", arn |-> item.arn])
      BY <2>1 DEF WaiterType, Kinds, ArnNull, WaiterOK, Once
    <2> QED
      BY <1>3, <2>2 DEF ReceiveRetried, Wait
  <1> QED
    BY <1>1, <1>2, <1>3 DEF Arrival

\* Somebody is let in.
LEMMA LetIn ==
  ASSUME IInv, NEW kind, Turn(kind)
  PROVE  /\ op = NoOp /\ queue # <<>> /\ Head(queue).kind = kind /\ queue' = Tail(queue)
         /\ Head(queue) \in WaiterType /\ WaiterOK(Head(queue))
  <1>1. queue \in Seq(WaiterType) /\ queue # <<>>
    BY DEF IInv, Typed, Turn
  <1>2. Head(queue) \in WaiterType /\ 1 \in DOMAIN queue /\ Head(queue) = queue[1]
    BY <1>1, RestWasThere
  <1> QED
    BY <1>2 DEF IInv, QueueInv, Turn

\* The lambda is invoked: another invocation than the one that is waited for.
LEMMA Invoked ==
  ASSUME IInv, NEW kind \in Kinds, NEW api \in {"Subscribe", "Unsubscribe", "Confirm"},
         NEW url \in AuthNull, NEW arn \in ArnNull, Invoke(kind, api, url, arn)
  PROVE  \E l \in Call :
           /\ lambda[l].pc = "off"
           /\ op' = [kind |-> kind, arn |-> arn, call |-> l] /\ op' \in OpType
           /\ lambda' \in [Call -> LambdaType]
           /\ lambda'[l] = [pc |-> "start", api |-> api, url |-> url, arn |-> arn]
           /\ \A m \in Call \ {l} : lambda'[m] = lambda[m]
  <1>1. PICK l \in Call :
          /\ lambda[l].pc = "off"
          /\ lambda' = [lambda EXCEPT ![l] = [pc |-> "start", api |-> api, url |-> url, arn |-> arn]]
          /\ op' = [kind |-> kind, arn |-> arn, call |-> l]
    BY DEF Invoke
  <1>2. [pc |-> "start", api |-> api, url |-> url, arn |-> arn] \in LambdaType
    BY DEF LambdaType
  <1>3. op' \in OpType
    BY <1>1 DEF OpType
  <1> QED
    BY <1>1, <1>2, <1>3 DEF IInv, Typed

----------------------------------------------------------------------------
(* SNS: what was confirmed stays so, and what is left is not come back to *)

LEMMA SnsChanges ==
  ASSUME IInv, [Next]_vars
  PROVE  \/ sns' = sns
         \/ \E k \in Arn, url \in AuthNull, state \in States :
              /\ sns' = [sns EXCEPT ![k] = [url |-> url, state |-> state]]
              /\ Once(k) => state \in {"confirmed", "leaving", "gone"}
              /\ Left(k) => state \in {"leaving", "gone"}
  <1> DEFINE Goal == \/ sns' = sns
                     \/ \E k \in Arn, url \in AuthNull, state \in States :
                          /\ sns' = [sns EXCEPT ![k] = [url |-> url, state |-> state]]
                          /\ Once(k) => state \in {"confirmed", "leaving", "gone"}
                          /\ Left(k) => state \in {"leaving", "gone"}
  <1> sns \in [Arn -> SnsType]
    BY DEF IInv, Typed
  <1>0. ASSUME NEW k \in Arn, NEW state \in States, sns' = [sns EXCEPT ![k].state = state],
               Once(k) => state \in {"confirmed", "leaving", "gone"},
               Left(k) => state \in {"leaving", "gone"}
        PROVE  Goal
    <2>1. [sns[k] EXCEPT !.state = state] = [url |-> sns[k].url, state |-> state]
          /\ sns[k].url \in AuthNull
      BY DEF SnsType
    <2>2. sns' = [sns EXCEPT ![k] = [url |-> sns[k].url, state |-> state]]
      BY <1>0, <2>1
    <2> QED
      BY <1>0, <2>1, <2>2
  <1>1. CASE Unsub
    <2>1. Turn("unsub") /\ sns' = [sns EXCEPT ![Head(queue).arn].state = "gone"]
      BY <1>1 DEF Unsub
    <2>2. Head(queue).arn \in Arn
      BY <2>1, LetIn DEF WaiterOK
    <2> QED
      BY <1>0, <2>1, <2>2 DEF States
  <1>2. ASSUME NEW l \in Call, SnsSubscribe(l) PROVE Goal
    <2>1. CASE sns' # sns
      <3>1. PICK k \in HasState("new") :
              sns' = [sns EXCEPT ![k] = [url |-> lambda[l].url, state |-> "pending"]]
        BY <1>2, <2>1 DEF SnsSubscribe
      <3>2. k \in Arn /\ ~Once(k) /\ ~Left(k) /\ lambda[l].url \in AuthNull
        BY <3>1 DEF HasState, Once, Left, IInv, Typed, LambdaType
      <3> QED
        BY <3>1, <3>2 DEF States
    <2> QED
      BY <2>1
  <1>3. ASSUME NEW l \in Call, SnsUnsubscribe(l) PROVE Goal
    <2> DEFINE k == lambda[l].arn
               state == IF sns[k].state = "confirmed" THEN "leaving" ELSE sns[k].state
    <2>1. Once(k)
      BY <1>3 DEF SnsUnsubscribe, At, IInv, LambdaInv, CallOK
    <2>2. k \in Arn /\ state \in {"leaving", "gone"} /\ sns' = [sns EXCEPT ![k].state = state]
      BY <1>3, <2>1 DEF SnsUnsubscribe, Once
    <2> HIDE DEF k, state
    <2> QED
      BY <1>0, <2>2 DEF States
  <1>4. ASSUME NEW l \in Call, SnsConfirm(l) PROVE Goal
    <2>1. /\ lambda[l].arn \in Arn /\ ~Left(lambda[l].arn)
          /\ sns' = [sns EXCEPT ![lambda[l].arn].state = "confirmed"]
      BY <1>4 DEF SnsConfirm, At, IInv, LambdaInv, CallOK, Left
    <2> QED
      BY <1>0, <2>1 DEF States
  <1>5. ASSUME NEW l \in Call, Cloudy(l), ~SnsSubscribe(l), ~SnsUnsubscribe(l), ~SnsConfirm(l)
        PROVE  sns' = sns
    BY <1>5 DEF Cloudy, LambdaStep, LambdaFails, PutEndpoint, PutRefused, AddInterim, DeleteItem,
                RemoveInterim, UpdateItem
  <1>6. Turned /\ ~Unsub => sns' = sns
    BY DEF Turned, EditSub, RemoveSub, ForceRemoveSub, Confirm, Notification, cloud
  <1>7. Asked \/ Arrival => sns' = sns
    BY Arrived DEF cloud
  <1>8. Shrunk \/ Ended \/ InvokeAgain \/ UNCHANGED vars => sns' = sns
    BY DEF Shrunk, Refuse, Ended, ReturnedOk, ReturnedError, GiveUp, Restart, InvokeAgain, vars, cloud
  <1> QED
    BY <1>1, <1>2, <1>3, <1>4, <1>5, <1>6, <1>7, <1>8, Cases

LEMMA Monotone ==
  ASSUME IInv, [Next]_vars
  PROVE  /\ sns' \in [Arn -> SnsType]
         /\ \A k : (Once(k) => Once(k)') /\ (Left(k) => Left(k)')
  <1> sns \in [Arn -> SnsType]
    BY DEF IInv, Typed
  <1>1. CASE sns' = sns
    BY <1>1 DEF Once, Left
  <1>2. ASSUME NEW k \in Arn, NEW url \in AuthNull, NEW state \in States,
               sns' = [sns EXCEPT ![k] = [url |-> url, state |-> state]],
               Once(k) => state \in {"confirmed", "leaving", "gone"},
               Left(k) => state \in {"leaving", "gone"}
        PROVE  /\ sns' \in [Arn -> SnsType]
               /\ \A j : (Once(j) => Once(j)') /\ (Left(j) => Left(j)')
    <2>1. [url |-> url, state |-> state] \in SnsType
      BY DEF SnsType
    <2>2. \A j \in Arn : sns'[j] = IF j = k THEN [url |-> url, state |-> state] ELSE sns[j]
      BY <1>2
    <2> QED
      BY <1>2, <2>1, <2>2 DEF Once, Left
  <1> QED
    BY <1>1, <1>2, SnsChanges

----------------------------------------------------------------------------
(* The invocations *)

\* A step of one invocation.
LEMMA CloudyFrame ==
  ASSUME IInv, NEW l \in Call, Cloudy(l)
  PROVE  /\ UNCHANGED server /\ lambda[l].pc # "off"
         /\ lambda' \in [Call -> LambdaType] /\ \A m \in Call \ {l} : lambda'[m] = lambda[m]
         /\ \/ lambda'[l].pc = "off" /\ op.call # l
            \/ /\ lambda'[l].pc # "off"
               /\ lambda'[l].api = lambda[l].api /\ lambda'[l].arn = lambda[l].arn
  <1> lambda \in [Call -> LambdaType] /\ lambda[l] \in LambdaType
    BY DEF IInv, Typed
  <1>1. UNCHANGED server /\ lambda[l].pc # "off"
    BY DEF Cloudy, LambdaStep, LambdaFails, PutEndpoint, PutRefused, SnsSubscribe, SnsUnsubscribe,
           AddInterim, DeleteItem, SnsConfirm, RemoveInterim, UpdateItem, At, Running
  <1>2. \/ \E pc \in {"sns", "interim", "item"} : Goto(l, pc)
        \/ Reply(l, "ok") \/ Reply(l, "failed")
    BY DEF Cloudy, LambdaStep, LambdaFails, PutEndpoint, PutRefused, SnsSubscribe, SnsUnsubscribe,
           AddInterim, DeleteItem, SnsConfirm, RemoveInterim, UpdateItem
  <1>3. ASSUME NEW pc \in {"sns", "interim", "item", "ok", "failed"},
               lambda' = [lambda EXCEPT ![l] = [lambda[l] EXCEPT !.pc = pc]]
        PROVE  /\ lambda' \in [Call -> LambdaType] /\ \A m \in Call \ {l} : lambda'[m] = lambda[m]
               /\ lambda'[l].pc # "off"
               /\ lambda'[l].api = lambda[l].api /\ lambda'[l].arn = lambda[l].arn
    BY <1>3 DEF LambdaType
  <1>4. ASSUME lambda' = [lambda EXCEPT ![l] = OffCall]
        PROVE  /\ lambda' \in [Call -> LambdaType] /\ \A m \in Call \ {l} : lambda'[m] = lambda[m]
               /\ lambda'[l].pc = "off"
    BY <1>4, Nothing
  <1> QED
    BY <1>1, <1>2, <1>3, <1>4 DEF Goto, Reply

LEMMA CloudyCall == ASSUME IInv, NEW l \in Call, Cloudy(l) PROVE lambda'[l].pc # "off" => CallOK(lambda[l])'
  <1> /\ lambda \in [Call -> LambdaType] /\ lambda[l] \in LambdaType /\ sns \in [Arn -> SnsType]
      /\ CallOK(lambda[l])
    BY CloudyFrame DEF IInv, Typed, LambdaInv
  <1> SUFFICES ASSUME lambda'[l].pc # "off" PROVE CallOK(lambda[l])'
    OBVIOUS
  <1>1. lambda'[l].api = lambda[l].api /\ lambda'[l].arn = lambda[l].arn
    BY CloudyFrame
  <1>2. [Next]_vars
    BY DEF Cloudy, Next, Unattended
  <1>3. \A k : (Once(k) => Once(k)') /\ (Left(k) => Left(k)')
    BY <1>2, Monotone
  <1>4. CASE SnsConfirm(l)
    <2>1. /\ lambda[l].api = "Confirm" /\ lambda[l].arn \in Arn
          /\ sns' = [sns EXCEPT ![lambda[l].arn].state = "confirmed"]
      BY <1>4 DEF SnsConfirm, At, CallOK
    <2>2. Once(lambda[l].arn)'
      BY <1>1, <2>1 DEF Once, SnsType
    <2> QED
      BY <1>1, <2>1, <2>2 DEF CallOK
  <1>5. CASE SnsUnsubscribe(l)
    <2> DEFINE k == lambda[l].arn
               state == IF sns[k].state = "confirmed" THEN "leaving" ELSE sns[k].state
    <2>1. lambda[l].api = "Unsubscribe" /\ Once(k)
      BY <1>5 DEF SnsUnsubscribe, At, CallOK
    <2>2. k \in Arn /\ state \in {"leaving", "gone"} /\ sns' = [sns EXCEPT ![k].state = state]
      BY <1>5, <2>1 DEF SnsUnsubscribe, Once
    <2>3. lambda'[l].arn = k
      BY <1>1
    <2> HIDE DEF k, state
    <2>4. k \in Arn /\ sns'[k].state \in {"leaving", "gone"}
      BY <2>2 DEF SnsType
    <2>5. Left(lambda[l].arn)' /\ Once(lambda[l].arn)'
      BY <2>3, <2>4 DEF Left, Once
    <2> QED
      BY <1>1, <2>1, <2>5 DEF CallOK
  <1>6. CASE ~SnsConfirm(l) /\ ~SnsUnsubscribe(l)
    <2>1. /\ lambda[l].api = "Confirm" /\ lambda'[l].pc \in Beyond => lambda[l].pc \in Beyond
          /\ lambda[l].api = "Unsubscribe" /\ lambda'[l].pc \in Beyond => lambda[l].pc \in Beyond
      BY <1>6 DEF Cloudy, LambdaStep, LambdaFails, PutEndpoint, PutRefused, SnsSubscribe, AddInterim,
                  DeleteItem, RemoveInterim, UpdateItem, At, Goto, Reply, Beyond, LambdaType, OffCall
    <2>2. /\ Once(lambda[l].arn) => Once(lambda[l].arn)'
          /\ Left(lambda[l].arn) => Left(lambda[l].arn)'
      BY <1>1, <1>3 DEF Once, Left
    <2> QED
      BY <1>1, <2>1, <2>2 DEF CallOK
  <1> QED
    BY <1>4, <1>5, <1>6

----------------------------------------------------------------------------
(* The callbacks *)

\* What a callback does to the row and the cache, and what it waits for.
LEMMA TurnedDoes ==
  ASSUME IInv, Turned
  PROVE  /\ op = NoOp /\ queue # <<>> /\ queue' = Tail(queue) /\ UNCHANGED <<interim, item>>
         /\ row' \in RowType /\ issued' \subseteq Auth /\ cached' = Loaded(row')
         /\ row' = row \/ row' = NoRow \/ row'.arn = None
            \/ (row'.auth # None /\ row'.arn = Head(queue).arn /\ Head(queue).kind = "notify")
         /\ row.arn # None /\ ~Unsub => row' = row
         /\ \/ UNCHANGED <<op, lambda>>
            \/ \E url \in Auth : row'.auth # None /\ row'.arn = None
                                 /\ Invoke("edit", "Subscribe", url, None)
            \/ /\ row'.auth # None /\ Head(queue).arn \in Arn
               /\ Invoke("confirm", "Confirm", None, Head(queue).arn)
            \/ /\ row'.arn # None /\ row' = row /\ Invoke("force", "Unsubscribe", None, row.arn)
  <1> /\ row \in RowType /\ issued \subseteq Auth /\ cached = Loaded(row)
      /\ None \notin Auth /\ None \notin Arn /\ (row.auth = None => row.arn = None)
    BY Nothing DEF IInv, Typed, CacheIsTable, RowInv
  <1>0. cached # None => row.auth # None /\ cached = [arn |-> row.arn] /\ cached.arn = row.arn
    BY Loads
  <1>1. CASE EditSub
    <2>1. Turn("edit") /\ UNCHANGED <<interim, item>> /\ cached' = Loaded(row')
      BY <1>1 DEF EditSub
    <2>2. /\ row' \in RowType /\ issued' \subseteq Auth /\ row'.auth # None
          /\ row' = row \/ (row'.arn = None /\ row.arn = None)
      BY <1>1 DEF EditSub, RowType, AuthNull, ArnNull
    <2>3. UNCHANGED <<op, lambda>> \/ (row.arn = None /\ Invoke("edit", "Subscribe", row'.auth, None))
      <3>1. UNCHANGED <<op, lambda>>
            \/ ((cached = None \/ cached.arn = None) /\ Invoke("edit", "Subscribe", row'.auth, None))
        BY <1>1 DEF EditSub
      <3>2. cached = None => row.auth = None
        BY Loads
      <3>3. cached = None \/ cached.arn = None => row.arn = None
        BY <1>0, <3>2
      <3> QED
        BY <3>1, <3>3
    <2>4. row'.auth \in Auth
      BY <2>2 DEF RowType, AuthNull
    <2> QED
      BY <2>1, <2>2, <2>3, <2>4, LetIn
  <1>2. CASE RemoveSub
    <2>1. /\ Turn("remove") /\ row.arn = None /\ row' = NoRow /\ cached' = None
          /\ UNCHANGED <<issued, op, cloud>>
      BY <1>2 DEF RemoveSub
    <2> QED
      BY <2>1, LetIn, Nothing, Loads DEF cloud
  <1>3. CASE ForceRemoveSub
    <2>1. Turn("force") /\ cached # None /\ UNCHANGED <<issued, sns, interim, item>>
      BY <1>3 DEF ForceRemoveSub
    <2>2. CASE cached.arn # None
      <3>1. Invoke("force", "Unsubscribe", None, row.arn) /\ row' = row /\ cached' = cached
        BY <1>0, <1>3, <2>1, <2>2 DEF ForceRemoveSub
      <3> QED
        BY <1>0, <2>1, <2>2, <3>1, LetIn
    <2>3. CASE cached.arn = None
      <3>1. row.arn = None /\ row' = NoRow /\ cached' = None /\ UNCHANGED <<op, lambda>>
        BY <1>0, <1>3, <2>1, <2>3 DEF ForceRemoveSub
      <3> QED
        BY <2>1, <3>1, LetIn, Nothing, Loads
    <2> QED
      BY <2>2, <2>3
  <1>4. CASE Confirm
    <2>1. /\ Turn("confirm") /\ cached # None /\ UNCHANGED <<row, issued, cached, sns, interim, item>>
          /\ Invoke("confirm", "Confirm", None, Head(queue).arn)
      BY <1>4 DEF Confirm
    <2>2. Head(queue).arn \in Arn
      BY <2>1, LetIn DEF WaiterOK
    <2> QED
      BY <1>0, <2>1, <2>2, LetIn
  <1>5. CASE Unsub
    <2>1. Turn("unsub") /\ row' = NoRow /\ cached' = None /\ UNCHANGED <<issued, op, lambda, interim, item>>
      BY <1>5 DEF Unsub
    <2> QED
      BY <1>5, <2>1, LetIn, Nothing, Loads
  <1>6. CASE Notification
    <2>1. /\ Turn("notify") /\ cached # None /\ cached.arn = None /\ SetArn(Head(queue).arn)
          /\ UNCHANGED <<issued, op, cloud>>
      BY <1>6 DEF Notification
    <2>2. Head(queue).arn \in Arn /\ Head(queue).kind = "notify"
      BY <2>1, LetIn DEF WaiterOK
    <2>3. row' = [row EXCEPT !.arn = Head(queue).arn] /\ cached' = [arn |-> Head(queue).arn]
      BY <1>0, <2>1 DEF SetArn
    <2>4. row' \in RowType /\ row'.auth # None /\ row'.arn = Head(queue).arn
      BY <1>0, <2>1, <2>2, <2>3 DEF RowType, ArnNull
    <2>5. row.arn = None /\ cached' = Loaded(row')
      BY <1>0, <2>1, <2>3, <2>4, Loads
    <2>6. /\ op = NoOp /\ queue # <<>> /\ queue' = Tail(queue) /\ issued' \subseteq Auth
          /\ UNCHANGED <<op, lambda, interim, item>>
      BY <2>1, LetIn DEF cloud
    <2> QED
      BY <2>1, <2>2, <2>4, <2>5, <2>6
  <1> QED
    BY <1>1, <1>2, <1>3, <1>4, <1>5, <1>6 DEF Turned

\* What the end of a wait does to them.
LEMMA EndedDoes ==
  ASSUME IInv, Ended
  PROVE  /\ op' = NoOp /\ UNCHANGED <<issued, sns, interim, item>>
         /\ queue' = queue \/ queue' = <<>>
         /\ row' \in RowType /\ cached' = Loaded(row')
         /\ \/ row' = row
            \/ row' = NoRow /\ (row.arn # None => Left(row.arn))
            \/ row'.auth # None /\ row'.arn # None /\ Once(row'.arn)
         /\ lambda' \in [Call -> LambdaType]
         /\ \A l \in Call : lambda'[l] = lambda[l] \/ lambda'[l].pc = "off"
  <1> /\ row \in RowType /\ lambda \in [Call -> LambdaType] /\ cached = Loaded(row)
      /\ op \in OpType \union {NoOp} /\ None \notin Arn
    BY Nothing DEF IInv, Typed, CacheIsTable
  <1>1. ASSUME NEW result \in {"ok", "failed"}, Returned(result)
        PROVE  /\ op' = NoOp /\ op # NoOp /\ op.call \in Call /\ lambda[op.call].pc = result
               /\ lambda' \in [Call -> LambdaType]
               /\ \A l \in Call : lambda'[l] = lambda[l] \/ lambda'[l].pc = "off"
    <2>1. op # NoOp /\ op' = NoOp /\ lambda[op.call].pc = result
          /\ lambda' = [lambda EXCEPT ![op.call] = OffCall]
      BY <1>1 DEF Returned
    <2>2. op.call \in Call
      BY <2>1 DEF OpType
    <2> QED
      BY <2>1, <2>2, Nothing
  <1>2. CASE ReturnedError
    <2>1. Returned("failed") \/ Returned("ok")
      BY <1>2 DEF ReturnedError
    <2>2. UNCHANGED <<row, issued, cached, queue, sns, interim, item>>
      BY <1>2 DEF ReturnedError
    <2> QED
      BY <1>1, <2>1, <2>2
  <1>3. CASE ReturnedOk
    <2>1. Returned("ok") /\ UNCHANGED <<issued, queue, sns, interim, item>>
      BY <1>3 DEF ReturnedOk
    <2>2. /\ op # NoOp /\ lambda[op.call].pc = "ok" /\ lambda[op.call].arn = op.arn
          /\ CallOK(lambda[op.call])
          /\ \/ op.kind = "edit"
             \/ op.kind = "confirm" /\ lambda[op.call].api = "Confirm" /\ row.auth # None
             \/ op.kind = "force" /\ lambda[op.call].api = "Unsubscribe" /\ row.arn = op.arn
      BY <1>1, <2>1 DEF IInv, OpInv, LambdaInv
    <2>3. CASE op.kind = "edit"
      BY <1>1, <1>3, <2>1, <2>3 DEF ReturnedOk
    <2>4. CASE op.kind = "confirm"
      <3>1. SetArn(op.arn) /\ Once(op.arn) /\ row.auth # None
        BY <1>3, <2>2, <2>4 DEF ReturnedOk, CallOK, Beyond
      <3>2. row' = [row EXCEPT !.arn = op.arn] /\ cached' = [arn |-> op.arn]
        BY <3>1 DEF SetArn
      <3>3. row' \in RowType /\ row'.auth # None /\ row'.arn = op.arn /\ op.arn # None
        BY <3>1, <3>2 DEF RowType, ArnNull, Once
      <3> QED
        BY <1>1, <2>1, <3>1, <3>2, <3>3, Loads
    <2>5. CASE op.kind = "force"
      <3>1. row' = NoRow /\ cached' = None /\ Left(row.arn)
        BY <1>3, <2>2, <2>5 DEF ReturnedOk, CallOK, Beyond
      <3> QED
        BY <1>1, <2>1, <3>1, Nothing, Loads
    <2> QED
      BY <2>2, <2>3, <2>4, <2>5
  <1>4. CASE GiveUp
    <2>1. op # NoOp /\ op' = NoOp /\ UNCHANGED <<row, issued, cached, queue, sns, interim, item>>
      BY <1>4 DEF GiveUp
    <2>2. op.call \in Call
      BY <2>1 DEF OpType
    <2>3. lambda' = lambda \/ lambda' = [lambda EXCEPT ![op.call] = OffCall]
      BY <1>4, <2>2 DEF GiveUp
    <2> QED
      BY <2>1, <2>2, <2>3, Nothing
  <1>5. CASE Restart
    BY <1>5, Nothing DEF Restart
  <1> QED
    BY <1>2, <1>3, <1>4, <1>5 DEF Ended

\* The SDK's retry invokes what was invoked before.
LEMMA AgainDoes ==
  ASSUME IInv, InvokeAgain
  PROVE  /\ UNCHANGED <<row, issued, cached, queue, sns, interim, item>>
         /\ op \in OpType /\ op # NoOp /\ lambda[op.call].arn = op.arn
         /\ lambda[op.call].api \in {"Subscribe", "Unsubscribe", "Confirm"}
         /\ lambda[op.call].url \in AuthNull
         /\ Invoke(op.kind, lambda[op.call].api, lambda[op.call].url, op.arn)
  <1>1. /\ op # NoOp /\ UNCHANGED <<row, issued, cached, queue, sns, interim, item>>
        /\ Invoke(op.kind, lambda[op.call].api, lambda[op.call].url, lambda[op.call].arn)
    BY DEF InvokeAgain
  <1>2. op \in OpType /\ op.call \in Call
    BY <1>1 DEF IInv, Typed, OpType
  <1>3. /\ lambda[op.call].arn = op.arn
        /\ lambda[op.call].api \in {"Subscribe", "Unsubscribe", "Confirm"}
    BY <1>1 DEF IInv, OpInv
  <1>4. lambda[op.call].url \in AuthNull
    BY <1>2 DEF IInv, Typed, LambdaType
  <1> QED
    BY <1>1, <1>2, <1>3, <1>4

\* What the lambda writes into the item.
LEMMA ItemDoes ==
  ASSUME IInv, NEW l \in Call, Cloudy(l)
  PROVE  /\ item' \in ItemType /\ interim' \in BOOLEAN
         /\ item'.arn = None \/ item'.arn = item.arn \/ Once(item'.arn)
  <1> item \in ItemType /\ interim \in BOOLEAN /\ lambda[l] \in LambdaType
    BY DEF IInv, Typed
  <1>1. CASE PutEndpoint(l)
    <2>1. item' = [url |-> lambda[l].url, arn |-> None] /\ interim' = interim
      BY <1>1 DEF PutEndpoint
    <2>2. item' \in ItemType /\ item'.arn = None
      BY <2>1 DEF ItemType, LambdaType, ArnNull
    <2> QED
      BY <2>1, <2>2
  <1>2. CASE UpdateItem(l)
    <2>1. /\ lambda[l].api = "Confirm" /\ lambda[l].pc = "item" /\ interim' = interim
          /\ item' = [item EXCEPT !.arn = lambda[l].arn]
      BY <1>2 DEF UpdateItem, At
    <2>2. Once(lambda[l].arn)
      BY <2>1 DEF IInv, LambdaInv, CallOK, Beyond
    <2>3. item' \in ItemType /\ item'.arn = lambda[l].arn
      BY <2>1 DEF ItemType, LambdaType
    <2> QED
      BY <2>1, <2>2, <2>3
  <1>3. CASE DeleteItem(l)
    BY <1>3, Nothing DEF DeleteItem
  <1>4. CASE ~PutEndpoint(l) /\ ~UpdateItem(l) /\ ~DeleteItem(l)
    BY <1>4 DEF Cloudy, LambdaStep, LambdaFails, PutRefused, SnsSubscribe, SnsUnsubscribe, AddInterim,
                SnsConfirm, RemoveInterim
  <1> QED
    BY <1>1, <1>2, <1>3, <1>4

----------------------------------------------------------------------------
(* Every step keeps the parts of the invariant *)

\* What a step does to the callback that waits and to the invocations: nothing, an
\* end, a new invocation, or a step of one.
LEMMA OpSteps ==
  ASSUME IInv, [Next]_vars
  PROVE  \/ UNCHANGED <<op, lambda>>
         \/ /\ op' = NoOp /\ lambda' \in [Call -> LambdaType]
            /\ \A l \in Call : lambda'[l] = lambda[l] \/ lambda'[l].pc = "off"
         \/ \E l \in Call :
              /\ lambda[l].pc = "off" /\ lambda' \in [Call -> LambdaType] /\ op' \in OpType
              /\ \A m \in Call \ {l} : lambda'[m] = lambda[m]
              /\ op'.call = l /\ lambda'[l].pc = "start" /\ lambda'[l].arn = op'.arn
              /\ \/ op'.kind = "edit" /\ lambda'[l].api = "Subscribe"
                 \/ /\ op'.kind = "confirm" /\ lambda'[l].api = "Confirm"
                    /\ row'.auth # None /\ op'.arn \in Arn
                 \/ /\ op'.kind = "force" /\ lambda'[l].api = "Unsubscribe"
                    /\ row'.arn = op'.arn /\ row' = row /\ row.arn # None
         \/ UNCHANGED <<op, row>> /\ \E l \in Call : Cloudy(l)
  <1> DEFINE New(l) ==
               /\ lambda[l].pc = "off" /\ lambda' \in [Call -> LambdaType] /\ op' \in OpType
               /\ \A m \in Call \ {l} : lambda'[m] = lambda[m]
               /\ op'.call = l /\ lambda'[l].pc = "start" /\ lambda'[l].arn = op'.arn
               /\ \/ op'.kind = "edit" /\ lambda'[l].api = "Subscribe"
                  \/ /\ op'.kind = "confirm" /\ lambda'[l].api = "Confirm"
                     /\ row'.auth # None /\ op'.arn \in Arn
                  \/ /\ op'.kind = "force" /\ lambda'[l].api = "Unsubscribe"
                     /\ row'.arn = op'.arn /\ row' = row /\ row.arn # None
  <1>1. CASE Turned
    <2>1. ASSUME NEW url \in Auth, row'.auth # None, Invoke("edit", "Subscribe", url, None)
          PROVE  \E l \in Call : New(l)
      <3>1. None \in ArnNull /\ "edit" \in Kinds /\ url \in AuthNull
        BY DEF ArnNull, Kinds, AuthNull
      <3>2. PICK l \in Call :
              /\ lambda[l].pc = "off" /\ op' \in OpType /\ lambda' \in [Call -> LambdaType]
              /\ op' = [kind |-> "edit", arn |-> None, call |-> l]
              /\ lambda'[l] = [pc |-> "start", api |-> "Subscribe", url |-> url, arn |-> None]
              /\ \A m \in Call \ {l} : lambda'[m] = lambda[m]
        BY <2>1, <3>1, Invoked
      <3>3. New(l)
        BY <2>1, <3>2
      <3> QED
        BY <3>3
    <2>2. ASSUME row'.auth # None, Head(queue).arn \in Arn,
                 Invoke("confirm", "Confirm", None, Head(queue).arn)
          PROVE  \E l \in Call : New(l)
      <3>1. Head(queue).arn \in ArnNull /\ None \in AuthNull /\ "confirm" \in Kinds
        BY <2>2 DEF ArnNull, AuthNull, Kinds
      <3>2. PICK l \in Call :
              /\ lambda[l].pc = "off" /\ op' \in OpType /\ lambda' \in [Call -> LambdaType]
              /\ op' = [kind |-> "confirm", arn |-> Head(queue).arn, call |-> l]
              /\ lambda'[l] = [pc |-> "start", api |-> "Confirm", url |-> None, arn |-> Head(queue).arn]
              /\ \A m \in Call \ {l} : lambda'[m] = lambda[m]
        BY <2>2, <3>1, Invoked
      <3>3. New(l)
        BY <2>2, <3>2
      <3> QED
        BY <3>3
    <2>3. ASSUME row'.arn # None, row' = row, Invoke("force", "Unsubscribe", None, row.arn)
          PROVE  \E l \in Call : New(l)
      <3>1. row.arn \in ArnNull /\ None \in AuthNull /\ "force" \in Kinds
        BY DEF ArnNull, AuthNull, Kinds, IInv, Typed, RowType
      <3>2. PICK l \in Call :
              /\ lambda[l].pc = "off" /\ op' \in OpType /\ lambda' \in [Call -> LambdaType]
              /\ op' = [kind |-> "force", arn |-> row.arn, call |-> l]
              /\ lambda'[l] = [pc |-> "start", api |-> "Unsubscribe", url |-> None, arn |-> row.arn]
              /\ \A m \in Call \ {l} : lambda'[m] = lambda[m]
        BY <2>3, <3>1, Invoked
      <3>3. New(l)
        BY <2>3, <3>2
      <3> QED
        BY <3>3
    <2> QED
      BY <1>1, <2>1, <2>2, <2>3, TurnedDoes
  <1>2. CASE InvokeAgain
    <2>1. /\ op.kind \in Kinds /\ op.arn \in ArnNull /\ row' = row
          /\ \/ op.kind = "edit" /\ lambda[op.call].api = "Subscribe"
             \/ op.kind = "confirm" /\ lambda[op.call].api = "Confirm" /\ row.auth # None
                /\ op.arn \in Arn
             \/ op.kind = "force" /\ lambda[op.call].api = "Unsubscribe" /\ row.arn = op.arn
                /\ row.arn # None
      <3>1. op \in OpType /\ op # NoOp /\ op.call \in Call /\ row' = row
        BY <1>2, AgainDoes DEF OpType
      <3>2. /\ CallOK(lambda[op.call]) /\ lambda[op.call].arn = op.arn
            /\ \/ op.kind = "edit" /\ lambda[op.call].api = "Subscribe"
               \/ op.kind = "confirm" /\ lambda[op.call].api = "Confirm" /\ row.auth # None
               \/ op.kind = "force" /\ lambda[op.call].api = "Unsubscribe" /\ row.arn = op.arn
        BY <3>1 DEF IInv, OpInv, LambdaInv
      <3> QED
        BY <3>1, <3>2, Nothing DEF CallOK, Once, OpType
    <2>2. \E l \in Call :
            /\ lambda[l].pc = "off" /\ op' \in OpType /\ lambda' \in [Call -> LambdaType]
            /\ op' = [kind |-> op.kind, arn |-> op.arn, call |-> l]
            /\ lambda'[l] = [pc |-> "start", api |-> lambda[op.call].api,
                             url |-> lambda[op.call].url, arn |-> op.arn]
            /\ \A m \in Call \ {l} : lambda'[m] = lambda[m]
      BY <1>2, <2>1, AgainDoes, Invoked
    <2>3. \E l \in Call : New(l)
      BY <2>1, <2>2
    <2> QED
      BY <2>3
  <1>3. CASE Asked \/ Arrival
    BY <1>3, Arrived DEF cloud
  <1>4. CASE Shrunk \/ UNCHANGED vars
    BY <1>4 DEF Shrunk, Refuse, vars, cloud
  <1>5. CASE Ended
    BY <1>5, EndedDoes
  <1>6. ASSUME NEW l \in Call, Cloudy(l) PROVE UNCHANGED <<op, row>>
    BY <1>6, CloudyFrame DEF server
  <1> QED
    BY <1>1, <1>2, <1>3, <1>4, <1>5, <1>6, Cases

LEMMA TypedStep == ASSUME IInv, [Next]_vars PROVE Typed'
  <1> Typed
    BY DEF IInv
  <1>1. sns' \in [Arn -> SnsType]
    BY Monotone
  <1>2. op' \in OpType \union {NoOp} /\ lambda' \in [Call -> LambdaType]
    <2>1. \A l \in Call : Cloudy(l) => lambda' \in [Call -> LambdaType]
      BY CloudyFrame
    <2> QED
      BY <2>1, OpSteps DEF Typed
  <1>3. queue' \in Seq(WaiterType)
    <2> queue \in Seq(WaiterType)
      BY DEF Typed
    <2>1. CASE Asked \/ Arrival
      BY <2>1, Arrived, RestWasThere
    <2>2. CASE Shrunk
      BY <2>2, RestWasThere DEF Shrunk, Refuse
    <2>3. CASE Turned
      BY <2>3, TurnedDoes, RestWasThere
    <2>4. CASE Ended
      <3>1. <<>> \in Seq(WaiterType)
        OBVIOUS
      <3> QED
        BY <2>4, <3>1, EndedDoes
    <2>5. CASE InvokeAgain \/ UNCHANGED vars
      BY <2>5, AgainDoes DEF vars
    <2>6. \A l \in Call : Cloudy(l) => queue' = queue
      BY CloudyFrame DEF server
    <2> QED
      BY <2>1, <2>2, <2>3, <2>4, <2>5, <2>6, Cases
  <1>4. /\ row' \in RowType /\ issued' \subseteq Auth
        /\ cached' \in [arn : ArnNull] \union {None}
        /\ interim' \in BOOLEAN /\ item' \in ItemType
    <2>1. CASE Turned
      BY <2>1, TurnedDoes, Loads DEF Typed
    <2>2. CASE Ended
      BY <2>2, EndedDoes, Loads DEF Typed
    <2>3. CASE Asked \/ Arrival
      BY <2>3, Arrived DEF Typed, cloud
    <2>4. CASE Shrunk \/ UNCHANGED vars
      BY <2>4 DEF Typed, Shrunk, Refuse, vars, cloud
    <2>5. CASE InvokeAgain
      BY <2>5, AgainDoes DEF Typed
    <2>6. ASSUME NEW l \in Call, Cloudy(l)
          PROVE  /\ row' \in RowType /\ issued' \subseteq Auth
                 /\ cached' \in [arn : ArnNull] \union {None}
                 /\ interim' \in BOOLEAN /\ item' \in ItemType
      BY <2>6, CloudyFrame, ItemDoes DEF Typed, server
    <2> QED
      BY <2>1, <2>2, <2>3, <2>4, <2>5, <2>6, Cases
  <1>5. mishaps' \subseteq {"loose", "late", "cut"}
    BY Grows DEF Typed
  <1> QED
    BY <1>1, <1>2, <1>3, <1>4, <1>5 DEF Typed

LEMMA CacheStep == ASSUME IInv, [Next]_vars PROVE CacheIsTable'
  <1> cached = Loaded(row)
    BY DEF IInv, CacheIsTable
  <1>1. CASE Turned \/ Ended
    BY <1>1, TurnedDoes, EndedDoes DEF CacheIsTable, Loaded
  <1>2. CASE UNCHANGED <<row, cached>>
    BY <1>2 DEF CacheIsTable, Loaded
  <1>3. Asked \/ Arrival \/ Shrunk \/ InvokeAgain \/ UNCHANGED vars => UNCHANGED <<row, cached>>
    BY Arrived, AgainDoes DEF Shrunk, Refuse, vars
  <1>4. \A l \in Call : Cloudy(l) => UNCHANGED <<row, cached>>
    BY CloudyFrame DEF server
  <1> QED
    BY <1>1, <1>2, <1>3, <1>4, Cases

LEMMA QueueStep == ASSUME IInv, [Next]_vars PROVE QueueInv'
  <1> queue \in Seq(WaiterType)
    BY DEF IInv, Typed
  <1>1. ASSUME NEW w, WaiterOK(w)
        PROVE  /\ w.kind \in {"confirm", "unsub", "notify"} => w.arn \in Arn
               /\ w.kind = "notify" => Once(w.arn)'
               /\ w.kind = "unsub" => Left(w.arn)'
    BY <1>1, Monotone DEF WaiterOK
  <1>2. \A i \in DOMAIN queue' :
          \/ \E j \in DOMAIN queue : queue'[i] = queue[j]
          \/ \E w \in WaiterType : WaiterOK(w) /\ queue'[i] = w
    <2>1. CASE Asked \/ Arrival
      BY <2>1, Arrived, RestWasThere
    <2>2. CASE Shrunk
      BY <2>2, RestWasThere DEF Shrunk, Refuse
    <2>3. CASE Turned
      <3>1. queue # <<>> /\ queue' = Tail(queue)
        BY <2>3, TurnedDoes
      <3>2. \A j \in DOMAIN Tail(queue) : \E i \in DOMAIN queue : Tail(queue)[j] = queue[i]
        BY <3>1, RestWasThere
      <3> QED
        BY <3>1, <3>2
    <2>4. CASE Ended
      BY <2>4, EndedDoes
    <2>5. CASE InvokeAgain \/ UNCHANGED vars
      BY <2>5, AgainDoes DEF vars
    <2>6. \A l \in Call : Cloudy(l) => queue' = queue
      BY CloudyFrame DEF server
    <2> QED
      BY <2>1, <2>2, <2>3, <2>4, <2>5, <2>6, Cases
  <1>3. \A i \in DOMAIN queue' : WaiterOK(queue'[i])
    BY <1>2 DEF IInv, QueueInv
  <1> QED
    BY <1>1, <1>3 DEF QueueInv, WaiterOK

LEMMA LambdaInvStep == ASSUME IInv, [Next]_vars PROVE LambdaInv'
  <1>1. ASSUME NEW l \in Call, lambda[l].pc # "off", lambda'[l] = lambda[l] PROVE CallOK(lambda[l])'
    <2>1. CallOK(lambda[l])
      BY <1>1 DEF IInv, LambdaInv
    <2>2. /\ Once(lambda[l].arn) => Once(lambda[l].arn)'
          /\ Left(lambda[l].arn) => Left(lambda[l].arn)'
      BY <1>1, Monotone DEF Once, Left
    <2> QED
      BY <1>1, <2>1, <2>2 DEF CallOK
  <1>2. CASE UNCHANGED <<op, lambda>>
    BY <1>1, <1>2 DEF LambdaInv
  <1>3. CASE \A l \in Call : lambda'[l] = lambda[l] \/ lambda'[l].pc = "off"
    BY <1>1, <1>3 DEF LambdaInv
  <1>4. ASSUME NEW l \in Call, \A m \in Call \ {l} : lambda'[m] = lambda[m],
               lambda'[l].pc = "start", lambda'[l].arn = op'.arn,
               \/ op'.kind = "edit" /\ lambda'[l].api = "Subscribe"
               \/ op'.kind = "confirm" /\ lambda'[l].api = "Confirm" /\ op'.arn \in Arn
               \/ /\ op'.kind = "force" /\ lambda'[l].api = "Unsubscribe"
                  /\ row'.arn = op'.arn /\ row' = row /\ row.arn # None
        PROVE  LambdaInv'
    <2>1. ASSUME lambda'[l].api = "Unsubscribe" PROVE CallOK(lambda[l])'
      <3>1. lambda'[l].arn = row.arn /\ Once(row.arn)
        BY <1>4, <2>1 DEF IInv, RowInv
      <3>2. Once(lambda[l].arn)'
        BY <3>1, Monotone DEF Once
      <3> QED
        BY <1>4, <2>1, <3>2 DEF CallOK, Beyond
    <2>2. ASSUME lambda'[l].api # "Unsubscribe" PROVE CallOK(lambda[l])'
      BY <1>4, <2>2 DEF CallOK, Beyond
    <2>3. CallOK(lambda[l])'
      BY <2>1, <2>2
    <2> QED
      BY <1>1, <1>4, <2>3 DEF LambdaInv
  <1>5. ASSUME NEW l \in Call, Cloudy(l) PROVE LambdaInv'
    BY <1>1, <1>5, CloudyFrame, CloudyCall DEF LambdaInv
  <1> QED
    BY <1>2, <1>3, <1>4, <1>5, OpSteps
\* While a callback waits, nobody else changes the row.
LEMMA RowIsItsOwn == ASSUME IInv, [Next]_vars, op # NoOp, op' # NoOp PROVE row' = row
  <1>1. ~Turned /\ ~Ended
    BY TurnedDoes, EndedDoes
  <1>2. Asked \/ Arrival \/ Shrunk \/ InvokeAgain \/ UNCHANGED vars => row' = row
    BY Arrived, AgainDoes DEF Shrunk, Refuse, vars
  <1>3. \A l \in Call : Cloudy(l) => row' = row
    BY CloudyFrame DEF server
  <1> QED
    BY <1>1, <1>2, <1>3, Cases

LEMMA OpStep == ASSUME IInv, [Next]_vars PROVE OpInv'
  <1> SUFFICES ASSUME op' # NoOp PROVE OpInv'
    BY DEF OpInv
  <1>1. CASE UNCHANGED <<op, lambda>>
    BY <1>1, RowIsItsOwn DEF IInv, OpInv
  <1>2. ASSUME NEW l \in Call, op'.call = l, lambda'[l].pc = "start", lambda'[l].arn = op'.arn,
               \/ op'.kind = "edit" /\ lambda'[l].api = "Subscribe"
               \/ op'.kind = "confirm" /\ lambda'[l].api = "Confirm" /\ row'.auth # None
               \/ op'.kind = "force" /\ lambda'[l].api = "Unsubscribe" /\ row'.arn = op'.arn
        PROVE  OpInv'
    BY <1>2 DEF OpInv
  <1>3. ASSUME NEW l \in Call, Cloudy(l), UNCHANGED <<op, row>> PROVE OpInv'
    <2>1. op # NoOp /\ op.call \in Call
      BY <1>3, Nothing DEF IInv, Typed, OpType
    <2>2. /\ lambda'[op.call].pc # "off" /\ lambda[op.call].pc # "off"
          /\ lambda'[op.call].api = lambda[op.call].api /\ lambda'[op.call].arn = lambda[op.call].arn
      BY <1>3, <2>1, CloudyFrame DEF IInv, OpInv
    <2> QED
      BY <1>3, <2>1, <2>2 DEF IInv, OpInv
  <1> QED
    BY <1>1, <1>2, <1>3, OpSteps

LEMMA RowStep == ASSUME IInv, [Next]_vars PROVE RowInv'
  <1> /\ row.auth = None => row.arn = None
      /\ row.arn # None => Once(row.arn)
      /\ item.arn # None => Once(item.arn)
    BY DEF IInv, RowInv
  <1>1. /\ row'.auth = None => row'.arn = None
        /\ row'.arn # None => row' = row \/ Once(row'.arn)
    <2>1. CASE Turned
      <3>1. queue # <<>> /\ WaiterOK(Head(queue))
        <4>1. queue # <<>> /\ queue \in Seq(WaiterType)
          BY <2>1, TurnedDoes DEF IInv, Typed
        <4>2. 1 \in DOMAIN queue /\ Head(queue) = queue[1]
          BY <4>1, RestWasThere
        <4> QED
          BY <4>1, <4>2 DEF IInv, QueueInv
      <3> QED
        BY <2>1, <3>1, TurnedDoes, Nothing DEF WaiterOK
    <2>2. CASE Ended
      BY <2>2, EndedDoes, Nothing
    <2>3. Asked \/ Arrival \/ Shrunk \/ InvokeAgain \/ UNCHANGED vars => row' = row
      BY Arrived, AgainDoes DEF Shrunk, Refuse, vars
    <2>4. \A l \in Call : Cloudy(l) => row' = row
      BY CloudyFrame DEF server
    <2> QED
      BY <2>1, <2>2, <2>3, <2>4, Cases
  <1>2. item'.arn # None => item'.arn = item.arn \/ Once(item'.arn)
    <2>1. \A l \in Call : Cloudy(l) => item'.arn = None \/ item'.arn = item.arn \/ Once(item'.arn)
      BY ItemDoes
    <2>2. Turned \/ Ended \/ Asked \/ Arrival \/ Shrunk \/ InvokeAgain \/ UNCHANGED vars => item' = item
      BY TurnedDoes, EndedDoes, Arrived, AgainDoes DEF Shrunk, Refuse, vars, cloud
    <2> QED
      BY <2>1, <2>2, Cases
  <1>3. /\ row'.arn # None => Once(row'.arn)
        /\ item'.arn # None => Once(item'.arn)
    BY <1>1, <1>2
  <1>4. /\ row'.arn # None => Once(row.arn)'
        /\ item'.arn # None => Once(item.arn)'
    BY <1>3, Monotone DEF Once
  <1> QED
    BY <1>1, <1>4 DEF RowInv

LEMMA InitIInv == ASSUME Init PROVE IInv
  <1>1. Typed
    <2>1. <<>> \in Seq(WaiterType) /\ [url |-> None, state |-> "new"] \in SnsType
      BY DEF SnsType, AuthNull, States
    <2> QED
      BY <2>1, Nothing DEF Init, Typed
  <1>2. CacheIsTable /\ OpInv /\ RowInv
    BY Nothing, Loads DEF Init, CacheIsTable, OpInv, RowInv
  <1>3. QueueInv /\ LambdaInv
    BY Nothing DEF Init, QueueInv, LambdaInv
  <1> QED
    BY <1>1, <1>2, <1>3 DEF IInv

LEMMA StepIInv == ASSUME IInv, [Next]_vars PROVE IInv'
  BY TypedStep, CacheStep, QueueStep, LambdaInvStep, OpStep, RowStep DEF IInv

----------------------------------------------------------------------------
(* The theorems *)

\* The inductive invariant: besides the types, what each invocation of the lambda
\* has done at SNS, whoever waits for it, and that the callback that waits in
\* withTopic (lockedSub's turn) has the row to itself.
THEOREM Inductive == Spec => []IInv
  <1>1. Init => IInv
    BY InitIInv
  <1>2. IInv /\ [Next]_vars => IInv'
    BY StepIInv
  <1> QED
    BY <1>1, <1>2, PTL DEF Spec

\* Every variable of the model, the row, the cache and SNS's subscriptions among
\* them, keeps its type.
THEOREM TypeCorrect == Spec => []TypeOK
  <1>1. IInv => TypeOK
    BY DEF IInv, Typed, TypeOK, RowType, WaiterType, OpType, LambdaType, SnsType, ItemType,
           AuthNull, States
  <1> QED
    BY <1>1, Inductive, PTL

\* lockedSub.cached is what initSubs would load of the row, after every callback,
\* failure and restart.
THEOREM CacheFaithful == Spec => []CacheIsTable
  <1>1. IInv => CacheIsTable
    BY DEF IInv
  <1> QED
    BY <1>1, Inductive, PTL

\* The ARN in the row of sesrcvr and in the lambda's item is that of a subscription
\* SNS confirmed, although invocations outlive the callers of subManager.call.
THEOREM ArnConfirmed == Spec => []ArnWasConfirmed
  <1>1. IInv => ArnWasConfirmed
    BY DEF IInv, RowInv, Once, ArnWasConfirmed
  <1> QED
    BY <1>1, Inductive, PTL

\* RemoveSub deletes a confirmed row only after the lambda unsubscribed it at SNS.
THEOREM RemovedIsLeft == Spec => ConfirmedIsUnsubscribed
  <1> DEFINE Kept == row.arn # None /\ row'.auth = None /\ ~Unsub
                       => sns[row.arn].state \in {"leaving", "gone"}
  <1>1. IInv /\ [Next]_vars => Kept
    <2> SUFFICES ASSUME IInv, [Next]_vars, row.arn # None, row'.auth = None, ~Unsub
                 PROVE  Left(row.arn)
      BY DEF Left
    <2>1. row.auth # None
      BY DEF IInv, RowInv
    <2>2. CASE Turned
      BY <2>1, <2>2, TurnedDoes
    <2>3. CASE Ended
      BY <2>1, <2>3, EndedDoes
    <2>4. Asked \/ Arrival \/ Shrunk \/ InvokeAgain \/ UNCHANGED vars => row' = row
      BY Arrived, AgainDoes DEF Shrunk, Refuse, vars
    <2>5. \A l \in Call : Cloudy(l) => row' = row
      BY CloudyFrame DEF server
    <2> QED
      BY <2>1, <2>2, <2>3, <2>4, <2>5, Cases
  <1>2. IInv /\ [Next]_vars => [Kept]_vars
    BY <1>1
  <1> QED
    BY <1>2, Inductive, PTL DEF Spec, ConfirmedIsUnsubscribed

----------------------------------------------------------------------------
(* One subscriber, and somebody who listens: while every invocation is waited *)
(* for, what it has done so far is known to nobody else                        *)

Calm     == "loose" \notin mishaps
Punctual == Calm /\ "late" \notin mishaps

\* SNS sends its messages to the endpoint, or will once it confirms.
Live(k) == k \in Arn /\ sns[k].state \in {"pending", "confirmed"}

\* An invocation has its caller: the row stays what it was asked for, and the
\* item and SNS what the invocation made of them.
Awaited(l) ==
  /\ op # NoOp /\ op.call = l
  /\ lambda[l].api = "Subscribe" =>
       /\ row.arn = None /\ lambda[l].url \in Auth
       /\ lambda[l].pc = "sns" => item.url = lambda[l].url
  /\ lambda[l].api = "Confirm" /\ lambda[l].pc \in Beyond => sns[lambda[l].arn].state = "confirmed"
AwaitedInv == \A l \in Call : lambda[l].pc # "off" => Awaited(l)

\* Mails go to the interim lambda or to an endpoint, or the invocation that ends
\* the subscription of the endpoint is about to see to it.
ListenInv == interim \/ HasState("confirmed") # {} \/ \E l \in Call : At(l, "Unsubscribe", "interim")

\* The live subscription is that of the item's endpoint, which is kept until the
\* subscription is left.
OneInv ==
  /\ \A k \in Arn : Live(k) => sns[k].url = item.url /\ sns[k].url # None
  /\ \A j, k \in Arn : Live(j) /\ Live(k) => j = k
  /\ Left(row.arn) => \A k \in Arn : ~Live(k)

JInv ==
  /\ IInv
  /\ Calm => AwaitedInv
  /\ Calm /\ "cut" \notin mishaps => ListenInv
  /\ Punctual => OneInv

\* Most steps change nothing of all this.
LEMMA Aside ==
  ASSUME IInv, UNCHANGED vars \/ Asked \/ Arrival \/ Shrunk
  PROVE  UNCHANGED <<row, op, lambda, sns, interim, item>>
  <1>1. Asked \/ Arrival => UNCHANGED <<row, op, lambda, sns, interim, item>>
    BY Arrived DEF cloud
  <1>2. Shrunk \/ UNCHANGED vars => UNCHANGED <<row, op, lambda, sns, interim, item>>
    BY DEF Shrunk, Refuse, vars, cloud
  <1> QED
    BY <1>1, <1>2

\* Nothing was let loose, before the step nor by it.
LEMMA CalmBefore ==
  ASSUME [Next]_vars, Calm'
  PROVE  /\ Calm /\ ~InvokeAgain
         /\ "cut" \notin mishaps' => "cut" \notin mishaps
         /\ "late" \notin mishaps' => "late" \notin mishaps
  <1>1. mishaps \subseteq mishaps' /\ Calm
    BY Grows DEF Calm
  <1>2. ~InvokeAgain
    <2> SUFFICES ASSUME InvokeAgain PROVE FALSE
      OBVIOUS
    <2>1. Remember("loose", TRUE)
      BY DEF InvokeAgain
    <2> QED
      BY <2>1, Remembers DEF Calm
  <1> QED
    BY <1>1, <1>2

\* The wait is over when the invocation is, and no other is there.
LEMMA CalmEnd ==
  ASSUME IInv, AwaitedInv, Ended, Calm'
  PROVE  \A l \in Call : lambda'[l].pc = "off" /\ ~Running(l)
  <1> lambda \in [Call -> LambdaType] /\ op \in OpType \union {NoOp}
    BY DEF IInv, Typed
  <1>0. \A l \in Call : lambda[l].pc # "off" => op # NoOp /\ op.call = l
    BY DEF AwaitedInv, Awaited
  <1>1. CASE ReturnedOk \/ ReturnedError
    <2>1. /\ op # NoOp /\ lambda' = [lambda EXCEPT ![op.call] = OffCall]
          /\ lambda[op.call].pc \in {"ok", "failed"}
      BY <1>1 DEF ReturnedOk, ReturnedError, Returned
    <2>2. \A l \in Call : lambda'[l] = IF l = op.call THEN OffCall ELSE lambda[l]
      BY <2>1
    <2> QED
      BY <1>0, <2>1, <2>2, Nothing DEF Running
  <1>2. CASE GiveUp
    <2>1. op # NoOp /\ op.call \in Call /\ Remember("loose", Running(op.call))
      BY <1>2 DEF GiveUp, OpType
    <2>2. Running(op.call) \in BOOLEAN
      BY DEF Running
    <2>3. ~Running(op.call)
      BY <2>1, <2>2, Remembers DEF Calm
    <2>4. lambda' = [lambda EXCEPT ![op.call] = OffCall]
      BY <1>2, <2>3 DEF GiveUp
    <2>5. \A l \in Call : lambda'[l] = IF l = op.call THEN OffCall ELSE lambda[l]
      BY <2>4
    <2> QED
      BY <1>0, <2>3, <2>5, Nothing DEF Running
  <1>3. CASE Restart
    <2> DEFINE h == op # NoOp /\ Running(op.call)
    <2>1. Remember("loose", h) /\ h \in BOOLEAN
      BY <1>3 DEF Restart
    <2>2. ~h
      <3> HIDE DEF h
      <3> QED
        BY <2>1, Remembers DEF Calm
    <2>3. \A l \in Call : ~Running(l)
      BY <1>0, <2>2 DEF Running
    <2>4. \A l \in Call : lambda'[l] = OffCall
      BY <1>3, <2>3 DEF Restart
    <2> QED
      BY <2>3, <2>4, Nothing
  <1> QED
    BY <1>1, <1>2, <1>3 DEF Ended

\* What a running invocation knows of its caller.
LEMMA Caller ==
  ASSUME IInv, AwaitedInv, NEW l \in Call, lambda[l].pc # "off"
  PROVE  /\ op # NoOp /\ op.call = l /\ Awaited(l) /\ CallOK(lambda[l])
         /\ lambda[l].api = "Unsubscribe" => row.arn = lambda[l].arn
  BY DEF IInv, OpInv, LambdaInv, AwaitedInv, Awaited

\* A callback that is let in finds no invocation, and its own is a new one.
LEMMA TurnedAlone ==
  ASSUME IInv, AwaitedInv, Turned
  PROVE  /\ \A l \in Call : lambda[l].pc = "off"
         /\ \A l \in Call : lambda'[l].pc # "off" => lambda'[l].pc = "start" /\ Awaited(l)'
  <1>1. op = NoOp /\ \A l \in Call : lambda[l].pc = "off"
    BY TurnedDoes DEF AwaitedInv, Awaited
  <1>2. ASSUME NEW kind \in Kinds, NEW api \in {"Subscribe", "Unsubscribe", "Confirm"},
               NEW url \in AuthNull, NEW arn \in ArnNull, Invoke(kind, api, url, arn),
               api = "Subscribe" => row'.arn = None /\ url \in Auth
        PROVE  \A l \in Call : lambda'[l].pc # "off" => lambda'[l].pc = "start" /\ Awaited(l)'
    <2>1. PICK l \in Call :
            /\ op' = [kind |-> kind, arn |-> arn, call |-> l] /\ op' \in OpType
            /\ lambda'[l] = [pc |-> "start", api |-> api, url |-> url, arn |-> arn]
            /\ \A m \in Call \ {l} : lambda'[m] = lambda[m]
      BY <1>2, Invoked
    <2>2. op' # NoOp /\ op'.call = l /\ lambda'[l].pc = "start"
      BY <2>1, Nothing
    <2>3. lambda'[l].api = "Subscribe" => row'.arn = None /\ lambda'[l].url \in Auth
      BY <1>2, <2>1
    <2>4. Awaited(l)'
      BY <2>2, <2>3 DEF Awaited, Beyond, NoOp
    <2>5. \A m \in Call \ {l} : lambda'[m].pc = "off"
      BY <1>1, <2>1
    <2> QED
      BY <2>2, <2>4, <2>5
  <1> DEFINE Result == \A l \in Call : lambda'[l].pc # "off" => lambda'[l].pc = "start" /\ Awaited(l)'
  <1> HIDE DEF Result
  <1>3. ASSUME NEW url \in Auth, row'.arn = None, Invoke("edit", "Subscribe", url, None) PROVE Result
    <2>1. url \in AuthNull /\ None \in ArnNull /\ "edit" \in Kinds
      BY DEF AuthNull, ArnNull, Kinds
    <2> QED
      BY <1>2, <1>3, <2>1 DEF Result
  <1>4. ASSUME Head(queue).arn \in Arn, Invoke("confirm", "Confirm", None, Head(queue).arn) PROVE Result
    <2>1. None \in AuthNull /\ Head(queue).arn \in ArnNull /\ "confirm" \in Kinds
      BY <1>4 DEF AuthNull, ArnNull, Kinds
    <2> QED
      BY <1>2, <1>4, <2>1 DEF Result
  <1>5. ASSUME Invoke("force", "Unsubscribe", None, row.arn) PROVE Result
    <2>1. None \in AuthNull /\ row.arn \in ArnNull /\ "force" \in Kinds
      BY DEF AuthNull, ArnNull, Kinds, IInv, Typed, RowType
    <2> QED
      BY <1>2, <1>5, <2>1 DEF Result
  <1>6. ASSUME lambda' = lambda PROVE Result
    BY <1>1, <1>6 DEF Result
  <1>7. Result
    <2>1. \/ lambda' = lambda
          \/ \E url \in Auth : row'.arn = None /\ Invoke("edit", "Subscribe", url, None)
          \/ Head(queue).arn \in Arn /\ Invoke("confirm", "Confirm", None, Head(queue).arn)
          \/ Invoke("force", "Unsubscribe", None, row.arn)
      BY TurnedDoes
    <2> QED
      BY <1>3, <1>4, <1>5, <1>6, <2>1
  <1> QED
    BY <1>1, <1>7 DEF Result

LEMMA AwaitedStep == ASSUME JInv, [Next]_vars, Calm' PROVE AwaitedInv'
  <1> IInv /\ AwaitedInv /\ Calm /\ ~InvokeAgain
    BY CalmBefore DEF JInv
  <1>1. CASE UNCHANGED vars \/ Asked \/ Arrival \/ Shrunk
    <2>1. UNCHANGED <<row, op, lambda, sns, interim, item>>
      BY <1>1, Aside
    <2> QED
      BY <2>1 DEF AwaitedInv, Awaited
  <1>2. CASE Turned
    BY <1>2, TurnedAlone DEF AwaitedInv
  <1>3. CASE Ended
    BY <1>3, CalmEnd DEF AwaitedInv
  <1>4. ASSUME NEW l \in Call, Cloudy(l) PROVE AwaitedInv'
    <2> lambda \in [Call -> LambdaType] /\ lambda[l] \in LambdaType /\ sns \in [Arn -> SnsType]
        /\ item \in ItemType
      BY DEF IInv, Typed
    <2>1. /\ UNCHANGED <<row, op>> /\ lambda[l].pc # "off"
          /\ lambda' \in [Call -> LambdaType] /\ \A m \in Call \ {l} : lambda'[m] = lambda[m]
          /\ lambda'[l].pc # "off" =>
               lambda'[l].api = lambda[l].api /\ lambda'[l].arn = lambda[l].arn
      BY <1>4, CloudyFrame DEF server
    <2>2. op # NoOp /\ op.call = l /\ Awaited(l) /\ CallOK(lambda[l])
      BY <2>1, Caller
    <2>3. \A m \in Call \ {l} : lambda[m].pc = "off"
      BY <2>2 DEF AwaitedInv, Awaited
    <2>4. ASSUME lambda'[l].pc # "off" PROVE lambda'[l].url = lambda[l].url
      BY <1>4, <2>4 DEF Cloudy, LambdaStep, LambdaFails, PutEndpoint, PutRefused, SnsSubscribe,
                        SnsUnsubscribe, AddInterim, DeleteItem, SnsConfirm, RemoveInterim,
                        UpdateItem, Goto, Reply, OffCall, LambdaType
    <2>5. ASSUME lambda[l].api = "Subscribe", lambda'[l].pc = "sns" PROVE item'.url = lambda[l].url
      <3>1. PutEndpoint(l)
        BY <1>4, <2>5 DEF Cloudy, LambdaStep, LambdaFails, PutRefused, SnsSubscribe,
                          SnsUnsubscribe, AddInterim, DeleteItem, SnsConfirm, RemoveInterim,
                          UpdateItem, Goto, Reply, OffCall, LambdaType, At
      <3> QED
        BY <3>1 DEF PutEndpoint
    <2>6. ASSUME lambda[l].api = "Confirm", lambda'[l].pc \in Beyond
          PROVE  sns'[lambda[l].arn].state = "confirmed"
      <3>1. lambda[l].arn \in Arn
        BY <2>2, <2>6 DEF CallOK
      <3>2. CASE SnsConfirm(l)
        BY <3>1, <3>2 DEF SnsConfirm, SnsType
      <3>3. CASE ~SnsConfirm(l)
        <4>1. sns' = sns /\ lambda[l].pc \in Beyond
          BY <1>4, <2>6, <3>3 DEF Cloudy, LambdaStep, LambdaFails, PutEndpoint, PutRefused,
                            SnsSubscribe, SnsUnsubscribe, AddInterim, DeleteItem, RemoveInterim,
                            UpdateItem, Goto, Reply, OffCall, LambdaType, At, Beyond
        <4> QED
          BY <2>2, <2>6, <4>1 DEF Awaited
      <3> QED
        BY <3>2, <3>3
    <2>7. lambda'[l].pc # "off" => Awaited(l)'
      BY <2>1, <2>2, <2>4, <2>5, <2>6 DEF Awaited, NoOp
    <2> QED
      BY <2>1, <2>3, <2>7 DEF AwaitedInv
  <1> QED
    BY <1>1, <1>2, <1>3, <1>4, Cases

LEMMA ListenStep ==
  ASSUME JInv, [Next]_vars, Calm', "cut" \notin mishaps'
  PROVE  ListenInv'
  <1> IInv /\ AwaitedInv /\ Calm /\ ~InvokeAgain /\ ListenInv
    BY CalmBefore DEF JInv
  <1> lambda \in [Call -> LambdaType] /\ sns \in [Arn -> SnsType]
    BY DEF IInv, Typed
  <1>1. CASE UNCHANGED vars \/ Asked \/ Arrival \/ Shrunk
    <2>1. UNCHANGED <<row, op, lambda, sns, interim, item>>
      BY <1>1, Aside
    <2> QED
      BY <2>1 DEF ListenInv, HasState, At
  <1>2. CASE Turned
    <2>1. interim' = interim /\ \A l \in Call : lambda[l].pc = "off"
      BY <1>2, TurnedDoes, TurnedAlone
    <2>2. interim \/ HasState("confirmed") # {}
      BY <2>1 DEF ListenInv, At
    <2>3. \A k \in HasState("confirmed") : sns'[k].state = "confirmed"
      <3>1. CASE Unsub
        <4>1. Left(Head(queue).arn) /\ sns' = [sns EXCEPT ![Head(queue).arn].state = "gone"]
          BY <3>1, LetIn DEF Unsub, WaiterOK
        <4>2. \A k \in HasState("confirmed") : k # Head(queue).arn
          BY <4>1 DEF HasState, Left
        <4> QED
          BY <4>1, <4>2 DEF HasState
      <3>2. CASE ~Unsub
        <4>1. sns' = sns
          BY <1>2, <3>2 DEF Turned, EditSub, RemoveSub, ForceRemoveSub, Confirm, Notification, cloud
        <4> QED
          BY <4>1 DEF HasState
      <3> QED
        BY <3>1, <3>2
    <2>4. \A k \in HasState("confirmed") : k \in HasState("confirmed")'
      BY <2>3 DEF HasState
    <2> QED
      BY <2>1, <2>2, <2>4 DEF ListenInv
  <1>3. CASE Ended
    <2>1. /\ UNCHANGED <<sns, interim>>
          /\ \A l \in Call : lambda'[l] = lambda[l] \/ lambda'[l].pc = "off"
          /\ \A l \in Call : lambda'[l].pc = "off"
      BY <1>3, EndedDoes, CalmEnd
    <2>2. \A l \in Call : ~At(l, "Unsubscribe", "interim")
      BY <1>3, CalmEnd DEF Running, At
    <2> QED
      BY <2>1, <2>2 DEF ListenInv, HasState
  <1>4. ASSUME NEW l \in Call, Cloudy(l) PROVE ListenInv'
    <2>1. /\ lambda[l].pc # "off"
          /\ lambda' \in [Call -> LambdaType] /\ \A m \in Call \ {l} : lambda'[m] = lambda[m]
      BY <1>4, CloudyFrame
    <2>2. op # NoOp /\ op.call = l /\ Awaited(l) /\ CallOK(lambda[l])
      BY <2>1, Caller
    <2>3. \A m \in Call \ {l} : lambda[m].pc = "off"
      BY <2>2 DEF AwaitedInv, Awaited
    <2>4. interim \/ HasState("confirmed") # {} \/ At(l, "Unsubscribe", "interim")
      BY <2>3 DEF ListenInv, At
    <2>5. CASE AddInterim(l)
      BY <2>5 DEF AddInterim, ListenInv
    <2>6. CASE RemoveInterim(l)
      <3>1. sns[lambda[l].arn].state = "confirmed" /\ lambda[l].arn \in Arn /\ sns' = sns
        BY <2>2, <2>6 DEF RemoveInterim, At, Awaited, Beyond, CallOK
      <3> QED
        BY <3>1 DEF ListenInv, HasState
    <2>7. CASE SnsUnsubscribe(l)
      <3>1. lambda' = [lambda EXCEPT ![l].pc = "interim"] /\ lambda[l].api = "Unsubscribe"
        BY <2>7 DEF SnsUnsubscribe, Goto, At
      <3>2. At(l, "Unsubscribe", "interim")'
        BY <3>1 DEF At, LambdaType
      <3> QED
        BY <3>2 DEF ListenInv
    <2>8. CASE SnsConfirm(l)
      <3>1. /\ lambda[l].arn \in Arn /\ sns' = [sns EXCEPT ![lambda[l].arn].state = "confirmed"]
        BY <2>2, <2>8 DEF SnsConfirm, At, CallOK
      <3>2. lambda[l].arn \in HasState("confirmed")'
        BY <3>1 DEF HasState, SnsType
      <3> QED
        BY <3>2 DEF ListenInv
    <2>9. CASE SnsSubscribe(l)
      <3>1. interim' = interim /\ ~At(l, "Unsubscribe", "interim")
        BY <2>9 DEF SnsSubscribe, At
      <3>2. \A k \in HasState("confirmed") : sns'[k] = sns[k]
        BY <2>9 DEF SnsSubscribe, HasState
      <3>3. \A k \in HasState("confirmed") : k \in HasState("confirmed")'
        BY <3>2 DEF HasState
      <3> QED
        BY <2>4, <3>1, <3>3 DEF ListenInv
    <2>10. CASE LambdaFails(l)
      <3>1. Remember("cut", At(l, "Unsubscribe", "interim")) /\ UNCHANGED <<sns, interim>>
        BY <2>10 DEF LambdaFails
      <3>2. At(l, "Unsubscribe", "interim") \in BOOLEAN
        BY DEF At
      <3>3. ~At(l, "Unsubscribe", "interim")
        BY <3>1, <3>2, Remembers DEF Calm
      <3> QED
        BY <2>4, <3>1, <3>3 DEF ListenInv, HasState
    <2>11. CASE PutEndpoint(l) \/ PutRefused(l) \/ DeleteItem(l) \/ UpdateItem(l)
      <3>1. UNCHANGED <<sns, interim>> /\ ~At(l, "Unsubscribe", "interim")
        BY <2>11 DEF PutEndpoint, PutRefused, DeleteItem, UpdateItem, At
      <3> QED
        BY <2>4, <3>1 DEF ListenInv, HasState
    <2> QED
      BY <1>4, <2>5, <2>6, <2>7, <2>8, <2>9, <2>10, <2>11 DEF Cloudy, LambdaStep
  <1> QED
    BY <1>1, <1>2, <1>3, <1>4, Cases

\* The endpoint of the item stays alone as long as SNS's other messages, the row
\* and the item do not move on without it.
LEMMA OneKept ==
  ASSUME IInv, OneInv, item'.url = item.url,
         \A k \in Arn : Live(k)' => Live(k) /\ sns'[k].url = sns[k].url,
         Left(row.arn)' => Left(row.arn)
  PROVE  OneInv'
  BY DEF OneInv

\* Who has the row, once a callback was let in or has returned, was not left.
LEMMA OneTurned == ASSUME JInv, Turned, [Next]_vars, Punctual' PROVE OneInv'
  <1> IInv /\ AwaitedInv /\ Calm /\ OneInv /\ sns \in [Arn -> SnsType] /\ None \notin Arn
    BY CalmBefore, Nothing DEF JInv, Punctual, Calm, IInv, Typed
  <1>1. item' = item /\ (row' = row \/ row' = NoRow \/ row'.arn = None
                         \/ (Head(queue).kind = "notify" /\ row'.arn = Head(queue).arn))
    BY TurnedDoes
  <1>2. \A k \in Arn : Live(k)' => Live(k) /\ sns'[k].url = sns[k].url
    <2>1. CASE Unsub
      <3>1. Left(Head(queue).arn) /\ sns' = [sns EXCEPT ![Head(queue).arn].state = "gone"]
        BY <2>1, LetIn DEF Unsub, WaiterOK
      <3> QED
        BY <3>1 DEF Live, Left, SnsType
    <2>2. CASE ~Unsub
      <3>1. sns' = sns
        BY <2>2 DEF Turned, EditSub, RemoveSub, ForceRemoveSub, Confirm, Notification, cloud
      <3> QED
        BY <3>1 DEF Live
    <2> QED
      BY <2>1, <2>2
  <1>3. Left(row.arn)' => Left(row.arn)
    <2>1. CASE Notification
      <3> DEFINE h == sns[Head(queue).arn].state # "confirmed"
      <3>1. Remember("late", h) /\ h \in BOOLEAN /\ sns' = sns /\ SetArn(Head(queue).arn)
        BY <2>1 DEF Notification, cloud
      <3>2. ~h
        <4> HIDE DEF h
        <4> QED
          BY <3>1, Remembers DEF Punctual, Calm
      <3>3. row'.arn = Head(queue).arn \/ row' = row
        BY <3>1 DEF SetArn, IInv, Typed, RowType
      <3> QED
        BY <3>1, <3>2, <3>3 DEF Left
    <2>2. CASE Unsub
      <3>1. row'.arn = None
        BY <2>2, Nothing DEF Unsub
      <3> QED
        BY <3>1 DEF Left
    <2>3. CASE ~Notification /\ ~Unsub
      <3>1. sns' = sns /\ (row' = row \/ row'.arn = None)
        BY <2>3, Nothing DEF Turned, EditSub, RemoveSub, ForceRemoveSub, Confirm, cloud
      <3> QED
        BY <3>1 DEF Left
    <2> QED
      BY <2>1, <2>2, <2>3
  <1> QED
    BY <1>1, <1>2, <1>3, OneKept

LEMMA OneEnded == ASSUME JInv, Ended, [Next]_vars, Punctual' PROVE OneInv'
  <1> IInv /\ AwaitedInv /\ Calm /\ OneInv /\ None \notin Arn
    BY CalmBefore, Nothing DEF JInv, Punctual, Calm
  <1>1. UNCHANGED <<sns, item>>
    BY EndedDoes
  <1>2. Left(row.arn)' => Left(row.arn)
    <2>1. CASE row' = row
      BY <1>1, <2>1 DEF Left
    <2>2. CASE row' # row
      <3>1. ReturnedOk
        BY <2>2 DEF Ended, ReturnedError, GiveUp, Restart
      <3>2. op # NoOp /\ lambda[op.call].pc = "ok"
        BY <3>1 DEF ReturnedOk, Returned
      <3>3. CASE op.kind = "confirm"
        <4>1. SetArn(op.arn) /\ lambda[op.call].api = "Confirm" /\ lambda[op.call].arn = op.arn
          BY <3>1, <3>2, <3>3 DEF ReturnedOk, IInv, OpInv
        <4>2. op.call \in Call
          BY <3>2 DEF IInv, Typed, OpType
        <4>3. sns[op.arn].state = "confirmed"
          BY <3>2, <4>1, <4>2, Caller DEF Awaited, Beyond
        <4>4. row'.arn = op.arn
          BY <2>2, <4>1 DEF SetArn, IInv, Typed, RowType
        <4> QED
          BY <1>1, <4>3, <4>4 DEF Left
      <3>4. CASE op.kind = "force"
        <4>1. row'.arn = None
          BY <3>1, <3>4, Nothing DEF ReturnedOk
        <4> QED
          BY <4>1 DEF Left
      <3>5. op.kind \in {"edit", "confirm", "force"}
        BY <3>2 DEF IInv, OpInv
      <3>6. op.kind # "edit"
        BY <2>2, <3>1 DEF ReturnedOk
      <3> QED
        BY <3>3, <3>4, <3>5, <3>6
    <2> QED
      BY <2>1, <2>2
  <1> QED
    BY <1>1, <1>2, OneKept DEF Live

LEMMA OneCloudy == ASSUME JInv, NEW l \in Call, Cloudy(l), [Next]_vars, Punctual' PROVE OneInv'
  <1> IInv /\ AwaitedInv /\ Calm /\ OneInv /\ None \notin Arn
    BY CalmBefore, Nothing DEF JInv, Punctual, Calm
  <1> /\ lambda \in [Call -> LambdaType] /\ lambda[l] \in LambdaType /\ sns \in [Arn -> SnsType]
      /\ item \in ItemType
    BY DEF IInv, Typed
  <1>1. /\ row' = row /\ op # NoOp /\ op.call = l /\ Awaited(l) /\ CallOK(lambda[l])
        /\ lambda[l].api = "Unsubscribe" => row.arn = lambda[l].arn
    BY CloudyFrame, Caller DEF server
  <1>2. CASE PutEndpoint(l)
    <2>1. /\ sns' = sns /\ item.url \in {None, lambda[l].url} /\ item'.url = lambda[l].url
      BY <1>2 DEF PutEndpoint
    <2> QED
      BY <1>1, <2>1 DEF OneInv, Live, Left
  <1>3. CASE SnsSubscribe(l)
    <2>1. /\ item' = item /\ row.arn = None /\ lambda[l].url \in Auth /\ item.url = lambda[l].url
      BY <1>1, <1>3 DEF SnsSubscribe, At, Awaited
    <2>2. CASE sns' = sns
      BY <1>1, <2>1, <2>2, OneKept DEF Live, Left
    <2>3. CASE sns' # sns
      <3>1. PICK k \in HasState("new") :
              sns' = [sns EXCEPT ![k] = [url |-> lambda[l].url, state |-> "pending"]]
        BY <1>3, <2>3 DEF SnsSubscribe
      <3>2. \A j \in Arn : ~Live(j)
        <4>1. Subscribed(lambda[l].url) = {}
          BY <1>3, <2>3 DEF SnsSubscribe
        <4> QED
          BY <2>1, <4>1 DEF Subscribed, HasState, Live, OneInv
      <3>3. /\ k \in Arn /\ sns'[k].url = item'.url
            /\ \A j \in Arn : j # k => sns'[j] = sns[j]
        BY <2>1, <3>1 DEF HasState
      <3>4. \A j \in Arn : Live(j)' => j = k
        BY <3>2, <3>3 DEF Live
      <3>5. item'.url # None
        BY <2>1, Nothing
      <3>6. ~Left(row.arn)'
        BY <1>1, <2>1 DEF Left
      <3> QED
        BY <3>3, <3>4, <3>5, <3>6 DEF OneInv
    <2> QED
      BY <2>2, <2>3
  <1>4. CASE SnsUnsubscribe(l)
    <2> PICK k : k = lambda[l].arn
      OBVIOUS
    <2> DEFINE state == IF sns[k].state = "confirmed" THEN "leaving" ELSE sns[k].state
    <2>1. item' = item /\ row.arn = k /\ Once(k)
      BY <1>1, <1>4 DEF SnsUnsubscribe, At, CallOK
    <2>2. k \in Arn /\ sns' = [sns EXCEPT ![k].state = state] /\ state \in {"leaving", "gone"}
      BY <1>4, <2>1 DEF SnsUnsubscribe, Once
    <2>3. Live(k) \/ Left(k)
      BY <2>1 DEF Once, Live, Left
    <2> HIDE DEF state
    <2>4. /\ \A j \in Arn : j # k => sns'[j] = sns[j]
          /\ ~Live(k)'
      BY <2>2 DEF SnsType, Live
    <2>5. \A j \in Arn : Live(j) => j = k
      BY <2>1, <2>2, <2>3 DEF OneInv
    <2>6. \A j \in Arn : ~Live(j)'
      BY <2>4, <2>5 DEF Live
    <2> QED
      BY <2>6 DEF OneInv
  <1>5. CASE DeleteItem(l)
    <2>1. Left(row.arn) /\ sns' = sns
      BY <1>1, <1>5 DEF DeleteItem, At, CallOK, Beyond
    <2>2. \A j \in Arn : ~Live(j)'
      BY <2>1 DEF OneInv, Live
    <2> QED
      BY <2>2 DEF OneInv
  <1>6. CASE SnsConfirm(l)
    <2>1. /\ item' = item /\ sns[lambda[l].arn].state \in {"pending", "confirmed"} /\ lambda[l].arn \in Arn
          /\ sns' = [sns EXCEPT ![lambda[l].arn].state = "confirmed"]
      BY <1>1, <1>6 DEF SnsConfirm, At, CallOK
    <2>2. /\ \A k \in Arn : k # lambda[l].arn => sns'[k] = sns[k]
          /\ sns'[lambda[l].arn].state = "confirmed"
          /\ sns'[lambda[l].arn].url = sns[lambda[l].arn].url
      BY <2>1 DEF SnsType
    <2>3. \A k \in Arn : Live(k)' => Live(k) /\ sns'[k].url = sns[k].url
      BY <2>1, <2>2 DEF Live
    <2>4. Left(row.arn)' => Left(row.arn)
      BY <1>1, <2>1, <2>2 DEF Left
    <2> QED
      BY <2>1, <2>3, <2>4, OneKept
  <1>7. CASE UpdateItem(l)
    <2>1. sns' = sns /\ item'.url = item.url
      BY <1>7 DEF UpdateItem, ItemType
    <2> QED
      BY <1>1, <2>1, OneKept DEF Live, Left
  <1>8. CASE PutRefused(l) \/ AddInterim(l) \/ RemoveInterim(l) \/ LambdaFails(l)
    <2>1. sns' = sns /\ item' = item
      BY <1>8 DEF PutRefused, AddInterim, RemoveInterim, LambdaFails
    <2> QED
      BY <1>1, <2>1, OneKept DEF Live, Left
  <1> QED
    BY <1>2, <1>3, <1>4, <1>5, <1>6, <1>7, <1>8 DEF Cloudy, LambdaStep

LEMMA StepJInv == ASSUME JInv, [Next]_vars PROVE JInv'
  <1>1. IInv'
    BY StepIInv DEF JInv
  <1>2. Calm' => AwaitedInv'
    BY AwaitedStep
  <1>3. (Calm /\ "cut" \notin mishaps)' => ListenInv'
    BY ListenStep
  <1>4. Punctual' => OneInv'
    <2> SUFFICES ASSUME Punctual' PROVE OneInv'
      OBVIOUS
    <2>1. IInv /\ OneInv /\ ~InvokeAgain
      BY CalmBefore DEF JInv, Punctual, Calm
    <2>2. CASE UNCHANGED vars \/ Asked \/ Arrival \/ Shrunk
      <3>1. UNCHANGED <<row, op, lambda, sns, interim, item>>
        BY <2>1, <2>2, Aside
      <3> QED
        BY <2>1, <3>1, OneKept DEF Live, Left
    <2> QED
      BY <2>1, <2>2, OneTurned, OneEnded, OneCloudy, Cases
  <1> QED
    BY <1>1, <1>2, <1>3, <1>4 DEF JInv

LEMMA InitJInv == ASSUME Init PROVE JInv
  <1>1. IInv
    BY InitIInv
  <1>2. \A l \in Call : lambda[l].pc = "off"
    BY Nothing DEF Init
  <1>3. \A k \in Arn : ~Live(k)
    BY DEF Init, Live
  <1>4. interim
    BY DEF Init
  <1> QED
    BY <1>1, <1>2, <1>3, <1>4 DEF JInv, AwaitedInv, ListenInv, OneInv

LEMMA InductiveAlone == Spec => []JInv
  BY InitJInv, StepJInv, PTL DEF Spec

\* Whatever calls of the lambda fail and whatever the user removes and adds, SNS has
\* at most one confirmed endpoint, while invocations keep their callers and no
\* notification comes late.
THEOREM OneConfirmed == Spec => []OneSubscriber
  <1>1. ASSUME JInv PROVE OneSubscriber
    <2> SUFFICES ASSUME mishaps \cap {"loose", "late"} = {}
                 PROVE  Cardinality(HasState("confirmed")) <= 1
      BY DEF OneSubscriber
    <2>1. OneInv
      BY <1>1 DEF JInv, Punctual, Calm
    <2>2. \A j, k \in HasState("confirmed") : j = k
      BY <2>1 DEF OneInv, Live, HasState
    <2>3. CASE HasState("confirmed") = {}
      BY <2>3, FS_EmptySet
    <2>4. CASE HasState("confirmed") # {}
      <3>1. PICK k : HasState("confirmed") = {k}
        BY <2>2, <2>4
      <3>2. Cardinality({k}) = 1
        BY FS_Singleton
      <3> QED
        BY <3>1, <3>2
    <2> QED
      BY <2>3, <2>4
  <1> QED
    BY <1>1, InductiveAlone, PTL

\* While invocations keep their callers, mails go to the interim lambda or to an
\* endpoint whenever no invocation runs, unless one was cut short between the two.
THEOREM Listened == Spec => []NoMailLost
  <1>1. ASSUME JInv PROVE NoMailLost
    <2> SUFFICES ASSUME Quiet, mishaps \cap {"loose", "cut"} = {}
                 PROVE  interim \/ HasState("confirmed") # {}
      BY DEF NoMailLost
    <2>1. ListenInv
      BY <1>1 DEF JInv, Calm
    <2>2. \A l \in Call : ~At(l, "Unsubscribe", "interim")
      BY DEF Quiet, Running, At
    <2> QED
      BY <2>1, <2>2 DEF ListenInv
  <1> QED
    BY <1>1, InductiveAlone, PTL

=============================================================================
