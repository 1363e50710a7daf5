--------------------------- MODULE MailPipeProofs ---------------------------
(***************************************************************************)
(* The safety of the deliveries, for every number of rows that share an    *)
(* object, every mail, all templates and any number of timeouts.           *)
(***************************************************************************)
EXTENDS MailPipe, SequenceTheorems, TLAPS

FeederPc   == {"off", "seek", "parse", "reseek", "read", "write", "close", "cancel", "rewind", "done"}
WorkerType == [pc : {"idle", "download", "execute", "wait", "done", "failed"},
               f : Inode \union {None}, off : Nat, cmd : Nat, src : Nat, timeouts : Nat]
FeederType == [pc : FeederPc, block : Nat]
PipeType   == [state : {"none", "running", "ok", "bad"}, got : Seq(Nat), eof : BOOLEAN]
Results    == {"none", "ignored", "whole", "broken"}
Taints     == {"shared", "restarted", "raced"}

Typed ==
  /\ path \in Inode \union {None}
  /\ content \in [Inode -> Seq(Nat)]
  /\ worker \in [Row -> WorkerType]
  /\ DOMAIN feeder = Row /\ \A w \in Row : feeder[w] \in [Command(w) -> FeederType]
  /\ pipe \in [Row -> PipeType]
  /\ DOMAIN result = Row /\ \A w \in Row : result[w] \in [Command(w) -> Results]
  /\ taint \in [Row -> SUBSET Taints]

\* Where a worker is, and what it has.
Shape(w) ==
  /\ worker[w].pc \in {"download", "execute", "wait"} => worker[w].f # None
  /\ worker[w].pc \in {"idle", "download"} => \A k \in Command(w) : ~Busy(w, k)
  /\ worker[w].cmd \in 0..Len(Template[w]) + 1
  /\ At(w, "execute") => worker[w].cmd # 0
  /\ At(w, "wait") => worker[w].cmd \in Command(w)
  /\ worker[w].src \in 1..Len(Mail) + 1 /\ worker[w].timeouts \in 0..MaxTimeouts
  /\ pipe[w].state = "running" => At(w, "wait")

\* The first blocks of the mail.
Prefix(n) == [j \in 1..n |-> Mail[j]]

\* What the process of the current command got, by what its goroutine does next.
Fed(w) ==
  LET g == feeder[w][Current(w)]
      p == pipe[w]
  IN  /\ g.pc \in {"seek", "parse", "reseek"} => p.got = <<>>
      /\ g.pc = "parse" => worker[w].off = 0
      /\ g.pc = "read" => worker[w].off \in 0..Len(Mail) /\ p.got = Prefix(worker[w].off)
      /\ g.pc = "write" =>
           /\ worker[w].off \in 1..Len(Mail) /\ g.block = Mail[worker[w].off]
           /\ p.got = Prefix(worker[w].off - 1)
      /\ g.pc = "close" => p.got = Mail
      /\ p.eof => g.pc \in {"rewind", "done"} /\ p.got = Mail

\* A row that nothing happened to has its file to itself, in it what was
\* downloaded, and one goroutine that moves the offset.
Sound(w) ==
  taint[w] = {} =>
    /\ worker[w].f # None => \A v \in Row \ {w} : worker[v].f # worker[w].f
    /\ At(w, "download") =>
         worker[w].off = worker[w].src - 1 /\ content[worker[w].f] = Prefix(worker[w].src - 1)
    /\ worker[w].pc \in {"execute", "wait"} => content[worker[w].f] = Mail
    /\ At(w, "wait") => \A k \in Command(w) : Busy(w, k) => k = Current(w)
    /\ pipe[w].state = "running" => Fed(w)

\* A command of MailPipeTo is left behind only when it succeeded.
Delivered(w) ==
  \A k \in Command(w) :
    Template[w][k] = "pipe" /\ result[w][k] = "none" =>
      /\ ~At(w, "done")
      /\ worker[w].pc \in {"execute", "wait"} => worker[w].cmd <= k
      /\ At(w, "wait") /\ pipe[w].state = "ok" => worker[w].cmd # k

Broken(w) == \E k \in Command(w) : result[w][k] = "broken"

RowInv(w) == Shape(w) /\ Sound(w) /\ Delivered(w) /\ (Broken(w) => taint[w] # {})
IInv == Typed /\ \A w \in Row : RowInv(w)

----------------------------------------------------------------------------
(* Blocks *)

LEMMA MailIs ==
  /\ Mail \in Seq(Nat) /\ Len(Mail) \in Nat \ {0} /\ DOMAIN Mail = 1..Len(Mail)
  /\ \A j \in 1..Len(Mail) : Mail[j] \in Nat
  /\ None \notin Inode /\ MaxTimeouts \in Nat
  /\ \A w \in Row : Len(Template[w]) \in Nat /\ Command(w) = 1..Len(Template[w])
  <1>1. Mail \in Seq(Nat \ {0}) /\ Mail # <<>>
    BY MailPipeConstants
  <1>2. \A w \in Row : Template[w] \in Seq({"pipe", "scan"})
    BY MailPipeConstants
  <1> QED
    BY <1>1, <1>2, MailPipeConstants DEF Command

\* The block that is appended to, or written behind, the first ones is the next.
LEMMA PrefixGrows ==
  /\ Prefix(0) = <<>> /\ Prefix(Len(Mail)) = Mail
  /\ \A n \in 0..Len(Mail) : Prefix(n) \in Seq(Nat) /\ Len(Prefix(n)) = n
  /\ \A n \in 0..Len(Mail) - 1 :
       /\ Append(Prefix(n), Mail[n + 1]) = Prefix(n + 1)
       /\ Written(Prefix(n), n, Mail[n + 1]) = Prefix(n + 1)
  <1>1. \A n \in 0..Len(Mail) : Prefix(n) \in Seq(Nat) /\ Len(Prefix(n)) = n
    <2> SUFFICES ASSUME NEW n \in 0..Len(Mail)
                 PROVE  Prefix(n) \in Seq(Nat) /\ Len(Prefix(n)) = n
      OBVIOUS
    <2>1. n \in Nat /\ \A j \in 1..n : Mail[j] \in Nat
      BY MailIs
    <2>2. Prefix(n) \in [1..n -> Nat]
      BY <2>1 DEF Prefix
    <2> QED
      BY <2>1, <2>2
  <1>2. Prefix(0) = <<>>
    BY DEF Prefix
  <1>3. Prefix(Len(Mail)) = Mail
    BY MailIs DEF Prefix
  <1>4. ASSUME NEW n \in 0..Len(Mail) - 1
        PROVE  /\ Append(Prefix(n), Mail[n + 1]) = Prefix(n + 1)
               /\ Written(Prefix(n), n, Mail[n + 1]) = Prefix(n + 1)
    <2>1. n \in 0..Len(Mail) /\ n + 1 \in 0..Len(Mail) /\ Mail[n + 1] \in Nat /\ n \in Nat
      BY MailIs
    <2>2. /\ Prefix(n) \in Seq(Nat) /\ Len(Prefix(n)) = n
          /\ Prefix(n + 1) \in Seq(Nat) /\ Len(Prefix(n + 1)) = n + 1
      BY <1>1, <2>1
    <2>3. \A j \in 1..n : Prefix(n)[j] = Mail[j]
      BY DEF Prefix
    <2>4. \A j \in 1..n + 1 : Prefix(n + 1)[j] = Mail[j]
      BY DEF Prefix
    <2>5. Append(Prefix(n), Mail[n + 1]) = Prefix(n + 1)
      <3> DEFINE a == Append(Prefix(n), Mail[n + 1])
      <3>1. /\ a \in Seq(Nat) /\ Len(a) = n + 1
            /\ \A j \in 1..n + 1 : a[j] = IF j = n + 1 THEN Mail[n + 1] ELSE Prefix(n)[j]
        BY <2>1, <2>2
      <3>2. \A j \in 1..n + 1 : a[j] = Prefix(n + 1)[j]
        BY <2>1, <2>3, <2>4, <3>1
      <3> HIDE DEF a
      <3>3. a = Prefix(n + 1)
        BY <2>2, <3>1, <3>2, SeqEqual
      <3> QED
        BY <3>3 DEF a
    <2>6. Written(Prefix(n), n, Mail[n + 1]) =
            [m \in 1..n + 1 |-> IF m = n + 1 THEN Mail[n + 1]
                                ELSE IF m <= n THEN Prefix(n)[m] ELSE Hole]
      BY <2>1, <2>2 DEF Written
    <2>7. Written(Prefix(n), n, Mail[n + 1]) = [m \in 1..n + 1 |-> Mail[m]]
      BY <2>1, <2>3, <2>6
    <2> QED
      BY <2>5, <2>7 DEF Prefix
  <1> QED
    BY <1>1, <1>2, <1>3, <1>4
----------------------------------------------------------------------------
(* A step of one row, and what it leaves to the others *)

Elsewhere(w) ==
  \A v \in Row \ {w} :
    /\ worker'[v] = worker[v] /\ feeder'[v] = feeder[v]
    /\ pipe'[v] = pipe[v] /\ result'[v] = result[v]

\* A row whose file is touched by another is tainted.
Untouched(w) ==
  \A v \in Row \ {w} :
    /\ taint[v] \subseteq taint'[v]
    /\ taint'[v] = {} /\ worker[v].f # None =>
         /\ content'[worker[v].f] = content[worker[v].f]
         /\ worker'[w].f # worker[v].f

StepOf(w) == Typed' /\ Elsewhere(w) /\ Untouched(w) /\ RowInv(w)'

LEMMA OthersKeep ==
  ASSUME IInv, NEW w \in Row, Elsewhere(w), Untouched(w), NEW v \in Row \ {w}
  PROVE  RowInv(v)'
  <1> /\ RowInv(v) /\ worker'[v] = worker[v] /\ feeder'[v] = feeder[v]
      /\ pipe'[v] = pipe[v] /\ result'[v] = result[v] /\ taint[v] \subseteq taint'[v]
    BY DEF IInv, Elsewhere, Untouched
  <1>1. Shape(v)'
    BY DEF RowInv, Shape, At, Busy
  <1>2. Delivered(v)'
    BY DEF RowInv, Delivered, At
  <1>3. Broken(v)' => taint'[v] # {}
    BY DEF RowInv, Broken
  <1>4. ASSUME taint'[v] = {} PROVE Sound(v)'
    <2>1. /\ taint[v] = {} /\ Sound(v) /\ Shape(v)
          /\ worker[v].f # None => /\ content'[worker[v].f] = content[worker[v].f]
                                   /\ worker'[w].f # worker[v].f
      BY <1>4 DEF RowInv, Untouched
    <2>2. worker'[v].f # None => \A u \in Row \ {v} : worker'[u].f # worker'[v].f
      BY <2>1 DEF Sound, Elsewhere
    <2>3. pipe'[v].state = "running" => Fed(v)'
      BY <2>1 DEF Sound, Fed, Current
    <2>4. At(v, "wait")' => \A k \in Command(v) : Busy(v, k)' => k = Current(v)'
      BY <2>1 DEF Sound, Busy, Current, At
    <2> QED
      BY <2>1, <2>2, <2>3, <2>4 DEF Sound, Shape, At
  <1> QED
    BY <1>1, <1>2, <1>3, <1>4 DEF RowInv, Sound

\* Most steps touch no file but the row's own, and taint no other row.
LEMMA OwnFile ==
  ASSUME IInv, NEW w \in Row, worker'[w].f \in {worker[w].f, None},
         \A v \in Row \ {w} : taint'[v] = taint[v],
         \A i \in Inode : i # worker[w].f => content'[i] = content[i]
  PROVE  Untouched(w)
  <1> SUFFICES ASSUME NEW v \in Row \ {w}, taint[v] = {}, worker[v].f # None
               PROVE  content'[worker[v].f] = content[worker[v].f] /\ worker'[w].f # worker[v].f
    BY DEF Untouched
  <1>1. worker[v].f \in Inode /\ worker[w].f # worker[v].f
    BY DEF IInv, Typed, WorkerType, RowInv, Sound
  <1> QED
    BY <1>1

----------------------------------------------------------------------------
(* The goroutines *)

\* What a step of a goroutine changes: its own record, the offset of the open file,
\* and the pipe to the command, if that still runs.
LEMMA Feeds ==
  ASSUME IInv, NEW w \in Row, NEW k \in Command(w), Feeding(w, k)
  PROVE  /\ UNCHANGED <<path, content, result, taint>> /\ Busy(w, k)
         /\ worker' \in [Row -> WorkerType]
         /\ \A v \in Row \ {w} : worker'[v] = worker[v]
         /\ worker'[w].pc = worker[w].pc /\ worker'[w].f = worker[w].f
         /\ worker'[w].cmd = worker[w].cmd /\ worker'[w].src = worker[w].src
         /\ worker'[w].timeouts = worker[w].timeouts
         /\ DOMAIN feeder' = Row /\ \A v \in Row \ {w} : feeder'[v] = feeder[v]
         /\ feeder'[w] \in [Command(w) -> FeederType]
         /\ \A j \in Command(w) \ {k} : feeder'[w][j] = feeder[w][j]
         /\ pipe' \in [Row -> PipeType] /\ \A v \in Row \ {w} : pipe'[v] = pipe[v]
         /\ pipe'[w].state = pipe[w].state \/ (pipe'[w].state = "bad" /\ pipe[w].state = "running")
  <1> /\ content \in [Inode -> Seq(Nat)]
      /\ worker \in [Row -> WorkerType] /\ worker[w] \in WorkerType
      /\ DOMAIN feeder = Row /\ feeder[w] \in [Command(w) -> FeederType] /\ feeder[w][k] \in FeederType
      /\ pipe \in [Row -> PipeType] /\ pipe[w] \in PipeType
    BY DEF IInv, Typed
  <1>1. UNCHANGED <<path, content, result, taint>> /\ Busy(w, k)
    BY DEF Feeding, Seek, Parse, Read, Write, Close, Cancel, Rewind, Busy
  <1>2. /\ worker' \in [Row -> WorkerType] /\ \A v \in Row \ {w} : worker'[v] = worker[v]
        /\ worker'[w].pc = worker[w].pc /\ worker'[w].f = worker[w].f
        /\ worker'[w].cmd = worker[w].cmd /\ worker'[w].src = worker[w].src
        /\ worker'[w].timeouts = worker[w].timeouts
    <2>1. worker' = worker \/ \E n \in Nat : worker' = [worker EXCEPT ![w].off = n]
      <3>1. CASE Take(w, k)
        <4>1. worker' = [worker EXCEPT ![w].off = worker[w].off + 1]
          BY <3>1 DEF Take
        <4>2. worker[w].off + 1 \in Nat
          BY DEF WorkerType
        <4> QED
          BY <4>1, <4>2
      <3>2. CASE SeekTo(w, 0)
        BY <3>2 DEF SeekTo
      <3>3. CASE UNCHANGED worker
        BY <3>3
      <3> QED
        BY <3>1, <3>2, <3>3 DEF Feeding, Seek, Parse, Read, Write, Close, Cancel, Rewind
    <2>2. ASSUME NEW n \in Nat, worker' = [worker EXCEPT ![w].off = n]
          PROVE  /\ worker' \in [Row -> WorkerType] /\ \A v \in Row \ {w} : worker'[v] = worker[v]
                 /\ worker'[w].pc = worker[w].pc /\ worker'[w].f = worker[w].f
                 /\ worker'[w].cmd = worker[w].cmd /\ worker'[w].src = worker[w].src
                 /\ worker'[w].timeouts = worker[w].timeouts
      BY <2>2 DEF WorkerType
    <2> QED
      BY <2>1, <2>2
  <1>3. \E g \in FeederType : feeder' = [feeder EXCEPT ![w][k] = g]
    <2>1. ASSUME NEW pc \in FeederPc, Feed(w, k, pc)
          PROVE  \E g \in FeederType : feeder' = [feeder EXCEPT ![w][k] = g]
      <3>1. [feeder[w][k] EXCEPT !.pc = pc] \in FeederType
        BY DEF FeederType
      <3> QED
        BY <2>1, <3>1 DEF Feed
    <2>2. CASE Take(w, k)
      <3>1. worker[w].f \in Inode /\ worker[w].off + 1 \in 1..Len(content[worker[w].f])
        BY <2>2 DEF Take, More, File, WorkerType
      <3>2. [pc |-> "write", block |-> File(w)[worker[w].off + 1]] \in FeederType
        BY <3>1 DEF File, FeederType, FeederPc
      <3> QED
        BY <2>2, <3>2 DEF Take
    <2>3. CASE Write(w, k)
      <3>1. [pc |-> IF Connected(w, k) THEN "read" ELSE "cancel", block |-> Hole] \in FeederType
        BY DEF FeederType, FeederPc, Hole
      <3> QED
        BY <2>3, <3>1 DEF Write
    <2>4. Take(w, k) \/ Write(w, k) \/ \E pc \in FeederPc : Feed(w, k, pc)
      BY DEF Feeding, Seek, Parse, Read, Close, Cancel, Rewind, FeederPc
    <2> QED
      BY <2>1, <2>2, <2>3, <2>4
  <1>4. /\ DOMAIN feeder' = Row /\ \A v \in Row \ {w} : feeder'[v] = feeder[v]
        /\ feeder'[w] \in [Command(w) -> FeederType]
        /\ \A j \in Command(w) \ {k} : feeder'[w][j] = feeder[w][j]
    BY <1>3
  <1>5. /\ pipe' \in [Row -> PipeType] /\ \A v \in Row \ {w} : pipe'[v] = pipe[v]
        /\ pipe'[w].state = pipe[w].state \/ (pipe'[w].state = "bad" /\ pipe[w].state = "running")
    <2>1. CASE UNCHANGED pipe
      BY <2>1
    <2>2. CASE Write(w, k) /\ Connected(w, k)
      <3>1. Append(pipe[w].got, feeder[w][k].block) \in Seq(Nat)
        BY DEF PipeType, FeederType
      <3>2. pipe' = [pipe EXCEPT ![w].got = Append(pipe[w].got, feeder[w][k].block)]
        BY <2>2 DEF Write
      <3> QED
        BY <3>1, <3>2 DEF PipeType
    <2>3. CASE Close(w, k) /\ Connected(w, k)
      BY <2>3 DEF Close, PipeType
    <2>4. CASE Cancel(w, k) /\ Connected(w, k)
      <3>1. pipe' = [pipe EXCEPT ![w] = [NoPipe EXCEPT !.state = "bad"]] /\ pipe[w].state = "running"
        BY <2>4 DEF Cancel, Connected
      <3>2. <<>> \in Seq(Nat)
        OBVIOUS
      <3>3. /\ [NoPipe EXCEPT !.state = "bad"] \in PipeType
            /\ [NoPipe EXCEPT !.state = "bad"].state = "bad"
        BY <3>2 DEF NoPipe, PipeType
      <3> QED
        BY <3>1, <3>3
    <2> QED
      BY <2>1, <2>2, <2>3, <2>4 DEF Feeding, Seek, Parse, Read, Write, Close, Cancel, Rewind
  <1> QED
    BY <1>1, <1>2, <1>4, <1>5

\* While nothing happened to the mail, the goroutine of the command that runs is the
\* only one, and hands on block after block.
LEMMA FeedsInOrder ==
  ASSUME IInv, NEW w \in Row, NEW k \in Command(w), Feeding(w, k),
         taint[w] = {}, pipe[w].state = "running", pipe'[w].state = "running"
  PROVE  Fed(w)'
  <1>1. /\ At(w, "wait") /\ k = Current(w) /\ Connected(w, k) /\ Fed(w)
        /\ content[worker[w].f] = Mail /\ worker[w].f # None
    BY Feeds DEF IInv, RowInv, Shape, Sound, Connected, At
  <1> DEFINE g == feeder[w][k]
             p == pipe[w]
             off == worker[w].off
  <1>2. /\ g.pc \in {"seek", "parse", "reseek"} => p.got = <<>>
        /\ g.pc = "parse" => off = 0
        /\ g.pc = "read" => off \in 0..Len(Mail) /\ p.got = Prefix(off)
        /\ g.pc = "write" =>
             off \in 1..Len(Mail) /\ g.block = Mail[off] /\ p.got = Prefix(off - 1)
        /\ g.pc = "close" => p.got = Mail
        /\ p.eof => g.pc \in {"rewind", "done"} /\ p.got = Mail
    BY <1>1 DEF Fed
  <1>3. /\ worker'[w].cmd = k /\ feeder'[w][k] \in FeederType /\ worker \in [Row -> WorkerType]
        /\ DOMAIN feeder = Row /\ feeder[w] \in [Command(w) -> FeederType] /\ g \in FeederType
        /\ pipe \in [Row -> PipeType] /\ p \in PipeType /\ off \in Nat
    BY <1>1, Feeds DEF IInv, Typed, Current, WorkerType
  <1> DEFINE h == feeder'[w][k]
             q == pipe'[w]
             o == worker'[w].off
             Good == /\ h.pc \in {"seek", "parse", "reseek"} => q.got = <<>>
                     /\ h.pc = "parse" => o = 0
                     /\ h.pc = "read" => o \in 0..Len(Mail) /\ q.got = Prefix(o)
                     /\ h.pc = "write" =>
                          o \in 1..Len(Mail) /\ h.block = Mail[o] /\ q.got = Prefix(o - 1)
                     /\ h.pc = "close" => q.got = Mail
                     /\ q.eof => h.pc \in {"rewind", "done"} /\ q.got = Mail
  <1>4. SUFFICES Good
    BY <1>3 DEF Fed, Current
  <1>5. ASSUME NEW pc, Feed(w, k, pc) PROVE h.pc = pc
    BY <1>3, <1>5 DEF Feed, FeederType
  <1>6. SeekTo(w, 0) => o = 0
    BY <1>1, <1>3 DEF SeekTo, WorkerType
  <1>7. CASE Seek(w, k)
    BY <1>2, <1>5, <1>6, <1>7, MailIs, PrefixGrows DEF Seek
  <1>8. ASSUME Take(w, k), g.pc = "parse" \/ g.pc = "read", pipe' = pipe PROVE Good
    <2>1. off \in 0..Len(Mail) /\ p.got = Prefix(off) /\ ~p.eof
      BY <1>2, <1>8, MailIs, PrefixGrows
    <2>2. off + 1 \in 1..Len(Mail) /\ File(w) = Mail
      BY <1>1, <1>8, <2>1, MailIs DEF Take, More, File
    <2>3. h = [pc |-> "write", block |-> Mail[off + 1]] /\ o = off + 1
      BY <1>3, <1>8, <2>2 DEF Take, WorkerType
    <2> QED
      BY <1>8, <2>1, <2>2, <2>3
  <1>9. CASE Parse(w, k)
    BY <1>2, <1>5, <1>8, <1>9 DEF Parse
  <1>10. CASE Read(w, k)
    <2>1. CASE Take(w, k)
      BY <1>8, <1>10, <2>1 DEF Read
    <2>2. CASE ~Take(w, k)
      <3>1. /\ off >= Len(Mail) /\ h.pc = "close" /\ q = p /\ g.pc = "read"
        BY <1>1, <1>3, <1>5, <1>10, <2>2, MailIs DEF Read, More, File
      <3>2. p.got = Mail
        BY <1>2, <1>3, <3>1, MailIs, PrefixGrows
      <3> QED
        BY <1>2, <3>1, <3>2
    <2> QED
      BY <2>1, <2>2
  <1>11. CASE Write(w, k)
    <2>1. /\ g.pc = "write" /\ h = [pc |-> "read", block |-> Hole] /\ o = off
          /\ q = [p EXCEPT !.got = Append(p.got, g.block)]
      BY <1>1, <1>3, <1>11 DEF Write
    <2>2. off \in 1..Len(Mail) /\ q.got = Append(Prefix(off - 1), Mail[off]) /\ ~q.eof
      BY <1>2, <1>3, <2>1 DEF PipeType
    <2>3. Append(Prefix(off - 1), Mail[off]) = Prefix(off)
      <3>1. off - 1 \in 0..Len(Mail) - 1 /\ (off - 1) + 1 = off
        BY <2>2, MailIs
      <3> QED
        BY <3>1, PrefixGrows
    <2>4. h.pc = "read" /\ q.got = Prefix(off) /\ ~q.eof /\ o = off
      BY <2>1, <2>2, <2>3
    <2>5. off \in 0..Len(Mail)
      BY <2>2, MailIs
    <2> QED
      BY <2>4, <2>5
  <1>12. CASE Close(w, k)
    <2>1. h.pc \in {"rewind", "done"} /\ g.pc = "close" /\ q.got = p.got
      BY <1>1, <1>3, <1>5, <1>12 DEF Close, PipeType
    <2> QED
      BY <1>2, <2>1
  <1>13. CASE Cancel(w, k)
    BY <1>1, <1>3, <1>13 DEF Cancel, NoPipe
  <1>14. CASE Rewind(w, k)
    BY <1>2, <1>5, <1>14 DEF Rewind
  <1> QED
    BY <1>7, <1>9, <1>10, <1>11, <1>12, <1>13, <1>14 DEF Feeding

LEMMA FeedingStep ==
  ASSUME IInv, NEW w \in Row, NEW k \in Command(w), Feeding(w, k)
  PROVE  StepOf(w)
  <1> /\ Typed /\ RowInv(w) /\ worker \in [Row -> WorkerType] /\ worker[w] \in WorkerType
    BY DEF IInv, Typed
  <1>1. /\ worker'[w].pc = worker[w].pc /\ worker'[w].f = worker[w].f
        /\ worker'[w].cmd = worker[w].cmd /\ worker'[w].src = worker[w].src
        /\ worker'[w].timeouts = worker[w].timeouts
    BY Feeds
  <1>2. /\ UNCHANGED <<path, content, result, taint>> /\ Busy(w, k)
        /\ pipe'[w].state = pipe[w].state \/ (pipe'[w].state = "bad" /\ pipe[w].state = "running")
        /\ \A j \in Command(w) : Busy(w, j)' => Busy(w, j)
    BY Feeds DEF Busy
  <1>3. Typed'
    BY Feeds DEF Typed
  <1>4. Elsewhere(w) /\ Untouched(w)
    <2>1. Untouched(w)
      BY <1>1, <1>2, OwnFile
    <2> QED
      BY <2>1, Feeds DEF Elsewhere
  <1>5. Shape(w)'
    BY <1>1, <1>2 DEF RowInv, Shape, At
  <1>6. Delivered(w)' /\ (Broken(w)' => taint'[w] # {})
    BY <1>1, <1>2 DEF RowInv, Delivered, Broken, At
  <1>7. Sound(w)'
    <2> SUFFICES ASSUME taint[w] = {} PROVE Sound(w)'
      BY <1>2 DEF Sound
    <2>1. worker'[w].f # None => \A v \in Row \ {w} : worker'[v].f # worker'[w].f
      BY <1>1, Feeds DEF RowInv, Sound
    <2>2. ~At(w, "download")'
      BY <1>1, <1>2 DEF RowInv, Shape, At
    <2>3. worker'[w].pc \in {"execute", "wait"} => content'[worker'[w].f] = Mail
      BY <1>1, <1>2 DEF RowInv, Sound
    <2>4. At(w, "wait")' => \A j \in Command(w) : Busy(w, j)' => j = Current(w)'
      BY <1>1, <1>2 DEF RowInv, Sound, At, Current
    <2>5. pipe'[w].state = "running" => Fed(w)'
      BY <1>2, FeedsInOrder
    <2> QED
      BY <2>1, <2>2, <2>3, <2>4, <2>5 DEF Sound
  <1> QED
    BY <1>3, <1>4, <1>5, <1>6, <1>7 DEF StepOf, RowInv

----------------------------------------------------------------------------
(* The download *)

LEMMA OpenStep == ASSUME IInv, NEW w \in Row, Open(w) PROVE StepOf(w)
  <1> Typed /\ RowInv(w)
    BY DEF IInv
  <1>1. PICK i \in IF path = None THEN {CHOOSE i \in Unused : TRUE} ELSE {path} :
          /\ path' = i /\ content' = [content EXCEPT ![i] = <<>>]
          /\ worker' = [worker EXCEPT ![w] = [Idle EXCEPT !.pc = "download", !.f = i]]
          /\ taint' = [v \in Row |-> IF Users(i) # {} /\ v \in Users(i) \union {w}
                                     THEN taint[v] \union {"shared"} ELSE taint[v]]
    BY DEF Open
  <1>2. i \in Inode
    <2>1. CASE path = None
      <3>1. Unused # {} /\ i = CHOOSE j \in Unused : TRUE
        BY <2>1 DEF Open
      <3>2. i \in Unused
        BY <3>1
      <3> QED
        BY <3>2 DEF Unused
    <2>2. CASE path # None
      BY <2>2 DEF Typed
    <2> QED
      BY <2>1, <2>2
  <1>3. At(w, "idle") /\ UNCHANGED <<feeder, pipe, result>>
    BY DEF Open
  <1>4. /\ worker'[w] \in WorkerType /\ worker'[w].pc = "download" /\ worker'[w].f = i
        /\ worker'[w].off = 0 /\ worker'[w].cmd = 0 /\ worker'[w].src = 1 /\ worker'[w].timeouts = 0
        /\ \A v \in Row \ {w} : worker'[v] = worker[v]
        /\ content'[i] = <<>> /\ \A j \in Inode \ {i} : content'[j] = content[j]
    BY <1>1, <1>2 DEF Idle, WorkerType, Typed
  <1>5. Typed'
    <2>1. worker' \in [Row -> WorkerType]
      BY <1>1, <1>4 DEF Typed
    <2>2. content' \in [Inode -> Seq(Nat)]
      <3>1. <<>> \in Seq(Nat)
        OBVIOUS
      <3> QED
        BY <1>1, <3>1 DEF Typed
    <2>3. taint' \in [Row -> SUBSET Taints]
      BY <1>1 DEF Typed, Taints
    <2> QED
      BY <1>1, <1>2, <1>3, <2>1, <2>2, <2>3 DEF Typed
  <1>6. /\ \A v \in Row : taint[v] \subseteq taint'[v]
        /\ \A v \in Row : worker[v].f = i => taint'[v] # {} /\ taint'[w] # {}
    BY <1>1 DEF Users, Typed
  <1>7. Elsewhere(w) /\ Untouched(w)
    <2>1. \A v \in Row : worker[v].f # None => worker[v].f \in Inode
      BY DEF Typed, WorkerType
    <2> QED
      BY <1>3, <1>4, <1>6, <2>1 DEF Elsewhere, Untouched
  <1>8. Shape(w)' /\ Delivered(w)'
    <2>1. pipe[w].state # "running" /\ \A k \in Command(w) : ~Busy(w, k)
      BY <1>3 DEF RowInv, Shape, At
    <2> QED
      BY <1>2, <1>3, <1>4, <2>1, MailIs DEF Shape, Delivered, At, Busy
  <1>9. Sound(w)'
    <2>1. \A v \in Row \ {w} : taint'[w] = {} => worker'[v].f # i
      BY <1>4, <1>6
    <2>2. pipe'[w].state # "running"
      BY <1>3 DEF RowInv, Shape, At
    <2> QED
      BY <1>4, <2>1, <2>2, PrefixGrows DEF Sound, At
  <1>10. Broken(w)' => taint'[w] # {}
    BY <1>3, <1>6 DEF RowInv, Broken
  <1> QED
    BY <1>5, <1>7, <1>8, <1>9, <1>10 DEF StepOf, RowInv

LEMMA DownloadStep == ASSUME IInv, NEW w \in Row, Download(w) PROVE StepOf(w)
  <1> /\ Typed /\ RowInv(w) /\ worker \in [Row -> WorkerType] /\ worker[w] \in WorkerType
      /\ content \in [Inode -> Seq(Nat)]
    BY DEF IInv, Typed
  <1> DEFINE s == worker[w].src
             f == worker[w].f
             c == Written(content[f], worker[w].off, Mail[s])
  <1>1. /\ At(w, "download") /\ s \in 1..Len(Mail) /\ f \in Inode /\ worker[w].off \in Nat
        /\ UNCHANGED <<path, feeder, pipe, result, taint>>
        /\ content' = [content EXCEPT ![f] = c]
        /\ worker' = [worker EXCEPT ![w].src = s + 1, ![w].off = worker[w].off + 1]
    BY MailIs DEF Download, RowInv, Shape, At, WorkerType
  <1>2. c \in Seq(Nat)
    <2> DEFINE n == IF worker[w].off + 1 > Len(content[f]) THEN worker[w].off + 1 ELSE Len(content[f])
    <2>1. content[f] \in Seq(Nat) /\ Mail[s] \in Nat /\ n \in Nat
      BY <1>1, MailIs
    <2>2. c = [m \in 1..n |-> IF m = worker[w].off + 1 THEN Mail[s]
                              ELSE IF m <= Len(content[f]) THEN content[f][m] ELSE Hole]
      BY DEF Written
    <2> HIDE DEF c, n
    <2>3. c \in [1..n -> Nat]
      BY <1>1, <2>1, <2>2 DEF Hole
    <2> QED
      BY <2>1, <2>3
  <1> HIDE DEF c
  <1>3. /\ worker' \in [Row -> WorkerType] /\ content' \in [Inode -> Seq(Nat)]
        /\ \A v \in Row \ {w} : worker'[v] = worker[v]
        /\ worker'[w].pc = "download" /\ worker'[w].f = f /\ worker'[w].cmd = worker[w].cmd
        /\ worker'[w].src = s + 1 /\ worker'[w].off = worker[w].off + 1
        /\ worker'[w].timeouts = worker[w].timeouts
        /\ content'[f] = c /\ \A j \in Inode \ {f} : content'[j] = content[j]
    BY <1>1, <1>2 DEF WorkerType, At
  <1>4. Typed' /\ Elsewhere(w) /\ Untouched(w)
    BY <1>1, <1>3, OwnFile DEF Typed, Elsewhere
  <1>5. Shape(w)'
    <2>1. s + 1 \in 1..Len(Mail) + 1 /\ f # None
      BY <1>1, MailIs
    <2>2. worker'[w].cmd \in 0..Len(Template[w]) + 1 /\ worker'[w].timeouts \in 0..MaxTimeouts
      BY <1>3 DEF RowInv, Shape
    <2>3. pipe'[w].state # "running" /\ \A k \in Command(w) : ~Busy(w, k)'
      BY <1>1 DEF RowInv, Shape, At, Busy
    <2> QED
      BY <1>3, <2>1, <2>2, <2>3 DEF Shape, At
  <1>6. Delivered(w)' /\ (Broken(w)' => taint'[w] # {})
    BY <1>1, <1>3 DEF RowInv, Delivered, Broken, At
  <1>7. ASSUME taint[w] = {} PROVE Sound(w)'
    <2>1. worker[w].off = s - 1 /\ content[f] = Prefix(s - 1) /\ pipe[w].state # "running"
      BY <1>1, <1>7 DEF RowInv, Shape, Sound, At
    <2>2. c = Prefix(s) /\ worker'[w].off = worker'[w].src - 1 /\ worker'[w].src - 1 = s
      <3>1. s - 1 \in 0..Len(Mail) - 1 /\ (s - 1) + 1 = s
        BY <1>1, MailIs
      <3> QED
        BY <1>1, <1>3, <2>1, <3>1, PrefixGrows DEF c
    <2> QED
      BY <1>1, <1>3, <1>7, <2>1, <2>2 DEF RowInv, Sound, At
  <1> QED
    BY <1>1, <1>4, <1>5, <1>6, <1>7 DEF StepOf, RowInv, Sound

LEMMA TimeoutStep == ASSUME IInv, NEW w \in Row, Timeout(w) PROVE StepOf(w)
  <1> /\ Typed /\ RowInv(w) /\ worker \in [Row -> WorkerType] /\ worker[w] \in WorkerType
      /\ taint \in [Row -> SUBSET Taints]
    BY DEF IInv, Typed
  <1>1. /\ At(w, "download") /\ worker[w].timeouts < MaxTimeouts
        /\ UNCHANGED <<path, content, feeder, pipe, result>>
        /\ worker' = [worker EXCEPT ![w].src = 1, ![w].timeouts = worker[w].timeouts + 1]
        /\ taint' = IF worker[w].src = 1 THEN taint
                    ELSE [taint EXCEPT ![w] = taint[w] \union {"restarted"}]
    BY DEF Timeout
  <1>2. /\ worker' \in [Row -> WorkerType] /\ \A v \in Row \ {w} : worker'[v] = worker[v]
        /\ worker'[w].pc = "download" /\ worker'[w].f = worker[w].f /\ worker'[w].cmd = worker[w].cmd
        /\ worker'[w].src = 1 /\ worker'[w].off = worker[w].off
        /\ worker'[w].timeouts = worker[w].timeouts + 1
    BY <1>1 DEF WorkerType, At
  <1>3. /\ taint' \in [Row -> SUBSET Taints] /\ \A v \in Row \ {w} : taint'[v] = taint[v]
        /\ taint'[w] = {} => taint[w] = {} /\ worker[w].src = 1
    BY <1>1 DEF Taints
  <1>4. Typed' /\ Elsewhere(w) /\ Untouched(w)
    BY <1>1, <1>2, <1>3, OwnFile DEF Typed, Elsewhere
  <1>5. Shape(w)'
    BY <1>1, <1>2, MailIs DEF RowInv, Shape, At, Busy
  <1>6. Delivered(w)' /\ (Broken(w)' => taint'[w] # {})
    BY <1>1, <1>2, <1>3 DEF RowInv, Delivered, Broken, At
  <1>7. Sound(w)'
    <2>1. pipe'[w].state # "running"
      BY <1>1 DEF RowInv, Shape, At
    <2> QED
      BY <1>1, <1>2, <1>3, <2>1 DEF RowInv, Sound, At
  <1> QED
    BY <1>4, <1>5, <1>6, <1>7 DEF StepOf, RowInv

LEMMA EndStep == ASSUME IInv, NEW w \in Row, Downloaded(w) \/ Fails(w) PROVE StepOf(w)
  <1> /\ Typed /\ RowInv(w) /\ worker \in [Row -> WorkerType] /\ worker[w] \in WorkerType
    BY DEF IInv, Typed
  <1>1. UNCHANGED <<path, content, feeder, pipe, result, taint>>
        /\ worker[w].pc \in {"download", "execute"}
    BY DEF Downloaded, Fails, At
  <1>2. /\ worker' \in [Row -> WorkerType] /\ \A v \in Row \ {w} : worker'[v] = worker[v]
        /\ worker'[w].f = worker[w].f /\ worker'[w].src = worker[w].src
        /\ worker'[w].timeouts = worker[w].timeouts
        /\ \/ /\ worker'[w].pc = "execute" /\ worker'[w].cmd = 1 /\ worker[w].pc = "download"
              /\ worker[w].src > Len(Mail)
           \/ worker'[w].pc = "failed" /\ worker'[w].cmd = worker[w].cmd
    <2>1. CASE Downloaded(w)
      <3>1. /\ worker' = [worker EXCEPT ![w].pc = "execute", ![w].cmd = 1]
            /\ worker[w].pc = "download" /\ worker[w].src > Len(Mail)
        BY <2>1 DEF Downloaded, At
      <3> QED
        BY <3>1 DEF WorkerType
    <2>2. CASE Fails(w)
      <3>1. worker' = [worker EXCEPT ![w].pc = "failed"]
        BY <2>2 DEF Fails
      <3> QED
        BY <3>1 DEF WorkerType
    <2> QED
      BY <2>1, <2>2
  <1>3. Typed' /\ Elsewhere(w) /\ Untouched(w)
    BY <1>1, <1>2, OwnFile DEF Typed, Elsewhere
  <1>4. pipe'[w].state # "running"
    BY <1>1 DEF RowInv, Shape, At
  <1>5. Shape(w)'
    BY <1>1, <1>2, <1>4, MailIs DEF RowInv, Shape, At
  <1>6. Delivered(w)' /\ (Broken(w)' => taint'[w] # {})
    BY <1>1, <1>2, MailIs DEF RowInv, Delivered, Broken, At
  <1>7. Sound(w)'
    <2>1. worker'[w].pc = "execute" /\ taint[w] = {} => content[worker[w].f] = Mail
      <3>1. worker'[w].pc = "execute" => worker[w].src - 1 = Len(Mail)
        BY <1>2, MailIs DEF RowInv, Shape
      <3> QED
        BY <1>2, <3>1, PrefixGrows DEF RowInv, Sound, At
    <2> QED
      BY <1>1, <1>2, <1>4, <2>1 DEF RowInv, Sound, At
  <1> QED
    BY <1>3, <1>5, <1>6, <1>7 DEF StepOf, RowInv

----------------------------------------------------------------------------
(* The commands, and the end *)

LEMMA NoPipeIs ==
  ASSUME NEW state \in {"none", "running", "ok", "bad"}
  PROVE  /\ [NoPipe EXCEPT !.state = state] \in PipeType
         /\ [NoPipe EXCEPT !.state = state].state = state
         /\ [NoPipe EXCEPT !.state = state].got = <<>> /\ ~[NoPipe EXCEPT !.state = state].eof
         /\ NoPipe \in PipeType /\ NoPipe.state = "none"
  <1>1. <<>> \in Seq(Nat)
    OBVIOUS
  <1> QED
    BY <1>1 DEF NoPipe, PipeType

LEMMA LaunchStep ==
  ASSUME IInv, NEW w \in Row, NEW kind, NEW off \in Nat, NEW first \in {"seek", "read"},
         first = "read" => off = 0, Launch(w, kind, off, first)
  PROVE  StepOf(w)
  <1> /\ Typed /\ RowInv(w) /\ worker \in [Row -> WorkerType] /\ worker[w] \in WorkerType
      /\ DOMAIN feeder = Row /\ feeder[w] \in [Command(w) -> FeederType]
      /\ taint \in [Row -> SUBSET Taints] /\ pipe \in [Row -> PipeType]
    BY DEF IInv, Typed
  <1> DEFINE k == worker[w].cmd
             g == [pc |-> first, block |-> Hole]
             p == [NoPipe EXCEPT !.state = "running"]
  <1>1. /\ At(w, "execute") /\ k \in Command(w) /\ UNCHANGED <<path, content, result>>
        /\ worker' = [worker EXCEPT ![w].pc = "wait", ![w].off = off]
        /\ feeder' = [feeder EXCEPT ![w][k] = g] /\ pipe' = [pipe EXCEPT ![w] = p]
        /\ taint' = IF \E j \in Command(w) : Busy(w, j)
                    THEN [taint EXCEPT ![w] = taint[w] \union {"raced"}] ELSE taint
    BY DEF Launch, Current
  <1>2. g \in FeederType /\ g.pc = first
    BY DEF FeederType, FeederPc, Hole
  <1>3. p \in PipeType /\ p.state = "running" /\ p.got = <<>> /\ ~p.eof
    BY NoPipeIs
  <1> HIDE DEF g, p
  <1>4. /\ worker' \in [Row -> WorkerType] /\ \A v \in Row \ {w} : worker'[v] = worker[v]
        /\ worker'[w].pc = "wait" /\ worker'[w].f = worker[w].f /\ worker'[w].cmd = k
        /\ worker'[w].src = worker[w].src /\ worker'[w].off = off
        /\ worker'[w].timeouts = worker[w].timeouts
    BY <1>1 DEF WorkerType
  <1>5. /\ DOMAIN feeder' = Row /\ \A v \in Row \ {w} : feeder'[v] = feeder[v]
        /\ feeder'[w] \in [Command(w) -> FeederType] /\ feeder'[w][k] = g
        /\ \A j \in Command(w) \ {k} : feeder'[w][j] = feeder[w][j]
        /\ pipe' \in [Row -> PipeType] /\ \A v \in Row \ {w} : pipe'[v] = pipe[v]
        /\ pipe'[w] = p
    BY <1>1, <1>2, <1>3
  <1>6. /\ taint' \in [Row -> SUBSET Taints] /\ \A v \in Row \ {w} : taint'[v] = taint[v]
        /\ taint'[w] = {} => taint[w] = {} /\ \A j \in Command(w) : ~Busy(w, j)
    BY <1>1 DEF Taints
  <1>7. Typed'
    BY <1>1, <1>4, <1>5, <1>6 DEF Typed
  <1>8. Elsewhere(w) /\ Untouched(w)
    BY <1>1, <1>4, <1>5, <1>6, OwnFile DEF Elsewhere
  <1>9. Shape(w)' /\ Delivered(w)'
    BY <1>1, <1>3, <1>4, <1>5 DEF RowInv, Shape, Delivered, At
  <1>10. ASSUME taint'[w] = {} PROVE Sound(w)'
    <2>1. Fed(w)'
      BY <1>2, <1>3, <1>4, <1>5, MailIs, PrefixGrows DEF Fed, Current
    <2>2. content'[worker'[w].f] = Mail
      BY <1>1, <1>4, <1>6, <1>10 DEF RowInv, Sound, At
    <2>3. \A j \in Command(w) : Busy(w, j)' => j = Current(w)'
      BY <1>4, <1>5, <1>6, <1>10 DEF Busy, Current
    <2>4. worker'[w].f # None => \A v \in Row \ {w} : worker'[v].f # worker'[w].f
      BY <1>4, <1>6, <1>10 DEF RowInv, Sound
    <2> QED
      BY <1>4, <2>1, <2>2, <2>3, <2>4 DEF Sound, At
  <1>11. Broken(w)' => taint'[w] # {}
    BY <1>1, <1>6 DEF RowInv, Broken
  <1> QED
    BY <1>7, <1>8, <1>9, <1>10, <1>11 DEF StepOf, RowInv, Sound

LEMMA ExitStep == ASSUME IInv, NEW w \in Row, ExitOk(w) \/ ExitBad(w) PROVE StepOf(w)
  <1> /\ Typed /\ RowInv(w) /\ pipe \in [Row -> PipeType] /\ pipe[w] \in PipeType
      /\ DOMAIN result = Row /\ result[w] \in [Command(w) -> Results]
    BY DEF IInv, Typed
  <1> DEFINE k == worker[w].cmd
  <1>1. /\ pipe[w].state = "running" /\ At(w, "wait") /\ k \in Command(w)
        /\ UNCHANGED <<path, content, worker, feeder, taint>>
    BY DEF ExitOk, ExitBad, RowInv, Shape
  <1>2. /\ pipe' \in [Row -> PipeType] /\ \A v \in Row \ {w} : pipe'[v] = pipe[v]
        /\ pipe'[w].state \in {"ok", "bad"}
    BY NoPipeIs DEF ExitOk, ExitBad
  <1>3. /\ DOMAIN result' = Row /\ \A v \in Row \ {w} : result'[v] = result[v]
        /\ result'[w] \in [Command(w) -> Results]
        /\ \A j \in Command(w) \ {k} : result'[w][j] = result[w][j]
        /\ pipe'[w].state = "ok" => result'[w][k] # "none"
        /\ result'[w][k] = "broken" => result[w][k] = "broken" \/ (pipe[w].eof /\ pipe[w].got # Mail)
        /\ result'[w][k] = "none" => result[w][k] = "none"
    <2>1. CASE ExitOk(w)
      <3>1. Outcome(w) \in Results \ {"none"}
            /\ (Outcome(w) = "broken" => pipe[w].eof /\ pipe[w].got # Mail)
        BY DEF Outcome, Results, PipeType
      <3>2. result' = [result EXCEPT ![w][k] = Outcome(w)]
        BY <2>1 DEF ExitOk, Current
      <3> QED
        BY <1>1, <3>1, <3>2
    <2>2. CASE ExitBad(w)
      BY <2>2, NoPipeIs DEF ExitBad
    <2> QED
      BY <2>1, <2>2
  <1>4. Typed'
    BY <1>1, <1>2, <1>3 DEF Typed
  <1>5. Elsewhere(w) /\ Untouched(w)
    BY <1>1, <1>2, <1>3, OwnFile DEF Elsewhere
  <1>6. Shape(w)'
    BY <1>1, <1>2 DEF RowInv, Shape, At, Busy
  <1>7. Delivered(w)'
    BY <1>1, <1>2, <1>3 DEF RowInv, Delivered, At
  <1>8. Sound(w)'
    BY <1>1, <1>2 DEF RowInv, Sound, At, Busy, Current
  <1>9. Broken(w)' => taint'[w] # {}
    <2> SUFFICES ASSUME taint[w] = {}, NEW j \in Command(w), result'[w][j] = "broken" PROVE FALSE
      BY <1>1 DEF Broken
    <2>1. result[w][j] # "broken" /\ j = k
      BY <1>3 DEF RowInv, Broken
    <2>2. pipe[w].eof => pipe[w].got = Mail
      BY <1>1 DEF RowInv, Sound, Fed
    <2> QED
      BY <1>3, <2>1, <2>2
  <1> QED
    BY <1>4, <1>5, <1>6, <1>7, <1>8, <1>9 DEF StepOf, RowInv

LEMMA WaitStep == ASSUME IInv, NEW w \in Row, Wait(w) PROVE StepOf(w)
  <1> Typed /\ RowInv(w) /\ worker \in [Row -> WorkerType] /\ worker[w] \in WorkerType
    BY DEF IInv, Typed
  <1> DEFINE k == worker[w].cmd
             next == pipe[w].state = "ok" \/ Template[w][k] = "scan"
  <1>1. /\ At(w, "wait") /\ k \in Command(w) /\ pipe[w].state \in {"ok", "bad"}
        /\ UNCHANGED <<path, content, feeder, pipe, result, taint>>
        /\ worker' = IF next THEN [worker EXCEPT ![w].pc = "execute", ![w].cmd = k + 1]
                     ELSE [worker EXCEPT ![w].pc = "failed"]
    BY DEF Wait, Current, RowInv, Shape
  <1>2. /\ worker' \in [Row -> WorkerType] /\ \A v \in Row \ {w} : worker'[v] = worker[v]
        /\ worker'[w].f = worker[w].f /\ worker'[w].src = worker[w].src
        /\ worker'[w].timeouts = worker[w].timeouts
        /\ \/ next /\ worker'[w].pc = "execute" /\ worker'[w].cmd = k + 1
           \/ worker'[w].pc = "failed" /\ worker'[w].cmd = k
    <2>1. CASE next
      BY <1>1, <2>1 DEF WorkerType
    <2>2. CASE ~next
      BY <1>1, <2>2 DEF WorkerType
    <2> QED
      BY <2>1, <2>2
  <1>3. Typed' /\ Elsewhere(w) /\ Untouched(w)
    BY <1>1, <1>2, OwnFile DEF Typed, Elsewhere
  <1>4. Shape(w)'
    BY <1>1, <1>2, MailIs DEF RowInv, Shape, At
  <1>5. Delivered(w)'
    <2> SUFFICES ASSUME NEW j \in Command(w), Template[w][j] = "pipe", result[w][j] = "none",
                        next, worker'[w].cmd = k + 1
                 PROVE  k + 1 <= j
      BY <1>1, <1>2 DEF Delivered, At
    <2>1. k <= j /\ (pipe[w].state = "ok" => k # j)
      BY <1>1 DEF RowInv, Delivered, At
    <2> QED
      BY <1>1, <2>1, MailIs
  <1>6. Sound(w)'
    BY <1>1, <1>2 DEF RowInv, Sound, At
  <1>7. Broken(w)' => taint'[w] # {}
    BY <1>1 DEF RowInv, Broken
  <1> QED
    BY <1>3, <1>4, <1>5, <1>6, <1>7 DEF StepOf, RowInv

LEMMA FinishStep == ASSUME IInv, NEW w \in Row, Finish(w) PROVE StepOf(w)
  <1> /\ Typed /\ RowInv(w) /\ worker \in [Row -> WorkerType] /\ pipe \in [Row -> PipeType]
      /\ content \in [Inode -> Seq(Nat)]
    BY DEF IInv, Typed
  <1>1. /\ (At(w, "execute") /\ worker[w].cmd \notin Command(w)) \/ At(w, "failed")
        /\ UNCHANGED <<feeder, result, taint>> /\ path' = None
        /\ pipe' = [pipe EXCEPT ![w] = NoPipe]
        /\ content' = content \/ content' = [content EXCEPT ![worker[w].f] = <<>>]
    BY DEF Finish, Current
  <1>2. PICK pc \in {"done", "failed"} :
          /\ pc = "done" => At(w, "execute") /\ worker[w].cmd \notin Command(w)
          /\ worker' = [worker EXCEPT ![w] = [Idle EXCEPT !.pc = pc]]
    BY DEF Finish, Current, At
  <1>3. /\ worker' \in [Row -> WorkerType] /\ \A v \in Row \ {w} : worker'[v] = worker[v]
        /\ worker'[w].pc = pc /\ worker'[w].f = None /\ worker'[w].cmd = 0 /\ worker'[w].src = 1
        /\ worker'[w].timeouts = 0
    <2>1. /\ [Idle EXCEPT !.pc = pc] \in WorkerType /\ [Idle EXCEPT !.pc = pc].pc = pc
          /\ [Idle EXCEPT !.pc = pc].f = None /\ [Idle EXCEPT !.pc = pc].cmd = 0
          /\ [Idle EXCEPT !.pc = pc].src = 1 /\ [Idle EXCEPT !.pc = pc].timeouts = 0
      BY DEF Idle, WorkerType
    <2> QED
      BY <1>2, <2>1
  <1>4. /\ pipe' \in [Row -> PipeType] /\ \A v \in Row \ {w} : pipe'[v] = pipe[v]
        /\ pipe'[w].state = "none"
    BY <1>1, NoPipeIs
  <1>5. /\ content' \in [Inode -> Seq(Nat)]
        /\ \A i \in Inode : i # worker[w].f => content'[i] = content[i]
    <2>1. <<>> \in Seq(Nat)
      OBVIOUS
    <2> QED
      BY <1>1, <2>1
  <1>6. Typed'
    BY <1>1, <1>3, <1>4, <1>5 DEF Typed
  <1>7. Elsewhere(w) /\ Untouched(w)
    BY <1>1, <1>3, <1>4, <1>5, OwnFile DEF Elsewhere
  <1>8. Shape(w)'
    BY <1>3, <1>4, MailIs DEF Shape, At
  <1>9. Delivered(w)'
    <2> SUFFICES ASSUME NEW j \in Command(w), Template[w][j] = "pipe", result[w][j] = "none",
                        pc = "done"
                 PROVE  FALSE
      BY <1>1, <1>3 DEF Delivered, At
    <2>1. worker[w].cmd <= j /\ worker[w].cmd \in 1..Len(Template[w]) + 1
      BY <1>2, MailIs DEF RowInv, Delivered, Shape, At
    <2> QED
      BY <1>2, <2>1, MailIs
  <1>10. Sound(w)'
    BY <1>3, <1>4 DEF Sound, At
  <1>11. Broken(w)' => taint'[w] # {}
    BY <1>1 DEF RowInv, Broken
  <1> QED
    BY <1>6, <1>7, <1>8, <1>9, <1>10, <1>11 DEF StepOf, RowInv

LEMMA MailPipeToStep == ASSUME IInv, NEW w \in Row, MailPipeTo(w) PROVE StepOf(w)
  <1>1. worker[w].off \in Nat
    BY DEF IInv, Typed, WorkerType
  <1> QED
    BY <1>1, LaunchStep DEF MailPipeTo

LEMMA ScanStep == ASSUME IInv, NEW w \in Row, ScanWithRspamd(w) PROVE StepOf(w)
  BY LaunchStep DEF ScanWithRspamd

----------------------------------------------------------------------------
(* The steps together *)

LEMMA RowStep == ASSUME IInv, NEW w \in Row, StepOf(w) PROVE IInv'
  <1>1. \A v \in Row \ {w} : RowInv(v)'
    BY OthersKeep DEF StepOf
  <1> QED
    BY <1>1 DEF StepOf, IInv

\* What a row starts with, at first and after a crash.
LEMMA Fresh ==
  /\ Idle \in WorkerType /\ Idle.pc = "idle" /\ Idle.f = None /\ Idle.cmd = 0
  /\ Idle.src = 1 /\ Idle.timeouts = 0
  /\ NoPipe \in PipeType /\ NoPipe.state = "none" /\ <<>> \in Seq(Nat)
  /\ \A w \in Row :
       /\ NoFeed(w) \in [Command(w) -> FeederType]
       /\ \A k \in Command(w) : NoFeed(w)[k].pc = "off"
       /\ NoRes(w) \in [Command(w) -> Results]
       /\ \A k \in Command(w) : NoRes(w)[k] = "none"
  <1>1. <<>> \in Seq(Nat)
    OBVIOUS
  <1>2. [pc |-> "off", block |-> Hole] \in FeederType
    BY DEF FeederType, FeederPc, Hole
  <1> QED
    BY <1>1, <1>2, NoPipeIs DEF Idle, WorkerType, NoFeed, NoRes, Results

\* A row that starts anew satisfies its part whatever is in the files.
LEMMA FreshRow ==
  ASSUME NEW w \in Row, worker'[w] = Idle, feeder'[w] = NoFeed(w), pipe'[w] = NoPipe,
         result'[w] = NoRes(w)
  PROVE  RowInv(w)'
  <1>1. Shape(w)'
    BY Fresh, MailIs DEF Shape, At, Busy
  <1>2. Sound(w)' /\ Delivered(w)' /\ ~Broken(w)'
    BY Fresh DEF Sound, Delivered, Broken, At
  <1> QED
    BY <1>1, <1>2 DEF RowInv

LEMMA CrashStep == ASSUME IInv, Crash PROVE IInv'
  <1> Typed /\ worker \in [Row -> WorkerType]
    BY DEF IInv, Typed
  <1>1. /\ path' = path /\ feeder' = [w \in Row |-> NoFeed(w)] /\ pipe' = [w \in Row |-> NoPipe]
        /\ worker' = [w \in Row |-> IF worker[w].pc = "done" THEN worker[w] ELSE Idle]
        /\ result' = [w \in Row |-> IF worker[w].pc = "done" THEN result[w] ELSE NoRes(w)]
        /\ taint' = [w \in Row |-> IF worker[w].pc = "done" THEN taint[w] ELSE {}]
        /\ content' = [i \in Inode |-> IF i = path THEN content[i] ELSE <<>>]
    BY DEF Crash
  <1>2. Typed'
    BY <1>1, Fresh DEF Typed
  <1>3. ASSUME NEW w \in Row, worker[w].pc # "done" PROVE RowInv(w)'
    BY <1>1, <1>3, FreshRow
  <1>4. ASSUME NEW w \in Row, worker[w].pc = "done" PROVE RowInv(w)'
    <2>1. /\ worker'[w] = worker[w] /\ feeder'[w] = NoFeed(w) /\ pipe'[w] = NoPipe
          /\ result'[w] = result[w] /\ taint'[w] = taint[w] /\ RowInv(w)
      BY <1>1, <1>4 DEF IInv
    <2>2. Shape(w)'
      BY <1>4, <2>1, Fresh DEF RowInv, Shape, At
    <2>3. Sound(w)'
      <3>1. \A v \in Row : worker'[v].f \in {worker[v].f, None}
        BY <1>1, Fresh
      <3> QED
        BY <1>4, <2>1, <3>1, Fresh DEF RowInv, Sound, At
    <2>4. Delivered(w)' /\ (Broken(w)' => taint'[w] # {})
      BY <1>4, <2>1 DEF RowInv, Delivered, Broken, At
    <2> QED
      BY <2>2, <2>3, <2>4 DEF RowInv
  <1> QED
    BY <1>2, <1>3, <1>4 DEF IInv

LEMMA InitIInv == ASSUME Init PROVE IInv
  <1>1. Typed
    BY Fresh DEF Init, Typed
  <1>2. ASSUME NEW w \in Row PROVE RowInv(w)
    <2>1. worker[w] = Idle /\ feeder[w] = NoFeed(w) /\ pipe[w] = NoPipe /\ result[w] = NoRes(w)
      BY DEF Init
    <2>2. Shape(w)
      BY <2>1, Fresh, MailIs DEF Shape, At, Busy
    <2>3. Sound(w) /\ Delivered(w) /\ ~Broken(w)
      BY <2>1, Fresh DEF Sound, Delivered, Broken, At
    <2> QED
      BY <2>2, <2>3 DEF RowInv
  <1> QED
    BY <1>1, <1>2 DEF IInv

LEMMA StepIInv == ASSUME IInv, [Next]_vars PROVE IInv'
  <1>1. CASE Crash
    BY <1>1, CrashStep
  <1>2. ASSUME NEW w \in Row,
               \/ Open(w) \/ Working(w) \/ Timeout(w) \/ Fails(w) \/ ExitOk(w) \/ ExitBad(w)
               \/ \E k \in Command(w) : Feeding(w, k)
        PROVE  IInv'
    <2>1. StepOf(w)
      BY <1>2, OpenStep, DownloadStep, EndStep, MailPipeToStep, ScanStep, WaitStep, FinishStep,
         TimeoutStep, ExitStep, FeedingStep DEF Working
    <2> QED
      BY <2>1, RowStep
  <1>3. CASE UNCHANGED vars
    <2>1. UNCHANGED <<path, content, worker, feeder, pipe, result, taint>>
      BY <1>3 DEF vars
    <2>2. Typed'
      BY <2>1 DEF IInv, Typed
    <2>3. ASSUME NEW w \in Row PROVE RowInv(w)'
      <3>1. RowInv(w)
        BY DEF IInv
      <3>2. Shape(w)' /\ Delivered(w)' /\ (Broken(w)' => taint'[w] # {})
        BY <2>1, <3>1 DEF RowInv, Shape, Delivered, Broken, Busy, At
      <3>3. Fed(w) => Fed(w)'
        BY <2>1 DEF Fed, Current
      <3>4. Sound(w)'
        BY <2>1, <3>1, <3>3 DEF RowInv, Sound, Busy, Current, At
      <3> QED
        BY <3>2, <3>4 DEF RowInv
    <2> QED
      BY <2>2, <2>3 DEF IInv
  <1> QED
    BY <1>1, <1>2, <1>3 DEF Next

----------------------------------------------------------------------------
(* The theorems *)

\* The inductive invariant: a row whose history holds nothing against it has its
\* file to itself and one goroutine at work on it, and the process has got exactly
\* the blocks before the offset.
THEOREM Inductive == Spec => []IInv
  <1>1. Init => IInv
    BY InitIInv
  <1>2. IInv /\ [Next]_vars => IInv'
    BY StepIInv
  <1> QED
    BY <1>1, <1>2, PTL DEF Spec

\* The files, workers, goroutines and pipes keep their types, and a descriptor is
\* open as long as its worker downloads, executes or waits.
THEOREM TypeCorrect == Spec => []TypeOK
  <1>1. IInv => TypeOK
    BY DEF IInv, Typed, RowInv, Shape, TypeOK, WorkerType, FeederType, FeederPc, PipeType,
           Results, Taints, At
  <1> QED
    BY <1>1, Inductive, PTL

\* A command that read to the end of its input and ended well was sent the whole
\* mail, unless the file was shared with another row, the download began anew, or
\* the goroutine of an earlier command was still at work.
THEOREM Whole == Spec => []WholeMail
  <1>1. IInv => WholeMail
    BY DEF IInv, RowInv, Broken, WholeMail
  <1> QED
    BY <1>1, Inductive, PTL

\* A row is retired only when each command of MailPipeTo in its template ended well.
THEOREM Retired == Spec => []DoneMeansDelivered
  <1>1. IInv => DoneMeansDelivered
    BY DEF IInv, RowInv, Delivered, DoneMeansDelivered, At
  <1> QED
    BY <1>1, Inductive, PTL
----------------------------------------------------------------------------
(* Nobody waits for input that does not come *)

\* The goroutine can still close the pipe or kill the command.
Live == {"seek", "parse", "reseek", "read", "write", "close", "cancel"}

Served(w) ==
  pipe[w].state = "running" /\ ~pipe[w].eof => feeder[w][Current(w)].pc \in Live

\* A goroutine that ends has closed the pipe or killed its command.
LEMMA ServedFeeding ==
  ASSUME IInv, NEW w \in Row, NEW k \in Command(w), Feeding(w, k), Served(w)
  PROVE  Served(w)'
  <1> SUFFICES ASSUME pipe'[w].state = "running", ~pipe'[w].eof
               PROVE  feeder'[w][Current(w)'].pc \in Live
    BY DEF Served
  <1>1. /\ worker'[w].cmd = worker[w].cmd /\ pipe[w].state = "running"
        /\ \A j \in Command(w) \ {k} : feeder'[w][j] = feeder[w][j]
    BY Feeds
  <1>2. /\ worker[w].cmd \in Command(w)
        /\ feeder[w] \in [Command(w) -> FeederType] /\ DOMAIN feeder = Row
        /\ pipe \in [Row -> PipeType]
    BY <1>1 DEF IInv, Typed, RowInv, Shape
  <1>3. CASE k # worker[w].cmd
    <2>1. pipe' = pipe
      BY <1>3 DEF Feeding, Seek, Parse, Read, Write, Close, Cancel, Rewind, Connected, Current
    <2>2. feeder[w][Current(w)].pc \in Live
      BY <1>1, <2>1 DEF Served
    <2> QED
      BY <1>1, <1>2, <1>3, <2>2 DEF Current
  <1>4. CASE k = worker[w].cmd
    <2>1. Connected(w, k) /\ Current(w)' = k
      BY <1>1, <1>4 DEF Connected, Current
    <2>2. CASE Seek(w, k) \/ Parse(w, k) \/ Read(w, k) \/ Write(w, k)
      <3>1. ASSUME NEW pc, Feed(w, k, pc) PROVE feeder'[w][k].pc = pc
        <4>1. feeder'[w][k] = [feeder[w][k] EXCEPT !.pc = pc]
          BY <1>2, <3>1 DEF Feed
        <4>2. feeder[w][k] \in FeederType
          BY <1>2
        <4> QED
          BY <4>1, <4>2 DEF FeederType
      <3>2. Take(w, k) => feeder'[w][k].pc = "write"
        BY <1>2 DEF Take
      <3>3. Write(w, k) => feeder'[w][k].pc = "read"
        BY <1>2, <2>1 DEF Write
      <3>4. Take(w, k) \/ Write(w, k) \/ \E pc \in Live : Feed(w, k, pc)
        BY <2>2 DEF Seek, Parse, Read, Live
      <3>5. feeder'[w][k].pc \in Live
        BY <3>1, <3>2, <3>3, <3>4 DEF Live
      <3> QED
        BY <2>1, <3>5
    <2>3. CASE Close(w, k)
      <3>1. pipe' = [pipe EXCEPT ![w].eof = TRUE]
        BY <2>1, <2>3 DEF Close
      <3>2. pipe'[w].eof
        BY <1>2, <3>1 DEF PipeType
      <3> QED
        BY <3>2
    <2>4. CASE Cancel(w, k)
      <3>1. pipe' = [pipe EXCEPT ![w] = [NoPipe EXCEPT !.state = "bad"]]
        BY <2>1, <2>4 DEF Cancel
      <3>2. pipe'[w].state = "bad"
        BY <1>2, <3>1, NoPipeIs DEF NoPipe
      <3> QED
        BY <3>2
    <2>5. CASE Rewind(w, k)
      <3>1. pipe' = pipe /\ feeder[w][k].pc = "rewind"
        BY <2>5 DEF Rewind
      <3>2. feeder[w][k].pc \in Live
        BY <1>1, <1>4, <3>1 DEF Served, Current
      <3> QED
        BY <3>1, <3>2 DEF Live
    <2> QED
      BY <2>2, <2>3, <2>4, <2>5 DEF Feeding
  <1> QED
    BY <1>3, <1>4

\* The worker starts the goroutine with the command, and moves on to the next one
\* when the command has ended.
LEMMA ServedWorker ==
  ASSUME IInv, NEW w \in Row, Served(w),
         Open(w) \/ Working(w) \/ Timeout(w) \/ Fails(w) \/ ExitOk(w) \/ ExitBad(w)
  PROVE  Served(w)'
  <1>1. /\ pipe \in [Row -> PipeType] /\ worker \in [Row -> WorkerType]
        /\ DOMAIN feeder = Row /\ feeder[w] \in [Command(w) -> FeederType]
        /\ pipe[w].state = "running" => At(w, "wait")
    BY DEF IInv, Typed, RowInv, Shape
  <1>2. CASE Open(w) \/ Download(w) \/ Downloaded(w) \/ Timeout(w) \/ Fails(w) \/ Wait(w)
    <2>1. pipe' = pipe
      BY <1>2 DEF Open, Download, Downloaded, Timeout, Fails, Wait
    <2>2. pipe[w].state # "running"
      BY <1>1, <1>2 DEF Open, Download, Downloaded, Timeout, Fails, Wait, At
    <2> QED
      BY <2>1, <2>2 DEF Served
  <1>3. ASSUME NEW kind, NEW off, NEW first \in {"seek", "read"}, Launch(w, kind, off, first)
        PROVE  Served(w)'
    <2>1. /\ worker[w].cmd \in Command(w)
          /\ worker' = [worker EXCEPT ![w].pc = "wait", ![w].off = off]
          /\ feeder' = [feeder EXCEPT ![w][worker[w].cmd] = [pc |-> first, block |-> Hole]]
      BY <1>3 DEF Launch, Current
    <2>2. worker'[w].cmd = worker[w].cmd
      BY <1>1, <2>1 DEF WorkerType
    <2>3. feeder'[w][worker[w].cmd].pc = first
      BY <1>1, <2>1
    <2> QED
      BY <2>2, <2>3 DEF Served, Current, Live
  <1>4. CASE MailPipeTo(w)
    BY <1>3, <1>4 DEF MailPipeTo
  <1>5. CASE ScanWithRspamd(w)
    BY <1>3, <1>5 DEF ScanWithRspamd
  <1>6. CASE ExitOk(w) \/ ExitBad(w) \/ Finish(w)
    <2>1. pipe'[w].state \in {"ok", "bad", "none"}
      BY <1>1, <1>6 DEF ExitOk, ExitBad, Finish, NoPipe
    <2> QED
      BY <2>1 DEF Served
  <1> QED
    BY <1>2, <1>4, <1>5, <1>6 DEF Working

\* The other rows have commands and goroutines of their own.
LEMMA ServedElsewhere ==
  ASSUME NEW w \in Row, Elsewhere(w), NEW v \in Row \ {w}, Served(v)
  PROVE  Served(v)'
  BY DEF Elsewhere, Served, Current

LEMMA ServedStep ==
  ASSUME IInv, \A w \in Row : Served(w), [Next]_vars
  PROVE  \A w \in Row : Served(w)'
  <1>1. CASE Crash
    BY <1>1, NoPipeIs DEF Crash, Served, NoPipe
  <1>2. ASSUME NEW w \in Row,
               \/ Open(w) \/ Working(w) \/ Timeout(w) \/ Fails(w) \/ ExitOk(w) \/ ExitBad(w)
               \/ \E k \in Command(w) : Feeding(w, k)
        PROVE  \A v \in Row : Served(v)'
    <2>1. Elsewhere(w)
      BY <1>2, OpenStep, DownloadStep, EndStep, MailPipeToStep, ScanStep, WaitStep, FinishStep,
         TimeoutStep, ExitStep, FeedingStep DEF Working, StepOf
    <2>2. Served(w)'
      BY <1>2, ServedFeeding, ServedWorker
    <2> QED
      BY <2>1, <2>2, ServedElsewhere
  <1>3. CASE UNCHANGED vars
    BY <1>3 DEF vars, Served, Current
  <1> QED
    BY <1>1, <1>2, <1>3 DEF Next

\* A command is never left waiting for input: whatever its goroutine met, the
\* pipe is closed or the command killed, or the goroutine is going to do it.
THEOREM CommandsAreServed == Spec => []NeverStuck
  <1> DEFINE All == \A w \in Row : Served(w)
  <1>1. Init => All
    BY DEF Init, Served, NoPipe
  <1>2. IInv /\ All /\ [Next]_vars => All'
    BY ServedStep
  <1>3. IInv /\ All => NeverStuck
    BY DEF IInv, RowInv, Shape, Served, NeverStuck, Live, Current
  <1> HIDE DEF All
  <1>4. Spec => []All
    BY <1>1, <1>2, Inductive, PTL DEF Spec
  <1> QED
    BY <1>3, <1>4, Inductive, PTL

=============================================================================
