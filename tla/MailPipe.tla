------------------------------ MODULE MailPipe ------------------------------
(***************************************************************************)
(* What a worker of sesrcvr does with one mail: it downloads the object    *)
(* into a file named after bucket and key, and executes the delivery       *)
(* template, which pipes the file to commands (MailPipeTo) or to rspamd    *)
(* (ScanWithRspamd), one after the other.                                  *)
(*                                                                         *)
(* Each command has a goroutine that reads the file and writes the pipe,   *)
(* while the worker waits for the command only: the goroutine of an        *)
(* earlier command may still be at work on the same file and the same      *)
(* offset when the next one starts.  Two rows whose notifications name the *)
(* same object use the same path at the same time.  And a download that    *)
(* timed out is repeated from its first byte.                              *)
(***************************************************************************)
EXTENDS Integers, Sequences, SequencesExt, FiniteSets

CONSTANTS
  Row,          \* rows of msglog with the same bucket and object, a worker each
  Inode,        \* files that may exist at the same time
  Mail,         \* the object: a sequence of blocks, the first holds the header
  Template,     \* per row, the commands of its topic's template: "pipe" or "scan"
  MaxTimeouts,  \* bound: timeouts of a download
  None          \* no file

ASSUME MailPipeConstants ==
  /\ Mail \in Seq(Nat \ {0}) /\ Mail # <<>>
  /\ Template \in [Row -> Seq({"pipe", "scan"})] /\ MaxTimeouts \in Nat
  /\ None \notin Inode

Command(w) == DOMAIN Template[w]
Hole == 0   \* a block nobody wrote

VARIABLES
  path,     \* the file downloadDir/bucket/object, or None
  content,  \* blocks of each file
  worker,   \* per row: where its worker is, its descriptor f and the offset of
            \* f, its command, the next block of the S3 body, timeouts so far
  feeder,   \* per row and command: where the goroutine is, the block it holds
  pipe,     \* per row: the process at the other end, what it got, end of file
  result,   \* per row and command: what became of it
  taint     \* history: what may have happened to the mail of a row

vars == <<path, content, worker, feeder, pipe, result, taint>>

----------------------------------------------------------------------------
Idle   == [pc |-> "idle", f |-> None, off |-> 0, cmd |-> 0, src |-> 1, timeouts |-> 0]
NoFeed(w) == [k \in Command(w) |-> [pc |-> "off", block |-> Hole]]
NoPipe == [state |-> "none", got |-> <<>>, eof |-> FALSE]
NoRes(w)  == [k \in Command(w) |-> "none"]

Init ==
  /\ path = None /\ content = [i \in Inode |-> <<>>]
  /\ worker = [w \in Row |-> Idle]
  /\ feeder = [w \in Row |-> NoFeed(w)] /\ pipe = [w \in Row |-> NoPipe]
  /\ result = [w \in Row |-> NoRes(w)] /\ taint = [w \in Row |-> {}]

\* The process ends between any two steps and is started again: rows that were
\* not retired are replayed.  The file stays.
Crash ==
  /\ worker' = [w \in Row |-> IF worker[w].pc = "done" THEN worker[w] ELSE Idle]
  /\ feeder' = [w \in Row |-> NoFeed(w)] /\ pipe' = [w \in Row |-> NoPipe]
  /\ result' = [w \in Row |-> IF worker[w].pc = "done" THEN result[w] ELSE NoRes(w)]
  /\ taint' = [w \in Row |-> IF worker[w].pc = "done" THEN taint[w] ELSE {}]
  /\ content' = [i \in Inode |-> IF i = path THEN content[i] ELSE <<>>]
  /\ UNCHANGED path

At(w, pc) == worker[w].pc = pc
Users(i) == {w \in Row : worker[w].f = i}
Unused == {i \in Inode : i # path /\ Users(i) = {}}

\* The block at an offset, written: what lies before it and was not is a hole.
Written(s, off, b) ==
  [n \in 1..(IF off + 1 > Len(s) THEN off + 1 ELSE Len(s)) |->
     IF n = off + 1 THEN b ELSE IF n <= Len(s) THEN s[n] ELSE Hole]

----------------------------------------------------------------------------
(* The download *)

\* O_CREATE and O_TRUNC: a file that is there is emptied, whoever reads it.
Open(w) ==
  /\ At(w, "idle") /\ (path = None => Unused # {})
  /\ \E i \in IF path = None THEN {CHOOSE i \in Unused : TRUE} ELSE {path} :
       /\ path' = i /\ content' = [content EXCEPT ![i] = <<>>]
       /\ worker' = [worker EXCEPT ![w] = [Idle EXCEPT !.pc = "download", !.f = i]]
       /\ taint' = [v \in Row |-> IF Users(i) # {} /\ v \in Users(i) \union {w}
                                  THEN taint[v] \union {"shared"} ELSE taint[v]]
  /\ UNCHANGED <<feeder, pipe, result>>

\* io.Copy: objReader.Read and a write at the offset.
Download(w) ==
  LET s == worker[w].src
  IN  /\ At(w, "download") /\ s <= Len(Mail)
      /\ content' = [content EXCEPT ![worker[w].f] = Written(@, worker[w].off, Mail[s])]
      /\ worker' = [worker EXCEPT ![w].src = s + 1, ![w].off = @ + 1]
      /\ UNCHANGED <<path, feeder, pipe, result, taint>>

\* Read hides a timeout and requests the object anew, from its first byte, for a
\* reader that goes on behind the bytes it has got.
Timeout(w) ==
  /\ At(w, "download") /\ worker[w].timeouts < MaxTimeouts
  /\ worker' = [worker EXCEPT ![w].src = 1, ![w].timeouts = @ + 1]
  /\ taint' = IF worker[w].src = 1 THEN taint
              ELSE [taint EXCEPT ![w] = @ \union {"restarted"}]
  /\ UNCHANGED <<path, content, feeder, pipe, result>>

Downloaded(w) ==
  /\ At(w, "download") /\ worker[w].src > Len(Mail)
  /\ worker' = [worker EXCEPT ![w].pc = "execute", ![w].cmd = 1]
  /\ UNCHANGED <<path, content, feeder, pipe, result, taint>>

\* Another error of the download, or of a statement of the template.
Fails(w) ==
  /\ worker[w].pc \in {"download", "execute"}
  /\ worker' = [worker EXCEPT ![w].pc = "failed"]
  /\ UNCHANGED <<path, content, feeder, pipe, result, taint>>

----------------------------------------------------------------------------
(* The commands, as the template is executed *)

Current(w) == worker[w].cmd
Busy(w, k) == feeder[w][k].pc \notin {"off", "done"}

\* The next command is one of this kind: its goroutine and the process start.
Launch(w, kind, off, first) ==
  LET k == Current(w)
  IN  /\ At(w, "execute") /\ k \in Command(w) /\ Template[w][k] = kind
      /\ worker' = [worker EXCEPT ![w].pc = "wait", ![w].off = off]
      /\ feeder' = [feeder EXCEPT ![w][k] = [pc |-> first, block |-> Hole]]
      /\ pipe' = [pipe EXCEPT ![w] = [NoPipe EXCEPT !.state = "running"]]
      /\ taint' = IF \E j \in Command(w) : Busy(w, j)
                  THEN [taint EXCEPT ![w] = @ \union {"raced"}] ELSE taint
      /\ UNCHANGED <<path, content, result>>

\* The goroutine rewinds the file, in its own time.
MailPipeTo(w) == Launch(w, "pipe", worker[w].off, "seek")
\* The file is rewound, then the transport reads it.
ScanWithRspamd(w) == Launch(w, "scan", 0, "read")

\* What the process got before it ended well: all it was sent, or it did not care.
Outcome(w) ==
  IF ~pipe[w].eof THEN "ignored" ELSE IF pipe[w].got = Mail THEN "whole" ELSE "broken"

\* It reads to the end, or exits early with success.
ExitOk(w) ==
  /\ pipe[w].state = "running"
  /\ pipe' = [pipe EXCEPT ![w] = [NoPipe EXCEPT !.state = "ok"]]
  /\ result' = [result EXCEPT ![w][Current(w)] = Outcome(w)]
  /\ UNCHANGED <<path, content, worker, feeder, taint>>

\* It fails or is killed; the answer of rspamd is an error.
ExitBad(w) ==
  /\ pipe[w].state = "running"
  /\ pipe' = [pipe EXCEPT ![w] = [NoPipe EXCEPT !.state = "bad"]]
  /\ UNCHANGED <<path, content, worker, feeder, result, taint>>

\* Mutant: the error of Output is dropped.
WaitAny(w) ==
  /\ At(w, "wait") /\ pipe[w].state \in {"ok", "bad"}
  /\ worker' = [worker EXCEPT ![w].pc = "execute", ![w].cmd = @ + 1]
  /\ UNCHANGED <<path, content, feeder, pipe, result, taint>>

\* Wait, which closes our end of the pipe: the next command, or the template
\* ends.  A scan that failed is a result as well.
Wait(w) ==
  /\ At(w, "wait") /\ pipe[w].state \in {"ok", "bad"}
  /\ worker' = IF pipe[w].state = "ok" \/ Template[w][Current(w)] = "scan"
               THEN [worker EXCEPT ![w].pc = "execute", ![w].cmd = @ + 1]
               ELSE [worker EXCEPT ![w].pc = "failed"]
  /\ UNCHANGED <<path, content, feeder, pipe, result, taint>>

\* The row is retired (or that fails); the deferred functions close the file and
\* remove the path, whichever file it names by now.
Finish(w) ==
  /\ \/ At(w, "execute") /\ Current(w) \notin Command(w)
     \/ At(w, "failed") /\ worker[w].f # None
  /\ \E pc \in IF At(w, "failed") THEN {"failed"} ELSE {"done", "failed"} :
       worker' = [worker EXCEPT ![w] = [Idle EXCEPT !.pc = pc]]
  /\ path' = None /\ pipe' = [pipe EXCEPT ![w] = NoPipe]
  /\ content' = IF Users(worker[w].f) = {w} THEN [content EXCEPT ![worker[w].f] = <<>>]
                ELSE content
  /\ UNCHANGED <<feeder, result, taint>>

----------------------------------------------------------------------------
(* The goroutine of command k, which shares f and its offset *)

File(w) == content[worker[w].f]
Feed(w, k, pc) == feeder' = [feeder EXCEPT ![w][k].pc = pc]

\* Seek on a closed file fails and is ignored.
SeekTo(w, off) ==
  worker' = IF worker[w].f = None THEN worker ELSE [worker EXCEPT ![w].off = off]

Seek(w, k) ==
  /\ feeder[w][k].pc \in {"seek", "reseek"} /\ SeekTo(w, 0)
  /\ Feed(w, k, IF feeder[w][k].pc = "seek" THEN "parse" ELSE "read")
  /\ UNCHANGED <<path, content, pipe, result, taint>>

\* Read takes the next block or finds the end; the file may be closed by now.
More(w) == worker[w].f # None /\ worker[w].off < Len(File(w))
Take(w, k) ==
  /\ More(w)
  /\ feeder' = [feeder EXCEPT ![w][k] = [pc |-> "write", block |-> File(w)[worker[w].off + 1]]]
  /\ worker' = [worker EXCEPT ![w].off = @ + 1]

\* NewMailContent reads the header.  When it cannot, the mail is sent as it is;
\* when a header modification is refused, nothing is.
Parse(w, k) ==
  /\ feeder[w][k].pc = "parse"
  /\ \/ Take(w, k)
     \/ Feed(w, k, "reseek") /\ UNCHANGED worker
     \/ Feed(w, k, "cancel") /\ UNCHANGED worker
  /\ UNCHANGED <<path, content, pipe, result, taint>>

Read(w, k) ==
  /\ feeder[w][k].pc = "read"
  /\ \/ Take(w, k)
     \/ ~More(w) /\ UNCHANGED worker
        /\ Feed(w, k, IF worker[w].f = None THEN "cancel" ELSE "close")
  /\ UNCHANGED <<path, content, pipe, result, taint>>

\* The process of this command still runs.
Connected(w, k) == k = Current(w) /\ pipe[w].state = "running"

Write(w, k) ==
  /\ feeder[w][k].pc = "write"
  /\ feeder' = [feeder EXCEPT ![w][k] =
                  [pc |-> IF Connected(w, k) THEN "read" ELSE "cancel", block |-> Hole]]
  /\ pipe' = IF Connected(w, k)
             THEN [pipe EXCEPT ![w].got = Append(@, feeder[w][k].block)] ELSE pipe
  /\ UNCHANGED <<path, content, worker, result, taint>>

\* Success: the pipe is closed, which the process sees as the end of its input.
\* MailPipeTo then rewinds the file for the next command.
Close(w, k) ==
  /\ feeder[w][k].pc = "close"
  /\ Feed(w, k, IF Template[w][k] = "pipe" THEN "rewind" ELSE "done")
  /\ pipe' = IF Connected(w, k) THEN [pipe EXCEPT ![w].eof = TRUE] ELSE pipe
  /\ UNCHANGED <<path, content, worker, result, taint>>

\* Mutant: the pipe is closed on a failure too.
CancelClosing(w, k) ==
  /\ feeder[w][k].pc = "cancel" /\ Feed(w, k, "rewind")
  /\ pipe' = IF Connected(w, k) THEN [pipe EXCEPT ![w].eof = TRUE] ELSE pipe
  /\ UNCHANGED <<path, content, worker, result, taint>>

\* Mutant: the process is not cancelled.
CancelNot(w, k) ==
  /\ feeder[w][k].pc = "cancel" /\ Feed(w, k, "rewind")
  /\ UNCHANGED <<path, content, worker, pipe, result, taint>>

\* Failure: the process is killed and the pipe is left open, so that what it got
\* does not look like a mail.
Cancel(w, k) ==
  /\ feeder[w][k].pc = "cancel"
  /\ Feed(w, k, IF Template[w][k] = "pipe" THEN "rewind" ELSE "done")
  /\ pipe' = IF Connected(w, k) THEN [pipe EXCEPT ![w] = [NoPipe EXCEPT !.state = "bad"]] ELSE pipe
  /\ UNCHANGED <<path, content, worker, result, taint>>

\* The deferred Seek, for which nobody waits.
Rewind(w, k) ==
  /\ feeder[w][k].pc = "rewind" /\ Feed(w, k, "done") /\ SeekTo(w, 0)
  /\ UNCHANGED <<path, content, pipe, result, taint>>

----------------------------------------------------------------------------
Feeding(w, k) ==
  \/ Seek(w, k) \/ Parse(w, k) \/ Read(w, k) \/ Write(w, k) \/ Close(w, k)
  \/ Cancel(w, k) \/ Rewind(w, k)
Working(w) == Download(w) \/ Downloaded(w) \/ MailPipeTo(w) \/ ScanWithRspamd(w) \/ Wait(w)
              \/ Finish(w)

Next ==
  \/ Crash
  \/ \E w \in Row :
       \/ Open(w) \/ Working(w) \/ Timeout(w) \/ Fails(w) \/ ExitOk(w) \/ ExitBad(w)
       \/ \E k \in Command(w) : Feeding(w, k)

Spec == Init /\ [][Next]_vars

\* The goroutines run, and a command that got its end of file exits.
FairSpec ==
  /\ Spec
  /\ \A w \in Row :
       /\ WF_vars(Working(w))
       /\ WF_vars(pipe[w].eof /\ (ExitOk(w) \/ ExitBad(w)))
       /\ \A k \in Command(w) : WF_vars(Feeding(w, k))

----------------------------------------------------------------------------
(* Properties *)

\* The types; a descriptor is open from Open to Finish, and a worker waits for
\* the command that runs.
TypeOK ==
  /\ path \in Inode \union {None}
  /\ \A i \in Inode : content[i] \in Seq(Nat)
  /\ \A w \in Row :
       /\ worker[w].pc \in {"idle", "download", "execute", "wait", "done", "failed"}
       /\ worker[w].f \in Inode \union {None}
       /\ worker[w].pc \in {"download", "execute", "wait"} => worker[w].f # None
       /\ worker[w].off \in Nat /\ worker[w].cmd \in 0..Len(Template[w]) + 1
       /\ worker[w].src \in 1..Len(Mail) + 1 /\ worker[w].timeouts \in 0..MaxTimeouts
       /\ \A k \in Command(w) :
            /\ feeder[w][k].pc \in {"off", "seek", "parse", "reseek", "read", "write",
                                    "close", "cancel", "rewind", "done"}
            /\ result[w][k] \in {"none", "ignored", "whole", "broken"}
       /\ pipe[w].state \in {"none", "running", "ok", "bad"}
       /\ pipe[w].state = "running" => At(w, "wait")
       /\ pipe[w].eof \in BOOLEAN /\ pipe[w].got \in Seq(Nat)
       /\ taint[w] \subseteq {"shared", "restarted", "raced"}

\* A command that read to the end of its input and succeeded got the mail, every
\* block of it once, unless the file was shared with another row, the download
\* was repeated, or the goroutine of an earlier command was still at work.
WholeMail ==
  \A w \in Row : \A k \in Command(w) : result[w][k] = "broken" => taint[w] # {}

\* A command never waits for input nobody will give it: it got the end of file, or
\* its own goroutine has yet to close the pipe or to kill it, although the worker
\* knows nothing of the goroutine.
NeverStuck ==
  \A w \in Row : pipe[w].state = "running" /\ ~pipe[w].eof =>
    /\ Current(w) \in Command(w)
    /\ feeder[w][Current(w)].pc \in {"seek", "parse", "reseek", "read", "write", "close", "cancel"}

\* A row is retired only after every command of its template succeeded: a failed
\* one, however it ended, leaves the row for the next start.
DoneMeansDelivered ==
  \A w \in Row : \A k \in Command(w) :
    At(w, "done") /\ Template[w][k] = "pipe" => result[w][k] # "none"

\* A delivery ends, and so does every goroutine it started: no command waits for
\* an end of file that never comes, no goroutine for a command that is gone.
DeliveryEnds ==
  \A w \in Row :
    (worker[w].f # None \/ \E k \in Command(w) : Busy(w, k))
      ~> (worker[w].f = None /\ \A k \in Command(w) : ~Busy(w, k))

----------------------------------------------------------------------------
(* What the code does not keep *)

\* Whatever happened.
AlwaysWhole == \A w \in Row : \A k \in Command(w) : result[w][k] # "broken"
=============================================================================
