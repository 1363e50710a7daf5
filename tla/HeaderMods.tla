----------------------------- MODULE HeaderMods -----------------------------
(***************************************************************************)
(* How MailPipeTo changes the header of a mail: it takes the Return-Path   *)
(* out, applies the modifications of the template and of rspamd one after  *)
(* the other, and writes what is left behind a Return-Path of its own.     *)
(*                                                                         *)
(* The parsed header (hdr) can only be prepended to, so a modification     *)
(* that inserts or replaces moves the fields before its place to a second  *)
(* list (lhdrs).  The user thinks of one list, lhdrs followed by hdr, in   *)
(* which index and order mean what the comments of the functions say; the  *)
(* split depends on the modifications that came before.                    *)
(***************************************************************************)
EXTENDS Integers, Sequences, FiniteSets, SequencesExt

CONSTANTS
  Mails,      \* headers that arrive: sequences of fields
  Mods,       \* modifications of the template
  Scans,      \* results of rspamd
  MaxMods,    \* bound: modifications of a command
  Recipient,  \* the only recipient, or None
  Text        \* keys and values: the strings
CONSTANT None

VARIABLES
  mail,    \* MailContent: the lists lhdrs and hdr
  pc,      \* how far the goroutine of MailPipeTo is
  return,  \* origReturn
  todo,    \* fields of add_headers that are still to be added
  spam,    \* rspamd takes the mail for spam
  count    \* modifications so far

vars == <<mail, pc, return, todo, spam, count>>

Field(k, v) == [key |-> k, value |-> v]
Fields == [key : Text, value : Text]
Lists  == [lhdrs : Seq(Fields), hdr : Seq(Fields)]
ModsOf(S) == [op : S, key : Text, value : Text, index : Int]

\* Keys and values of our own.
Ours == {"Received", "sesrcvr", "X-Spam", "Yes", "X-Original-To", "X-Original-Return-Path",
         "Mime-Version", "1.0", "Return-Path", "<>"}

ASSUME HeaderModsConstants ==
  /\ Mails \subseteq Seq(Fields)
  /\ Mods \subseteq ModsOf({"remove", "change", "add", "insert"})
  /\ \A r \in Scans : /\ DOMAIN r.remove \subseteq Text
                     /\ r.add \subseteq ModsOf({"add", "insert"}) /\ r.spam \in BOOLEAN
  /\ Recipient \in Text \union {None} /\ None \notin Text
  /\ Ours \subseteq Text /\ MaxMods \in Nat

----------------------------------------------------------------------------
(* Lists of fields *)

\* The j-th smallest number of T.
Nth(T, j) == CHOOSE i \in T : Cardinality({x \in T : x <= i}) = j

\* What s has at the places T, in the order of s.
Select(s, T) == [j \in 1..Cardinality(T) |-> s[Nth(T, j)]]

\* Where the fields with key k are.
Places(s, k) == {i \in DOMAIN s : s[i].key = k}
Total(s, k) == Cardinality(Places(s, k))
Has(s, k) == Places(s, k) # {}
Others(s, ks) == Select(s, {i \in DOMAIN s : s[i].key \notin ks})
Without(s, k) == Others(s, {k})
Upto(s, n) == SubSeq(s, 1, n)
Rest(s, n) == SubSeq(s, n + 1, Len(s))

\* What the user sees of a MailContent.
Header(m) == m.lhdrs \o m.hdr

\* "Content-Type and Content-Transfer-Encoding"
Fixed == {"Content-Type", "Content-Transfer-Encoding"}

----------------------------------------------------------------------------
(* HeaderMod.Transform, one operator per op *)

\* Mutant: off by one from the end.
PositionOff(i, n) == IF i > 0 THEN i ELSE n + i

\* Where index i counts among n values: from 1, from the end when negative.
Position(i, n) == IF i > 0 THEN i ELSE n + i + 1

RemoveHeader(m, k, i) ==
  LET n  == Total(m.lhdrs, k)
      nb == n + Total(m.hdr, k)
      ri == Position(i, nb)
  IN  IF i = 0 THEN [lhdrs |-> Without(m.lhdrs, k), hdr |-> Without(m.hdr, k)]
      ELSE IF ri \notin 1..nb THEN m
      ELSE IF ri <= n THEN [m EXCEPT !.lhdrs = RemoveAt(@, Nth(Places(@, k), ri))]
      ELSE [m EXCEPT !.hdr = RemoveAt(@, Nth(Places(@, k), ri - n))]

\* Move n fields of hdr behind lhdrs.
Moved(m, n) == [lhdrs |-> m.lhdrs \o Upto(m.hdr, n), hdr |-> Rest(m.hdr, n)]

InsertHeader(m, f, i) ==
  LET nb == Len(Header(m))
      j  == IF i < 0 THEN i + nb ELSE i
      at == IF j < 0 \/ j > nb THEN nb ELSE j
  IN  IF at >= Len(m.lhdrs)
      THEN LET n == Moved(m, at - Len(m.lhdrs)) IN [n EXCEPT !.lhdrs = Append(@, f)]
      ELSE [m EXCEPT !.lhdrs = InsertAt(@, at + 1, f)]

AddHeader(m, f) == InsertHeader(m, f, Len(Header(m)))

\* The i-th value is replaced.  With too few of them nothing changes but the
\* split, except that the field is added when hdr has none at all.
ChangeHeader(m, f, i) ==
  LET h == i - Total(m.lhdrs, f.key)
      p == Nth(Places(m.hdr, f.key), h)
  IN  IF h <= 0 THEN [m EXCEPT !.lhdrs[Nth(Places(m.lhdrs, f.key), i)] = f]
      ELSE IF ~Has(m.hdr, f.key) THEN AddHeader(m, f)
      ELSE IF h > Total(m.hdr, f.key) THEN Moved(m, Len(m.hdr))
      ELSE [lhdrs |-> Append(m.lhdrs \o Upto(m.hdr, p - 1), f), hdr |-> Rest(m.hdr, p)]

\* An error of Transform, which ends the goroutine.
Refused(op) == op.key \in Fixed \/ (op.op = "change" /\ op.index <= 0)

Transform(m, op) ==
  CASE op.op = "remove" -> RemoveHeader(m, op.key, op.index)
    [] op.op = "change" -> ChangeHeader(m, Field(op.key, op.value), op.index)
    [] op.op = "add"    -> AddHeader(m, Field(op.key, op.value))
    [] op.op = "insert" -> InsertHeader(m, Field(op.key, op.value), op.index)

----------------------------------------------------------------------------
(* RspamdScanResult.Transform *)

\* remove_headers: an index that is an integer is skipped, any other number
\* counts as 0 and removes all.
Removed(r) == {k \in DOMAIN r.remove : r.remove[k] = "fraction"}
Removals(m, ks) == [lhdrs |-> Others(m.lhdrs, ks), hdr |-> Others(m.hdr, ks)]

Mark(m, v) == AddHeader(m, Field("X-Spam", v))

\* Mutant: the old X-Spam fields stay.
MarkSpamAgain(m, v) == Mark(m, v)

\* The verdict replaces every field of that name.
MarkSpam(m, v) == Mark(RemoveHeader(m, "X-Spam", 0), v)

----------------------------------------------------------------------------
(* The goroutine *)

Init ==
  /\ \E s \in Mails : mail = [lhdrs |-> <<>>, hdr |-> s]
  /\ pc = "parsed" /\ return = None /\ todo = {} /\ spam = FALSE /\ count = 0

\* Header.Get returns the first value, Del removes all, AddRaw prepends.
Prepare ==
  /\ pc = "parsed" /\ pc' = "modify"
  /\ return' = IF ~Has(mail.hdr, "Return-Path") THEN None
               ELSE mail.hdr[Nth(Places(mail.hdr, "Return-Path"), 1)].value
  /\ mail' = [mail EXCEPT !.hdr =
               <<Field("Received", "sesrcvr")>> \o Without(@, "Return-Path")]
  /\ UNCHANGED <<todo, spam, count>>

Modify(op) ==
  /\ pc = "modify" /\ count < MaxMods /\ ~Refused(op)
  /\ mail' = Transform(mail, op) /\ count' = count + 1
  /\ UNCHANGED <<pc, return, todo, spam>>

\* A result of rspamd is applied: what it removes, ...
Scan(r) ==
  /\ pc = "modify" /\ count < MaxMods /\ Removed(r) \cap Fixed = {}
  /\ pc' = "adding" /\ mail' = Removals(mail, Removed(r))
  /\ todo' = r.add /\ spam' = r.spam /\ count' = count + 1
  /\ UNCHANGED return

\* ... what it adds, in the order in which Go iterates over a map, ...
Add(op) ==
  /\ pc = "adding" /\ op \in todo /\ ~Refused(op)
  /\ mail' = Transform(mail, op) /\ todo' = todo \ {op}
  /\ UNCHANGED <<pc, return, spam, count>>

\* ... and its verdict.
Verdict ==
  /\ pc = "adding" /\ todo = {} /\ pc' = "modify"
  /\ mail' = IF spam THEN MarkSpam(mail, "Yes") ELSE mail
  /\ UNCHANGED <<return, todo, spam, count>>

\* An error: the command is cancelled, the mail is tried again at the next start.
Refuse ==
  /\ \/ /\ pc = "modify" /\ count < MaxMods
        /\ \/ \E op \in Mods : Refused(op)
           \/ \E r \in Scans : Removed(r) \cap Fixed # {}
     \/ pc = "adding" /\ \E op \in todo : Refused(op)
  /\ pc' = "cancelled" /\ UNCHANGED <<mail, return, todo, spam, count>>

\* Our own insertions come last.
Originals ==
  LET to == IF Recipient = None THEN mail
            ELSE InsertHeader(mail, Field("X-Original-To", Recipient), 0)
  IN  IF return = None THEN to
      ELSE InsertHeader(to, Field("X-Original-Return-Path", return), 0)

\* Mutant: Add instead of Set.
SetFieldKeeping(s, k, v) == <<Field(k, v)>> \o s

\* Header.Set is Del and a prepending Add.
SetField(s, k, v) == <<Field(k, v)>> \o Without(s, k)

\* writeTo: lhdrs in front of hdr again, a MIME-Version when there is none, and
\* the empty Return-Path.
Write ==
  LET all  == Header(Originals)
      mime == IF Has(all, "Mime-Version") THEN all ELSE SetField(all, "Mime-Version", "1.0")
  IN  /\ pc = "modify" /\ pc' = "written"
      /\ mail' = [lhdrs |-> <<>>, hdr |-> SetField(mime, "Return-Path", "<>")]
      /\ UNCHANGED <<return, todo, spam, count>>

Next ==
  \/ Prepare \/ Verdict \/ Refuse \/ Write
  \/ \E op \in Mods : Modify(op)
  \/ \E r \in Scans : Scan(r)
  \/ \E op \in todo : Add(op)

Spec == Init /\ [][Next]_vars

----------------------------------------------------------------------------
(* Properties *)

\* The types; what is still to be added is what rspamd asked for.
TypeOK ==
  /\ mail \in Lists
  /\ pc \in {"parsed", "modify", "adding", "cancelled", "written"}
  /\ return \in Text \union {None}
  /\ todo \in SUBSET ModsOf({"add", "insert"}) /\ spam \in BOOLEAN
  /\ count \in 0..MaxMods

(* What the functions promise, on one list *)

\* The comments of mailRemoveHeader, mailReplaceHeader, mailAddHeader and
\* mailInsertHeader; a replacement that finds nothing adds or does nothing.
Documented(s, op) ==
  LET f  == Field(op.key, op.value)
      n  == Total(s, op.key)
      i  == IF op.index > 0 THEN op.index ELSE n + 1 + op.index
      p  == Nth(Places(s, op.key), i)
      at == IF op.index \in 0..Len(s) THEN op.index
            ELSE IF -op.index \in 1..Len(s) THEN Len(s) + op.index ELSE Len(s)
  IN  CASE op.op = "remove" -> IF op.index = 0 THEN {Without(s, op.key)}
                               ELSE IF i \in 1..n THEN {RemoveAt(s, p)} ELSE {s}
        [] op.op = "change" -> IF i \in 1..n THEN {[s EXCEPT ![p] = f]}
                               ELSE {s, Append(s, f)}
        [] op.op = "add"    -> {Append(s, f)}
        [] op.op = "insert" -> {InsertAt(s, at + 1, f)}

\* However the list is split, a modification does to the whole of it what its
\* comment says: the index counts over both parts and the order is kept.
AsDocumented ==
  [][/\ \A op \in Mods : Modify(op) => Header(mail') \in Documented(Header(mail), op)
     /\ \A op \in todo : Add(op) => Header(mail') \in Documented(Header(mail), op)]_vars

\* A mail that rspamd takes for spam leaves with one X-Spam field, our own at its
\* end, whatever the sender, the template and add_headers put there before; the
\* other fields stay.
SpamMarkedOnce ==
  [][Verdict /\ spam =>
       /\ Header(mail') = Append(Without(Header(mail), "X-Spam"), Field("X-Spam", "Yes"))
       /\ Places(Header(mail'), "X-Spam") = {Len(Header(mail'))}]_vars

\* What is written starts with the one Return-Path, the empty one, and keeps the
\* sender's as the first X-Original-Return-Path, whatever the template did.
ReturnPathIsOurs ==
  pc = "written" =>
    /\ Places(mail.hdr, "Return-Path") = {1} /\ mail.hdr[1].value = "<>"
    /\ return # None =>
         LET ps == Places(mail.hdr, "X-Original-Return-Path")
         IN  ps # {} /\ mail.hdr[Nth(ps, 1)].value = return

----------------------------------------------------------------------------
(* What the code does not keep *)

\* delivery_data.go:256 and 419: such changes "are ignored".
ChangesIgnored == pc # "cancelled"

\* delivery_data.go:482: "First apply remove operation."
RemovalsApplied ==
  [][\A r \in Scans : Scan(r) =>
       \A k \in DOMAIN r.remove : ~Has(Header(mail'), k)]_vars

\* The log message of a missing key (delivery_data.go:355) speaks of the mail's
\* header, not of one of its two parts.
AddsOnlyMissingKeys ==
  [][\A op \in Mods : Modify(op) /\ op.op = "change" /\ Has(Header(mail), op.key) =>
       Len(Header(mail')) = Len(Header(mail))]_vars
=============================================================================
