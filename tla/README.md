# A specification of mymail

`mymail` is a mail server for one domain, written in Go: an SMTP server that
takes mail from other servers (the inbound port) and from its own users (the
send port), relays what is addressed elsewhere, and keeps local mail in
Maildir directories; and an IMAP server, another process, that serves those
directories. This directory holds TLA+ modules of the parts in which
concurrency, crashes and the order of calls decide whether mail is lost,
doubled, misdirected or shown wrongly, the configurations that model-check
them with TLC, and theorems checked by TLAPS.

    tlc -workers 2 -config MCMaildir_safety.cfg MCMaildir.tla     # a run
    tlapm Maildir_proofs.tla                                      # the proofs

## 1. The system

| part | code | state | operations |
|---|---|---|---|
| maildir store | `lib/maildir` | on disk: `tmp/`, `new/`, `cur/`, `uidlist`, `uidlist.lock`; in memory: a `Mailbox` snapshot per IMAP session | `StoreMail`, `GetMailbox` (the sync), `BySeq`, `ByUID`, `UpdateFlags` |
| SMTP server session | `lib/smtp/session/server_session.go`, `connection.go`, `lib/smtp/codes.go` | `state`, `activeTx`, `authedUser`, `consecutiveErrors`, whether TLS is active, the buffered reader | one per command, `ReadDataLine`, `Reply` |
| mail transaction | `lib/smtp/transaction.go` | sender, recipient, lines | accessors, `AppendHeader` |
| SMTP client session | `lib/smtp/session/client_session.go` | `state`, TLS, the connection | `SendMail` |
| pending queue, relay loop | `packages/smtp/server.go` | the directory `pending-mails`; the map of one tick | `QueueMail`, `processPendingMail`, `relay` |
| IMAP session | `lib/imap/session` | `state`, `authedUser`, `selectedMailbox`, whether TLS is active, the buffered reader | one per command, the second line of AUTHENTICATE |
| SPF | `lib/smtp/spf` | the redirects followed | `VerifySPFHost`, reading and evaluating a record |
| text of a mail | `ReadDataLine`, `SendMail`, `transaction.go`, `lib/imf` | the lines on their way | dot-stuffing, `AppendHeader`, the JSON of a pending mail, `NewMessageFormat` |
| SASL, users | `lib/sasl`, `packages/shared` | a map of users | parsers, lookups |
| listeners, flags, tools | `packages/*/main.go`, `config.go`, `tools` | none | pure I/O |

How they interact. Every accepted connection has a goroutine (`serve`) of its
own. An SMTP session calls back into the server (`ServerSessionHandler`):
`IsValidUser`, `AuthenticateUser`, `StoreLocalMail`, which makes a
`MaildirStore` and delivers, and `QueueMail`, which writes one file into
`pending-mails`. One more goroutine of the SMTP server reads that directory
every ten seconds and runs a client session per mail. The IMAP server's
sessions sync a maildir under an `flock`; the deliveries of the other process
and the flag changes of other sessions do not take that lock. So the shared
state is in two directories, and no directory is shared under a lock by all
who change it.

What makes each part correct:

* maildir: a delivered mail is in exactly one file until someone removes it, and
  what SELECT shows includes every mail that was delivered before, unless two
  mails got one name; a UID names one mail for ever and a mail keeps its UID;
  UIDNEXT is a promise; every waiting SELECT is served;
* SMTP server session: only mails of a sender that was vouched for (password
  over TLS, or SPF), to a recipient that is known, are taken, each once; 250
  means taken; nothing from before the TLS handshake survives it; failing
  sessions and gone clients come to an end;
* SMTP client session: "relayed" means the remote took the mail (but for one whose
  first line the remote may read as a command); passwords go over TLS only; the
  dialogue ends;
* IMAP session: a user is authenticated by their own credentials over TLS; the
  state agrees with the user and the mailbox the handlers dereference; every
  command is completed once; an OK to a UID command that failed comes after an
  error; silent sessions end;
* SPF: the result is what the record says, read as its two lists; verification
  ends although records redirect in circles;
* text of a mail: what is accepted is what was sent, but for a Message-ID in the
  header; what was accepted can be relayed to a server like ours, within its limits,
  and be shown;
* queue: an accepted mail is neither lost nor sent twice without a reason, and
  is attempted, unless a half written file blocks the loop.

The hazards, with their lines and the properties that cover them, are listed
in `PROJECT.json`.

## 2. The modules

| module | what it is |
|---|---|
| `Maildir` | the store: deliveries, IMAP sessions, removals, crashes |
| `MaildirInv` | its inductive invariants: of UIDs, of files, of what a sync overlooks, of records and their files |
| `UIDLedger` | abstract specification: what a mailbox owes a client about UIDs |
| `Maildir_proofs`, `MaildirDisk_proofs`, `MaildirView_proofs` | theorems about `Maildir`: UIDs; files; what a session sees |
| `SMTPSession`, `SMTPSession_proofs` | one connection of the SMTP server, and theorems about it |
| `IMAPSession`, `IMAPSession_proofs` | one connection of the IMAP server, and theorems about it |
| `SPF` | one verification of a sender's host |
| `MailText` | the text of one mail from the client to the mailbox or the next server |
| `MailPath` | `SPF` and `MailText` one after the other, as `handleMail` and `handleData` run them |
| `MailPath_proofs` | theorems about `SPF` and `MailText` |
| `Transfer` | abstract specification: what relaying one mail promises |
| `ClientSession`, `ClientSession_proofs` | one run of `SendMail` against any remote server; implements `Transfer`, which is proved |
| `PendingMail` | queue and relay loop; uses `Transfer` for each relay |
| `PendingMail_proofs` | theorems about `PendingMail` |
| `MC*` | the instances for TLC |

`PendingMail` composes with `ClientSession` through `Transfer`: its steps
`RemoteTakes` and `RelayEnds` are the actions of `Transfer`, so it assumes of
a relay exactly what `ClientSession` is proved to provide (`TransferSpec`).
What is seen of a relay is its outcome (`nil`, an error, or the panic of a
failed handshake) and whether the remote has taken the mail.

### Maildir

A unique name is the microsecond it was generated in. The other parts of a
name are equal for all mails of one SMTP server (process id, counter 1, host
`@`) or taken to be equal (size); different sizes would only make fewer names
collide. Any delivery may generate any name: two goroutines can read one
microsecond, and the clock can be set back. What such a collision breaks is the
mails that share the name, one of which overwrites the other, and properties about
a single mail say so (`Unshared`); those about UIDs hold all the same. A file of
`cur/` is a name and the Seen flag. `uidlist` is a record of
validity, next and records; `NoList` is the missing file.

`StoreMail` is four steps (`GenerateUniqueMeta`, `Spool`, `MoveToNew`,
`SyncNew`), with `FailStore` after each. `GetMailbox` is `Select` (open the
lock file and wait), `BeginSync` (lock granted, uidlist read, scan of `new/`
begun), `Migrate` per file, `BeginScan`/`EndScan` of `cur/`, then either
`NothingChanged`, the early return, or `AssignUIDs` (in memory), `CommitList`
(the rename of the new uidlist) and `Publish`; `AbortSync` is every error
return. A directory is not read in one instant: a name that arrives in `new/`
while it is read is seen or not (`MayList`), and a name in `cur/` that a
rename or a removal touches while it is scanned is reported or not, under
either name (`Touch`, `EndScan`). `UpdateFlags` changes the name in memory
first and may then fail, as the code does; a rename that changes nothing is no
race. UIDs wrap as a uint32 does: `Assign` keeps the last record of each UID, as
`recordsByUID` does. `IMAPCrash` ends all sessions at
once, because they are goroutines of one process. The death of the SMTP server
is `FailStore` of its deliveries.

Three facts of Go's runtime and of the file system that the modules rely on,
and that are not in the code: `rename` replaces its target atomically, an
`flock` is dropped when its holder dies, and a crash of a process loses no
write (a power loss does; see 7).

### SMTPSession

`serve` handles one line at a time, so reading a line and handling it is one
action; what waits for the client in between is an action of its own: the
lines of a mail and the TLS handshake. `input` is what the client has sent and
the server has not read, each line with whether TLS carried it; the client may
send any line at any time, so mail lines can arrive as commands and commands
as mail lines. The three ways of replying are kept apart as in the code: a
handler calls `Reply`, a handler returns a `ReplyError` that `serve` sends, or
returns another error, which is only logged (`LogOnly`); so is what happens at
the limit of failures on each path. `Panic` is the `recover` of `serve`, which
closes the connection. A transaction carries the evidence it was accepted on
(the result of SPF, whether MAIL came over TLS) and an id, which with the history
`over` (transactions that gave their mail away, lost their recipient, had too much
data or were begun before TLS) is used by the properties only. The size of a mail
is its number of lines, `MaxLines` of which are taken; `MailText` has the octets.

### ClientSession

The remote server is the environment. It accepts or refuses each command,
lists its extensions in any order, may send an EHLO reply with a line that
`ReadReply` refuses (then the lines after it are read as a reply of their own),
and may be gone at any time. `SendMail` does not look at the code of the reply to
DATA, so the mail may follow a refusal and be read as commands; then the answer
to its first line is taken for the one to the mail, which is 250 if that line
can pass for a command, NOOP or RSET for example (`firstLine`). `Transfer` says so
with its variable `plain`, and `PendingMail` with the constant `CommandLike`, any
set of mails. Two channels hold commands and replies, so that
replies that are read for the wrong command are in the model.

### IMAPSession

Built like `SMTPSession`. AUTHENTICATE takes two lines; the second is read as
credentials whatever it is (`Credentials`), so a command sent ahead can be
taken for credentials and credentials for a command ("word"). The server ignores
an initial response that comes with AUTHENTICATE. Each of the handlers' ways to
end is kept: a reply whose write error is ignored (`Reply`) or ends the session
(`CheckedReply`), an error or a panic that ends it without a word (`Drop`). The
UID commands are completed in two parts as in `handleUID`: the handler runs with
an empty tag (`NoTag`), so its own BAD or NO goes out without one, and
`handleUID` adds OK with the tag (`CompleteUID`). What the mailbox holds is left
to `Maildir`: a snapshot is any set of messages, and a message of the snapshot
may no longer be found. Which items FETCH asks for is left out.

### SPF, MailText and MailPath

`SPF` is one recursive call of `verifySPFHost` per step: the lookup gives any
answer (an error, no record, several, or one with any terms), the terms are read
from the left, one by `ReadTerm`, into directives and modifiers as `readRecord` does (`all` ends the
record and drops the modifiers, an unknown mechanism spoils it, an empty term
panics), and the two lists are evaluated. Of an address only whether the
mechanism contains it is kept, or that it does not fit the family of the
mechanism ("misfit"). `Meaning` is the reference: it says of the terms
themselves, without lists, which of them decides.

`MailText` has lines of six kinds of octets, the fewest to write every line that
`ReadDataLine`, `hasHeader`, the JSON encoder and `readHeader` treat in a way of
its own: a dot, a colon, a blank, the name Message-ID, an octet above 127, and
any other. `data` has no line ends; an empty line is an empty sequence. `Size`
counts the octets of a mail with its line ends, and `DataLine` refuses a mail whose
size is above the limit, even if the final dot follows, on the way in and again at
the next server. The headers are a set, as the map that `NewMessageFormat` fills has
no order. Names and values are trimmed (`Trimmed`), so a line of blanks, or of
blanks and a colon, ends a header as an empty line does. `MailPath` puts the two together: a
mail comes to the inbound port only on a pass.

### PendingMail

`os.WriteFile` is two steps (`CreateFile`, `FillFile`), because the loop reads
the same directory. A tick reads the directory (`Tick`, `ReadFile` per file,
`ReadAll`), then relays the mails in any order, since they are in a map. `Die`
may happen in every step and must follow a panic of the relay; all that is left
is the directory. `excuses` counts the relays after which the mail had been
taken and the file stayed: the relay returned an error, the removal failed, the
server died. `Leftover` are files of an earlier run. The flag `noSend` is any, and
the same after every restart.

## 3. The runs

Bounds are chosen so that every action fires in some passing run and the
interesting collisions happen; the number of distinct states is in brackets.

| run | bounds | shows |
|---|---|---|
| `maildir_safety` (1.4M) | 2 mails, 2 sessions, crashes, one rename during a scan, 2 possible creation times, 2 microseconds, which the mails may share | the inductive invariant of UIDs, uniqueness and stability of UIDs, ascending snapshots, no lost mail, complete snapshots, UIDNEXT, and the refinement of `UIDLedger` |
| `maildir_live` (178k) | 1 mail, 3 sessions, 1 removal by another program, one race | every waiting SELECT is served |
| `smtp_safety` (238k) | 1 account, 1 stranger, 1 foreign address, limit of 3 failures, mails of at most 2 lines, 1 line of read ahead, 2 transactions | what is taken, from whom, for whom, how often, and what the client is told; the session of a gone client is closed |
| `client_safety` (3.6k) | credentials, one garbled EHLO reply, a first line that passes for a command and one that does not | `Transfer` is implemented; credentials need TLS; `SendMail` ends |
| `pending_safety` (155k) | 2 mails whose relay may panic, one of them left by an earlier run and with a first line that passes for a command, and 1 mail without a server, with and without -no-send, 1 death, 1 failed write or removal, 2 copies | the inductive invariant, nothing accepted is lost, nothing half written is relayed, copies have excuses, -no-send sends nothing it accepted; accepted mails are attempted |
| `imap_safety` (165k) | 2 accounts and a user without a domain, 1 message, 2 tags, 2 lines of read ahead | logins are secure, the state agrees with the mailbox, commands are completed once, an OK after a failure follows an error; silent sessions end |
| `mailpath_safety` (589k) | first records of at most 3 terms, later ones of 2, 2 hosts, 10 redirects; mails of at most 3 lines of at most 2 octets and 11 octets in all, or of dots to the limit of 3 octets a line and one more; mails of at most 12 octets are taken | records mean what they say, verification ends; mails within the limits arrive, are relayed and are shown as they were sent |

Why they are enough. Two mails and two sessions are the fewest with which a
delivery, a sync and a flag change overlap; a third session can only wait for
the lock, which `maildir_live` has it do. One race per behaviour is enough for a scan to miss a file, and two
microseconds for two mails; the theorems of section 5 hold without these
bounds. One line of read ahead is enough for a command to be read on the
wrong side of a handshake, and two for AUTHENTICATE and its credentials. The
limits are scaled: of ten failures to 3, of 64000 octets to 2 lines in
`smtp_safety` and to 12 octets in `mailpath_safety`, where the dots go past it and
the longest other mail (11 octets) goes past it with its Message-ID; no such number matters to the code other than in the
comparison that is modelled. Two copies of a mail are the fewest to tell an
excused from an unexcused one. Three terms are enough for a term before, at and
after the one that decides, two hosts for redirects in a circle; ten redirects
are the number in the code. (Its comment says "break if we hit 10" and its test
is `count > 10`: ten are followed, the eleventh is not.) Two octets are enough
for a dot and what follows it, for a name and its colon, and for the value of a
header; three lines are a header, a separator and a body.

Symmetry (of mails, of sessions) is used in the first run only, which checks no
liveness. Deadlock is not checked in any run: the mails are delivered, the
connection closed or the dialogue over at some time, and the system then has
nothing left to do.

Five runs end in a counterexample that shows a disagreement between the code
and what a comment in it says:

| run | what happens |
|---|---|
| `maildir_meta` | a STORE with `\Seen` before an unsupported flag changes the name in memory only; the session then cannot open the message (`mailbox.go:180`, comment `message.go:187`) |
| `maildir_dropped` | a scan that misses a file renamed by another session drops the record of a mail that is still there (`maildir.go:178`, comment `maildir.go:131`) |
| `client_plain` | a server that lists AUTH before STARTTLS gets the mail in the clear (`client_session.go:143`, comment line 145) |
| `client_misread` | a server refuses DATA and answers the first line of the mail, read as a command, with 250: `SendMail` returns nil and the mail is deleted (`client_session.go:90`, comment `packages/smtp/server.go:173`) |
| `pending_blocked` | a half written file left by a death ends every later tick (`server.go:239`, comment line 150) |

Five configurations that are no runs of their own give further ones, in seconds:

| configuration | what happens |
|---|---|
| `MCMaildir_sametick` | two mails of one size stored in one microsecond get one name, and the second replaces the first (`EveryMailKept`; `message.go:29`, where no comment promises otherwise) |
| `MCSMTPSession_norcpt` | DATA without RCPT on the inbound port queues a mail without recipient (`InboundToOurDomain`; `server_session.go:308`, comment line 289) |
| `MCIMAPSession_unknown` | UID FETCH and UID STORE of a UID that does not exist end the session (`UnknownUIDIgnored`; `imap/session/server_session.go`, comment line 555) |
| `MCIMAPSession_uidok` | UID FETCH and UID STORE that failed are completed with OK all the same, after a BAD or NO without a tag (`OKMeansDone`; `imap/session/server_session.go:573`; nothing promises otherwise) |
| `MCMailPath_raw` | octets above 127 of a body are shown as two octets each (`BodyIsRaw`; `imf.go:63`, comment line 19) |

One more passes: in `MCMaildir_wrap` (697k states) three mails share a space of two
UIDs, so that records overwrite each other, and `SelectSeesStoredMail` still holds.
The theorem `StoredMailSeen` says so of every number of mails and UIDs.

Two more disagreements are in the models without a run of their own: 552 is no
failure to `IsFailureCode` and resets the count of consecutive failures
(`Counted` of `SMTPSession`; `codes.go:33`, comment `server_session.go:39`), and
-no-send does not keep the loop from relaying what an earlier run left
(`Tick` of `PendingMail`; `server.go:81`, `config.go:30`).

For every property of a passing run `PROJECT.json` names a mutant: a plausible
slip in one definition, kept next to it in the module and marked `Bug:`, with
which TLC finds that property violated. No specification uses them.

## 4. Fairness

* `Maildir!FairSpec`: the steps of the lock holder are weakly fair (a
  goroutine that is not blocked runs; no step of the sync waits for anything),
  and getting the lock is strongly fair: Linux queues the waiters of an
  `flock`, so a waiter is not passed over for ever. Nothing is assumed of
  clients, deliveries or crashes; a crash ends the wait.
* `SMTPSession!FairSpec`: weak fairness of the server. Every read and handshake
  it waits in ends because of the deadline of ten seconds, which is why
  `ReadFails` and `HandshakeFails` are steps of the server.
* `IMAPSession!FairSpec`: the same with a deadline of thirty minutes. It is
  extended at every read, so `SilentSessionEnds` is about clients that stop
  sending, for whatever reason; one that sends for ever is served for ever.
* `MailPath!PathSpec`: weak fairness of `Verify`. Every lookup is answered or
  fails; nothing is assumed of the client.
* `ClientSession!FairSpec`: weak fairness of client and remote server. The
  client sets no deadline, so without an answering (or vanishing) remote
  nothing can be promised; that is an assumption on the remote, and a hazard.
* `PendingMail!FairSpec`: the sessions and the loop run, a relay ends (which
  rests on the previous item), and the server is started again after a panic.
  The relay of each mail is strongly fair, because `processPendingMail` ranges
  over a Go map, whose order is random: a mail that is in the map again and again
  is not behind one that panics in every tick. Without it `AcceptedIsAttempted`
  fails: a panic ends the tick for all mails that come after it.

## 5. The proofs

`Maildir_proofs` proves, for any sets of mails and sessions, any UID space
larger than one, any number of ticks, removals and races, and any names that mails
share (assumption `MaildirAssumption`):

* `TypeCorrect`: `Spec => []TypeOK`;
* `Inductive`: `Spec => []IInv`;
* `UIDsNameOneMail`, `SnapshotsWereIssued`: the invariants `UIDNamesOneMail`
  and `ShownWasIssued`;
* `UIDNextPromised`: the action property `UIDNextIsPromise`;
* `ImplementsLedger`: the refinement `LedgerSpec`, a step of the store being a
  step of the ledger or a stutter.

Why a stronger invariant is needed. `UIDNamesOneMail` speaks of the UIDs that
were ever published. That the next sync does not give one again follows from
three things it does not say: the uidlist on disk has a `next` above all that
was issued under its validity (`FileInv`), the holder's copy extends the one on
disk until it is published, with new UIDs only from the disk's `next` on
(`HolderInv`), and the snapshots of open sessions were issued, with a UIDNEXT no
higher than the one on disk (`SnapshotInv`). `IInv` is their conjunction with
the types, claimed until the uint32 wraps, since `addRecord` leaves the wrap
open (a TODO in the code). Most steps leave the uidlist, the holder's copy and
the snapshots alone; the steps of substance are `AssignUIDs`, which makes
`Extends` true, and `CommitList`, which turns `Extends` into `FileInv`. The
library's facts on finite sets serve the lemma that an arrangement of a finite
set of messages is a sequence of it.

`PendingMail_proofs` proves, for any set of mails, any numbers of deaths,
failures and copies, and any choice of leftover, undeliverable and badly
configured mails (assumption `PendingAssumption`):

* `PendingInvariant`: `Spec => []PInv`;
* `AcceptedMailKept`, `WholeMailsRelayed`, `CopiesHaveExcuse`, `SkippedKept`:
  the four safety properties.

The strengthening: a file is partial exactly while its mail is being written
(or was cut off), so that the loop, which reads the directory without a lock,
can have no mail whose file still changes; a mail that has one copy more than
excuses is either in transfer, taken, or its file is gone (`FileFacts`); and
`nil` means taken (`TransferInv`), which is what `Transfer` promises. Everything
is proved for one mail at a time (`About`).

`MaildirDisk_proofs` proves, under the same assumption, `DiskInductive` and
`MailsNotLost` (`NoMailLost`): a mail whose name no other delivery has generated is
kept, whatever mails share other names. `NoMailLost` counts files and is not
inductive: that a rename replaces no file of such a mail needs that a file has the
name of its mail and its delivery has got that far (`FilesBelong`), and that new/
and both names of cur/ hold at most one file of a name that only one mail has
(`OneFile`); that the holder of the lock moves a file and not its absence needs that
what it has listed stays until it moves it (`Listed`). Of mails that share a
name nothing of the kind can be proved: `MCMaildir_sametick` shows one that is lost.

`MaildirView_proofs` proves what a session sees of the mailbox:

* `DueInductive`, `StoredMailSeen`: the action property `SelectSeesStoredMail`;
* `ViewInductive`: `Spec => []ViewInv`;
* `SnapshotsAscend`, `MailsKeepUID`: the invariants `SnapshotAscending` and
  `MailKeepsUID`.

`ViewInv` is `IInv`, `DiskInv` and two parts more. `DueInv` follows each mail that
was stored when the lock was taken, under a name of its own, through the sync: it is in new/ and yet to be
moved, then in cur/, then in the scan under a name it will report, then in
the mailbox. A mail delivered after that is not owed to this sync, nor is one whose
file was renamed during the scan. `KeepInv` ties records to files: a name that was issued has no file in
new/ and no delivery to come (`Settled`), so nothing gives it to `addRecord` as a
new one; it has its record as long as it has a file, on disk and in the holder's
list after the records of missing files were dropped (`Backed`); and the index
of the scan has just the records of the files found (`Scanned`). This holds as
long as no rename has raced a scan, no UID has wrapped and no two mails have got one
name (`Undisturbed`), and that is all that
`SnapshotAscending` and `MailKeepsUID` claim: a scan that reads a file under both
names, or misses it, gives the mail another UID, which is what `maildir_dropped`
shows. That one UID never names two mails is proved with races and shared names, and
that a SELECT overlooks no mail with races and past the wrap.

`SMTPSession_proofs` proves, for any accounts, strangers and foreign addresses,
any limits and any read ahead, the six safety invariants of `smtp_safety`
(`SendersAreVouchedFor`, `RecipientsAreKnown`, `NothingSurvivesTLS`,
`MailsAreGivenOnce`, `FailuresAreCounted`, `AuthIsHonoured`) and the two action
properties (`AcceptedIsTaken`, `CommandsAreAnswered`). They are inductive
together once two facts are added that no single handler shows: a user is known
only over TLS (`LoginsOverTLS`), and a session of the send port is ready for MAIL
only once a user is known (`ReadyIsAuthed`).

`IMAPSession_proofs` proves `LoginsSecure`, `StateIsRight`, `EachCompletedOnce`,
`FailuresTold` (`ErrorBeforeOK`) and, of an operator no run lists,
`OffersAreHonoured`.
`SecureLogin` and `StateAgrees` are inductive with the types: the former says
that once TLS is active all that is left to read came over it, the latter that
credentials are only waited for over TLS and before a login.

`ClientSession_proofs` proves `CredentialsAreSafe` and `ImplementsTransfer`. The
latter needs to know what is under way on the two channels: as long as the
connection holds, the reply read next belongs to the command written last
(`InStep`), or is one behind it after a reply to EHLO that could not be read
(`OneBehind`, `Unreadable`). Then the reply to the end of the mail can only be
read in its own place: one behind, the reply taken for it is that to DATA, which
is 354 or a failure and never the 250 that counts as taken. In its own place it is
250 only if the remote has taken the mail, or has read a first line that passes for
a command (`Excused`), the one exception that `Transfer` makes; `client_misread`
shows that it is needed.

`MailPath_proofs` proves, for any number of hosts and any limits of redirects
and octets, for records with any number of terms and mails with any number of
lines of any length and blanks anywhere (assumptions `SPFAssumption` and
`TextAssumption`):

* `VerifyInductive`, `VerdictIsMeaning`: the invariant `EvaluatesMeaning`;
* `TextInductive`, and from it `MailArrives` (`DataArrives`), `MailRelayed`
  (`RelayedWhole`) and `MailShown` (`ShownAsStored`);
* `PathTypes`: the type invariant `PathTypeOK`.

The first compares two readings of a record. After the first i terms the lists of
`readRecord` hold the directives and modifiers up to there, in their order, if no
term spoilt the record before; so the first directive that matches is the term
that `Meaning` calls the deciding one, whatever modifiers stand between.
`VerifyInv` adds that no more redirects than the limit were followed.

For the second, `WayInv` says where the text is: it is the lines that were read
followed by lines whose encoding is what is still on the wire (`Unread`), for
the client's mail and again for the relayed one. A wire that is the encoding of
lines begins with the encoding of the first and is the final dot only at their
end; that is where dots at the beginning of a line would do harm. What is
accepted passes the limit of lines at the next server too (`Sound`), and so does the
Message-ID that `AppendHeader` adds. It may take the mail past the limit of its size:
`RelayedWhole` excepts the mails that are that long, and `WayInv` says that nothing
else keeps an ASCII mail back. This is what `TextAssumption` says `MaxLine > 2`
for: the line added has three octets in the model, and in the code far fewer than
998. For `MailShown`, the lines that separate in the code are those of blanks and at
most one colon (`SeparatorsAreBorders`), which is how the property says where a
header may end.

`ReadRecord` is a recursive function and the wire is a concatenation of lines
(`FlattenSeq`, a recursive function of the community modules). Induction by the
library's theorems takes an operator as a parameter, which the provers cannot
instantiate; the lemmas of the module take the least number for which the claim
would fail instead (`Least`, from the well-foundedness of `<` on the naturals)
and refute it with the step of the recursion.

Model-checked only: liveness (`SelectServed`, `GoneClientIsClosed`,
`SendMailEnds`, `AcceptedIsAttempted`, `SilentSessionEnds`, `VerificationEnds`),
which is out of the prover's reach. Every safety property that a passing run
checks is stated by a theorem. None assumes more of the constants than the named
assumptions of the modules.

## 6. The plan

Done: the store with its abstract ledger; the sessions of both servers; the
client session, its abstract specification and the queue that uses it; SPF and
the text of a mail; proofs of all safety properties. To do, in this order:

1. Proofs that the helper operators of the models mean what their names say where
   no theorem depends on it yet, and safety parts of the liveness properties: a
   measure that each step of a sync, a relay or a verification decreases.
2. A dialogue of `ClientSession` with `SMTPSession` as its remote server, and a
   system in which a mail goes from a user to a mailbox.
3. A variant of `Maildir` in which unsynced renames are lost with the machine.

## 7. What is not modelled

* A power loss that undoes renames whose directory was not synced (planned).
* The text of replies, logging, flags, certificates, accepting connections.
* Which items of a message FETCH was asked for, and the ranges of sequence
  numbers, of which the code reads one number.
* The coding of credentials (base64 and the separators of SASL PLAIN): right,
  wrong and undecodable credentials are inputs of the sessions.
* The parsing of addresses and prefixes in SPF: whether a mechanism contains the
  address is an input.
* Local delivery that fails is an outcome in `SMTPSession` ("not_stored"), but
  the client is told 250 all the same: `StoreLocalMail` has no result to say
  otherwise, so `AcceptedMeansTaken` cannot and does not claim it was stored.
* File descriptors: `BySeq` and `ByUID` leave theirs to the garbage collector.
* The command line tools: they have no state, and the probe is a `SendMail`.
* DNS, SOCKS and the hashing of passwords: external, any outcome.
