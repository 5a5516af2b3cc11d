---------------------------- MODULE PendingMail ----------------------------
(***************************************************************************)
(* The mails the SMTP server has accepted for other domains: the directory *)
(* pending-mails, the sessions that put mails into it (QueueMail) and the  *)
(* one goroutine that relays them (processPendingMail).                    *)
(*                                                                         *)
(* The directory is the only state that survives: the server may die in    *)
(* any step, and a relay whose TLS handshake fails kills it.  Relaying one *)
(* mail is what Transfer promises of it, which ClientSession is checked to *)
(* implement.                                                              *)
(***************************************************************************)
EXTENDS Naturals, FiniteSets

CONSTANTS
    Mail,          \* the mails given to QueueMail; a file name is unique to one (uuid)
    Undeliverable, \* mails that have no recipient, or whose domain has no server
    BadTLS,        \* mails whose server offers STARTTLS, but no handshake succeeds with it
    CommandLike,   \* mails whose first line a server may answer with 250 as a command
    Leftover,      \* mails that an earlier run of the server left in the directory
    None,          \* no mail
    MaxDeath,      \* bound: deaths of the server
    MaxFailure,    \* bound: writes that fail
    MaxCopies      \* bound: how often the remote servers take one mail

ASSUME PendingAssumption ==
    /\ Undeliverable \subseteq Mail /\ BadTLS \subseteq Mail
    /\ CommandLike \subseteq Mail /\ Leftover \subseteq Mail
    /\ None \notin Mail
    /\ MaxDeath \in Nat /\ MaxFailure \in Nat /\ MaxCopies \in Nat

VARIABLES
    noSend,     \* the flag -no-send; the server is always started with the same flags
    file,       \* per mail: its file is "none", "partial" or "whole"
    queue,      \* per mail: where QueueMail is, and what the client was told
    loop,       \* where processPendingMail is
    entries,    \* files it has yet to read in this tick
    pending,    \* mails it has yet to relay in this tick
    current,    \* the mail it relays, or None
    outcome,    \* how that relay ends
    taken,      \* whether the remote server has taken that mail
    copies,     \* history: how often a remote server took the mail
    excuses,    \* history: relays of the mail that were not followed by its removal
    attempted,  \* history: mails whose relay has begun
    deaths, failures

loopVars == <<loop, entries, pending, current, outcome, taken>>
historyVars == <<copies, excuses, attempted, deaths, failures>>
sessionVars == <<noSend, queue>>
vars == <<file, sessionVars, loopVars, historyVars>>

Transfer == INSTANCE Transfer WITH plain <- current \notin CommandLike

\* Bug: an entry that is a directory is not left out.
AllEntries == {m \in Mail : file[m] # "none"} \cup {None}

Files == {m \in Mail : file[m] # "none"}

Init ==
    /\ noSend \in BOOLEAN
    /\ file = [m \in Mail |-> IF m \in Leftover THEN "whole" ELSE "none"]
    /\ queue = [m \in Mail |-> IF m \in Leftover THEN "accepted" ELSE "start"]
    /\ loop = "wait"
    /\ entries = {} /\ pending = {}
    /\ current = None
    /\ Transfer!Init
    /\ copies = [m \in Mail |-> 0]
    /\ excuses = [m \in Mail |-> 0]
    /\ attempted = {}
    /\ deaths = 0 /\ failures = 0

-----------------------------------------------------------------------------
(* QueueMail, called by a session for mail m.                              *)

Told(m, answer) ==
    /\ queue' = [queue EXCEPT ![m] = answer]
    /\ UNCHANGED noSend

\* With -no-send nothing is written, and the client is told 250.
SkipMail(m) ==
    /\ noSend
    /\ queue[m] = "start"
    /\ Told(m, "accepted")
    /\ UNCHANGED <<file, loopVars, historyVars>>

\* Bug: the flag is not looked at.
CreateAlways(m) ==
    /\ queue[m] = "start"
    /\ file' = [file EXCEPT ![m] = "partial"]
    /\ Told(m, "writing")
    /\ UNCHANGED <<loopVars, historyVars>>

\* WriteFile creates the file under its final name and then fills it.
CreateFile(m) ==
    /\ ~noSend
    /\ queue[m] = "start"
    /\ file' = [file EXCEPT ![m] = "partial"]
    /\ Told(m, "writing")
    /\ UNCHANGED <<loopVars, historyVars>>

FillFile(m) ==
    /\ queue[m] = "writing"
    /\ file' = [file EXCEPT ![m] = "whole"]
    /\ Told(m, "written")
    /\ UNCHANGED <<loopVars, historyVars>>

Accept(m) ==
    /\ queue[m] = "written"
    /\ Told(m, "accepted")
    /\ UNCHANGED <<file, loopVars, historyVars>>

\* Mkdir or WriteFile fails: the client is told 554.  What was written stays.
RefuseMail(m) ==
    /\ queue[m] \in {"start", "writing"}
    /\ failures < MaxFailure
    /\ failures' = failures + 1
    /\ Told(m, "refused")
    /\ UNCHANGED <<file, loopVars, copies, excuses, attempted, deaths>>

QueueMail(m) == SkipMail(m) \/ CreateFile(m) \/ FillFile(m) \/ Accept(m) \/ RefuseMail(m)

-----------------------------------------------------------------------------
(* processPendingMail.                                                     *)

\* The ticker fires: readLocalPendingMails lists the directory.
Tick ==
    /\ loop = "wait"
    /\ loop' = "read"
    /\ entries' = Files
    /\ pending' = {}
    /\ UNCHANGED <<file, sessionVars, current, outcome, taken, historyVars>>

\* Bug: a file that cannot be decoded is taken like any other.
ReadAnyFile(m) ==
    /\ loop = "read" /\ m \in entries
    /\ entries' = entries \ {m}
    /\ pending' = pending \cup {m}
    /\ UNCHANGED <<loop, file, sessionVars, current, outcome, taken, historyVars>>

\* A file that does not decode ends the tick, and nothing is relayed in it.
ReadFile(m) ==
    /\ loop = "read" /\ m \in entries
    /\ IF file[m] = "whole"
       THEN /\ entries' = entries \ {m}
            /\ pending' = pending \cup {m}
            /\ UNCHANGED loop
       ELSE /\ entries' = {} /\ pending' = {}
            /\ loop' = "wait"
    /\ UNCHANGED <<file, sessionVars, current, outcome, taken, historyVars>>

ReadAll ==
    /\ loop = "read" /\ entries = {}
    /\ loop' = "relay"
    /\ UNCHANGED <<file, sessionVars, entries, pending, current, outcome, taken, historyVars>>

\* Bug: a lookup that fails is tried again at once.
LookUpAgain(m) ==
    /\ loop = "relay" /\ m \in pending
    /\ m \in Undeliverable
    /\ UNCHANGED <<file, sessionVars, loop, entries, pending, current, outcome, taken, historyVars>>

\* The next mail of the map, in any order.  Without a host for its domain, or
\* without a connection, it is left for the next tick.
NoServer(m) ==
    /\ loop = "relay" /\ m \in pending
    /\ m \in Undeliverable
    /\ pending' = pending \ {m}
    /\ UNCHANGED <<file, sessionVars, loop, entries, current, outcome, taken, historyVars>>

\* Bug: the mail stays in the map when its relay begins.
RelayAgain(m) ==
    /\ loop = "relay" /\ m \in pending
    /\ m \notin Undeliverable
    /\ current' = m
    /\ loop' = "transfer"
    /\ outcome' = "running" /\ taken' = FALSE
    /\ attempted' = attempted \cup {m}
    /\ UNCHANGED <<file, sessionVars, entries, pending, copies, excuses, deaths, failures>>

Relay(m) ==
    /\ loop = "relay" /\ m \in pending
    /\ m \notin Undeliverable
    /\ pending' = pending \ {m}
    /\ current' = m
    /\ loop' = "transfer"
    /\ outcome' = "running" /\ taken' = FALSE
    /\ attempted' = attempted \cup {m}
    /\ UNCHANGED <<file, sessionVars, entries, copies, excuses, deaths, failures>>

\* The remote server takes the mail.  One that takes it when the relay has already
\* given up might as well have taken it just before.
RemoteTakes ==
    /\ loop = "transfer"
    /\ copies[current] < MaxCopies
    /\ Transfer!Take
    /\ copies' = [copies EXCEPT ![current] = @ + 1]
    /\ UNCHANGED <<file, sessionVars, loop, entries, pending, current, excuses, attempted,
                   deaths, failures>>

RelayEnds ==
    /\ loop = "transfer"
    /\ Transfer!Succeed \/ Transfer!Fail
    /\ outcome' = "panic" => current \in BadTLS
    /\ UNCHANGED <<file, sessionVars, loop, entries, pending, current, historyVars>>

Resume(m) ==
    /\ current' = None
    /\ loop' = "relay"
    /\ UNCHANGED <<sessionVars, entries, pending, outcome, taken, copies, attempted, deaths>>

\* Bug: the file is removed whatever relay returned.
RemoveAnyway ==
    /\ loop = "transfer" /\ outcome \in {"nil", "error"}
    /\ file' = [file EXCEPT ![current] = "none"]
    /\ UNCHANGED <<excuses, failures>>
    /\ Resume(current)

\* Once the mail has been relayed its file is removed.
Remove ==
    /\ loop = "transfer" /\ outcome = "nil"
    /\ file' = [file EXCEPT ![current] = "none"]
    /\ UNCHANGED <<excuses, failures>>
    /\ Resume(current)

\* The relay or the removal failed: the mail is relayed again in the next tick.
Keep ==
    /\ loop = "transfer"
    /\ \/ outcome = "error" /\ UNCHANGED failures
       \/ /\ outcome = "nil" /\ failures < MaxFailure
          /\ failures' = failures + 1
    /\ excuses' = [excuses EXCEPT ![current] = IF taken THEN @ + 1 ELSE @]
    /\ UNCHANGED file
    /\ Resume(current)

EndTick ==
    /\ loop = "relay" /\ pending = {}
    /\ loop' = "wait"
    /\ UNCHANGED <<file, sessionVars, entries, pending, current, outcome, taken, historyVars>>

\* The process dies and is started again; the sessions' clients get no answer.
\* Nothing recovers from a panic of the relay.
Die ==
    /\ outcome = "panic" \/ deaths < MaxDeath
    /\ deaths' = IF outcome = "panic" THEN deaths ELSE deaths + 1
    /\ queue' = [m \in Mail |->
                   IF queue[m] \in {"writing", "written"} THEN "cut off" ELSE queue[m]]
    /\ excuses' = [m \in Mail |-> IF m = current /\ taken THEN excuses[m] + 1 ELSE excuses[m]]
    /\ loop' = "wait"
    /\ entries' = {} /\ pending' = {} /\ current' = None
    /\ outcome' = "running" /\ taken' = FALSE
    /\ UNCHANGED <<noSend, file, copies, attempted, failures>>

ProcessPendingMail ==
    \/ Tick \/ ReadAll \/ EndTick \/ Remove \/ Keep
    \/ \E m \in Mail : ReadFile(m) \/ NoServer(m) \/ Relay(m)

Next ==
    \/ \E m \in Mail : QueueMail(m)
    \/ ProcessPendingMail
    \/ RemoteTakes \/ RelayEnds \/ Die

Spec == Init /\ [][Next]_vars

\* The sessions and the loop run, a relay ends (which it does if the remote answers
\* or goes away: SendMail has no deadline), and a process that panicked is started
\* again.  The order of a Go map is random: no mail comes too late in every tick.
FairSpec ==
    /\ Spec
    /\ \A m \in Mail : WF_vars(QueueMail(m)) /\ SF_vars(Relay(m))
    /\ WF_vars(ProcessPendingMail)
    /\ WF_vars(RelayEnds)
    /\ WF_vars(outcome = "panic" /\ Die)

-----------------------------------------------------------------------------
(* Properties.                                                             *)

Answer == {"start", "writing", "written", "accepted", "refused", "cut off"}

TypeOK ==
    /\ noSend \in BOOLEAN
    /\ file \in [Mail -> {"none", "partial", "whole"}]
    /\ queue \in [Mail -> Answer]
    /\ loop \in {"wait", "read", "relay", "transfer"}
    /\ entries \subseteq Mail /\ pending \subseteq Mail
    /\ current \in Mail \cup {None}
    /\ outcome \in {"running", "nil", "error", "panic"}
    /\ taken \in BOOLEAN
    /\ copies \in [Mail -> Nat] /\ excuses \in [Mail -> Nat]
    /\ attempted \subseteq Mail
    /\ deaths \in Nat /\ failures \in Nat

\* A mail whose client was told 250 is in the directory, completely, until a remote
\* server has taken it, across deaths of the server, failed relays and failed
\* removals (QueueMail, processPendingMail).  Without -no-send, that is, and unless its
\* first line can pass for a command: SendMail may return nil for such a mail though it
\* was not taken.
AcceptedNotLost ==
    ~noSend => \A m \in Mail \ CommandLike :
        queue[m] = "accepted" => file[m] = "whole" \/ copies[m] > 0

\* Only a mail that is completely in the directory is relayed: the file of a mail
\* in the map or in transfer is never half written (readLocalPendingMails).
RelaysWholeMails == \A m \in Mail : m \in pending \/ m = current => file[m] = "whole"

\* A remote server takes a mail again only if a relay after it was taken returned an
\* error, the removal failed, or the server died meanwhile (processPendingMail).
CopiesExcused == \A m \in Mail : copies[m] <= 1 + excuses[m]

\* A mail that is accepted under -no-send is never relayed, nor is any file made for
\* it (QueueMail).
SkippedNotSent == noSend => \A m \in Mail \ Leftover : copies[m] = 0 /\ file[m] = "none"

\* What is known of the mail in transfer: nil means the remote server has taken it,
\* unless the mail begins like a command.
TransferInv ==
    /\ loop = "transfer" <=> current # None
    /\ current \notin pending
    /\ loop = "transfer" =>
         /\ outcome = "nil" => taken \/ current \in CommandLike
         /\ taken => copies[current] > 0

\* What is known of each file: none before QueueMail makes it, partial while WriteFile
\* runs, then whole until the mail is taken; and as many copies as there were
\* excuses, but for the relay that is followed by the removal.
FileFacts(m) ==
    /\ queue[m] = "start" => file[m] = "none"
    /\ queue[m] = "writing" => file[m] = "partial"
    /\ queue[m] = "written" /\ ~noSend =>
         file[m] = "whole" \/ copies[m] > 0 \/ m \in CommandLike
    /\ noSend => queue[m] \notin {"writing", "written"}
    /\ \/ copies[m] <= excuses[m]
       \/ /\ copies[m] = excuses[m] + 1
          /\ \/ file[m] = "none" /\ queue[m] # "start"
             \/ loop = "transfer" /\ current = m /\ taken

FileInv == \A m \in Mail : FileFacts(m)

\* The inductive invariant: all of the above is kept by every step, though the
\* loop and the sessions share the directory without a lock.
PInv ==
    /\ TypeOK /\ TransferInv /\ FileInv
    /\ RelaysWholeMails /\ AcceptedNotLost /\ SkippedNotSent

\* A file that WriteFile did not finish, and never will.
Stuck(m) == file[m] = "partial" /\ queue[m] \in {"refused", "cut off"}

\* Every mail that is accepted and has a server is attempted, across deaths and even
\* though a relay may panic in every tick; unless a half written file stays in the
\* directory (readLocalPendingMails, processPendingMail).
AcceptedIsAttempted ==
    \A m \in Mail \ Undeliverable :
        queue[m] = "accepted" /\ ~noSend ~> m \in attempted \/ \E n \in Mail : Stuck(n)

\* "For now we loop over each pending mail and attempt to send it"
\* (packages/smtp/server.go:150).
PendingIsAttempted ==
    \A m \in Mail \ Undeliverable : file[m] = "whole" ~> m \in attempted
=============================================================================
