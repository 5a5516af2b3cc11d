---------------------------- MODULE SMTPSession ----------------------------
(***************************************************************************)
(* One connection of the SMTP server, as ServerSession of lib/smtp/session *)
(* serves it: on the inbound port (other servers deliver mails to our      *)
(* domain) or on the send port (our users submit mails).                   *)
(*                                                                         *)
(* The client may send anything at any time, so input holds what the       *)
(* server has not read yet; a client that pipelines fills it while a       *)
(* command is handled or a TLS handshake is due.  One goroutine serves the *)
(* connection, so reading a line and handling it is one action; reading    *)
(* the lines of a mail and the TLS handshake, which wait for the client,   *)
(* are actions of their own.                                               *)
(*                                                                         *)
(* The handler (the SMTP server behind the session) is the environment:    *)
(* SPF, the password check, the pending queue and the maildir may answer   *)
(* in any of the ways they can.                                            *)
(***************************************************************************)
EXTENDS Naturals, Sequences

CONSTANTS
    Accounts,     \* addresses of our domain that IsValidUser knows
    Strangers,    \* addresses of our domain without an account
    Foreign,      \* addresses of other domains
    NoArg,        \* a command without its argument
    NoColon,      \* the argument of MAIL or RCPT without a ":"
    NoAt,         \* an address without an "@", as the null reverse-path <>
    None,         \* no transaction, recipient, user, reply or mail
    MaxErrors,    \* consecutive failures at which the connection is dropped (10)
    MaxLines,     \* lines a mail may have (64000 octets in the code)
    MaxInput,     \* bound: lines the client sends ahead
    MaxMails      \* bound: no MAIL is sent after that many transactions

Ours == Accounts \cup Strangers
Address == Ours \cup Foreign
AuthFlaw == {"unknown_mechanism", "no_data", "undecodable", "wrong_password"}

FailureCode == {500, 502, 503, 530, 535, 538, 550, 554}
Code == FailureCode \cup {220, 221, 235, 250, 354, 421, 552}

ASSUME SMTPAssumption ==
    /\ Accounts \cap Strangers = {} /\ Ours \cap Foreign = {}
    /\ {NoArg, NoColon, NoAt, None} \cap Address = {}
    /\ AuthFlaw \cap (Address \cup {NoArg}) = {}
    /\ NoArg # NoColon /\ NoArg # NoAt /\ NoColon # NoAt
    /\ None \notin Code
    /\ MaxErrors \in Nat \ {0} /\ MaxLines \in Nat \ {0}
    /\ MaxInput \in Nat /\ MaxMails \in Nat

VARIABLES
    serverType,         \* "inbound" or "send"
    link,               \* "up", or "broken" once the client is gone
    input,              \* lines sent and not yet read, each with whether TLS carried it
    phase,              \* where serve is
    tls,                \* conn.isTLSSessionActive
    state,              \* ServerSessionFresh or ServerSessionReady
    activeTx,           \* the mail transaction in progress, or None
    authedUser,
    consecutiveErrors,
    size,               \* lines of mail data read so far
    reply,              \* the reply the last step sent, or None
    handed,             \* history: the last mail given to the handler, and its fate
    opened,             \* history: how many MAILs were accepted
    over                \* history: the transactions that must give no (more) mail away

historyVars == <<handed, opened, over>>
sessionVars == <<tls, state, activeTx, authedUser>>
vars == <<serverType, link, input, phase, sessionVars, consecutiveErrors, size,
          reply, historyVars>>

\* A transaction with the evidence it was accepted on: the result of SPF, and
\* whether MAIL came over TLS.  The id tells it from the others of the session.
MailTransaction == [id : Nat, from : Address, to : Address \cup {None},
                    spf : BOOLEAN, secure : BOOLEAN]
Fate == {"stored", "not_stored", "queued", "skipped", "refused"}
Handed == [mail : MailTransaction, fate : Fate]

\* What a client may send.  "line", "end" and "garbled" are lines of a mail: an
\* ordinary one, one followed by the final dot, one ReadDataLine cannot read.
Line == [verb : {"EHLO", "QUIT", "DATA", "STARTTLS", "line", "end", "garbled"},
         arg : {NoArg}]
        \cup [verb : {"MAIL", "RCPT"}, arg : Address \cup {NoArg, NoColon, NoAt}]
        \cup [verb : {"AUTH"}, arg : Accounts \cup AuthFlaw \cup {NoArg}]

Init ==
    /\ serverType \in {"inbound", "send"}
    /\ link = "up"
    /\ input = <<>>
    /\ phase = "greeting"
    /\ tls = FALSE
    /\ state = "fresh"
    /\ activeTx = None
    /\ authedUser = None
    /\ consecutiveErrors = 0
    /\ size = 0
    /\ reply = None
    /\ handed = None /\ opened = 0 /\ over = {}

-----------------------------------------------------------------------------
(* Replies.                                                                *)

Counted(code) == IF code \in FailureCode THEN consecutiveErrors + 1 ELSE 0

\* The write succeeds while the client is there.
Sent(code) ==
    reply' = IF link = "up" THEN code ELSE None

\* A handler that calls Reply.  At the limit Reply returns a ReplyError 421
\* instead, which serve answers with: 421 is no failure, so the count restarts.
Reply(code) ==
    IF Counted(code) < MaxErrors
    THEN /\ Sent(code)
         /\ consecutiveErrors' = Counted(code)
         /\ phase' = "command"
    ELSE /\ Sent(421)
         /\ consecutiveErrors' = 0
         /\ phase' = IF link = "up" THEN "closed" ELSE "command"

\* Bug: the limit is checked before the failure is counted.
ReplyErrorLate(code) ==
    IF consecutiveErrors < MaxErrors
    THEN /\ Sent(code)
         /\ consecutiveErrors' = Counted(code)
         /\ phase' = IF code \in {221, 421} /\ link = "up" THEN "closed" ELSE "command"
    ELSE /\ Sent(421)
         /\ consecutiveErrors' = Counted(code)
         /\ phase' = "closed"

\* A handler that returns a ReplyError: serve replies, and at the limit sends
\* 421 as it is and closes.
ReplyError(code) ==
    IF Counted(code) < MaxErrors
    THEN /\ Sent(code)
         /\ consecutiveErrors' = Counted(code)
         /\ phase' = IF code \in {221, 421} /\ link = "up" THEN "closed" ELSE "command"
    ELSE /\ Sent(421)
         /\ consecutiveErrors' = Counted(code)
         /\ phase' = "closed"

\* Any other error is only logged.
LogOnly ==
    /\ reply' = None
    /\ phase' = "command"
    /\ UNCHANGED consecutiveErrors

\* serve recovers, and its deferred Stop closes the connection.
Panic ==
    /\ reply' = None
    /\ phase' = "closed"
    /\ UNCHANGED consecutiveErrors

-----------------------------------------------------------------------------
(* The client: another server or a user's mail program.                    *)

Send ==
    /\ link = "up" /\ phase # "closed"
    /\ Len(input) < MaxInput
    /\ \E line \in Line :
       /\ line.verb = "MAIL" => opened < MaxMails
       /\ input' = Append(input, [verb |-> line.verb, arg |-> line.arg, secure |-> tls])
    /\ reply' = None
    /\ UNCHANGED <<serverType, link, phase, sessionVars, consecutiveErrors, size, historyVars>>

Hangup ==
    /\ link = "up" /\ phase # "closed"
    /\ link' = "broken"
    /\ reply' = None
    /\ UNCHANGED <<serverType, input, phase, sessionVars, consecutiveErrors, size, historyVars>>

-----------------------------------------------------------------------------
(* The commands.                                                           *)

\* serve reads a line and handleCommand selects the handler.
Read(verbs) ==
    /\ phase = "command"
    /\ input # <<>> /\ Head(input).verb \in verbs
    /\ input' = Tail(input)
    /\ UNCHANGED <<serverType, link, handed>>

\* The session is greeted; if that fails, shuttingDown fails too.
Greet ==
    /\ phase = "greeting"
    /\ Sent(220)
    /\ phase' = IF link = "up" THEN "command" ELSE "closed"
    /\ UNCHANGED <<serverType, link, input, sessionVars, consecutiveErrors, size,
                   historyVars>>

ExtendedHello ==
    /\ Read({"EHLO"})
    /\ state' = IF serverType = "inbound" THEN "ready" ELSE state
    /\ Reply(250)
    /\ UNCHANGED <<tls, activeTx, authedUser, size, opened, over>>

\* The extensions EHLO announces.
Extensions ==
    {ext \in {"STARTTLS", "AUTH"} :
        IF ext = "STARTTLS" THEN ~tls
        ELSE serverType = "send" /\ tls /\ state # "ready"}

Quit ==
    /\ Read({"QUIT"})
    /\ ReplyError(221)
    /\ UNCHANGED <<sessionVars, size, opened, over>>

\* A verb the server does not know, which a stray line of a mail is too.  A
\* line that is too long for Read ends the session.
Unknown ==
    /\ Read({"line", "end", "garbled"})
    /\ \/ Reply(502)
       \/ /\ Head(input).verb = "garbled"
          /\ Sent(221)
          /\ consecutiveErrors' = 0
          /\ phase' = "closed"
    /\ UNCHANGED <<sessionVars, size, opened, over>>

AuthMissing == serverType = "send" /\ authedUser = None

\* MAIL is refused, or fails, before a transaction begins.
MailRejected(from) ==
    \/ AuthMissing /\ ReplyError(530)
    \/ /\ ~AuthMissing
       /\ \/ from = NoArg /\ Reply(500)
          \/ from = NoColon /\ Panic
          \/ from \notin {NoArg, NoColon} /\ activeTx # None /\ ReplyError(503)
          \/ from = NoAt /\ activeTx = None /\ Panic
          \/ /\ from \in Address /\ activeTx = None
             /\ \/ serverType = "inbound" /\ from \in Ours /\ ReplyError(550)
                \/ serverType = "send" /\ from \in Foreign /\ ReplyError(550)

\* Bug: a result of SPF that is no explicit fail passes.
SPFLenient(result) == result \notin {"error", "panic"}

\* VerifySPFHost passes, gives another result, fails, or panics: see SPF.
SPFPasses(result) == result = "pass"

MailOpened(from, spf) ==
    /\ activeTx' = [id |-> opened + 1, from |-> from, to |-> None, spf |-> spf, secure |-> tls]
    /\ opened' = opened + 1
    /\ Reply(250)

\* The transaction is made before SPF is asked, but kept only if it passes.
MailVerified(from) ==
    /\ ~AuthMissing /\ from \in Address /\ activeTx = None
    /\ \/ /\ serverType = "inbound" /\ from \in Foreign
          /\ \E result \in {"pass", "no_pass", "error", "panic"} :
               IF SPFPasses(result) THEN MailOpened(from, result = "pass")
               ELSE /\ \/ result = "no_pass" /\ ReplyError(550)
                       \/ result = "error" /\ LogOnly
                       \/ result = "panic" /\ Panic
                    /\ UNCHANGED <<activeTx, opened>>
       \/ serverType = "send" /\ from \in Ours /\ MailOpened(from, FALSE)

Mail ==
    /\ Read({"MAIL"})
    /\ \/ MailRejected(Head(input).arg) /\ UNCHANGED <<activeTx, opened>>
       \/ MailVerified(Head(input).arg)
    /\ UNCHANGED <<tls, state, authedUser, size, over>>

\* Bug: a recipient that is refused ends the reply and not the transaction.
KeepTx(to) == [activeTx EXCEPT !.to = to]

\* A refused recipient ends the whole transaction.
DropTx(to) == None

\* What is over once the transaction in progress, if there is one, is.
Ended == over \cup (IF activeTx = None THEN {} ELSE {activeTx.id})

\* Bug: the error of a refused recipient is returned as a plain one.
NameRecipientSilently(to) ==
    IF \/ serverType = "inbound" /\ to \in Foreign
       \/ to \in Strangers
    THEN activeTx' = DropTx(to) /\ over' = Ended /\ LogOnly
    ELSE activeTx' = [activeTx EXCEPT !.to = to] /\ UNCHANGED over /\ Reply(250)

\* The recipient replaces the one before, and is checked only once it is set.
NameRecipient(to) ==
    IF \/ serverType = "inbound" /\ to \in Foreign
       \/ to \in Strangers
    THEN activeTx' = DropTx(to) /\ over' = Ended /\ ReplyError(550)
    ELSE activeTx' = [activeTx EXCEPT !.to = to] /\ UNCHANGED over /\ Reply(250)

\* RCPT is refused, or panics, before it names a recipient.
RecipientRejected(to) ==
    \/ AuthMissing /\ ReplyError(530)
    \/ /\ ~AuthMissing
       /\ \/ to = NoArg /\ ReplyError(500)
          \/ to # NoArg /\ activeTx = None /\ ReplyError(503)
          \/ to \in {NoColon, NoAt} /\ activeTx # None /\ Panic

Recipient ==
    /\ Read({"RCPT"})
    /\ LET to == Head(input).arg IN
       \/ RecipientRejected(to) /\ UNCHANGED <<activeTx, over>>
       \/ ~AuthMissing /\ to \in Address /\ activeTx # None /\ NameRecipient(to)
    /\ UNCHANGED <<tls, state, authedUser, size, opened>>

\* DATA does not ask for a transaction, nor for a recipient; whether the 354
\* could be sent is ignored.
Data ==
    /\ Read({"DATA"})
    /\ IF AuthMissing
       THEN ReplyError(530) /\ UNCHANGED size
       ELSE /\ Sent(354)
            /\ consecutiveErrors' = 0
            /\ phase' = "data"
            /\ size' = 0
    /\ UNCHANGED <<sessionVars, opened, over>>

\* ReadDataLine: whatever is sent is a line of the mail now.
ReadDataLine ==
    /\ phase = "data" /\ input # <<>>
    /\ input' = Tail(input)
    /\ UNCHANGED <<serverType, link, tls, state, authedUser, opened>>

DataLine ==
    /\ ReadDataLine
    /\ Head(input).verb \notin {"end", "garbled"}
    /\ size < MaxLines
    /\ size' = size + 1
    /\ reply' = None
    /\ UNCHANGED <<phase, activeTx, consecutiveErrors, handed, over>>

\* The rest of the mail stays in input, to be read as commands.
TooMuchData ==
    /\ ReadDataLine
    /\ Head(input).verb # "garbled"
    /\ size = MaxLines
    /\ activeTx' = None
    /\ over' = Ended
    /\ ReplyError(552)
    /\ UNCHANGED <<size, handed>>

GarbledLine ==
    /\ ReadDataLine
    /\ Head(input).verb = "garbled"
    /\ LogOnly
    /\ UNCHANGED <<activeTx, size, handed, over>>

\* What StoreLocalMail or QueueMail can make of a mail: local mails are stored or
\* not, the others written to pending-mails, refused by an error, or skipped under
\* -no-send.  The session is told of refusals only.
Fates(mail) ==
    IF mail.to \in Ours THEN {"stored", "not_stored"}
    ELSE {"queued", "refused", "skipped"}

\* Bug: the answer does not look at the error of QueueMail.
AlwaysAccepted(fate) == 250

DataAnswer(fate) == IF fate = "refused" THEN 554 ELSE 250

\* Bug: the transaction stays when its mail is given away.
TxAfterData(mail) == mail

\* A transaction is over once its data is complete.
TxAfter(mail) == None

EndOfData ==
    /\ ReadDataLine
    /\ Head(input).verb = "end"
    /\ size < MaxLines
    /\ IF activeTx = None
       THEN Panic /\ UNCHANGED <<activeTx, handed, over>>
       ELSE \E fate \in Fates(activeTx) :
              /\ handed' = [mail |-> activeTx, fate |-> fate]
              /\ over' = Ended
              /\ activeTx' = TxAfter(activeTx)
              /\ Reply(DataAnswer(fate))
    /\ UNCHANGED size

StartTLS ==
    /\ Read({"STARTTLS"})
    /\ IF tls
       THEN Reply(503)
       ELSE /\ Sent(220)
            /\ consecutiveErrors' = 0
            /\ phase' = IF link = "up" THEN "handshake" ELSE "command"
    /\ UNCHANGED <<sessionVars, size, opened, over>>

\* Bug: the connection keeps its transaction and its reader.
UpgradeInPlace ==
    /\ phase = "handshake" /\ link = "up"
    /\ tls' = TRUE
    /\ state' = "fresh"
    /\ reply' = None
    /\ phase' = "command"
    /\ UNCHANGED <<serverType, link, input, activeTx, authedUser, consecutiveErrors, size,
                   historyVars>>

\* The new reader knows nothing of what the old one had read ahead, and the
\* transaction starts over; the user and the count of errors stay.
UpgradeToTLS ==
    /\ phase = "handshake" /\ link = "up"
    /\ tls' = TRUE
    /\ input' = <<>>
    /\ state' = "fresh"
    /\ activeTx' = None
    /\ over' = Ended
    /\ reply' = None
    /\ phase' = "command"
    /\ UNCHANGED <<serverType, link, authedUser, consecutiveErrors, size, handed, opened>>

\* The client is gone or late, its bytes are no handshake, or the server has no
\* certificate: UpgradeToTLS panics.
HandshakeFails ==
    /\ phase = "handshake"
    /\ Panic
    /\ UNCHANGED <<serverType, link, input, sessionVars, size, historyVars>>

AuthRejected(arg) ==
    \/ authedUser # None /\ ReplyError(503)
    \/ /\ authedUser = None
       /\ \/ ~tls /\ ReplyError(538)
          \/ /\ tls
             /\ \/ arg \in {NoArg, "no_data"} /\ ReplyError(500)
                \/ arg = "unknown_mechanism" /\ ReplyError(550)
                \/ arg = "undecodable" /\ LogOnly
                \/ arg = "wrong_password" /\ ReplyError(535)

\* Bug: the session is not made ready.
AuthForgotten(user) ==
    /\ authedUser = None /\ tls
    /\ authedUser' = user
    /\ UNCHANGED state
    /\ Reply(235)

Authenticate(user) ==
    /\ authedUser = None /\ tls
    /\ authedUser' = user
    /\ state' = "ready"
    /\ Reply(235)

Auth ==
    /\ Read({"AUTH"})
    /\ \/ AuthRejected(Head(input).arg) /\ UNCHANGED <<authedUser, state>>
       \/ Head(input).arg \in Accounts /\ Authenticate(Head(input).arg)
    /\ UNCHANGED <<tls, activeTx, size, opened, over>>

\* Bug: a reader that fails inside a mail is asked again.
RetryData ==
    /\ phase = "data" /\ input = <<>>
    /\ reply' = None
    /\ UNCHANGED <<phase, consecutiveErrors>>

\* The reader fails inside a mail: the error is logged like any other.
DataFails ==
    /\ phase = "data" /\ input = <<>>
    /\ LogOnly

\* Nothing to read within the deadline of ten seconds, or no client.
ReadFails ==
    /\ \/ DataFails
       \/ /\ phase = "command" /\ input = <<>>
          /\ Sent(221)
          /\ consecutiveErrors' = 0
          /\ phase' = "closed"
    /\ UNCHANGED <<serverType, link, input, sessionVars, size, historyVars>>

Serve ==
    \/ Greet \/ ExtendedHello \/ Quit \/ Unknown \/ Mail \/ Recipient
    \/ Data \/ DataLine \/ TooMuchData \/ GarbledLine \/ EndOfData
    \/ StartTLS \/ UpgradeToTLS \/ HandshakeFails \/ Auth \/ ReadFails

Next == Serve \/ Send \/ Hangup

Spec == Init /\ [][Next]_vars

\* The goroutine of the session runs, and every read and handshake it waits in
\* ends: by what the client sends, or by the deadline.
FairSpec == Spec /\ WF_vars(Serve)

-----------------------------------------------------------------------------
(* Properties.                                                             *)

TypeOK ==
    /\ serverType \in {"inbound", "send"}
    /\ link \in {"up", "broken"}
    /\ input \in Seq([verb : {l.verb : l \in Line}, arg : {l.arg : l \in Line},
                      secure : BOOLEAN])
    /\ phase \in {"greeting", "command", "data", "handshake", "closed"}
    /\ tls \in BOOLEAN
    /\ state \in {"fresh", "ready"}
    /\ activeTx \in MailTransaction \cup {None}
    /\ authedUser \in Accounts \cup {None}
    /\ consecutiveErrors \in Nat
    /\ size \in Nat
    /\ reply \in Code \cup {None}
    /\ handed \in Handed \cup {None}
    /\ opened \in Nat /\ over \subseteq Nat

\* A user's mail is taken only from a user who authenticated over TLS, under an
\* address of our domain; another server's only if SPF passed for an address of
\* another domain.  Holds for the transaction in progress and for every mail
\* that reached StoreLocalMail or QueueMail (handleMail, HandleAuth, requireAuth).
Vouched(mail) ==
    IF serverType = "send"
    THEN authedUser # None /\ tls /\ mail.secure /\ mail.from \in Ours
    ELSE mail.spf /\ mail.from \in Foreign
SenderVouched ==
    /\ activeTx # None => Vouched(activeTx)
    /\ handed # None => Vouched(handed.mail)

\* A mail for our domain is only given to StoreLocalMail for an account that
\* exists, and the inbound port never queues a mail to another domain, however
\* often RCPT named or failed to name a recipient before (handleRecipient).
Deliverable(mail) ==
    mail.to \in Accounts \cup {None} \cup (IF serverType = "send" THEN Foreign ELSE {})
RecipientKnown ==
    /\ activeTx # None => Deliverable(activeTx)
    /\ handed # None => Deliverable(handed.mail)

\* Nothing sent before the handshake is acted on after it: neither lines read
\* ahead nor a transaction begun in the clear (UpgradeToTLS).
TLSStartsOver ==
    tls => /\ \A i \in 1 .. Len(input) : input[i].secure
           /\ activeTx # None => activeTx.secure

\* A transaction gives at most one mail away, and none once a recipient of it was
\* refused, its data was too long, or TLS began: the transaction that the next data
\* would be given away with is never one of those (handleData, handleRecipient,
\* UpgradeToTLS).
MailGivenOnce == activeTx # None => activeTx.id \notin over

\* A session that still reads has counted fewer failures than the limit: there
\* is no path from a reply to the next command around the check of Reply
\* (Reply, serve).
FailuresBelowLimit == phase # "closed" => consecutiveErrors < MaxErrors

\* EHLO announces AUTH only while AUTH can succeed, on the send port always then:
\* state, which decides what is announced, agrees with authedUser and tls, which
\* decide what is accepted (handleExtendedHello, HandleAuth).  On the inbound port AUTH
\* is accepted over TLS too, though it is never announced.
CanAuthenticate == tls /\ authedUser = None
AuthOfferHonoured ==
    /\ "AUTH" \in Extensions => CanAuthenticate
    /\ serverType = "send" /\ CanAuthenticate => "AUTH" \in Extensions

\* The lines that serve answers nothing to, and the connection stays: the lookup for
\* SPF fails, credentials that are no base64, a line of a mail that cannot be read.
ErrorOfItsOwn(line) ==
    \/ line.verb = "MAIL" /\ serverType = "inbound" /\ line.arg \in Foreign /\ activeTx = None
    \/ line.verb = "AUTH" /\ line.arg = "undecodable" /\ CanAuthenticate
    \/ line.verb = "garbled" /\ phase = "data"

\* The lines that end in a panic: an address without the ":" or the "@" that the code
\* indexes, the panic of an SPF record, and data without a transaction.
CanPanic(line) ==
    \/ /\ ~AuthMissing
       /\ \/ line.verb = "MAIL" /\ line.arg = NoColon
          \/ line.verb = "MAIL" /\ line.arg = NoAt /\ activeTx = None
          \/ /\ line.verb = "MAIL" /\ serverType = "inbound"
             /\ line.arg \in Foreign /\ activeTx = None
          \/ line.verb = "RCPT" /\ line.arg \in {NoColon, NoAt} /\ activeTx # None
    \/ line.verb = "end" /\ phase = "data" /\ activeTx = None

\* A client that is still there gets an answer to every command, and to every mail
\* once its lines are read, but for exactly the lines above; after a panic it is not
\* left waiting, for the connection is closed (serve, handleData).
CommandAnswered ==
    [][/\ phase \in {"command", "data"} /\ input # <<>> /\ input' = Tail(input)
       /\ ~(phase = "data" /\ phase' = "data")
       /\ link = "up" /\ reply' = None
       => \/ ErrorOfItsOwn(Head(input)) /\ phase' = "command"
          \/ CanPanic(Head(input)) /\ phase' = "closed"]_vars

\* The client is told 250 for a mail only if the mail of the transaction was taken by
\* the handler in this very step, and by QueueMail without an error (handleData).
AcceptedMeansTaken ==
    [][phase = "data" /\ reply' = 250 =>
       /\ activeTx # None /\ over' = over \cup {activeTx.id}
       /\ handed'.mail = activeTx
       /\ handed'.fate # "refused"]_vars

\* The session of a client that is gone ends: no loop of serve or handleData waits
\* for it beyond the deadline (ExtendDeadline).
GoneClientIsClosed == link = "broken" ~> phase = "closed"

\* "We will only handle inbound mails to our domain" (server_session.go:289).
InboundToOurDomain ==
    serverType = "inbound" /\ handed # None => handed.mail.to \in Ours
=============================================================================
