-------------------------- MODULE SMTPSession_proofs --------------------------
(***************************************************************************)
(* Theorems about SMTPSession for every set of addresses, every limit of   *)
(* failures and of mail data, and any number of lines sent ahead.          *)
(*                                                                         *)
(* The invariants of the session are inductive together, once it is added  *)
(* that a user is authenticated over TLS only and a handshake is due only  *)
(* in the clear (LoginsOverTLS), and that no transaction is over before it *)
(* was opened (Numbered).  A step is proved from what it does to the reply *)
(* and the count of failures (Answered), to the lines read ahead (Ahead)   *)
(* and to the transaction.                                                 *)
(***************************************************************************)
EXTENDS SMTPSession, TLAPS

\* What UpgradeToTLS relies on when it keeps the user and makes the session fresh.
LoginsOverTLS ==
    /\ authedUser # None => tls
    /\ phase = "handshake" => ~tls

\* On the send port the session is ready as soon as a user is known.
ReadyIsAuthed ==
    serverType = "send" /\ tls => (state = "ready" <=> authedUser # None)

\* A transaction has the number of its MAIL, so a new one is not over.
Numbered ==
    /\ over \subseteq 1 .. opened
    /\ activeTx # None => activeTx.id \in 1 .. opened

Inv ==
    /\ TypeOK /\ LoginsOverTLS /\ ReadyIsAuthed /\ Numbered
    /\ SenderVouched /\ RecipientKnown /\ TLSStartsOver
    /\ MailGivenOnce /\ FailuresBelowLimit

SentLine == [verb : {l.verb : l \in Line}, arg : {l.arg : l \in Line}, secure : BOOLEAN]

\* What every step leaves behind it, whatever it says.
Answered ==
    /\ reply' \in Code \cup {None}
    /\ consecutiveErrors' \in Nat
    /\ phase' \in {"greeting", "command", "data", "handshake", "closed"}
    /\ phase' # "closed" => consecutiveErrors' < MaxErrors

\* The lines read ahead, after a step.
Ahead ==
    /\ link' \in {"up", "broken"}
    /\ input' \in Seq(SentLine)
    /\ tls => \A i \in 1 .. Len(input') : input'[i].secure

-----------------------------------------------------------------------------
(* Replies and lines.                                                      *)

LEMMA Codes == FailureCode \subseteq Code /\ {220, 221, 235, 250, 354, 421, 552} \subseteq Code
BY DEF Code

LEMMA SentType ==
    ASSUME NEW code \in Code, Sent(code)
    PROVE  reply' \in Code \cup {None}
BY DEF Sent

LEMMA ReplyAnswers ==
    ASSUME Inv, NEW code \in Code, Reply(code) \/ ReplyError(code)
    PROVE  Answered /\ phase' \in {"command", "closed"}
<1>1. consecutiveErrors \in Nat /\ MaxErrors \in Nat \ {0} /\ 421 \in Code
    BY SMTPAssumption, Codes DEF Inv, TypeOK
<1>2. Counted(code) \in Nat
    BY <1>1 DEF Counted
<1> QED
    BY <1>1, <1>2, SentType DEF Reply, ReplyError, Answered

LEMMA SilenceAnswers ==
    ASSUME Inv, LogOnly \/ Panic, phase # "closed"
    PROVE  Answered /\ phase' \in {"command", "closed"}
BY DEF Inv, TypeOK, FailuresBelowLimit, LogOnly, Panic, Answered

LEMMA SameAhead == ASSUME Inv, input' = input, link' = link PROVE Ahead
BY DEF Inv, TypeOK, TLSStartsOver, Ahead, SentLine

LEMMA LineRead ==
    ASSUME Inv, input # <<>>, input' = Tail(input), link' = link
    PROVE  Ahead
<1>1. input \in Seq(SentLine)
    BY DEF Inv, TypeOK, SentLine
<1>2. \A i \in 1 .. Len(input') : i + 1 \in 1 .. Len(input) /\ input'[i] = input[i + 1]
    BY <1>1
<1> QED
    BY <1>1, <1>2 DEF Inv, TypeOK, TLSStartsOver, Ahead

LEMMA LineSent ==
    ASSUME Inv, Send
    PROVE  Ahead
<1>1. PICK line \in Line :
          input' = Append(input, [verb |-> line.verb, arg |-> line.arg, secure |-> tls])
    BY DEF Send
<1>2. [verb |-> line.verb, arg |-> line.arg, secure |-> tls] \in SentLine
    BY DEF Inv, TypeOK, SentLine
<1>3. input \in Seq(SentLine)
    BY DEF Inv, TypeOK, SentLine
<1>4. Len(input') = Len(input) + 1 /\ input' \in Seq(SentLine)
    BY <1>1, <1>2, <1>3
<1>5. \A i \in 1 .. Len(input') : i = Len(input) + 1 \/ i \in 1 .. Len(input)
    BY <1>3, <1>4
<1> QED
    BY <1>1, <1>2, <1>3, <1>4, <1>5 DEF Send, Inv, TypeOK, TLSStartsOver, Ahead

-----------------------------------------------------------------------------
(* Invariants.                                                             *)

LEMMA InitInv == Init => Inv
<1>1. ASSUME Init PROVE Len(input) = 0 /\ input \in Seq(SentLine)
    BY <1>1 DEF Init
<1>2. 0 < MaxErrors /\ 0 \in Nat
    BY SMTPAssumption
<1>3. Init => TypeOK
    BY <1>1, <1>2 DEF Init, TypeOK, SentLine
<1>4. Init => TLSStartsOver
    BY <1>1 DEF Init, TLSStartsOver
<1>5. Init => Numbered /\ MailGivenOnce /\ FailuresBelowLimit
    BY <1>2 DEF Init, Numbered, MailGivenOnce, FailuresBelowLimit
<1>6. Init => LoginsOverTLS /\ ReadyIsAuthed /\ SenderVouched /\ RecipientKnown
    BY DEF Init, LoginsOverTLS, ReadyIsAuthed, SenderVouched, RecipientKnown
<1> QED
    BY <1>3, <1>4, <1>5, <1>6 DEF Inv

\* A step that leaves TLS, the user, the transaction and the mails given alone.
LEMMA QuietStep ==
    ASSUME Inv, Answered, Ahead,
           UNCHANGED <<serverType, tls, authedUser, activeTx, handed, opened, over>>,
           size' \in Nat, phase' = "handshake" => ~tls,
           state' = state \/ (state' = "ready" /\ serverType = "inbound")
    PROVE  Inv'
BY DEF Inv, TypeOK, LoginsOverTLS, ReadyIsAuthed, SenderVouched, Vouched,
   RecipientKnown, Deliverable, TLSStartsOver, Numbered, MailGivenOnce, FailuresBelowLimit,
   Answered, Ahead, SentLine

\* Only transactions that were opened end.
LEMMA EndedWereOpened ==
    ASSUME Inv
    PROVE  Ended \subseteq 1 .. opened /\ Ended \subseteq Nat
<1>1. 1 .. opened \subseteq Nat /\ over \subseteq 1 .. opened
    BY DEF Inv, TypeOK, Numbered
<1>2. CASE activeTx = None
    BY <1>1, <1>2 DEF Ended
<1>3. CASE activeTx # None
    <2>1. activeTx.id \in 1 .. opened
        BY <1>3 DEF Inv, Numbered
    <2>2. Ended = over \cup {activeTx.id}
        BY <1>3 DEF Ended
    <2> QED
        BY <1>1, <2>1, <2>2
<1> QED
    BY <1>2, <1>3

\* The transaction, if there is one, ends and gives nothing away.
LEMMA TxDropped ==
    ASSUME Inv, Answered, Ahead, activeTx' = None, over' = Ended,
           UNCHANGED <<serverType, tls, authedUser, state, handed, opened>>,
           size' \in Nat, phase' = "handshake" => ~tls
    PROVE  Inv'
<1>1. over' \subseteq 1 .. opened /\ over' \subseteq Nat
    BY EndedWereOpened
<1> QED
    BY <1>1 DEF Inv, TypeOK, LoginsOverTLS, ReadyIsAuthed, SenderVouched, Vouched,
       RecipientKnown, Deliverable, TLSStartsOver, Numbered, MailGivenOnce,
       FailuresBelowLimit, Answered, Ahead, SentLine

LEMMA CommandInv ==
    ASSUME Inv, ExtendedHello \/ Quit \/ Unknown \/ Data \/ StartTLS
    PROVE  Inv'
<1>1. PICK verbs : Read(verbs)
    BY DEF ExtendedHello, Quit, Unknown, Data, StartTLS
<1>2. Ahead /\ UNCHANGED <<serverType, handed, over>>
    BY <1>1, LineRead DEF Read, ExtendedHello, Quit, Unknown, Data, StartTLS
<1>3. size \in Nat /\ MaxErrors \in Nat \ {0}
    BY SMTPAssumption DEF Inv, TypeOK
<1>4. CASE ExtendedHello
    BY <1>2, <1>3, <1>4, Codes, ReplyAnswers, QuietStep DEF ExtendedHello
<1>5. CASE Quit
    BY <1>2, <1>3, <1>5, Codes, ReplyAnswers, QuietStep DEF Quit, sessionVars
<1>6. CASE Unknown
    <2>1. Answered /\ phase' \in {"command", "closed"}
        BY <1>3, <1>6, Codes, ReplyAnswers, SentType DEF Unknown, Answered, FailureCode
    <2> QED
        BY <1>2, <1>3, <1>6, <2>1, QuietStep DEF Unknown, sessionVars
<1>7. CASE Data
    <2>1. Answered /\ phase' \in {"command", "closed", "data"}
        BY <1>3, <1>7, Codes, ReplyAnswers, SentType DEF Data, Answered, FailureCode
    <2> QED
        BY <1>2, <1>3, <1>7, <2>1, QuietStep DEF Data, sessionVars
<1>8. CASE StartTLS
    <2>1. Answered /\ (phase' = "handshake" => ~tls)
        BY <1>3, <1>8, Codes, ReplyAnswers, SentType DEF StartTLS, Answered, FailureCode
    <2> QED
        BY <1>2, <1>3, <1>8, <2>1, QuietStep DEF StartTLS, sessionVars
<1> QED
    BY <1>4, <1>5, <1>6, <1>7, <1>8

\* MAIL opens a transaction whose sender is vouched for, or changes nothing.
LEMMA MailInv == ASSUME Inv, Mail PROVE Inv'
<1>1. Ahead /\ UNCHANGED <<serverType, handed, over, tls, state, authedUser, size>>
    BY LineRead DEF Mail, Read
<1>2. phase = "command"
    BY DEF Mail, Read
<1>3. CASE UNCHANGED <<activeTx, opened>>
    <2>1. Answered /\ phase' \in {"command", "closed"}
        BY <1>2, Codes, ReplyAnswers, SilenceAnswers
        DEF Mail, MailRejected, MailVerified, MailOpened, FailureCode
    <2> QED
        BY <1>1, <1>3, <2>1, QuietStep DEF Inv, TypeOK
<1>4. ASSUME NEW from, ~AuthMissing, from \in Address, activeTx = None,
             \/ serverType = "inbound" /\ from \in Foreign /\ MailOpened(from, TRUE)
             \/ serverType = "send" /\ from \in Ours /\ MailOpened(from, FALSE)
      PROVE  Inv'
    <2>1. Answered /\ phase' \in {"command", "closed"}
        BY <1>4, Codes, ReplyAnswers DEF MailOpened
    <2>2. PICK spf \in BOOLEAN :
              /\ activeTx' = [id |-> opened + 1, from |-> from, to |-> None, spf |-> spf,
                             secure |-> tls]
              /\ opened' = opened + 1
              /\ serverType = "inbound" => spf /\ from \in Foreign
              /\ serverType = "send" => from \in Ours /\ authedUser # None
        BY <1>4 DEF MailOpened, AuthMissing
    <2>3. activeTx' \in MailTransaction
        BY <1>4, <2>2 DEF MailTransaction, Inv, TypeOK
    <2>4. Vouched(activeTx)' /\ Deliverable(activeTx)' /\ (tls => activeTx'.secure)
        BY <1>1, <2>2 DEF Vouched, Deliverable, Inv, TypeOK, LoginsOverTLS
    <2>5. (handed # None => Vouched(handed.mail) /\ Deliverable(handed.mail))'
        BY <1>1 DEF Inv, SenderVouched, RecipientKnown, Vouched, Deliverable
    <2>6. Numbered' /\ MailGivenOnce' /\ opened' \in Nat
        BY <1>1, <2>2 DEF Inv, TypeOK, Numbered, MailGivenOnce
    <2> QED
        BY <1>1, <2>1, <2>2, <2>3, <2>4, <2>5, <2>6
        DEF Inv, TypeOK, LoginsOverTLS, ReadyIsAuthed, SenderVouched, RecipientKnown,
            TLSStartsOver, FailuresBelowLimit, Answered, Ahead, SentLine
<1> QED
    BY <1>3, <1>4 DEF Mail, MailVerified, SPFPasses

\* RCPT names a recipient that the port serves, or ends the transaction.
LEMMA RecipientInv == ASSUME Inv, Recipient PROVE Inv'
<1>1. /\ Ahead /\ phase = "command"
      /\ UNCHANGED <<serverType, handed, tls, state, authedUser, size, opened>>
    BY LineRead DEF Recipient, Read
<1>2. Answered /\ phase' \in {"command", "closed"}
    BY <1>1, Codes, ReplyAnswers, SilenceAnswers
    DEF Recipient, RecipientRejected, NameRecipient, FailureCode
<1>3. size' \in Nat
    BY <1>1 DEF Inv, TypeOK
<1>4. CASE UNCHANGED <<activeTx, over>>
    BY <1>1, <1>2, <1>3, <1>4, QuietStep
<1>5. CASE activeTx' = None /\ over' = Ended
    BY <1>1, <1>2, <1>3, <1>5, TxDropped
<1>6. CASE /\ activeTx # None /\ UNCHANGED over
           /\ \E to \in Address : /\ activeTx' = [activeTx EXCEPT !.to = to]
                                  /\ to \notin Strangers
                                  /\ serverType = "inbound" => to \notin Foreign
    <2>1. PICK to \in Address : /\ activeTx' = [activeTx EXCEPT !.to = to]
                                /\ to \notin Strangers
                                /\ serverType = "inbound" => to \notin Foreign
        BY <1>6
    <2>2. activeTx \in MailTransaction
        BY <1>6 DEF Inv, TypeOK
    <2>3. /\ activeTx' \in MailTransaction /\ activeTx'.to = to
          /\ activeTx'.from = activeTx.from /\ activeTx'.spf = activeTx.spf
          /\ activeTx'.secure = activeTx.secure /\ activeTx'.id = activeTx.id
        BY <2>1, <2>2 DEF MailTransaction
    <2>4. Vouched(activeTx)' /\ (tls => activeTx'.secure)
        BY <1>1, <1>6, <2>3 DEF Vouched, Inv, SenderVouched, TLSStartsOver
    <2>5. Deliverable(activeTx)'
        BY <1>1, <2>1, <2>3 DEF Deliverable, Address, Ours, Inv, TypeOK
    <2>6. (handed # None => Vouched(handed.mail) /\ Deliverable(handed.mail))'
        BY <1>1 DEF Inv, SenderVouched, RecipientKnown, Vouched, Deliverable
    <2>7. Numbered' /\ MailGivenOnce'
        BY <1>1, <1>6, <2>3 DEF Inv, TypeOK, Numbered, MailGivenOnce
    <2> QED
        BY <1>1, <1>2, <1>3, <1>6, <2>3, <2>4, <2>5, <2>6, <2>7
        DEF Inv, TypeOK, LoginsOverTLS, ReadyIsAuthed, SenderVouched, RecipientKnown,
            TLSStartsOver, FailuresBelowLimit, Answered, Ahead, SentLine
<1> QED
    BY <1>4, <1>5, <1>6 DEF Recipient, NameRecipient, DropTx, Address

\* The lines of a mail.
LEMMA DataInv ==
    ASSUME Inv, DataLine \/ TooMuchData \/ GarbledLine \/ EndOfData
    PROVE  Inv'
<1>1. /\ Ahead /\ phase = "data"
      /\ UNCHANGED <<serverType, tls, state, authedUser, opened>>
    BY LineRead DEF DataLine, TooMuchData, GarbledLine, EndOfData, ReadDataLine
<1>2. CASE DataLine
    BY <1>1, <1>2, QuietStep DEF DataLine, Inv, TypeOK, FailuresBelowLimit, Answered
<1>3. CASE TooMuchData
    BY <1>1, <1>3, Codes, ReplyAnswers, TxDropped DEF TooMuchData, Inv, TypeOK
<1>4. CASE GarbledLine
    BY <1>1, <1>4, SilenceAnswers, QuietStep DEF GarbledLine, Inv, TypeOK
<1>5. CASE EndOfData /\ activeTx = None
    BY <1>1, <1>5, SilenceAnswers, QuietStep DEF EndOfData, Inv, TypeOK
<1>6. CASE EndOfData /\ activeTx # None
    <2>1. PICK fate \in Fates(activeTx) :
              /\ handed' = [mail |-> activeTx, fate |-> fate]
              /\ over' = Ended /\ activeTx' = None /\ size' = size
              /\ Reply(DataAnswer(fate))
        BY <1>6 DEF EndOfData, TxAfter
    <2>2. DataAnswer(fate) \in Code
        BY DEF DataAnswer, Code, FailureCode
    <2>3. Answered /\ phase' \in {"command", "closed"}
        BY <2>1, <2>2, ReplyAnswers
    <2>4. handed' \in Handed /\ handed'.mail = activeTx
        BY <1>6, <2>1 DEF Handed, Fate, Fates, Inv, TypeOK
    <2>5. Vouched(handed.mail)' /\ Deliverable(handed.mail)'
        BY <1>1, <1>6, <2>4 DEF Inv, SenderVouched, RecipientKnown, Vouched, Deliverable
    <2>6. Numbered' /\ MailGivenOnce' /\ over' \subseteq Nat
        BY <1>1, <2>1, EndedWereOpened DEF Numbered, MailGivenOnce
    <2> QED
        BY <1>1, <2>1, <2>3, <2>4, <2>5, <2>6
        DEF Inv, TypeOK, LoginsOverTLS, ReadyIsAuthed, SenderVouched, RecipientKnown,
            TLSStartsOver, FailuresBelowLimit, Answered, Ahead, SentLine
<1> QED
    BY <1>2, <1>3, <1>4, <1>5, <1>6

\* A handshake ends what went before it, but neither the user nor the count of
\* failures.
LEMMA UpgradeInv == ASSUME Inv, UpgradeToTLS PROVE Inv'
<1>1. input' \in Seq(SentLine) /\ Len(input') = 0
    BY DEF UpgradeToTLS
<1>2. \A i \in 1 .. Len(input') : input'[i].secure
    BY <1>1
<1>3. /\ tls' = TRUE /\ state' = "fresh" /\ activeTx' = None /\ reply' = None
      /\ phase' = "command"
      /\ UNCHANGED <<serverType, link, authedUser, consecutiveErrors, size, handed, opened>>
      /\ over' \subseteq Nat /\ Numbered'
    BY EndedWereOpened DEF UpgradeToTLS, Numbered
<1>4. ~tls /\ authedUser = None /\ consecutiveErrors < MaxErrors
    BY DEF UpgradeToTLS, Inv, LoginsOverTLS, FailuresBelowLimit
<1> QED
    BY <1>1, <1>2, <1>3, <1>4 DEF Inv, TypeOK, LoginsOverTLS, ReadyIsAuthed, SenderVouched,
       Vouched, RecipientKnown, Deliverable, TLSStartsOver, MailGivenOnce,
       FailuresBelowLimit, SentLine

LEMMA AuthInv == ASSUME Inv, Auth PROVE Inv'
<1>1. /\ Ahead /\ phase = "command"
      /\ UNCHANGED <<serverType, handed, over, tls, activeTx, size, opened>>
    BY LineRead DEF Auth, Read
<1>2. Answered /\ phase' \in {"command", "closed"}
    BY <1>1, Codes, ReplyAnswers, SilenceAnswers
    DEF Auth, AuthRejected, Authenticate, FailureCode
<1>3. CASE UNCHANGED <<authedUser, state>>
    BY <1>1, <1>2, <1>3, QuietStep DEF Inv, TypeOK
<1>4. CASE \E user \in Accounts : Authenticate(user)
    <2>1. PICK user \in Accounts : Authenticate(user)
        BY <1>4
    <2>2. user # None
        BY SMTPAssumption DEF Address, Ours
    <2> QED
        BY <1>1, <1>2, <2>1, <2>2 DEF Authenticate, Inv, TypeOK, LoginsOverTLS, ReadyIsAuthed,
           SenderVouched, Vouched, RecipientKnown, Deliverable, TLSStartsOver, Numbered,
           MailGivenOnce, FailuresBelowLimit, Answered, Ahead, SentLine
<1> QED
    BY <1>3, <1>4 DEF Auth

\* The client, the greeting, and the ends that no command causes.
LEMMA AroundInv ==
    ASSUME Inv, Send \/ Hangup \/ Greet \/ HandshakeFails \/ ReadFails
    PROVE  Inv'
<1> USE DEF sessionVars, historyVars
<1>1. size \in Nat /\ MaxErrors \in Nat \ {0} /\ link \in {"up", "broken"}
    BY SMTPAssumption DEF Inv, TypeOK
<1>2. CASE Send
    BY <1>1, <1>2, LineSent, QuietStep
    DEF Send, Answered, Inv, TypeOK, LoginsOverTLS, FailuresBelowLimit
<1>3. CASE Hangup
    <2>1. Ahead
        BY <1>3 DEF Hangup, Ahead, Inv, TypeOK, TLSStartsOver, SentLine
    <2> QED
        BY <1>1, <1>3, <2>1, QuietStep
        DEF Hangup, Answered, Inv, TypeOK, LoginsOverTLS, FailuresBelowLimit
<1>4. CASE Greet
    BY <1>1, <1>4, SameAhead, SentType, Codes, QuietStep
    DEF Greet, Answered, Inv, TypeOK, FailuresBelowLimit
<1>5. CASE HandshakeFails
    BY <1>1, <1>5, SameAhead, SilenceAnswers, QuietStep DEF HandshakeFails
<1>6. CASE ReadFails
    <2>1. Answered /\ phase' \in {"command", "closed"}
        BY <1>1, <1>6, SilenceAnswers, SentType, Codes DEF ReadFails, DataFails, Answered
    <2> QED
        BY <1>1, <1>6, <2>1, SameAhead, QuietStep DEF ReadFails
<1> QED
    BY <1>2, <1>3, <1>4, <1>5, <1>6

LEMMA StutterInv == ASSUME Inv, UNCHANGED vars PROVE Inv'
BY DEF vars, sessionVars, historyVars, Inv, TypeOK, LoginsOverTLS, ReadyIsAuthed,
   SenderVouched, Vouched, RecipientKnown, Deliverable, TLSStartsOver, Numbered,
   MailGivenOnce, FailuresBelowLimit

\* The invariants are inductive together.
THEOREM Inductive == Spec => []Inv
<1>1. Inv /\ [Next]_vars => Inv'
    BY CommandInv, MailInv, RecipientInv, DataInv, UpgradeInv, AuthInv, AroundInv, StutterInv
    DEF Next, Serve
<1> QED
    BY <1>1, InitInv, PTL DEF Spec

\* The type invariant of a session.
THEOREM TypeCorrect == Spec => []TypeOK
BY Inductive, PTL DEF Inv

\* No mail is taken from a sender that is not vouched for (handleMail, requireAuth).
THEOREM SendersAreVouchedFor == Spec => []SenderVouched
BY Inductive, PTL DEF Inv

\* Mails for our domain are for accounts, and the inbound port relays nothing
\* (handleRecipient).
THEOREM RecipientsAreKnown == Spec => []RecipientKnown
BY Inductive, PTL DEF Inv

\* Nothing from before the handshake survives it (UpgradeToTLS).
THEOREM NothingSurvivesTLS == Spec => []TLSStartsOver
BY Inductive, PTL DEF Inv

\* A transaction that gave its mail away, lost its recipient, had too much data or was
\* begun before TLS gives no mail away any more (handleData, handleRecipient,
\* UpgradeToTLS).
THEOREM MailsAreGivenOnce == Spec => []MailGivenOnce
BY Inductive, PTL DEF Inv

\* No session that still reads has reached the limit of failures (Reply, serve).
THEOREM FailuresAreCounted == Spec => []FailuresBelowLimit
BY Inductive, PTL DEF Inv

\* AUTH is announced only while it can succeed, and on the send port always then
\* (handleExtendedHello, HandleAuth).
THEOREM AuthIsHonoured == Spec => []AuthOfferHonoured
<1>1. Inv => AuthOfferHonoured
    BY DEF Inv, TypeOK, LoginsOverTLS, ReadyIsAuthed, AuthOfferHonoured, CanAuthenticate,
       Extensions
<1> QED
    BY <1>1, Inductive, PTL

-----------------------------------------------------------------------------
(* Action properties: what the client is told.                             *)

LEMMA Spoken ==
    ASSUME Inv, link = "up", NEW code \in Code, Reply(code) \/ ReplyError(code) \/ Sent(code)
    PROVE  reply' \in Code /\ reply' # None /\ reply' \in {code, 421}
<1>1. 421 \in Code /\ None \notin Code
    BY Codes, SMTPAssumption
<1> QED
    BY <1>1 DEF Reply, ReplyError, Sent

\* 250 for a mail means that the handler took it in the same step, and that
\* QueueMail did not fail (handleData).
THEOREM AcceptedIsTaken == Spec => AcceptedMeansTaken
<1>1. ASSUME Inv, Next, phase = "data", reply' = 250
      PROVE  /\ activeTx # None /\ over' = over \cup {activeTx.id}
             /\ handed'.mail = activeTx /\ handed'.fate # "refused"
    <2>1. None # 250
        BY SMTPAssumption, Codes
    <2>2. ASSUME NEW code \in {552, 554}, Reply(code) \/ ReplyError(code) PROVE reply' # 250
        BY <2>1, <2>2 DEF Reply, ReplyError, Sent
    <2>3. ~Send /\ ~Hangup /\ ~Greet /\ ~HandshakeFails /\ ~UpgradeToTLS
        BY <1>1, <2>1 DEF Send, Hangup, Greet, HandshakeFails, UpgradeToTLS
    <2>4. ~DataLine /\ ~GarbledLine /\ ~ReadFails
        BY <1>1, <2>1 DEF DataLine, GarbledLine, ReadFails, DataFails, LogOnly
    <2>5. ~TooMuchData
        BY <1>1, <2>2 DEF TooMuchData
    <2>6. EndOfData
        BY <1>1, <2>3, <2>4, <2>5 DEF Next, Serve, ExtendedHello, Quit, Unknown, Mail, Recipient,
           Data, StartTLS, Auth, Read
    <2>7. activeTx # None
        BY <1>1, <2>1, <2>6 DEF EndOfData, Panic
    <2>8. PICK fate \in Fates(activeTx) :
              /\ handed' = [mail |-> activeTx, fate |-> fate]
              /\ over' = over \cup {activeTx.id}
              /\ Reply(DataAnswer(fate))
        BY <2>6, <2>7 DEF EndOfData, Ended
    <2>9. fate # "refused"
        BY <1>1, <2>2, <2>8 DEF DataAnswer
    <2> QED
        BY <2>7, <2>8, <2>9
<1> QED
    BY <1>1, Inductive, PTL DEF AcceptedMeansTaken, Spec

\* A line is answered, or the connection is closed by a panic, but for the three errors
\* that are only logged (serve, handleData).
THEOREM CommandsAreAnswered == Spec => CommandAnswered
<1> DEFINE line == Head(input)
<1>1. ASSUME Inv, Next, phase \in {"command", "data"}, input # <<>>, input' = Tail(input),
             ~(phase = "data" /\ phase' = "data"), link = "up", reply' = None
      PROVE  \/ ErrorOfItsOwn(line) /\ phase' = "command"
             \/ CanPanic(line) /\ phase' = "closed"
    <2>1. input \in Seq(SentLine) /\ Len(input') = Len(input) - 1 /\ Len(input) \in Nat
        BY <1>1 DEF Inv, TypeOK, SentLine
    <2>2. ASSUME Hangup PROVE FALSE
        <3>1. Len(input') = Len(input)
            BY <2>2 DEF Hangup
        <3> QED
            BY <2>1, <3>1
    <2>3. ASSUME Send PROVE FALSE
        <3>1. PICK l : input' = Append(input, l)
            BY <2>3 DEF Send
        <3>2. Len(Append(input, l)) = Len(input) + 1
            BY <2>1
        <3> QED
            BY <2>1, <3>1, <3>2
    <2>4. ASSUME NEW code \in Code, Reply(code) \/ ReplyError(code) \/ Sent(code) PROVE FALSE
        BY <1>1, <2>4, Spoken
    <2>5. ~ExtendedHello /\ ~Quit /\ ~Unknown /\ ~Data /\ ~StartTLS
        BY <1>1, <2>4, Codes DEF ExtendedHello, Quit, Unknown, Data, StartTLS, FailureCode
    <2>6. ~Greet /\ ~UpgradeToTLS /\ ~HandshakeFails
        BY <1>1 DEF Greet, UpgradeToTLS, HandshakeFails
    <2>7. ~ReadFails /\ ~DataLine
        BY <1>1 DEF ReadFails, DataFails, DataLine, ReadDataLine
    <2>8. ~TooMuchData
        BY <1>1, <2>4, Codes DEF TooMuchData
    <2>9. CASE GarbledLine
        BY <2>9 DEF GarbledLine, ReadDataLine, LogOnly, ErrorOfItsOwn
    <2>10. CASE EndOfData
        <3>1. ASSUME NEW fate PROVE DataAnswer(fate) \in Code
            BY DEF DataAnswer, Code, FailureCode
        <3>2. activeTx = None /\ Panic
            BY <2>4, <2>10, <3>1 DEF EndOfData
        <3> QED
            BY <2>10, <3>2 DEF EndOfData, ReadDataLine, Panic, CanPanic
    <2>11. CASE Mail
        BY <2>4, <2>11, Codes DEF Mail, Read, MailRejected, MailVerified, MailOpened,
           SPFPasses, FailureCode, LogOnly, Panic, ErrorOfItsOwn, CanPanic
    <2>12. CASE Recipient
        BY <2>4, <2>12, Codes DEF Recipient, Read, RecipientRejected, NameRecipient,
           FailureCode, Panic, CanPanic
    <2>13. CASE Auth
        BY <2>4, <2>13, Codes DEF Auth, Read, AuthRejected, Authenticate, FailureCode,
           LogOnly, ErrorOfItsOwn, CanAuthenticate
    <2> QED
        BY <1>1, <2>2, <2>3, <2>5, <2>6, <2>7, <2>8, <2>9, <2>10, <2>11, <2>12, <2>13
        DEF Next, Serve
<1>2. ASSUME Inv, UNCHANGED vars, input # <<>> PROVE input' # Tail(input)
    <2>1. Len(Tail(input)) # Len(input)
        BY <1>2 DEF Inv, TypeOK
    <2> QED
        BY <1>2, <2>1 DEF vars
<1> QED
    BY <1>1, <1>2, Inductive, PTL DEF CommandAnswered, Spec
=============================================================================
