------------------------- MODULE IMAPSession_proofs -------------------------
(***************************************************************************)
(* Theorems about IMAPSession for every set of users, messages and tags    *)
(* and any number of lines sent ahead.                                     *)
(*                                                                         *)
(* TypeOK, SecureLogin and StateAgrees are inductive together.  An action  *)
(* that leaves the user, the mailbox and TLS alone preserves them by       *)
(* QuietStep; the others have a step of their own in Inductive.            *)
(***************************************************************************)
EXTENDS IMAPSession, TLAPS


Inv == TypeOK /\ SecureLogin /\ StateAgrees

Phase == {"greeting", "command", "credentials", "handshake", "closed"}
AnyTag == Tags \cup {Untagged, Continue, NoTag}

-----------------------------------------------------------------------------
(* Responses and lines.                                                    *)

LEMMA SayType ==
    ASSUME NEW t \in AnyTag, NEW c \in Code
    PROVE  Say(t, c) \in Seq(Response)
BY DEF Say, Response, AnyTag

LEMMA BothType ==
    ASSUME NEW r \in Seq(Response), NEW s \in Seq(Response)
    PROVE  r \o s \in Seq(Response)
OBVIOUS

LEMMA ReplyType ==
    ASSUME NEW r \in Seq(Response), NEW p, Reply(r, p) \/ CheckedReply(r, p)
    PROVE  replies' \in Seq(Response) /\ phase' \in {p, "closed"}
<1>1. <<>> \in Seq(Response)
    OBVIOUS
<1> QED
    BY <1>1 DEF Reply, CheckedReply

LEMMA DropType == Drop => replies' \in Seq(Response) /\ phase' = "closed"
<1>1. <<>> \in Seq(Response)
    OBVIOUS
<1> QED
    BY <1>1 DEF Drop, Reply

LEMMA FirstLine ==
    ASSUME Inv, ReadLine
    PROVE  /\ Head(input) \in Line /\ input' \in Seq(Line)
           /\ tls => Head(input).secure /\ \A i \in 1 .. Len(input') : input'[i].secure
           /\ link' = link
<1>1. input \in Seq(Line) /\ input # <<>> /\ input' = Tail(input)
    BY DEF Inv, TypeOK, ReadLine
<1>2. \A i \in 1 .. Len(input') : i + 1 \in 1 .. Len(input) /\ input'[i] = input[i + 1]
    BY <1>1
<1>3. Head(input) = input[1] /\ 1 \in 1 .. Len(input)
    BY <1>1
<1> QED
    BY <1>1, <1>2, <1>3 DEF Inv, SecureLogin, ReadLine

-----------------------------------------------------------------------------
(* Invariants.                                                             *)

LEMMA InitInv == Init => Inv
<1>1. ASSUME Init PROVE input \in Seq(Line) /\ replies \in Seq(Response) /\ Len(input) = 0
    BY <1>1 DEF Init
<1> QED
    BY <1>1 DEF Init, Inv, TypeOK, SecureLogin, StateAgrees

LEMMA QuietStep ==
    ASSUME Inv, UNCHANGED <<tls, evidence, state, authedUser, selectedMailbox>>,
           link' \in {"up", "broken"}, ReadLine \/ input' = input,
           replies' \in Seq(Response), flagged' \in BOOLEAN,
           phase' \in Phase, tag' \in Tags \cup {None},
           phase' = "credentials" => tls /\ state = "notAuthed" /\ tag' # None
    PROVE  Inv'
<1>1. input' \in Seq(Line) /\ (tls => \A i \in 1 .. Len(input') : input'[i].secure)
    BY FirstLine DEF Inv, TypeOK, SecureLogin
<1> QED
    BY <1>1 DEF Inv, TypeOK, SecureLogin, StateAgrees, Phase

\* A command that only answers.
LEMMA Answers ==
    ASSUME Inv, NEW cmds, Read(cmds), Quiet \/ (flagged' \in BOOLEAN /\
                UNCHANGED <<state, authedUser, selectedMailbox, tag>>),
           replies' \in Seq(Response), phase' \in {"command", "handshake", "closed"}
    PROVE  Inv'
<1>1. /\ UNCHANGED <<tls, evidence, state, authedUser, selectedMailbox, tag>>
      /\ ReadLine /\ link' = link /\ flagged' \in BOOLEAN
    BY DEF Read, ReadLine, Quiet
<1>2. link \in {"up", "broken"} /\ tag \in Tags \cup {None}
    BY DEF Inv, TypeOK
<1> QED
    BY <1>1, <1>2, QuietStep DEF Phase

LEMMA TagType == ASSUME Inv, NEW cmds, Read(cmds) PROVE Tag \in Tags /\ Tag \in AnyTag
<1>1. Head(input) \in Line
    BY FirstLine DEF Read
<1> QED
    BY <1>1 DEF Line, Tag, AnyTag

LEMMA SayTagType ==
    ASSUME Inv, NEW cmds, Read(cmds)
    PROVE  \A c \in Code : Say(Tag, c) \in Seq(Response)
BY TagType, SayType

LEMMA SayUntaggedType == \A c \in Code : Say(Untagged, c) \in Seq(Response)
BY SayType DEF AnyTag

LEMMA SayNoTagType == \A c \in Code : Say(NoTag, c) \in Seq(Response)
BY SayType DEF AnyTag

LEMMA NothingType == <<>> \in Seq(Response)
OBVIOUS

\* Commands that change nothing but what is said and where serve is.
LEMMA AnswersInv ==
    ASSUME Inv, Word \/ TooLong \/ NotSupported \/ Capability \/ Logout \/ StartTLS
                \/ Fetch \/ UID
    PROVE  Inv'
<1> USE DEF Code
<1>1. CASE Word
    <2>1. replies' \in Seq(Response) /\ phase' \in {"command", "closed"}
        BY <1>1, SayUntaggedType, ReplyType DEF Word
    <2> QED
        BY <1>1, <2>1, Answers DEF Word
<1>2. CASE TooLong
    BY <1>2, DropType, Answers DEF TooLong
<1>3. CASE NotSupported
    <2>1. replies' \in Seq(Response) /\ phase' \in {"command", "closed"}
        BY <1>3, SayTagType, ReplyType DEF NotSupported
    <2> QED
        BY <1>3, <2>1, Answers DEF NotSupported
<1>4. CASE Capability
    <2>1. Say(Untagged, "CAPABILITY") \o Say(Tag, "OK") \in Seq(Response)
        BY <1>4, SayTagType, SayUntaggedType, BothType DEF Capability
    <2>2. replies' \in Seq(Response) /\ phase' \in {"command", "closed"}
        BY <1>4, <2>1, ReplyType DEF Capability
    <2> QED
        BY <1>4, <2>2, Answers DEF Capability
<1>5. CASE Logout
    <2>1. Say(Untagged, "BYE") \o Say(Tag, "OK") \in Seq(Response)
        BY <1>5, SayTagType, SayUntaggedType, BothType DEF Logout
    <2>2. replies' \in Seq(Response) /\ phase' \in {"command", "closed"}
        BY <1>5, <2>1, ReplyType DEF Logout
    <2> QED
        BY <1>5, <2>2, Answers DEF Logout
<1>6. CASE StartTLS
    <2>1. replies' \in Seq(Response) /\ phase' \in {"handshake", "command", "closed"}
        BY <1>6, SayTagType, ReplyType DEF StartTLS
    <2> QED
        BY <1>6, <2>1, Answers DEF StartTLS
<1>7. CASE Fetch
    <2>1. Say(Untagged, "FETCH") \o Say(Tag, "OK") \in Seq(Response)
        BY <1>7, SayTagType, SayUntaggedType, BothType DEF Fetch
    <2>2. replies' \in Seq(Response) /\ phase' \in {"command", "closed"}
        BY <1>7, <2>1, SayTagType, ReplyType, DropType DEF Fetch, NotSelected
    <2> QED
        BY <1>7, <2>2, Answers DEF Fetch
<1>8. CASE UID
    <2>1. replies' \in Seq(Response) /\ phase' \in {"command", "closed"}
        BY <1>8, SayTagType, ReplyType, DropType DEF UID, NotSelected
    <2> QED
        BY <1>8, <2>1, Answers DEF UID
<1> QED
    BY <1>1, <1>2, <1>3, <1>4, <1>5, <1>6, <1>7, <1>8

LEMMA UIDInv ==
    ASSUME Inv, UIDFetch \/ UIDStore
    PROVE  Inv'
<1> USE DEF Code
<1>1. PICK cmds : Read(cmds)
    BY DEF UIDFetch, UIDStore
<1>2. \A r \in Seq(Response) : CompleteUID(r) \in Seq(Response)
    BY <1>1, SayTagType, BothType DEF CompleteUID
<1>3. /\ CompleteUID(Say(NoTag, "BAD")) \in Seq(Response)
      /\ CompleteUID(Say(NoTag, "NO")) \in Seq(Response)
      /\ CompleteUID(Say(Untagged, "FETCH")) \in Seq(Response)
      /\ CompleteUID(<<>>) \in Seq(Response)
    BY <1>2, SayNoTagType, SayUntaggedType, NothingType
<1>4. replies' \in Seq(Response) /\ phase' \in {"command", "closed"}
    <2>1. CASE UIDFetch
        BY <1>1, <1>3, <2>1, SayTagType, ReplyType, DropType DEF UIDFetch, NotSelected
    <2>2. CASE UIDStore
        BY <1>1, <1>3, <2>2, SayTagType, SayNoTagType, ReplyType, DropType
        DEF UIDStore, NotSelected, StoreRejected
    <2> QED
        BY <2>1, <2>2
<1>5. UNCHANGED <<state, authedUser, selectedMailbox, tag>> /\ flagged' \in BOOLEAN
    BY DEF UIDFetch, UIDStore, Quiet
<1> QED
    BY <1>1, <1>4, <1>5, Answers

\* The client, the greeting, and the ends that no command causes.
LEMMA AroundInv ==
    ASSUME Inv, Send \/ Hangup \/ Greet \/ HandshakeFails \/ ReadFails
    PROVE  Inv'
<1> USE DEF sessionVars
<1>1. CASE Send
    <2>1. PICK text \in Text, t \in Tags :
              input' = Append(input, [text |-> text, tag |-> t, secure |-> tls])
        BY <1>1 DEF Send
    <2>2. [text |-> text, tag |-> t, secure |-> tls] \in Line /\ input \in Seq(Line)
        BY DEF Inv, TypeOK, Line
    <2>3. input' \in Seq(Line) /\ (tls => \A i \in 1 .. Len(input') : input'[i].secure)
        <3>1. \A i \in 1 .. Len(input') : i = Len(input) + 1 \/ i \in 1 .. Len(input)
            BY <2>1, <2>2
        <3> QED
            BY <2>1, <2>2, <3>1 DEF Inv, SecureLogin
    <2> QED
        BY <1>1, <2>3, NothingType DEF Send, Inv, TypeOK, SecureLogin, StateAgrees
<1>2. CASE Hangup
    BY <1>2, NothingType DEF Hangup, Inv, TypeOK, SecureLogin, StateAgrees
<1>3. CASE Greet
    <2>1. replies' \in Seq(Response) /\ phase' \in {"command", "closed"}
        BY <1>3, SayUntaggedType, ReplyType DEF Greet, Code
    <2> QED
        BY <1>3, <2>1, QuietStep DEF Greet, Phase, Inv, TypeOK
<1>4. CASE HandshakeFails
    BY <1>4, DropType, QuietStep DEF HandshakeFails, Quiet, Phase, Inv, TypeOK
<1>5. CASE ReadFails
    BY <1>5, DropType, QuietStep DEF ReadFails, Quiet, Phase, Inv, TypeOK
<1> QED
    BY <1>1, <1>2, <1>3, <1>4, <1>5

LEMMA LoginInv ==
    ASSUME Inv, UpgradeToTLS \/ Authenticate \/ Credentials
    PROVE  Inv'
<1> USE DEF Code
<1>1. CASE UpgradeToTLS
    <2>1. replies' \in Seq(Response) /\ phase' \in {"command", "closed"}
        BY <1>1, NothingType, ReplyType DEF UpgradeToTLS
    <2>2. input' \in Seq(Line) /\ Len(input') = 0
        BY <1>1 DEF UpgradeToTLS
    <2>3. \A i \in 1 .. Len(input') : input'[i].secure
        BY <2>2
    <2>4. /\ UNCHANGED <<link, evidence, state, authedUser, selectedMailbox, tag>>
          /\ tls' = TRUE /\ flagged' = FALSE
        BY <1>1 DEF UpgradeToTLS, Quiet
    <2> QED
        BY <2>1, <2>2, <2>3, <2>4 DEF Inv, TypeOK, SecureLogin, StateAgrees
<1>2. CASE Authenticate
    <2>1. /\ ReadLine /\ link' = link
          /\ UNCHANGED <<tls, evidence, state, authedUser, selectedMailbox>>
          /\ flagged' \in BOOLEAN
        BY <1>2 DEF Authenticate, Read, ReadLine
    <2>2. Tag \in Tags /\ Tag # None
        BY <1>2, TagType, IMAPAssumption DEF Authenticate
    <2>3. Say(Continue, "continue") \in Seq(Response)
        BY SayType DEF AnyTag
    <2>4. /\ replies' \in Seq(Response)
          /\ \/ phase' \in {"command", "closed"} /\ tag' = tag
             \/ phase' \in {"credentials", "closed"} /\ tag' = Tag /\ AuthAccepted
        BY <1>2, <2>3, SayTagType, ReplyType DEF Authenticate, AuthenticateRefused
    <2> QED
        BY <2>1, <2>2, <2>4, QuietStep DEF AuthAccepted, Phase, Inv, TypeOK
<1>3. CASE Credentials
    <2>1. /\ Head(input) \in Line /\ input' \in Seq(Line) /\ link' = link
          /\ tls /\ Head(input).secure /\ \A i \in 1 .. Len(input') : input'[i].secure
          /\ state = "notAuthed" /\ tag \in Tags
        BY <1>3, FirstLine DEF Credentials, Inv, StateAgrees, TypeOK
    <2>2. Say(tag, "OK") \in Seq(Response) /\ Say(tag, "BAD") \in Seq(Response)
        BY <2>1, SayType DEF AnyTag
    <2>3. replies' \in Seq(Response) /\ phase' \in {"command", "closed"}
        BY <1>3, <2>2, ReplyType, DropType DEF Credentials
    <2>4. /\ UNCHANGED <<tls, selectedMailbox>> /\ tag' = None /\ flagged' = FALSE
          /\ \/ UNCHANGED <<state, authedUser, evidence>>
             \/ /\ state' = "authed" /\ authedUser' = Head(input).text.arg
                /\ authedUser' \in Users /\ evidence' = Head(input)
        BY <1>3 DEF Credentials
    <2>5. None \notin Users
        BY IMAPAssumption
    <2> QED
        BY <2>1, <2>3, <2>4, <2>5 DEF Inv, TypeOK, SecureLogin, StateAgrees
<1> QED
    BY <1>1, <1>2, <1>3

LEMMA MailboxInv ==
    ASSUME Inv, Select \/ Close
    PROVE  Inv'
<1> USE DEF Code
<1>1. PICK cmds : Read(cmds)
    BY DEF Select, Close
<1>2. /\ input' \in Seq(Line) /\ (tls => \A i \in 1 .. Len(input') : input'[i].secure)
      /\ UNCHANGED <<tls, evidence, authedUser, tag, link>> /\ flagged' = FALSE
    BY <1>1, FirstLine DEF Read, Select, Close
<1>3. CASE Select
    <2>1. Say(Untagged, "mailbox") \o Say(Tag, "OK") \in Seq(Response)
        BY <1>1, SayTagType, SayUntaggedType, BothType
    <2>2. replies' \in Seq(Response) /\ phase' \in {"command", "closed"}
        BY <1>1, <1>3, <2>1, SayTagType, ReplyType, DropType
        DEF Select, SelectFails, OpenMailbox
    <2>3. \/ UNCHANGED <<state, selectedMailbox>>
          \/ /\ state = "authed" /\ state' = "selected" /\ authedUser \notin Bare
             /\ selectedMailbox' \in [owner : {authedUser}, messages : SUBSET Messages]
        BY <1>3 DEF Select, SelectFails, OpenMailbox, HasDomain
    <2>4. CASE UNCHANGED <<state, selectedMailbox>>
        BY <1>2, <2>2, <2>4 DEF Inv, TypeOK, SecureLogin, StateAgrees
    <2>5. CASE /\ state = "authed" /\ state' = "selected" /\ authedUser \notin Bare
               /\ selectedMailbox' \in [owner : {authedUser}, messages : SUBSET Messages]
        <3>1. authedUser \in Accounts
            BY <2>5 DEF Inv, TypeOK, StateAgrees, Users
        <3>2. selectedMailbox' \in Mailbox /\ selectedMailbox'.owner = authedUser
            BY <2>5, <3>1 DEF Mailbox
        <3>3. selectedMailbox' # None
            BY <3>2, IMAPAssumption
        <3> QED
            BY <1>2, <2>2, <2>5, <3>2, <3>3 DEF Inv, TypeOK, SecureLogin, StateAgrees
    <2> QED
        BY <2>3, <2>4, <2>5
<1>4. CASE Close
    <2>1. replies' \in Seq(Response) /\ phase' \in {"command", "closed"}
        BY <1>1, <1>4, SayTagType, ReplyType DEF Close
    <2> QED
        BY <1>2, <1>4, <2>1 DEF Close, Inv, TypeOK, SecureLogin, StateAgrees
<1> QED
    BY <1>3, <1>4

\* The three invariants are inductive together: every action of serve and of the
\* client preserves them.
THEOREM Inductive == Spec => []Inv
<1>1. Inv /\ [Next]_vars => Inv'
    <2>1. ASSUME Inv, UNCHANGED vars PROVE Inv'
        BY <2>1 DEF vars, sessionVars, Inv, TypeOK, SecureLogin, StateAgrees
    <2> QED
        BY <2>1, AnswersInv, UIDInv, AroundInv, LoginInv, MailboxInv DEF Next, Serve
<1> QED
    BY <1>1, InitInv, PTL DEF Spec

\* The type invariant of a session.
THEOREM TypeCorrect == Spec => []TypeOK
BY Inductive, PTL DEF Inv

\* A user is authenticated by their own credentials, which came over TLS
\* (handleAuthenticate, UpgradeToTLS).
THEOREM LoginsSecure == Spec => []SecureLogin
BY Inductive, PTL DEF Inv

\* The state of the session agrees with the user and the mailbox that handlers
\* dereference unchecked (handleSelect, handleFetch, handleStore).
THEOREM StateIsRight == Spec => []StateAgrees
BY Inductive, PTL DEF Inv

\* What CAPABILITY announces is what the handlers accept (handleCapabilities).
THEOREM OffersAreHonoured == Spec => []OffersHonoured
<1>1. Inv => OffersHonoured
    BY DEF Inv, TypeOK, SecureLogin, StateAgrees, OffersHonoured, Capabilities,
           TLSAccepted, AuthAccepted
<1> QED
    BY <1>1, Inductive, PTL

-----------------------------------------------------------------------------
(* Action properties: what a command is answered with.                     *)

LEMMA SayOne ==
    ASSUME NEW t, NEW c
    PROVE  /\ Len(Say(t, c)) = 1 /\ Say(t, c)[1].tag = t /\ Say(t, c)[1].code = c
BY DEF Say

LEMMA SayTwo ==
    ASSUME NEW t, NEW c, NEW u, NEW d
    PROVE  LET r == Say(t, c) \o Say(u, d) IN
           /\ Len(r) = 2
           /\ r[1].tag = t /\ r[1].code = c /\ r[2].tag = u /\ r[2].code = d
BY DEF Say

LEMMA Distinct ==
    ASSUME NEW t \in Tags
    PROVE  t # Untagged /\ t # Continue /\ t # NoTag /\ t # None
BY IMAPAssumption

LEMMA TellsNothing ==
    ASSUME replies' = <<>>
    PROVE  ~CompletedOK /\ \A t : ~Completed(t) /\ ~CompletedTwice(t)
<1>1. Len(replies') = 0
    OBVIOUS
<1> QED
    BY <1>1 DEF CompletedOK, Completed, CompletedTwice

LEMMA TellsOne ==
    ASSUME NEW t, NEW c, replies' = Say(t, c)
    PROVE  /\ CompletedOK => c = "OK"
           /\ \A u : (Completed(u) <=> u = t) /\ ~CompletedTwice(u)
<1>2. Len(replies') = 1
    BY SayOne
<1>1. \A i : i \in 1 .. Len(replies') <=> i = 1
    BY <1>2
<1> QED
    BY <1>1, SayOne DEF CompletedOK, Completed, CompletedTwice

LEMMA TellsTwo ==
    ASSUME NEW t, NEW c, NEW u, NEW d, replies' = Say(t, c) \o Say(u, d)
    PROVE  /\ \A cs : c \in cs /\ u = Tag /\ d = "OK" => OKAfter(cs)
           /\ \A v : (Completed(v) <=> v = t \/ v = u) /\ (CompletedTwice(v) <=> v = t /\ v = u)
<1>1. \A i : i \in 1 .. Len(replies') <=> i = 1 \/ i = 2
    BY SayTwo
<1>2. /\ replies'[1].tag = t /\ replies'[1].code = c
      /\ replies'[2].tag = u /\ replies'[2].code = d
    BY SayTwo
<1>3. \A v : (Completed(v) <=> v = t \/ v = u) /\ (CompletedTwice(v) <=> v = t /\ v = u)
    BY <1>1, <1>2 DEF Completed, CompletedTwice
<1>4. replies'[2] = [tag |-> u, code |-> d]
    BY DEF Say
<1>5. ASSUME NEW cs, c \in cs, u = Tag, d = "OK" PROVE OKAfter(cs)
    <2>1. 1 < 2 /\ 1 \in 1 .. Len(replies') /\ 2 \in 1 .. Len(replies')
        BY <1>1
    <2> QED
        BY <1>2, <1>4, <1>5, <2>1 DEF OKAfter
<1> QED
    BY <1>3, <1>5

LEMMA CompleteNothing == CompleteUID(<<>>) = Say(Tag, "OK")
<1>1. Say(Tag, "OK") \in Seq({[tag |-> Tag, code |-> "OK"]})
    BY DEF Say
<1> QED
    BY <1>1 DEF CompleteUID

LEMMA WhatIsSaid ==
    ASSUME NEW r, NEW p, Reply(r, p) \/ CheckedReply(r, p)
    PROVE  /\ replies' = r \/ replies' = <<>>
           /\ link = "up" => replies' = r /\ phase' = p
BY DEF Reply, CheckedReply

LEMMA NothingSaid == Drop => replies' = <<>> /\ phase' = "closed"
BY DEF Drop, Reply

\* Which actions take a line from the input.
LEMMA LineTaken ==
    ASSUME Inv, Next, input # <<>>, input' = Tail(input),
           phase \in {"command", "credentials"}
    PROVE  \/ /\ phase = "command"
              /\ \/ Word \/ TooLong \/ NotSupported \/ Capability \/ Logout \/ StartTLS
                 \/ Authenticate \/ Select \/ Close \/ Fetch \/ UID \/ UIDFetch \/ UIDStore
           \/ phase = "credentials" /\ Credentials
<1>1. input \in Seq(Line) /\ Len(input) \in Nat \ {0} /\ Len(input') = Len(input) - 1
    BY DEF Inv, TypeOK
<1>2. ASSUME Hangup PROVE FALSE
    <2>1. Len(input') = Len(input)
        BY <1>2 DEF Hangup
    <2> QED
        BY <1>1, <2>1
<1>3. ASSUME Send PROVE FALSE
    <2>1. PICK l \in Line : input' = Append(input, l)
        BY <1>3 DEF Send, Inv, TypeOK, Line
    <2>2. Len(Append(input, l)) = Len(input) + 1
        BY <1>1
    <2> QED
        BY <1>1, <2>1, <2>2
<1>4. ~Greet /\ ~UpgradeToTLS /\ ~HandshakeFails /\ ~ReadFails
    BY DEF Greet, UpgradeToTLS, HandshakeFails, ReadFails
<1>5. phase = "credentials" => Credentials
    BY <1>2, <1>3, <1>4 DEF Next, Serve, Word, TooLong, NotSupported, Capability, Logout,
       StartTLS, Authenticate, Select, Close, Fetch, UID, UIDFetch, UIDStore, Read
<1>6. phase = "command" => ~Credentials
    BY DEF Credentials
<1> QED
    BY <1>2, <1>3, <1>4, <1>5, <1>6 DEF Next, Serve

\* What FETCH and the commands of UID may say.
LEMMA FetchSays ==
    ASSUME Fetch
    PROVE  \/ replies' = <<>>
           \/ replies' = Say(Tag, "BAD")
           \/ replies' = Say(Untagged, "FETCH") \o Say(Tag, "OK")
BY WhatIsSaid, NothingSaid DEF Fetch, NotSelected

LEMMA UIDFetchSays ==
    ASSUME UIDFetch
    PROVE  \/ replies' = <<>>
           \/ replies' = Say(Tag, "BAD")
           \/ replies' = Say(NoTag, "BAD") \o Say(Tag, "OK")
           \/ replies' = Say(Untagged, "FETCH") \o Say(Tag, "OK")
BY WhatIsSaid, NothingSaid DEF UIDFetch, NotSelected, CompleteUID

LEMMA UIDStoreSays ==
    ASSUME UIDStore
    PROVE  \/ flagged' = TRUE
           \/ replies' = <<>>
           \/ replies' = Say(Tag, "BAD")
           \/ replies' = Say(NoTag, "BAD")
           \/ replies' = Say(NoTag, "BAD") \o Say(Tag, "OK")
           \/ replies' = Say(NoTag, "NO") \o Say(Tag, "OK")
BY WhatIsSaid, NothingSaid DEF UIDStore, NotSelected, StoreRejected, CompleteUID

\* FETCH is completed with OK only after the message, and a UID command that failed
\* only after a BAD or NO, which has no tag (handleFetch, handleStore, handleUID).
THEOREM FailuresTold == Spec => ErrorBeforeOK
<1>1. ASSUME Inv, Next, phase = "command", input # <<>>, input' = Tail(input), CompletedOK
      PROVE  /\ Head(input).text.cmd = "FETCH" => OKAfter({"FETCH"})
             /\ Head(input).text.cmd = "UID_FETCH" => OKAfter({"FETCH", "BAD"})
             /\ Head(input).text.cmd = "UID_STORE" => flagged' \/ OKAfter({"BAD", "NO"})
    <2> USE TellsNothing, TellsOne, TellsTwo
    <2>1. CASE Fetch
        <3>1. Head(input).text.cmd = "FETCH"
            BY <2>1 DEF Fetch, Read
        <3>2. OKAfter({"FETCH"})
            BY <1>1, <2>1, FetchSays
        <3> QED
            BY <3>1, <3>2
    <2>2. CASE UIDFetch
        <3>1. Head(input).text.cmd = "UID_FETCH"
            BY <2>2 DEF UIDFetch, Read
        <3>2. OKAfter({"FETCH", "BAD"})
            BY <1>1, <2>2, UIDFetchSays
        <3> QED
            BY <3>1, <3>2
    <2>3. CASE UIDStore
        <3>1. Head(input).text.cmd = "UID_STORE"
            BY <2>3 DEF UIDStore, Read
        <3>2. flagged' = TRUE \/ OKAfter({"BAD", "NO"})
            <4>1. (\E t : replies' = Say(t, "BAD")) => ~CompletedOK
                OBVIOUS
            <4>2. replies' = Say(NoTag, "BAD") \o Say(Tag, "OK") => OKAfter({"BAD", "NO"})
                OBVIOUS
            <4>3. replies' = Say(NoTag, "NO") \o Say(Tag, "OK") => OKAfter({"BAD", "NO"})
                OBVIOUS
            <4> QED
                BY <1>1, <2>3, <4>1, <4>2, <4>3, UIDStoreSays
        <3> QED
            BY <3>1, <3>2
    <2>4. CASE ~Fetch /\ ~UIDFetch /\ ~UIDStore
        BY <1>1, <2>4, LineTaken DEF Word, TooLong, NotSupported, Capability, Logout,
           StartTLS, Authenticate, Select, Close, UID, Read
    <2> QED
        BY <2>1, <2>2, <2>3, <2>4
<1>2. ASSUME UNCHANGED vars, Inv, input # <<>> PROVE input' # Tail(input)
    <2>1. Len(Tail(input)) # Len(input)
        BY <1>2 DEF Inv, TypeOK
    <2> QED
        BY <1>2, <2>1 DEF vars
<1> QED
    BY <1>1, <1>2, Inductive, PTL DEF ErrorBeforeOK, Spec

LEMMA SaysOnceOrNever ==
    ASSUME Inv, link = "up", phase = "command", NEW cmds, Read(cmds),
           NEW other \in {Untagged, NoTag, Continue}, NEW c, NEW d,
           \/ replies' = Say(Tag, c)
           \/ replies' = Say(other, c) \o Say(Tag, d)
    PROVE  Completed(Tag) /\ ~CompletedTwice(Tag)
<1>1. Tag # other
    BY TagType, Distinct
<1> QED
    BY <1>1, TellsOne, TellsTwo

LEMMA SaysNever ==
    ASSUME NEW t \in Tags, NEW other \in {Untagged, NoTag, Continue}, NEW c,
           replies' = <<>> \/ replies' = Say(other, c)
    PROVE  ~Completed(t) /\ ~CompletedTwice(t)
<1>1. t # other
    BY Distinct
<1> QED
    BY <1>1, TellsOne, TellsNothing

\* A command whose handler answers it, or ends the session.
LEMMA AnsweredOnce ==
    ASSUME Inv, link = "up", phase = "command",
           NotSupported \/ Capability \/ Logout \/ StartTLS \/ Select \/ Close
           \/ Fetch \/ UID \/ UIDFetch
    PROVE  /\ \/ replies' = <<>> /\ phase' = "closed"
              \/ Completed(Tag) /\ ~CompletedTwice(Tag)
           /\ phase' # "credentials"
<1>1. PICK cmds : Read(cmds)
    BY DEF NotSupported, Capability, Logout, StartTLS, Select, Close, Fetch, UID, UIDFetch
<1>2. /\ \/ replies' = <<>> /\ phase' = "closed"
         \/ replies' = Say(Tag, "OK") \/ replies' = Say(Tag, "NO") \/ replies' = Say(Tag, "BAD")
         \/ replies' = Say(Untagged, "CAPABILITY") \o Say(Tag, "OK")
         \/ replies' = Say(Untagged, "BYE") \o Say(Tag, "OK")
         \/ replies' = Say(Untagged, "mailbox") \o Say(Tag, "OK")
         \/ replies' = Say(Untagged, "FETCH") \o Say(Tag, "OK")
         \/ replies' = Say(NoTag, "BAD") \o Say(Tag, "OK")
      /\ phase' # "credentials"
    <2>1. CASE NotSupported \/ Capability \/ Logout \/ StartTLS
        BY <2>1 DEF NotSupported, Capability, Logout, StartTLS, Reply, CheckedReply
    <2>2. CASE Select \/ Close
        BY <2>2 DEF Select, SelectFails, OpenMailbox, Close, Drop, Reply, CheckedReply
    <2>3. CASE Fetch \/ UID \/ UIDFetch
        BY <2>3 DEF Fetch, UID, UIDFetch, NotSelected, CompleteUID, Drop, Reply, CheckedReply
    <2> QED
        BY <2>1, <2>2, <2>3
<1>3. ASSUME NEW c, replies' = Say(Tag, c) PROVE Completed(Tag) /\ ~CompletedTwice(Tag)
    BY <1>1, <1>3, SaysOnceOrNever
<1>4. ASSUME NEW other \in {Untagged, NoTag}, NEW c, NEW d, replies' = Say(other, c) \o Say(Tag, d)
      PROVE Completed(Tag) /\ ~CompletedTwice(Tag)
    BY <1>1, <1>4, SaysOnceOrNever
<1> QED
    BY <1>2, <1>3, <1>4

LEMMA StoreAnsweredOnce ==
    ASSUME Inv, link = "up", phase = "command", UIDStore
    PROVE  /\ ~CompletedTwice(Tag)
           /\ phase' # "closed" => Completed(Tag)
           /\ phase' # "credentials"
<1>1. PICK cmds : Read(cmds)
    BY DEF UIDStore
<1>2. \/ replies' = <<>> /\ phase' = "closed"
      \/ replies' = Say(NoTag, "BAD") /\ phase' = "closed"
      \/ replies' = Say(Tag, "BAD") /\ phase' = "command"
      \/ replies' = Say(Tag, "OK") /\ phase' = "command"
      \/ replies' = Say(NoTag, "BAD") \o Say(Tag, "OK") /\ phase' = "command"
      \/ replies' = Say(NoTag, "NO") \o Say(Tag, "OK") /\ phase' = "command"
    <2>1. CASE NotSelected
        BY <2>1, WhatIsSaid DEF NotSelected
    <2>2. CASE StoreRejected
        BY <2>2, WhatIsSaid, NothingSaid DEF StoreRejected, CompleteUID
    <2>3. CASE Reply(CompleteUID(<<>>), "command")
        BY <2>3, WhatIsSaid, CompleteNothing
    <2> QED
        BY <2>1, <2>2, <2>3 DEF UIDStore
<1>3. CASE replies' = <<>> \/ replies' = Say(NoTag, "BAD")
    <2>1. Tag \in Tags
        BY <1>1, TagType
    <2>2. ~CompletedTwice(Tag)
        BY <1>3, <2>1, SaysNever
    <2>3. replies' = <<>> \/ replies' = Say(NoTag, "BAD") => phase' = "closed"
        <3>1. Len(Say(NoTag, "BAD") \o Say(Tag, "OK")) = 2 /\ Len(Say(NoTag, "NO") \o Say(Tag, "OK")) = 2
            BY SayTwo
        <3>2. Len(Say(NoTag, "BAD")) = 1 /\ Len(Say(Tag, "BAD")) = 1 /\ Len(Say(Tag, "OK")) = 1
            BY SayOne
        <3>3. Say(Tag, "BAD")[1].tag = Tag /\ Say(Tag, "OK")[1].tag = Tag /\ Say(NoTag, "BAD")[1].tag = NoTag
            BY SayOne
        <3>4. Tag # NoTag
            BY <2>1, Distinct
        <3>5. Len(<<>>) = 0
            OBVIOUS
        <3> QED
            BY <1>2, <3>1, <3>2, <3>3, <3>4, <3>5
    <2> QED
        BY <1>3, <2>2, <2>3
<1>4. CASE \/ replies' = Say(Tag, "BAD") \/ replies' = Say(Tag, "OK")
           \/ replies' = Say(NoTag, "BAD") \o Say(Tag, "OK")
           \/ replies' = Say(NoTag, "NO") \o Say(Tag, "OK")
    <2>1. Completed(Tag) /\ ~CompletedTwice(Tag)
        BY <1>1, <1>4, SaysOnceOrNever
    <2> QED
        BY <1>2, <2>1
<1> QED
    BY <1>2, <1>3, <1>4

\* AUTHENTICATE answers with its tag, asks for credentials, or ends the session.
LEMMA AuthenticateSays ==
    ASSUME Inv, link = "up", phase = "command", Authenticate
    PROVE  /\ ~CompletedTwice(Tag)
           /\ phase' # "closed" => (Completed(Tag) <=> phase' # "credentials")
<1>1. Tag \in Tags
    BY TagType DEF Authenticate
<1>2. \/ replies' = Say(Tag, "BAD") /\ phase' \in {"command", "closed"}
      \/ replies' = Say(Tag, "NO") /\ phase' \in {"command", "closed"}
      \/ replies' = Say(Continue, "continue") /\ phase' = "credentials"
    BY WhatIsSaid DEF Authenticate, AuthenticateRefused
<1>3. CASE replies' = Say(Continue, "continue") /\ phase' = "credentials"
    BY <1>1, <1>3, SaysNever
<1>4. CASE (\E c : replies' = Say(Tag, c)) /\ phase' \in {"command", "closed"}
    BY <1>4, TellsOne
<1> QED
    BY <1>2, <1>3, <1>4

LEMMA CredentialsSay ==
    ASSUME Inv, link = "up", phase = "credentials", Credentials
    PROVE  /\ ~CompletedTwice(tag)
           /\ phase' # "closed" => Completed(tag)
           /\ phase' \in {"command", "closed"}
<1>1. \/ replies' = <<>> /\ phase' = "closed"
      \/ (\E c : replies' = Say(tag, c)) /\ phase' \in {"command", "closed"}
    BY WhatIsSaid, NothingSaid DEF Credentials
<1> QED
    BY <1>1, TellsNothing, TellsOne

\* A word that is no command is answered, but not with its tag.
LEMMA WordsSay ==
    ASSUME Inv, link = "up", phase = "command", Word \/ TooLong
    PROVE  /\ ~CompletedTwice(Tag)
           /\ phase' # "closed" => ~Completed(Tag) /\ Word /\ phase' = "command"
<1>1. Tag \in Tags
    BY TagType DEF Word, TooLong
<1>2. \/ replies' = <<>> /\ phase' = "closed"
      \/ replies' = Say(Untagged, "BAD") /\ phase' = "command" /\ Word
    BY WhatIsSaid, NothingSaid DEF Word, TooLong
<1> QED
    BY <1>1, <1>2, SaysNever

\* Every command gets exactly one completion with its tag, or at most one and the
\* end of the connection (every handler, handleUID).
THEOREM EachCompletedOnce == Spec => CompletedOnce
<1> DEFINE T == IF phase = "command" THEN Tag ELSE tag
           IsWord == phase = "command" /\ Head(input).text.cmd \in {"word", "credentials"}
<1>1. ASSUME Inv, Next, link = "up", phase \in {"command", "credentials"},
             input # <<>>, input' = Tail(input)
      PROVE  /\ ~CompletedTwice(T)
             /\ phase' # "closed" => (Completed(T) <=> phase' # "credentials" /\ ~IsWord)
    <2>1. CASE phase = "credentials"
        <3>1. Credentials /\ T = tag /\ ~IsWord
            BY <1>1, <2>1, LineTaken
        <3>2. ~CompletedTwice(tag) /\ (phase' # "closed" => Completed(tag) /\ phase' # "credentials")
            BY <1>1, <2>1, <3>1, CredentialsSay
        <3> HIDE DEF T, IsWord
        <3> QED
            BY <3>1, <3>2
    <2>2. CASE phase = "command"
        <3>1. T = Tag
            BY <2>2
        <3>2. Word => IsWord
            BY <2>2 DEF Word, Read
        <3>3. ASSUME ~Word PROVE ~IsWord
            BY <1>1, <2>2, <3>3, LineTaken DEF TooLong, NotSupported, Capability, Logout,
               StartTLS, Authenticate, Select, Close, Fetch, UID, UIDFetch, UIDStore, Read
        <3> HIDE DEF T, IsWord
        <3>4. CASE Word \/ TooLong
            BY <1>1, <2>2, <3>1, <3>2, <3>4, WordsSay
        <3>5. CASE Authenticate /\ ~Word
            BY <1>1, <2>2, <3>1, <3>3, <3>5, AuthenticateSays
        <3>6. CASE UIDStore /\ ~Word
            BY <1>1, <2>2, <3>1, <3>3, <3>6, StoreAnsweredOnce
        <3>7. CASE (NotSupported \/ Capability \/ Logout \/ StartTLS \/ Select \/ Close
                    \/ Fetch \/ UID \/ UIDFetch) /\ ~Word
            <4>1. /\ \/ replies' = <<>> /\ phase' = "closed"
                     \/ Completed(Tag) /\ ~CompletedTwice(Tag)
                  /\ phase' # "credentials"
                BY <1>1, <2>2, <3>7, AnsweredOnce
            <4> QED
                BY <3>1, <3>3, <3>7, <4>1, TellsNothing
        <3> QED
            BY <1>1, <2>2, <3>4, <3>5, <3>6, <3>7, LineTaken
    <2> QED
        BY <1>1, <2>1, <2>2
<1>2. ASSUME UNCHANGED vars, Inv, input # <<>> PROVE input' # Tail(input)
    <2>1. Len(Tail(input)) # Len(input)
        BY <1>2 DEF Inv, TypeOK
    <2> QED
        BY <1>2, <2>1 DEF vars
<1> QED
    BY <1>1, <1>2, Inductive, PTL DEF CompletedOnce, Spec
=============================================================================
