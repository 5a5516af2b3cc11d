---------------------------- MODULE IMAPSession ----------------------------
(***************************************************************************)
(* One connection of the IMAP server, as imapServerSession of             *)
(* lib/imap/session serves it.                                             *)
(*                                                                         *)
(* As in SMTPSession, the client may send any line at any time, input      *)
(* holds what the server has not read yet, and reading a line and handling *)
(* it is one action.  AUTHENTICATE takes two lines: the second, whatever   *)
(* it is, is read as the credentials.                                      *)
(*                                                                         *)
(* What a mailbox holds, and how it changes under other sessions, is the   *)
(* business of Maildir: here GetMailbox gives any snapshot, or fails; a    *)
(* message of the snapshot is found or not (its file may have been renamed *)
(* or removed), and changing its flags succeeds or fails.                  *)
(***************************************************************************)
EXTENDS Naturals, Sequences

CONSTANTS
    Accounts,     \* names in users.json that are mail addresses
    Bare,         \* names in users.json without an "@"
    Messages,     \* the messages a client can name by number or UID
    Tags,         \* the tags of commands
    NoArg,        \* a command without its argument
    None,         \* no user, no mailbox, no tag
    MaxInput      \* bound: lines the client sends ahead

Users == Accounts \cup Bare
Untagged == "*"
Continue == "+"
NoTag == "empty"  \* the tag handleUID gives to handleFetch and handleStore

Mailbox == [owner : Accounts, messages : SUBSET Messages]

ASSUME IMAPAssumption ==
    /\ Accounts \cap Bare = {}
    /\ {"wrong_password", "undecodable"} \cap Users = {}
    /\ {"no_number", "no_flags", "bad_flags"} \cap Messages = {}
    /\ NoArg \notin Messages /\ None \notin Users \cup Mailbox
    /\ {Untagged, Continue, NoTag, None} \cap Tags = {}
    /\ MaxInput \in Nat

VARIABLES
    link,             \* "up", or "broken" once the client is gone
    input,            \* lines sent and not yet read
    phase,            \* where serve is
    tls,              \* conn.isTLSSessionActive
    state,            \* notAuthed..., authed... or selectedSessionState
    authedUser,
    selectedMailbox,  \* whose INBOX, and the messages of the snapshot
    tag,              \* the tag of the AUTHENTICATE that waits for credentials
    replies,          \* what the last step sent
    flagged,          \* whether the last step changed the flags of a message
    evidence          \* history: the line that authenticated the user

sessionVars == <<tls, state, authedUser, selectedMailbox>>
vars == <<link, input, phase, sessionVars, tag, replies, flagged, evidence>>

\* What the client may send.  "word" is a line without a command, "long" one that
\* Read refuses; every line is a "word" to the server that was meant as
\* credentials, and undecodable credentials if it was meant as a command.
Text == [cmd : {"CAPABILITY", "LOGOUT", "STARTTLS", "CLOSE", "other", "word", "long"},
         arg : {NoArg}]
        \cup [cmd : {"AUTHENTICATE"}, arg : {NoArg, "PLAIN", "unknown_mechanism"}]
        \cup [cmd : {"SELECT"}, arg : {NoArg, "INBOX", "another"}]
        \cup [cmd : {"UID"}, arg : {NoArg, "unknown_command"}]
        \cup [cmd : {"FETCH", "UID_FETCH", "UID_STORE"}, arg : Messages \cup {"no_number"}]
        \cup [cmd : {"FETCH"}, arg : {NoArg}]
        \cup [cmd : {"UID_STORE"}, arg : {"no_flags", "bad_flags"}]
        \cup [cmd : {"credentials"}, arg : Users \cup {"wrong_password", "undecodable"}]
Line == [text : Text, tag : Tags, secure : BOOLEAN]

Code == {"OK", "NO", "BAD", "BYE", "CAPABILITY", "mailbox", "FETCH", "continue"}
Response == [tag : Tags \cup {Untagged, Continue, NoTag}, code : Code]

Init ==
    /\ link = "up" /\ input = <<>> /\ phase = "greeting"
    /\ tls = FALSE /\ state = "notAuthed"
    /\ authedUser = None /\ selectedMailbox = None
    /\ tag = None /\ replies = <<>> /\ flagged = FALSE /\ evidence = None

-----------------------------------------------------------------------------
(* Responses.                                                              *)

Say(t, code) == <<[tag |-> t, code |-> code]>>

\* Responses whose write errors are ignored.
Reply(responses, next) ==
    /\ replies' = IF link = "up" THEN responses ELSE <<>>
    /\ phase' = next

\* Responses whose write errors end the session, if they show: the first writes to
\* a client that is gone may succeed.
CheckedReply(responses, next) ==
    \/ Reply(responses, next)
    \/ link = "broken" /\ Reply(<<>>, "closed")

\* The session ends without a word: a handler says so, or panics and serve recovers.
Drop == Reply(<<>>, "closed")

-----------------------------------------------------------------------------
(* The client.                                                             *)

Send ==
    /\ link = "up" /\ phase # "closed"
    /\ Len(input) < MaxInput
    /\ \E text \in Text, t \in Tags :
         input' = Append(input, [text |-> text, tag |-> t, secure |-> tls])
    /\ replies' = <<>> /\ flagged' = FALSE
    /\ UNCHANGED <<link, phase, sessionVars, tag, evidence>>

Hangup ==
    /\ link = "up" /\ phase # "closed"
    /\ link' = "broken"
    /\ replies' = <<>> /\ flagged' = FALSE
    /\ UNCHANGED <<input, phase, sessionVars, tag, evidence>>

-----------------------------------------------------------------------------
(* The commands.                                                           *)

ReadLine ==
    /\ input # <<>>
    /\ input' = Tail(input)
    /\ UNCHANGED link

\* serve reads a line and handleClientCommand selects the handler.
Read(cmds) ==
    /\ phase = "command"
    /\ ReadLine
    /\ Head(input).text.cmd \in cmds
    /\ UNCHANGED <<tls, evidence>>

Tag == Head(input).tag
Arg == Head(input).text.arg

\* greet; the first command has 30 minutes from here.
Greet ==
    /\ phase = "greeting"
    /\ CheckedReply(Say(Untagged, "OK"), "command")
    /\ flagged' = FALSE
    /\ UNCHANGED <<link, input, sessionVars, tag, evidence>>

Quiet == flagged' = FALSE /\ UNCHANGED <<state, authedUser, selectedMailbox, tag>>

Word ==
    /\ Read({"word", "credentials"})
    /\ Reply(Say(Untagged, "BAD"), "command")
    /\ Quiet

TooLong ==
    /\ Read({"long"})
    /\ Drop
    /\ Quiet

NotSupported ==
    /\ Read({"other"})
    /\ CheckedReply(Say(Tag, "NO"), "command")
    /\ Quiet

\* The capabilities that depend on the session.
Capabilities ==
    {c \in {"STARTTLS", "AUTH=PLAIN"} :
        IF c = "STARTTLS" THEN ~tls ELSE tls /\ state = "notAuthed"}

Capability ==
    /\ Read({"CAPABILITY"})
    /\ CheckedReply(Say(Untagged, "CAPABILITY") \o Say(Tag, "OK"), "command")
    /\ Quiet

Logout ==
    /\ Read({"LOGOUT"})
    /\ Reply(Say(Untagged, "BYE") \o Say(Tag, "OK"), "closed")
    /\ Quiet

TLSAccepted == state = "notAuthed" /\ ~tls

StartTLS ==
    /\ Read({"STARTTLS"})
    /\ IF TLSAccepted
       THEN Reply(Say(Tag, "OK"), "handshake")
       ELSE Reply(Say(Tag, "BAD"), "command")
    /\ Quiet

\* Bug: the connection keeps its reader.
UpgradeInPlace ==
    /\ phase = "handshake" /\ link = "up"
    /\ tls' = TRUE
    /\ Reply(<<>>, "command")
    /\ Quiet
    /\ UNCHANGED <<link, input, evidence>>

\* What was sent before the handshake is lost with the old reader, or is taken for
\* the handshake, which then fails.
UpgradeToTLS ==
    /\ phase = "handshake" /\ link = "up"
    /\ tls' = TRUE
    /\ input' = <<>>
    /\ Reply(<<>>, "command")
    /\ Quiet
    /\ UNCHANGED <<link, evidence>>

\* The client is gone or late, its bytes are no handshake, or the server has no
\* certificate: UpgradeToTLS panics.
HandshakeFails ==
    /\ phase = "handshake"
    /\ Drop
    /\ Quiet
    /\ UNCHANGED <<link, input, tls, evidence>>

AuthAccepted == state = "notAuthed" /\ tls

AuthenticateRefused ==
    \/ state # "notAuthed" /\ Reply(Say(Tag, "BAD"), "command")
    \/ state = "notAuthed" /\ ~tls /\ Reply(Say(Tag, "NO"), "closed")
    \/ AuthAccepted /\ Arg = "unknown_mechanism" /\ Reply(Say(Tag, "NO"), "closed")

Authenticate ==
    /\ Read({"AUTHENTICATE"})
    /\ \/ Arg = NoArg /\ Reply(Say(Tag, "BAD"), "closed") /\ UNCHANGED tag
       \/ Arg # NoArg /\ AuthenticateRefused /\ UNCHANGED tag
       \/ /\ Arg = "PLAIN" /\ AuthAccepted
          /\ CheckedReply(Say(Continue, "continue"), "credentials")
          /\ tag' = Tag
    /\ flagged' = FALSE
    /\ UNCHANGED <<state, authedUser, selectedMailbox>>

\* The next line is the credentials: they authenticate a user, or end the session.
Credentials ==
    /\ phase = "credentials"
    /\ ReadLine
    /\ LET text == Head(input).text
           right == text.cmd = "credentials" /\ text.arg \in Users
       IN  IF right
           THEN /\ state' = "authed"
                /\ authedUser' = text.arg
                /\ evidence' = Head(input)
                /\ Reply(Say(tag, "OK"), "command")
           ELSE /\ IF text.cmd = "long" THEN Drop ELSE Reply(Say(tag, "BAD"), "closed")
                /\ UNCHANGED <<state, authedUser, evidence>>
    /\ tag' = None /\ flagged' = FALSE
    /\ UNCHANGED <<tls, selectedMailbox>>

-----------------------------------------------------------------------------
\* handleSelect takes the part of the name after its "@".
HasDomain(user) == user \notin Bare

\* GetMailbox failed: only INBOX exists, and its sync may fail.
SelectFails ==
    /\ Reply(Say(Tag, "NO"), "command")
    /\ UNCHANGED <<state, selectedMailbox>>

\* The name of the user gives the path of the maildir.
OpenMailbox(user) ==
    /\ selectedMailbox' \in [owner : {user}, messages : SUBSET Messages]
    /\ state' = "selected"
    /\ CheckedReply(Say(Untagged, "mailbox") \o Say(Tag, "OK"), "command")

\* Another mailbox cannot be selected before CLOSE.
Select ==
    /\ Read({"SELECT"})
    /\ \/ Arg = NoArg /\ Reply(Say(Tag, "BAD"), "closed") /\ UNCHANGED <<state, selectedMailbox>>
       \/ /\ Arg # NoArg /\ state # "authed"
          /\ Reply(Say(Tag, "BAD"), "command") /\ UNCHANGED <<state, selectedMailbox>>
       \/ /\ Arg # NoArg /\ state = "authed"
          /\ \/ /\ ~HasDomain(authedUser)
                /\ Drop /\ UNCHANGED <<state, selectedMailbox>>
             \/ HasDomain(authedUser) /\ SelectFails
             \/ HasDomain(authedUser) /\ Arg = "INBOX" /\ OpenMailbox(authedUser)
    /\ flagged' = FALSE
    /\ UNCHANGED <<authedUser, tag>>

\* Bug: the mailbox goes and the state stays.
CloseHalf ==
    /\ Read({"CLOSE"})
    /\ state = "selected"
    /\ selectedMailbox' = None
    /\ Reply(Say(Tag, "OK"), "command")
    /\ flagged' = FALSE
    /\ UNCHANGED <<state, authedUser, tag>>

\* Nothing is expunged.
Close ==
    /\ Read({"CLOSE"})
    /\ IF state = "selected"
       THEN /\ selectedMailbox' = None
            /\ state' = "authed"
            /\ CheckedReply(Say(Tag, "OK"), "command")
       ELSE Reply(Say(Tag, "BAD"), "command") /\ UNCHANGED <<state, selectedMailbox>>
    /\ flagged' = FALSE
    /\ UNCHANGED <<authedUser, tag>>

\* BySeq and ByUID: the message is in the snapshot, and its file can be read.
Found(message) == message \in selectedMailbox.messages

NotSelected == state # "selected" /\ Reply(Say(Tag, "BAD"), "command")

\* A message that is not found ends the session.
Fetch ==
    /\ Read({"FETCH"})
    /\ \/ Arg = NoArg /\ Drop
       \/ Arg # NoArg /\ NotSelected
       \/ /\ state = "selected"
          /\ \/ Arg = "no_number" /\ Reply(Say(Tag, "BAD"), "command")
             \/ Arg \in Messages /\ Drop
             \/ /\ Arg \in Messages /\ Found(Arg)
                /\ CheckedReply(Say(Untagged, "FETCH") \o Say(Tag, "OK"), "command")
    /\ Quiet

\* Bug: the handler of the command answers as well.
CompleteTwice(responses) == responses \o Say(Tag, "OK") \o Say(Tag, "OK")

\* handleUID answers the command whose handler did not end the session, whether or
\* not the handler has reported an error, which goes out without a tag.
CompleteUID(responses) == responses \o Say(Tag, "OK")

UID ==
    /\ Read({"UID"})
    /\ \/ Arg = NoArg /\ Drop
       \/ Arg # NoArg /\ NotSelected
       \/ Arg # NoArg /\ state = "selected" /\ CheckedReply(Say(Tag, "NO"), "command")
    /\ Quiet

UIDFetch ==
    /\ Read({"UID_FETCH"})
    /\ \/ NotSelected
       \/ /\ state = "selected"
          /\ \/ Arg = "no_number" /\ Reply(CompleteUID(Say(NoTag, "BAD")), "command")
             \/ Arg \in Messages /\ Drop
             \/ /\ Arg \in Messages /\ Found(Arg)
                /\ CheckedReply(CompleteUID(Say(Untagged, "FETCH")), "command")
    /\ Quiet

\* Bug: an error of UpdateFlags is only logged.
StoreErrorLogged ==
    \/ Arg = "no_number" /\ Reply(CompleteUID(Say(NoTag, "BAD")), "command")
    \/ Arg # "no_number" /\ Drop
    \/ Arg \in Messages /\ Found(Arg) /\ Reply(CompleteUID(<<>>), "command")

\* "no_flags" and "bad_flags" name a message, too, which is looked up first.
StoreRejected ==
    \/ Arg = "no_number" /\ Reply(CompleteUID(Say(NoTag, "BAD")), "command")
    \/ Arg # "no_number" /\ Drop
    \/ Arg = "bad_flags" /\ Reply(Say(NoTag, "BAD"), "closed")
    \/ Arg \in Messages /\ Found(Arg) /\ Reply(CompleteUID(Say(NoTag, "NO")), "command")

UIDStore ==
    /\ Read({"UID_STORE"})
    /\ \/ NotSelected /\ flagged' = FALSE
       \/ state = "selected" /\ StoreRejected /\ flagged' = FALSE
       \/ /\ state = "selected" /\ Arg \in Messages /\ Found(Arg)
          /\ Reply(CompleteUID(<<>>), "command")
          /\ flagged' = TRUE
    /\ UNCHANGED <<state, authedUser, selectedMailbox, tag>>

-----------------------------------------------------------------------------
\* Bug: only the read of a command has a deadline.
CommandTimeout ==
    /\ phase = "command" /\ input = <<>>
    /\ Drop
    /\ Quiet
    /\ UNCHANGED <<link, input, tls, evidence>>

\* Nothing to read within 30 minutes, or no client.
ReadFails ==
    /\ phase \in {"command", "credentials"} /\ input = <<>>
    /\ Drop
    /\ Quiet
    /\ UNCHANGED <<link, input, tls, evidence>>

Serve ==
    \/ Greet \/ Word \/ TooLong \/ NotSupported \/ Capability \/ Logout
    \/ StartTLS \/ UpgradeToTLS \/ HandshakeFails \/ Authenticate \/ Credentials
    \/ Select \/ Close \/ Fetch \/ UID \/ UIDFetch \/ UIDStore \/ ReadFails

Next == Serve \/ Send \/ Hangup

Spec == Init /\ [][Next]_vars

\* The goroutine of the session runs, and every read, write and handshake it waits
\* in ends: by what the client does, or by the deadline.
FairSpec == Spec /\ WF_vars(Serve)
-----------------------------------------------------------------------------
(* Properties.                                                             *)

TypeOK ==
    /\ link \in {"up", "broken"}
    /\ input \in Seq(Line)
    /\ phase \in {"greeting", "command", "credentials", "handshake", "closed"}
    /\ tls \in BOOLEAN
    /\ state \in {"notAuthed", "authed", "selected"}
    /\ authedUser \in Users \cup {None}
    /\ selectedMailbox \in Mailbox \cup {None}
    /\ tag \in Tags \cup {None}
    /\ replies \in Seq(Response)
    /\ flagged \in BOOLEAN
    /\ evidence \in Line \cup {None}

\* A user is authenticated by credentials of their own that came over TLS: no line
\* sent before the handshake is acted on after it, whether AUTHENTICATE or the line
\* after it (handleAuthenticate, UpgradeToTLS).
SecureLogin ==
    /\ tls => \A i \in 1 .. Len(input) : input[i].secure
    /\ authedUser # None =>
         tls /\ evidence \in Line /\ evidence.secure /\ evidence.text.arg = authedUser

\* What the session believes of itself agrees: whoever is past "not authenticated"
\* is somebody, and a mailbox is at hand exactly while one is selected, the user's
\* own.  handleFetch, handleStore and handleSelect dereference both unchecked.
StateAgrees ==
    /\ state = "notAuthed" <=> authedUser = None
    /\ state = "selected" <=> selectedMailbox # None
    /\ selectedMailbox # None => selectedMailbox.owner = authedUser
    /\ phase = "credentials" => tls /\ state = "notAuthed" /\ tag # None

\* CAPABILITY announces STARTTLS and AUTH=PLAIN exactly while they would be
\* accepted (handleCapabilities against the checks of the handlers).
OffersHonoured ==
    /\ "STARTTLS" \in Capabilities <=> TLSAccepted
    /\ "AUTH=PLAIN" \in Capabilities <=> AuthAccepted

Completed(t) == \E i \in 1 .. Len(replies') : replies'[i].tag = t
CompletedTwice(t) ==
    \E i, j \in 1 .. Len(replies') : i # j /\ replies'[i].tag = t /\ replies'[j].tag = t

\* A client that is still there gets exactly one completion with the tag of each of
\* its commands, the two lines of AUTHENTICATE and the commands of UID included, or
\* at most one and the end of the connection (every handler, handleUID).
CompletedOnce ==
    [][(link = "up" /\ phase \in {"command", "credentials"} /\ input # <<>> /\ input' = Tail(input)) =>
       LET t == IF phase = "command" THEN Tag ELSE tag
           isWord == phase = "command" /\ Head(input).text.cmd \in {"word", "credentials"}
       IN  /\ ~CompletedTwice(t)
           /\ phase' # "closed" => (Completed(t) <=> phase' # "credentials" /\ ~isWord)]_vars

\* The command is completed with OK, after a response with one of these codes.
OKAfter(codes) ==
    \E i, j \in 1 .. Len(replies') :
        i < j /\ replies'[i].code \in codes /\ replies'[j] = [tag |-> Tag, code |-> "OK"]
CompletedOK == \E i \in 1 .. Len(replies') : replies'[i] = [tag |-> Tag, code |-> "OK"]

\* FETCH is completed with OK only after the message.  UID FETCH and UID STORE are
\* completed with OK also if they failed, but only after a BAD or NO: the client that
\* reads every response can tell, though this one has no tag (handleFetch, handleStore,
\* handleUID).
ErrorBeforeOK ==
    [][(phase = "command" /\ input # <<>> /\ input' = Tail(input) /\ CompletedOK) =>
       LET cmd == Head(input).text.cmd IN
       /\ cmd = "FETCH" => OKAfter({"FETCH"})
       /\ cmd = "UID_FETCH" => OKAfter({"FETCH", "BAD"})
       /\ cmd = "UID_STORE" => flagged' \/ OKAfter({"BAD", "NO"})]_vars

\* What a client that reads only the responses with its tag may not conclude: that OK
\* to a UID command means that the message was sent, or that its flags were changed.
\* MCIMAPSession_uidok.cfg shows how that fails (handleUID).
OKMeansDone ==
    [][(phase = "command" /\ input # <<>> /\ input' = Tail(input) /\ CompletedOK) =>
       LET cmd == Head(input).text.cmd IN
       /\ cmd \in {"FETCH", "UID_FETCH"} => OKAfter({"FETCH"})
       /\ cmd = "UID_STORE" => flagged']_vars

\* A session ends once its client sends nothing more, be it gone or waiting for
\* something itself: no wait for a command, for credentials (which a client that gave
\* them with AUTHENTICATE never sends) or for a handshake is without end
\* (ExtendDeadline).
SilentSessionEnds == <>[][~Send]_vars => <>(phase = "closed")

\* "A non-existent unique identifier is ignored without any error message generated"
\* (server_session.go:555).
UnknownUIDIgnored ==
    [][(/\ phase = "command" /\ input # <<>> /\ input' = Tail(input)
        /\ link = "up" /\ state = "selected"
        /\ Head(input).text.cmd \in {"UID_FETCH", "UID_STORE"}
        /\ Arg \in Messages \ selectedMailbox.messages)
       => phase' = "command"]_vars
=============================================================================
