--------------------------- MODULE ClientSession ---------------------------
(***************************************************************************)
(* One run of ClientSession.SendMail in lib/smtp/session: the dialogue in  *)
(* which the relay (or the probe tool, which has credentials) gives one    *)
(* mail to a remote server.                                                *)
(*                                                                         *)
(* The remote server is the environment: it accepts or refuses every       *)
(* command, offers its extensions in any order, may end the connection or  *)
(* never answer, and its reply to EHLO may have a line that ReadReply      *)
(* cannot read.  Commands and replies travel in two channels, because the  *)
(* client goes on after an EHLO that failed and may then take an old reply *)
(* for the answer to a later command.  It goes on after a DATA that was    *)
(* refused, too, so the remote may read the lines of the mail as commands; *)
(* the answer to the first of them is taken for the one to the mail.       *)
(***************************************************************************)
EXTENDS Naturals, Sequences

CONSTANTS
    Credentials,  \* TRUE: the client was made WithPlainAuth
    MaxGarbled    \* bound: replies to EHLO with an unreadable line

ASSUME ClientAssumption == Credentials \in BOOLEAN /\ MaxGarbled \in Nat

VARIABLES
    at,        \* the reply the client waits for, or how SendMail ended
    state,     \* ClientSessionFresh, ...Authed or ...Ready
    tls,       \* conn.isTLSSessionActive
    up,        \* the connection
    firstLine, \* the first line of the mail: "text", or "command" if a server that
               \* reads it as a command may answer 250, as it does to NOOP or EHLO
    sent,      \* commands under way to the remote server
    replies,   \* replies under way to the client
    remote,    \* the remote server: "greeting", "command" or "data"
    taken,     \* the remote has answered the data with 250
    garbled,   \* history: unreadable replies to EHLO
    offered,   \* history: extensions the last readable reply to EHLO offered
    refused    \* history: the remote refused STARTTLS

clientVars == <<at, state, tls>>
channelVars == <<sent, replies>>
historyVars == <<garbled, offered, refused>>
vars == <<clientVars, firstLine, up, channelVars, remote, taken, historyVars>>

Ended == {"nil", "error", "panic"}
Verb == {"EHLO", "STARTTLS", "AUTH", "MAIL", "RCPT", "DATA", "body"}
\* The orders in which a reply to EHLO can list its extensions.
Extensions == {<<>>, <<"STARTTLS">>, <<"AUTH">>, <<"STARTTLS", "AUTH">>,
               <<"AUTH", "STARTTLS">>}
\* A reply; code 0 is a line that ReadReply cannot read.
Answer(code) == [code |-> code, ext |-> <<>>]
Reply == [code : {0, 220, 235, 250, 354, 550}, ext : Extensions]

Init ==
    /\ at = "greeting"
    /\ state = "fresh"
    /\ tls = FALSE
    /\ up = TRUE
    /\ firstLine \in {"text", "command"}
    /\ sent = <<>> /\ replies = <<>>
    /\ remote = "greeting"
    /\ taken = FALSE
    /\ garbled = 0 /\ offered = <<>> /\ refused = FALSE

-----------------------------------------------------------------------------
(* The client.                                                             *)

\* Write a command and wait for its reply; SendMail ends if the write fails,
\* except that a failed ExtendedHello is followed by MAIL, which fails too.
Write(verb) ==
    IF up THEN at' = verb /\ sent' = Append(sent, verb)
    ELSE at' = "error" /\ UNCHANGED sent

End(result) ==
    /\ at' = result
    /\ UNCHANGED sent

\* The next reply: ReadReply gets all its lines, or an error, which an
\* unreadable line and a broken connection give.
ReadReply(waiting) ==
    /\ at = waiting
    /\ replies # <<>> \/ ~up
    /\ replies' = IF replies = <<>> THEN <<>> ELSE Tail(replies)
    /\ UNCHANGED <<firstLine, up, remote, taken, garbled>>

Got(code) == replies # <<>> /\ Head(replies).code = code

ReadGreeting ==
    /\ ReadReply("greeting")
    /\ IF Got(220) THEN Write("EHLO") ELSE End("error")
    /\ UNCHANGED <<state, tls, offered, refused>>

\* SendMail ignores what ExtendedHello returns.
GoOn == Write("MAIL")

\* Bug: AUTH does not wait for TLS.
AuthInClear == \/ Credentials /\ Write("AUTH")
               \/ GoOn

\* InitAuth fails without TLS, without credentials, or if PLAIN is not among the
\* mechanisms.
InitAuth == \/ tls /\ Credentials /\ Write("AUTH")
            \/ GoOn

\* Bug: STARTTLS is handled whenever it is offered.
AnyHandled(ext) ==
    SelectSeq(ext, LAMBDA e : e = "STARTTLS" \/ state = "fresh")

\* The lines are handled in their order, and the first extension that is
\* handled ends the loop.
FirstHandled(ext) ==
    SelectSeq(ext, LAMBDA e : IF e = "STARTTLS" THEN ~tls ELSE state = "fresh")

HandleCapabilities(ext) ==
    IF FirstHandled(ext) = <<>>
    THEN state' = "ready" /\ GoOn
    ELSE /\ UNCHANGED state
         /\ IF Head(FirstHandled(ext)) = "STARTTLS" THEN Write("STARTTLS") ELSE InitAuth

ExtendedHello ==
    /\ ReadReply("EHLO")
    /\ IF Got(250)
       THEN /\ HandleCapabilities(Head(replies).ext)
            /\ offered' = Head(replies).ext
       ELSE GoOn /\ UNCHANGED <<state, offered>>
    /\ UNCHANGED <<tls, refused>>

\* After its 220 the handshake succeeds and EHLO is sent again, or it fails and
\* UpgradeToTLS panics.
StartTLS ==
    /\ ReadReply("STARTTLS")
    /\ IF Got(220)
       THEN \/ up /\ tls' = TRUE /\ Write("EHLO")
            \/ End("panic") /\ UNCHANGED tls
       ELSE GoOn /\ UNCHANGED tls
    /\ refused' = ~Got(220)
    /\ UNCHANGED <<state, offered>>

Auth ==
    /\ ReadReply("AUTH")
    /\ IF Got(235) THEN state' = "authed" /\ Write("EHLO")
       ELSE GoOn /\ UNCHANGED state
    /\ UNCHANGED <<tls, offered, refused>>

Mail ==
    /\ ReadReply("MAIL")
    /\ IF Got(250) THEN Write("RCPT") ELSE End("error")
    /\ UNCHANGED <<state, tls, offered, refused>>

Recipient ==
    /\ ReadReply("RCPT")
    /\ IF Got(250) THEN Write("DATA") ELSE End("error")
    /\ UNCHANGED <<state, tls, offered, refused>>

\* Any reply to DATA will do: its code is not looked at.
Data ==
    /\ ReadReply("DATA")
    /\ IF replies # <<>> /\ ~Got(0) THEN Write("body") ELSE End("error")
    /\ UNCHANGED <<state, tls, offered, refused>>

\* Bug: the last reply is taken like the one to DATA.
AnyReply == replies # <<>> /\ ~Got(0)

\* The reply to the final dot.
Accepted == Got(250)

Finish ==
    /\ ReadReply("body")
    /\ End(IF Accepted THEN "nil" ELSE "error")
    /\ UNCHANGED <<state, tls, offered, refused>>

Client ==
    \/ ReadGreeting \/ ExtendedHello \/ StartTLS \/ Auth
    \/ Mail \/ Recipient \/ Data \/ Finish

-----------------------------------------------------------------------------
(* The remote server.                                                      *)

Say(reply) == replies' = IF up THEN replies \o reply ELSE replies

RemoteGreets ==
    /\ remote = "greeting"
    /\ \E code \in {220, 550} : Say(<<Answer(code)>>)
    /\ remote' = "command"
    /\ UNCHANGED <<clientVars, firstLine, up, sent, taken, historyVars>>

RemoteAnswers(verb) ==
    /\ sent # <<>> /\ Head(sent) = verb
    /\ sent' = Tail(sent)
    /\ UNCHANGED <<clientVars, firstLine, up, offered, refused>>

\* EHLO is answered with the extensions; if one line of the answer cannot be
\* read, its other lines still can, as a reply of their own.
RemoteHello ==
    /\ RemoteAnswers("EHLO")
    /\ \E ext \in Extensions :
       LET hello == [code |-> 250, ext |-> ext] IN
       \/ Say(<<hello>>) /\ UNCHANGED garbled
       \/ /\ garbled < MaxGarbled
          /\ garbled' = garbled + 1
          /\ Say(<<Answer(0), hello>>)
    /\ UNCHANGED <<remote, taken>>

Positive(verb) ==
    CASE verb = "STARTTLS" -> 220 [] verb = "AUTH" -> 235
      [] verb = "DATA" -> 354 [] OTHER -> 250

\* A command is accepted or refused, EHLO too.  A mail that comes where the remote
\* waits for a command is read as commands: its first line is refused, or answered with
\* 250 if it can pass for one, and the mail is not taken.
RemoteReplies ==
    \E verb \in Verb, ok \in BOOLEAN :
        /\ RemoteAnswers(verb)
        /\ ok => /\ verb # "EHLO"
                 /\ verb = "body" => remote = "data" \/ firstLine = "command"
        /\ Say(<<Answer(IF ok THEN Positive(verb) ELSE 550)>>)
        /\ taken' = (taken \/ (ok /\ verb = "body" /\ remote = "data"))
        /\ remote' = IF ok /\ verb = "DATA" THEN "data" ELSE "command"
        /\ UNCHANGED garbled

\* The connection breaks.  What is under way may be lost, and the client no
\* longer hears the remote server.
Break ==
    /\ up /\ at \notin Ended
    /\ up' = FALSE
    /\ sent' \in {sent, <<>>}
    /\ replies' \in {replies, <<>>}
    /\ UNCHANGED <<clientVars, firstLine, remote, taken, historyVars>>

Remote == RemoteGreets \/ RemoteHello \/ RemoteReplies

Next == Client \/ Remote \/ Break

Spec == Init /\ [][Next]_vars

\* SendMail has no deadline: it ends only if the remote answers or is gone.
FairSpec == Spec /\ WF_vars(Client) /\ WF_vars(Remote)

-----------------------------------------------------------------------------
(* Properties.                                                             *)

TypeOK ==
    /\ at \in Verb \cup Ended \cup {"greeting"}
    /\ state \in {"fresh", "authed", "ready"}
    /\ tls \in BOOLEAN /\ up \in BOOLEAN
    /\ firstLine \in {"text", "command"}
    /\ sent \in Seq(Verb) /\ replies \in Seq(Reply)
    /\ remote \in {"greeting", "command", "data"}
    /\ taken \in BOOLEAN
    /\ garbled \in Nat
    /\ offered \in Extensions
    /\ refused \in BOOLEAN

\* SendMail returns nil only for a mail the remote has taken, even if a reply was
\* read for another command's, unless the first line of the mail passes for a command
\* (SendMail, ReadReply): it implements Transfer.
T == INSTANCE Transfer WITH
       outcome <- IF at \in Ended THEN at ELSE "running",
       plain <- firstLine = "text"
TransferSpec == T!Spec

\* "Once we have successfully relayed the mail, delete it from the os."
\* (packages/smtp/server.go:173): nil, after which it is deleted, means for every mail
\* that the remote has taken it.
NilMeansTaken == at = "nil" => taken

\* Credentials go out only over TLS (InitAuth).
CredentialsOverTLS == at = "AUTH" => tls

\* SendMail ends if the remote server answers each command or goes away: there is
\* no circle of EHLO, STARTTLS and AUTH.
SendMailEnds == <>(at \in Ended)

\* "Always check for TLS first before others" (client_session.go:145): a mail goes
\* out in the clear only if the remote did not offer STARTTLS or refused it.
TLSFirst ==
    at = "MAIL" /\ ~tls /\ ~refused => \A i \in 1 .. Len(offered) : offered[i] # "STARTTLS"
=============================================================================
