------------------------- MODULE ClientSession_proofs -------------------------
(***************************************************************************)
(* Theorems about ClientSession, with or without credentials and for any   *)
(* number of replies that cannot be read: it implements Transfer, and      *)
(* credentials go out over TLS only.                                       *)
(*                                                                         *)
(* SendMail may be one reply behind from MAIL on, because ReadReply left   *)
(* the rest of an unreadable reply to EHLO in the reader.  The invariant   *)
(* Channels says what is under way in each case: the answer that SendMail  *)
(* takes for the one to the final dot is that answer, or the one to DATA,  *)
(* which is never a 250, or the one to the first line of the mail, if the  *)
(* remote reads that line as a command.                                    *)
(***************************************************************************)
EXTENDS ClientSession, TLAPS

Transaction == {"MAIL", "RCPT", "DATA", "body"}

Prev(verb) ==
    IF verb = "RCPT" THEN "MAIL" ELSE IF verb = "DATA" THEN "RCPT"
    ELSE IF verb = "body" THEN "DATA" ELSE "EHLO"

\* What the remote says in answer to verb.
Fits(verb, reply) ==
    /\ verb = "DATA" => reply.code # 250
    /\ verb = "body" => (reply.code = 250 => taken \/ firstLine = "command")

\* The commands and replies under way while SendMail waits for the reply to at.
InStep ==
    \/ Len(sent) = 1 /\ sent[1] = at /\ Len(replies) = 0
    \/ Len(sent) = 0 /\ Len(replies) = 1 /\ Fits(at, replies[1])
OneBehind ==
    \/ /\ Len(sent) = 2 /\ sent[1] = Prev(at) /\ sent[2] = at /\ Len(replies) = 0
       /\ at # "MAIL"
    \/ /\ Len(sent) = 1 /\ sent[1] = at /\ Len(replies) = 1
       /\ Fits(Prev(at), replies[1])
    \/ /\ Len(sent) = 0 /\ Len(replies) = 2
       /\ Fits(Prev(at), replies[1]) /\ Fits(at, replies[2])

Greeting ==
    at = "greeting" =>
      /\ Len(sent) = 0 /\ Len(replies) <= 1
      /\ remote = "greeting" <=> Len(replies) = 0
Unreadable ==
    at = "EHLO" /\ Len(sent) = 0 /\ Len(replies) = 2 /\ replies[1].code = 0

Channels ==
    IF up
    THEN /\ Greeting
         /\ at \notin Ended \cup {"greeting"} => remote # "greeting"
         /\ at \in {"EHLO", "STARTTLS", "AUTH"} => InStep \/ Unreadable
         /\ at \in Transaction => InStep \/ OneBehind
    ELSE at = "body" /\ Len(replies) > 0 => Fits("body", replies[1])

\* What nil does mean: the mail was taken, or its first line answered as a command.
Excused == taken \/ firstLine = "command"
NilExcused == at = "nil" => Excused

Inv == TypeOK /\ CredentialsOverTLS /\ Channels /\ NilExcused

-----------------------------------------------------------------------------
(* Sequences.                                                              *)

LEMMA Taken ==
    ASSUME NEW S, NEW s \in Seq(S)
    PROVE  /\ Len(s) \in Nat /\ (s = <<>> <=> Len(s) = 0)
           /\ s # <<>> => /\ Head(s) = s[1] /\ Head(s) \in S /\ Tail(s) \in Seq(S)
                          /\ Len(Tail(s)) = Len(s) - 1
           /\ Len(s) > 1 => Tail(s)[1] = s[2] /\ s[2] \in S
OBVIOUS

LEMMA Appended ==
    ASSUME NEW S, NEW s \in Seq(S), NEW a \in S
    PROVE  /\ Append(s, a) \in Seq(S) /\ Len(Append(s, a)) = Len(s) + 1
           /\ Append(s, a)[Len(s) + 1] = a
           /\ \A i \in 1 .. Len(s) : Append(s, a)[i] = s[i]
OBVIOUS

LEMMA Said ==
    ASSUME NEW S, NEW s \in Seq(S), NEW a \in S
    PROVE  /\ s \o <<a>> \in Seq(S) /\ Len(s \o <<a>>) = Len(s) + 1
           /\ (s \o <<a>>)[Len(s) + 1] = a
           /\ \A i \in 1 .. Len(s) : (s \o <<a>>)[i] = s[i]
OBVIOUS

LEMMA SaidTwo ==
    ASSUME NEW S, NEW s \in Seq(S), NEW a \in S, NEW b \in S
    PROVE  /\ s \o <<a, b>> \in Seq(S) /\ Len(s \o <<a, b>>) = Len(s) + 2
           /\ (s \o <<a, b>>)[Len(s) + 1] = a /\ (s \o <<a, b>>)[Len(s) + 2] = b
OBVIOUS

-----------------------------------------------------------------------------
(* Invariants.                                                             *)

LEMMA Initially == Init => Inv
<1>1. Init => Len(sent) = 0 /\ Len(replies) = 0 /\ sent \in Seq(Verb) /\ replies \in Seq(Reply)
    BY DEF Init
<1>2. <<>> \in Extensions
    BY DEF Extensions
<1>3. ASSUME Init PROVE TypeOK
    <2>1. sent \in Seq(Verb) /\ replies \in Seq(Reply) /\ offered \in Extensions
        BY <1>1, <1>2, <1>3 DEF Init
    <2> QED
        BY <1>3, <2>1 DEF Init, TypeOK
<1>4. Init => Channels
    BY <1>1 DEF Init, Channels, Greeting, Ended, Transaction
<1> QED
    BY <1>3, <1>4 DEF Init, Inv, CredentialsOverTLS, NilExcused

\* Writing a command: it is under way behind those that were, or SendMail ends.
LEMMA Written ==
    ASSUME TypeOK, NEW verb \in Verb, Write(verb)
    PROVE  /\ sent' \in Seq(Verb)
           /\ up => /\ at' = verb /\ Len(sent') = Len(sent) + 1 /\ sent'[Len(sent) + 1] = verb
                    /\ \A i \in 1 .. Len(sent) : sent'[i] = sent[i]
           /\ ~up => at' = "error"
BY Appended DEF Write, TypeOK

\* Reading a reply.
LEMMA ReplyRead ==
    ASSUME TypeOK, NEW waiting, ReadReply(waiting)
    PROVE  /\ at = waiting /\ UNCHANGED <<firstLine, up, remote, taken, garbled>>
           /\ replies' \in Seq(Reply)
           /\ up => Len(replies) > 0
           /\ Len(replies) > 0 => /\ Len(replies') = Len(replies) - 1
                                  /\ \A code : Got(code) <=> replies[1].code = code
                                  /\ replies[1] \in Reply
           /\ Len(replies) = 0 => Len(replies') = 0 /\ \A code : ~Got(code)
           /\ Len(replies) > 1 => replies'[1] = replies[2]
<1>1. replies \in Seq(Reply)
    BY DEF TypeOK
<1>2. <<>> \in Seq(Reply) /\ Len(<<>>) = 0
    OBVIOUS
<1>3. CASE replies = <<>>
    BY <1>1, <1>2, <1>3, Taken DEF ReadReply, Got
<1>4. CASE replies # <<>>
    <2>1. /\ Len(replies) > 0 /\ replies' = Tail(replies) /\ Head(replies) = replies[1]
          /\ Len(Tail(replies)) = Len(replies) - 1 /\ Tail(replies) \in Seq(Reply)
          /\ replies[1] \in Reply
        BY <1>1, <1>4, Taken DEF ReadReply
    <2>2. Len(replies) > 1 => Tail(replies)[1] = replies[2]
        BY <1>1, Taken
    <2> QED
        BY <1>4, <2>1, <2>2 DEF ReadReply, Got
<1> QED
    BY <1>3, <1>4

\* Without a connection SendMail ends at the next reply or command, with nil only
\* for a 250 that was on its way.
LEMMA ClientBroken == ASSUME Inv, Client, ~up PROVE Inv'
<1> USE DEF Ended, Verb, GoOn, InitAuth
<1>1. TypeOK /\ Channels /\ NilExcused
    BY DEF Inv
<1>2. PICK waiting : ReadReply(waiting)
    BY DEF Client, ReadGreeting, ExtendedHello, StartTLS, Auth, Mail, Recipient, Data, Finish
<1>3. at' \in Ended /\ sent' \in Seq(Verb)
    <2>1. \A verb \in Verb : Write(verb) => at' = "error" /\ sent' \in Seq(Verb)
        BY <1>1, Written
    <2>2. ASSUME NEW r \in Ended, End(r) PROVE at' \in Ended /\ sent' \in Seq(Verb)
        BY <1>1, <2>2 DEF End, TypeOK
    <2> QED
        BY <2>1, <2>2 DEF Client, ReadGreeting, ExtendedHello, HandleCapabilities, StartTLS, Auth,
           Mail, Recipient, Data, Finish
<1>4. at' = "nil" => Excused
    <2>1. \A verb \in Verb : Write(verb) => at' = "error"
        BY <1>1, Written
    <2>2. at' = "nil" => Finish /\ Got(250)
        BY <2>1 DEF Client, ReadGreeting, ExtendedHello, HandleCapabilities, StartTLS, Auth,
           Mail, Recipient, Data, Finish, End, Accepted
    <2>3. Finish /\ Got(250) => at = "body" /\ Len(replies) > 0 /\ replies[1].code = 250
        BY <1>1, ReplyRead, Taken DEF Finish, TypeOK
    <2> QED
        BY <1>1, <2>2, <2>3 DEF Channels, Fits, Excused
<1>5. /\ state' \in {"fresh", "authed", "ready"} /\ tls' \in BOOLEAN
      /\ offered' \in Extensions /\ refused' \in BOOLEAN
    <2>1. ExtendedHello => offered' \in Extensions
        <3>1. Got(250) => Head(replies) \in Reply
            BY <1>1, Taken DEF Got, TypeOK
        <3> QED
            BY <1>1, <3>1 DEF ExtendedHello, TypeOK, Reply
    <2> QED
        BY <1>1, <2>1 DEF TypeOK, Client, ReadGreeting, ExtendedHello, HandleCapabilities, StartTLS,
           Auth, Mail, Recipient, Data, Finish
<1>6. UNCHANGED <<firstLine, up, remote, taken, garbled>> /\ replies' \in Seq(Reply)
    BY <1>1, <1>2, ReplyRead
<1> QED
    BY <1>1, <1>3, <1>4, <1>5, <1>6
    DEF Inv, TypeOK, CredentialsOverTLS, Channels, NilExcused, Excused

\* The client's types, and what it may learn from a reply.
LEMMA ClientTypes ==
    ASSUME Inv, Client, up
    PROVE  /\ TypeOK' /\ UNCHANGED <<firstLine, up, remote, taken>>
           /\ at' = "AUTH" => tls'
<1> USE DEF Ended, Verb, GoOn, InitAuth
<1>1. TypeOK
    BY DEF Inv
<1>2. PICK waiting : ReadReply(waiting)
    BY DEF Client, ReadGreeting, ExtendedHello, StartTLS, Auth, Mail, Recipient, Data, Finish
<1>3. at' \in Verb \cup Ended /\ sent' \in Seq(Verb)
    <2>1. \A verb \in Verb : Write(verb) => at' = verb /\ sent' \in Seq(Verb)
        BY <1>1, Written
    <2>2. ASSUME NEW r \in Ended, End(r) PROVE at' \in Ended /\ sent' \in Seq(Verb)
        BY <1>1, <2>2 DEF End, TypeOK
    <2> QED
        BY <2>1, <2>2 DEF Client, ReadGreeting, ExtendedHello, HandleCapabilities, StartTLS, Auth,
           Mail, Recipient, Data, Finish
<1>4. at' = "AUTH" => tls'
    <2>1. \A verb \in Verb : Write(verb) => at' = verb
        BY <1>1, Written
    <2> QED
        BY <2>1 DEF Client, ReadGreeting, ExtendedHello, HandleCapabilities, StartTLS, Auth,
           Mail, Recipient, Data, Finish, End
<1>5. /\ state' \in {"fresh", "authed", "ready"} /\ tls' \in BOOLEAN
      /\ offered' \in Extensions /\ refused' \in BOOLEAN
    <2>1. ExtendedHello => offered' \in Extensions
        <3>1. Got(250) => Head(replies) \in Reply
            BY <1>1, Taken DEF Got, TypeOK
        <3> QED
            BY <1>1, <3>1 DEF ExtendedHello, TypeOK, Reply
    <2> QED
        BY <1>1, <2>1 DEF TypeOK, Client, ReadGreeting, ExtendedHello, HandleCapabilities, StartTLS,
           Auth, Mail, Recipient, Data, Finish
<1>6. UNCHANGED <<firstLine, up, remote, taken, garbled>> /\ replies' \in Seq(Reply)
    BY <1>1, <1>2, ReplyRead
<1> QED
    BY <1>1, <1>3, <1>4, <1>5, <1>6 DEF TypeOK

\* Before MAIL a reply is the answer to the command SendMail waits for, or cannot
\* be read and leaves one behind.
LEMMA OpeningChannels ==
    ASSUME Inv, up, ReadGreeting \/ ExtendedHello \/ StartTLS \/ Auth
    PROVE  Channels'
<1> USE DEF Verb, Ended, Transaction, GoOn, InitAuth
<1>1. TypeOK /\ Channels
    BY DEF Inv
<1>2. PICK waiting : ReadReply(waiting)
    BY DEF ReadGreeting, ExtendedHello, StartTLS, Auth
<1>3. /\ UNCHANGED <<firstLine, up, remote, taken>> /\ Len(replies) > 0
      /\ Len(replies') = Len(replies) - 1
      /\ \A code : Got(code) <=> replies[1].code = code
    BY <1>1, <1>2, ReplyRead
<1>4. /\ Len(sent) = 0 /\ remote # "greeting"
      /\ Len(replies') = 0 \/ (at = "EHLO" /\ Len(replies') = 1 /\ ~Got(250))
    BY <1>1, <1>3 DEF ReadGreeting, ExtendedHello, StartTLS, Auth, ReadReply,
       Channels, Greeting, InStep, Unreadable
<1>5. \/ at' \in Ended
      \/ /\ at' \in {"EHLO", "STARTTLS", "AUTH"} /\ Len(replies') = 0
         /\ Len(sent') = 1 /\ sent'[1] = at'
      \/ at' = "MAIL" /\ Len(sent') = 1 /\ sent'[1] = at'
    <2>1. \A verb \in Verb : Write(verb) => at' = verb /\ Len(sent') = 1 /\ sent'[1] = at'
        BY <1>1, <1>4, Written
    <2>2. \A r \in Ended : End(r) => at' = r
        BY DEF End
    <2> QED
        BY <1>4, <2>1, <2>2 DEF ReadGreeting, ExtendedHello, HandleCapabilities, StartTLS, Auth,
           ReadReply
<1> QED
    BY <1>3, <1>4, <1>5 DEF Channels, Greeting, InStep, OneBehind, Prev, Fits

\* From MAIL on SendMail stays in step, or one reply behind.
LEMMA TransactionChannels ==
    ASSUME Inv, up, Mail \/ Recipient \/ Data
    PROVE  Channels'
<1> USE DEF Verb, Ended, Transaction
<1>1. TypeOK /\ Channels
    BY DEF Inv
<1>2. PICK waiting \in {"MAIL", "RCPT", "DATA"} : ReadReply(waiting)
    BY DEF Mail, Recipient, Data
<1>3. /\ UNCHANGED <<firstLine, up, remote, taken>> /\ Len(replies) > 0 /\ at = waiting
      /\ Len(replies') = Len(replies) - 1
      /\ Len(replies) > 1 => replies'[1] = replies[2]
    BY <1>1, <1>2, ReplyRead
<1>4. /\ remote # "greeting"
      /\ \/ Len(sent) = 0 /\ Len(replies') = 0
         \/ Len(sent) = 1 /\ sent[1] = at /\ Len(replies') = 0
         \/ Len(sent) = 0 /\ Len(replies') = 1 /\ Fits(at, replies'[1])
    BY <1>1, <1>2, <1>3 DEF Channels, InStep, OneBehind
<1>5. \/ at' \in Ended
      \/ /\ at' \in {"RCPT", "DATA", "body"} /\ Prev(at') = at
         /\ Len(sent') = Len(sent) + 1 /\ sent'[Len(sent) + 1] = at'
         /\ \A i \in 1 .. Len(sent) : sent'[i] = sent[i]
    <2>1. \A verb \in Verb :
            Write(verb) => /\ at' = verb /\ Len(sent') = Len(sent) + 1
                           /\ sent'[Len(sent) + 1] = verb
                           /\ \A i \in 1 .. Len(sent) : sent'[i] = sent[i]
        BY <1>1, Written
    <2>2. \A r \in Ended : End(r) => at' = r
        BY DEF End
    <2> QED
        BY <1>3, <2>1, <2>2 DEF Mail, Recipient, Data, ReadReply, Prev
<1>6. CASE at' \in Ended
    BY <1>3, <1>6 DEF Channels, Greeting
<1>7. CASE at' \notin Ended
    <2>1. ASSUME Len(sent) = 0 PROVE InStep' \/ OneBehind'
        <3>1. Len(sent') = 1 /\ sent'[1] = at'
            BY <1>5, <1>7, <2>1
        <3>2. CASE Len(replies') = 0
            BY <3>1, <3>2 DEF InStep
        <3>3. CASE Len(replies') = 1 /\ Fits(at, replies'[1])
            BY <1>3, <1>5, <1>7, <3>1, <3>3 DEF OneBehind, Fits
        <3> QED
            BY <1>4, <2>1, <3>2, <3>3
    <2>2. Len(sent) = 1 /\ sent[1] = at /\ Len(replies') = 0 => OneBehind'
        BY <1>5, <1>7 DEF OneBehind
    <2>3. InStep' \/ OneBehind'
        BY <1>4, <2>1, <2>2
    <2> QED
        BY <1>3, <1>4, <1>5, <1>7, <2>3 DEF Channels, Greeting
<1> QED
    BY <1>6, <1>7

\* nil is only for a 250 to the final dot: the reply to DATA, which SendMail takes
\* for it when it is behind, is no 250.
LEMMA FinishChannels ==
    ASSUME Inv, up, Finish
    PROVE  Channels' /\ (at' = "nil" => Excused)
<1> USE DEF Ended, Transaction
<1>1. TypeOK /\ Channels
    BY DEF Inv
<1>2. /\ UNCHANGED <<firstLine, up, remote, taken>> /\ Len(replies) > 0 /\ at = "body"
      /\ \A code : Got(code) <=> replies[1].code = code
    BY <1>1, ReplyRead DEF Finish
<1>3. at' \in {"nil", "error"} /\ (at' = "nil" => replies[1].code = 250)
    BY <1>2 DEF Finish, End, Accepted
<1>4. replies[1].code = 250 => Excused
    BY <1>1, <1>2 DEF Channels, InStep, OneBehind, Prev, Fits, Excused
<1> QED
    BY <1>2, <1>3, <1>4 DEF Channels, Greeting

LEMMA ClientInv == ASSUME Inv, Client PROVE Inv'
<1>1. CASE up
    <2>1. Channels'
        BY <1>1, OpeningChannels, TransactionChannels, FinishChannels DEF Client
    <2>2. (at' = "nil" => Excused) /\ UNCHANGED <<taken, firstLine>>
        <3>1. ~Finish => at' # "nil"
            <4>1. \A verb \in Verb : Write(verb) => at' # "nil"
                BY Written DEF Inv, Verb
            <4> QED
                BY <4>1 DEF Client, ReadGreeting, ExtendedHello, HandleCapabilities, StartTLS, Auth,
                   Mail, Recipient, Data, End, GoOn, InitAuth, Verb
        <3> QED
            BY <1>1, <3>1, FinishChannels, ClientTypes
    <2> QED
        BY <1>1, <2>1, <2>2, ClientTypes DEF Inv, CredentialsOverTLS, NilExcused, Excused
<1> QED
    BY <1>1, ClientBroken

-----------------------------------------------------------------------------
(* The remote server and the connection.                                   *)

LEMMA AnswerTypes ==
    /\ \A code \in {0, 220, 235, 250, 354, 550} : Answer(code) \in Reply /\ Answer(code).code = code
    /\ \A ext \in Extensions : [code |-> 250, ext |-> ext] \in Reply
BY DEF Answer, Reply, Extensions

LEMMA GreetsInv == ASSUME Inv, RemoteGreets PROVE Inv'
<1>1. /\ remote = "greeting" /\ remote' = "command"
      /\ UNCHANGED <<at, state, tls, firstLine, up, sent, taken, garbled, offered, refused>>
    BY DEF RemoteGreets, clientVars, historyVars
<1>2. TypeOK /\ Channels
    BY DEF Inv
<1>3. PICK code \in {220, 550} : Say(<<Answer(code)>>)
    BY DEF RemoteGreets
<1>4. replies' \in Seq(Reply) /\ IF up THEN Len(replies') = Len(replies) + 1 ELSE replies' = replies
    BY <1>2, <1>3, Said, AnswerTypes DEF Say, TypeOK
<1>5. TypeOK'
    BY <1>1, <1>2, <1>4 DEF TypeOK
<1>6. CASE up
    <2>1. at \in Ended \/ at = "greeting"
        BY <1>1, <1>2, <1>6 DEF Channels
    <2>2. at = "greeting" => Len(sent) = 0 /\ Len(replies) = 0
        BY <1>1, <1>2, <1>6 DEF Channels, Greeting
    <2>3. Channels'
        BY <1>1, <1>4, <1>6, <2>1, <2>2 DEF Channels, Greeting, Ended, Transaction
    <2> QED
        BY <1>1, <1>5, <2>3 DEF Inv, CredentialsOverTLS, NilExcused, Excused
<1>7. CASE ~up
    BY <1>1, <1>4, <1>5, <1>7 DEF Inv, CredentialsOverTLS, NilExcused, Excused, Channels, Fits
<1> QED
    BY <1>6, <1>7

\* The command that the remote answers is the only one under way, or the one
\* before it.
LEMMA Answered ==
    ASSUME Inv, up, at \notin Ended, NEW verb, sent # <<>>, Head(sent) = verb, sent' = Tail(sent)
    PROVE  /\ remote # "greeting" /\ at # "greeting"
           /\ \/ verb = at /\ Len(sent') = 0 /\ Len(replies) = 0
              \/ /\ verb = Prev(at) /\ verb # "EHLO" /\ at \in Transaction
                 /\ Len(sent') = 1 /\ sent'[1] = at /\ Len(replies) = 0
              \/ /\ verb = at /\ at \in Transaction
                 /\ Len(sent') = 0 /\ Len(replies) = 1 /\ Fits(Prev(at), replies[1])
<1>1. /\ Len(sent) > 0 /\ verb = sent[1] /\ Len(sent') = Len(sent) - 1
      /\ Len(sent) > 1 => sent'[1] = sent[2]
    BY Taken DEF Inv, TypeOK
<1>2. at # "greeting"
    BY <1>1 DEF Inv, Channels, Greeting
<1>3. remote # "greeting" /\ (InStep \/ Unreadable \/ (OneBehind /\ at \in Transaction))
    BY <1>2 DEF Inv, TypeOK, Channels, Verb, Transaction
<1>4. at \in Transaction => (Prev(at) = "EHLO" <=> at = "MAIL")
    BY DEF Transaction, Prev
<1> QED
    BY <1>1, <1>2, <1>3, <1>4 DEF InStep, Unreadable, OneBehind

LEMMA HelloInv == ASSUME Inv, RemoteHello PROVE Inv'
<1>1. /\ sent # <<>> /\ Head(sent) = "EHLO" /\ sent' = Tail(sent)
      /\ UNCHANGED <<at, state, tls, firstLine, up, offered, refused, remote, taken>>
    BY DEF RemoteHello, RemoteAnswers, clientVars
<1>2. TypeOK /\ Channels
    BY DEF Inv
<1>3. PICK ext \in Extensions :
          \/ Say(<<[code |-> 250, ext |-> ext]>>) /\ UNCHANGED garbled
          \/ garbled' = garbled + 1 /\ Say(<<Answer(0), [code |-> 250, ext |-> ext]>>)
    BY DEF RemoteHello
<1>4. /\ replies' \in Seq(Reply)
      /\ ~up => replies' = replies
      /\ up => \/ Len(replies') = Len(replies) + 1
               \/ Len(replies') = Len(replies) + 2 /\ replies'[Len(replies) + 1].code = 0
    <2> DEFINE hello == [code |-> 250, ext |-> ext]
    <2>1. hello \in Reply /\ Answer(0) \in Reply /\ Answer(0).code = 0 /\ replies \in Seq(Reply)
        BY <1>2, AnswerTypes DEF TypeOK
    <2>2. Say(<<hello>>) \/ Say(<<Answer(0), hello>>)
        BY <1>3
    <2> HIDE DEF hello
    <2>3. CASE Say(<<hello>>)
        BY <2>1, <2>3, Said DEF Say
    <2>4. CASE Say(<<Answer(0), hello>>)
        BY <2>1, <2>4, SaidTwo DEF Say
    <2> QED
        BY <2>2, <2>3, <2>4
<1>5. TypeOK'
    BY <1>1, <1>2, <1>3, <1>4, Taken DEF TypeOK
<1>6. CASE up /\ at \notin Ended
    <2>1. /\ remote # "greeting" /\ at = "EHLO" /\ Len(sent') = 0 /\ Len(replies) = 0
        BY <1>1, <1>6, Answered DEF Transaction
    <2>2. Len(replies') = 1 \/ (Len(replies') = 2 /\ replies'[1].code = 0)
        BY <1>4, <1>6, <2>1
    <2>3. Channels'
        BY <1>1, <1>6, <2>1, <2>2 DEF Channels, Greeting, InStep, Unreadable, Fits, Transaction
    <2> QED
        BY <1>1, <1>5, <1>6, <2>3 DEF Inv, CredentialsOverTLS, NilExcused, Excused, Ended
<1>7. CASE up /\ at \in Ended
    BY <1>1, <1>5, <1>7 DEF Inv, CredentialsOverTLS, NilExcused, Excused, Channels, Greeting, Ended,
       Transaction
<1>8. CASE ~up
    BY <1>1, <1>4, <1>5, <1>8 DEF Inv, CredentialsOverTLS, NilExcused, Excused, Channels, Fits
<1> QED
    BY <1>6, <1>7, <1>8

\* DATA is never answered with 250, and the mail only if it is taken or its first line
\* passes for a command.
LEMMA RepliesInv == ASSUME Inv, RemoteReplies PROVE Inv'
<1>1. PICK verb \in Verb, ok \in BOOLEAN :
          /\ sent # <<>> /\ Head(sent) = verb /\ sent' = Tail(sent)
          /\ UNCHANGED <<at, state, tls, firstLine, up, offered, refused, garbled>>
          /\ Say(<<Answer(IF ok THEN Positive(verb) ELSE 550)>>)
          /\ ok /\ verb = "body" => remote = "data" \/ firstLine = "command"
          /\ taken' = (taken \/ (ok /\ verb = "body" /\ remote = "data"))
          /\ remote' \in {"data", "command"}
    BY DEF RemoteReplies, RemoteAnswers, clientVars
<1>2. TypeOK /\ Channels
    BY DEF Inv
<1> DEFINE answer == Answer(IF ok THEN Positive(verb) ELSE 550)
<1>3. /\ answer \in Reply
      /\ verb = "DATA" => answer.code # 250
      /\ verb = "body" => (answer.code = 250 => taken' \/ firstLine = "command")
    BY <1>1, AnswerTypes DEF Positive, Verb
<1>4. /\ replies' \in Seq(Reply)
      /\ ~up => replies' = replies
      /\ up => /\ Len(replies') = Len(replies) + 1 /\ replies'[Len(replies) + 1] = answer
               /\ \A i \in 1 .. Len(replies) : replies'[i] = replies[i]
    BY <1>1, <1>2, <1>3, Said DEF Say, TypeOK
<1>5. (taken => taken') /\ firstLine' = firstLine
    BY <1>1
<1> HIDE DEF answer
<1>6. TypeOK'
    <2>1. sent' \in Seq(Verb)
        BY <1>1, <1>2, Taken DEF TypeOK
    <2>2. taken' \in BOOLEAN
        BY <1>1, <1>2 DEF TypeOK
    <2> QED
        BY <1>1, <1>2, <1>4, <2>1, <2>2 DEF TypeOK
<1>7. Fits(verb, answer)'
    BY <1>3, <1>5 DEF Fits
<1>8. CASE up /\ at \notin Ended
    <2>1. /\ remote # "greeting" /\ at # "greeting"
          /\ \/ verb = at /\ Len(sent') = 0 /\ Len(replies) = 0
             \/ /\ verb = Prev(at) /\ verb # "EHLO" /\ at \in Transaction
                /\ Len(sent') = 1 /\ sent'[1] = at /\ Len(replies) = 0
             \/ /\ verb = at /\ at \in Transaction
                /\ Len(sent') = 0 /\ Len(replies) = 1 /\ Fits(Prev(at), replies[1])
        BY <1>1, <1>8, Answered
    <2>2. ASSUME verb = at, Len(sent') = 0, Len(replies) = 0
          PROVE  Channels'
        <3>1. Len(replies') = 1 /\ replies'[1] = answer
            BY <1>4, <1>8, <2>2
        <3>2. (Fits(at, replies[1]))'
            BY <1>1, <1>7, <2>2, <3>1
        <3>3. InStep'
            BY <2>2, <3>1, <3>2 DEF InStep
        <3> QED
            BY <1>1, <1>8, <2>1, <3>3 DEF Channels, Greeting
    <2>3. ASSUME verb = Prev(at), verb # "EHLO", at \in Transaction,
                 Len(sent') = 1, sent'[1] = at, Len(replies) = 0
          PROVE  Channels'
        <3>1. Len(replies') = 1 /\ replies'[1] = answer
            BY <1>4, <1>8, <2>3
        <3>2. (Fits(Prev(at), replies[1]))'
            BY <1>1, <1>3, <1>5, <2>3, <3>1 DEF Fits
        <3>3. OneBehind'
            BY <1>1, <2>3, <3>1, <3>2 DEF OneBehind
        <3> QED
            BY <1>1, <1>8, <2>1, <2>3, <3>3 DEF Channels, Greeting, Transaction
    <2>4. ASSUME verb = at, at \in Transaction, Len(sent') = 0, Len(replies) = 1,
                 Fits(Prev(at), replies[1])
          PROVE  Channels'
        <3>1. Len(replies') = 2 /\ replies'[2] = answer /\ replies'[1] = replies[1]
            BY <1>4, <1>8, <2>4
        <3>2. (Fits(at, replies[2]))'
            BY <1>1, <1>3, <1>5, <2>4, <3>1 DEF Fits
        <3>3. (Fits(Prev(at), replies[1]))'
            BY <1>1, <1>5, <2>4, <3>1 DEF Fits
        <3>4. OneBehind'
            BY <1>1, <2>4, <3>1, <3>2, <3>3 DEF OneBehind
        <3> QED
            BY <1>1, <1>8, <2>1, <2>4, <3>4 DEF Channels, Greeting, Transaction
    <2>5. Channels'
        BY <2>1, <2>2, <2>3, <2>4
    <2> QED
        BY <1>1, <1>5, <1>6, <2>5 DEF Inv, CredentialsOverTLS, NilExcused, Excused
<1>9. CASE up /\ at \in Ended
    BY <1>1, <1>5, <1>6, <1>9 DEF Inv, CredentialsOverTLS, NilExcused, Excused, Channels, Greeting, Ended,
       Transaction
<1>10. CASE ~up
    BY <1>1, <1>4, <1>5, <1>6, <1>10 DEF Inv, CredentialsOverTLS, NilExcused, Excused, Channels, Fits
<1> QED
    BY <1>8, <1>9, <1>10

LEMMA BreakInv == ASSUME Inv, Break PROVE Inv'
<1>1. /\ up /\ up' = FALSE
      /\ UNCHANGED <<at, state, tls, firstLine, remote, taken, garbled, offered, refused>>
      /\ sent' = sent \/ sent' = <<>>
      /\ replies' = replies \/ replies' = <<>>
    BY DEF Break, clientVars, historyVars
<1>2. Len(<<>>) = 0 /\ <<>> \in Seq(Verb) /\ <<>> \in Seq(Reply)
    OBVIOUS
<1>3. TypeOK'
    BY <1>1, <1>2 DEF Inv, TypeOK
<1>4. ASSUME at = "body", Len(replies') > 0 PROVE Fits("body", replies'[1])
    <2>1. replies' = replies /\ Len(replies) > 0
        BY <1>1, <1>2, <1>4
    <2> QED
        BY <1>1, <1>4, <2>1 DEF Inv, Channels, Transaction, InStep, OneBehind, Prev, Fits
<1>5. Channels'
    BY <1>1, <1>4 DEF Channels, Fits
<1> QED
    BY <1>1, <1>3, <1>5 DEF Inv, CredentialsOverTLS, NilExcused, Excused

LEMMA StutterInv == ASSUME Inv, UNCHANGED vars PROVE Inv'
BY DEF vars, clientVars, channelVars, historyVars, Inv, TypeOK, CredentialsOverTLS, Channels,
   NilExcused, Excused, Greeting, InStep, OneBehind, Unreadable, Fits

\* The invariants and the state of the channels are inductive together.
THEOREM Inductive == Spec => []Inv
<1>1. Inv /\ [Next]_vars => Inv'
    BY ClientInv, GreetsInv, HelloInv, RepliesInv, BreakInv, StutterInv DEF Next, Remote
<1> QED
    BY <1>1, Initially, PTL DEF Spec

\* The type invariant of SendMail.
THEOREM TypeCorrect == Spec => []TypeOK
BY Inductive, PTL DEF Inv

\* AUTH is sent over TLS only (InitAuth).
THEOREM CredentialsAreSafe == Spec => []CredentialsOverTLS
BY Inductive, PTL DEF Inv

\* SendMail returns nil only for a mail that the remote has taken, whatever became
\* of the replies, or whose first line the remote answered as a command (SendMail,
\* ReadReply).
THEOREM ImplementsTransfer == Spec => TransferSpec
<1>1. Init => T!Init
    BY DEF Init, T!Init, Ended
<1>2. ASSUME Inv, Inv', [Next]_vars
      PROVE  [T!Next]_(T!vars)
    <2> USE DEF Ended
    <2>1. CASE Client
        <3>1. at \notin Ended /\ UNCHANGED <<taken, firstLine>>
            BY <2>1 DEF Client, ReadGreeting, ExtendedHello, StartTLS, Auth, Mail, Recipient, Data,
               Finish, ReadReply
        <3>2. at' = "nil" => taken \/ ~(firstLine = "text")
            BY <1>2, <3>1 DEF Inv, NilExcused, Excused
        <3> QED
            BY <3>1, <3>2 DEF T!Next, T!Succeed, T!Fail, T!vars
    <2>2. CASE Remote
        <3>1. UNCHANGED <<at, firstLine>>
            BY <2>2 DEF Remote, RemoteGreets, RemoteHello, RemoteReplies, RemoteAnswers, clientVars
        <3>2. taken' = taken \/ (~taken /\ taken' = TRUE)
            BY <1>2, <2>2 DEF Remote, RemoteGreets, RemoteHello, RemoteReplies, Inv, TypeOK
        <3> QED
            BY <3>1, <3>2 DEF T!Next, T!Take, T!vars
    <2>3. CASE Break \/ UNCHANGED vars
        BY <2>3 DEF Break, vars, clientVars, T!vars
    <2> QED
        BY <1>2, <2>1, <2>2, <2>3 DEF Next
<1> QED
    BY <1>1, <1>2, Inductive, PTL DEF Spec, TransferSpec, T!Spec
=============================================================================
