------------------------------ MODULE MailText ------------------------------
(***************************************************************************)
(* The text of one mail on its way through the system: the lines that a    *)
(* client sends after DATA, read by handleData and ReadDataLine, given a   *)
(* Message-ID on the send port (AppendHeader), then either stored and      *)
(* shown to an IMAP client (package imf), or written to pending-mails as   *)
(* JSON and sent on by ClientSession.SendMail, which a server like ours    *)
(* reads again.                                                            *)
(*                                                                         *)
(* Text is made of octets of six kinds, enough to write every line that    *)
(* one of these programs treats in its own way: "m" stands for the name    *)
(* Message-ID, "b" for a blank (space, tab and the like), "8" for an octet *)
(* above 127 that is not part of valid UTF-8 (and neither 133 nor 160,     *)
(* which the header parser takes for blanks).  The connection holds        *)
(* (SMTPSession is about connections that do not).                         *)
(***************************************************************************)
EXTENDS Naturals, Sequences, SequencesExt, FiniteSetsExt

CONSTANTS
    MaxLine,    \* octets of a line (998)
    MaxSize,    \* octets of a mail, with its ends of lines (64000)
    MaxOctets,  \* bound: octets of a line the client sends
    MaxLines,   \* bound: lines the client sends
    MaxText,    \* bound: octets of a mail that is not all dots
    None        \* nothing shown yet

\* The line that AppendHeader adds is no longer than the limit.
ASSUME TextAssumption ==
    /\ MaxLine \in Nat /\ MaxLine > 2 /\ MaxSize \in Nat
    /\ MaxOctets \in Nat /\ MaxLines \in Nat /\ MaxText \in Nat

Octet == {".", ":", "b", "m", "x", "8"}
CRLF == <<"CR", "LF">>
Line == Seq(Octet)

\* currentSize of handleData, once it has read these lines.
Size(text) == Len(FlattenSeq([i \in DOMAIN text |-> text[i] \o CRLF]))

\* Mails of short lines, and of dots up to one more than the limit of a line.
Mail ==
    LET Dots(n) == [i \in 1 .. n |-> "."] IN
    {text \in BoundedSeq(BoundedSeq(Octet, MaxOctets), MaxLines) : Size(text) <= MaxText}
      \cup BoundedSeq({Dots(n) : n \in 0 .. MaxLine + 1}, MaxLines)

VARIABLES
    serverType,  \* the port the mail came to
    mail,        \* the lines the client sends
    stage,       \* where the mail is
    wire,        \* octets on the connection that are not yet read
    lines,       \* lines read from it so far
    data,        \* MailTransaction.Data, without the CRLF of each line
    shown        \* what FETCH shows of the stored mail, or None

vars == <<serverType, mail, stage, wire, lines, data, shown>>

-----------------------------------------------------------------------------
(* Lines on the wire.                                                      *)

\* Bug: only a line that is the final dot is stuffed.
StuffAlone(line) == IF line = <<".">> THEN <<".">> \o line ELSE line

Stuff(line) == IF IsPrefix(<<".">>, line) THEN <<".">> \o line ELSE line

\* SendMail, and any client that knows of the final dot.
Encode(text) ==
    FlattenSeq([i \in DOMAIN text |-> Stuff(text[i]) \o CRLF]) \o <<".">> \o CRLF

\* Where the first line of the wire ends.
EndOfLine == Min({i \in DOMAIN wire : wire[i] = "CR" /\ wire[i + 1] = "LF"})

\* ReadDataLine reads a line that begins with no dot or with two, and ends the data
\* if the final dot follows.
Raw == SubSeq(wire, 1, EndOfLine - 1)
Rest == SubSeq(wire, EndOfLine + 2, Len(wire))
LoneDot == IsPrefix(<<".">>, Raw) /\ ~IsPrefix(<<".", ".">>, Raw)
Unstuffed == IF IsPrefix(<<".">>, Raw) THEN Tail(Raw) ELSE Raw

\* Bug: the limit counts the dot that stuffing added.
RawTooLong == Len(Raw) > MaxLine

TooLong == Len(Unstuffed) > MaxLine

Terminator == <<".">> \o CRLF
Terminated == IsPrefix(Terminator, Rest)

Init ==
    /\ serverType \in {"inbound", "send"}
    /\ stage = "idle"
    /\ mail = <<>> /\ wire = <<>> /\ lines = <<>> /\ data = <<>> /\ shown = None

\* The client sends the lines of a mail.
SendData ==
    /\ stage = "idle"
    /\ mail' \in Mail
    /\ wire' = Encode(mail')
    /\ stage' = "sending"
    /\ UNCHANGED <<serverType, lines, data, shown>>

Failed == IF stage = "sending" THEN "refused" ELSE "kept"
Taken == IF stage = "sending" THEN "received" ELSE "relayed"

\* What is left on the wire after an error is read as commands.
DataFails ==
    /\ stage \in {"sending", "relaying"}
    /\ LoneDot \/ TooLong
    /\ stage' = Failed
    /\ UNCHANGED <<serverType, mail, wire, lines, data, shown>>

\* The size is looked at after every line, the last one included.
DataLine ==
    /\ stage \in {"sending", "relaying"}
    /\ ~LoneDot /\ ~TooLong
    /\ lines' = Append(lines, Unstuffed)
    /\ wire' = IF Terminated THEN SubSeq(Rest, Len(Terminator) + 1, Len(Rest)) ELSE Rest
    /\ stage' = IF Size(lines') > MaxSize THEN Failed
                ELSE IF Terminated THEN Taken ELSE stage
    /\ UNCHANGED <<serverType, mail, data, shown>>

-----------------------------------------------------------------------------
(* The transaction.                                                        *)

MessageID == <<"m", ":", "x">>

\* The name at the beginning of any line will do.
HasHeader(text) == \E i \in DOMAIN text : IsPrefix(<<"m">>, text[i])

EmptyLines(text) == {i \in DOMAIN text : text[i] = <<>>}

\* Before the first empty line; a text without one stays as it is.
AppendHeader(text) ==
    IF HasHeader(text) \/ EmptyLines(text) = {} THEN text
    ELSE InsertAt(text, Min(EmptyLines(text)), MessageID)

HandleData ==
    /\ stage = "received"
    /\ data' = IF serverType = "send" THEN AppendHeader(lines) ELSE lines
    /\ stage' = "accepted"
    /\ UNCHANGED <<serverType, mail, wire, lines, shown>>

\* The encoder of JSON puts U+FFFD, three octets, for what is not valid UTF-8.
JSON(line) ==
    FlattenSeq([i \in DOMAIN line |-> IF line[i] = "8" THEN <<"8", "8", "8">> ELSE <<line[i]>>])

\* QueueMail writes the mail, and readLocalPendingMails reads it.
Queue ==
    /\ stage = "accepted" /\ serverType = "send"
    /\ data' = [i \in DOMAIN data |-> JSON(data[i])]
    /\ stage' = "queued"
    /\ UNCHANGED <<serverType, mail, wire, lines, shown>>

Relay ==
    /\ stage = "queued"
    /\ wire' = Encode(data)
    /\ lines' = <<>>
    /\ stage' = "relaying"
    /\ UNCHANGED <<serverType, mail, data, shown>>

-----------------------------------------------------------------------------
(* The stored mail, as FETCH shows it.                                     *)

\* string(byte) is the UTF-8 of the character with that number: two octets from 128
\* on, be the octet part of valid UTF-8 or not.
Recoded(line) ==
    FlattenSeq([i \in DOMAIN line |-> IF line[i] = "8" THEN <<"8", "8">> ELSE <<line[i]>>])

\* strings.TrimSpace.
Solid(line) == {i \in DOMAIN line : line[i] # "b"}
Trimmed(line) ==
    IF Solid(line) = {} THEN <<>> ELSE SubSeq(line, Min(Solid(line)), Max(Solid(line)))

\* readHeader: the name ends at the first colon, or with the line.
Colons(line) == {i \in DOMAIN line : line[i] = ":"}
Name(line) ==
    Trimmed(IF Colons(line) = {} THEN line ELSE SubSeq(line, 1, Min(Colons(line)) - 1))
Value(line) ==
    IF Colons(line) = {} THEN <<>> ELSE Trimmed(SubSeq(line, Min(Colons(line)) + 1, Len(line)))

\* Bug: a header line without a value separates, too.
SeparatorsAny(text) == {i \in DOMAIN text : Name(text[i]) = <<>> \/ Value(text[i]) = <<>>}

\* A header line with neither name nor value separates the header from the body.
Separators(text) == {i \in DOMAIN text : Name(text[i]) = <<>> /\ Value(text[i]) = <<>>}

\* The map keeps the last header of each name.
Kept(text, i) == \A j \in i + 1 .. Min(Separators(text)) - 1 : Name(text[j]) # Name(text[i])

MessageFormat(text) ==
    LET separator == Min(Separators(text)) IN
    [headers |-> {<<Recoded(Name(text[i])), Recoded(Value(text[i]))>> :
                    i \in {j \in 1 .. separator - 1 : Kept(text, j)}},
     body |-> [i \in 1 .. Len(text) - separator |-> Recoded(text[separator + i])]]

\* StoreLocalMail and then FETCH.  Without a separator NewMessageFormat comes to the
\* end of the file: the message is not found.
Fetch ==
    /\ stage = "accepted"
    /\ IF Separators(data) = {}
       THEN stage' = "unreadable" /\ UNCHANGED shown
       ELSE stage' = "shown" /\ shown' = MessageFormat(data)
    /\ UNCHANGED <<serverType, mail, wire, lines, data>>

Next == SendData \/ DataFails \/ DataLine \/ HandleData \/ Queue \/ Relay \/ Fetch

Spec == Init /\ [][Next]_vars

-----------------------------------------------------------------------------
(* Properties.                                                             *)

TypeOK ==
    /\ serverType \in {"inbound", "send"}
    /\ mail \in Seq(Line) /\ lines \in Seq(Line) /\ data \in Seq(Line)
    /\ stage \in {"idle", "sending", "refused", "received", "accepted", "queued",
                  "relaying", "relayed", "kept", "shown", "unreadable"}
    /\ wire \in Seq(Octet \cup {"CR", "LF"})
    /\ shown = None \/ (shown.headers \subseteq Line \X Line /\ shown.body \in Seq(Line))

Plain(line) == \A j \in DOMAIN line : line[j] # "8"
SevenBit(text) == \A i \in DOMAIN text : Plain(text[i])
Fits(text) == \A i \in DOMAIN text : Len(text[i]) <= MaxLine

\* The mail, or with one line more before its first empty line.
IsMail(text) ==
    \/ text = mail
    \/ \E i \in EmptyLines(mail) :
         /\ text = InsertAt(mail, i, MessageID)
         /\ \A j \in 1 .. i - 1 : mail[j] # <<>>

\* What handleData takes is the mail, line for line, whatever dots it has, and
\* nothing of it is left to be read as a command; it refuses only a mail without a
\* line, with a line that is too long, or of more octets than it takes.  The
\* transaction is that mail, with at most one line more before its first empty line
\* (ReadDataLine, AppendHeader).
DataArrives ==
    /\ stage = "refused" => mail = <<>> \/ ~Fits(mail) \/ Size(mail) > MaxSize
    /\ stage = "received" => lines = mail /\ wire = <<>>
    /\ stage \in {"accepted", "shown", "unreadable"} => IsMail(data)

\* A mail of plain ASCII that was accepted passes a next server like this one whole:
\* its lines, its dots and what is queued in between.  The exception is a mail so long
\* that the Message-ID takes it past the limit (SendMail, ReadDataLine, QueueMail).
RelayedWhole ==
    SevenBit(mail) =>
      /\ stage = "kept" => Size(mail) + Size(<<MessageID>>) > MaxSize
      /\ stage = "relayed" => IsMail(lines) /\ wire = <<>>

\* Lines of blanks and at most one colon: where a header may end.
Borders(text) ==
    {i \in DOMAIN text :
       \A j \in DOMAIN text[i] :
          /\ text[i][j] \in {"b", ":"}
          /\ \A k \in 1 .. j - 1 : text[i][j] = ":" => text[i][k] # ":"}

\* FETCH shows every mail that has a line of blanks and at most one colon, and takes the
\* first such line for the end of its header.  No line after it is lost or shown as
\* a header, and those of plain ASCII are shown as they are.  A header of plain ASCII
\* is shown name for name, each name with the value of the last line that has it
\* (NewMessageFormat, RawHeaders, RawBody).
ShownAsStored ==
    /\ stage = "unreadable" => Borders(data) = {}
    /\ stage = "shown" =>
         LET n == Min(Borders(data)) IN
         /\ Borders(data) # {}
         /\ Len(shown.body) = Len(data) - n
         /\ \A i \in DOMAIN shown.body :
               Plain(data[n + i]) => shown.body[i] = data[n + i]
         /\ (\A i \in 1 .. n - 1 : Plain(data[i])) =>
               /\ {h[1] : h \in shown.headers} = {Name(data[i]) : i \in 1 .. n - 1}
               /\ \A h \in shown.headers :
                     \E i \in 1 .. n - 1 :
                        /\ h = <<Name(data[i]), Value(data[i])>>
                        /\ \A j \in i + 1 .. n - 1 : Name(data[j]) # h[1]

\* "body is a list of lines as raw text" (imf.go:19).
BodyIsRaw ==
    stage = "shown" => \A i \in DOMAIN shown.body : \E j \in DOMAIN data : shown.body[i] = data[j]
=============================================================================
