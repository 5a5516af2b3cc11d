------------------------------ MODULE MailPath ------------------------------
(***************************************************************************)
(* One mail as handleMail and handleData of the SMTP server take it: on    *)
(* the inbound port SPF is asked of the domain of the sender before a      *)
(* transaction begins, and then the text of the mail goes its way.         *)
(***************************************************************************)
EXTENDS MailText

CONSTANTS Hosts, Sender, MaxTerms, MaxLater, MaxRedirects

VARIABLES host, count, answer, result

V == INSTANCE SPF

ASSUME PathAssumption == V!SPFAssumption

spfVars == <<host, count, answer, result>>

PathInit == Init /\ V!Init

\* handleMail: VerifySPFHost.
Verify ==
    /\ stage = "idle" /\ serverType = "inbound"
    /\ V!VerifySPFHost
    /\ UNCHANGED vars

\* Only a pass begins a transaction; the variables of the verification end with it.
Begin ==
    /\ result = "pass" /\ answer # None
    /\ host' = Sender /\ count' = 0 /\ answer' = None
    /\ UNCHANGED <<vars, result>>

Take ==
    /\ serverType = "inbound" => result = "pass" /\ answer = None
    /\ SendData
    /\ UNCHANGED spfVars

Handle ==
    /\ DataFails \/ DataLine \/ HandleData \/ Queue \/ Relay \/ Fetch
    /\ UNCHANGED spfVars

PathNext == Verify \/ Begin \/ Take \/ Handle

\* The resolver answers or times out; nothing is said of the client.
PathSpec == PathInit /\ [][PathNext]_<<vars, spfVars>> /\ WF_<<vars, spfVars>>(Verify)

-----------------------------------------------------------------------------
(* Properties.                                                             *)

PathTypeOK == TypeOK /\ V!TypeOK

\* What the SMTP server takes a mail on is what the SPF record says: see SPF.
EvaluatesMeaning == V!EvaluatesMeaning

\* A verification ends, even if the records redirect in a circle or the DNS makes up
\* a new host each time (the count in verifySPFHost).
VerificationEnds == serverType = "inbound" => <>(result # None)
=============================================================================
