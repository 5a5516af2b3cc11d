------------------------------ MODULE Transfer ------------------------------
(***************************************************************************)
(* What relaying one mail promises: relay (SendMail) returns nil only if   *)
(* the remote server has taken the mail, or the mail begins with a line    *)
(* that can pass for an SMTP command.  Nothing is promised the other way   *)
(* round: the remote may have taken a mail whose relay returns an error,   *)
(* or kills the process.                                                   *)
(***************************************************************************)

VARIABLES
    outcome,  \* "running", "nil", "error" or "panic"
    taken,    \* whether the remote server has taken the mail
    plain     \* whether the first line of the mail is none that a server would
              \* answer with 250 if it read it as a command

vars == <<outcome, taken, plain>>

Init == outcome = "running" /\ taken = FALSE /\ plain \in BOOLEAN

\* The remote answers the data with 250, whoever still listens.
Take ==
    /\ ~taken
    /\ taken' = TRUE
    /\ UNCHANGED outcome

Succeed ==
    /\ outcome = "running"
    /\ taken \/ ~plain
    /\ outcome' = "nil"
    /\ UNCHANGED taken

Fail ==
    /\ outcome = "running"
    /\ outcome' \in {"error", "panic"}
    /\ UNCHANGED taken

Next == (Take \/ Succeed \/ Fail) /\ UNCHANGED plain

Spec == Init /\ [][Next]_vars
=============================================================================
