----------------------------- MODULE MCMailPath -----------------------------
(* Instances of MailPath for TLC.                                          *)
EXTENDS MailPath, TLC
=============================================================================
