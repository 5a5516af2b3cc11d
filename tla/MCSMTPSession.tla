--------------------------- MODULE MCSMTPSession ---------------------------
(* Instances of SMTPSession for TLC.                                       *)
EXTENDS SMTPSession, TLC
=============================================================================
