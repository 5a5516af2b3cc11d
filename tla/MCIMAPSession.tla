--------------------------- MODULE MCIMAPSession ---------------------------
(* Instances of IMAPSession for TLC.                                       *)
EXTENDS IMAPSession, TLC
=============================================================================
