----------------------------- MODULE MCMaildir -----------------------------
(* Instances of Maildir for TLC.                                           *)
EXTENDS MaildirInv, TLC

Symmetry == Permutations(Mail) \cup Permutations(Session)
=============================================================================
