----------------------------- MODULE UIDLedger -----------------------------
(***************************************************************************)
(* What a mailbox owes an IMAP client about unique identifiers, without    *)
(* directories, locks, sessions or crashes: a ledger that is only ever     *)
(* added to.  Under one UIDVALIDITY a new entry gets a UID that was not    *)
(* given before and is not below the UIDNEXT announced so far.             *)
(***************************************************************************)
EXTENDS Integers

VARIABLES
    ledger,    \* the entries [validity, uid, uniq] made so far
    validity,  \* the UIDVALIDITY, 0 while the mailbox has never held a mail
    next       \* the UIDNEXT

vars == <<ledger, validity, next>>

Init == ledger = {} /\ validity = 0 /\ next = 1

Entries == ledger' \ ledger

\* Entries are made, each under a UID of its own from next .. next' - 1.
Issue ==
    /\ ledger \subseteq ledger'
    /\ \A e \in Entries : e.validity = validity' /\ e.uid >= next /\ e.uid < next'
    /\ \A e, f \in Entries : e.uid = f.uid => e = f
    /\ next' >= next
    /\ validity \in {0, validity'}

Next == Issue

Spec == Init /\ [][Next]_vars
=============================================================================
