------------------------ MODULE PendingMail_proofs -------------------------
(***************************************************************************)
(* Theorems about PendingMail for every set of mails and every number of   *)
(* deaths, failures and copies.                                            *)
(*                                                                         *)
(* PInv is inductive.  What it says of the files is proved for one mail n  *)
(* at a time, as About(n); FactsOf gives what is known of n before a step. *)
(***************************************************************************)
EXTENDS PendingMail, TLAPS

USE PendingAssumption

\* What PInv says of one mail.
About(m) ==
    /\ FileFacts(m)
    /\ m \in pending \/ m = current => file[m] = "whole"
    /\ ~noSend /\ queue[m] = "accepted" =>
         file[m] = "whole" \/ copies[m] > 0 \/ m \in CommandLike
    /\ noSend /\ m \notin Leftover => copies[m] = 0 /\ file[m] = "none"

LEMMA FactsOf ==
    ASSUME PInv, NEW n \in Mail
    PROVE  /\ About(n)
           /\ file[n] \in {"none", "partial", "whole"}
           /\ copies[n] \in Nat /\ excuses[n] \in Nat
<1>1. FileFacts(n)
    BY DEF PInv, FileInv
<1>2. n \in pending \/ n = current => file[n] = "whole"
    BY DEF PInv, TransferInv, RelaysWholeMails
<1> QED
    BY <1>1 DEF PInv, TypeOK, TransferInv, RelaysWholeMails, AcceptedNotLost,
                SkippedNotSent, About

LEMMA OneMore == ASSUME NEW k \in Nat, NEW l \in {k, k + 1} PROVE l \in Nat
OBVIOUS

LEMMA InitPInv == Init => PInv
<1> SUFFICES ASSUME Init PROVE PInv
    OBVIOUS
<1>1. TypeOK /\ TransferInv
    BY DEF Init, TypeOK, TransferInv, Transfer!Init, Answer
<1>2. \A n \in Mail : About(n)
    BY DEF Init, About, FileFacts
<1> QED
    BY <1>1, <1>2 DEF PInv, FileInv, RelaysWholeMails, AcceptedNotLost, SkippedNotSent, About

-----------------------------------------------------------------------------
(* QueueMail changes the file of one mail, and only one that was not yet   *)
(* whole: none that the loop has.                                          *)

LEMMA QueuePInv ==
    ASSUME PInv, NEW m \in Mail, QueueMail(m)
    PROVE  PInv'
<1> USE DEF SkipMail, CreateFile, FillFile, Accept, RefuseMail, Told, sessionVars
<1>1. TypeOK'
    <2>1. file' \in [Mail -> {"none", "partial", "whole"}]
        BY DEF PInv, TypeOK, QueueMail
    <2>3. queue' \in [Mail -> Answer]
        <3>1. queue \in [Mail -> Answer]
            BY DEF PInv, TypeOK
        <3>2. \E a \in Answer : queue' = [queue EXCEPT ![m] = a]
            BY DEF QueueMail, Answer
        <3> QED
            BY <3>1, <3>2
    <2>2. failures' \in Nat
        BY DEF PInv, TypeOK, QueueMail, historyVars
    <2> QED
        BY <2>1, <2>2, <2>3 DEF PInv, TypeOK, QueueMail, loopVars, historyVars
<1>2. TransferInv'
    BY DEF PInv, TransferInv, QueueMail, loopVars, historyVars
<1>3. ASSUME NEW n \in Mail PROVE About(n)'
    <2>1. UNCHANGED <<noSend, loop, pending, current, taken, copies, excuses>>
        BY DEF QueueMail, loopVars, historyVars
    <2>2. About(n) /\ copies[n] \in Nat /\ excuses[n] \in Nat
        BY FactsOf
    <2>3. CASE n # m
        <3>1. file'[n] = file[n] /\ queue'[n] = queue[n]
            BY <2>3 DEF QueueMail, PInv, TypeOK
        <3> QED
            BY <2>1, <2>2, <3>1 DEF About, FileFacts
    <2>4. CASE n = m
        <3>1. \/ noSend /\ queue[n] = "start" /\ queue'[n] = "accepted" /\ file'[n] = file[n]
              \/ ~noSend /\ queue[n] = "start" /\ queue'[n] = "writing" /\ file'[n] = "partial"
              \/ queue[n] = "writing" /\ queue'[n] = "written" /\ file'[n] = "whole"
              \/ queue[n] = "written" /\ queue'[n] = "accepted" /\ file'[n] = file[n]
              \/ queue[n] \in {"start", "writing"} /\ queue'[n] = "refused" /\ file'[n] = file[n]
            <4>1. n \in DOMAIN file /\ n \in DOMAIN queue
                BY DEF PInv, TypeOK
            <4>2. CASE SkipMail(m)
                BY <2>4, <4>1, <4>2
            <4>3. CASE CreateFile(m)
                BY <2>4, <4>1, <4>3
            <4>4. CASE FillFile(m)
                BY <2>4, <4>1, <4>4
            <4>5. CASE Accept(m)
                BY <2>4, <4>1, <4>5
            <4>6. CASE RefuseMail(m)
                BY <2>4, <4>1, <4>6
            <4> QED
                BY <4>2, <4>3, <4>4, <4>5, <4>6 DEF QueueMail
        <3>2. CASE queue[n] = "start"
            <4>1. file[n] = "none" /\ ~(n \in pending \/ n = current)
                BY <2>2, <3>2 DEF About, FileFacts
            <4> QED
                BY <2>1, <2>2, <3>1, <3>2, <4>1 DEF About, FileFacts
        <3>3. CASE queue[n] = "writing"
            BY ONLY <2>1, <2>2, <3>1, <3>3 DEF About, FileFacts
        <3>4. CASE queue[n] = "written"
            BY ONLY <2>1, <2>2, <3>1, <3>4 DEF About, FileFacts
        <3> QED
            BY <3>1, <3>2, <3>3, <3>4
    <2> QED
        BY <2>3, <2>4
<1> QED
    BY <1>1, <1>2, <1>3
    DEF PInv, FileInv, RelaysWholeMails, AcceptedNotLost, SkippedNotSent, About

-----------------------------------------------------------------------------
(* Reading the directory and choosing a mail change only the loop's sets.  *)

LEMMA ReadPInv ==
    ASSUME PInv, \/ Tick \/ ReadAll \/ EndTick
                 \/ \E m \in Mail : ReadFile(m) \/ NoServer(m)
    PROVE  PInv'
<1> USE DEF Tick, ReadAll, EndTick, ReadFile, NoServer, sessionVars, historyVars
<1>1. TypeOK'
    BY DEF PInv, TypeOK, Files
<1>2. TransferInv'
    BY DEF PInv, TransferInv
<1>3. ASSUME NEW n \in Mail PROVE About(n)'
    <2>1. UNCHANGED <<file, sessionVars, current, taken, copies, excuses>>
          /\ loop # "transfer" /\ loop' # "transfer"
        BY DEF TransferInv, PInv
    <2>2. n \in pending' => n \in pending \/ file[n] = "whole"
        OBVIOUS
    <2> QED
        BY <2>1, <2>2, FactsOf DEF About, FileFacts
<1> QED
    BY <1>1, <1>2, <1>3
    DEF PInv, FileInv, RelaysWholeMails, AcceptedNotLost, SkippedNotSent, About

-----------------------------------------------------------------------------
(* The relay of one mail.                                                  *)

LEMMA RelayPInv ==
    ASSUME PInv, NEW m \in Mail, Relay(m)
    PROVE  PInv'
<1> USE DEF Relay, sessionVars
<1>1. TypeOK'
    BY DEF PInv, TypeOK
<1>2. TransferInv'
    BY DEF PInv, TransferInv
<1>3. ASSUME NEW n \in Mail PROVE About(n)'
    BY FactsOf DEF About, FileFacts
<1> QED
    BY <1>1, <1>2, <1>3
    DEF PInv, FileInv, RelaysWholeMails, AcceptedNotLost, SkippedNotSent, About

LEMMA RemoteTakesPInv ==
    ASSUME PInv, RemoteTakes
    PROVE  PInv'
<1> USE DEF RemoteTakes, Transfer!Take, sessionVars
<1>0. current \in Mail /\ file[current] = "whole" /\ ~taken /\ copies[current] \in Nat
    BY FactsOf DEF PInv, TypeOK, TransferInv, About
<1>1. TypeOK'
    <2>1. copies' \in [Mail -> Nat]
        <3>1. copies \in [Mail -> Nat]
            BY DEF PInv, TypeOK
        <3>2. copies[current] + 1 \in Nat
            BY <1>0
        <3> QED
            BY <1>0, <3>1, <3>2
    <2> QED
        BY <2>1 DEF PInv, TypeOK
<1>2. TransferInv'
    <2>1. copies'[current] = copies[current] + 1
        BY <1>0 DEF PInv, TypeOK
    <2> QED
        BY <1>0, <2>1 DEF PInv, TransferInv
<1>3. ASSUME NEW n \in Mail PROVE About(n)'
    <2>1. About(n) /\ copies[n] \in Nat /\ excuses[n] \in Nat
        BY FactsOf
    <2>2. CASE n = current
        <3>1. copies'[n] = copies[n] + 1
            BY <2>2, <1>0 DEF PInv, TypeOK
        <3> QED
            BY <2>1, <2>2, <3>1, <1>0 DEF About, FileFacts
    <2>3. CASE n # current
        <3>1. copies'[n] = copies[n]
            BY <2>3, <1>0 DEF PInv, TypeOK
        <3> QED
            BY <2>1, <2>3, <3>1 DEF About, FileFacts
    <2> QED
        BY <2>2, <2>3
<1> QED
    BY <1>1, <1>2, <1>3
    DEF PInv, FileInv, RelaysWholeMails, AcceptedNotLost, SkippedNotSent, About

\* nil is returned only for a mail that was taken, or that begins like a command: what
\* Transfer promises.
LEMMA RelayEndsPInv ==
    ASSUME PInv, RelayEnds
    PROVE  PInv'
<1> USE DEF RelayEnds, Transfer!Succeed, Transfer!Fail, sessionVars, historyVars
<1>1. TypeOK'
    BY DEF PInv, TypeOK
<1>2. TransferInv'
    <2>1. UNCHANGED <<taken, current>> /\ (outcome' = "nil" => taken \/ current \in CommandLike)
        OBVIOUS
    <2> QED
        BY <2>1 DEF PInv, TransferInv
<1>3. ASSUME NEW n \in Mail PROVE About(n)'
    <2>1. UNCHANGED <<file, sessionVars, loop, pending, current, taken, copies, excuses>>
        OBVIOUS
    <2> QED
        BY <2>1, FactsOf DEF About, FileFacts
<1> QED
    BY <1>1, <1>2, <1>3
    DEF PInv, FileInv, RelaysWholeMails, AcceptedNotLost, SkippedNotSent, About

\* The file is removed only after nil.
LEMMA RemovePInv ==
    ASSUME PInv, Remove
    PROVE  PInv'
<1> USE DEF Remove, Resume, sessionVars
<1>0. /\ current \in Mail /\ current \notin pending
      /\ (taken /\ copies[current] > 0) \/ current \in CommandLike
      /\ file[current] = "whole"
    BY FactsOf DEF PInv, TypeOK, TransferInv, About
<1>1. TypeOK'
    BY DEF PInv, TypeOK
<1>2. TransferInv'
    BY DEF PInv, TypeOK, TransferInv
<1>3. ASSUME NEW n \in Mail PROVE About(n)'
    <2>1. About(n) /\ copies[n] \in Nat /\ excuses[n] \in Nat
        BY FactsOf
    <2>2. CASE n = current
        <3>1. file'[n] = "none" /\ n \notin pending'
            BY <2>2, <1>0 DEF PInv, TypeOK
        <3> QED
            BY <2>1, <2>2, <3>1, <1>0 DEF About, FileFacts
    <2>3. CASE n # current
        <3>1. file'[n] = file[n]
            BY <2>3, <1>0 DEF PInv, TypeOK
        <3> QED
            BY <2>1, <2>3, <3>1 DEF About, FileFacts
    <2> QED
        BY <2>2, <2>3
<1> QED
    BY <1>1, <1>2, <1>3
    DEF PInv, FileInv, RelaysWholeMails, AcceptedNotLost, SkippedNotSent, About

\* A mail that was taken and is kept has one excuse more, whether the relay returned
\* an error, the removal failed or the server died.
LEMMA ExcusedAbout ==
    ASSUME PInv, NEW n \in Mail,
           noSend' = noSend, file' = file, copies' = copies,
           queue'[n] = queue[n] \/ queue'[n] = "cut off",
           queue[n] = "start" => queue'[n] = "start",
           loop' # "transfer", current' \notin Mail,
           pending' \subseteq pending,
           loop = "transfer" /\ current = n /\ taken => excuses'[n] = excuses[n] + 1,
           excuses'[n] \in {excuses[n], excuses[n] + 1}
    PROVE  About(n)'
<1>1. About(n) /\ copies[n] \in Nat /\ excuses[n] \in Nat
    BY FactsOf
<1>2. queue'[n] = "start" => file[n] = "none"
    BY <1>1 DEF About, FileFacts
<1>3. \/ copies[n] <= excuses'[n]
      \/ copies[n] = excuses'[n] + 1 /\ file[n] = "none" /\ queue[n] # "start"
    <2>0. /\ copies[n] <= excuses[n] => copies[n] <= excuses'[n]
          /\ copies[n] = excuses[n] + 1
                => copies[n] <= excuses'[n] \/ copies[n] = excuses'[n] + 1
          /\ (copies[n] <= excuses[n] \/ copies[n] = excuses[n] + 1)
             /\ excuses'[n] = excuses[n] + 1 => copies[n] <= excuses'[n]
        <3> DEFINE c == copies[n]
                   e == excuses[n]
                   f == excuses'[n]
        <3>1. c \in Nat /\ e \in Nat /\ (f = e \/ f = e + 1)
            BY <1>1
        <3> HIDE DEF c, e, f
        <3>2. /\ c <= e => c <= f
              /\ c = e + 1 => c <= f \/ c = f + 1
              /\ (c <= e \/ c = e + 1) /\ f = e + 1 => c <= f
            BY ONLY <3>1
        <3> QED
            BY <3>2 DEF c, e, f
    <2>1. CASE copies[n] <= excuses[n]
        BY <2>0, <2>1
    <2>2. CASE loop = "transfer" /\ current = n /\ taken
        <3>1. copies[n] <= excuses[n] \/ copies[n] = excuses[n] + 1
            BY <1>1 DEF About, FileFacts
        <3> QED
            BY <2>0, <2>2, <3>1
    <2>3. CASE copies[n] = excuses[n] + 1 /\ file[n] = "none" /\ queue[n] # "start"
        BY <2>0, <2>3
    <2> QED
        BY <1>1, <2>1, <2>2, <2>3 DEF About, FileFacts
<1> QED
    BY <1>1, <1>2, <1>3 DEF About, FileFacts

LEMMA KeepPInv ==
    ASSUME PInv, Keep
    PROVE  PInv'
<1> USE DEF Keep, Resume, sessionVars
<1>0. current \in Mail
    BY DEF PInv, TypeOK, TransferInv
<1>1. TypeOK'
    <2>1. excuses' \in [Mail -> Nat]
        <3>1. excuses \in [Mail -> Nat]
            BY DEF PInv, TypeOK
        <3>2. excuses[current] \in Nat /\ excuses[current] + 1 \in Nat
            BY <1>0, <3>1
        <3> QED
            BY <1>0, <3>1, <3>2
    <2>2. failures' \in Nat
        <3>1. failures \in Nat /\ failures' \in {failures, failures + 1}
            BY DEF PInv, TypeOK
        <3> QED
            BY <3>1, OneMore
    <2> QED
        BY <2>1, <2>2 DEF PInv, TypeOK
<1>2. TransferInv'
    BY DEF PInv, TypeOK, TransferInv
<1>3. ASSUME NEW n \in Mail PROVE About(n)'
    <2>1. /\ loop = "transfer" /\ current = n /\ taken => excuses'[n] = excuses[n] + 1
          /\ excuses'[n] \in {excuses[n], excuses[n] + 1}
        BY <1>0 DEF PInv, TypeOK
    <2> QED
        BY <2>1, ExcusedAbout
<1> QED
    BY <1>1, <1>2, <1>3
    DEF PInv, FileInv, RelaysWholeMails, AcceptedNotLost, SkippedNotSent, About

LEMMA DiePInv ==
    ASSUME PInv, Die
    PROVE  PInv'
<1> USE DEF Die, sessionVars
<1>1. TypeOK'
    <2>1. excuses' \in [Mail -> Nat]
        <3>1. excuses \in [Mail -> Nat]
            BY DEF PInv, TypeOK
        <3>2. ASSUME NEW m \in Mail PROVE excuses'[m] \in Nat
            <4>1. excuses[m] \in Nat /\ excuses'[m] \in {excuses[m], excuses[m] + 1}
                BY <3>1
            <4> QED
                BY <4>1, OneMore
        <3> QED
            BY <3>2
    <2>2. deaths' \in Nat
        <3>1. deaths \in Nat /\ deaths' \in {deaths, deaths + 1}
            BY DEF PInv, TypeOK
        <3> QED
            BY <3>1, OneMore
    <2>3. queue' \in [Mail -> Answer]
        <3>1. \A m \in Mail : queue[m] \in Answer
            BY DEF PInv, TypeOK
        <3> QED
            BY <3>1 DEF Answer
    <2> QED
        BY <2>1, <2>2, <2>3 DEF PInv, TypeOK
<1>2. TransferInv'
    BY DEF PInv, TypeOK, TransferInv
<1>3. ASSUME NEW n \in Mail PROVE About(n)'
    <2>1. /\ loop = "transfer" /\ current = n /\ taken => excuses'[n] = excuses[n] + 1
          /\ excuses'[n] \in {excuses[n], excuses[n] + 1}
        BY DEF PInv, TypeOK, TransferInv
    <2>2. /\ queue'[n] = queue[n] \/ queue'[n] = "cut off"
          /\ queue[n] = "start" => queue'[n] = "start"
        BY DEF PInv, TypeOK
    <2> QED
        BY <2>1, <2>2, ExcusedAbout
<1> QED
    BY <1>1, <1>2, <1>3
    DEF PInv, FileInv, RelaysWholeMails, AcceptedNotLost, SkippedNotSent, About

-----------------------------------------------------------------------------
\* PInv is an invariant: the loop and the sessions share the directory without a
\* lock, the process may die in any step, and what is known of every file and of
\* the mail in transfer still holds.
THEOREM PendingInvariant == Spec => []PInv
<1>1. PInv /\ [Next]_vars => PInv'
    <2> SUFFICES ASSUME PInv, [Next]_vars PROVE PInv'
        OBVIOUS
    <2>1. CASE Next
        BY <2>1, QueuePInv, ReadPInv, RelayPInv, RemoteTakesPInv, RelayEndsPInv,
           RemovePInv, KeepPInv, DiePInv
        DEF Next, ProcessPendingMail
    <2>2. CASE UNCHANGED vars
        <3>1. TypeOK' /\ TransferInv'
            BY <2>2 DEF vars, sessionVars, loopVars, historyVars, PInv, TypeOK, TransferInv
        <3>2. \A n \in Mail : About(n)'
            BY <2>2, FactsOf DEF vars, sessionVars, loopVars, historyVars, About, FileFacts
        <3> QED
            BY <3>1, <3>2 DEF PInv, FileInv, RelaysWholeMails, AcceptedNotLost, SkippedNotSent, About
    <2> QED
        BY <2>1, <2>2
<1> QED
    BY <1>1, InitPInv, PTL DEF Spec

\* A mail whose client was told 250, and whose first line is no command, is in the
\* directory or was taken by a remote server (QueueMail, processPendingMail).
THEOREM AcceptedMailKept == Spec => []AcceptedNotLost
<1>1. PInv => AcceptedNotLost
    BY DEF PInv
<1> QED
    BY <1>1, PendingInvariant, PTL

\* No half written file is ever relayed (readLocalPendingMails).
THEOREM WholeMailsRelayed == Spec => []RelaysWholeMails
<1>1. PInv => RelaysWholeMails
    BY DEF PInv
<1> QED
    BY <1>1, PendingInvariant, PTL

\* Every copy but the first has its excuse (processPendingMail).
THEOREM CopiesHaveExcuse == Spec => []CopiesExcused
<1>1. PInv => CopiesExcused
    <2> SUFFICES ASSUME PInv, NEW m \in Mail PROVE copies[m] <= 1 + excuses[m]
        BY DEF CopiesExcused
    <2>1. About(m) /\ copies[m] \in Nat /\ excuses[m] \in Nat
        BY FactsOf
    <2> QED
        BY <2>1 DEF About, FileFacts
<1> QED
    BY <1>1, PendingInvariant, PTL

\* What is accepted under -no-send is not sent (QueueMail).
THEOREM SkippedKept == Spec => []SkippedNotSent
<1>1. PInv => SkippedNotSent
    BY DEF PInv
<1> QED
    BY <1>1, PendingInvariant, PTL
=============================================================================
