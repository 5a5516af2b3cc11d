------------------------- MODULE MaildirView_proofs -------------------------
(***************************************************************************)
(* Theorems about what a session of Maildir sees: every mail that was      *)
(* stored when it took the lock, each under the UID it always had, in the  *)
(* order of the UIDs.                                                      *)
(***************************************************************************)
EXTENDS MaildirDisk_proofs

USE MaildirAssumption

-----------------------------------------------------------------------------
(* Arrangements.                                                           *)

\* An arrangement of a finite set leaves nothing out.
LEMMA ArrangementIsOnto ==
    ASSUME NEW S, IsFiniteSet(S), NEW q \in SetToSeqs(S), NEW x \in S
    PROVE  \E i \in DOMAIN q : q[i] = x
<1> DEFINE D == 1 .. Cardinality(S)
<1>1. Cardinality(S) \in Nat
    BY FS_CardinalityType
<1>2. q \in [D -> S] /\ \A i, j \in D : i # j => q[i] # q[j]
    BY DEF SetToSeqs
<1> SUFFICES ASSUME \A i \in D : q[i] # x
             PROVE  FALSE
    BY <1>2
<1>3. q \in [D -> S \ {x}]
    BY <1>2
<1>4. IsFiniteSet(D) /\ Cardinality(D) = Cardinality(S)
    BY <1>1, FS_Interval
<1>5. IsFiniteSet(S \ {x}) /\ Cardinality(S \ {x}) = Cardinality(S) - 1
    BY FS_RemoveElement
<1>6. Cardinality(S \ {x}) < Cardinality(D)
    BY <1>1, <1>4, <1>5
<1> HIDE DEF D
<1> QED
    BY <1>2, <1>3, <1>4, <1>5, <1>6, FS_PigeonHole

LEMMA OldMessagesAll ==
    ASSUME TypeOK, NEW old \in ByUIDOrder(Assigned)
    PROVE  /\ DOMAIN old = 1 .. Len(old)
           /\ \A m \in Assigned : \E i \in DOMAIN old : old[i] = m
           /\ \A i, j \in DOMAIN old : i # j => old[i] # old[j]
           /\ \A i, j \in DOMAIN old : i < j => old[i].uid <= old[j].uid
<1>1. Assigned \subseteq Message
    BY DEF Assigned, TypeOK, Record, Message, File
<1>2. IsFiniteSet(Assigned)
    BY <1>1, MessagesFinite, FS_Subset
<1>3. old \in SetToSeqs(Assigned) /\ \A i, j \in DOMAIN old : i < j => old[i].uid <= old[j].uid
    BY DEF ByUIDOrder
<1> QED
    BY <1>2, <1>3, ArrangementIsSeq, ArrangementIsOnto

LEMMA FreshNamesAll ==
    ASSUME TypeOK, NEW fresh \in ByNameOrder(Unassigned)
    PROVE  /\ \A f \in Unassigned : \E i \in DOMAIN fresh : fresh[i] = f
           /\ \A i, j \in DOMAIN fresh : i # j => fresh[i] # fresh[j]
<1>1. Unassigned \subseteq File
    BY DEF Unassigned, TypeOK
<1>2. IsFiniteSet(Unassigned)
    BY <1>1, FilesFinite, FS_Subset
<1>3. fresh \in SetToSeqs(Unassigned)
    BY DEF ByNameOrder
<1> QED
    BY <1>2, <1>3, ArrangementIsSeq, ArrangementIsOnto

\* The messages of a sync: the old ones, then one for each new name.
LEMMA AppendedMessages ==
    ASSUME TypeOK, NEW old \in ByUIDOrder(Assigned), NEW fresh \in ByNameOrder(Unassigned)
    PROVE  /\ Len(old) \in Nat /\ Len(fresh) \in Nat
           /\ DOMAIN Appended(old, fresh) = 1 .. Len(old) + Len(fresh)
           /\ \A i \in 1 .. Len(old) : Appended(old, fresh)[i] = old[i]
           /\ \A i \in 1 .. Len(fresh) :
                 Appended(old, fresh)[Len(old) + i] =
                   [uid |-> GivenUID(i), uniq |-> fresh[i][1], seen |-> fresh[i][2]]
<1> DEFINE made(i) == [uid |-> GivenUID(i), uniq |-> fresh[i][1], seen |-> fresh[i][2]]
           added == [i \in 1 .. Len(fresh) |-> made(i)]
           All == {made(i) : i \in 1 .. Len(fresh)}
<1>1. Len(fresh) \in Nat /\ DOMAIN fresh = 1 .. Len(fresh)
    BY FreshNames
<1>2. old \in Seq(Message) /\ Len(old) \in Nat
    BY OldMessages
<1>3. Appended(old, fresh) = old \o added
    BY <1>1 DEF Appended
<1>4. \A i \in 1 .. Len(fresh) : added[i] = made(i)
    OBVIOUS
<1>5. added \in [1 .. Len(fresh) -> All]
    OBVIOUS
<1> HIDE DEF added, All, made
<1>6. added \in Seq(All) /\ Len(added) = Len(fresh)
    BY <1>1, <1>5, FunctionIsSeq
<1>7. DOMAIN (old \o added) = 1 .. Len(old) + Len(fresh)
    BY <1>2, <1>6
<1>8. \A i \in 1 .. Len(old) : (old \o added)[i] = old[i]
    BY <1>1, <1>2, <1>6
<1>9. \A i \in 1 .. Len(fresh) : (old \o added)[Len(old) + i] = added[i]
    BY <1>1, <1>2, <1>6
<1> QED
    BY <1>1, <1>2, <1>3, <1>4, <1>7, <1>8, <1>9 DEF made

-----------------------------------------------------------------------------
(* A sync overlooks no mail that is due.                                   *)

DueInvOf(m) ==
    /\ phase \in {"list", "migrate"} /\ new[name[m]] = m => name[m] \in todo
    /\ phase = "scan" => \E f \in names \ flux :
          f[1] = name[m] /\ (races < MaxRaces => cur[f] = m)
    /\ phase = "load" => \E f \in names : f[1] = name[m]
    /\ phase \in {"commit", "publish"} => Shows(lock, m)

LEMMA DueInvParts ==
    DueInv <=> /\ phase # "scan" => flux = {}
               /\ \A m \in due : mpc[m] = "stored"
               /\ \A m \in SureDue : DueInvOf(m)
BY DEF DueInv, DueInvOf

LEMMA SureDueShrinks ==
    ASSUME UNCHANGED <<mpc, name>>, due' \subseteq due, gone \subseteq gone'
    PROVE  SureDue' \subseteq SureDue
BY DEF SureDue, Unshared

\* Steps that leave the holder's scan and the snapshot it has made alone.
LEMMA DueFrame ==
    ASSUME DueInv,
           UNCHANGED <<phase, lock, names, flux, due, races, gone, cur>>,
           \A m \in due : name'[m] = name[m] /\ mpc'[m] = mpc[m],
           SureDue' \subseteq SureDue,
           \A m \in SureDue' : new'[name[m]] = new[name[m]],
           todo \subseteq todo',
           phase \in {"commit", "publish"} => mbox'[lock] = mbox[lock]
    PROVE  DueInv'
<1>1. \A m \in SureDue' : DueInvOf(m)'
    <2> SUFFICES ASSUME NEW m \in SureDue'
                 PROVE  DueInvOf(m)'
        OBVIOUS
    <2>0. m \in SureDue /\ m \in due
        BY DEF SureDue
    <2>1. DueInvOf(m)
        BY <2>0, DueInvParts
    <2>2. phase \in {"commit", "publish"} => Shows(lock, m)'
        BY <2>0, <2>1 DEF DueInvOf, Shows
    <2> QED
        BY <2>0, <2>1, <2>2 DEF DueInvOf
<1> QED
    BY <1>1 DEF DueInv, DueInvOf

LEMMA DueIdle ==
    ASSUME Release
    PROVE  DueInv'
BY DEF Release, DueInv, SureDue

LEMMA StoreMailDue ==
    ASSUME DueInv, DiskInv, [Next]_vars, NEW n \in Mail, StoreMail(n)
    PROVE  DueInv'
<1> USE DEF storeVars, deliveryVars, syncVars, sessionVars, historyVars
<1>1. mpc[n] # "stored"
    BY DEF StoreMail, GenerateUniqueMeta, Spool, MoveToNew, SyncNew, FailStore
<1>2. UNCHANGED <<phase, lock, names, flux, due, races, gone, cur, mbox>>
    BY DEF StoreMail, GenerateUniqueMeta, Spool, MoveToNew, SyncNew, FailStore
<1>3. todo \subseteq todo'
    BY DEF StoreMail, GenerateUniqueMeta, Spool, MoveToNew, SyncNew, FailStore, MayList
<1>4. \A m \in Mail : m # n => name'[m] = name[m] /\ mpc'[m] = mpc[m]
    BY DEF StoreMail, GenerateUniqueMeta, Spool, MoveToNew, SyncNew, FailStore, DiskInv, TypeOK
<1>5. new' = new \/ (mpc[n] = "spooled" /\ new' = [new EXCEPT ![name[n]] = n])
    BY DEF StoreMail, GenerateUniqueMeta, Spool, MoveToNew, SyncNew, FailStore
<1>6. \A m \in due : m \in Mail /\ mpc[m] = "stored" /\ m # n /\ name[m] \in Uniq
    BY <1>1 DEF DueInv, DiskInv, TypeOK
<1>7. \A u \in Uniq : Unshared(u)' => Unshared(u)
    BY StepKeepsNames, UnsharedBefore DEF DiskInv
<1>8. ASSUME NEW m \in SureDue'
      PROVE  m \in SureDue /\ new'[name[m]] = new[name[m]]
    <2>1. m \in due /\ m \notin gone /\ Unshared(name[m])'
        BY <1>2 DEF SureDue
    <2>2. Unshared(name[m])
        BY <1>4, <1>6, <1>7, <2>1
    <2>3. mpc[n] = "spooled" => name[m] # name[n]
        BY <1>6, <2>1, <2>2 DEF Unshared
    <2>4. m \in SureDue
        BY <2>1, <2>2 DEF SureDue
    <2> QED
        BY <1>5, <1>6, <2>1, <2>3, <2>4 DEF DiskInv, TypeOK
<1> QED
    BY <1>2, <1>3, <1>4, <1>6, <1>8, DueFrame

LEMMA BeginSyncDue ==
    ASSUME DueInv, DiskInv, NEW s \in Session, BeginSync(s)
    PROVE  DueInv'
<1>1. /\ phase' = "list" /\ todo' = Names(new)
      /\ due' = {m \in Mail : mpc[m] = "stored" /\ m \notin gone}
      /\ UNCHANGED <<new, name, mpc, flux>>
    BY DEF BeginSync, storeVars, deliveryVars
<1>2. phase = "idle"
    BY DEF BeginSync, DiskInv, TypeOK
<1>3. flux' = {}
    BY <1>1, <1>2 DEF DueInv
<1>4. \A m \in due' : name[m] \in Uniq /\ (new[name[m]] = m => name[m] \in Names(new))
    BY <1>1 DEF DiskInv, TypeOK, Names
<1> QED
    BY <1>1, <1>3, <1>4 DEF DueInv, SureDue

LEMMA MigrateDue ==
    ASSUME DueInv, DiskInv, NEW s \in Session, Migrate(s)
    PROVE  DueInv'
<1>1. PICK u \in todo : new' = [new EXCEPT ![u] = None] /\ todo' = todo \ {u}
    BY DEF Migrate
<1>2. phase \in {"list", "migrate"} /\ phase' = "migrate" /\ UNCHANGED <<name, mpc, flux, due, gone>>
    BY DEF Migrate, deliveryVars, historyVars
<1>3. u \in Uniq
    BY DEF DiskInv, TypeOK
<1>4. ASSUME NEW m \in SureDue, new'[name[m]] = m
      PROVE  name[m] \in todo'
    <2>1. m \in Mail /\ m # None
        BY DEF DiskInv, TypeOK, SureDue
    <2>2. name[m] # u /\ new[name[m]] = m
        BY <1>1, <1>3, <1>4, <2>1 DEF DiskInv, TypeOK
    <2> QED
        BY <1>1, <1>2, <2>2 DEF DueInv
<1>5. SureDue' \subseteq SureDue
    BY <1>2, SureDueShrinks
<1> QED
    BY <1>2, <1>4, <1>5 DEF DueInv

LEMMA BeginScanDue ==
    ASSUME DueInv, DiskInv, NEW s \in Session, BeginScan(s)
    PROVE  DueInv'
<1>1. /\ phase \in {"list", "migrate"} /\ todo = {} /\ phase' = "scan" /\ names' = Names(cur)
      /\ UNCHANGED <<cur, name, mpc, flux, due, gone, races>>
    BY DEF BeginScan, storeVars, deliveryVars, historyVars
<1>2. flux' = {}
    BY <1>1 DEF DueInv
<1>3. ASSUME NEW m \in SureDue
      PROVE  \E f \in names' : f[1] = name[m] /\ cur[f] = m
    <2>1. /\ m \in Mail /\ m # None /\ mpc[m] = "stored" /\ name[m] \in Uniq
          /\ m \notin gone /\ Unshared(name[m])
        BY DEF DueInv, DiskInv, TypeOK, SureDue
    <2>2. new[name[m]] # m
        BY <1>1 DEF DueInv
    <2>3. PICK b \in BOOLEAN : cur[<<name[m], b>>] = m
        BY <2>1, <2>2 DEF DiskInv, Kept
    <2>4. <<name[m], b>> \in File
        BY <2>1 DEF File
    <2>5. <<name[m], b>> \in names'
        BY <1>1, <2>1, <2>3, <2>4 DEF Names, DiskInv, TypeOK
    <2> QED
        BY <2>3, <2>5
<1>4. SureDue' \subseteq SureDue
    BY <1>1, SureDueShrinks
<1> QED
    BY <1>1, <1>2, <1>3, <1>4 DEF DueInv

LEMMA EndScanDue ==
    ASSUME DueInv, NEW s \in Session, EndScan(s)
    PROVE  DueInv'
<1>1. /\ phase = "scan" /\ phase' = "load" /\ flux' = {}
      /\ UNCHANGED <<name, mpc, due, gone>>
    BY DEF EndScan, deliveryVars, historyVars
<1>2. names \ flux \subseteq names'
    BY DEF EndScan
<1>3. SureDue' \subseteq SureDue
    BY <1>1, SureDueShrinks
<1> QED
    BY <1>1, <1>2, <1>3 DEF DueInv

\* Every name of the scan is a message of the mailbox the holder makes.
LEMMA NamesShown ==
    ASSUME TypeOK, NEW f \in names
    PROVE  f \in Unassigned \/ \E m \in Assigned : m.uniq = f[1]
<1>1. f \in File /\ f = <<f[1], f[2]>>
    BY DEF TypeOK, File
<1>2. CASE \E r \in index : r.uniq = f[1]
    <2>1. PICK r \in index : r.uniq = f[1]
        BY <1>2
    <2>2. r \in Record
        BY DEF TypeOK
    <2> DEFINE m == [uid |-> r.uid, uniq |-> r.uniq, seen |-> f[2]]
    <2>3. [uid |-> m.uid, uniq |-> m.uniq] = r
        BY <2>2 DEF Record
    <2>4. <<m.uniq, m.seen>> = f
        BY <1>1, <2>1
    <2>5. m \in [uid : {q.uid : q \in index}, uniq : {g[1] : g \in names}, seen : BOOLEAN]
        BY <1>1, <2>1 DEF File
    <2>6. m \in Assigned
        BY <2>3, <2>4, <2>5 DEF Assigned
    <2> QED
        BY <2>1, <2>6
<1> QED
    BY <1>2 DEF Unassigned

LEMMA AssignUIDsDue ==
    ASSUME DueInv, DiskInv, NEW s \in Session, AssignUIDs(s)
    PROVE  DueInv'
<1>1. PICK old \in ByUIDOrder(Assigned), fresh \in ByNameOrder(Unassigned) :
          mbox' = [mbox EXCEPT ![s] = Selected(Assign(fresh), Appended(old, fresh))]
    BY DEF AssignUIDs
<1>2. /\ lock = s /\ lock' = s /\ phase = "load" /\ phase' = "commit"
      /\ UNCHANGED <<name, mpc, flux, due, gone>>
    BY DEF AssignUIDs, deliveryVars
<1>3. mbox'[s].msgs = Appended(old, fresh)
    BY <1>1 DEF DiskInv, TypeOK, Selected
<1>4. TypeOK
    BY DEF DiskInv
<1>5. ASSUME NEW m \in SureDue
      PROVE  Shows(s, m)'
    <2>1. PICK f \in names : f[1] = name[m]
        BY <1>2 DEF DueInv
    <2>2. CASE f \in Unassigned
        <3>1. PICK i \in 1 .. Len(fresh) : fresh[i] = f
            BY <1>4, <2>2, FreshNamesAll, FreshNames
        <3>2. /\ Len(old) + i \in DOMAIN Appended(old, fresh)
              /\ Appended(old, fresh)[Len(old) + i].uniq = name[m]
            <4>1. /\ Len(old) \in Nat /\ Len(fresh) \in Nat
                  /\ DOMAIN Appended(old, fresh) = 1 .. Len(old) + Len(fresh)
                BY <1>4, AppendedMessages
            <4>2. Appended(old, fresh)[Len(old) + i] =
                    [uid |-> GivenUID(i), uniq |-> fresh[i][1], seen |-> fresh[i][2]]
                BY <1>4, AppendedMessages
            <4>3. Appended(old, fresh)[Len(old) + i].uniq = name[m]
                BY <2>1, <3>1, <4>2
            <4> QED
                BY <4>1, <4>3
        <3> QED
            BY <1>2, <1>3, <3>2 DEF Shows
    <2>3. CASE \E a \in Assigned : a.uniq = f[1]
        <3>1. PICK i \in 1 .. Len(old) : old[i].uniq = name[m]
            BY <1>4, <2>1, <2>3, OldMessagesAll
        <3>2. i \in DOMAIN Appended(old, fresh) /\ Appended(old, fresh)[i].uniq = name[m]
            BY <1>4, <3>1, AppendedMessages
        <3> QED
            BY <1>2, <1>3, <3>2 DEF Shows
    <2> QED
        BY <1>4, <2>2, <2>3, NamesShown
<1>6. SureDue' \subseteq SureDue /\ due \subseteq due'
    BY <1>2, SureDueShrinks
<1> QED
    BY <1>2, <1>5, <1>6 DEF DueInv

LEMMA GetMailboxDue ==
    ASSUME DueInv, DiskInv, NEW s \in Session, GetMailbox(s)
    PROVE  DueInv'
<1> USE DEF storeVars, deliveryVars, syncVars, sessionVars, historyVars
<1>1. CASE Select(s)
    BY <1>1, DueFrame, SureDueShrinks DEF Select
<1>2. CASE CommitList(s)
    <2>1. /\ phase = "commit" /\ phase' = "publish"
          /\ UNCHANGED <<lock, mbox, name, mpc, flux, due, gone>>
        BY <1>2 DEF CommitList
    <2>2. SureDue' \subseteq SureDue
        BY <2>1, SureDueShrinks
    <2> QED
        BY <2>1, <2>2 DEF DueInv, Shows
<1>3. CASE NothingChanged(s) \/ Publish(s) \/ AbortSync(s)
    BY <1>3, DueIdle DEF NothingChanged, Publish, AbortSync
<1> QED
    BY <1>1, <1>2, <1>3, BeginSyncDue, MigrateDue, BeginScanDue, EndScanDue, AssignUIDsDue
       DEF GetMailbox, SyncStep

\* A rename that races with the scan takes what it touches out of the mails that
\* are due; the others' names in the scan stay certain.
LEMMA TouchDue ==
    ASSUME DueInv, TypeOK, NEW fs \in SUBSET File, Touch(fs),
           UNCHANGED <<phase, lock, names, new, todo, name, mpc>>,
           gone \subseteq gone',
           \A f \in File : f \notin fs => cur'[f] = cur[f],
           phase \in {"commit", "publish"} => mbox'[lock] = mbox[lock]
    PROVE  DueInv'
<1>1. CASE phase = "scan" /\ races < MaxRaces
    <2>1. flux' = flux \cup fs /\ due' = due \ {cur[f] : f \in fs}
        BY <1>1 DEF Touch
    <2>0. SureDue' \subseteq SureDue /\ SureDue' \subseteq due'
        BY <2>1, SureDueShrinks DEF SureDue
    <2>2. ASSUME NEW m \in SureDue'
          PROVE  \E f \in names \ flux' : f[1] = name[m] /\ cur'[f] = m
        <3>1. PICK f \in names \ flux : f[1] = name[m] /\ cur[f] = m
            BY <1>1, <2>0 DEF DueInv
        <3>2. f \notin fs /\ f \in File
            BY <2>0, <2>1, <3>1 DEF TypeOK
        <3> QED
            BY <2>1, <3>1, <3>2
    <2> QED
        BY <1>1, <2>1, <2>2 DEF DueInv
<1>2. CASE ~(phase = "scan" /\ races < MaxRaces)
    <2>1. UNCHANGED <<flux, due, races>>
        BY <1>2 DEF Touch
    <2>2. SureDue' \subseteq SureDue
        BY <2>1, SureDueShrinks
    <2>3. \A m \in SureDue' : phase \in {"commit", "publish"} => Shows(lock, m)'
        BY <2>2 DEF DueInv, Shows
    <2> QED
        BY <1>2, <2>1, <2>2, <2>3 DEF DueInv
<1> QED
    BY <1>1, <1>2

LEMMA RenamedElsewhere ==
    ASSUME TypeOK, NEW a \in File, NEW b \in File
    PROVE  \A f \in File : f \notin {a, b} => Renamed(a, b)[f] = cur[f]
BY DEF TypeOK, Renamed

LEMMA OpenMailboxDue ==
    ASSUME DueInv, DiskInv, NEW s \in Session, OpenMailbox(s)
    PROVE  DueInv'
<1> USE DEF storeVars, deliveryVars, syncVars, sessionVars, historyVars
<1>1. TypeOK
    BY DEF DiskInv
<1>2. CASE (\E i \in 1 .. 2 * MaxTick : Lookup(s, i)) \/ Fetched(s)
    <2>1. UNCHANGED <<phase, lock, names, flux, due, races, gone, cur, name, mpc, new, todo, mbox>>
        BY <1>2 DEF Lookup, Fetched
    <2> QED
        BY <2>1, DueFrame, SureDueShrinks
<1>3. CASE Close(s)
    <2>1. UNCHANGED <<phase, lock, names, flux, due, races, gone, cur, name, mpc, new, todo>>
        BY <1>3 DEF Close
    <2>2. lock # s /\ mbox' = [mbox EXCEPT ![s] = Unselected]
        BY <1>1, <1>3 DEF Close, TypeOK
    <2>3. mbox'[lock] = mbox[lock]
        BY <1>1, <2>2 DEF TypeOK
    <2> QED
        BY <2>1, <2>3, DueFrame, SureDueShrinks
<1>4. ASSUME NEW add \in BOOLEAN, NEW seenFirst \in BOOLEAN, NEW bad \in BOOLEAN,
             UpdateFlags(s, add, seenFirst, bad)
      PROVE  DueInv'
    <2> DEFINE msg == mbox[s].msgs[at[s]]
               seen == IF seenFirst THEN add ELSE msg.seen
    <2>1. UNCHANGED <<phase, lock, names, gone, name, mpc, new, todo>> /\ pc[s] = "found"
        BY <1>4 DEF UpdateFlags
    <2>2. msg.uniq \in Uniq /\ msg.seen \in BOOLEAN /\ seen \in BOOLEAN
        <3>1. at[s] \in DOMAIN mbox[s].msgs /\ mbox[s].msgs \in Seq(Message)
            BY <1>1, <2>1 DEF TypeOK
        <3>2. msg \in Message
            BY <3>1
        <3> QED
            BY <3>2 DEF Message
    <2>3. \/ UNCHANGED <<cur, flux, due, races>>
          \/ /\ cur' = Renamed(<<msg.uniq, msg.seen>>, <<msg.uniq, seen>>)
             /\ Touch({<<msg.uniq, msg.seen>>, <<msg.uniq, seen>>})
        BY <1>4 DEF UpdateFlags, FileOf
    <2>4. mbox'[lock] = mbox[lock]
        <3>1. lock # s
            BY <1>1, <2>1 DEF TypeOK
        <3>2. mbox' = [mbox EXCEPT ![s].msgs[at[s]].seen = seen]
            BY <1>4 DEF UpdateFlags
        <3> HIDE DEF seen
        <3> QED
            BY <1>1, <3>1, <3>2 DEF TypeOK
    <2> HIDE DEF msg, seen
    <2>5. CASE UNCHANGED <<cur, flux, due, races>>
        BY <2>1, <2>4, <2>5, DueFrame, SureDueShrinks
    <2>6. CASE /\ cur' = Renamed(<<msg.uniq, msg.seen>>, <<msg.uniq, seen>>)
               /\ Touch({<<msg.uniq, msg.seen>>, <<msg.uniq, seen>>})
        <3>1. <<msg.uniq, msg.seen>> \in File /\ <<msg.uniq, seen>> \in File
            BY <2>2 DEF File
        <3>2. \A f \in File : f \notin {<<msg.uniq, msg.seen>>, <<msg.uniq, seen>>} => cur'[f] = cur[f]
            BY <1>1, <2>6, <3>1, RenamedElsewhere
        <3> QED
            BY <1>1, <2>1, <2>4, <2>6, <3>1, <3>2, TouchDue
    <2> QED
        BY <2>3, <2>5, <2>6
<1> QED
    BY <1>2, <1>3, <1>4 DEF OpenMailbox

LEMMA NextDueInv ==
    ASSUME DueInv, DiskInv, [Next]_vars
    PROVE  DueInv'
<1> USE DEF storeVars, deliveryVars, syncVars, sessionVars, historyVars
<1>1. ASSUME NEW f \in File, Vanish(f)
      PROVE  DueInv'
    <2>1. /\ UNCHANGED <<phase, lock, names, new, todo, name, mpc, mbox>>
          /\ gone \subseteq gone' /\ Touch({f}) /\ cur' = [cur EXCEPT ![f] = None]
        BY <1>1 DEF Vanish
    <2>2. TypeOK /\ \A g \in File : g \notin {f} => cur'[g] = cur[g]
        BY <2>1 DEF DiskInv, TypeOK
    <2> QED
        BY <2>1, <2>2, TouchDue
<1>2. CASE IMAPCrash
    BY <1>2, DueIdle DEF IMAPCrash
<1>3. CASE UNCHANGED vars
    BY <1>3, DueFrame, SureDueShrinks DEF vars
<1> QED
    BY <1>1, <1>2, <1>3, StoreMailDue, GetMailboxDue, OpenMailboxDue DEF Next

\* The invariant of a sync's view: until the mailbox is returned every mail that
\* is due, and shares its name with no other, is still to be moved, scanned or shown.
THEOREM DueInductive == Spec => [](DiskInv /\ DueInv)
<1>1. Init => DueInv
    BY DEF Init, DueInv, SureDue
<1>2. DiskInv /\ DueInv /\ [Next]_vars => (DiskInv /\ DueInv)'
    BY NextDiskInv, NextDueInv, NextTypeOK DEF DiskInv
<1> QED
    BY <1>1, <1>2, InitDiskInv, PTL DEF Spec

\* A session that opens the mailbox sees every mail that was stored when it took
\* the lock and is still there under a name of its own: by the early return or after
\* the rewrite, whatever is delivered, renamed or removed between the steps of its
\* sync, and before and after UIDList.Next has wrapped.
THEOREM StoredMailSeen == Spec => SelectSeesStoredMail
<1>1. ASSUME DiskInv, DueInv, [Next]_vars, NEW s \in Session, pc[s] = "sync", pc'[s] = "open",
             NEW m \in SureDue
      PROVE  \E i \in DOMAIN mbox'[s].msgs : mbox'[s].msgs[i].uniq = name[m]
    <2> USE DEF storeVars, deliveryVars, syncVars, sessionVars, historyVars
    <2>1. TypeOK /\ lock = s
        BY <1>1 DEF DiskInv, TypeOK
    <2>2. CASE NothingChanged(s)
        <3>1. PICK old \in ByUIDOrder(Assigned) : mbox' = [mbox EXCEPT ![s] = Selected(list, old)]
            BY <2>2 DEF NothingChanged
        <3>2. phase = "load" /\ Unassigned = {}
            BY <2>2 DEF NothingChanged
        <3>3. PICK f \in names : f[1] = name[m]
            BY <1>1, <3>2 DEF DueInv
        <3>4. PICK a \in Assigned : a.uniq = name[m]
            BY <2>1, <3>2, <3>3, NamesShown
        <3>5. PICK i \in DOMAIN old : old[i].uniq = name[m]
            BY <2>1, <3>4, OldMessagesAll
        <3>6. mbox'[s].msgs = old
            BY <2>1, <3>1 DEF TypeOK, Selected
        <3> QED
            BY <3>5, <3>6
    <2>3. CASE Publish(s)
        <3>1. phase = "publish" /\ mbox' = mbox
            BY <2>3 DEF Publish
        <3> QED
            BY <1>1, <2>1, <3>1 DEF DueInv, Shows
    <2>4. NothingChanged(s) \/ Publish(s)
        <3>1. ASSUME NEW n \in Mail, StoreMail(n)
              PROVE  FALSE
            BY <1>1, <3>1 DEF StoreMail, GenerateUniqueMeta, Spool, MoveToNew, SyncNew, FailStore
        <3>2. ASSUME NEW t \in Session, GetMailbox(t), ~NothingChanged(s), ~Publish(s)
              PROVE  FALSE
            BY <1>1, <2>1, <3>2 DEF GetMailbox, SyncStep, Select, BeginSync, Migrate, BeginScan,
               EndScan, NothingChanged, AssignUIDs, CommitList, Publish, AbortSync, TypeOK
        <3>3. ASSUME NEW t \in Session, OpenMailbox(t)
              PROVE  FALSE
            BY <1>1, <2>1, <3>3 DEF OpenMailbox, Lookup, Close, Fetched, UpdateFlags, TypeOK
        <3>4. ASSUME NEW f \in File, Vanish(f)
              PROVE  FALSE
            BY <1>1, <3>4 DEF Vanish
        <3>5. CASE IMAPCrash
            BY <1>1, <3>5 DEF IMAPCrash
        <3>6. CASE UNCHANGED vars
            BY <1>1, <3>6 DEF vars
        <3> QED
            BY <1>1, <3>1, <3>2, <3>3, <3>4, <3>5, <3>6 DEF Next
    <2> QED
        BY <2>2, <2>3, <2>4
<1>2. DiskInv /\ DueInv /\ [Next]_vars =>
        [\A s \in Session : pc[s] = "sync" /\ pc'[s] = "open" =>
            \A m \in due \ gone :
                Unshared(name[m]) =>
                    \E i \in DOMAIN mbox'[s].msgs : mbox'[s].msgs[i].uniq = name[m]]_vars
    BY <1>1 DEF SureDue
<1> QED
    BY <1>2, DueInductive, PTL DEF Spec, SelectSeesStoredMail

-----------------------------------------------------------------------------
(* A file keeps its record.                                                *)

\* A name whose mail is delivered never comes back to new/, and once its file
\* has gone from cur/ it stays away.
LEMMA SettledStays ==
    ASSUME DiskInv, [Next]_vars, NEW u \in Uniq, Unshared(u), Settled(u)
    PROVE  Settled(u)' /\ (HasFile(u)' => HasFile(u))
<1> USE DEF storeVars, deliveryVars, syncVars, sessionVars, historyVars
<1>1. new[u] = None /\ TypeOK
    BY DEF Settled, DiskInv
<1>2. PICK m \in Mail : name[m] = u /\ mpc[m] \in Delivered
    BY DEF Settled
<1>3. ASSUME UNCHANGED <<new, cur, name, mpc>>
      PROVE  Settled(u)' /\ (HasFile(u)' => HasFile(u))
    BY <1>3 DEF Settled, HasFile
<1>4. ASSUME NEW n \in Mail, StoreMail(n)
      PROVE  Settled(u)' /\ (HasFile(u)' => HasFile(u))
    <2>1. cur' = cur
        BY <1>4 DEF StoreMail, GenerateUniqueMeta, Spool, MoveToNew, SyncNew, FailStore
    <2>2. name'[m] = u /\ mpc'[m] \in Delivered
        BY <1>1, <1>2, <1>4 DEF StoreMail, GenerateUniqueMeta, Spool, MoveToNew, SyncNew,
                                FailStore, Delivered, TypeOK
    <2>3. new'[u] = None
        <3>1. CASE new' = new
            BY <1>1, <3>1
        <3>2. CASE MoveToNew(n)
            <4>1. mpc[n] = "spooled" /\ new' = [new EXCEPT ![name[n]] = n]
                BY <3>2 DEF MoveToNew
            <4>2. name[n] # u
                BY <1>2, <4>1 DEF Unshared, Delivered
            <4> QED
                BY <1>1, <4>1, <4>2 DEF TypeOK
        <3> QED
            BY <1>4, <3>1, <3>2 DEF StoreMail, GenerateUniqueMeta, Spool, SyncNew, FailStore
    <2> QED
        BY <2>1, <2>2, <2>3 DEF Settled, HasFile
<1>5. ASSUME NEW s \in Session, GetMailbox(s)
      PROVE  Settled(u)' /\ (HasFile(u)' => HasFile(u))
    <2>1. CASE Migrate(s)
        <3>1. PICK v \in todo : /\ cur' = [cur EXCEPT ![<<v, FALSE>>] = new[v]]
                                /\ new' = [new EXCEPT ![v] = None]
            BY <2>1 DEF Migrate
        <3>2. UNCHANGED <<name, mpc>>
            BY <2>1 DEF Migrate
        <3>3. v \in Uniq /\ v # u
            BY <1>1, <3>1 DEF DiskInv, TypeOK, Listed, Names
        <3>4. new'[u] = None
            BY <1>1, <3>1, <3>3 DEF TypeOK
        <3>5. /\ <<u, TRUE>> # <<v, FALSE>> /\ <<u, FALSE>> # <<v, FALSE>>
              /\ <<u, TRUE>> \in File /\ <<u, FALSE>> \in File
            BY <3>3 DEF File
        <3>6. cur'[<<u, TRUE>>] = cur[<<u, TRUE>>] /\ cur'[<<u, FALSE>>] = cur[<<u, FALSE>>]
            BY <1>1, <3>1, <3>5 DEF TypeOK
        <3> QED
            BY <1>2, <3>2, <3>4, <3>6 DEF Settled, HasFile
    <2> QED
        BY <1>3, <1>5, <2>1 DEF GetMailbox, SyncStep, Select, BeginSync, BeginScan, EndScan,
           NothingChanged, AssignUIDs, CommitList, Publish, AbortSync
<1>6. ASSUME NEW s \in Session, OpenMailbox(s)
      PROVE  Settled(u)' /\ (HasFile(u)' => HasFile(u))
    <2>1. ASSUME NEW add \in BOOLEAN, NEW seenFirst \in BOOLEAN, NEW bad \in BOOLEAN,
                 UpdateFlags(s, add, seenFirst, bad)
          PROVE  Settled(u)' /\ (HasFile(u)' => HasFile(u))
        <3> DEFINE msg == mbox[s].msgs[at[s]]
                   seen == IF seenFirst THEN add ELSE msg.seen
        <3>1. UNCHANGED <<new, name, mpc>> /\ pc[s] = "found"
            BY <2>1 DEF UpdateFlags
        <3>2. \/ cur' = cur
              \/ /\ cur' = Renamed(<<msg.uniq, msg.seen>>, <<msg.uniq, seen>>)
                 /\ cur[<<msg.uniq, msg.seen>>] # None
            BY <2>1 DEF UpdateFlags, FileOf
        <3>3. msg.uniq \in Uniq /\ msg.seen \in BOOLEAN /\ seen \in BOOLEAN
            <4>1. at[s] \in DOMAIN mbox[s].msgs /\ mbox[s].msgs \in Seq(Message)
                BY <1>1, <3>1 DEF TypeOK
            <4>2. msg \in Message
                BY <4>1
            <4> QED
                BY <4>2 DEF Message
        <3> HIDE DEF msg, seen
        <3>4. CASE cur' = cur
            BY <1>3, <3>1, <3>4
        <3>5. CASE /\ cur' = Renamed(<<msg.uniq, msg.seen>>, <<msg.uniq, seen>>)
                   /\ cur[<<msg.uniq, msg.seen>>] # None
            <4> DEFINE a == <<msg.uniq, msg.seen>>
                       b == <<msg.uniq, seen>>
            <4>1. a \in File /\ b \in File /\ <<u, TRUE>> \in File /\ <<u, FALSE>> \in File
                BY <3>3 DEF File
            <4>2. CASE msg.uniq # u
                <5>1. <<u, TRUE>> \notin {a, b} /\ <<u, FALSE>> \notin {a, b}
                    BY <4>2
                <5> HIDE DEF a, b
                <5>2. cur'[<<u, TRUE>>] = cur[<<u, TRUE>>] /\ cur'[<<u, FALSE>>] = cur[<<u, FALSE>>]
                    BY <1>1, <3>5, <4>1, <5>1, RenamedElsewhere DEF a, b
                <5> QED
                    BY <3>1, <5>2 DEF Settled, HasFile
            <4>3. CASE msg.uniq = u
                <5>1. \A x \in BOOLEAN : x = TRUE \/ x = FALSE
                    OBVIOUS
                <5>2. a = <<u, TRUE>> \/ a = <<u, FALSE>>
                    BY <3>3, <4>3, <5>1, Zenon
                <5>3. HasFile(u)
                    BY <3>5, <4>3, <5>2 DEF HasFile
                <5> QED
                    BY <1>1, <1>2, <3>1, <5>3 DEF Settled
            <4> QED
                BY <4>2, <4>3
        <3> QED
            BY <3>2, <3>4, <3>5
    <2> QED
        BY <1>3, <1>6, <2>1 DEF OpenMailbox, Lookup, Close, Fetched
<1>7. ASSUME NEW f \in File, Vanish(f)
      PROVE  Settled(u)' /\ (HasFile(u)' => HasFile(u))
    <2>1. UNCHANGED <<new, name, mpc>> /\ cur' = [cur EXCEPT ![f] = None]
        BY <1>7 DEF Vanish
    <2>2. <<u, TRUE>> \in File /\ <<u, FALSE>> \in File
        BY DEF File
    <2> QED
        BY <1>1, <2>1, <2>2 DEF Settled, HasFile, TypeOK
<1>8. CASE IMAPCrash
    BY <1>3, <1>8 DEF IMAPCrash
<1>9. CASE UNCHANGED vars
    BY <1>3, <1>9 DEF vars
<1> QED
    BY <1>4, <1>5, <1>6, <1>7, <1>8, <1>9 DEF Next

Stays == \A u \in Uniq : Settled(u) => Settled(u)' /\ (HasFile(u)' => HasFile(u))

LEMMA NextStays == DiskInv /\ AllUnshared /\ [Next]_vars => Stays
BY SettledStays DEF Stays, AllUnshared

\* The names of records and of scanned files are names.
LEMMA UniqTypes ==
    ASSUME TypeOK
    PROVE  /\ \A e \in issued : e.uniq \in Uniq
           /\ \A r \in uidlist.recs : r.uniq \in Uniq
           /\ \A r \in list.recs : r.uniq \in Uniq
           /\ \A r \in index : r.uniq \in Uniq
           /\ \A f \in names : f[1] \in Uniq
<1>1. \A e \in issued : e.uniq \in Uniq
    BY DEF TypeOK, Uniq
<1>2. uidlist.recs \subseteq Record /\ list.recs \subseteq Record
      /\ index \subseteq Record /\ names \subseteq File
    BY DEF TypeOK
<1> QED
    BY <1>1, <1>2 DEF Record, File

\* Steps that leave the records, the scan and the holder's copies alone, or end
\* the sync.
LEMMA RecordsFrame ==
    ASSUME TypeOK, UIDInv, RecordsInv, Stays,
           UNCHANGED <<uidlist, issued>>, flux' = {},
           \/ phase' = "idle"
           \/ /\ UNCHANGED <<list, index, names>>
              /\ phase' = phase \/ (phase \in {"list", "migrate"} /\ phase' \in {"list", "migrate"})
    PROVE  RecordsInv'
<1>1. \A e \in issued : Settled(e.uniq)' /\ (HasFile(e.uniq)' => HasFile(e.uniq))
    BY UniqTypes DEF RecordsInv, Stays
<1>2. \A r \in uidlist.recs : Settled(r.uniq)'
    BY UniqTypes DEF RecordsInv, Backed, Stays
<1>3. Backed(uidlist.recs)'
    BY <1>1, <1>2 DEF RecordsInv, Backed
<1>4. CASE phase' = "idle"
    BY <1>1, <1>3, <1>4 DEF RecordsInv
<1>5. CASE phase' # "idle"
    <2>1. /\ UNCHANGED <<list, index, names>>
          /\ phase' = phase \/ (phase \in {"list", "migrate"} /\ phase' \in {"list", "migrate"})
        BY <1>5
    <2>2. phase' \in {"scan", "load"} => Scanned'
        <3> SUFFICES ASSUME phase' \in {"scan", "load"}
                     PROVE  Scanned'
            OBVIOUS
        <3>1. phase \in {"scan", "load"} /\ Scanned
            BY <2>1 DEF RecordsInv
        <3>2. list.recs \subseteq uidlist.recs /\ index = list.recs
            BY <3>1, EarlyList DEF RecordsInv, Early
        <3>3. \A r \in index : HasFile(r.uniq)' => HasFile(r.uniq)
            BY <3>2, UniqTypes DEF RecordsInv, Backed, Stays
        <3>4. \A f \in names : Settled(f[1])'
            BY <3>1, UniqTypes DEF Scanned, Stays
        <3> QED
            BY <2>1, <3>1, <3>3, <3>4 DEF Scanned
    <2>3. phase' = "commit" => Backed(list.recs)'
        <3> SUFFICES ASSUME phase' = "commit"
                     PROVE  Backed(list.recs)'
            OBVIOUS
        <3>1. Backed(list.recs)
            BY <2>1 DEF RecordsInv
        <3>2. \A r \in list.recs : Settled(r.uniq)'
            BY <3>1, UniqTypes DEF Backed, Stays
        <3> QED
            BY <1>1, <2>1, <3>1, <3>2 DEF Backed
    <2> QED
        BY <1>1, <1>3, <2>1, <2>2, <2>3 DEF RecordsInv
<1> QED
    BY <1>4, <1>5

\* One record per name: recordsByUnique has them all.
LEMMA IndexIsAll ==
    ASSUME NEW recs, \A a, b \in recs : a.uniq = b.uniq => a = b, NEW I \in RecordsByUnique(recs)
    PROVE  I = recs
BY DEF RecordsByUnique

LEMMA BeginSyncRecords ==
    ASSUME TypeOK, UIDInv, RecordsInv, Stays, NEW s \in Session, BeginSync(s), flux' = {}
    PROVE  RecordsInv'
<1>1. UNCHANGED <<uidlist, issued>> /\ phase' = "list"
    BY DEF BeginSync, historyVars
<1>2. list'.recs = uidlist.recs \/ list'.recs = {}
    BY DEF BeginSync, FreshList
<1>3. \A a, b \in list'.recs : a.uniq = b.uniq => a = b
    BY <1>2 DEF RecordsInv, Backed
<1>4. index' \in RecordsByUnique(list'.recs)
    BY DEF BeginSync
<1>5. index' = list'.recs
    BY <1>3, <1>4, IndexIsAll
<1>6. \A e \in issued : Settled(e.uniq)' /\ (HasFile(e.uniq)' => HasFile(e.uniq))
    BY UniqTypes DEF RecordsInv, Stays
<1>7. \A r \in uidlist.recs : Settled(r.uniq)'
    BY UniqTypes DEF RecordsInv, Backed, Stays
<1>8. Backed(uidlist.recs)'
    BY <1>1, <1>6, <1>7 DEF RecordsInv, Backed
<1> QED
    BY <1>1, <1>5, <1>6, <1>8 DEF RecordsInv

\* The scan starts when new/ is empty of what the holder listed: it finds every
\* file under its one name.
LEMMA BeginScanRecords ==
    ASSUME DiskInv, AllUnshared, UIDInv, RecordsInv, NEW s \in Session, BeginScan(s)
    PROVE  RecordsInv'
<1> USE DEF storeVars, deliveryVars, historyVars
<1>1. /\ phase \in {"list", "migrate"} /\ phase' = "scan" /\ names' = Names(cur)
      /\ UNCHANGED <<new, cur, name, mpc, uidlist, issued, list, index, flux>>
    BY DEF BeginScan
<1>2. TypeOK
    BY DEF DiskInv
<1>3. \A f \in names' : f \in File /\ f[1] \in Uniq /\ f[2] \in BOOLEAN /\ f = <<f[1], f[2]>>
                        /\ cur[f] # None /\ cur[f] \in Mail
    BY <1>1, <1>2 DEF Names, TypeOK, File
<1>4. \A f \in names' : f = <<f[1], TRUE>> \/ f = <<f[1], FALSE>>
    <2>1. \A x \in BOOLEAN : x = TRUE \/ x = FALSE
        OBVIOUS
    <2> QED
        BY <1>3, <2>1, Zenon
<1>5. \A f \in names' : Settled(f[1])'
    <2> SUFFICES ASSUME NEW f \in names'
                 PROVE  Settled(f[1])'
        OBVIOUS
    <2>1. cur[f] \in Mail /\ f[1] = name[cur[f]] /\ mpc[cur[f]] \in Delivered
        BY <1>3 DEF DiskInv, FilesBelong
    <2>2. new[f[1]] = None
        BY <1>3, <1>4 DEF DiskInv, OneFile, AllUnshared
    <2> QED
        BY <1>1, <2>1, <2>2 DEF Settled
<1>6. \A f, g \in names' : f[1] = g[1] => f = g
    <2> SUFFICES ASSUME NEW f \in names', NEW g \in names', f[1] = g[1]
                 PROVE  f = g
        OBVIOUS
    <2>1. cur[<<f[1], TRUE>>] = None \/ cur[<<f[1], FALSE>>] = None
        BY <1>3 DEF DiskInv, OneFile, AllUnshared
    <2>2. cur[f] # None /\ cur[g] # None
        BY <1>3
    <2>3. f = <<f[1], TRUE>> \/ f = <<f[1], FALSE>>
        BY <1>4
    <2>4. g = <<f[1], TRUE>> \/ g = <<f[1], FALSE>>
        BY <1>4
    <2> QED
        BY <2>1, <2>2, <2>3, <2>4, Zenon
<1>7. \A r \in index : HasFile(r.uniq)' => \E f \in names' : f[1] = r.uniq
    <2> SUFFICES ASSUME NEW r \in index, HasFile(r.uniq)'
                 PROVE  \E f \in names' : f[1] = r.uniq
        OBVIOUS
    <2>1. PICK b \in BOOLEAN : cur[<<r.uniq, b>>] # None
        BY <1>1 DEF HasFile
    <2>2. <<r.uniq, b>> \in File
        BY <1>2, UniqTypes DEF File
    <2>3. <<r.uniq, b>> \in names'
        BY <1>1, <1>2, <2>1, <2>2 DEF Names, TypeOK
    <2> QED
        BY <2>3
<1>8. \A f \in names', e \in issued : f[1] = e.uniq => \E r \in index : r.uniq = e.uniq
    <2> SUFFICES ASSUME NEW f \in names', NEW e \in issued, f[1] = e.uniq
                 PROVE  \E r \in index : r.uniq = e.uniq
        OBVIOUS
    <2>1. HasFile(e.uniq)
        BY <1>3, <1>4 DEF HasFile
    <2>2. [uid |-> e.uid, uniq |-> e.uniq] \in uidlist.recs
        BY <2>1 DEF RecordsInv, Backed
    <2>3. uidlist # NoList
        BY DEF UIDInv, FileInv
    <2>4. list = uidlist /\ index = list.recs
        BY <1>1, <2>3 DEF UIDInv, HolderInv, RecordsInv
    <2> QED
        BY <2>2, <2>4
<1>9. Scanned'
    BY <1>1, <1>5, <1>6, <1>7, <1>8 DEF Scanned
<1>10. Backed(uidlist.recs)' /\ \A e \in issued : Settled(e.uniq)'
    BY <1>1 DEF RecordsInv, Backed, Settled, HasFile
<1> QED
    BY <1>1, <1>9, <1>10 DEF RecordsInv

LEMMA EndScanRecords ==
    ASSUME RecordsInv, NEW s \in Session, EndScan(s)
    PROVE  RecordsInv'
<1>1. /\ phase = "scan" /\ phase' = "load" /\ flux' = {}
      /\ UNCHANGED <<new, cur, name, mpc, uidlist, issued, list, index>>
    BY DEF EndScan, storeVars, deliveryVars, historyVars
<1>2. names' = names
    BY DEF EndScan, RecordsInv
<1>3. Scanned'
    BY <1>1, <1>2 DEF RecordsInv, Scanned, Settled, HasFile
<1>4. Backed(uidlist.recs)' /\ \A e \in issued : Settled(e.uniq)'
    BY <1>1 DEF RecordsInv, Backed, Settled, HasFile
<1> QED
    BY <1>1, <1>3, <1>4 DEF RecordsInv

\* The list a sync makes: the records that have not vanished, and one for each
\* new name, with the UIDs from Next on.
LEMMA NewList ==
    ASSUME TypeOK, UIDInv, phase = "load", NEW fresh \in ByNameOrder(Unassigned),
           ~(list.next + Len(fresh) >= UIDSpace)
    PROVE  /\ Len(fresh) \in Nat /\ DOMAIN fresh = 1 .. Len(fresh) /\ list.next \in Nat
           /\ \A i \in 1 .. Len(fresh) : GivenUID(i) = list.next + i - 1
           /\ \A r \in list.recs : r \notin Vanished => r \in Assign(fresh).recs
           /\ \A r \in Assign(fresh).recs :
                 \/ r \in list.recs \ Vanished
                 \/ \E i \in 1 .. Len(fresh) : r = [uid |-> GivenUID(i), uniq |-> fresh[i][1]]
<1> DEFINE n == Len(fresh)
           rec(i) == [uid |-> GivenUID(i), uniq |-> fresh[i][1]]
<1>1. n \in Nat /\ DOMAIN fresh = 1 .. n
    BY FreshNames
<1>2. list.next \in UID /\ \A r \in list.recs : r.uid \in UID
    BY DEF TypeOK, Record
<1>3. list.next + n < UIDSpace
    <2> HIDE DEF n
    <2> QED
        BY <1>1, <1>2 DEF n, UID
<1>4. \A i \in 1 .. n : GivenUID(i) = list.next + i - 1
    <2>1. \A i \in 1 .. n : list.next + i - 1 \in UID
        <3> HIDE DEF n
        <3> QED
            BY <1>1, <1>2, <1>3 DEF UID
    <2> QED
        BY <2>1, ModBelow DEF GivenUID
<1>5. /\ \A r \in list.recs : r.uid < list.next
      /\ \A a, b \in list.recs : a.uid = b.uid => a = b
      /\ index \subseteq list.recs
    BY EarlyList DEF Early
<1>6. Assign(fresh).recs =
        {r \in {q \in list.recs : \A a \in {rec(i) : i \in 1 .. n} : a.uid # q.uid}
            \cup {rec(i) : i \in 1 .. n} : \A v \in Vanished : v.uid # r.uid}
    <2> DEFINE last == {i \in DOMAIN fresh :
                          \A j \in DOMAIN fresh : i < j => GivenUID(i) # GivenUID(j)}
    <2>1. \A i, j \in 1 .. n : i < j => GivenUID(i) # GivenUID(j)
        <3> HIDE DEF n
        <3> QED
            BY <1>1, <1>2, <1>4 DEF UID
    <2>2. last = 1 .. n
        BY <1>1, <2>1
    <2> QED
        BY <1>1, <2>2 DEF Assign
<1> HIDE DEF n
<1>7. \A r \in list.recs : \A i \in 1 .. n : GivenUID(i) # r.uid
    BY <1>1, <1>2, <1>4, <1>5 DEF UID
<1>8. Vanished \subseteq list.recs
    BY <1>5 DEF Vanished
<1>9. \A r \in list.recs : r \notin Vanished => r \in Assign(fresh).recs
    <2> SUFFICES ASSUME NEW r \in list.recs, r \notin Vanished
                 PROVE  r \in Assign(fresh).recs
        OBVIOUS
    <2>1. \A v \in Vanished : v.uid # r.uid
        BY <1>5, <1>8
    <2>2. \A a \in {rec(i) : i \in 1 .. n} : a.uid # r.uid
        BY <1>7
    <2> QED
        BY <1>6, <2>1, <2>2
<1>10. \A r \in Assign(fresh).recs : r \in list.recs \ Vanished \/ \E i \in 1 .. n : r = rec(i)
    BY <1>6
<1> QED
    BY <1>1, <1>2, <1>4, <1>9, <1>10 DEF n, UID

LEMMA AssignUIDsRecords ==
    ASSUME DiskInv, UIDInv, RecordsInv, NEW s \in Session, AssignUIDs(s), ~wrapped'
    PROVE  RecordsInv'
<1> USE DEF storeVars, deliveryVars, historyVars
<1>1. PICK fresh \in ByNameOrder(Unassigned) :
          /\ list' = Assign(fresh)
          /\ wrapped' = (wrapped \/ list.next + Len(fresh) >= UIDSpace)
    BY DEF AssignUIDs
<1>2. /\ phase = "load" /\ phase' = "commit"
      /\ UNCHANGED <<new, cur, name, mpc, uidlist, issued, flux>>
    BY DEF AssignUIDs
<1>3. ~(list.next + Len(fresh) >= UIDSpace)
    BY <1>1
<1> DEFINE n == Len(fresh)
           rec(i) == [uid |-> GivenUID(i), uniq |-> fresh[i][1]]
<1>4. TypeOK
    BY DEF DiskInv
<1>5. /\ n \in Nat /\ DOMAIN fresh = 1 .. n
      /\ \A r \in list.recs : r \notin Vanished => r \in list'.recs
      /\ \A r \in list'.recs :
            r \in list.recs \ Vanished \/ \E i \in 1 .. n : r = rec(i)
    BY <1>1, <1>2, <1>3, <1>4, NewList
<1>6. \A i \in 1 .. n : fresh[i] \in Unassigned
    BY <1>4, <1>5, FreshNames
<1>7. \A i, j \in 1 .. n : i # j => fresh[i] # fresh[j]
    BY <1>4, <1>5, FreshNamesAll
<1> HIDE DEF n
<1>8. /\ list.recs \subseteq uidlist.recs /\ index = list.recs
      /\ Scanned /\ Backed(uidlist.recs)
    BY <1>2, <1>4, EarlyList DEF RecordsInv, Early
\* A new name has no record in the list, and none that was ever issued.
<1>9. \A i \in 1 .. n : /\ fresh[i] \in names
                        /\ \A r \in list.recs : r.uniq # fresh[i][1]
                        /\ \A e \in issued : e.uniq # fresh[i][1]
    BY <1>6, <1>8 DEF Unassigned, Scanned
<1>10. \A i, j \in 1 .. n : rec(i).uniq = rec(j).uniq => i = j
    BY <1>7, <1>8, <1>9 DEF Scanned
<1>11. \A a, b \in list'.recs : a.uniq = b.uniq => a = b
    <2> SUFFICES ASSUME NEW a \in list'.recs, NEW b \in list'.recs, a.uniq = b.uniq
                 PROVE  a = b
        OBVIOUS
    <2>1. CASE a \in list.recs /\ b \in list.recs
        BY <1>8, <2>1 DEF Backed
    <2>2. ASSUME NEW i \in 1 .. n, NEW j \in 1 .. n, a = rec(i), b = rec(j)
          PROVE  a = b
        <3>1. i = j
            BY <1>10, <2>2
        <3> QED
            BY <2>2, <3>1
    <2>3. \A i \in 1 .. n, r \in list.recs : rec(i).uniq # r.uniq
        BY <1>9
    <2> HIDE DEF rec
    <2> QED
        BY <1>5, <2>1, <2>2, <2>3
<1>12. \A r \in list'.recs : Settled(r.uniq)
    <2> SUFFICES ASSUME NEW r \in list'.recs
                 PROVE  Settled(r.uniq)
        OBVIOUS
    <2>1. CASE r \in list.recs
        BY <1>8, <2>1 DEF Backed
    <2>2. ASSUME NEW i \in 1 .. n, r = rec(i)
          PROVE  Settled(r.uniq)
        BY <1>8, <1>9, <2>2 DEF Scanned
    <2> HIDE DEF rec
    <2> QED
        BY <1>5, <2>1, <2>2
<1>13. \A e \in issued : HasFile(e.uniq) => [uid |-> e.uid, uniq |-> e.uniq] \in list'.recs
    <2> SUFFICES ASSUME NEW e \in issued, HasFile(e.uniq)
                 PROVE  [uid |-> e.uid, uniq |-> e.uniq] \in list'.recs
        OBVIOUS
    <2> DEFINE r == [uid |-> e.uid, uniq |-> e.uniq]
    <2>1. r \in uidlist.recs
        BY <1>8 DEF Backed
    <2>2. uidlist # NoList
        BY DEF UIDInv, FileInv
    <2>3. r \in list.recs
        BY <1>2, <2>1, <2>2 DEF UIDInv, HolderInv
    <2>4. \E f \in names : f[1] = r.uniq
        BY <1>8, <2>3 DEF Scanned
    <2>5. r \notin Vanished
        BY <2>4 DEF Vanished
    <2> HIDE DEF r
    <2> QED
        BY <1>5, <2>3, <2>5 DEF r
<1>14. \A e \in issued, r \in list'.recs : r.uniq = e.uniq => r.uid = e.uid
    <2> SUFFICES ASSUME NEW e \in issued, NEW r \in list'.recs, r.uniq = e.uniq
                 PROVE  r.uid = e.uid
        OBVIOUS
    <2>1. r \in list.recs
        <3>1. \A i \in 1 .. n : rec(i).uniq # e.uniq
            BY <1>9
        <3> HIDE DEF rec
        <3> QED
            BY <1>5, <3>1
    <2> QED
        BY <1>8, <2>1 DEF Backed
<1>15. Backed(list.recs)'
    BY <1>2, <1>11, <1>12, <1>13, <1>14 DEF Backed, Settled, HasFile
<1>16. Backed(uidlist.recs)' /\ \A e \in issued : Settled(e.uniq)'
    BY <1>2 DEF RecordsInv, Backed, Settled, HasFile
<1> QED
    BY <1>2, <1>15, <1>16 DEF RecordsInv

\* The rename of the new list issues records of names that have no other.
LEMMA CommitListRecords ==
    ASSUME TypeOK, UIDInv, RecordsInv, NEW s \in Session, CommitList(s)
    PROVE  RecordsInv'
<1> USE DEF storeVars, deliveryVars, historyVars
<1>1. /\ phase = "commit" /\ phase' = "publish" /\ uidlist' = list
      /\ issued' = issued \cup
           {[validity |-> list.validity, uid |-> r.uid, uniq |-> r.uniq] : r \in list.recs}
      /\ UNCHANGED <<new, cur, name, mpc, flux, list>>
    BY DEF CommitList
<1>2. Backed(list.recs)
    BY <1>1 DEF RecordsInv
<1>3. \A r \in list.recs : r = [uid |-> r.uid, uniq |-> r.uniq]
    BY DEF TypeOK, Record
<1>4. \A e \in issued' : e \in issued \/ \E r \in list.recs : e.uid = r.uid /\ e.uniq = r.uniq
    BY <1>1
<1>5. \A e \in issued' : Settled(e.uniq)
    BY <1>2, <1>4 DEF RecordsInv, Backed
<1>6. \A a, b \in issued' : a.uniq = b.uniq => a.uid = b.uid
    <2> SUFFICES ASSUME NEW a \in issued', NEW b \in issued', a.uniq = b.uniq
                 PROVE  a.uid = b.uid
        OBVIOUS
    <2>1. \A e \in issued, r \in list.recs : r.uniq = e.uniq => r.uid = e.uid
        BY <1>2 DEF Backed
    <2>2. \A q, r \in list.recs : q.uniq = r.uniq => q.uid = r.uid
        BY <1>2 DEF Backed
    <2>3. \A e, f \in issued : e.uniq = f.uniq => e.uid = f.uid
        BY DEF RecordsInv
    <2> QED
        BY <1>4, <2>1, <2>2, <2>3
<1>7. \A e \in issued' :
          /\ HasFile(e.uniq) => [uid |-> e.uid, uniq |-> e.uniq] \in list.recs
          /\ \A r \in list.recs : r.uniq = e.uniq => r.uid = e.uid
    <2> SUFFICES ASSUME NEW e \in issued'
                 PROVE  /\ HasFile(e.uniq) => [uid |-> e.uid, uniq |-> e.uniq] \in list.recs
                        /\ \A r \in list.recs : r.uniq = e.uniq => r.uid = e.uid
        OBVIOUS
    <2>1. CASE e \in issued
        BY <1>2, <2>1 DEF Backed
    <2>2. CASE \E r \in list.recs : e.uid = r.uid /\ e.uniq = r.uniq
        BY <1>2, <1>3, <2>2 DEF Backed
    <2> QED
        BY <1>4, <2>1, <2>2
<1>8. Backed(uidlist.recs)'
    <2>1. \A a, b \in list.recs : a.uniq = b.uniq => a = b
        BY <1>2 DEF Backed
    <2>2. \A r \in list.recs : Settled(r.uniq)
        BY <1>2 DEF Backed
    <2> QED
        BY <1>1, <1>7, <2>1, <2>2 DEF Backed, Settled, HasFile
<1>9. \A e \in issued' : Settled(e.uniq)'
    BY <1>1, <1>5 DEF Settled
<1> QED
    BY <1>1, <1>6, <1>8, <1>9 DEF RecordsInv

LEMMA NextRecords ==
    ASSUME DiskInv, AllUnshared, UIDInv, RecordsInv, [Next]_vars, ~wrapped', races = 0, races' = 0
    PROVE  RecordsInv'
<1> USE DEF storeVars, deliveryVars, syncVars, sessionVars, historyVars
<1>1. TypeOK /\ Stays /\ flux = {}
    BY NextStays DEF DiskInv, RecordsInv
<1>2. ASSUME UNCHANGED <<uidlist, issued, list, index, names, phase, flux>>
      PROVE  RecordsInv'
    BY <1>1, <1>2, RecordsFrame
<1>3. \A fs \in SUBSET File : Touch(fs) => flux' = flux
    BY DEF Touch
<1>4. ASSUME NEW n \in Mail, StoreMail(n)
      PROVE  RecordsInv'
    BY <1>2, <1>4 DEF StoreMail, GenerateUniqueMeta, Spool, MoveToNew, SyncNew, FailStore
<1>5. ASSUME NEW s \in Session, GetMailbox(s)
      PROVE  RecordsInv'
    <2>1. CASE Select(s)
        BY <1>2, <2>1 DEF Select
    <2>2. CASE BeginSync(s)
        <3>1. flux' = {}
            BY <1>1, <2>2 DEF BeginSync
        <3> QED
            BY <1>1, <2>2, <3>1, BeginSyncRecords
    <2>3. CASE Migrate(s)
        <3>1. /\ UNCHANGED <<uidlist, issued, list, index, names, flux>>
              /\ phase \in {"list", "migrate"} /\ phase' \in {"list", "migrate"}
            BY <2>3 DEF Migrate
        <3> QED
            BY <1>1, <3>1, RecordsFrame
    <2>4. CASE NothingChanged(s) \/ Publish(s) \/ AbortSync(s)
        <3>1. UNCHANGED <<uidlist, issued>> /\ phase' = "idle" /\ flux' = {}
            BY <2>4 DEF NothingChanged, Publish, AbortSync, Release
        <3> QED
            BY <1>1, <3>1, RecordsFrame
    <2> QED
        BY <1>1, <1>5, <2>1, <2>2, <2>3, <2>4, BeginScanRecords, EndScanRecords,
           AssignUIDsRecords, CommitListRecords DEF GetMailbox, SyncStep
<1>6. ASSUME NEW s \in Session, OpenMailbox(s)
      PROVE  RecordsInv'
    <2>1. ASSUME NEW add \in BOOLEAN, NEW seenFirst \in BOOLEAN, NEW bad \in BOOLEAN,
                 UpdateFlags(s, add, seenFirst, bad)
          PROVE  UNCHANGED <<uidlist, issued, list, index, names, phase, flux>>
        <3>1. UNCHANGED <<uidlist, issued, list, index, names, phase>>
            BY <2>1 DEF UpdateFlags
        <3>2. CASE UNCHANGED flux
            BY <3>1, <3>2
        <3>3. CASE flux' # flux
            <4>1. PICK a, b : Touch({a, b})
                BY <2>1, <3>3 DEF UpdateFlags
            <4>2. phase = "scan" /\ races < MaxRaces
                BY <3>3, <4>1 DEF Touch
            <4>3. races' = races + 1
                BY <4>1, <4>2 DEF Touch
            <4> QED
                BY <4>3
        <3> QED
            BY <3>2, <3>3
    <2> QED
        BY <1>2, <1>6, <2>1 DEF OpenMailbox, Lookup, Close, Fetched
<1>7. ASSUME NEW f \in File, Vanish(f)
      PROVE  RecordsInv'
    <2>1. UNCHANGED <<uidlist, issued, list, index, names, phase>> /\ Touch({f})
        BY <1>7 DEF Vanish
    <2> QED
        BY <1>2, <1>3, <2>1
<1>8. CASE IMAPCrash
    <2>1. UNCHANGED <<uidlist, issued>> /\ phase' = "idle" /\ flux' = {}
        BY <1>8 DEF IMAPCrash, Release
    <2> QED
        BY <1>1, <2>1, RecordsFrame
<1>9. CASE UNCHANGED vars
    BY <1>2, <1>9 DEF vars
<1> QED
    BY <1>4, <1>5, <1>6, <1>7, <1>8, <1>9 DEF Next

-----------------------------------------------------------------------------
(* The order of a snapshot.                                                *)

\* The messages of two different files have different UIDs.
LEMMA OldAscending ==
    ASSUME TypeOK, UIDInv, RecordsInv, phase = "load", NEW old \in ByUIDOrder(Assigned)
    PROVE  /\ \A i, j \in DOMAIN old : i < j => old[i].uid < old[j].uid
           /\ \A i \in DOMAIN old : old[i].uid \in Nat /\ old[i].uid < list.next
           /\ DOMAIN old = 1 .. Len(old)
<1>1. /\ Scanned /\ index = list.recs
      /\ \A r \in list.recs : r.uid < list.next
      /\ \A a, b \in list.recs : a.uid = b.uid => a = b
    BY EarlyList DEF RecordsInv, Early
<1>2. \A m \in Assigned : /\ m = [uid |-> m.uid, uniq |-> m.uniq, seen |-> m.seen]
                          /\ [uid |-> m.uid, uniq |-> m.uniq] \in list.recs
                          /\ <<m.uniq, m.seen>> \in names
    BY <1>1 DEF Assigned
<1>3. \A r \in list.recs : r.uid \in Nat
    BY DEF TypeOK, Record, UID
<1>4. \A a, b \in Assigned : a.uid = b.uid => a = b
    <2> SUFFICES ASSUME NEW a \in Assigned, NEW b \in Assigned, a.uid = b.uid
                 PROVE  a = b
        OBVIOUS
    <2>1. a.uniq = b.uniq
        <3>1. [uid |-> a.uid, uniq |-> a.uniq] = [uid |-> b.uid, uniq |-> b.uniq]
            <4> DEFINE r == [uid |-> a.uid, uniq |-> a.uniq]
                       q == [uid |-> b.uid, uniq |-> b.uniq]
            <4>1. r \in list.recs /\ q \in list.recs /\ r.uid = q.uid
                BY <1>2
            <4> HIDE DEF r, q
            <4>2. r = q
                BY <1>1, <4>1
            <4> QED
                BY <4>2 DEF r, q
        <3> QED
            BY <3>1
    <2>2. <<a.uniq, a.seen>> = <<b.uniq, b.seen>>
        <3> DEFINE f == <<a.uniq, a.seen>>
                   g == <<b.uniq, b.seen>>
        <3>1. f \in names /\ g \in names /\ f[1] = g[1]
            BY <1>2, <2>1
        <3> HIDE DEF f, g
        <3>2. f = g
            BY <1>1, <3>1 DEF Scanned
        <3> QED
            BY <3>2 DEF f, g
    <2> QED
        BY <1>2, <2>1, <2>2
<1>5. /\ DOMAIN old = 1 .. Len(old)
      /\ \A i, j \in DOMAIN old : i # j => old[i] # old[j]
      /\ \A i, j \in DOMAIN old : i < j => old[i].uid <= old[j].uid
    BY OldMessagesAll
<1>6. Len(old) \in Nat /\ \A i \in DOMAIN old : old[i] \in Assigned
    <2>1. old \in Seq(Assigned)
        BY OldMessages
    <2> QED
        BY <1>5, <2>1
<1>7. \A m \in Assigned : m.uid \in Nat /\ m.uid < list.next
    <2> SUFFICES ASSUME NEW m \in Assigned
                 PROVE  m.uid \in Nat /\ m.uid < list.next
        OBVIOUS
    <2> DEFINE r == [uid |-> m.uid, uniq |-> m.uniq]
    <2>1. r \in list.recs /\ r.uid = m.uid
        BY <1>2
    <2> HIDE DEF r
    <2> QED
        BY <1>1, <1>3, <2>1
<1>8. ASSUME NEW i \in DOMAIN old, NEW j \in DOMAIN old, i < j
      PROVE  old[i].uid < old[j].uid
    <2>1. i # j
        BY <1>5, <1>6, <1>8
    <2>2. old[i] \in Assigned /\ old[j] \in Assigned /\ old[i] # old[j]
        BY <1>5, <1>6, <2>1
    <2>3. old[i].uid # old[j].uid /\ old[i].uid <= old[j].uid
        BY <1>4, <1>5, <1>8, <2>2
    <2>4. old[i].uid \in Nat /\ old[j].uid \in Nat
        BY <1>7, <2>2
    <2> QED
        BY <2>3, <2>4
<1> QED
    BY <1>5, <1>6, <1>7, <1>8

LEMMA AssignUIDsOrder ==
    ASSUME DiskInv, UIDInv, RecordsInv, OrderInv, NEW s \in Session, AssignUIDs(s), ~wrapped'
    PROVE  OrderInv'
<1>1. PICK old \in ByUIDOrder(Assigned), fresh \in ByNameOrder(Unassigned) :
          /\ mbox' = [mbox EXCEPT ![s] = Selected(Assign(fresh), Appended(old, fresh))]
          /\ wrapped' = (wrapped \/ list.next + Len(fresh) >= UIDSpace)
    BY DEF AssignUIDs
<1>2. phase = "load" /\ lock = s /\ lock' = s /\ pc' = pc /\ TypeOK
    BY DEF AssignUIDs, DiskInv
<1>3. ~(list.next + Len(fresh) >= UIDSpace)
    BY <1>1
<1>4. /\ Len(fresh) \in Nat /\ list.next \in Nat
      /\ \A i \in 1 .. Len(fresh) : GivenUID(i) = list.next + i - 1
    BY <1>2, <1>3, NewList
<1>5. /\ \A i, j \in DOMAIN old : i < j => old[i].uid < old[j].uid
      /\ \A i \in DOMAIN old : old[i].uid \in Nat /\ old[i].uid < list.next
      /\ DOMAIN old = 1 .. Len(old)
    BY <1>2, OldAscending
<1> DEFINE msgs == Appended(old, fresh)
           o == Len(old)
           n == Len(fresh)
<1>6. /\ o \in Nat /\ DOMAIN msgs = 1 .. o + n
      /\ \A i \in 1 .. o : msgs[i] = old[i]
      /\ \A i \in 1 .. n : msgs[o + i] =
            [uid |-> GivenUID(i), uniq |-> fresh[i][1], seen |-> fresh[i][2]]
    BY <1>2, AppendedMessages
<1>7. mbox'[s].msgs = msgs
    BY <1>1, <1>2 DEF TypeOK, Selected
<1> HIDE DEF msgs, o, n
<1>8. \A k \in o + 1 .. o + n : msgs[k].uid = list.next + (k - o) - 1
    <2> SUFFICES ASSUME NEW k \in o + 1 .. o + n
                 PROVE  msgs[k].uid = list.next + (k - o) - 1
        OBVIOUS
    <2>1. \A p \in 1 .. n : msgs[o + p].uid = list.next + p - 1
        <3>1. ASSUME NEW p \in 1 .. n
              PROVE  msgs[o + p].uid = GivenUID(p)
            <4>1. msgs[o + p] = [uid |-> GivenUID(p), uniq |-> fresh[p][1], seen |-> fresh[p][2]]
                BY <1>6
            <4> QED
                BY <4>1
        <3>2. \A p \in 1 .. n : GivenUID(p) = list.next + p - 1
            BY <1>4 DEF n
        <3> QED
            BY <3>1, <3>2
    <2>2. PICK p \in 1 .. n : p = k - o
        BY <1>4, <1>6 DEF n
    <2>3. k = o + p
        BY <1>6, <2>2
    <2> QED
        BY <2>1, <2>2, <2>3
<1>9. ASSUME NEW i \in DOMAIN msgs, NEW j \in DOMAIN msgs, i < j
      PROVE  msgs[i].uid < msgs[j].uid
    <2>1. n \in Nat /\ i \in 1 .. o + n /\ j \in 1 .. o + n /\ list.next \in Nat
        BY <1>4, <1>6 DEF n
    <2>2. CASE j \in 1 .. o
        <3>1. i \in 1 .. o
            BY <1>6, <1>9, <2>1, <2>2
        <3>2. msgs[i] = old[i] /\ msgs[j] = old[j] /\ i \in DOMAIN old /\ j \in DOMAIN old
            BY <1>5, <1>6, <2>2, <3>1 DEF o
        <3> QED
            BY <1>5, <1>9, <3>2
    <2>3. CASE i \in 1 .. o /\ j \notin 1 .. o
        <3>1. j \in o + 1 .. o + n
            BY <1>6, <2>1, <2>3
        <3>2. msgs[j].uid = list.next + (j - o) - 1
            BY <1>8, <3>1
        <3>3. msgs[i] = old[i] /\ i \in DOMAIN old
            BY <1>5, <1>6, <2>3 DEF o
        <3>4. msgs[i].uid \in Nat /\ msgs[i].uid < list.next
            BY <1>5, <3>3
        <3> QED
            BY <1>6, <2>1, <3>1, <3>2, <3>4
    <2>4. CASE i \notin 1 .. o
        <3>1. i \in o + 1 .. o + n /\ j \in o + 1 .. o + n
            BY <1>6, <1>9, <2>1, <2>4
        <3>2. msgs[i].uid = list.next + (i - o) - 1 /\ msgs[j].uid = list.next + (j - o) - 1
            BY <1>8, <3>1
        <3> QED
            BY <1>6, <1>9, <2>1, <3>1, <3>2
    <2> QED
        BY <2>2, <2>3, <2>4
<1>10. Ascending(s)'
    BY <1>7, <1>9 DEF Ascending
<1>11. \A t \in Session : t # s => mbox'[t] = mbox[t]
    BY <1>1, <1>2 DEF TypeOK
<1>12. \A t \in Session : t # s /\ Opened(t)' => Ascending(t)'
    BY <1>2, <1>11 DEF OrderInv, Opened, Ascending
<1> QED
    BY <1>2, <1>10, <1>12 DEF OrderInv

\* Steps that keep the snapshots, or drop one.
LEMMA OrderFrame ==
    ASSUME OrderInv,
           \A t \in Session : Opened(t)' => Opened(t) \/ (lock = t /\ phase \in {"commit", "publish"}),
           \A t \in Session : lock' = t /\ phase' \in {"commit", "publish"} =>
              lock = t /\ phase \in {"commit", "publish"},
           \A t \in Session : Opened(t)' \/ lock' = t => mbox'[t] = mbox[t]
    PROVE  OrderInv'
BY DEF OrderInv, Ascending

LEMMA GetMailboxOrder ==
    ASSUME DiskInv, UIDInv, RecordsInv, OrderInv, NEW s \in Session, GetMailbox(s), ~wrapped'
    PROVE  OrderInv'
<1> USE DEF storeVars, deliveryVars, syncVars, sessionVars, historyVars
<1>1. TypeOK
    BY DEF DiskInv
<1>2. CASE NothingChanged(s)
    <2>1. PICK old \in ByUIDOrder(Assigned) : mbox' = [mbox EXCEPT ![s] = Selected(list, old)]
        BY <1>2 DEF NothingChanged
    <2>2. phase = "load" /\ lock' = None /\ pc' = [pc EXCEPT ![s] = "open"]
        BY <1>2 DEF NothingChanged, Release
    <2>3. mbox'[s].msgs = old
        BY <1>1, <2>1 DEF TypeOK, Selected
    <2>4. Ascending(s)'
        BY <1>1, <2>2, <2>3, OldAscending DEF Ascending
    <2>5. ASSUME NEW t \in Session, t # s, Opened(t)'
          PROVE  Ascending(t)'
        <3>1. mbox'[t] = mbox[t] /\ Opened(t)
            BY <1>1, <2>1, <2>2, <2>5 DEF TypeOK, Opened
        <3> QED
            BY <3>1 DEF OrderInv, Ascending
    <2>6. \A t \in Session : lock' # t
        BY <2>2
    <2> QED
        BY <2>4, <2>5, <2>6 DEF OrderInv
<1>3. CASE AssignUIDs(s)
    BY <1>3, AssignUIDsOrder
<1>4. CASE Publish(s) \/ AbortSync(s)
    <2>1. lock = s /\ lock' = None /\ \A t \in Session : lock' # t
        BY <1>4 DEF Publish, AbortSync, Release
    <2>2. \A t \in Session : Opened(t)' =>
              mbox'[t] = mbox[t] /\ (Opened(t) \/ (t = s /\ phase = "publish"))
        BY <1>1, <1>4 DEF Publish, AbortSync, Opened, TypeOK
    <2> QED
        BY <2>1, <2>2, OrderFrame
<1>5. CASE Select(s) \/ BeginSync(s)
    <2>1. /\ mbox' = mbox /\ \A t \in Session : Opened(t)' => Opened(t)
          /\ phase' \notin {"commit", "publish"} \/ UNCHANGED <<lock, phase>>
        BY <1>1, <1>5 DEF Select, BeginSync, Opened, TypeOK
    <2> QED
        BY <2>1, OrderFrame
<1>6. CASE Migrate(s) \/ BeginScan(s) \/ EndScan(s) \/ CommitList(s)
    <2>1. /\ UNCHANGED <<mbox, pc, lock>>
          /\ phase' \notin {"commit", "publish"} \/ phase = "commit"
        BY <1>6 DEF Migrate, BeginScan, EndScan, CommitList
    <2> QED
        BY <2>1, OrderFrame DEF Opened
<1> QED
    BY <1>2, <1>3, <1>4, <1>5, <1>6 DEF GetMailbox, SyncStep

LEMMA OpenMailboxOrder ==
    ASSUME TypeOK, OrderInv, NEW s \in Session, OpenMailbox(s)
    PROVE  OrderInv'
<1> USE DEF storeVars, deliveryVars, syncVars, sessionVars, historyVars
<1>1. CASE (\E i \in 1 .. 2 * MaxTick : Lookup(s, i)) \/ Fetched(s)
    <2>1. UNCHANGED <<mbox, lock, phase>> /\ \A t \in Session : Opened(t)' => Opened(t)
        BY <1>1 DEF Lookup, Fetched, Opened, TypeOK
    <2> QED
        BY <2>1, OrderFrame
<1>2. CASE Close(s)
    <2>1. UNCHANGED <<lock, phase>> /\ lock # s /\ ~Opened(s)'
          /\ \A t \in Session : t # s => mbox'[t] = mbox[t] /\ (Opened(t)' => Opened(t))
        BY <1>2 DEF Close, Opened, TypeOK
    <2> QED
        BY <2>1, OrderFrame
<1>3. ASSUME NEW add \in BOOLEAN, NEW seenFirst \in BOOLEAN, NEW bad \in BOOLEAN,
             UpdateFlags(s, add, seenFirst, bad)
      PROVE  OrderInv'
    <2> DEFINE i == at[s]
               seen == IF seenFirst THEN add ELSE mbox[s].msgs[i].seen
    <2>1. /\ UNCHANGED <<lock, phase>> /\ pc[s] = "found"
          /\ mbox' = [mbox EXCEPT ![s].msgs[i].seen = seen]
          /\ \A t \in Session : Opened(t)' => Opened(t)
        BY <1>3 DEF UpdateFlags, Opened, TypeOK
    <2>2. i \in DOMAIN mbox[s].msgs /\ mbox[s].msgs[i] \in Message
        BY <2>1 DEF TypeOK
    <2> HIDE DEF seen
    <2>3. mbox'[s] = [mbox[s] EXCEPT !.msgs = [mbox[s].msgs EXCEPT ![i].seen = seen]]
        BY <2>1 DEF TypeOK
    <2>4. mbox'[s].msgs = [mbox[s].msgs EXCEPT ![i].seen = seen]
        BY <2>3 DEF TypeOK
    <2>5. /\ DOMAIN mbox'[s].msgs = DOMAIN mbox[s].msgs
          /\ \A j \in DOMAIN mbox[s].msgs : mbox'[s].msgs[j].uid = mbox[s].msgs[j].uid
        BY <2>2, <2>4 DEF TypeOK, Message
    <2>6. Ascending(s) => Ascending(s)'
        BY <2>5 DEF Ascending
    <2>7. \A t \in Session : t # s => (Ascending(t) => Ascending(t)')
        BY <2>1 DEF TypeOK, Ascending
    <2> QED
        BY <2>1, <2>6, <2>7 DEF OrderInv
<1> QED
    BY <1>1, <1>2, <1>3 DEF OpenMailbox

LEMMA NextOrder ==
    ASSUME DiskInv, UIDInv, RecordsInv, OrderInv, [Next]_vars, ~wrapped'
    PROVE  OrderInv'
<1> USE DEF storeVars, deliveryVars, syncVars, sessionVars, historyVars
<1>1. TypeOK
    BY DEF DiskInv
<1>2. CASE (\E n \in Mail : StoreMail(n)) \/ (\E f \in File : Vanish(f)) \/ UNCHANGED vars
    <2>1. UNCHANGED <<mbox, pc, lock, phase>>
        BY <1>2 DEF StoreMail, GenerateUniqueMeta, Spool, MoveToNew, SyncNew, FailStore, Vanish, vars
    <2> QED
        BY <2>1, OrderFrame DEF Opened
<1>3. CASE IMAPCrash
    <2>1. lock' = None /\ pc' = [t \in Session |-> "closed"]
        BY <1>3 DEF IMAPCrash, Release
    <2> QED
        BY <2>1 DEF OrderInv, Opened
<1> QED
    BY <1>1, <1>2, <1>3, GetMailboxOrder, OpenMailboxOrder DEF Next

-----------------------------------------------------------------------------
(* The invariant and its theorems.                                         *)

\* A race stays counted.
LEMMA RacesStay == TypeOK /\ [Next]_vars /\ races' = 0 => races = 0
<1> SUFFICES ASSUME TypeOK, [Next]_vars, races' = 0
             PROVE  races = 0
    OBVIOUS
<1> USE DEF historyVars
<1>1. \A fs : Touch(fs) => races' >= races
    BY DEF Touch, TypeOK
<1>2. ASSUME races' >= races
      PROVE  races = 0
    BY <1>2 DEF TypeOK
<1>3. ASSUME NEW m \in Mail, StoreMail(m)
      PROVE  races = 0
    BY <1>3 DEF StoreMail, GenerateUniqueMeta, Spool, MoveToNew, SyncNew, FailStore
<1>4. ASSUME NEW s \in Session, GetMailbox(s)
      PROVE  races = 0
    BY <1>4 DEF GetMailbox, SyncStep, Select, BeginSync, Migrate, BeginScan, EndScan,
                NothingChanged, AssignUIDs, CommitList, Publish, AbortSync
<1>5. ASSUME NEW s \in Session, OpenMailbox(s)
      PROVE  races = 0
    BY <1>1, <1>2, <1>5 DEF OpenMailbox, Lookup, Close, Fetched, UpdateFlags
<1>6. ASSUME NEW f \in File, Vanish(f)
      PROVE  races = 0
    BY <1>1, <1>2, <1>6 DEF Vanish
<1>7. CASE IMAPCrash \/ UNCHANGED vars
    BY <1>7 DEF IMAPCrash, vars
<1> QED
    BY <1>3, <1>4, <1>5, <1>6, <1>7 DEF Next

LEMMA InitKeepInv == Init => KeepInv
<1> SUFFICES ASSUME Init
             PROVE  RecordsInv /\ OrderInv
    BY DEF KeepInv
<1>1. RecordsInv
    BY DEF Init, RecordsInv, Backed, NoList, FreshList
<1>2. OrderInv
    BY DEF Init, OrderInv, Opened
<1> QED
    BY <1>1, <1>2

LEMMA NextViewInv ==
    ASSUME ViewInv, [Next]_vars
    PROVE  ViewInv'
<1>1. IInv /\ DiskInv /\ DueInv /\ KeepInv /\ TypeOK
    BY DEF ViewInv, IInv
<1>2. IInv' /\ DiskInv' /\ DueInv'
    BY <1>1, NextIInv, NextTypeOK, NextDiskInv, NextDueInv
<1>3. KeepInv'
    <2> SUFFICES ASSUME ~wrapped', races' = 0, AllUnshared'
                 PROVE  RecordsInv' /\ OrderInv'
        BY DEF KeepInv, Undisturbed
    <2>1. ~wrapped
        BY <1>1, WrappedStays
    <2>2. races = 0
        BY <1>1, RacesStay
    <2>3. AllUnshared
        BY <1>1, StepKeepsNames, UnsharedBefore DEF AllUnshared
    <2>4. UIDInv /\ RecordsInv /\ OrderInv
        BY <1>1, <2>1, <2>2, <2>3 DEF IInv, KeepInv, Undisturbed
    <2> QED
        BY <1>1, <2>2, <2>3, <2>4, NextRecords, NextOrder
<1> QED
    BY <1>2, <1>3 DEF ViewInv

\* UIDs, files, scans and snapshots together: no step of a delivery, a session
\* or the environment takes the view of the mailbox apart.
THEOREM ViewInductive == Spec => []ViewInv
<1>1. Init => IInv
    BY InitTypeOK, InitUIDInv DEF IInv
<1>2. Init => DueInv
    BY DEF Init, DueInv, SureDue
<1>3. Init => ViewInv
    BY <1>1, <1>2, InitDiskInv, InitKeepInv DEF ViewInv
<1>4. ViewInv /\ [Next]_vars => ViewInv'
    BY NextViewInv
<1> QED
    BY <1>3, <1>4, PTL DEF Spec

\* Every snapshot of an open session is strictly ascending in UID, so the binary
\* search of ByUID finds what is there: old messages by their records, new ones
\* behind them, whatever was issued, dropped and committed before.
THEOREM SnapshotsAscend == Spec => []SnapshotAscending
<1>1. ViewInv => SnapshotAscending
    BY DEF ViewInv, KeepInv, Undisturbed, OrderInv, Ascending, SnapshotAscending
<1> QED
    BY <1>1, ViewInductive, PTL

\* A mail keeps the UID it was first given: no sync, failed rewrite, crash, flag
\* change or removal makes addRecord give a second one to its name.
THEOREM MailsKeepUID == Spec => []MailKeepsUID
<1>1. ViewInv => MailKeepsUID
    BY DEF ViewInv, KeepInv, Undisturbed, RecordsInv, MailKeepsUID
<1> QED
    BY <1>1, ViewInductive, PTL
=============================================================================
