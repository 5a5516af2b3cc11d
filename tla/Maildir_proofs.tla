--------------------------- MODULE Maildir_proofs ---------------------------
(***************************************************************************)
(* Theorems about Maildir for every number of mails, sessions, ticks,      *)
(* removals and races, and every size of the UID space.                    *)
(***************************************************************************)
EXTENDS MaildirInv, FiniteSetTheorems, TLAPS

USE MaildirAssumption

-----------------------------------------------------------------------------
(* The sets the sync arranges are finite, so an arrangement is a sequence. *)

LEMMA FilesFinite == IsFiniteSet(File)
<1>1. IsFiniteSet(Uniq)
    BY FS_Interval DEF Uniq
<1>2. IsFiniteSet(BOOLEAN)
    <2>1. IsFiniteSet({TRUE} \cup {FALSE})
        BY FS_Singleton, FS_Union
    <2> QED
        BY <2>1
<1> QED
    BY <1>1, <1>2, FS_Product DEF File

LEMMA MessagesFinite == IsFiniteSet(Message)
<1> DEFINE Triple == UID \X File
           f == [t \in Triple |-> [uid |-> t[1], uniq |-> t[2][1], seen |-> t[2][2]]]
<1>1. IsFiniteSet(Triple)
    <2>1. IsFiniteSet(UID)
        BY FS_Interval DEF UID
    <2> QED
        BY <2>1, FilesFinite, FS_Product
<1>2. f \in Surjection(Triple, Message)
    <2>1. f \in [Triple -> Message]
        BY DEF Message, File
    <2>2. \A m \in Message : \E t \in Triple : f[t] = m
        <3> SUFFICES ASSUME NEW m \in Message
                     PROVE  \E t \in Triple : f[t] = m
            OBVIOUS
        <3>1. <<m.uid, <<m.uniq, m.seen>>>> \in Triple
            BY DEF Message, File
        <3>2. f[<<m.uid, <<m.uniq, m.seen>>>>] = m
            BY <3>1 DEF Message
        <3> QED
            BY <3>1, <3>2
    <2> QED
        BY <2>1, <2>2 DEF Surjection
<1> HIDE DEF f, Triple
<1> QED
    BY <1>1, <1>2, FS_Surjection

LEMMA ArrangementIsSeq ==
    ASSUME NEW S, IsFiniteSet(S), NEW q \in SetToSeqs(S)
    PROVE  /\ q \in Seq(S)
           /\ DOMAIN q = 1 .. Len(q)
           /\ \A i, j \in DOMAIN q : i # j => q[i] # q[j]
<1>1. Cardinality(S) \in Nat
    BY FS_CardinalityType
<1>2. q \in [1 .. Cardinality(S) -> S]
    BY DEF SetToSeqs
<1>3. DOMAIN q = 1 .. Cardinality(S)
    BY <1>2
<1>4. \A i, j \in 1 .. Cardinality(S) : i # j => q[i] # q[j]
    BY DEF SetToSeqs
<1>5. q \in Seq(S) /\ Len(q) = Cardinality(S)
    BY <1>1, <1>2
<1> QED
    BY <1>3, <1>4, <1>5

LEMMA FunctionIsSeq ==
    ASSUME NEW S, NEW n \in Nat, NEW f \in [1 .. n -> S]
    PROVE  f \in Seq(S) /\ Len(f) = n
OBVIOUS

\* The old messages in UID order.
LEMMA OldMessages ==
    ASSUME TypeOK, NEW old \in ByUIDOrder(Assigned)
    PROVE  old \in Seq(Assigned) /\ old \in Seq(Message)
<1>1. Assigned \subseteq Message
    BY DEF Assigned, TypeOK, Record, Message, File
<1>2. IsFiniteSet(Assigned)
    BY <1>1, MessagesFinite, FS_Subset
<1>3. old \in Seq(Assigned)
    BY <1>2, ArrangementIsSeq DEF ByUIDOrder
<1> QED
    BY <1>1, <1>3

\* The new names in name order.
LEMMA FreshNames ==
    ASSUME TypeOK, NEW fresh \in ByNameOrder(Unassigned)
    PROVE  /\ fresh \in Seq(Unassigned) /\ fresh \in Seq(File)
           /\ DOMAIN fresh = 1 .. Len(fresh)
<1>1. Unassigned \subseteq File
    BY DEF Unassigned, TypeOK
<1>2. IsFiniteSet(Unassigned)
    BY <1>1, FilesFinite, FS_Subset
<1>3. fresh \in Seq(Unassigned) /\ DOMAIN fresh = 1 .. Len(fresh)
    BY <1>2, ArrangementIsSeq DEF ByNameOrder
<1> QED
    BY <1>1, <1>3

LEMMA ModUID == \A n \in Nat : n % UIDSpace \in UID
BY DEF UID

\* The UIDs addRecord gives are uint32 values.
LEMMA GivenUIDType ==
    ASSUME TypeOK, NEW i \in Nat \ {0}
    PROVE  GivenUID(i) \in UID
<1>1. list.next \in Nat
    BY DEF TypeOK, UID
<1>2. list.next + i - 1 \in Nat
    BY <1>1
<1> QED
    BY <1>2, ModUID DEF GivenUID

-----------------------------------------------------------------------------
(* The type invariant.                                                     *)

LEMMA InitTypeOK == Init => TypeOK
<1> SUFFICES ASSUME Init
             PROVE  TypeOK
    OBVIOUS
<1>1. NoList \in [validity : Nat, next : UID, recs : SUBSET Record]
    BY DEF NoList, FreshList, UID
<1>2. Unselected \in [validity : Nat, next : UID, msgs : Seq(Message)]
    BY DEF Unselected, UID
<1>3. uidlist = NoList /\ list = NoList
    BY DEF Init
<1>4. mbox \in [Session -> [validity : Nat, next : UID, msgs : Seq(Message)]]
    BY <1>2 DEF Init
<1>5. tmp \in [Uniq -> Mail \cup {None}] /\ new \in [Uniq -> Mail \cup {None}]
      /\ cur \in [File -> Mail \cup {None}]
    BY DEF Init
<1>6. /\ mpc \in [Mail -> {"start", "named", "spooled", "moved", "stored", "failed"}]
      /\ name \in [Mail -> 0 .. MaxTick]
      /\ \A m \in Mail : mpc[m] # "start" => name[m] \in Uniq
    BY DEF Init
<1>7. /\ pc \in [Session -> {"closed", "waiting", "sync", "open", "found"}]
      /\ at \in [Session -> Nat]
      /\ \A s \in Session : pc[s] = "sync" <=> lock = s
      /\ \A s \in Session : pc[s] = "found" => at[s] \in DOMAIN mbox[s].msgs
    BY DEF Init
<1>8. /\ lock \in Session \cup {None} /\ races \in Nat
      /\ phase \in {"idle", "list", "migrate", "scan", "load", "commit", "publish"}
      /\ index = {} /\ todo = {} /\ names = {} /\ flux = {} /\ due = {}
      /\ issued = {} /\ gone = {} /\ wrapped \in BOOLEAN
      /\ lock = None <=> phase = "idle"
    BY DEF Init
<1> QED
    BY <1>1, <1>3, <1>4, <1>5, <1>6, <1>7, <1>8 DEF TypeOK

LEMMA StoreMailTypeOK ==
    ASSUME TypeOK, NEW m \in Mail, StoreMail(m)
    PROVE  TypeOK'
<1> USE DEF TypeOK, storeVars, deliveryVars, syncVars, sessionVars, historyVars
<1>1. CASE GenerateUniqueMeta(m)
    <2>1. PICK u \in Uniq : name' = [name EXCEPT ![m] = u]
        BY <1>1 DEF GenerateUniqueMeta
    <2>2. name' \in [Mail -> 0 .. MaxTick]
        BY <2>1 DEF Uniq
    <2>3. \A n \in Mail : mpc'[n] # "start" => name'[n] \in Uniq
        BY <1>1, <2>1 DEF GenerateUniqueMeta
    <2> QED
        BY <1>1, <2>2, <2>3 DEF GenerateUniqueMeta
<1>2. CASE Spool(m)
    BY <1>2 DEF Spool
<1>3. CASE MoveToNew(m)
    BY <1>3 DEF MoveToNew, MayList
<1>4. CASE SyncNew(m)
    BY <1>4 DEF SyncNew
<1>5. CASE FailStore(m)
    BY <1>5 DEF FailStore
<1> QED
    BY <1>1, <1>2, <1>3, <1>4, <1>5 DEF StoreMail

LEMMA ReleaseTypeOK ==
    ASSUME TypeOK, Release
    PROVE  list' \in [validity : Nat, next : UID, recs : SUBSET Record]
BY DEF Release, NoList, FreshList, UID

LEMMA GetMailboxTypeOK ==
    ASSUME TypeOK, NEW s \in Session, GetMailbox(s)
    PROVE  TypeOK'
<1> USE DEF TypeOK, storeVars, deliveryVars, syncVars, sessionVars, historyVars
<1>1. CASE Select(s)
    BY <1>1 DEF Select
<1>2. CASE BeginSync(s)
    <2>1. list' \in [validity : Nat, next : UID, recs : SUBSET Record]
        BY <1>2 DEF BeginSync, FreshList, UID
    <2>2. index' \subseteq Record
        BY <1>2, <2>1 DEF BeginSync, RecordsByUnique
    <2>3. todo' \subseteq Uniq /\ due' \subseteq Mail
        BY <1>2 DEF BeginSync, Names
    <2> QED
        BY <1>2, <2>1, <2>2, <2>3 DEF BeginSync
<1>3. CASE Migrate(s)
    <2>1. \A u \in Uniq : <<u, FALSE>> \in File
        BY DEF File
    <2> QED
        BY <1>3, <2>1 DEF Migrate
<1>4. CASE BeginScan(s)
    BY <1>4 DEF BeginScan, Names
<1>5. CASE EndScan(s)
    BY <1>5 DEF EndScan
<1>6. CASE NothingChanged(s)
    <2>1. PICK old \in ByUIDOrder(Assigned) : mbox' = [mbox EXCEPT ![s] = Selected(list, old)]
        BY <1>6 DEF NothingChanged
    <2>2. Selected(list, old) \in [validity : Nat, next : UID, msgs : Seq(Message)]
        BY OldMessages DEF Selected
    <2> QED
        BY <1>6, <2>1, <2>2, ReleaseTypeOK DEF NothingChanged, Release
<1>7. CASE AssignUIDs(s)
    <2>1. PICK old \in ByUIDOrder(Assigned), fresh \in ByNameOrder(Unassigned) :
              /\ list' = Assign(fresh)
              /\ mbox' = [mbox EXCEPT ![s] = Selected(Assign(fresh), Appended(old, fresh))]
              /\ wrapped' = (wrapped \/ list.next + Len(fresh) >= UIDSpace)
        BY <1>7 DEF AssignUIDs
    <2>2. \A i \in DOMAIN fresh :
              GivenUID(i) \in UID /\ fresh[i][1] \in Uniq /\ fresh[i][2] \in BOOLEAN
        <3>1. fresh \in Seq(File) /\ DOMAIN fresh = 1 .. Len(fresh)
            BY FreshNames
        <3> SUFFICES ASSUME NEW i \in DOMAIN fresh
                     PROVE  GivenUID(i) \in UID /\ fresh[i][1] \in Uniq /\ fresh[i][2] \in BOOLEAN
            OBVIOUS
        <3>2. i \in Nat \ {0} /\ fresh[i] \in Uniq \X BOOLEAN
            BY ONLY <3>1, i \in DOMAIN fresh DEF File
        <3>3. GivenUID(i) \in UID
            BY <3>2, GivenUIDType
        <3> QED
            BY ONLY <3>2, <3>3
    <2>3. Assign(fresh) \in [validity : Nat, next : UID, recs : SUBSET Record]
        <3>1. (list.next + Len(fresh)) % UIDSpace \in UID
            <4>1. Len(fresh) \in Nat
                BY FreshNames
            <4>2. list.next + Len(fresh) \in Nat
                BY <4>1 DEF UID
            <4> QED
                BY <4>2, ModUID
        <3> QED
            BY <2>2, <3>1 DEF Assign, Record
    <2>4. Appended(old, fresh) \in Seq(Message)
        <3> DEFINE added == [i \in DOMAIN fresh |->
                               [uid |-> GivenUID(i), uniq |-> fresh[i][1], seen |-> fresh[i][2]]]
        <3>1. \A i \in 1 .. Len(fresh) : added[i] \in Message
            BY <2>2, FreshNames DEF Message
        <3>2. added \in Seq(Message)
            <4>1. DOMAIN fresh = 1 .. Len(fresh) /\ Len(fresh) \in Nat
                BY FreshNames
            <4>2. added = [i \in 1 .. Len(fresh) |-> added[i]]
                BY <4>1
            <4> HIDE DEF added
            <4>3. added \in [1 .. Len(fresh) -> Message]
                BY <3>1, <4>2
            <4> QED
                BY <4>1, <4>3, FunctionIsSeq
        <3> HIDE DEF added
        <3>3. old \o added \in Seq(Message)
            <4>1. old \in Seq(Message)
                BY OldMessages
            <4> QED
                BY ONLY <3>2, <4>1
        <3> QED
            BY <3>3 DEF Appended, added
    <2>5. mbox' \in [Session -> [validity : Nat, next : UID, msgs : Seq(Message)]]
        BY <2>1, <2>3, <2>4 DEF Selected
    <2>6. wrapped' \in BOOLEAN
        BY <2>1
    <2>7. \A t \in Session : pc'[t] = "found" => at'[t] \in DOMAIN mbox'[t].msgs
        BY <1>7, <2>1 DEF AssignUIDs
    <2> QED
        BY <1>7, <2>1, <2>3, <2>5, <2>6, <2>7 DEF AssignUIDs
<1>8. CASE CommitList(s)
    BY <1>8 DEF CommitList, Record
<1>9. CASE Publish(s)
    BY <1>9, ReleaseTypeOK DEF Publish, Release
<1>10. CASE AbortSync(s)
    <2>1. Unselected \in [validity : Nat, next : UID, msgs : Seq(Message)]
        BY DEF Unselected, UID
    <2> QED
        BY <1>10, <2>1, ReleaseTypeOK DEF AbortSync, Release
<1> QED
    BY <1>1, <1>2, <1>3, <1>4, <1>5, <1>6, <1>7, <1>8, <1>9, <1>10 DEF GetMailbox, SyncStep

LEMMA ReplaceMessagesType ==
    ASSUME TypeOK, NEW s \in Session, NEW msgs \in Seq(Message)
    PROVE  [mbox EXCEPT ![s] = [mbox[s] EXCEPT !.msgs = msgs]] \in
             [Session -> [validity : Nat, next : UID, msgs : Seq(Message)]]
<1>1. [mbox[s] EXCEPT !.msgs = msgs] \in [validity : Nat, next : UID, msgs : Seq(Message)]
    <2>1. mbox[s] \in [validity : Nat, next : UID, msgs : Seq(Message)]
        BY DEF TypeOK
    <2> QED
        BY <2>1
<1> QED
    BY <1>1 DEF TypeOK

LEMMA RenamedType ==
    ASSUME TypeOK, NEW a \in File, NEW b \in File
    PROVE  Renamed(a, b) \in [File -> Mail \cup {None}]
<1>1. cur \in [File -> Mail \cup {None}] /\ cur[a] \in Mail \cup {None}
    BY DEF TypeOK
<1> QED
    BY <1>1 DEF Renamed

LEMMA TouchType ==
    ASSUME TypeOK, NEW fs \in SUBSET File, Touch(fs)
    PROVE  flux' \subseteq File /\ races' \in Nat /\ due' \subseteq Mail
BY DEF Touch, TypeOK

LEMMA OpenMailboxTypeOK ==
    ASSUME TypeOK, NEW s \in Session, OpenMailbox(s)
    PROVE  TypeOK'
<1> USE DEF TypeOK, storeVars, deliveryVars, syncVars, sessionVars, historyVars
<1>1. CASE \E i \in 1 .. 2 * MaxTick : Lookup(s, i)
    BY <1>1 DEF Lookup
<1>2. CASE Close(s)
    <2>1. Unselected \in [validity : Nat, next : UID, msgs : Seq(Message)]
        BY DEF Unselected, UID
    <2> QED
        BY <1>2, <2>1 DEF Close
<1>3. CASE Fetched(s)
    BY <1>3 DEF Fetched
<1>4. ASSUME NEW add \in BOOLEAN, NEW seenFirst \in BOOLEAN, NEW bad \in BOOLEAN,
             UpdateFlags(s, add, seenFirst, bad)
      PROVE  TypeOK'
    <2> DEFINE i == at[s]
               seen == IF seenFirst THEN add ELSE mbox[s].msgs[i].seen
               upd == <<mbox[s].msgs[i].uniq, seen>>
    <2>1. i \in DOMAIN mbox[s].msgs /\ mbox[s].msgs[i] \in Message
        BY <1>4 DEF UpdateFlags
    <2>2. seen \in BOOLEAN /\ upd \in File /\ FileOf(s, i) \in File
        BY <2>1 DEF Message, File, FileOf
    <2>3. mbox' = [mbox EXCEPT ![s].msgs[i].seen = seen]
        BY <1>4 DEF UpdateFlags
    <2>4. [mbox[s].msgs EXCEPT ![i].seen = seen] \in Seq(Message)
        <3>1. [mbox[s].msgs[i] EXCEPT !.seen = seen] \in Message
            BY <2>1, <2>2 DEF Message
        <3>2. mbox[s].msgs \in Seq(Message)
            OBVIOUS
        <3> QED
            BY <2>1, <3>1, <3>2
    <2>5. mbox' \in [Session -> [validity : Nat, next : UID, msgs : Seq(Message)]]
        <3>1. mbox' = [mbox EXCEPT ![s] =
                         [mbox[s] EXCEPT !.msgs = [mbox[s].msgs EXCEPT ![i].seen = seen]]]
            BY <2>3
        <3> HIDE DEF i, seen, upd
        <3> QED
            BY <3>1, <2>4, ReplaceMessagesType
    <2>6. /\ cur' \in [File -> Mail \cup {None}] /\ flux' \subseteq File
          /\ races' \in Nat /\ due' \subseteq Mail
        <3> DEFINE still == bad \/ FileOf(s, i) = upd \/ cur[FileOf(s, i)] = None
        <3>1. CASE still
            <4>1. UNCHANGED <<cur, flux, due, races>>
                BY <1>4, <3>1 DEF UpdateFlags
            <4> QED
                BY ONLY <4>1, TypeOK
        <3>2. CASE ~still
            <4>1. cur' = Renamed(FileOf(s, i), upd) /\ Touch({FileOf(s, i), upd})
                BY <1>4, <3>2 DEF UpdateFlags
            <4> HIDE DEF i, seen, upd, still
            <4>2. flux' \subseteq File /\ races' \in Nat /\ due' \subseteq Mail
                BY <4>1, <2>2, TouchType
            <4> QED
                BY <4>1, <4>2, <2>2, RenamedType
        <3> QED
            BY <3>1, <3>2
    <2>7. \A t \in Session : pc'[t] = "found" => at'[t] \in DOMAIN mbox'[t].msgs
        BY <1>4, <2>3 DEF UpdateFlags
    <2> QED
        BY <1>4, <2>5, <2>6, <2>7 DEF UpdateFlags
<1> QED
    BY <1>1, <1>2, <1>3, <1>4 DEF OpenMailbox

LEMMA EnvironmentTypeOK ==
    ASSUME TypeOK, IMAPCrash \/ \E f \in File : Vanish(f)
    PROVE  TypeOK'
<1> USE DEF TypeOK, storeVars, deliveryVars, syncVars, sessionVars, historyVars
<1>1. CASE \E f \in File : Vanish(f)
    BY <1>1 DEF Vanish, Touch
<1>2. CASE IMAPCrash
    <2>1. Unselected \in [validity : Nat, next : UID, msgs : Seq(Message)]
        BY DEF Unselected, UID
    <2> QED
        BY <1>2, <2>1, ReleaseTypeOK DEF IMAPCrash, Release
<1> QED
    BY <1>1, <1>2

LEMMA NextTypeOK == TypeOK /\ [Next]_vars => TypeOK'
<1> SUFFICES ASSUME TypeOK, [Next]_vars
             PROVE  TypeOK'
    OBVIOUS
<1>1. CASE UNCHANGED vars
    BY <1>1 DEF TypeOK, vars, storeVars, deliveryVars, syncVars, sessionVars, historyVars
<1> QED
    BY <1>1, StoreMailTypeOK, GetMailboxTypeOK, OpenMailboxTypeOK, EnvironmentTypeOK DEF Next

\* Every variable keeps its type; the lock is held exactly while one session is
\* in GetMailbox, whichever way it leaves it.
THEOREM TypeCorrect == Spec => []TypeOK
BY InitTypeOK, NextTypeOK, PTL DEF Spec

-----------------------------------------------------------------------------
(* The inductive invariant.                                                *)

Early == {"list", "migrate", "scan", "load"}

LEMMA InitUIDInv == Init => UIDInv
<1> SUFFICES ASSUME Init
             PROVE  UIDInv
    OBVIOUS
<1>1. uidlist.next = 1 /\ uidlist.recs = {}
    BY DEF Init, NoList, FreshList
<1>2. FileInv
    BY <1>1 DEF Init, FileInv
<1>3. HolderInv
    BY DEF Init, HolderInv
<1>4. SnapshotInv
    BY DEF Init, SnapshotInv, Opened
<1> QED
    BY <1>2, <1>3, <1>4 DEF UIDInv

\* Steps that leave the list on disk, the holder's copy and the snapshots alone.
LEMMA Frame ==
    ASSUME UIDInv,
           uidlist' = uidlist, issued' = issued, list' = list, index' = index,
           lock' = lock, mbox' = mbox,
           phase' = phase \/ (phase \in Early /\ phase' \in Early),
           \A s \in Session : Opened(s)' => Opened(s)
    PROVE  UIDInv'
<1>1. FileInv'
    BY DEF UIDInv, FileInv
<1>2. HolderInv'
    BY DEF UIDInv, HolderInv, Extends, Early
<1>3. SnapshotInv'
    BY DEF UIDInv, SnapshotInv, Early
<1> QED
    BY <1>1, <1>2, <1>3 DEF UIDInv

LEMMA StoreMailUIDInv ==
    ASSUME UIDInv, NEW m \in Mail, StoreMail(m)
    PROVE  UIDInv'
<1>1. /\ UNCHANGED <<uidlist, issued, list, index, lock, phase, sessionVars>>
    BY DEF StoreMail, GenerateUniqueMeta, Spool, MoveToNew, SyncNew, FailStore,
           storeVars, deliveryVars, syncVars, sessionVars, historyVars
<1> QED
    BY <1>1, Frame DEF sessionVars, Opened

\* Leaving GetMailbox: the holder's objects are dropped.
LEMMA LeaveUIDInv ==
    ASSUME UIDInv, Release, UNCHANGED <<uidlist, issued>>,
           \A s \in Session : Opened(s)' =>
              /\ mbox'[s].next <= uidlist.next
              /\ \A i \in DOMAIN mbox'[s].msgs :
                    Entry(mbox'[s].validity, mbox'[s].msgs[i]) \in issued
    PROVE  UIDInv'
<1>1. FileInv'
    BY DEF UIDInv, FileInv
<1>2. HolderInv'
    BY DEF Release, HolderInv
<1>3. SnapshotInv'
    BY DEF Release, SnapshotInv
<1> QED
    BY <1>1, <1>2, <1>3 DEF UIDInv

LEMMA BeginSyncUIDInv ==
    ASSUME TypeOK, UIDInv, NEW s \in Session, BeginSync(s)
    PROVE  UIDInv'
<1> USE DEF historyVars
<1>1. FileInv'
    BY DEF BeginSync, UIDInv, FileInv
<1>2. HolderInv'
    <2>1. index' \subseteq list'.recs
        BY DEF BeginSync, RecordsByUnique
    <2>2. list' = uidlist' \/ (uidlist' = NoList /\ \E v \in Validity : list' = FreshList(v))
        BY DEF BeginSync
    <2>3. phase' = "list"
        BY DEF BeginSync
    <2>4. list'.validity \in Validity
        BY DEF BeginSync, FreshList, UIDInv, FileInv
    <2> QED
        BY <2>1, <2>2, <2>3, <2>4 DEF HolderInv
<1>3. SnapshotInv'
    <2>1. phase' = "list" /\ UNCHANGED <<uidlist, issued, mbox>>
        BY DEF BeginSync
    <2>2. \A t \in Session : Opened(t)' => Opened(t)
        BY DEF BeginSync, Opened, TypeOK
    <2> QED
        BY <2>1, <2>2 DEF UIDInv, SnapshotInv
<1> QED
    BY <1>1, <1>2, <1>3 DEF UIDInv

LEMMA NothingChangedUIDInv ==
    ASSUME TypeOK, UIDInv, NEW s \in Session, NothingChanged(s)
    PROVE  UIDInv'
<1>1. PICK old \in ByUIDOrder(Assigned) : mbox' = [mbox EXCEPT ![s] = Selected(list, old)]
    BY DEF NothingChanged
<1>2. old \in Seq(Assigned)
    BY OldMessages
<1>3. mbox'[s] = [validity |-> list.validity, next |-> list.next, msgs |-> old]
    BY <1>1 DEF TypeOK, Selected
<1>4. /\ index \subseteq list.recs
      /\ list = uidlist \/ (uidlist = NoList /\ \E v \in Validity : list = FreshList(v))
    BY DEF NothingChanged, UIDInv, HolderInv
<1>5. list.next = uidlist.next
    BY <1>4 DEF NoList, FreshList
<1>6. \A r \in index : Entry(list.validity, r) \in issued
    BY <1>4 DEF NoList, FreshList, UIDInv, FileInv
<1>7. \A i \in DOMAIN old : Entry(list.validity, old[i]) \in issued
    <2> SUFFICES ASSUME NEW i \in DOMAIN old
                 PROVE  Entry(list.validity, old[i]) \in issued
        OBVIOUS
    <2>1. old[i] \in Assigned
        BY <1>2
    <2>2. [uid |-> old[i].uid, uniq |-> old[i].uniq] \in index
        BY <2>1 DEF Assigned
    <2> QED
        BY <1>6, <2>2 DEF Entry
<1>8. \A t \in Session : Opened(t)' =>
          /\ mbox'[t].next <= uidlist.next
          /\ \A i \in DOMAIN mbox'[t].msgs :
                Entry(mbox'[t].validity, mbox'[t].msgs[i]) \in issued
    <2> SUFFICES ASSUME NEW t \in Session, Opened(t)'
                 PROVE  /\ mbox'[t].next <= uidlist.next
                        /\ \A i \in DOMAIN mbox'[t].msgs :
                              Entry(mbox'[t].validity, mbox'[t].msgs[i]) \in issued
        OBVIOUS
    <2>1. CASE t = s
        BY <2>1, <1>3, <1>5, <1>7 DEF TypeOK, UID
    <2>2. CASE t # s
        <3>1. mbox'[t] = mbox[t] /\ Opened(t)
            BY <2>2, <1>1 DEF NothingChanged, TypeOK, Opened
        <3> QED
            BY <3>1 DEF UIDInv, SnapshotInv
    <2> QED
        BY <2>1, <2>2
<1> QED
    BY <1>8, LeaveUIDInv DEF NothingChanged, historyVars

LEMMA ModBelow == \A n \in UID : n % UIDSpace = n
BY DEF UID

\* What AssignUIDs leaves of the early holder's invariant: the list is as long
\* as the one on disk and everything in it was issued.
LEMMA EarlyList ==
    ASSUME TypeOK, UIDInv, phase \in Early
    PROVE  /\ list.next = uidlist.next /\ list.recs \subseteq uidlist.recs
           /\ index \subseteq list.recs
           /\ list.validity \in Validity
           /\ uidlist = NoList \/ list.validity = uidlist.validity
           /\ \A r \in list.recs : r.uid < list.next
           /\ \A a, b \in list.recs : a.uid = b.uid => a = b
<1>1. list = uidlist \/ (uidlist = NoList /\ \E v \in Validity : list = FreshList(v))
    BY DEF Early, UIDInv, HolderInv
<1>2. index \subseteq list.recs /\ list.validity \in Validity
    BY DEF Early, UIDInv, HolderInv
<1>3. list.next = uidlist.next /\ list.recs \subseteq uidlist.recs
    BY <1>1 DEF NoList, FreshList
<1>4. uidlist = NoList \/ list.validity = uidlist.validity
    BY <1>1
<1>5. \A r \in list.recs : r.uid < list.next
    BY <1>3 DEF UIDInv, FileInv, Entry
<1>6. \A a, b \in list.recs : a.uid = b.uid => a.uniq = b.uniq
    <2>1. \A a, b \in uidlist.recs : a.uid = b.uid => a.uniq = b.uniq
        BY DEF UIDInv, FileInv, Entry
    <2> QED
        BY <1>3, <2>1
<1>7. \A a, b \in list.recs : a.uid = b.uid => a = b
    <2>1. \A r \in list.recs : r = [uid |-> r.uid, uniq |-> r.uniq]
        BY DEF TypeOK, Record
    <2> QED
        BY <1>6, <2>1
<1> QED
    BY <1>2, <1>3, <1>4, <1>5, <1>7

LEMMA AssignUIDsUIDInv ==
    ASSUME TypeOK, UIDInv, NEW s \in Session, AssignUIDs(s), ~wrapped'
    PROVE  UIDInv'
<1>1. PICK old \in ByUIDOrder(Assigned), fresh \in ByNameOrder(Unassigned) :
          /\ list' = Assign(fresh)
          /\ mbox' = [mbox EXCEPT ![s] = Selected(Assign(fresh), Appended(old, fresh))]
          /\ wrapped' = (wrapped \/ list.next + Len(fresh) >= UIDSpace)
    BY DEF AssignUIDs
<1>2. /\ lock = s /\ phase \in Early /\ phase' = "commit"
      /\ UNCHANGED <<uidlist, issued, lock, pc>>
    BY DEF AssignUIDs, Early
<1> DEFINE n == Len(fresh)
           rec(i) == [uid |-> GivenUID(i), uniq |-> fresh[i][1]]
<1>3. n \in Nat /\ DOMAIN fresh = 1 .. n /\ list.next \in UID /\ list.next + n < UIDSpace
    <2>1. n \in Nat /\ DOMAIN fresh = 1 .. n
        BY FreshNames
    <2>2. list.next \in UID
        BY DEF TypeOK
    <2>3. ~(list.next + n >= UIDSpace)
        BY <1>1
    <2> HIDE DEF n
    <2> QED
        BY <2>1, <2>2, <2>3 DEF UID
<1>4. \A i \in 1 .. n : GivenUID(i) = list.next + i - 1
    <2>1. \A i \in 1 .. n : list.next + i - 1 \in UID
        BY <1>3 DEF UID
    <2> QED
        BY <2>1, ModBelow DEF GivenUID
<1>5. list'.next = list.next + n /\ list'.validity = list.validity
    <2>1. list.next + n \in UID
        BY <1>3 DEF UID
    <2> QED
        BY <1>1, <2>1, ModBelow DEF Assign
<1>6. list'.recs = {r \in {q \in list.recs : \A a \in {rec(i) : i \in 1 .. n} : a.uid # q.uid}
                          \cup {rec(i) : i \in 1 .. n} : \A v \in Vanished : v.uid # r.uid}
    <2> DEFINE last == {i \in DOMAIN fresh :
                          \A j \in DOMAIN fresh : i < j => GivenUID(i) # GivenUID(j)}
    <2>1. \A i, j \in 1 .. n : i < j => GivenUID(i) # GivenUID(j)
        BY <1>3, <1>4 DEF UID
    <2>2. last = 1 .. n
        BY <1>3, <2>1
    <2> QED
        BY <1>1, <2>2 DEF Assign
<1>7. /\ list.next = uidlist.next /\ list.recs \subseteq uidlist.recs
      /\ index \subseteq list.recs /\ list.validity \in Validity
      /\ uidlist = NoList \/ list.validity = uidlist.validity
      /\ \A r \in list.recs : r.uid < list.next
      /\ \A a, b \in list.recs : a.uid = b.uid => a = b
    BY <1>2, EarlyList
<1> HIDE DEF n
<1>8. Extends'
    <2>1. list'.next >= uidlist'.next
        BY <1>2, <1>3, <1>5, <1>7 DEF UID
    <2>2. \A r \in list'.recs : r \in list.recs \/ \E i \in 1 .. n : r = rec(i)
        BY <1>6
    <2>3. \A i \in 1 .. n : rec(i).uid >= list.next /\ rec(i).uid < list.next + n
        BY <1>3, <1>4 DEF UID
    <2>4. \A r \in list'.recs :
              r \in uidlist'.recs \/ (r.uid >= uidlist'.next /\ r.uid < list'.next)
        BY <1>2, <1>5, <1>7, <2>2, <2>3
    <2>5. \A a, b \in list'.recs :
              a.uid >= uidlist'.next /\ a.uid = b.uid => a.uniq = b.uniq
        <3> SUFFICES ASSUME NEW a \in list'.recs, NEW b \in list'.recs,
                            a.uid >= list.next, a.uid = b.uid
                     PROVE  a.uniq = b.uniq
            BY <1>2, <1>7
        <3>1. a \notin list.recs /\ b \notin list.recs
            <4>1. \A r \in list.recs : r.uid \in Int /\ r.uid < list.next
                BY <1>7 DEF TypeOK, Record, UID
            <4>2. list.next \in Int
                BY <1>3 DEF UID
            <4> QED
                BY <4>1, <4>2
        <3>2. PICK i \in 1 .. n : a = rec(i)
            BY <2>2, <3>1
        <3>3. PICK j \in 1 .. n : b = rec(j)
            BY <2>2, <3>1
        <3>4. list.next + i - 1 = list.next + j - 1
            BY <1>4, <3>2, <3>3
        <3>5. i = j
            BY <3>4, <1>3 DEF UID
        <3> QED
            BY <3>2, <3>3, <3>5
    <2> QED
        BY <1>2, <1>5, <1>7, <2>1, <2>4, <2>5 DEF Extends
<1>9. FileInv'
    BY <1>2 DEF UIDInv, FileInv
<1>10. HolderInv'
    BY <1>2, <1>8 DEF HolderInv
<1>11. \A i \in DOMAIN Appended(old, fresh) :
           [uid |-> Appended(old, fresh)[i].uid, uniq |-> Appended(old, fresh)[i].uniq]
             \in list'.recs
    <2>1. \A m \in Assigned : [uid |-> m.uid, uniq |-> m.uniq] \in list'.recs
        <3> SUFFICES ASSUME NEW m \in Assigned
                     PROVE  [uid |-> m.uid, uniq |-> m.uniq] \in list'.recs
            OBVIOUS
        <3> DEFINE r == [uid |-> m.uid, uniq |-> m.uniq]
        <3>1. r \in index /\ <<m.uniq, m.seen>> \in names
            BY DEF Assigned
        <3>2. r \in list.recs /\ r.uid < list.next
            BY <3>1, <1>7
        <3>3. \A i \in 1 .. n : rec(i).uid # r.uid
            BY <3>2, <1>3, <1>4 DEF TypeOK, Record, UID
        <3>4. \A v \in Vanished : v.uid # r.uid
            BY <3>1, <3>2, <1>7 DEF Vanished
        <3> HIDE DEF r
        <3>5. r \in list'.recs
            BY <1>6, <3>2, <3>3, <3>4
        <3> QED
            BY <3>5 DEF r
    <2>2. \A i \in 1 .. n : rec(i) \in list'.recs
        <3> SUFFICES ASSUME NEW i \in 1 .. n
                     PROVE  rec(i) \in list'.recs
            OBVIOUS
        <3>1. \A v \in Vanished : v.uid # rec(i).uid
            BY <1>3, <1>4, <1>7 DEF Vanished, TypeOK, Record, UID
        <3> QED
            BY <1>6, <3>1
    <2> DEFINE added == [i \in 1 .. n |->
                           [uid |-> GivenUID(i), uniq |-> fresh[i][1], seen |-> fresh[i][2]]]
    <2>3. Appended(old, fresh) = old \o added
        BY <1>3 DEF Appended
    <2>4. old \in Seq(Assigned)
        BY OldMessages
    <2>5. \A i \in 1 .. n : [uid |-> added[i].uid, uniq |-> added[i].uniq] = rec(i)
        OBVIOUS
    <2>6. added \in Seq({added[i] : i \in 1 .. n}) /\ Len(added) = n
        <3>1. added \in [1 .. n -> {added[i] : i \in 1 .. n}]
            OBVIOUS
        <3> HIDE DEF added
        <3> QED
            BY <3>1, <1>3, FunctionIsSeq
    <2> HIDE DEF added
    <2> SUFFICES ASSUME NEW i \in DOMAIN (old \o added)
                 PROVE  [uid |-> (old \o added)[i].uid, uniq |-> (old \o added)[i].uniq]
                          \in list'.recs
        BY <2>3
    <2>7. CASE i \in 1 .. Len(old)
        <3>1. (old \o added)[i] = old[i] /\ old[i] \in Assigned
            BY <2>4, <2>6, <2>7
        <3> QED
            BY <2>1, <3>1
    <2>8. CASE i \notin 1 .. Len(old)
        <3>1. i - Len(old) \in 1 .. n /\ (old \o added)[i] = added[i - Len(old)]
            BY <2>4, <2>6, <2>8
        <3> QED
            BY <2>2, <2>5, <3>1
    <2> QED
        BY <2>7, <2>8
<1>12. SnapshotInv'
    <2>1. mbox'[s] = [validity |-> list'.validity, next |-> list'.next,
                      msgs |-> Appended(old, fresh)]
        BY <1>1 DEF TypeOK, Selected
    <2>2. pc[s] = "sync"
        BY <1>2 DEF TypeOK
    <2> SUFFICES ASSUME NEW t \in Session
                 PROVE  /\ Opened(t)' =>
                              /\ mbox'[t].next <= uidlist'.next
                              /\ \A i \in DOMAIN mbox'[t].msgs :
                                    Entry(mbox'[t].validity, mbox'[t].msgs[i]) \in issued'
                        /\ lock' = t =>
                              /\ mbox'[t].validity = list'.validity
                              /\ mbox'[t].next = list'.next
                              /\ \A i \in DOMAIN mbox'[t].msgs :
                                    [uid |-> mbox'[t].msgs[i].uid,
                                     uniq |-> mbox'[t].msgs[i].uniq] \in list'.recs
        BY DEF SnapshotInv
    <2>3. CASE t = s
        BY <1>2, <1>11, <2>1, <2>2, <2>3 DEF Opened
    <2>4. CASE t # s
        <3>1. mbox'[t] = mbox[t] /\ (Opened(t)' => Opened(t)) /\ lock' # t
            BY <1>1, <1>2, <2>4 DEF Opened, TypeOK
        <3> QED
            BY <1>2, <3>1 DEF UIDInv, SnapshotInv
    <2> QED
        BY <2>3, <2>4
<1> QED
    BY <1>9, <1>10, <1>12 DEF UIDInv

LEMMA CommitListUIDInv ==
    ASSUME TypeOK, UIDInv, NEW s \in Session, CommitList(s)
    PROVE  UIDInv'
<1> DEFINE made == {[validity |-> list.validity, uid |-> r.uid, uniq |-> r.uniq] : r \in list.recs}
<1>1. /\ uidlist' = list /\ issued' = issued \cup made
      /\ phase = "commit" /\ phase' = "publish"
      /\ UNCHANGED <<lock, list, pc, mbox>>
    BY DEF CommitList, sessionVars
<1>2. Extends
    BY <1>1 DEF UIDInv, HolderInv
<1>3. FileInv
    BY DEF UIDInv
<1>4. /\ uidlist.next \in Int /\ list.next \in Int
      /\ \A r \in list.recs : r.uid \in Int
      /\ \A e \in issued : e.uid \in Int
    BY DEF TypeOK, Record, UID
<1>5. \A r \in list.recs : r.uid < list.next
    <2> SUFFICES ASSUME NEW r \in list.recs
                 PROVE  r.uid < list.next
        OBVIOUS
    <2>1. CASE r \in uidlist.recs
        <3>1. Entry(uidlist.validity, r) \in issued
            BY <1>3, <2>1 DEF FileInv
        <3>2. r.uid < uidlist.next
            BY <1>3, <3>1 DEF FileInv, Entry
        <3> QED
            BY <1>2, <1>4, <3>2 DEF Extends
    <2> QED
        BY <1>2, <2>1 DEF Extends
<1>6. \A e \in issued : e.validity = list.validity /\ e.uid < uidlist.next
    BY <1>2, <1>3 DEF FileInv, Extends
<1>7. FileInv'
    <2>1. uidlist'.validity \in Validity /\ uidlist' # NoList
        BY <1>1, <1>2 DEF Extends, NoList, FreshList
    <2>2. uidlist'.next >= 1
        BY <1>1, <1>2, <1>3, <1>4 DEF Extends, FileInv
    <2>3. \A r \in uidlist'.recs : Entry(uidlist'.validity, r) \in issued'
        BY <1>1 DEF Entry
    <2>4. \A e \in issued' : e.validity = uidlist'.validity /\ e.uid < uidlist'.next
        <3>1. \A e \in issued : e.uid < list.next
            BY <1>2, <1>4, <1>6 DEF Extends
        <3> QED
            BY <1>1, <1>5, <1>6, <3>1
    <2>5. \A a, b \in issued' : a.uid = b.uid => a.uniq = b.uniq
        <3>1. \A a, b \in issued : a.uid = b.uid => a.uniq = b.uniq
            BY <1>3 DEF FileInv
        <3>2. \A r \in list.recs, e \in issued : r.uid = e.uid => r.uniq = e.uniq
            <4> SUFFICES ASSUME NEW r \in list.recs, NEW e \in issued, r.uid = e.uid
                         PROVE  r.uniq = e.uniq
                OBVIOUS
            <4>1. r \in uidlist.recs
                BY <1>2, <1>4, <1>6 DEF Extends
            <4>2. Entry(uidlist.validity, r) \in issued
                BY <1>3, <4>1 DEF FileInv
            <4> QED
                BY <3>1, <4>2 DEF Entry
        <3>3. \A a, b \in list.recs : a.uid = b.uid => a.uniq = b.uniq
            <4> SUFFICES ASSUME NEW a \in list.recs, NEW b \in list.recs, a.uid = b.uid
                         PROVE  a.uniq = b.uniq
                OBVIOUS
            <4>1. CASE a \in uidlist.recs
                <5>1. Entry(uidlist.validity, a) \in issued
                    BY <1>3, <4>1 DEF FileInv
                <5> QED
                    BY <3>2, <5>1 DEF Entry
            <4> QED
                BY <1>2, <4>1 DEF Extends
        <3> QED
            BY <1>1, <3>1, <3>2, <3>3
    <2> QED
        BY <2>1, <2>2, <2>3, <2>4, <2>5 DEF FileInv
<1>8. HolderInv'
    BY <1>1 DEF HolderInv
<1>9. SnapshotInv'
    <2> HIDE DEF made
    <2>1. \A t \in Session : Opened(t)' => Opened(t)
        BY <1>1 DEF Opened
    <2>2. \A t \in Session : mbox[t].next \in Int
        BY DEF TypeOK, UID
    <2>3. \A t \in Session : mbox[t].next <= uidlist.next => mbox[t].next <= uidlist'.next
        BY <1>1, <1>2, <1>4, <2>2 DEF Extends
    <2> QED
        BY <1>1, <2>1, <2>3 DEF UIDInv, SnapshotInv
<1> QED
    BY <1>7, <1>8, <1>9 DEF UIDInv

LEMMA PublishUIDInv ==
    ASSUME TypeOK, UIDInv, NEW s \in Session, Publish(s)
    PROVE  UIDInv'
<1>1. /\ list = uidlist /\ lock = s /\ phase = "publish" /\ mbox' = mbox
      /\ UNCHANGED <<uidlist, issued>> /\ Release
    BY DEF Publish, UIDInv, HolderInv, historyVars
<1>2. /\ mbox[s].next <= uidlist.next
      /\ \A i \in DOMAIN mbox[s].msgs : Entry(mbox[s].validity, mbox[s].msgs[i]) \in issued
    <2>1. /\ mbox[s].validity = uidlist.validity /\ mbox[s].next = uidlist.next
          /\ \A i \in DOMAIN mbox[s].msgs :
                [uid |-> mbox[s].msgs[i].uid, uniq |-> mbox[s].msgs[i].uniq] \in uidlist.recs
        BY <1>1 DEF UIDInv, SnapshotInv
    <2>2. \A r \in uidlist.recs : Entry(uidlist.validity, r) \in issued
        BY DEF UIDInv, FileInv
    <2>3. uidlist.next \in Int
        BY DEF TypeOK, UID
    <2>4. mbox[s].next <= uidlist.next
        BY <2>1, <2>3
    <2>5. ASSUME NEW i \in DOMAIN mbox[s].msgs
          PROVE  Entry(mbox[s].validity, mbox[s].msgs[i]) \in issued
        <3> DEFINE r == [uid |-> mbox[s].msgs[i].uid, uniq |-> mbox[s].msgs[i].uniq]
        <3>1. Entry(uidlist.validity, r) \in issued
            BY <2>1, <2>2
        <3>2. Entry(mbox[s].validity, mbox[s].msgs[i]) = Entry(uidlist.validity, r)
            BY <2>1 DEF Entry
        <3> QED
            BY <3>1, <3>2
    <2> QED
        BY <2>4, <2>5
<1>3. \A t \in Session : t # s => (Opened(t)' => Opened(t))
    BY DEF Publish, Opened, TypeOK
<1>4. \A t \in Session : Opened(t)' =>
          /\ mbox'[t].next <= uidlist.next
          /\ \A i \in DOMAIN mbox'[t].msgs :
                Entry(mbox'[t].validity, mbox'[t].msgs[i]) \in issued
    BY <1>1, <1>2, <1>3 DEF UIDInv, SnapshotInv
<1> QED
    BY <1>1, <1>4, LeaveUIDInv

LEMMA AbortUIDInv ==
    ASSUME TypeOK, UIDInv, IMAPCrash \/ \E s \in Session : AbortSync(s)
    PROVE  UIDInv'
<1>1. Release /\ UNCHANGED <<uidlist, issued>>
    BY DEF IMAPCrash, AbortSync, historyVars
<1>2. \A t \in Session : Opened(t)' => Opened(t) /\ mbox'[t] = mbox[t]
    BY DEF IMAPCrash, AbortSync, Opened, TypeOK
<1>3. \A t \in Session : Opened(t)' =>
          /\ mbox'[t].next <= uidlist.next
          /\ \A i \in DOMAIN mbox'[t].msgs :
                Entry(mbox'[t].validity, mbox'[t].msgs[i]) \in issued
    BY <1>2 DEF UIDInv, SnapshotInv
<1> QED
    BY <1>1, <1>3, LeaveUIDInv

\* Steps that change only the memory of a session that is not the holder, and
\* of what it remembers neither UIDs nor names.
LEMMA SessionFrame ==
    ASSUME UIDInv, NEW s \in Session,
           UNCHANGED <<uidlist, issued, list, index, lock, phase>>,
           lock # s,
           Opened(s)' => Opened(s),
           Opened(s)' =>
              /\ mbox'[s].validity = mbox[s].validity /\ mbox'[s].next = mbox[s].next
              /\ DOMAIN mbox'[s].msgs = DOMAIN mbox[s].msgs
              /\ \A i \in DOMAIN mbox[s].msgs :
                    /\ mbox'[s].msgs[i].uid = mbox[s].msgs[i].uid
                    /\ mbox'[s].msgs[i].uniq = mbox[s].msgs[i].uniq,
           \A t \in Session : t # s => mbox'[t] = mbox[t] /\ (Opened(t)' => Opened(t))
    PROVE  UIDInv'
<1>1. FileInv'
    BY DEF UIDInv, FileInv
<1>2. HolderInv'
    BY DEF UIDInv, HolderInv, Extends
<1>3. SnapshotInv'
    BY DEF UIDInv, SnapshotInv, Entry
<1> QED
    BY <1>1, <1>2, <1>3 DEF UIDInv

LEMMA OpenMailboxUIDInv ==
    ASSUME TypeOK, UIDInv, NEW s \in Session, OpenMailbox(s)
    PROVE  UIDInv'
<1>1. CASE (\E i \in 1 .. 2 * MaxTick : Lookup(s, i)) \/ Fetched(s)
    <2>1. /\ UNCHANGED <<uidlist, issued, list, index, lock, phase, mbox>>
          /\ \A t \in Session : Opened(t)' => Opened(t)
        BY <1>1 DEF Lookup, Fetched, syncVars, historyVars, Opened, TypeOK
    <2> QED
        BY <2>1, Frame
<1>2. CASE Close(s)
    <2>1. /\ UNCHANGED <<uidlist, issued, list, index, lock, phase>>
          /\ lock # s /\ ~Opened(s)'
          /\ \A t \in Session : t # s => mbox'[t] = mbox[t] /\ (Opened(t)' => Opened(t))
        BY <1>2 DEF Close, syncVars, historyVars, Opened, TypeOK
    <2> QED
        BY <2>1, SessionFrame
<1>3. ASSUME NEW add \in BOOLEAN, NEW seenFirst \in BOOLEAN, NEW bad \in BOOLEAN,
             UpdateFlags(s, add, seenFirst, bad)
      PROVE  UIDInv'
    <2> DEFINE i == at[s]
               seen == IF seenFirst THEN add ELSE mbox[s].msgs[i].seen
    <2>1. /\ UNCHANGED <<uidlist, issued, list, index, lock, phase>>
          /\ pc[s] = "found" /\ lock # s
          /\ mbox' = [mbox EXCEPT ![s].msgs[i].seen = seen]
          /\ \A t \in Session : Opened(t)' => Opened(t)
        BY <1>3 DEF UpdateFlags, Opened, TypeOK
    <2>2. i \in DOMAIN mbox[s].msgs /\ mbox[s].msgs[i] \in Message
        BY <2>1 DEF TypeOK
    <2> HIDE DEF seen
    <2>3. mbox'[s] = [mbox[s] EXCEPT !.msgs = [mbox[s].msgs EXCEPT ![i].seen = seen]]
        BY <2>1 DEF TypeOK
    <2>4. /\ mbox'[s].validity = mbox[s].validity /\ mbox'[s].next = mbox[s].next
          /\ mbox'[s].msgs = [mbox[s].msgs EXCEPT ![i].seen = seen]
        BY <2>3 DEF TypeOK
    <2>5. /\ DOMAIN mbox'[s].msgs = DOMAIN mbox[s].msgs
          /\ \A j \in DOMAIN mbox[s].msgs :
                /\ mbox'[s].msgs[j].uid = mbox[s].msgs[j].uid
                /\ mbox'[s].msgs[j].uniq = mbox[s].msgs[j].uniq
        BY <2>2, <2>4 DEF TypeOK, Message
    <2>6. \A t \in Session : t # s => mbox'[t] = mbox[t]
        BY <2>1 DEF TypeOK
    <2> QED
        BY <2>1, <2>4, <2>5, <2>6, SessionFrame
<1> QED
    BY <1>1, <1>2, <1>3 DEF OpenMailbox

LEMMA NextUIDInv ==
    ASSUME TypeOK, UIDInv, [Next]_vars, ~wrapped'
    PROVE  UIDInv'
<1>1. ASSUME NEW m \in Mail, StoreMail(m)
      PROVE  UIDInv'
    BY <1>1, StoreMailUIDInv
<1>2. ASSUME NEW s \in Session, GetMailbox(s)
      PROVE  UIDInv'
    <2>1. CASE Select(s)
        <3>1. /\ UNCHANGED <<uidlist, issued, list, index, lock, phase, mbox>>
              /\ \A t \in Session : Opened(t)' => Opened(t)
            BY <2>1 DEF Select, syncVars, historyVars, Opened, TypeOK
        <3> QED
            BY <3>1, Frame
    <2>2. CASE Migrate(s) \/ BeginScan(s) \/ EndScan(s)
        <3>1. /\ UNCHANGED <<uidlist, issued, list, index, lock, sessionVars>>
              /\ phase \in Early /\ phase' \in Early
            BY <2>2 DEF Migrate, BeginScan, EndScan, sessionVars, historyVars, Early
        <3> QED
            BY <3>1, Frame DEF Opened, sessionVars
    <2> QED
        BY <1>2, <2>1, <2>2, BeginSyncUIDInv, NothingChangedUIDInv, AssignUIDsUIDInv,
           CommitListUIDInv, PublishUIDInv, AbortUIDInv DEF GetMailbox, SyncStep
<1>3. ASSUME NEW s \in Session, OpenMailbox(s)
      PROVE  UIDInv'
    BY <1>3, OpenMailboxUIDInv
<1>4. ASSUME NEW f \in File, Vanish(f)
      PROVE  UIDInv'
    <2>1. UNCHANGED <<uidlist, issued, list, index, lock, phase, sessionVars>>
        BY <1>4 DEF Vanish
    <2> QED
        BY <2>1, Frame DEF Opened, sessionVars
<1>5. CASE IMAPCrash
    BY <1>5, AbortUIDInv
<1>6. CASE UNCHANGED vars
    <2>1. UNCHANGED <<uidlist, issued, list, index, lock, phase, sessionVars>>
        BY <1>6 DEF vars, syncVars, historyVars
    <2> QED
        BY <2>1, Frame DEF Opened, sessionVars
<1> QED
    BY <1>1, <1>2, <1>3, <1>4, <1>5, <1>6 DEF Next

\* Until the UID space is used up the invariant carries over, and a wrapped
\* list stays wrapped.
LEMMA WrappedStays == TypeOK /\ [Next]_vars => (wrapped => wrapped')
<1> SUFFICES ASSUME TypeOK, [Next]_vars, wrapped
             PROVE  wrapped'
    OBVIOUS
<1>1. ASSUME NEW m \in Mail, StoreMail(m)
      PROVE  wrapped'
    BY <1>1 DEF StoreMail, GenerateUniqueMeta, Spool, MoveToNew, SyncNew, FailStore, historyVars
<1>2. ASSUME NEW s \in Session, GetMailbox(s)
      PROVE  wrapped'
    BY <1>2 DEF GetMailbox, SyncStep, Select, BeginSync, Migrate, BeginScan, EndScan,
                NothingChanged, AssignUIDs, CommitList, Publish, AbortSync, historyVars
<1>3. ASSUME NEW s \in Session, OpenMailbox(s)
      PROVE  wrapped'
    BY <1>3 DEF OpenMailbox, Lookup, Close, Fetched, UpdateFlags, historyVars
<1>4. ASSUME NEW f \in File, Vanish(f)
      PROVE  wrapped'
    BY <1>4 DEF Vanish
<1>5. CASE IMAPCrash
    BY <1>5 DEF IMAPCrash, historyVars
<1>6. CASE UNCHANGED vars
    BY <1>6 DEF vars, historyVars
<1> QED
    BY <1>1, <1>2, <1>3, <1>4, <1>5, <1>6 DEF Next

LEMMA NextIInv == IInv /\ [Next]_vars => IInv'
BY NextTypeOK, NextUIDInv, WrappedStays DEF IInv

\* The invariant is inductive: it holds in every reachable state.
THEOREM Inductive == Spec => []IInv
<1>1. Init => IInv
    BY InitTypeOK, InitUIDInv DEF IInv
<1> QED
    BY <1>1, NextIInv, PTL DEF Spec

-----------------------------------------------------------------------------
(* The theorems on UIDs.                                                   *)

\* A UID names one mail for ever, whatever deliveries, sessions, removals,
\* failed syncs and crashes do between each other's steps.
THEOREM UIDsNameOneMail == Spec => []UIDNamesOneMail
<1>1. IInv => UIDNamesOneMail
    BY DEF IInv, UIDInv, FileInv, UIDNamesOneMail
<1> QED
    BY <1>1, Inductive, PTL

\* A session shows only what a uidlist on disk has recorded.
THEOREM SnapshotsWereIssued == Spec => []ShownWasIssued
<1>1. IInv => ShownWasIssued
    BY DEF IInv, UIDInv, SnapshotInv, ShownWasIssued, Entry
<1> QED
    BY <1>1, Inductive, PTL

\* Whatever changes the uidlist is the rename of a list that extends it.
LEMMA OnlyCommitIssues ==
    ASSUME TypeOK, [Next]_vars
    PROVE  UNCHANGED <<uidlist, issued>> \/ \E s \in Session : CommitList(s)
<1>1. ASSUME NEW m \in Mail, StoreMail(m)
      PROVE  UNCHANGED <<uidlist, issued>>
    BY <1>1 DEF StoreMail, GenerateUniqueMeta, Spool, MoveToNew, SyncNew, FailStore, historyVars
<1>2. ASSUME NEW s \in Session, GetMailbox(s), ~CommitList(s)
      PROVE  UNCHANGED <<uidlist, issued>>
    BY <1>2 DEF GetMailbox, SyncStep, Select, BeginSync, Migrate, BeginScan, EndScan,
                NothingChanged, AssignUIDs, Publish, AbortSync, historyVars
<1>3. ASSUME NEW s \in Session, OpenMailbox(s)
      PROVE  UNCHANGED <<uidlist, issued>>
    BY <1>3 DEF OpenMailbox, Lookup, Close, Fetched, UpdateFlags, historyVars
<1>4. ASSUME NEW f \in File, Vanish(f)
      PROVE  UNCHANGED <<uidlist, issued>>
    BY <1>4 DEF Vanish
<1>5. CASE IMAPCrash
    BY <1>5 DEF IMAPCrash, historyVars
<1>6. CASE UNCHANGED vars
    BY <1>6 DEF vars, historyVars
<1> QED
    BY <1>1, <1>2, <1>3, <1>4, <1>5, <1>6 DEF Next

\* What the rename of a new list adds: UIDs from the old Next on.
LEMMA CommitIssues ==
    ASSUME TypeOK, UIDInv, NEW s \in Session, CommitList(s)
    PROVE  /\ \A e \in issued' \ issued :
                 /\ e.validity = uidlist'.validity
                 /\ e.uid >= uidlist.next /\ e.uid < uidlist'.next
           /\ \A e, f \in issued' \ issued : e.uid = f.uid => e = f
           /\ issued \subseteq issued'
           /\ uidlist'.next >= uidlist.next
           /\ uidlist = NoList \/ uidlist'.validity = uidlist.validity
<1>1. /\ uidlist' = list /\ phase = "commit"
      /\ issued' = issued \cup
           {[validity |-> list.validity, uid |-> r.uid, uniq |-> r.uniq] : r \in list.recs}
    BY DEF CommitList
<1>2. Extends
    BY <1>1 DEF UIDInv, HolderInv
<1>3. \A r \in uidlist.recs : Entry(uidlist.validity, r) \in issued
    BY DEF UIDInv, FileInv
<1>4. \A e \in issued' \ issued : \E r \in list.recs :
          /\ e = Entry(list.validity, r)
          /\ r.uid >= uidlist.next /\ r.uid < list.next
    <2> SUFFICES ASSUME NEW e \in issued' \ issued
                 PROVE  \E r \in list.recs :
                            /\ e = Entry(list.validity, r)
                            /\ r.uid >= uidlist.next /\ r.uid < list.next
        OBVIOUS
    <2>1. PICK r \in list.recs : e = Entry(list.validity, r)
        BY <1>1 DEF Entry
    <2>2. r \notin uidlist.recs
        <3>1. uidlist = NoList => uidlist.recs = {}
            BY DEF NoList, FreshList
        <3> QED
            BY <1>2, <1>3, <2>1, <3>1 DEF Extends
    <2> QED
        BY <1>2, <2>1, <2>2 DEF Extends
<1>5. \A e, f \in issued' \ issued : e.uid = f.uid => e = f
    <2> SUFFICES ASSUME NEW e \in issued' \ issued, NEW f \in issued' \ issued, e.uid = f.uid
                 PROVE  e = f
        OBVIOUS
    <2>1. PICK r \in list.recs : e = Entry(list.validity, r) /\ r.uid >= uidlist.next
        BY <1>4
    <2>2. PICK q \in list.recs : f = Entry(list.validity, q)
        BY <1>4
    <2>3. r.uid = q.uid
        BY <2>1, <2>2 DEF Entry
    <2>4. r.uniq = q.uniq
        BY <1>2, <2>1, <2>3 DEF Extends
    <2> QED
        BY <2>1, <2>2, <2>3, <2>4 DEF Entry
<1>6. \A e \in issued' \ issued :
          /\ e.validity = uidlist'.validity
          /\ e.uid >= uidlist.next /\ e.uid < uidlist'.next
    BY <1>1, <1>4 DEF Entry
<1> QED
    BY <1>1, <1>2, <1>5, <1>6 DEF Extends

\* UIDNEXT is a promise to every open session.
THEOREM UIDNextPromised == Spec => UIDNextIsPromise
<1>1. ASSUME IInv, [Next]_vars, ~wrapped', NEW s \in Session, Opened(s),
             NEW r \in issued' \ issued
      PROVE  r.uid >= mbox[s].next
    <2>1. TypeOK /\ UIDInv
        BY <1>1, WrappedStays DEF IInv
    <2>2. PICK t \in Session : CommitList(t)
        BY <1>1, <2>1, OnlyCommitIssues
    <2>3. r.uid >= uidlist.next
        BY <2>1, <2>2, CommitIssues
    <2>4. mbox[s].next <= uidlist.next
        BY <1>1, <2>1 DEF UIDInv, SnapshotInv
    <2>5. r.uid \in Int /\ uidlist.next \in Int /\ mbox[s].next \in Int
        <3>1. TypeOK'
            BY <1>1, <2>1, NextTypeOK
        <3>2. r.uid \in UID
            <4>1. issued' \subseteq [validity : Nat, uid : UID, uniq : Uniq]
                BY <3>1 DEF TypeOK, UID, Uniq
            <4> QED
                BY <1>1, <4>1
        <3>3. uidlist.next \in UID /\ mbox[s].next \in UID
            BY <2>1 DEF TypeOK
        <3> QED
            BY <3>2, <3>3 DEF UID
    <2> QED
        BY <2>3, <2>4, <2>5
<1>2. IInv /\ [Next]_vars =>
        [~wrapped' => \A s \in Session : Opened(s) =>
            \A r \in issued' \ issued :
                r.validity = mbox[s].validity => r.uid >= mbox[s].next]_vars
    BY <1>1
<1> QED
    BY <1>2, Inductive, PTL DEF Spec, UIDNextIsPromise

\* The mailbox implements the ledger of UIDs: its initial states are the
\* ledger's, and every step issues UIDs as the ledger does or leaves it alone.
THEOREM ImplementsLedger == Spec => LedgerSpec
<1>1. Init => Ledger!Init
    BY DEF Init, Ledger!Init, NoList, FreshList
<1>2. IInv /\ [Next]_vars => [~wrapped' => Ledger!Next]_(Ledger!vars)
    <2> SUFFICES ASSUME IInv, [Next]_vars, ~wrapped'
                 PROVE  Ledger!Next \/ UNCHANGED Ledger!vars
        OBVIOUS
    <2>1. TypeOK /\ UIDInv
        BY WrappedStays DEF IInv
    <2>2. CASE UNCHANGED <<uidlist, issued>>
        BY <2>2 DEF Ledger!vars
    <2>3. ASSUME NEW s \in Session, CommitList(s)
          PROVE  Ledger!Next
        <3>1. uidlist = NoList => uidlist.validity = 0
            BY DEF NoList, FreshList
        <3> QED
            BY <2>1, <2>3, <3>1, CommitIssues DEF Ledger!Next, Ledger!Issue, Ledger!Entries
    <2> QED
        BY <2>1, <2>2, <2>3, OnlyCommitIssues
<1> QED
    BY <1>1, <1>2, Inductive, PTL DEF Spec, LedgerSpec
=============================================================================
