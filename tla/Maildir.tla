------------------------------ MODULE Maildir ------------------------------
(***************************************************************************)
(* One user's INBOX as lib/maildir keeps it on disk, and the processes     *)
(* that work on it: the deliveries of the SMTP server (StoreMail), the     *)
(* IMAP sessions that select the mailbox (GetMailbox), look messages up    *)
(* and change their flags (BySeq, ByUID, UpdateFlags), and whatever else   *)
(* removes files from the directory (Vanish).                              *)
(*                                                                         *)
(* The directories tmp/, new/ and cur/ map a file name to the mail the     *)
(* file holds.  A unique name (UniqueMeta.ToFileName) is the microsecond   *)
(* it was generated in: the process id is that of the one SMTP server, the *)
(* counter is always 1, and all mails are taken to have the same size, so  *)
(* two names differ exactly when their microseconds do.  In cur/ the name  *)
(* also carries the Seen flag.                                             *)
(* The clock is not monotone and two goroutines may read it in one         *)
(* microsecond: nothing keeps two deliveries from getting one name.        *)
(*                                                                         *)
(* GetMailbox runs under an exclusive flock on uidlist.lock; its steps are *)
(* the actions BeginSync ... Publish of the holder.  StoreMail and         *)
(* UpdateFlags never take that lock, so they interleave with every step.   *)
(***************************************************************************)
EXTENDS Integers, Sequences, FiniteSets, SequencesExt

CONSTANTS
    Mail,        \* the mails that are delivered
    Session,     \* the IMAP sessions, goroutines of one server process
    Validity,    \* the values time.Now().Unix() can have when a uidlist is created
    UIDSpace,    \* the number of UIDs a uint32 holds (2^32 in the code)
    MaxTick,     \* bound: microseconds that GenerateUniqueMeta may read
    MaxVanish,   \* bound: mails removed by someone else
    MaxRaces,    \* bound: renames in cur/ that a directory scan may miss or repeat
    None         \* no mail, no session

ASSUME MaildirAssumption ==
    /\ None \notin Mail \cup Session
    /\ Validity \subseteq Nat \ {0} /\ Validity # {}
    /\ UIDSpace \in Nat /\ UIDSpace > 1
    /\ MaxTick \in Nat
    /\ MaxVanish \in Nat
    /\ MaxRaces \in Nat

VARIABLES
    tmp, new, cur,  \* the three directories
    uidlist,        \* the file uidlist; NoList while it does not exist
    mpc, name,      \* per mail: where StoreMail is, and the name it generated
    lock,           \* the session that holds the flock, or None
    phase,          \* how far the holder's GetMailbox is
    list,           \* the holder's copy of the uidlist (the UIDList object)
    index,          \* its recordsByUnique
    todo,           \* names in new/ the holder has yet to move to cur/
    names, flux,    \* what it scanned in cur/, and the names renamed during the scan
    pc, mbox, at,   \* per session: state, the Mailbox in memory, the message looked up
    issued,         \* history: every record a published uidlist ever had
    gone,           \* history: mails removed by someone else
    due,            \* history: mails completely stored when the holder took the lock,
                    \* and not renamed or removed during its scan
    wrapped,        \* history: UIDList.Next went past the last uint32
    races           \* history: the number of renames that raced with a scan

storeVars == <<tmp, new, cur>>
deliveryVars == <<mpc, name>>
syncVars == <<lock, phase, list, index, todo, names, flux, due>>
sessionVars == <<pc, mbox, at>>
historyVars == <<issued, gone, wrapped, races>>
vars == <<storeVars, uidlist, deliveryVars, syncVars, sessionVars, historyVars>>

Uniq == 1 .. MaxTick
File == Uniq \X BOOLEAN
UID == 0 .. UIDSpace - 1
Record == [uid : UID, uniq : Uniq]
Message == [uid : UID, uniq : Uniq, seen : BOOLEAN]

\* The object createUIDList makes, with the creation time as validity.
FreshList(v) == [validity |-> v, next |-> 1, recs |-> {}]
NoList == FreshList(0)
Unselected == [validity |-> 0, next |-> 1, msgs |-> <<>>]

Names(dir) == {x \in DOMAIN dir : dir[x] # None}

Init ==
    /\ tmp = [u \in Uniq |-> None]
    /\ new = [u \in Uniq |-> None]
    /\ cur = [f \in File |-> None]
    /\ uidlist = NoList
    /\ mpc = [m \in Mail |-> "start"]
    /\ name = [m \in Mail |-> 0]
    /\ lock = None
    /\ phase = "idle"
    /\ list = NoList
    /\ index = {} /\ todo = {} /\ names = {} /\ flux = {} /\ due = {}
    /\ pc = [s \in Session |-> "closed"]
    /\ mbox = [s \in Session |-> Unselected]
    /\ at = [s \in Session |-> 0]
    /\ races = 0
    /\ issued = {} /\ gone = {} /\ wrapped = FALSE

-----------------------------------------------------------------------------
(* StoreMail: the delivery of mail m by the SMTP server.                   *)

\* GenerateUniqueMeta: the name is the microsecond, nothing else tells two names
\* apart.  Two goroutines may read the same one, and the clock may be set back.
GenerateUniqueMeta(m) ==
    /\ mpc[m] = "start"
    /\ \E u \in Uniq : name' = [name EXCEPT ![m] = u]
    /\ mpc' = [mpc EXCEPT ![m] = "named"]
    /\ UNCHANGED <<storeVars, uidlist, syncVars, sessionVars, historyVars>>

\* Create tmp/name with O_EXCL, write and sync it.
Spool(m) ==
    /\ mpc[m] = "named"
    /\ tmp[name[m]] = None
    /\ tmp' = [tmp EXCEPT ![name[m]] = m]
    /\ mpc' = [mpc EXCEPT ![m] = "spooled"]
    /\ UNCHANGED <<new, cur, uidlist, name, syncVars, sessionVars, historyVars>>

\* The holder is still reading new/: it may or may not see what arrives now.
MayList(u) == IF phase = "list" THEN {todo, todo \cup {u}} ELSE {todo}

\* Rename tmp/name to new/name, over a file of that name if there is one.
MoveToNew(m) ==
    /\ mpc[m] = "spooled"
    /\ new' = [new EXCEPT ![name[m]] = m]
    /\ tmp' = [tmp EXCEPT ![name[m]] = None]
    /\ todo' \in MayList(name[m])
    /\ mpc' = [mpc EXCEPT ![m] = "moved"]
    /\ UNCHANGED <<cur, uidlist, name, lock, phase, list, index, names, flux, due,
                   sessionVars, historyVars>>

\* Sync the directory new/ and return without an error.
SyncNew(m) ==
    /\ mpc[m] = "moved"
    /\ mpc' = [mpc EXCEPT ![m] = "stored"]
    /\ UNCHANGED <<storeVars, uidlist, name, syncVars, sessionVars, historyVars>>

\* StoreMail returns an error (a name that exists in tmp/, an I/O error) or
\* the SMTP server dies; what it wrote stays where it is.
FailStore(m) ==
    /\ mpc[m] \in {"named", "spooled", "moved"}
    /\ mpc' = [mpc EXCEPT ![m] = "failed"]
    /\ UNCHANGED <<storeVars, uidlist, name, syncVars, sessionVars, historyVars>>

StoreMail(m) ==
    GenerateUniqueMeta(m) \/ Spool(m) \/ MoveToNew(m) \/ SyncNew(m) \/ FailStore(m)

-----------------------------------------------------------------------------
(* GetMailbox: the sync a session runs when it selects the INBOX.          *)

\* The session's goroutine opens the lock file and waits in flock(LOCK_EX).
Select(s) ==
    /\ pc[s] = "closed"
    /\ pc' = [pc EXCEPT ![s] = "waiting"]
    /\ UNCHANGED <<storeVars, uidlist, deliveryVars, syncVars, mbox, at, historyVars>>

\* recordsByUnique keeps the last line that names a file.  The lines are
\* written in map order, so which one that is cannot be told: when a name has
\* several records, any of them.
RecordsByUnique(recs) ==
    {I \in SUBSET recs : \A r \in recs :
        \E i \in I : i.uniq = r.uniq /\ \A j \in I : j.uniq = r.uniq => j = i}

\* The lock is granted; readUIDList reads or creates the list, and the scan of
\* new/ begins.
BeginSync(s) ==
    /\ pc[s] = "waiting" /\ lock = None
    /\ lock' = s
    /\ phase' = "list"
    /\ list' \in IF uidlist = NoList THEN {FreshList(v) : v \in Validity} ELSE {uidlist}
    /\ index' \in RecordsByUnique(list'.recs)
    /\ todo' = Names(new)
    /\ due' = {m \in Mail : mpc[m] = "stored" /\ m \notin gone}
    /\ pc' = [pc EXCEPT ![s] = "sync"]
    /\ UNCHANGED <<storeVars, uidlist, deliveryVars, names, flux, mbox, at, historyVars>>

\* migrateToCurrent renames new/name to cur/name:2, in the order of the names.
Migrate(s) ==
    /\ lock = s /\ phase \in {"list", "migrate"}
    /\ \E u \in todo :
        /\ \A v \in todo : u <= v
        /\ cur' = [cur EXCEPT ![<<u, FALSE>>] = new[u]]
        /\ new' = [new EXCEPT ![u] = None]
        /\ todo' = todo \ {u}
    /\ phase' = "migrate"
    /\ UNCHANGED <<tmp, uidlist, deliveryVars, lock, list, index, names, flux, due,
                   sessionVars, historyVars>>

\* Bug: cur/ is scanned before new/ is empty.
ScanTooEarly(s) ==
    /\ lock = s /\ phase \in {"list", "migrate"}
    /\ phase' = "scan"
    /\ names' = Names(cur)
    /\ UNCHANGED <<storeVars, uidlist, deliveryVars, lock, list, index, todo, flux,
                   due, sessionVars, historyVars>>

\* getCurrentMessages opens cur/.  What is there now and is not renamed before
\* the scan ends is certain to be read.
BeginScan(s) ==
    /\ lock = s /\ phase \in {"list", "migrate"} /\ todo = {}
    /\ phase' = "scan"
    /\ names' = Names(cur)
    /\ UNCHANGED <<storeVars, uidlist, deliveryVars, lock, list, index, todo, flux, due,
                   sessionVars, historyVars>>

\* The names a concurrent rename or removal touches while the scan runs.
Touch(fs) ==
    IF phase = "scan" /\ races < MaxRaces
    THEN /\ flux' = flux \cup fs
         /\ due' = due \ {cur[f] : f \in fs}
         /\ races' = races + 1
    ELSE UNCHANGED <<flux, due, races>>

\* The scan ends; of the names touched meanwhile it has read any.
EndScan(s) ==
    /\ lock = s /\ phase = "scan"
    /\ names' \in {(names \ flux) \cup F : F \in SUBSET flux}
    /\ flux' = {}
    /\ phase' = "load"
    /\ UNCHANGED <<storeVars, uidlist, deliveryVars, lock, list, index, todo, due,
                   sessionVars, historyVars>>

\* The entries the uidlist knows, with the UID it gives them.
Assigned ==
    {m \in [uid : {r.uid : r \in index}, uniq : {n[1] : n \in names}, seen : BOOLEAN] :
        /\ [uid |-> m.uid, uniq |-> m.uniq] \in index
        /\ <<m.uniq, m.seen>> \in names}

\* Bug: records are looked up by the full name, flags and all.
UnassignedByFullName == {n \in names : n[2] \/ \A r \in index : r.uniq # n[1]}

\* The entries it does not know.
Unassigned == {n \in names : \A r \in index : r.uniq # n[1]}

\* "what is left in recordsByUniqueCopy is vanished from the maildir".
Vanished == {r \in index : \A n \in names : n[1] # r.uniq}

\* Bug: loadAll does not sort.
Unsorted(S) == SetToSeqs(S)

\* loadAll sorts by UID, the sync sorts the unassigned by name.
ByUIDOrder(S) == {q \in SetToSeqs(S) : \A i, j \in DOMAIN q : i < j => q[i].uid <= q[j].uid}
ByNameOrder(S) == {q \in SetToSeqs(S) : \A i, j \in DOMAIN q : i < j => q[i][1] <= q[j][1]}

\* Bug: UIDNEXT is told one too high.
SelectedOneOff(l, msgs) ==
    [validity |-> l.validity, next |-> l.next + 1, msgs |-> msgs]

\* The mailbox object as GetMailbox returns it to the session.
Selected(l, msgs) == [validity |-> l.validity, next |-> l.next, msgs |-> msgs]

\* Bug: an exit that does not close the lock file.
KeepLock ==
    /\ lock' = lock
    /\ phase' = "idle"
    /\ list' = NoList
    /\ index' = {} /\ todo' = {} /\ names' = {} /\ flux' = {} /\ due' = {}

\* Leaving GetMailbox closes the lock file; its local objects are gone.
Release ==
    /\ lock' = None
    /\ phase' = "idle"
    /\ list' = NoList
    /\ index' = {} /\ todo' = {} /\ names' = {} /\ flux' = {} /\ due' = {}

\* The early return: nothing new, nothing vanished, the uidlist is not written
\* (and does not exist if the mailbox has always been empty).
NothingChanged(s) ==
    /\ lock = s /\ phase = "load"
    /\ Unassigned = {} /\ Vanished = {}
    /\ \E old \in ByUIDOrder(Assigned) :
        mbox' = [mbox EXCEPT ![s] = Selected(list, old)]
    /\ pc' = [pc EXCEPT ![s] = "open"]
    /\ Release
    /\ UNCHANGED <<storeVars, uidlist, deliveryVars, at, historyVars>>

\* Bug: the record is made with the UID before Next.
GivenUIDOneOff(i) == (list.next + i - 2) % UIDSpace

\* addRecord: Next is a uint32 that is incremented without a check.
GivenUID(i) == (list.next + i - 1) % UIDSpace

\* Bugs: Next is recomputed from the records that are left, or one too low.
AssignFromRecords(fresh) ==
    LET added == {[uid |-> GivenUID(i), uniq |-> fresh[i][1]] : i \in DOMAIN fresh}
        recs == {r \in list.recs \cup added : \A v \in Vanished : v.uid # r.uid}
    IN [validity |-> list.validity,
        next |-> 1 + CHOOSE u \in {0} \cup {r.uid : r \in recs} : \A r \in recs : r.uid <= u,
        recs |-> recs]
AssignShort(fresh) ==
    [validity |-> list.validity,
     next |-> list.next + (IF fresh = <<>> THEN 0 ELSE Len(fresh) - 1),
     recs |-> (list.recs \ Vanished) \cup
                {[uid |-> GivenUID(i), uniq |-> fresh[i][1]] : i \in DOMAIN fresh}]

\* The list after addRecord for each name of `fresh' in turn and removeRecord
\* for each vanished one; recordsByUID keeps the last record of each UID.
Assign(fresh) ==
    LET last == {i \in DOMAIN fresh : \A j \in DOMAIN fresh : i < j => GivenUID(i) # GivenUID(j)}
        added == {[uid |-> GivenUID(i), uniq |-> fresh[i][1]] : i \in last}
        kept == {r \in list.recs : \A a \in added : a.uid # r.uid}
    IN [validity |-> list.validity,
        next |-> (list.next + Len(fresh)) % UIDSpace,
        recs |-> {r \in kept \cup added : \A v \in Vanished : v.uid # r.uid}]

\* Bug: a message takes the place of an old one with its UID.
AppendedOver(old, fresh) ==
    LET given == {GivenUID(i) : i \in DOMAIN fresh}
    IN  SelectSeq(old, LAMBDA m : m.uid \notin given) \o
            [i \in DOMAIN fresh |->
               [uid |-> GivenUID(i), uniq |-> fresh[i][1], seen |-> fresh[i][2]]]

\* assign appends the new messages behind the sorted old ones.
Appended(old, fresh) ==
    old \o [i \in DOMAIN fresh |->
              [uid |-> GivenUID(i), uniq |-> fresh[i][1], seen |-> fresh[i][2]]]

\* Give the unassigned names their UIDs, in memory only.
AssignUIDs(s) ==
    /\ lock = s /\ phase = "load"
    /\ Unassigned # {} \/ Vanished # {}
    /\ \E old \in ByUIDOrder(Assigned), fresh \in ByNameOrder(Unassigned) :
        /\ list' = Assign(fresh)
        /\ mbox' = [mbox EXCEPT ![s] = Selected(Assign(fresh), Appended(old, fresh))]
        /\ wrapped' = (wrapped \/ list.next + Len(fresh) >= UIDSpace)
    /\ phase' = "commit"
    /\ index' = {} /\ names' = {}
    /\ UNCHANGED <<storeVars, uidlist, deliveryVars, lock, todo, flux, due, pc, at,
                   issued, gone, races>>

\* Bug: the mailbox is returned without a rewrite of the uidlist.
SkipRewrite(s) ==
    /\ lock = s /\ phase = "commit"
    /\ phase' = "publish"
    /\ UNCHANGED <<storeVars, uidlist, deliveryVars, lock, list, index, todo, names,
                   flux, due, sessionVars, historyVars>>

\* rewrite: the new list is written beside the old one and renamed over it.
CommitList(s) ==
    /\ lock = s /\ phase = "commit"
    /\ uidlist' = list
    /\ issued' = issued \cup
         {[validity |-> list.validity, uid |-> r.uid, uniq |-> r.uniq] : r \in list.recs}
    /\ phase' = "publish"
    /\ UNCHANGED <<storeVars, deliveryVars, lock, list, index, todo, names, flux, due,
                   sessionVars, gone, wrapped, races>>

\* The directory is synced, the mailbox returned, the lock released.
Publish(s) ==
    /\ lock = s /\ phase = "publish"
    /\ pc' = [pc EXCEPT ![s] = "open"]
    /\ Release
    /\ UNCHANGED <<storeVars, uidlist, deliveryVars, mbox, at, historyVars>>

\* Any step of the sync fails: SELECT answers NO, the deferred Close of the
\* lock file releases the lock, the mailbox object is dropped.
AbortSync(s) ==
    /\ lock = s
    /\ pc' = [pc EXCEPT ![s] = "closed"]
    /\ mbox' = [mbox EXCEPT ![s] = Unselected]
    /\ Release
    /\ UNCHANGED <<storeVars, uidlist, deliveryVars, at, historyVars>>

SyncStep(s) ==
    \/ Migrate(s) \/ BeginScan(s) \/ EndScan(s) \/ NothingChanged(s)
    \/ AssignUIDs(s) \/ CommitList(s) \/ Publish(s)

GetMailbox(s) == Select(s) \/ BeginSync(s) \/ SyncStep(s) \/ AbortSync(s)

-----------------------------------------------------------------------------
(* An open mailbox.                                                        *)

\* The name in cur/ of message i as the session remembers it.
FileOf(s, i) == <<mbox[s].msgs[i].uniq, mbox[s].msgs[i].seen>>

\* BySeq and ByUID open the file under the name in memory.
Lookup(s, i) ==
    /\ pc[s] = "open" /\ i \in DOMAIN mbox[s].msgs
    /\ cur[FileOf(s, i)] # None
    /\ pc' = [pc EXCEPT ![s] = "found"]
    /\ at' = [at EXCEPT ![s] = i]
    /\ UNCHANGED <<storeVars, uidlist, deliveryVars, syncVars, mbox, historyVars>>

\* The session ends: CLOSE, a lost connection, or a lookup that finds no file
\* (FETCH and STORE then drop the connection).
Close(s) ==
    /\ pc[s] \in {"open", "found"}
    /\ pc' = [pc EXCEPT ![s] = "closed"]
    /\ mbox' = [mbox EXCEPT ![s] = Unselected]
    /\ at' = [at EXCEPT ![s] = 0]
    /\ UNCHANGED <<storeVars, uidlist, deliveryVars, syncVars, historyVars>>

\* The message was only fetched.
Fetched(s) ==
    /\ pc[s] = "found"
    /\ pc' = [pc EXCEPT ![s] = "open"]
    /\ at' = [at EXCEPT ![s] = 0]
    /\ UNCHANGED <<storeVars, uidlist, deliveryVars, syncVars, mbox, historyVars>>

\* Bug: the file is copied to its new name.
Copied(a, b) == [cur EXCEPT ![b] = cur[a]]

\* cur/ after the rename of file a to b.
Renamed(a, b) == [cur EXCEPT ![a] = None, ![b] = cur[a]]

\* STORE +FLAGS or -FLAGS with the flags before the first unsupported one
\* (seenFirst: \Seen is among them) and perhaps an unsupported one (bad).  The
\* name in memory changes before the flags are all checked and before the rename,
\* which changes nothing if the file is gone or has that name already.
UpdateFlags(s, add, seenFirst, bad) ==
    LET i == at[s]
        old == FileOf(s, i)
        seen == IF seenFirst THEN add ELSE mbox[s].msgs[i].seen
        upd == <<mbox[s].msgs[i].uniq, seen>>
    IN  /\ pc[s] = "found" /\ (seenFirst \/ bad)
        /\ mbox' = [mbox EXCEPT ![s].msgs[i].seen = seen]
        /\ IF bad \/ old = upd \/ cur[old] = None
           THEN UNCHANGED <<cur, flux, due, races>>
           ELSE cur' = Renamed(old, upd) /\ Touch({old, upd})
        /\ pc' = [pc EXCEPT ![s] = "open"]
        /\ at' = [at EXCEPT ![s] = 0]
        /\ UNCHANGED <<tmp, new, uidlist, deliveryVars, lock, phase, list, index, todo, names,
                       issued, gone, wrapped>>

OpenMailbox(s) ==
    \/ \E i \in 1 .. 2 * MaxTick : Lookup(s, i)
    \/ Close(s) \/ Fetched(s)
    \/ \E add, seenFirst, bad \in BOOLEAN : UpdateFlags(s, add, seenFirst, bad)

-----------------------------------------------------------------------------
(* The environment.                                                        *)

\* Another program, or the user, removes a file from cur/.
Vanish(f) ==
    /\ cur[f] # None /\ Cardinality(gone) < MaxVanish
    /\ gone' = gone \cup {cur[f]}
    /\ cur' = [cur EXCEPT ![f] = None]
    /\ Touch({f})
    /\ UNCHANGED <<tmp, new, uidlist, deliveryVars, lock, phase, list, index, todo, names,
                   sessionVars, issued, wrapped>>

\* The IMAP server dies and is started again: the kernel drops its lock, what
\* it had in memory is lost.
IMAPCrash ==
    /\ pc' = [s \in Session |-> "closed"]
    /\ mbox' = [s \in Session |-> Unselected]
    /\ at' = [s \in Session |-> 0]
    /\ Release
    /\ UNCHANGED <<storeVars, uidlist, deliveryVars, historyVars>>

Next ==
    \/ \E m \in Mail : StoreMail(m)
    \/ \E s \in Session : GetMailbox(s) \/ OpenMailbox(s)
    \/ \E f \in File : Vanish(f)
    \/ IMAPCrash

Spec == Init /\ [][Next]_vars

\* The holder's goroutine runs on, and flock queues waiters so that none waits
\* for ever; nothing else is owed.
Fairness ==
    \A s \in Session : WF_vars(SyncStep(s)) /\ SF_vars(BeginSync(s))

FairSpec == Spec /\ Fairness

-----------------------------------------------------------------------------
(* What holds.                                                             *)

Opened(s) == pc[s] \in {"open", "found"}

\* The type of every variable; the holder is the one session in a sync,
\* no exit from which keeps the lock.
TypeOK ==
    /\ tmp \in [Uniq -> Mail \cup {None}]
    /\ new \in [Uniq -> Mail \cup {None}]
    /\ cur \in [File -> Mail \cup {None}]
    /\ uidlist \in [validity : Nat, next : UID, recs : SUBSET Record]
    /\ mpc \in [Mail -> {"start", "named", "spooled", "moved", "stored", "failed"}]
    /\ name \in [Mail -> 0 .. MaxTick]
    /\ \A m \in Mail : mpc[m] # "start" => name[m] \in Uniq
    /\ lock \in Session \cup {None}
    /\ phase \in {"idle", "list", "migrate", "scan", "load", "commit", "publish"}
    /\ list \in [validity : Nat, next : UID, recs : SUBSET Record]
    /\ index \subseteq Record
    /\ todo \subseteq Uniq
    /\ names \subseteq File
    /\ flux \subseteq File
    /\ pc \in [Session -> {"closed", "waiting", "sync", "open", "found"}]
    /\ mbox \in [Session -> [validity : Nat, next : UID, msgs : Seq(Message)]]
    /\ at \in [Session -> Nat]
    /\ issued \subseteq [validity : Nat, uid : UID, uniq : Uniq]
    /\ gone \subseteq Mail
    /\ races \in Nat
    /\ due \subseteq Mail
    /\ wrapped \in BOOLEAN
    /\ lock = None <=> phase = "idle"
    /\ \A s \in Session : pc[s] = "sync" <=> lock = s
    /\ \A s \in Session : pc[s] = "found" => at[s] \in DOMAIN mbox[s].msgs

\* No two deliveries have generated the name u.
Unshared(u) ==
    \A m, n \in Mail :
        mpc[m] # "start" /\ mpc[n] # "start" /\ name[m] = u /\ name[n] = u => m = n
AllUnshared == \A u \in Uniq : Unshared(u)

\* A UID, under one UIDVALIDITY, names one file for ever: no order of syncs,
\* aborted syncs, crashes and removals lets UIDList.Next give a UID again that
\* a client may have seen (until the uint32 wraps, which addRecord leaves open).
UIDNamesOneMail ==
    ~wrapped =>
        \A a, b \in issued : a.validity = b.validity /\ a.uid = b.uid => a.uniq = b.uniq

\* What a session shows is on disk: every UID in its snapshot was written to
\* the uidlist before GetMailbox returned, under the validity it told.
ShownWasIssued ==
    ~wrapped => \A s \in Session : Opened(s) =>
        \A i \in DOMAIN mbox[s].msgs :
            [validity |-> mbox[s].validity, uid |-> mbox[s].msgs[i].uid,
             uniq |-> mbox[s].msgs[i].uniq] \in issued

\* What ByUID's binary search needs, and what a client takes sequence numbers
\* for: the snapshot is strictly ascending in UID, unless a scan that raced with
\* a rename read one file under two names, or two mails got one name.
SnapshotAscending ==
    ~wrapped /\ races = 0 /\ AllUnshared =>
        \A s \in Session : Opened(s) =>
            \A i, j \in DOMAIN mbox[s].msgs :
                i < j => mbox[s].msgs[i].uid < mbox[s].msgs[j].uid

\* A mail keeps the UID it was first given, whatever is renamed, removed or
\* interrupted, unless a scan that raced with a rename missed its file, or two
\* mails got one name.
MailKeepsUID ==
    ~wrapped /\ races = 0 /\ AllUnshared =>
        \A a, b \in issued : a.validity = b.validity /\ a.uniq = b.uniq => a.uid = b.uid

\* A mail StoreMail returned for is in exactly one file of new/ or cur/, until
\* somebody removes it: no rename of a delivery, a sync or a flag change loses
\* or doubles it, and no other mails that got one name between them do.  Nothing is
\* promised of the mails that share a name (see EveryMailKept).
InOneFile(m) ==
    Cardinality({u \in Uniq : new[u] = m}) + Cardinality({f \in File : cur[f] = m}) = 1
NoMailLost ==
    \A m \in Mail : mpc[m] = "stored" /\ m \notin gone /\ Unshared(name[m]) => InOneFile(m)

\* The same of mails that share their name, too, which the code does not keep: the
\* name is unique only as far as the clock and the size are (GenerateUniqueMeta).
EveryMailKept == \A m \in Mail : mpc[m] = "stored" /\ m \notin gone => InOneFile(m)

\* A session that opens the mailbox sees every mail that was stored when it
\* took the lock and is still there, but for a file renamed during the scan and
\* for mails that share their name.  It does so after UIDList.Next has wrapped, too,
\* when records of other mails are overwritten.
SelectSeesStoredMail ==
    [][\A s \in Session : pc[s] = "sync" /\ pc'[s] = "open" =>
        \A m \in due \ gone :
            Unshared(name[m]) =>
                \E i \in DOMAIN mbox'[s].msgs : mbox'[s].msgs[i].uniq = name[m]]_vars

\* UIDNEXT is a promise: a mail first issued while a session is open gets a UID
\* no smaller than the UIDNEXT that session was told.
UIDNextIsPromise ==
    [][~wrapped' => \A s \in Session : Opened(s) =>
        \A r \in issued' \ issued :
            r.validity = mbox[s].validity => r.uid >= mbox[s].next]_vars

\* The mailbox implements the ledger of UIDs (as long as the uint32 does not
\* wrap): only the rename of a new uidlist makes entries.
Ledger == INSTANCE UIDLedger WITH
    ledger <- issued, validity <- uidlist.validity, next <- uidlist.next
LedgerSpec == Ledger!Init /\ [][~wrapped' => Ledger!Next]_(Ledger!vars)

\* Every SELECT that waits for the lock gets it (or ends with the server).
SelectServed == \A s \in Session : pc[s] = "waiting" ~> pc[s] # "waiting"

\* maildir.go:131 of the records a sync drops: "what is left in
\* recordsByUniqueCopy is vanished from the maildir".
DroppedMeansVanished ==
    [][\A r \in uidlist.recs \ uidlist'.recs :
        \A seen \in BOOLEAN : cur[<<r.uniq, seen>>] = None]_vars

\* message.go:187 of MailboxMessage.Meta: "current full filename + flags".
MetaIsCurrentName ==
    \A s \in Session : Opened(s) =>
        \A i \in DOMAIN mbox[s].msgs : cur[FileOf(s, i)] # None
=============================================================================
