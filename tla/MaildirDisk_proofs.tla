------------------------- MODULE MaildirDisk_proofs -------------------------
(***************************************************************************)
(* Theorems about the files of Maildir, for every number of mails,         *)
(* sessions, ticks, removals and races, and however many deliveries        *)
(* generate the same name: what is said of a file or a mail holds of those *)
(* whose name is nobody else's, whatever happens to the others.            *)
(***************************************************************************)
EXTENDS Maildir_proofs

USE MaildirAssumption

\* What DiskInv is about: steps that leave it alone preserve it.
DiskVars == <<new, cur, mpc, name, gone>>

LEMMA DiskStutter ==
    ASSUME DiskInv, TypeOK', UNCHANGED DiskVars, todo' \subseteq todo
    PROVE  DiskInv'
BY DEF DiskInv, DiskVars, FilesBelong, OneFile, Kept, Listed, Names, Unshared

LEMMA InitDiskInv == Init => DiskInv
<1> SUFFICES ASSUME Init PROVE DiskInv
    OBVIOUS
<1>1. TypeOK
    BY InitTypeOK
<1>2. Kept /\ Listed
    BY DEF Init, Kept, Listed
<1>3. FilesBelong
    BY DEF Init, FilesBelong, File
<1>4. OneFile
    BY DEF Init, OneFile, File
<1> QED
    BY <1>1, <1>2, <1>3, <1>4 DEF DiskInv

\* A name that is nobody else's after a step was nobody else's before.
LEMMA UnsharedBefore ==
    ASSUME NEW u \in Uniq,
           \A m \in Mail : mpc[m] # "start" => mpc'[m] # "start" /\ name'[m] = name[m],
           Unshared(u)'
    PROVE  Unshared(u)
BY DEF Unshared

LEMMA StepKeepsNames ==
    ASSUME TypeOK, [Next]_vars
    PROVE  \A m \in Mail : mpc[m] # "start" => mpc'[m] # "start" /\ name'[m] = name[m]
<1> USE DEF storeVars, deliveryVars, syncVars, sessionVars, historyVars
<1>1. ASSUME NEW m \in Mail, StoreMail(m)
      PROVE  \A n \in Mail : mpc[n] # "start" => mpc'[n] # "start" /\ name'[n] = name[n]
    BY <1>1 DEF StoreMail, GenerateUniqueMeta, Spool, MoveToNew, SyncNew, FailStore, TypeOK
<1>2. ASSUME NEW s \in Session, GetMailbox(s) \/ OpenMailbox(s)
      PROVE  UNCHANGED <<mpc, name>>
    BY <1>2 DEF GetMailbox, SyncStep, Select, BeginSync, Migrate, BeginScan, EndScan,
                NothingChanged, AssignUIDs, CommitList, Publish, AbortSync,
                OpenMailbox, Lookup, Close, Fetched, UpdateFlags
<1>3. CASE IMAPCrash \/ (\E f \in File : Vanish(f)) \/ UNCHANGED vars
    BY <1>3 DEF IMAPCrash, Vanish, vars
<1> QED
    BY <1>1, <1>2, <1>3 DEF Next

\* No file has the name of a mail that is not delivered yet, if no other has it.
LEMMA Owners ==
    ASSUME DiskInv, NEW m \in Mail, mpc[m] \in {"named", "spooled"}, Unshared(name[m])
    PROVE  /\ new[name[m]] = None
           /\ \A b \in BOOLEAN : cur[<<name[m], b>>] = None
<1>1. name[m] \in Uniq /\ mpc[m] \notin Delivered /\ mpc[m] # "start"
    BY DEF DiskInv, TypeOK, Delivered
<1>2. \A n \in Mail : mpc[n] \in Delivered => mpc[n] # "start" /\ n # m
    BY <1>1 DEF Delivered
<1>3. new[name[m]] = None
    BY <1>1, <1>2 DEF DiskInv, TypeOK, FilesBelong, Unshared
<1>4. ASSUME NEW b \in BOOLEAN PROVE cur[<<name[m], b>>] = None
    <2>1. <<name[m], b>> \in File
        BY <1>1 DEF File
    <2>2. cur[<<name[m], b>>] \in Mail \cup {None}
        BY <2>1 DEF DiskInv, TypeOK
    <2>3. <<name[m], b>>[1] = name[m]
        OBVIOUS
    <2> QED
        BY <1>1, <1>2, <2>1, <2>2, <2>3 DEF DiskInv, FilesBelong, Unshared
<1> QED
    BY <1>3, <1>4

LEMMA StoreMailDisk ==
    ASSUME DiskInv, TypeOK', [Next]_vars, NEW m \in Mail, StoreMail(m)
    PROVE  DiskInv'
<1> USE DEF storeVars, deliveryVars, syncVars, sessionVars, historyVars
<1>0. /\ \A n \in Mail : mpc[n] # "start" => mpc'[n] # "start" /\ name'[n] = name[n]
      /\ \A u \in Uniq : Unshared(u)' => Unshared(u)
      /\ \A n \in Mail : mpc[n] # "start" => name[n] \in Uniq
    BY StepKeepsNames, UnsharedBefore DEF DiskInv, TypeOK
<1>1. CASE /\ UNCHANGED <<new, cur, gone, todo>>
           /\ \A n \in Mail : mpc'[n] \in {"moved", "stored"} => mpc[n] \in {"moved", "stored"}
           /\ \A n \in Mail : mpc[n] \in Delivered => mpc'[n] \in Delivered
    <2>1. \A n \in Mail : mpc[n] \in Delivered => name'[n] = name[n]
        BY <1>0 DEF Delivered
    <2>2. FilesBelong'
        <3>1. FilesBelong
            BY DEF DiskInv
        <3> SUFFICES ASSUME NEW n \in Mail
                     PROVE  /\ \A u \in Uniq : new[u] = n => u = name'[n] /\ mpc'[n] \in Delivered
                            /\ \A f \in File : cur[f] = n => f[1] = name'[n] /\ mpc'[n] \in Delivered
            BY <1>1 DEF FilesBelong
        <3> QED
            BY ONLY <1>1, <2>1, <3>1, n \in Mail DEF FilesBelong
    <2>3. OneFile'
        BY <1>0, <1>1 DEF DiskInv, OneFile
    <2>4. Kept'
        <3> SUFFICES ASSUME NEW n \in Mail, mpc'[n] \in {"moved", "stored"}, n \notin gone',
                            Unshared(name[n])'
                     PROVE  \/ new[name[n]] = n
                            \/ cur[<<name[n], TRUE>>] = n \/ cur[<<name[n], FALSE>>] = n
            <4>1. ASSUME NEW n \in Mail, mpc'[n] \in {"moved", "stored"}
                  PROVE  name'[n] = name[n]
                BY <1>0, <1>1, <4>1 DEF Delivered
            <4> QED
                BY <1>1, <4>1 DEF Kept
        <3>1. mpc[n] \in {"moved", "stored"} /\ n \notin gone
            BY <1>1
        <3>2. Unshared(name[n])
            BY <1>0, <3>1
        <3> QED
            BY <3>1, <3>2 DEF DiskInv, Kept
    <2> QED
        BY <1>1, <2>2, <2>3, <2>4 DEF DiskInv, Listed, Names
<1>2. CASE ~MoveToNew(m)
    <2>1. UNCHANGED <<new, cur, gone, todo>>
        BY <1>2 DEF StoreMail, GenerateUniqueMeta, Spool, SyncNew, FailStore
    <2>2. \A n \in Mail : n # m => mpc'[n] = mpc[n]
        BY <1>2 DEF StoreMail, GenerateUniqueMeta, Spool, SyncNew, FailStore, DiskInv, TypeOK
    <2>3. \/ mpc[m] \in {"start", "named"} /\ mpc'[m] \in {"named", "spooled"}
          \/ mpc[m] = "moved" /\ mpc'[m] = "stored"
          \/ mpc[m] \in {"named", "spooled", "moved"} /\ mpc'[m] = "failed"
        BY <1>2 DEF StoreMail, GenerateUniqueMeta, Spool, SyncNew, FailStore, DiskInv, TypeOK
    <2> QED
        BY <1>1, <2>1, <2>2, <2>3 DEF Delivered
<1>3. CASE MoveToNew(m)
    <2>1. /\ mpc[m] = "spooled" /\ mpc' = [mpc EXCEPT ![m] = "moved"]
          /\ new' = [new EXCEPT ![name[m]] = m]
          /\ todo' \subseteq todo \cup {name[m]}
          /\ UNCHANGED <<cur, name, gone>>
        BY <1>3 DEF MoveToNew, MayList
    <2>2. name[m] \in Uniq
        BY <1>0, <2>1
    <2>3. \A n \in Mail : mpc'[n] = IF n = m THEN "moved" ELSE mpc[n]
        BY <2>1 DEF DiskInv, TypeOK
    <2>4. \A u \in Uniq : new'[u] = IF u = name[m] THEN m ELSE new[u]
        BY <2>1, <2>2 DEF DiskInv, TypeOK
    <2>5. Unshared(name[m]) =>
              new[name[m]] = None /\ \A b \in BOOLEAN : cur[<<name[m], b>>] = None
        BY <2>1, Owners
    <2>6. FilesBelong'
        BY <2>1, <2>3, <2>4 DEF DiskInv, FilesBelong, Delivered
    <2>7. OneFile'
        BY <1>0, <2>1, <2>4, <2>5 DEF DiskInv, OneFile
    <2>8. Kept'
        <3> SUFFICES ASSUME NEW n \in Mail, mpc'[n] \in {"moved", "stored"}, n \notin gone,
                            Unshared(name[n])'
                     PROVE  \/ new'[name[n]] = n
                            \/ cur[<<name[n], TRUE>>] = n \/ cur[<<name[n], FALSE>>] = n
            BY <2>1 DEF Kept
        <3>1. CASE n = m
            BY <2>2, <2>4, <3>1
        <3>2. CASE n # m
            <4>1. mpc[n] \in {"moved", "stored"} /\ mpc[n] # "start" /\ name[n] \in Uniq
                BY <1>0, <2>3, <3>2
            <4>2. Unshared(name[n])
                BY <1>0, <4>1
            <4>3. name[n] # name[m]
                BY <2>1, <3>2, <4>1, <4>2 DEF Unshared
            <4> QED
                BY <2>4, <4>1, <4>2, <4>3 DEF DiskInv, Kept
        <3> QED
            BY <3>1, <3>2
    <2>9. Listed'
        <3>1. m # None
            OBVIOUS
        <3>2. DOMAIN new = Uniq /\ DOMAIN new' = Uniq
            BY <2>1 DEF DiskInv, TypeOK
        <3> QED
            BY <2>1, <2>2, <2>4, <3>1, <3>2 DEF DiskInv, Listed, Names
    <2> QED
        BY <2>6, <2>7, <2>8, <2>9 DEF DiskInv
<1> QED
    BY <1>2, <1>3

\* A rename into cur/ or within it keeps the mail's one file.
LEMMA MigrateDisk ==
    ASSUME DiskInv, TypeOK', NEW s \in Session, Migrate(s)
    PROVE  DiskInv'
<1>1. PICK u \in todo :
        /\ cur' = [cur EXCEPT ![<<u, FALSE>>] = new[u]]
        /\ new' = [new EXCEPT ![u] = None]
        /\ todo' = todo \ {u}
    BY DEF Migrate
<1>2. UNCHANGED <<mpc, name, gone>> /\ \A v \in Uniq : Unshared(v)' = Unshared(v)
    BY DEF Migrate, deliveryVars, historyVars, Unshared
<1>3. u \in Uniq /\ <<u, FALSE>> \in File /\ DOMAIN new = Uniq /\ DOMAIN cur = File
    BY DEF DiskInv, TypeOK, File
<1>4. /\ new[u] # None
      /\ Unshared(u) => cur[<<u, TRUE>>] = None /\ cur[<<u, FALSE>>] = None
    BY <1>3 DEF DiskInv, Listed, Names, OneFile
<1>5. \A v \in Uniq : new'[v] = IF v = u THEN None ELSE new[v]
    BY <1>1, <1>3
<1>6. \A f \in File : cur'[f] = IF f = <<u, FALSE>> THEN new[u] ELSE cur[f]
    BY <1>1, <1>3
<1>7. \A v \in Uniq : /\ cur'[<<v, TRUE>>] = cur[<<v, TRUE>>]
                      /\ cur'[<<v, FALSE>>] = IF v = u THEN new[u] ELSE cur[<<v, FALSE>>]
    BY <1>6 DEF File
<1>9. FilesBelong'
    <2>1. u = name[new[u]] /\ mpc[new[u]] \in Delivered /\ new[u] \in Mail
        BY <1>3, <1>4 DEF DiskInv, TypeOK, FilesBelong
    <2> SUFFICES ASSUME NEW m \in Mail
                 PROVE  /\ \A v \in Uniq : new'[v] = m => v = name[m] /\ mpc[m] \in Delivered
                        /\ \A f \in File : cur'[f] = m => f[1] = name[m] /\ mpc[m] \in Delivered
        BY <1>2 DEF FilesBelong
    <2>2. \A v \in Uniq : new'[v] = m => new[v] = m
        BY <1>5
    <2>3. \A f \in File : cur'[f] = m => cur[f] = m \/ (f[1] = u /\ new[u] = m)
        <3>1. <<u, FALSE>>[1] = u
            OBVIOUS
        <3> QED
            BY <1>6, <3>1
    <2>4. \A v \in Uniq : new[v] = m => v = name[m] /\ mpc[m] \in Delivered
        BY DEF DiskInv, FilesBelong
    <2>5. \A f \in File : cur[f] = m => f[1] = name[m] /\ mpc[m] \in Delivered
        BY DEF DiskInv, FilesBelong
    <2>6. \A v \in Uniq : new'[v] = m => v = name[m] /\ mpc[m] \in Delivered
        BY <2>2, <2>4
    <2>7. \A f \in File : cur'[f] = m => f[1] = name[m] /\ mpc[m] \in Delivered
        BY <2>1, <2>3, <2>5
    <2> QED
        BY <2>6, <2>7
<1>10. OneFile'
    BY <1>2, <1>4, <1>5, <1>7 DEF DiskInv, OneFile
<1>11. Kept'
    <2> SUFFICES ASSUME NEW m \in Mail, mpc[m] \in {"moved", "stored"}, m \notin gone,
                        Unshared(name[m])
                 PROVE  \/ new'[name[m]] = m
                        \/ cur'[<<name[m], TRUE>>] = m \/ cur'[<<name[m], FALSE>>] = m
        <3>1. \A m \in Mail : mpc[m] # "start" => name[m] \in Uniq
            BY DEF DiskInv, TypeOK
        <3> QED
            BY <1>2, <3>1 DEF Kept
    <2>1. name[m] \in Uniq /\ m # None
        BY DEF DiskInv, TypeOK
    <2>2. \/ new[name[m]] = m
          \/ cur[<<name[m], TRUE>>] = m \/ cur[<<name[m], FALSE>>] = m
        BY DEF DiskInv, Kept
    <2> QED
        BY <1>4, <1>5, <1>7, <2>1, <2>2
<1>12. Listed'
    BY <1>1, <1>3, <1>5 DEF DiskInv, Listed, Names
<1> QED
    BY <1>9, <1>10, <1>11, <1>12 DEF DiskInv

LEMMA RenamedDisk ==
    ASSUME DiskInv, TypeOK', NEW u \in Uniq, NEW b \in BOOLEAN, NEW c \in BOOLEAN,
           cur[<<u, b>>] # None, b # c,
           cur' = Renamed(<<u, b>>, <<u, c>>), UNCHANGED <<new, mpc, name, gone, todo>>
    PROVE  DiskInv'
<1>1. /\ <<u, b>> \in File /\ <<u, c>> \in File /\ DOMAIN cur = File
      /\ \A v \in Uniq : Unshared(v)' = Unshared(v)
    BY DEF DiskInv, TypeOK, File, Unshared
<1>2. Unshared(u) => cur[<<u, c>>] = None /\ new[u] = None
    <2>1. (b = TRUE \/ b = FALSE) /\ (c = TRUE \/ c = FALSE)
        BY Zenon
    <2>2. (b = TRUE /\ c = FALSE) \/ (b = FALSE /\ c = TRUE)
        BY <2>1, Zenon
    <2>3. CASE b = TRUE /\ c = FALSE
        BY <2>3 DEF DiskInv, OneFile
    <2>4. CASE b = FALSE /\ c = TRUE
        BY <2>4 DEF DiskInv, OneFile
    <2> QED
        BY <2>2, <2>3, <2>4
<1>3. \A f \in File : cur'[f] = IF f = <<u, c>> THEN cur[<<u, b>>]
                                ELSE IF f = <<u, b>> THEN None ELSE cur[f]
    BY <1>1 DEF Renamed
<1>4. \A v \in Uniq : v # u => /\ cur'[<<v, TRUE>>] = cur[<<v, TRUE>>]
                               /\ cur'[<<v, FALSE>>] = cur[<<v, FALSE>>]
    BY <1>3 DEF File
<1>5. cur'[<<u, c>>] = cur[<<u, b>>] /\ cur'[<<u, b>>] = None
    BY <1>1, <1>3
<1>6. FilesBelong'
    BY <1>1, <1>3 DEF DiskInv, FilesBelong
<1>7. OneFile'
    <2> SUFFICES ASSUME NEW v \in Uniq, Unshared(v)
                 PROVE  /\ new[v] # None =>
                              cur'[<<v, TRUE>>] = None /\ cur'[<<v, FALSE>>] = None
                        /\ cur'[<<v, TRUE>>] = None \/ cur'[<<v, FALSE>>] = None
        BY <1>1 DEF OneFile
    <2>1. CASE v = u
        BY <1>2, <1>5, <2>1
    <2>2. CASE v # u
        BY <1>4, <2>2 DEF DiskInv, OneFile
    <2> QED
        BY <2>1, <2>2
<1>8. Kept'
    <2> SUFFICES ASSUME NEW m \in Mail, mpc[m] \in {"moved", "stored"}, m \notin gone,
                        Unshared(name[m])
                 PROVE  \/ new[name[m]] = m
                        \/ cur'[<<name[m], TRUE>>] = m \/ cur'[<<name[m], FALSE>>] = m
        <3>1. \A m \in Mail : mpc[m] # "start" => name[m] \in Uniq
            BY DEF DiskInv, TypeOK
        <3> QED
            BY <1>1, <3>1 DEF Kept
    <2>1. name[m] \in Uniq /\ m # None
        BY DEF DiskInv, TypeOK
    <2>2. \/ new[name[m]] = m
          \/ cur[<<name[m], TRUE>>] = m \/ cur[<<name[m], FALSE>>] = m
        BY DEF DiskInv, Kept
    <2>3. CASE name[m] = u
        BY <1>2, <1>5, <2>1, <2>2, <2>3
    <2>4. CASE name[m] # u
        BY <1>4, <2>1, <2>2, <2>4
    <2> QED
        BY <2>3, <2>4
<1> QED
    BY <1>6, <1>7, <1>8 DEF DiskInv, Listed, Names

LEMMA GetMailboxDisk ==
    ASSUME DiskInv, TypeOK', NEW s \in Session, GetMailbox(s)
    PROVE  DiskInv'
<1> USE DEF DiskVars, storeVars, deliveryVars, syncVars, sessionVars, historyVars
<1>1. CASE BeginSync(s)
    <2>1. UNCHANGED DiskVars /\ todo' = Names(new)
        BY <1>1 DEF BeginSync
    <2> QED
        BY <2>1 DEF DiskInv, FilesBelong, OneFile, Kept, Listed, Names, Unshared
<1>2. CASE Migrate(s)
    BY <1>2, MigrateDisk
<1>3. CASE Select(s) \/ BeginScan(s) \/ EndScan(s) \/ AssignUIDs(s) \/ CommitList(s)
    <2>1. UNCHANGED DiskVars /\ todo' = todo
        BY <1>3 DEF Select, BeginScan, EndScan, AssignUIDs, CommitList
    <2> QED
        BY <2>1, DiskStutter
<1>4. CASE NothingChanged(s) \/ Publish(s) \/ AbortSync(s)
    <2>1. UNCHANGED DiskVars /\ todo' = {}
        BY <1>4 DEF NothingChanged, Publish, AbortSync, Release
    <2> QED
        BY <2>1, DiskStutter
<1> QED
    BY <1>1, <1>2, <1>3, <1>4 DEF GetMailbox, SyncStep

LEMMA OpenMailboxDisk ==
    ASSUME DiskInv, TypeOK', NEW s \in Session, OpenMailbox(s)
    PROVE  DiskInv'
<1> USE DEF DiskVars, storeVars, deliveryVars, syncVars, sessionVars, historyVars
<1>1. CASE (\E i \in 1 .. 2 * MaxTick : Lookup(s, i)) \/ Close(s) \/ Fetched(s)
    <2>1. UNCHANGED DiskVars /\ todo' = todo
        BY <1>1 DEF Lookup, Close, Fetched
    <2> QED
        BY <2>1, DiskStutter
<1>2. ASSUME NEW add \in BOOLEAN, NEW seenFirst \in BOOLEAN, NEW bad \in BOOLEAN,
             UpdateFlags(s, add, seenFirst, bad)
      PROVE  DiskInv'
    <2> DEFINE msg == mbox[s].msgs[at[s]]
               seen == IF seenFirst THEN add ELSE msg.seen
    <2>1. UNCHANGED <<new, mpc, name, gone, todo>>
        BY <1>2 DEF UpdateFlags
    <2>2. msg.uniq \in Uniq /\ msg.seen \in BOOLEAN /\ seen \in BOOLEAN
        <3>1. at[s] \in DOMAIN mbox[s].msgs /\ mbox[s].msgs \in Seq(Message)
            BY <1>2 DEF UpdateFlags, DiskInv, TypeOK
        <3>2. msg \in Message
            BY <3>1
        <3> QED
            BY <3>2 DEF Message
    <2>3. \/ cur' = cur
          \/ /\ cur' = Renamed(<<msg.uniq, msg.seen>>, <<msg.uniq, seen>>)
             /\ cur[<<msg.uniq, msg.seen>>] # None
             /\ <<msg.uniq, msg.seen>> # <<msg.uniq, seen>>
        BY <1>2 DEF UpdateFlags, FileOf
    <2> HIDE DEF msg, seen
    <2>4. CASE cur' = cur
        BY <2>1, <2>4, DiskStutter
    <2>5. CASE /\ cur' = Renamed(<<msg.uniq, msg.seen>>, <<msg.uniq, seen>>)
               /\ cur[<<msg.uniq, msg.seen>>] # None
               /\ <<msg.uniq, msg.seen>> # <<msg.uniq, seen>>
        <3>1. msg.seen # seen
            BY <2>5, Zenon
        <3> QED
            BY <2>1, <2>2, <2>5, <3>1, RenamedDisk
    <2> QED
        BY <2>3, <2>4, <2>5
<1> QED
    BY <1>1, <1>2 DEF OpenMailbox

LEMMA EnvironmentDisk ==
    ASSUME DiskInv, TypeOK', IMAPCrash \/ \E f \in File : Vanish(f)
    PROVE  DiskInv'
<1> USE DEF DiskVars, storeVars, deliveryVars, syncVars, sessionVars, historyVars
<1>1. CASE IMAPCrash
    <2>1. UNCHANGED DiskVars /\ todo' = {}
        BY <1>1 DEF IMAPCrash, Release
    <2> QED
        BY <2>1, DiskStutter
<1>2. ASSUME NEW f \in File, Vanish(f)
      PROVE  DiskInv'
    <2>1. /\ gone' = gone \cup {cur[f]} /\ cur' = [cur EXCEPT ![f] = None]
          /\ UNCHANGED <<new, mpc, name, todo>> /\ \A u \in Uniq : Unshared(u)' = Unshared(u)
        BY <1>2 DEF Vanish, Unshared
    <2>2. \A g \in File : cur'[g] = IF g = f THEN None ELSE cur[g]
        BY <2>1 DEF DiskInv, TypeOK
    <2>3. FilesBelong'
        BY <2>1, <2>2 DEF DiskInv, FilesBelong
    <2>4. OneFile'
        <3>1. \A u \in Uniq, b \in BOOLEAN : cur'[<<u, b>>] = cur[<<u, b>>] \/ cur'[<<u, b>>] = None
            BY <2>2 DEF File
        <3> QED
            BY <2>1, <3>1 DEF DiskInv, OneFile
    <2>5. Kept'
        <3> SUFFICES ASSUME NEW m \in Mail, mpc[m] \in {"moved", "stored"}, m \notin gone',
                            Unshared(name[m])
                     PROVE  \/ new[name[m]] = m
                            \/ cur'[<<name[m], TRUE>>] = m \/ cur'[<<name[m], FALSE>>] = m
            <4>1. \A m \in Mail : mpc[m] # "start" => name[m] \in Uniq
                BY DEF DiskInv, TypeOK
            <4> QED
                BY <2>1, <4>1 DEF Kept
        <3>1. m \notin gone /\ m # cur[f] /\ name[m] \in Uniq
            BY <2>1 DEF DiskInv, TypeOK
        <3>2. \A b \in BOOLEAN : cur[<<name[m], b>>] = m => cur'[<<name[m], b>>] = m
            BY <2>2, <3>1 DEF File
        <3> QED
            BY <3>1, <3>2 DEF DiskInv, Kept
    <2> QED
        BY <2>1, <2>3, <2>4, <2>5 DEF DiskInv, Listed, Names
<1> QED
    BY <1>1, <1>2

LEMMA NextDiskInv ==
    ASSUME DiskInv, TypeOK', [Next]_vars
    PROVE  DiskInv'
<1>1. CASE UNCHANGED vars
    <2>1. UNCHANGED DiskVars /\ todo' = todo
        BY <1>1 DEF vars, DiskVars, storeVars, deliveryVars, syncVars, historyVars
    <2> QED
        BY <2>1, DiskStutter
<1> QED
    BY <1>1, StoreMailDisk, GetMailboxDisk, OpenMailboxDisk, EnvironmentDisk DEF Next

\* No delivery, sync, flag change, removal, failure or crash puts a mail under a
\* name that is not its own; and of a name that no two mails share, none makes two
\* files, or parts a mail that is owed from its one file.  Names that several
\* deliveries generated (GenerateUniqueMeta keeps none from it) do not disturb that.
THEOREM DiskInductive == Spec => []DiskInv
<1>1. DiskInv /\ [Next]_vars => DiskInv'
    BY NextDiskInv, NextTypeOK DEF DiskInv
<1> QED
    BY <1>1, InitDiskInv, PTL DEF Spec

LEMMA KeptNotLost == DiskInv => NoMailLost
<1> SUFFICES ASSUME DiskInv, NEW m \in Mail, mpc[m] = "stored", m \notin gone,
                    Unshared(name[m])
             PROVE  Cardinality({u \in Uniq : new[u] = m})
                      + Cardinality({f \in File : cur[f] = m}) = 1
    BY DEF NoMailLost, InOneFile
<1> DEFINE N == {u \in Uniq : new[u] = m}
           C == {f \in File : cur[f] = m}
<1>1. name[m] \in Uniq /\ m # None
    BY DEF DiskInv, TypeOK
<1>2. N \subseteq {name[m]} /\ C \subseteq {<<name[m], TRUE>>, <<name[m], FALSE>>}
    <2>1. \A u \in Uniq : new[u] = m => u = name[m]
        BY DEF DiskInv, FilesBelong
    <2>2. \A f \in File : cur[f] = m => f[1] = name[m]
        BY DEF DiskInv, FilesBelong
    <2>3. \A f \in File : f = <<f[1], TRUE>> \/ f = <<f[1], FALSE>>
        <3>1. \A f \in File : f = <<f[1], f[2]>> /\ f[2] \in BOOLEAN
            BY DEF File
        <3>2. \A x \in BOOLEAN : x = TRUE \/ x = FALSE
            OBVIOUS
        <3> QED
            BY <3>1, <3>2, Zenon
    <2> QED
        BY <2>1, <2>2, <2>3
<1>3. <<name[m], TRUE>> \in File /\ <<name[m], FALSE>> \in File
    BY <1>1 DEF File
<1>4. new[name[m]] = m \/ cur[<<name[m], TRUE>>] = m \/ cur[<<name[m], FALSE>>] = m
    BY DEF DiskInv, Kept
<1>5. /\ new[name[m]] = m => cur[<<name[m], TRUE>>] # m /\ cur[<<name[m], FALSE>>] # m
      /\ cur[<<name[m], TRUE>>] # m \/ cur[<<name[m], FALSE>>] # m
    <2>1. /\ new[name[m]] # None => cur[<<name[m], TRUE>>] = None /\ cur[<<name[m], FALSE>>] = None
          /\ cur[<<name[m], TRUE>>] = None \/ cur[<<name[m], FALSE>>] = None
        BY <1>1 DEF DiskInv, OneFile
    <2> QED
        BY <1>1, <2>1
<1>6. \/ N = {name[m]} /\ C = {}
      \/ N = {} /\ C = {<<name[m], TRUE>>}
      \/ N = {} /\ C = {<<name[m], FALSE>>}
    <2>1. CASE new[name[m]] = m
        BY <1>1, <1>2, <1>5, <2>1
    <2>2. CASE new[name[m]] # m /\ cur[<<name[m], TRUE>>] = m
        BY <1>1, <1>2, <1>3, <1>5, <2>2
    <2>3. CASE new[name[m]] # m /\ cur[<<name[m], FALSE>>] = m
        BY <1>1, <1>2, <1>3, <1>5, <2>3
    <2> QED
        BY <1>4, <2>1, <2>2, <2>3
<1> HIDE DEF N, C
<1>7. Cardinality(N) + Cardinality(C) = 1
    <2>1. /\ Cardinality({name[m]}) = 1 /\ Cardinality({}) = 0
          /\ Cardinality({<<name[m], TRUE>>}) = 1
          /\ Cardinality({<<name[m], FALSE>>}) = 1
        BY FS_Singleton, FS_EmptySet
    <2>2. \/ Cardinality(N) = 1 /\ Cardinality(C) = 0
          \/ Cardinality(N) = 0 /\ Cardinality(C) = 1
        BY <1>6, <2>1, Zenon
    <2> QED
        BY <2>2
<1> QED
    BY <1>7 DEF N, C

\* A mail StoreMail returned for, under a name no other delivery generated, is in
\* exactly one file until somebody removes it, whatever syncs, flag changes, failed
\* deliveries, crashes and mails that share other names do meanwhile.
THEOREM MailsNotLost == Spec => []NoMailLost
<1>1. Spec => []DiskInv
    BY DiskInductive
<1> QED
    BY <1>1, KeptNotLost, PTL
=============================================================================
