----------------------------- MODULE MaildirInv -----------------------------
(***************************************************************************)
(* The inductive invariants of Maildir: IInv, from which the theorems on   *)
(* UIDs follow, as long as the uint32 has not wrapped, and DiskInv, which  *)
(* says where the mails are whose name no other mail has.  What a session  *)
(* sees of the mailbox follows from both: DueInv says that a sync          *)
(* overlooks no mail, KeepInv that no record is parted from its file.      *)
(***************************************************************************)
EXTENDS Maildir

Entry(v, r) == [validity |-> v, uid |-> r.uid, uniq |-> r.uniq]

\* The uidlist on disk: what it holds was issued, all that was issued is below
\* its Next and under its validity, and no UID was issued for two names.
FileInv ==
    /\ uidlist = NoList \/ uidlist.validity \in Validity
    /\ uidlist = NoList => issued = {}
    /\ uidlist.next >= 1
    /\ \A r \in uidlist.recs : Entry(uidlist.validity, r) \in issued
    /\ \A e \in issued : e.validity = uidlist.validity /\ e.uid < uidlist.next
    /\ \A a, b \in issued : a.uid = b.uid => a.uniq = b.uniq

\* Between assign and rewrite the holder's list extends the one on disk: a
\* record that is not on disk has a UID from the disk's Next on.
Extends ==
    /\ list.validity \in Validity
    /\ uidlist = NoList \/ list.validity = uidlist.validity
    /\ list.next >= uidlist.next
    /\ \A r \in list.recs :
          r \in uidlist.recs \/ (r.uid >= uidlist.next /\ r.uid < list.next)
    /\ \A a, b \in list.recs :
          a.uid >= uidlist.next /\ a.uid = b.uid => a.uniq = b.uniq

\* Before that, and after the rewrite, it is the one on disk, or a fresh one.
HolderInv ==
    /\ phase \in {"list", "migrate", "scan", "load"} =>
          /\ index \subseteq list.recs
          /\ list.validity \in Validity
          /\ list = uidlist \/ (uidlist = NoList /\ \E v \in Validity : list = FreshList(v))
    /\ phase = "commit" => Extends
    /\ phase = "publish" => list = uidlist

\* The snapshot of an open session was issued; the one the holder has made is
\* backed by its list.
SnapshotInv ==
    \A s \in Session :
        /\ Opened(s) =>
              /\ mbox[s].next <= uidlist.next
              /\ \A i \in DOMAIN mbox[s].msgs :
                    Entry(mbox[s].validity, mbox[s].msgs[i]) \in issued
        /\ lock = s /\ phase \in {"commit", "publish"} =>
              /\ mbox[s].validity = list.validity /\ mbox[s].next = list.next
              /\ \A i \in DOMAIN mbox[s].msgs :
                    [uid |-> mbox[s].msgs[i].uid, uniq |-> mbox[s].msgs[i].uniq] \in list.recs

UIDInv == FileInv /\ HolderInv /\ SnapshotInv

\* Every type is kept and, until the uint32 wraps, no interleaving of syncs,
\* failures and crashes takes the uidlist, the holder's copy of it and the
\* snapshots of the sessions apart.
IInv == TypeOK /\ (~wrapped => UIDInv)

-----------------------------------------------------------------------------
Delivered == {"moved", "stored", "failed"}

\* A file in new/ or cur/ has the name of its mail, whose delivery got that far.
FilesBelong ==
    \A m \in Mail :
        /\ \A u \in Uniq : new[u] = m => u = name[m] /\ mpc[m] \in Delivered
        /\ \A f \in File : cur[f] = m => f[1] = name[m] /\ mpc[m] \in Delivered

\* There is at most one file of a name that no two mails share, and there is one
\* while its mail is owed.
OneFile ==
    \A u \in Uniq : Unshared(u) =>
        /\ new[u] # None => cur[<<u, TRUE>>] = None /\ cur[<<u, FALSE>>] = None
        /\ cur[<<u, TRUE>>] = None \/ cur[<<u, FALSE>>] = None
Kept ==
    \A m \in Mail :
        mpc[m] \in {"moved", "stored"} /\ m \notin gone /\ Unshared(name[m]) =>
        \/ new[name[m]] = m
        \/ cur[<<name[m], TRUE>>] = m \/ cur[<<name[m], FALSE>>] = m

\* What the holder has listed in new/ stays there until the holder moves it.
Listed == todo \subseteq Names(new)

DiskInv == TypeOK /\ FilesBelong /\ OneFile /\ Kept /\ Listed

-----------------------------------------------------------------------------
Shows(s, m) == \E i \in DOMAIN mbox[s].msgs : mbox[s].msgs[i].uniq = name[m]

\* The mails that are due and share their name with no other.
SureDue == {m \in due \ gone : Unshared(name[m])}

\* Each of them is still to be moved, or is in cur/, in the scan or in the
\* mailbox, as far as the sync has got.  As long as a rename may still race, the
\* scan has its file under the name it has now.
DueInv ==
    /\ phase # "scan" => flux = {}
    /\ \A m \in due : mpc[m] = "stored"
    /\ \A m \in SureDue :
        /\ phase \in {"list", "migrate"} /\ new[name[m]] = m => name[m] \in todo
        /\ phase = "scan" => \E f \in names \ flux :
              f[1] = name[m] /\ (races < MaxRaces => cur[f] = m)
        /\ phase = "load" => \E f \in names : f[1] = name[m]
        /\ phase \in {"commit", "publish"} => Shows(lock, m)

\* No delivery will use the name any more, and it is not in new/.
Settled(u) == new[u] = None /\ \E m \in Mail : name[m] = u /\ mpc[m] \in Delivered
HasFile(u) == cur[<<u, TRUE>>] # None \/ cur[<<u, FALSE>>] # None

\* One record per name; and the mails whose record is gone are gone.
Backed(recs) ==
    /\ \A a, b \in recs : a.uniq = b.uniq => a = b
    /\ \A r \in recs : Settled(r.uniq)
    /\ \A e \in issued :
        /\ HasFile(e.uniq) => [uid |-> e.uid, uniq |-> e.uniq] \in recs
        /\ \A r \in recs : r.uniq = e.uniq => r.uid = e.uid

\* One name per file, and the index has just the records of the files.
Scanned ==
    /\ \A f \in names : Settled(f[1])
    /\ \A f, g \in names : f[1] = g[1] => f = g
    /\ \A r \in index : HasFile(r.uniq) => \E f \in names : f[1] = r.uniq
    /\ \A f \in names, e \in issued : f[1] = e.uniq => \E r \in index : r.uniq = e.uniq

RecordsInv ==
    /\ flux = {}
    /\ \A e \in issued : Settled(e.uniq)
    /\ \A a, b \in issued : a.uniq = b.uniq => a.uid = b.uid
    /\ Backed(uidlist.recs)
    /\ phase \in {"list", "migrate", "scan", "load"} => index = list.recs
    /\ phase \in {"scan", "load"} => Scanned
    /\ phase = "commit" => Backed(list.recs)

Ascending(s) ==
    \A i, j \in DOMAIN mbox[s].msgs : i < j => mbox[s].msgs[i].uid < mbox[s].msgs[j].uid
OrderInv ==
    \A s \in Session :
        Opened(s) \/ (lock = s /\ phase \in {"commit", "publish"}) => Ascending(s)

\* As long as nothing else gives a mail another UID.
Undisturbed == ~wrapped /\ races = 0 /\ AllUnshared
KeepInv == Undisturbed => RecordsInv /\ OrderInv

ViewInv == IInv /\ DiskInv /\ DueInv /\ KeepInv
=============================================================================
