------------------------------ MODULE LegacySync ------------------------------
(***************************************************************************)
(* The earlier single-goroutine DriveDB of src/unnamed/part_000: sync()    *)
(* reads int:checkpoint, lists changes page by page, turns each page into  *)
(* one LevelDB batch (file puts, deletes, inode allocation, parent refs    *)
(* and the checkpoint) and, once caught up, RebuildCache()s the in-memory  *)
(* inode -> File map d.files and Broadcasts to WaitUntilSynced callers.    *)
(*                                                                         *)
(* Covered: remote changes arriving during the run, pages, failed          *)
(* Changes.List calls, failed db.Write, a failed checkpoint read, a crash  *)
(* and NewDriveDB on the surviving store.  Not covered: pollSleep's        *)
(* timing, Close, JSON encode errors (the encoded values are integers and  *)
(* structs that always encode), failed d.db.Has calls.                     *)
(*                                                                         *)
(* Data is abstracted as in DriveDB: a file is its single parent ref and   *)
(* the id of the change that wrote it; "kid:p:c" is the pair <<p, c>>.     *)
(* Only sync writes the store and RebuildCache runs on its goroutine, so   *)
(* a page and a rebuild are single steps.                                  *)
(***************************************************************************)
EXTENDS Naturals, Sequences, FiniteSets, SequencesExt

CONSTANTS
    FileIds, Root, History, PageSize, Readers, InitRemoteLen, None,
    MaxCrashes,        \* bound: process crashes
    MaxWriteFailures,  \* bound: failed db.Write calls
    MaxFetchFailures,  \* bound: failed l.Do() calls
    MaxReadFailures    \* bound: failed reads of an existing int:checkpoint

Parents == FileIds \cup {Root}
Change  == [file : FileIds, del : BOOLEAN, parent : Parents]
ASSUME History \in Seq(Change) /\ InitRemoteLen \in 0..Len(History)

VARIABLES
    fid, f2i, i2f, rtf, kid, ckpt,  \* LevelDB (ckpt = None: no int:checkpoint)
    remoteLen,                      \* changes present in the remote log
    pc, cpt, next,                  \* sync: step, its local cpt, l's next change id
    files,                          \* d.files: inode -> File
    waiting,                        \* callers blocked in d.synced.Wait()
    crashes, wfails, ffails, rfails

storeVars == <<fid, f2i, i2f, rtf, kid, ckpt>>
vars == <<storeVars, remoteLen, pc, cpt, next, files, waiting,
          crashes, wfails, ffails, rfails>>

CheckPoint == [lastChangeId : Nat, lastInode : Nat]
Snapshot   == [parent : Parents, ver : 1..Len(History)]
CachedFile == [file : FileIds, snap : Snapshot, children : SUBSET Nat]

TypeOK ==
    /\ fid \in [FileIds -> Snapshot \cup {None}] /\ f2i \in [FileIds -> Nat \cup {None}]
    /\ DOMAIN i2f \subseteq Nat /\ i2f \in [DOMAIN i2f -> FileIds]
    /\ rtf \subseteq FileIds /\ kid \subseteq Parents \X FileIds
    /\ ckpt \in CheckPoint \cup {None} /\ cpt \in CheckPoint
    /\ remoteLen \in 0..Len(History) /\ pc \in {"start", "loop"} /\ next \in Nat \ {0}
    /\ DOMAIN files \subseteq Nat /\ files \in [DOMAIN files -> CachedFile]
    /\ waiting \subseteq Readers

\* NewDriveDB on an empty store; d.files is the nil map.
Init ==
    /\ fid = [x \in FileIds |-> None] /\ f2i = [x \in FileIds |-> None]
    /\ i2f = [n \in {} |-> None] /\ rtf = {} /\ kid = {} /\ ckpt = None
    /\ remoteLen = InitRemoteLen
    /\ pc = "start" /\ cpt = [lastChangeId |-> 0, lastInode |-> 1] /\ next = 1
    /\ files = [n \in {} |-> None] /\ waiting = {}
    /\ crashes = 0 /\ wfails = 0 /\ ffails = 0 /\ rfails = 0

(***************************************************************************)
(* One change of a page, folded into the batch b.  d.db.Has and            *)
(* d.FileById read the store as it was before the page, never the batch.  *)
(***************************************************************************)
ApplyItem(b, i) ==
    LET c == History[i]
        x == c.file
    IN IF c.del
       THEN [b EXCEPT !.fid[x] = None, !.f2i[x] = None, !.rtf = @ \ {x},
                      !.kid = (@ \ {k \in kid : k[1] = x})
                              \ (IF fid[x] # None THEN {<<fid[x].parent, x>>} ELSE {})]
       ELSE LET b1 == [b EXCEPT !.fid[x] = [parent |-> c.parent, ver |-> i]]
                n  == b.lastInode + 1
            IN IF f2i[x] # None THEN b1
               ELSE [b1 EXCEPT !.lastInode = n, !.f2i[x] = n,
                               !.i2f = (n :> x) @@ @,
                               !.rtf = IF c.parent = Root THEN @ \cup {x} ELSE @,
                               !.kid = IF c.parent = Root THEN @ ELSE @ \cup {<<c.parent, x>>}]

\* The batch of the page of ids first..last, starting from the store.
PageBatch(first, last) ==
    FoldLeft(ApplyItem,
             [fid |-> fid, f2i |-> f2i, i2f |-> i2f, rtf |-> rtf, kid |-> kid,
              lastInode |-> cpt.lastInode],
             [k \in 1..(last - first + 1) |-> first + k - 1])

(***************************************************************************)
(* RebuildCache over the store s: AllFileIds, then for each file FileById, *)
(* InodeByFileId and ChildFileIds (which drops, and deletes, kid: keys of *)
(* files without fid:) and the children's InodeByFileId.  It fails when   *)
(* any of those files has no f2i: key; d.files is then left as it was.    *)
(***************************************************************************)
LiveChildren(s, p) == {c \in FileIds : <<p, c>> \in s.kid /\ s.fid[c] # None}
Listed(s) == {x \in FileIds : s.fid[x] # None}

RebuildOk(s) == \A x \in Listed(s) : s.f2i[x] # None

\* d.files = newCache.  Files sharing an inode overwrite each other, the
\* one later in key order winning; the model leaves that order open.
Rebuilt(s) ==
    { [n \in {s.f2i[x] : x \in Listed(s)} |->
         LET x == pick[n]
         IN [file |-> x, snap |-> s.fid[x],
             children |-> {s.f2i[c] : c \in LiveChildren(s, x)}]] :
      pick \in {p \in [{s.f2i[x] : x \in Listed(s)} -> Listed(s)] :
                  \A n \in DOMAIN p : s.f2i[p[n]] = n} }

\* The kid: keys ChildFileIds deletes for the parents it listed.
StaleRefs(s) == {k \in s.kid : k[1] \in Listed(s) /\ s.fid[k[2]] = None}

\* RebuildCache() followed by d.synced.Broadcast(), on the store s.
RebuildAndBroadcast(s) ==
    /\ IF RebuildOk(s)
       THEN /\ \E c \in Rebuilt(s) : files' = c
            /\ kid' = s.kid \ StaleRefs(s)
       ELSE /\ UNCHANGED files
            \* it returns at the first file without an inode, having
            \* garbage-collected the children of the files before it
            /\ \E g \in SUBSET StaleRefs(s) : kid' = s.kid \ g
    /\ waiting' = {}

(***************************************************************************)
(* Actions                                                                 *)
(***************************************************************************)
RemoteChange ==
    /\ remoteLen < Len(History) /\ remoteLen' = remoteLen + 1
    /\ UNCHANGED <<storeVars, pc, cpt, next, files, waiting, crashes, wfails, ffails, rfails>>

\* Mutant of ReadCheckpoint: every read is taken as failed, as with an
\* inverted error check.
ReadCheckpointScratch ==
    /\ pc = "start"
    /\ cpt' = [lastChangeId |-> 0, lastInode |-> 1] /\ next' = 1
    /\ pc' = "loop"
    /\ UNCHANGED <<storeVars, remoteLen, files, waiting, crashes, wfails, ffails, rfails>>

\* Mutant of ReadCheckpoint: l.StartChangeId(cpt.LastChangeID), without
\* the + 1.
ReadCheckpointNoIncrement ==
    /\ pc = "start"
    /\ \/ /\ ckpt # None /\ cpt' = ckpt /\ UNCHANGED rfails
       \/ /\ ckpt = None \/ rfails < MaxReadFailures
          /\ rfails' = IF ckpt = None THEN rfails ELSE rfails + 1
          /\ cpt' = [lastChangeId |-> 0, lastInode |-> 1]
    /\ next' = cpt'.lastChangeId
    /\ pc' = "loop"
    /\ UNCHANGED <<storeVars, remoteLen, files, waiting, crashes, wfails, ffails>>

\* Start of sync(): d.get(int:checkpoint); on any error LastInode = 1
\* and LastChangeID = 0, so the listing starts from scratch.
ReadCheckpoint ==
    /\ pc = "start"
    /\ \/ /\ ckpt # None /\ cpt' = ckpt /\ UNCHANGED rfails
       \/ /\ ckpt = None \/ rfails < MaxReadFailures
          /\ rfails' = IF ckpt = None THEN rfails ELSE rfails + 1
          /\ cpt' = [lastChangeId |-> 0, lastInode |-> 1]
    /\ next' = cpt'.lastChangeId + 1
    /\ pc' = "loop"
    /\ UNCHANGED <<storeVars, remoteLen, files, waiting, crashes, wfails, ffails>>

\* l.Do() fails: pollSleep and the same listing again.
FetchFail ==
    /\ pc = "loop" /\ ffails < MaxFetchFailures /\ ffails' = ffails + 1
    /\ UNCHANGED <<storeVars, remoteLen, pc, cpt, next, files, waiting, crashes, wfails, rfails>>

\* Mutant of Synced: the cache is rebuilt only after a page is written.
SyncedNoRebuild ==
    /\ pc = "loop"
    /\ cpt.lastChangeId >= remoteLen \/ next > remoteLen
    /\ waiting' = {}
    /\ UNCHANGED <<storeVars, remoteLen, pc, cpt, next, files,
                   crashes, wfails, ffails, rfails>>

\* Mutant of Synced: no Broadcast when already synced.
SyncedNoBroadcast ==
    /\ pc = "loop"
    /\ cpt.lastChangeId >= remoteLen \/ next > remoteLen
    /\ UNCHANGED <<storeVars, remoteLen, pc, cpt, next, files, waiting,
                   crashes, wfails, ffails, rfails>>

\* Already synced (cpt.LastChangeID >= LargestChangeId) or an empty page:
\* RebuildCache, Broadcast, pollSleep, the same listing again.
Synced ==
    /\ pc = "loop"
    /\ cpt.lastChangeId >= remoteLen \/ next > remoteLen
    /\ RebuildAndBroadcast([fid |-> fid, f2i |-> f2i, kid |-> kid])
    /\ UNCHANGED <<fid, f2i, i2f, rtf, ckpt, remoteLen, pc, cpt, next,
                   crashes, wfails, ffails, rfails>>

\* A page of at most PageSize changes is folded into one batch with the
\* new checkpoint and written.  A failed write keeps the advanced cpt and
\* lists the same page again.  After the last page (no NextPageToken) the
\* cache is rebuilt, waiters are woken and listing restarts after cpt.
ProcessPage ==
    /\ pc = "loop"
    /\ cpt.lastChangeId < remoteLen /\ next <= remoteLen
    /\ LET last == IF next + PageSize - 1 < remoteLen THEN next + PageSize - 1 ELSE remoteLen
           b    == PageBatch(next, last)
           c    == [lastChangeId |-> last, lastInode |-> b.lastInode]
       IN /\ cpt' = c
          /\ \/ /\ wfails < MaxWriteFailures /\ wfails' = wfails + 1
                /\ UNCHANGED <<storeVars, next, files, waiting>>
             \/ /\ fid' = b.fid /\ f2i' = b.f2i /\ i2f' = b.i2f /\ rtf' = b.rtf
                /\ ckpt' = c /\ UNCHANGED wfails
                /\ IF last < remoteLen
                   THEN /\ next' = last + 1 /\ kid' = b.kid
                        /\ UNCHANGED <<files, waiting>>
                   ELSE /\ next' = last + 1
                        /\ RebuildAndBroadcast(b)
    /\ UNCHANGED <<remoteLen, pc, crashes, ffails, rfails>>

\* WaitUntilSynced: d.synced.Wait() without a predicate.
Wait(r) ==
    /\ r \notin waiting /\ waiting' = waiting \cup {r}
    /\ UNCHANGED <<storeVars, remoteLen, pc, cpt, next, files, crashes, wfails, ffails, rfails>>

\* The process dies and NewDriveDB reopens the store.
Crash ==
    /\ crashes < MaxCrashes /\ crashes' = crashes + 1
    /\ pc' = "start" /\ files' = [n \in {} |-> None] /\ waiting' = {}
    /\ UNCHANGED <<storeVars, remoteLen, cpt, next, wfails, ffails, rfails>>

Next ==
    \/ RemoteChange \/ ReadCheckpoint \/ FetchFail \/ Synced \/ ProcessPage \/ Crash
    \/ \E r \in Readers : Wait(r)

\* The sync goroutine runs whenever it can; the remote, faults and callers
\* are not assumed to act.
Spec == Init /\ [][Next]_vars
FairSpec == Spec /\ WF_vars(ReadCheckpoint) /\ WF_vars(Synced) /\ WF_vars(ProcessPage)

-----------------------------------------------------------------------------
(* Properties *)

\* The last change of x in the remote log, and whether x is live there.
LastChange(x) == Max({i \in 1..remoteLen : History[i].file = x} \cup {0})
RemoteLive(x) == LastChange(x) > 0 /\ ~History[LastChange(x)].del

\* What d.files would hold if it mirrored the remote: each live file with
\* its latest snapshot and the live files whose parent it is.
Expected ==
    { [file |-> x,
       snap |-> [parent |-> History[LastChange(x)].parent, ver |-> LastChange(x)],
       kids |-> {c \in FileIds : RemoteLive(c) /\ History[LastChange(c)].parent = x}] :
      x \in {y \in FileIds : RemoteLive(y)} }

Cached ==
    { [file |-> files[n].file, snap |-> files[n].snap,
       kids |-> {files[m].file : m \in files[n].children \cap DOMAIN files}] :
      n \in DOMAIN files }

CacheMatchesRemote ==
    Cached = Expected /\ \A n \in DOMAIN files : files[n].children \subseteq DOMAIN files

\* The inode map FileByInode and RootInodes serve (d.files, rebuilt from
\* fid:, f2i: and kid: after each catch-up) eventually settles on the
\* remote's files, parents and children, across crashes and failed
\* Changes.List calls, in every run without a failed db.Write.
CacheConverges == [](wfails = 0) => <>[]CacheMatchesRemote

\* Every f2i: entry has the matching i2f: entry: the inode sync gave a file
\* still names that file, so no inode is handed to two files.
InodesAgree ==
    \A x \in FileIds : f2i[x] # None => f2i[x] \in DOMAIN i2f /\ i2f[f2i[x]] = x

\* Every file in the store has an inode: RebuildCache's InodeByFileId
\* finds an f2i: key for each fid: key AllFileIds lists, so the cache can
\* be rebuilt.
FilesHaveInodes == \A x \in FileIds : fid[x] # None => f2i[x] # None

\* A WaitUntilSynced caller is eventually woken: sync broadcasts on every
\* caught-up listing, not only when a page commits.
WaitersWoken == \A r \in Readers : r \in waiting ~> r \notin waiting
=============================================================================
