------------------------------- MODULE DriveDB -------------------------------
(***************************************************************************)
(* The metadata database of src/unnamed/part_001 (package drive_db): the   *)
(* LevelDB key space, the in-memory CheckPoint, InodeForFileId with its    *)
(* singleflight group, the pollForChanges/readChanges goroutine, the       *)
(* d.changes channel, the sync/processChange goroutine (with UpdateFile    *)
(* and RemoveFileById), foreground callers of the public query surface,    *)
(* LevelDB write failures and a process crash followed by NewDriveDB.      *)
(*                                                                         *)
(* Data is abstracted: a file snapshot is its single parent ref and the    *)
(* id of the change that wrote it; a key "kid:p:c" is the pair <<p, c>>.   *)
(***************************************************************************)
EXTENDS Naturals, Sequences, FiniteSets, SequencesExt, TLC

CONSTANTS
    FileIds,          \* remote file ids (model values)
    Root,             \* a parent ref with IsRoot set
    History,          \* the remote change log; the change at index i has Id i
    PageSize,         \* MaxResults of Changes.List (1000 in the code)
    ChanCap,          \* capacity of d.changes (200 in the code)
    InodeFloor,       \* LastInode of a fresh checkpoint (1000 in the code)
    Readers,          \* foreground goroutines calling the query surface
    Applier,          \* the sync goroutine, as a caller of InodeForFileId
    ReaderOps,        \* the public operations the readers call
    InitRemoteLen,    \* changes already in the remote log at start
    MaxPolls,         \* bound: poll cycles started by pollForChanges
    MaxCrashes,       \* bound: process crashes
    MaxWriteFailures, \* bound: failed db.Write calls
    MaxFetchFailures, \* bound: failed Changes.List calls
    MaxReadFailures,  \* bound: failed reads of int:checkpoint at NewDriveDB
    None,             \* an absent key
    NoActor           \* no singleflight call in progress

Parents == FileIds \cup {Root}
Change  == [file : FileIds, del : BOOLEAN, parent : Parents]
Actors  == Readers \cup {Applier}

ASSUME History \in Seq(Change) /\ InitRemoteLen \in 0..Len(History)
ASSUME PageSize \in Nat \ {0} /\ ChanCap \in Nat \ {0} /\ InodeFloor \in Nat
ASSUME Applier \notin Readers
ASSUME ReaderOps \subseteq {"inode", "children", "file", "roots", "flush", "wait", "refresh"}

VARIABLES
    fid, f2i, i2f, rtf, kid, ckpt,  \* LevelDB: fid:, f2i:, i2f:, rtf:, kid:, int:checkpoint
    committed,                      \* history: ids whose processChange batch committed
    cpt,                            \* d.cpt, the in-memory CheckPoint
    remoteLen,                      \* changes present in the remote log
    pollPc, pollNext, polls,        \* readChanges: state, page token, cycles started
    chan,                           \* d.changes
    appPc, appPage, appCur,         \* processChange: step, page, current change Id
    appDels, appStaged, appCpt,     \* its batch: kid deletes, file puts staged, checkpoint
    call, flight,                   \* InodeForFileId per caller; d.sf in-flight keys
    rdPc, rdKey, rdKeys,            \* readers: step, listed id, kid keys of ChildFileIds
    rdView, rdAcc,                  \* readers: FileByInode's view, RootInodes' inodes
    lru, rootCache,                 \* d.lruCache: inode -> *File, and "rootInodes"
    crashes, wfails, ffails, rfails \* fault counters

storeVars == <<fid, f2i, i2f, rtf, kid, ckpt, committed>>
pollVars  == <<remoteLen, pollPc, pollNext, polls>>
appVars   == <<appPc, appPage, appCur, appDels, appStaged, appCpt>>
callVars  == <<call, flight>>
rdVars    == <<rdPc, rdKey, rdKeys, rdView, rdAcc>>
cacheVars == <<lru, rootCache>>
vars == <<storeVars, cpt, pollVars, chan, appVars, callVars, rdVars, cacheVars,
          crashes, wfails, ffails, rfails>>

CheckPoint == [lastChangeId : Nat, lastInode : Nat]
Snapshot   == [parent : Parents, ver : 1..Len(History)]
Page       == [first : Nat, last : Nat, largest : Nat]
Call       == [key : FileIds \cup {None}, inode : Nat, ok : BOOLEAN,
               phase : {"none", "wait", "alloc", "commit", "done"}, cpt : CheckPoint]

\* A cached File: the file id, the inode InodeForFileId gave it, and the
\* fid: snapshot it was built from (its Children are not modelled).
View       == [file : FileIds, inode : Nat, snap : Snapshot]
NoView     == [file |-> None, inode |-> 0, snap |-> None]

FreshCheckPoint == [lastChangeId |-> 0, lastInode |-> InodeFloor]
IdleCall == [key |-> None, phase |-> "none", inode |-> 0, ok |-> FALSE,
             cpt |-> FreshCheckPoint]

\* The outcomes a db.Write may have, and the failure counter it leaves.
WriteOutcomes == IF wfails < MaxWriteFailures THEN BOOLEAN ELSE {TRUE}
CountWrite(ok) == wfails' = IF ok THEN wfails ELSE wfails + 1

\* The inodes InodeForFileId hands out: those up to 1000 are kept for
\* "special" inodes (NewDriveDB), and 0 comes only with an error.
Inode == {n \in Nat : n > InodeFloor}

TypeOK ==
    /\ fid \in [FileIds -> Snapshot \cup {None}]
    /\ f2i \in [FileIds -> Inode \cup {None}]
    /\ DOMAIN i2f \subseteq Inode /\ i2f \in [DOMAIN i2f -> FileIds]
    /\ rtf \subseteq FileIds /\ kid \subseteq Parents \X FileIds
    /\ ckpt \in CheckPoint /\ cpt \in CheckPoint
    /\ committed \subseteq 1..Len(History)
    /\ remoteLen \in 0..Len(History) /\ polls \in 0..MaxPolls
    /\ pollPc \in {"idle", "cycle"} /\ pollNext \in Nat
    /\ chan \in Seq(Page) /\ Len(chan) <= ChanCap
    /\ appPc \in {"idle", "alloc", "update", "remove", "realloc", "commit"}
    /\ appPage \in Page /\ appCur \in Nat /\ appDels \subseteq Parents \X FileIds
    /\ appStaged \in BOOLEAN /\ appCpt \in CheckPoint
    /\ call \in [Actors -> Call] /\ flight \in [FileIds -> Actors \cup {NoActor}]
    /\ rdPc \in [Readers -> {"idle", "listed", "inode", "has", "gc", "fread", "fcall",
                               "roots", "rootcall", "waiting", "rcall"}]
    /\ rdKey \in [Readers -> FileIds \cup {None}]
    /\ rdKeys \in [Readers -> SUBSET (Parents \X FileIds)]
    /\ rdView \in [Readers -> View \cup {NoView}] /\ rdAcc \in [Readers -> SUBSET Inode]
    /\ DOMAIN lru \subseteq Nat /\ lru \in [DOMAIN lru -> View]
    /\ rootCache = None \/ rootCache \subseteq Inode

Init ==
    /\ fid = [x \in FileIds |-> None] /\ f2i = [x \in FileIds |-> None]
    /\ i2f = [n \in {} |-> None] /\ rtf = {} /\ kid = {}
    \* NewDriveDB on an empty store: no checkpoint, LastInode = 1000, written back
    /\ ckpt = FreshCheckPoint /\ cpt = FreshCheckPoint
    /\ committed = {}
    /\ remoteLen = InitRemoteLen
    /\ pollPc = "idle" /\ pollNext = 0 /\ polls = 0 /\ chan = <<>>
    /\ appPc = "idle" /\ appPage = [first |-> 0, last |-> 0, largest |-> 0]
    /\ appCur = 0 /\ appDels = {} /\ appStaged = FALSE /\ appCpt = FreshCheckPoint
    /\ call = [a \in Actors |-> IdleCall] /\ flight = [x \in FileIds |-> NoActor]
    /\ rdPc = [r \in Readers |-> "idle"] /\ rdKey = [r \in Readers |-> None]
    /\ rdKeys = [r \in Readers |-> {}]
    /\ rdView = [r \in Readers |-> NoView] /\ rdAcc = [r \in Readers |-> {}]
    /\ lru = [n \in {} |-> NoView] /\ rootCache = None
    /\ crashes = 0 /\ wfails = 0 /\ ffails = 0 /\ rfails = 0

(***************************************************************************)
(* InodeForFileId(fileId): d.sf.Do("inf:"+fileId, inodeForFileIdImpl).     *)
(* A caller whose key is in flight waits for the running call and takes    *)
(* its result; otherwise it runs inodeForFileIdImpl, whose d.get of the    *)
(* f2i: key is read from the mapping m.  The caller later finds            *)
(* call[a].phase = "done" with the returned inode and error.               *)
(***************************************************************************)
StartCallWith(a, x, m) ==
    \/ /\ flight[x] # NoActor
       /\ call' = [call EXCEPT ![a] = [IdleCall EXCEPT !.key = x, !.phase = "wait"]]
       /\ UNCHANGED flight
    \/ /\ flight[x] = NoActor /\ m[x] # None
       /\ call' = [call EXCEPT ![a] = [IdleCall EXCEPT !.key = x, !.phase = "done",
                                                       !.inode = m[x], !.ok = TRUE]]
       /\ UNCHANGED flight
    \/ /\ flight[x] = NoActor /\ m[x] = None
       /\ flight' = [flight EXCEPT ![x] = a]
       /\ call' = [call EXCEPT ![a] = [IdleCall EXCEPT !.key = x, !.phase = "alloc"]]

StartCall(a, x) == StartCallWith(a, x, f2i)

\* Mutant of Alloc: the next inode is taken from the stored checkpoint.
AllocFromStore(a) ==
    /\ call[a].phase = "alloc"
    /\ LET n == ckpt.lastInode + 1
           c == [cpt EXCEPT !.lastInode = n]
       IN /\ cpt' = c
          /\ call' = [call EXCEPT ![a].phase = "commit", ![a].inode = n, ![a].cpt = c]
    /\ UNCHANGED <<storeVars, pollVars, chan, appVars, flight, rdVars,
                   crashes, wfails, ffails, rfails, cacheVars>>

\* nextInode: d.cpt.LastInode++ under d.Mutex, then writeCheckpoint(batch)
\* copies d.cpt (under the mutex again) into the batch.  The two lock
\* sections are one step: a setLastChangeId between them is taken into the
\* copy, as it is when it comes just after the copy's commit is staged.
Alloc(a) ==
    /\ call[a].phase = "alloc"
    /\ LET n == cpt.lastInode + 1
           c == [cpt EXCEPT !.lastInode = n]
       IN /\ cpt' = c
          /\ call' = [call EXCEPT ![a].phase = "commit", ![a].inode = n, ![a].cpt = c]
    /\ UNCHANGED <<storeVars, pollVars, chan, appVars, flight, rdVars,
                   crashes, wfails, ffails, rfails, cacheVars>>

\* The singleflight call for the key of a's call returns (inode, ok) to a
\* and to every caller waiting on the same key, and leaves d.sf.
Finish(a, inode, ok) ==
    /\ call' = [b \in Actors |->
                  IF b = a \/ (call[b].phase = "wait" /\ call[b].key = call[a].key)
                  THEN [call[b] EXCEPT !.phase = "done", !.inode = inode, !.ok = ok]
                  ELSE call[b]]
    /\ flight' = [flight EXCEPT ![call[a].key] = NoActor]

\* inodeForFileIdImpl: d.db.Write of the f2i:, i2f: and checkpoint puts.
\* On a failed write it returns (0, err); d.cpt keeps the increment.
AllocCommit(a) ==
    /\ call[a].phase = "commit"
    /\ \E ok \in WriteOutcomes :
          /\ CountWrite(ok)
          /\ IF ok THEN /\ f2i' = [f2i EXCEPT ![call[a].key] = call[a].inode]
                        /\ i2f' = (call[a].inode :> call[a].key) @@ i2f
                        /\ ckpt' = call[a].cpt
                   ELSE UNCHANGED <<f2i, i2f, ckpt>>
          /\ Finish(a, IF ok THEN call[a].inode ELSE 0, ok)
    /\ UNCHANGED <<fid, rtf, kid, committed, cpt, pollVars, chan, appVars,
                   rdVars, crashes, ffails, rfails, cacheVars>>

(***************************************************************************)
(* The remote log grows by one change.                                     *)
(***************************************************************************)
RemoteChange ==
    /\ remoteLen < Len(History)
    /\ remoteLen' = remoteLen + 1
    /\ UNCHANGED <<storeVars, cpt, pollPc, pollNext, polls, chan, appVars,
                   callVars, rdVars, crashes, wfails, ffails, rfails, cacheVars>>

(***************************************************************************)
(* readChanges: one l.Do() from change Id s, and d.changes <- c.  The page *)
(* holds Ids s..last; NextPageToken is set while the log goes on.  An      *)
(* empty page, or one with no token, ends the cycle; a failed l.Do() ends  *)
(* it without sending anything.                                            *)
(***************************************************************************)
FetchFrom(s) ==
    \/ /\ Len(chan) < ChanCap
       /\ LET last == IF s + PageSize - 1 < remoteLen THEN s + PageSize - 1
                                                       ELSE remoteLen
          IN /\ chan' = Append(chan, [first |-> s, last |-> last, largest |-> remoteLen])
             /\ IF s <= last /\ last < remoteLen
                THEN pollPc' = "cycle" /\ pollNext' = last + 1
                ELSE pollPc' = "idle" /\ pollNext' = 0
       /\ UNCHANGED ffails
    \/ /\ ffails < MaxFetchFailures
       /\ ffails' = ffails + 1
       /\ pollPc' = "idle" /\ pollNext' = 0
       /\ UNCHANGED chan

\* Mutant of PollStart: readChanges starts one Id too far.
PollStartSkip ==
    /\ pollPc = "idle" /\ polls < MaxPolls
    /\ polls' = polls + 1
    /\ FetchFrom(cpt.lastChangeId + 2)
    /\ UNCHANGED <<storeVars, cpt, remoteLen, appVars, callVars, rdVars,
                   crashes, wfails, rfails, cacheVars>>

\* pollForChanges: a tick (or the first call) runs readChanges, which starts
\* at d.lastChangeId() + 1 (from scratch when it is 0: the same Id).
PollStart ==
    /\ pollPc = "idle" /\ polls < MaxPolls
    /\ polls' = polls + 1
    /\ FetchFrom(cpt.lastChangeId + 1)
    /\ UNCHANGED <<storeVars, cpt, remoteLen, appVars, callVars, rdVars,
                   crashes, wfails, rfails, cacheVars>>

\* readChanges follows c.NextPageToken.
PollNext ==
    /\ pollPc = "cycle"
    /\ FetchFrom(pollNext)
    /\ UNCHANGED <<storeVars, cpt, remoteLen, polls, appVars, callVars, rdVars,
                   crashes, wfails, rfails, cacheVars>>

(***************************************************************************)
(* sync / processChange.  For each item: batch.Reset(); InodeForFileId;    *)
(* RemoveFileById(id, batch) or UpdateFile(batch, file); setLastChangeId;  *)
(* writeCheckpoint(batch); d.db.Write(batch).  An error of the final write *)
(* abandons the page; the errors of RemoveFileById and UpdateFile are      *)
(* dropped.                                                                *)
(***************************************************************************)
Deleting(i) == History[i].del

\* batch.Reset() and InodeForFileId(i.FileId) for item i.
StartItem(i) ==
    /\ appCur' = i /\ appPc' = "alloc"
    /\ StartCall(Applier, History[i].file)

\* Mutant of SetCheckpoint: the checkpoint takes the page's last Id.
SetCheckpointWholePage ==
    LET c == [cpt EXCEPT !.lastChangeId = appPage.last]
    IN cpt' = c /\ appCpt' = c /\ appPc' = "commit"

\* setLastChangeId(i.Id) then writeCheckpoint(batch), which copies d.cpt.
SetCheckpoint ==
    LET c == [cpt EXCEPT !.lastChangeId = appCur]
    IN cpt' = c /\ appCpt' = c /\ appPc' = "commit"

DeleteFile(x, dels) ==
    /\ fid' = [fid EXCEPT ![x] = None] /\ f2i' = [f2i EXCEPT ![x] = None]
    /\ rtf' = rtf \ {x} /\ kid' = kid \ dels

PutFile(i) ==
    LET x == History[i].file
        p == History[i].parent
    IN /\ fid' = [fid EXCEPT ![x] = [parent |-> p, ver |-> i]]
       /\ rtf' = IF p = Root THEN rtf \cup {x} ELSE rtf
       /\ kid' = IF p = Root THEN kid ELSE kid \cup {<<p, x>>}
       /\ UNCHANGED f2i

\* Mutant of Broadcast: the broadcast does not check that the page is synced.
BroadcastAlways(synced) ==
    rdPc' = [r \in Readers |-> IF rdPc[r] = "waiting" THEN "idle" ELSE rdPc[r]]

\* if d.lastChangeId() >= c.LargestChangeId { d.synced.Broadcast() }: every
\* goroutine in WaitUntilSynced's d.synced.Wait() returns.
Broadcast(synced) ==
    rdPc' = [r \in Readers |-> IF rdPc[r] = "waiting" /\ synced THEN "idle" ELSE rdPc[r]]

\* sync: c = <-d.changes.  processChange of an empty page only broadcasts
\* (when synced) and returns before the "rootInodes" removal.
AppTake ==
    /\ appPc = "idle" /\ chan # <<>>
    /\ appPage' = Head(chan) /\ chan' = Tail(chan)
    /\ IF Head(chan).first > Head(chan).last
       THEN /\ Broadcast(cpt.lastChangeId >= Head(chan).largest)
            /\ UNCHANGED <<appPc, appCur, callVars>>
       ELSE StartItem(Head(chan).first) /\ UNCHANGED rdPc
    /\ UNCHANGED <<storeVars, cpt, pollVars, appDels, appStaged, appCpt, rdKey, rdKeys,
                   rdView, rdAcc, crashes, wfails, ffails, rfails, cacheVars>>

\* InodeForFileId returned; processChange drops the result (its LRU removal
\* is guarded by err != nil && inode > 0).  UpdateFile calls InodeForFileId
\* again before anything else.
AppAllocDone ==
    /\ appPc = "alloc" /\ call[Applier].phase = "done"
    /\ IF Deleting(appCur)
       THEN /\ appPc' = "remove" /\ call' = [call EXCEPT ![Applier] = IdleCall]
            /\ UNCHANGED flight
       ELSE /\ appPc' = "update" /\ StartCall(Applier, History[appCur].file)
    /\ UNCHANGED <<storeVars, cpt, pollVars, chan, appPage, appCur, appDels,
                   appStaged, appCpt, rdVars, crashes, wfails, ffails, rfails, cacheVars>>

\* d.lruCache.Remove(key).
LruRemove(n) == [k \in DOMAIN lru \ {n} |-> lru[k]]

\* UpdateFile: on an InodeForFileId error it returns before b.Put; else it
\* removes the inode's LRU entry and stages the fid:, rtf: and kid: puts.
\* Then setLastChangeId and writeCheckpoint.
AppUpdate ==
    /\ appPc = "update" /\ call[Applier].phase = "done"
    /\ appStaged' = call[Applier].ok /\ appDels' = {}
    /\ lru' = IF call[Applier].ok THEN LruRemove(call[Applier].inode) ELSE lru
    /\ call' = [call EXCEPT ![Applier] = IdleCall]
    /\ SetCheckpoint
    /\ UNCHANGED <<storeVars, pollVars, chan, appPage, appCur, flight, rdVars,
                   rootCache, crashes, wfails, ffails, rfails>>

\* RemoveFileById(id, batch): stage deletes of fid:, f2i:, rtf:, every
\* kid:id:* key and kid:parent:id of the stored file, and d.db.Write(batch)
\* at once.  After a good write it calls InodeForFileId(id) (the f2i: key
\* is gone) and lruCache.Remove of that inode; a failed write returns its
\* error, which processChange drops.
AppRemove ==
    /\ appPc = "remove"
    /\ LET x    == History[appCur].file
           dels == {k \in kid : k[1] = x}
                   \cup (IF fid[x] # None THEN {<<fid[x].parent, x>>} ELSE {})
       IN /\ appDels' = dels /\ appStaged' = FALSE
          /\ \E ok \in WriteOutcomes :
                /\ CountWrite(ok)
                /\ IF ok
                   THEN /\ DeleteFile(x, dels)
                        /\ StartCallWith(Applier, x, [f2i EXCEPT ![x] = None])
                        /\ appPc' = "realloc"
                        /\ UNCHANGED <<cpt, appCpt>>
                   ELSE /\ SetCheckpoint
                        /\ UNCHANGED <<fid, f2i, rtf, kid, callVars>>
    /\ UNCHANGED <<i2f, ckpt, committed, pollVars, chan, appPage, appCur, rdVars,
                   crashes, ffails, rfails, cacheVars>>

\* RemoveFileById's InodeForFileId returned (a fresh inode: the f2i: key
\* is gone); it removes that inode's LRU entry.  Then setLastChangeId and
\* writeCheckpoint.
AppRealloc ==
    /\ appPc = "realloc" /\ call[Applier].phase = "done"
    /\ lru' = IF call[Applier].ok THEN LruRemove(call[Applier].inode) ELSE lru
    /\ call' = [call EXCEPT ![Applier] = IdleCall]
    /\ SetCheckpoint
    /\ UNCHANGED <<storeVars, pollVars, chan, appPage, appCur, appDels, appStaged,
                   flight, rdVars, rootCache, crashes, wfails, ffails, rfails>>

\* d.db.Write(batch): the deletes (again) or the staged puts, and the
\* checkpoint copy.  Then the next item, or the end of the page: the
\* "rootInodes" LRU removal and the synced broadcast.  A failed write
\* returns from processChange; sync logs it and takes the next page.
AppCommit ==
    /\ appPc = "commit"
    /\ \E ok \in WriteOutcomes :
          /\ CountWrite(ok)
          /\ IF ok
             THEN /\ IF Deleting(appCur) THEN DeleteFile(History[appCur].file, appDels)
                     ELSE IF appStaged THEN PutFile(appCur)
                     ELSE UNCHANGED <<fid, f2i, rtf, kid>>
                  /\ ckpt' = appCpt
                  /\ committed' = committed \cup {appCur}
                  /\ IF appCur < appPage.last
                     THEN StartItem(appCur + 1) /\ UNCHANGED <<rootCache, rdPc>>
                     ELSE /\ appPc' = "idle" /\ rootCache' = None
                          /\ Broadcast(cpt.lastChangeId >= appPage.largest)
                          /\ UNCHANGED <<appCur, callVars>>
             ELSE /\ appPc' = "idle"
                  /\ UNCHANGED <<fid, f2i, rtf, kid, ckpt, committed, appCur, callVars,
                                 rootCache, rdPc>>
    /\ UNCHANGED <<i2f, cpt, pollVars, chan, appPage, appDels, appStaged, appCpt,
                   rdKey, rdKeys, rdView, rdAcc, lru, crashes, ffails, rfails>>

(***************************************************************************)
(* Foreground goroutines.                                                  *)
(***************************************************************************)
\* RootInodes and FileByInode list ids (RootFileIds, ChildFileIds) and then
\* call InodeForFileId on each; between the two the id may be deleted.
ReaderList(r, x) ==
    /\ "inode" \in ReaderOps /\ rdPc[r] = "idle"
    /\ x \in rtf \/ fid[x] # None
    /\ rdPc' = [rdPc EXCEPT ![r] = "listed"] /\ rdKey' = [rdKey EXCEPT ![r] = x]
    /\ UNCHANGED <<storeVars, cpt, pollVars, chan, appVars, callVars, rdKeys, rdView, rdAcc,
                   crashes, wfails, ffails, rfails, cacheVars>>

ReaderCall(r) ==
    /\ rdPc[r] = "listed"
    /\ StartCall(r, rdKey[r])
    /\ rdPc' = [rdPc EXCEPT ![r] = "inode"]
    /\ UNCHANGED <<storeVars, cpt, pollVars, chan, appVars, rdKey, rdKeys, rdView, rdAcc,
                   crashes, wfails, ffails, rfails, cacheVars>>

ReaderReturn(r) ==
    /\ rdPc[r] = "inode" /\ call[r].phase = "done"
    /\ call' = [call EXCEPT ![r] = IdleCall] /\ rdPc' = [rdPc EXCEPT ![r] = "idle"]
    /\ rdKey' = [rdKey EXCEPT ![r] = None]
    /\ UNCHANGED <<storeVars, cpt, pollVars, chan, appVars, flight, rdKeys, rdView, rdAcc,
                   crashes, wfails, ffails, rfails, cacheVars>>

\* ChildFileIds(p): d.db.NewIterator over kid:p:* reads a snapshot of the
\* keys taken when it is created.
ChildIter(r, p) ==
    /\ "children" \in ReaderOps /\ rdPc[r] = "idle"
    /\ rdKeys' = [rdKeys EXCEPT ![r] = {k \in kid : k[1] = p}]
    /\ rdPc' = [rdPc EXCEPT ![r] = "has"]
    /\ UNCHANGED <<storeVars, cpt, pollVars, chan, appVars, callVars, rdKey,
                   rdView, rdAcc, crashes, wfails, ffails, rfails, cacheVars>>

\* For each key, d.db.Has(fileKey(cid)) on the live store; a key whose
\* child is absent (or whose Has fails) is staged for deletion.
ChildHas(r) ==
    /\ rdPc[r] = "has"
    /\ rdKeys' = [rdKeys EXCEPT ![r] = {k \in rdKeys[r] : fid[k[2]] = None}]
    /\ rdPc' = [rdPc EXCEPT ![r] = "gc"]
    /\ UNCHANGED <<storeVars, cpt, pollVars, chan, appVars, callVars, rdKey,
                   rdView, rdAcc, crashes, wfails, ffails, rfails, cacheVars>>

\* ChildFileIds: if batch.Len() > 0, d.db.Write(batch); an error is logged.
ChildGC(r) ==
    /\ rdPc[r] = "gc"
    /\ IF rdKeys[r] = {}
       THEN UNCHANGED <<kid, wfails>>
       ELSE \E ok \in WriteOutcomes :
               /\ CountWrite(ok)
               /\ kid' = IF ok THEN kid \ rdKeys[r] ELSE kid
    /\ rdPc' = [rdPc EXCEPT ![r] = "idle"] /\ rdKeys' = [rdKeys EXCEPT ![r] = {}]
    /\ UNCHANGED <<fid, f2i, i2f, rtf, ckpt, committed, cpt, pollVars, chan,
                   appVars, callVars, rdKey, rdView, rdAcc, crashes, ffails, rfails, cacheVars>>

\* FileByInode(n) on an LRU miss: FileIdForInode (i2f:) and FileById
\* (fid:); a missing file is an error and nothing is cached.  An LRU hit
\* returns the cached *File and changes nothing.
FbiRead(r, n) ==
    /\ "file" \in ReaderOps /\ rdPc[r] = "idle"
    /\ n \in DOMAIN i2f /\ n \notin DOMAIN lru /\ fid[i2f[n]] # None
    /\ rdView' = [rdView EXCEPT ![r] = [file |-> i2f[n], inode |-> n, snap |-> fid[i2f[n]]]]
    /\ rdPc' = [rdPc EXCEPT ![r] = "fread"]
    /\ UNCHANGED <<storeVars, cpt, pollVars, chan, appVars, callVars, rdKey, rdKeys,
                   rdAcc, cacheVars, crashes, wfails, ffails, rfails>>

\* file.Inode, err = d.InodeForFileId(fileId).
FbiCall(r) ==
    /\ rdPc[r] = "fread"
    /\ StartCall(r, rdView[r].file)
    /\ rdPc' = [rdPc EXCEPT ![r] = "fcall"]
    /\ UNCHANGED <<storeVars, cpt, pollVars, chan, appVars, rdKey, rdKeys, rdView,
                   rdAcc, cacheVars, crashes, wfails, ffails, rfails>>

\* InodeForFileId returned: on an error FileByInode returns it; otherwise
\* (after ChildFileIds and the children's inodes) d.lruCache.Add(n, &file)
\* with file.Inode the inode just returned.
FbiFill(r) ==
    /\ rdPc[r] = "fcall" /\ call[r].phase = "done"
    /\ lru' = IF call[r].ok
              THEN (rdView[r].inode :> [rdView[r] EXCEPT !.inode = call[r].inode]) @@ lru
              ELSE lru
    /\ call' = [call EXCEPT ![r] = IdleCall] /\ rdPc' = [rdPc EXCEPT ![r] = "idle"]
    /\ rdView' = [rdView EXCEPT ![r] = NoView]
    /\ UNCHANGED <<storeVars, cpt, pollVars, chan, appVars, flight, rdKey, rdKeys, rdAcc,
                   rootCache, crashes, wfails, ffails, rfails>>

\* RootInodes on a miss of "rootInodes": RootFileIds iterates a snapshot
\* of the rtf: keys.
RootList(r) ==
    /\ "roots" \in ReaderOps /\ rdPc[r] = "idle" /\ rootCache = None
    /\ rdKeys' = [rdKeys EXCEPT ![r] = {<<Root, x>> : x \in rtf}]
    /\ rdAcc' = [rdAcc EXCEPT ![r] = {}] /\ rdPc' = [rdPc EXCEPT ![r] = "roots"]
    /\ UNCHANGED <<storeVars, cpt, pollVars, chan, appVars, callVars, rdKey, rdView,
                   cacheVars, crashes, wfails, ffails, rfails>>

\* InodeForFileId of the next listed id ...
RootCall(r) ==
    /\ rdPc[r] = "roots"
    /\ \E k \in rdKeys[r] : /\ rdKeys' = [rdKeys EXCEPT ![r] = @ \ {k}]
                            /\ StartCall(r, k[2])
    /\ rdPc' = [rdPc EXCEPT ![r] = "rootcall"]
    /\ UNCHANGED <<storeVars, cpt, pollVars, chan, appVars, rdKey, rdView, rdAcc,
                   cacheVars, crashes, wfails, ffails, rfails>>

\* ... whose inode is kept unless the call failed.
RootReturn(r) ==
    /\ rdPc[r] = "rootcall" /\ call[r].phase = "done"
    /\ rdAcc' = [rdAcc EXCEPT ![r] = IF call[r].ok THEN @ \cup {call[r].inode} ELSE @]
    /\ call' = [call EXCEPT ![r] = IdleCall] /\ rdPc' = [rdPc EXCEPT ![r] = "roots"]
    /\ UNCHANGED <<storeVars, cpt, pollVars, chan, appVars, flight, rdKey, rdKeys, rdView,
                   cacheVars, crashes, wfails, ffails, rfails>>

\* d.lruCache.Add("rootInodes", ids) once every id is done.
RootFill(r) ==
    /\ rdPc[r] = "roots" /\ rdKeys[r] = {}
    /\ rootCache' = rdAcc[r]
    /\ rdPc' = [rdPc EXCEPT ![r] = "idle"] /\ rdAcc' = [rdAcc EXCEPT ![r] = {}]
    /\ UNCHANGED <<storeVars, cpt, pollVars, chan, appVars, callVars, rdKey, rdKeys, rdView,
                   lru, crashes, wfails, ffails, rfails>>

\* FlushCachedInode(n): d.lruCache.Remove(n).
FlushCachedInode(r, n) ==
    /\ "flush" \in ReaderOps /\ rdPc[r] = "idle" /\ n \in DOMAIN lru
    /\ lru' = LruRemove(n)
    /\ UNCHANGED <<storeVars, cpt, pollVars, chan, appVars, callVars, rdVars,
                   rootCache, crashes, wfails, ffails, rfails>>

\* The remote still has file x: the last change of x in the remote log is
\* not a delete.
RemoteLive(x) ==
    LET is == {i \in 1..remoteLen : History[i].file = x}
    IN is # {} /\ ~History[Max(is)].del

\* Refresh(fileId): Files.Get(fileId) (an error, returned, for a file the
\* remote no longer has), then UpdateFile(nil, f), whose first step is
\* InodeForFileId.
RefreshCall(r, x) ==
    /\ "refresh" \in ReaderOps /\ rdPc[r] = "idle" /\ RemoteLive(x)
    /\ StartCall(r, x)
    /\ rdPc' = [rdPc EXCEPT ![r] = "rcall"] /\ rdKey' = [rdKey EXCEPT ![r] = x]
    /\ UNCHANGED <<storeVars, cpt, pollVars, chan, appVars, rdKeys, rdView, rdAcc,
                   cacheVars, crashes, wfails, ffails, rfails>>

\* UpdateFile(nil, f) after InodeForFileId: on an error it returns; else
\* it removes the inode's LRU entry and stages the fid:, rtf: and kid:
\* puts in its own batch b, but d.db.Write(batch, nil) writes the nil
\* batch, which writes nothing.
RefreshDone(r) ==
    /\ rdPc[r] = "rcall" /\ call[r].phase = "done"
    /\ lru' = IF call[r].ok THEN LruRemove(call[r].inode) ELSE lru
    /\ call' = [call EXCEPT ![r] = IdleCall]
    /\ rdPc' = [rdPc EXCEPT ![r] = "idle"] /\ rdKey' = [rdKey EXCEPT ![r] = None]
    /\ UNCHANGED <<storeVars, cpt, pollVars, chan, appVars, flight, rdKeys, rdView, rdAcc,
                   rootCache, crashes, wfails, ffails, rfails>>

\* WaitUntilSynced: d.synced.L.Lock(); d.synced.Wait(), which blocks until
\* the next Broadcast whatever the state of the sync.
WaitStart(r) ==
    /\ "wait" \in ReaderOps /\ rdPc[r] = "idle"
    /\ rdPc' = [rdPc EXCEPT ![r] = "waiting"]
    /\ UNCHANGED <<storeVars, cpt, pollVars, chan, appVars, callVars, rdKey, rdKeys,
                   rdView, rdAcc, cacheVars, crashes, wfails, ffails, rfails>>

(***************************************************************************)
(* The process dies and NewDriveDB reopens the store: d.get reads d.cpt   *)
(* from int:checkpoint; when that read fails (the key lost or corrupt,     *)
(* as after leveldb.RecoverFile) d.cpt stays zero but for LastInode =      *)
(* 1000.  writeCheckpoint(nil) writes d.cpt back.  Every goroutine starts  *)
(* afresh.  (A failure of that write ends NewDriveDB; it is not modelled.) *)
(***************************************************************************)
\* Mutant of Restart: a failed read leaves d.cpt zero, LastInode included.
RestartNoFloor ==
    /\ crashes < MaxCrashes
    /\ crashes' = crashes + 1
    /\ \/ /\ cpt' = ckpt /\ UNCHANGED rfails
       \/ /\ rfails < MaxReadFailures /\ rfails' = rfails + 1
          /\ cpt' = [lastChangeId |-> 0, lastInode |-> 0]
    /\ ckpt' = cpt'
    /\ pollPc' = "idle" /\ pollNext' = 0 /\ chan' = <<>>
    /\ appPc' = "idle" /\ appDels' = {} /\ appStaged' = FALSE
    /\ call' = [a \in Actors |-> IdleCall] /\ flight' = [x \in FileIds |-> NoActor]
    /\ rdPc' = [r \in Readers |-> "idle"] /\ rdKey' = [r \in Readers |-> None]
    /\ rdKeys' = [r \in Readers |-> {}] /\ rdView' = [r \in Readers |-> NoView]
    /\ rdAcc' = [r \in Readers |-> {}] /\ lru' = [n \in {} |-> NoView] /\ rootCache' = None
    /\ UNCHANGED <<fid, f2i, i2f, rtf, kid, committed, remoteLen, polls, appPage, appCur,
                   appCpt, wfails, ffails>>

Restart ==
    /\ crashes < MaxCrashes
    /\ crashes' = crashes + 1
    /\ \/ /\ cpt' = ckpt /\ UNCHANGED rfails
       \/ /\ rfails < MaxReadFailures /\ rfails' = rfails + 1
          /\ cpt' = FreshCheckPoint
    /\ ckpt' = cpt'
    /\ pollPc' = "idle" /\ pollNext' = 0 /\ chan' = <<>>
    /\ appPc' = "idle" /\ appDels' = {} /\ appStaged' = FALSE
    /\ call' = [a \in Actors |-> IdleCall] /\ flight' = [x \in FileIds |-> NoActor]
    /\ rdPc' = [r \in Readers |-> "idle"] /\ rdKey' = [r \in Readers |-> None]
    /\ rdKeys' = [r \in Readers |-> {}] /\ rdView' = [r \in Readers |-> NoView]
    /\ rdAcc' = [r \in Readers |-> {}] /\ lru' = [n \in {} |-> NoView] /\ rootCache' = None
    /\ UNCHANGED <<fid, f2i, i2f, rtf, kid, committed, remoteLen, polls, appPage, appCur,
                   appCpt, wfails, ffails>>

\* The model stops polling after MaxPolls cycles; once everything started
\* has finished, the ticker keeps firing to no effect.
PollBudgetSpent ==
    /\ polls = MaxPolls /\ pollPc = "idle" /\ chan = <<>> /\ appPc = "idle"
    /\ \A a \in Actors : call[a].phase = "none"
    /\ \A r \in Readers : rdPc[r] \in {"idle", "waiting"}
    /\ UNCHANGED vars

Next ==
    \/ RemoteChange \/ PollStart \/ PollNext
    \/ AppTake \/ AppAllocDone \/ AppUpdate \/ AppRemove \/ AppRealloc \/ AppCommit
    \/ \E a \in Actors : Alloc(a) \/ AllocCommit(a)
    \/ \E r \in Readers : \/ \E x \in FileIds : ReaderList(r, x)
                          \/ ReaderCall(r) \/ ReaderReturn(r)
                          \/ \E p \in FileIds : ChildIter(r, p)
                          \/ ChildHas(r) \/ ChildGC(r)
                          \/ \E n \in DOMAIN i2f : FbiRead(r, n)
                          \/ FbiCall(r) \/ FbiFill(r)
                          \/ RootList(r) \/ RootCall(r) \/ RootReturn(r) \/ RootFill(r)
                          \/ \E n \in DOMAIN lru : FlushCachedInode(r, n)
                          \/ WaitStart(r)
                          \/ \E x \in FileIds : RefreshCall(r, x)
                          \/ RefreshDone(r)
    \/ Restart
    \/ PollBudgetSpent

\* The goroutines are scheduled fairly and the ticker keeps firing; readers
\* need not call anything, but a call once made runs to its end.
Fairness ==
    /\ WF_vars(RemoteChange) /\ WF_vars(PollStart) /\ WF_vars(PollNext)
    /\ WF_vars(AppTake) /\ WF_vars(AppAllocDone) /\ WF_vars(AppUpdate)
    /\ WF_vars(AppRemove) /\ WF_vars(AppRealloc) /\ WF_vars(AppCommit)
    /\ \A a \in Actors : WF_vars(Alloc(a)) /\ WF_vars(AllocCommit(a))
    /\ \A r \in Readers : /\ WF_vars(ReaderCall(r)) /\ WF_vars(ReaderReturn(r))
                          /\ WF_vars(ChildHas(r)) /\ WF_vars(ChildGC(r))
                          /\ WF_vars(FbiCall(r)) /\ WF_vars(FbiFill(r))
                          /\ WF_vars(RootCall(r))
                          /\ WF_vars(RootReturn(r)) /\ WF_vars(RootFill(r))
                          /\ WF_vars(RefreshDone(r))

Spec == Init /\ [][Next]_vars
FairSpec == Spec /\ Fairness

(***************************************************************************)
(* The files the remote log describes once its changes 1..n are applied   *)
(* in order (a deleting change removes the file).                          *)
(***************************************************************************)
ApplyChange(files, i) ==
    [files EXCEPT ![History[i].file] =
        IF History[i].del THEN None ELSE [parent |-> History[i].parent, ver |-> i]]

ExpectedFiles == FoldLeftDomain(ApplyChange, [x \in FileIds |-> None], History)

(***************************************************************************)
(* The LevelDB mappings seen as InodeForFileId's contract (InodeMap): the  *)
(* i2f: keys are the inodes handed out, the f2i: keys the current ones.    *)
(* InodeSpan bounds the inodes the contract may hand out; it is more than  *)
(* any configuration allocates, and one beyond it fails the refinement.    *)
(***************************************************************************)
InodeSpan == InodeFloor + 1 .. InodeFloor + 12

Contract == INSTANCE InodeMap WITH owner <- i2f, cur <- f2i, Inodes <- InodeSpan

-----------------------------------------------------------------------------
(* Properties *)

\* InodeForFileId hands every file id without an inode a fresh inode and
\* never takes one back: the f2i:/i2f: keys written by the allocations of
\* the applier, RemoveFileById's re-lookup and foreground callers, and
\* deleted by RemoveFileById and processChange's batch, are a behaviour of
\* InodeMap.  This implies that f2i: and i2f: agree (spec I1) and that an
\* inode is never handed to a second file (I2).
ImplementsInodeMap == Contract!Spec

\* WaitUntilSynced ("blocks until we are synced with Drive") returns only
\* when every change up to the LargestChangeId of the page whose
\* processChange broadcast has had its batch committed.
WokenWhenSynced ==
    [][\A r \in Readers :
         rdPc[r] = "waiting" /\ rdPc'[r] = "idle" /\ crashes' = crashes
            => \A i \in 1..appPage'.largest : i \in committed']_vars

\* I2: an inode, once written under i2f:, is never written for another
\* file (nextInode hands out each number once, across restarts too).
InodeNeverReassigned ==
    [][\A n \in DOMAIN i2f : n \in DOMAIN i2f' /\ i2f'[n] = i2f[n]]_vars

\* I3: every change up to the persisted checkpoint's LastChangeID has had
\* its processChange batch committed, so a restart resuming after it
\* skips nothing.
CheckpointCoversCommitted ==
    \A i \in 1..ckpt.lastChangeId : i \in committed

\* P2: the LastChangeID persisted in int:checkpoint never decreases.
CheckpointMonotone ==
    [][ckpt'.lastChangeId >= ckpt.lastChangeId]_vars

\* Section 7: when processChange has returned, d.cpt.LastChangeID (where
\* the next readChanges starts) does not lie past a change whose batch
\* failed to commit.
NoSkippedChange ==
    appPc = "idle" => \A i \in 1..cpt.lastChangeId : i \in committed

\* P6/I4: every stored file is reachable from the index of its parent ref:
\* rtf:id for a root file, kid:parent:id otherwise (ChildFileIds and
\* RootFileIds list files only through these keys).
ParentRefsIndexed ==
    \A x \in FileIds :
        fid[x] # None =>
            IF fid[x].parent = Root THEN x \in rtf ELSE <<fid[x].parent, x>> \in kid

\* Eventual convergence: once the remote log is complete and polled, the
\* stored files settle on what the log describes.
Convergence == <>[](fid = ExpectedFiles)

\* 4.5: processChange invalidates the LRU entry of every file it changes,
\* so once it is idle every cached File (FileByInode's answer) shows the
\* file as stored: FileByInode never serves a deleted or outdated file.
CachedViewFresh ==
    appPc = "idle" =>
        \A n \in DOMAIN lru : fid[lru[n].file] = lru[n].snap

\* RemoveFileById ("remove from the cache", line 470) and processChange
\* ("Wipe the lru cache for this file"): when RemoveFileById has finished,
\* no cached File of the removed file is left in the LRU.
DeleteEvictsFile ==
    [][appPc = "realloc" /\ appPc' = "commit" =>
         \A n \in DOMAIN lru' : lru'[n].file # History[appCur].file]_vars
=============================================================================
