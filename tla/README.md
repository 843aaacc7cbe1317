# TLA+ models of fuse_gdrive's drive database and OAuth client

This directory holds TLA+ models of the metadata database behind the
fuse_gdrive file system, `src/unnamed/part_001` (the `drive_db` package), and
of its earlier single-goroutine version `src/unnamed/part_000`, and of the
OAuth token handling in `src/oauth.go`. It also holds the
configurations that check the models with TLC. The database
mirrors a Google Drive account into LevelDB, hands out inode numbers for file
ids, and keeps itself current by polling the Drive changes feed. The FUSE layer
queries it concurrently with that sync.

## The system

`DriveDB` (part_001) has these parts, which share one LevelDB handle and one
`CheckPoint` guarded by `d.Mutex`:

| Part | Code | State it changes |
|---|---|---|
| Key schema / store | `fileKey`, `fileIdToInodeKey`, `inodeToFileIdKey`, `rootKey`, `childKey`, `internalKey` | `fid:<id>` file record, `f2i:<id>` and `i2f:<inode>` mappings, `rtf:<id>` root index, `kid:<parent>:<child>` child index, `int:checkpoint` |
| Checkpoint and inode allocator | `nextInode`, `writeCheckpoint`, `setLastChangeId`, `lastChangeId`, `InodeForFileId` (singleflight) / `inodeForFileIdImpl` | `d.cpt` = {LastChangeID, LastInode}; `f2i:`, `i2f:`, `int:checkpoint` |
| Poller goroutine | `pollForChanges`, `readChanges` | sends pages of changes into `d.changes` (capacity 200) |
| Applier goroutine | `sync`, `processChange`, `UpdateFile`, `RemoveFileById` | `fid:`, `rtf:`, `kid:`, `f2i:`/`i2f:`, checkpoint, LRU, `synced` broadcast |
| Query surface (FUSE callers) | `FileByInode`, `FileById`, `RootInodes`, `ChildFileIds`, `AllFileIds`, `RootFileIds`, `FileIdForInode` | `ChildFileIds` deletes stale `kid:` keys; lookups allocate inodes through `InodeForFileId`; caches fill the LRU |
| LRU cache | `lruCache`, `FlushCachedInode`, `"rootInodes"` entry | cached `FileView`s and the root inode list |
| Refresh / download URLs | `Refresh`, `FreshDownloadUrl` | rewrites one file; caches a download URL on a shared `*File` |
| Lifecycle | `NewDriveDB`, `WaitUntilSynced`, `Close` | restores the checkpoint, starts the goroutines, closes the db |

`src/unnamed/part_000` is an earlier single-goroutine version of the same
database. Its `sync` goroutine is the only writer. It applies each page of
changes as one batch and keeps an in-memory inode -> `File` map, `d.files`,
which `RebuildCache` rebuilds from the store once the sync has caught up. `src/oauth.go` obtains the OAuth token
the Drive client uses: it reads a cached token file or runs the browser
consent flow, saves the token, and keeps refreshing its access token. It
shares no state with the database.

How the parts interact. The poller reads the in-memory `LastChangeID` and fetches
pages starting after it. The applier takes pages off the channel. For each
change it:

1. calls `InodeForFileId`;
2. calls `UpdateFile` or `RemoveFileById`, which stage puts and deletes into a
   batch (`RemoveFileById` writes its own deletes first and then calls
   `InodeForFileId` again);
3. calls `setLastChangeId` and copies `d.cpt` into the batch;
4. writes the batch.

Foreground callers run `InodeForFileId` at the same time. When that allocates, it
writes its own copy of `d.cpt`. That is how the two goroutines and the callers
share the checkpoint.

## Modules

### `DriveDB.tla`: the store, allocator, poller, applier and readers

The state, in the code's terms:

- `fid`, `f2i`, `i2f`, `rtf`, `kid`, `ckpt` are the LevelDB contents:
  - `fid[x]` is a file snapshot `[parent, ver]` or `None`;
  - `i2f` is a function whose domain grows as inodes are allocated;
  - `kid` is a set of `<<parent, child>>` pairs;
  - `ckpt` is the persisted `int:checkpoint`.
- `cpt` is `d.cpt`, the in-memory checkpoint.
- `remoteLen` is the length of the remote change log. The log is the constant
  `History`, a sequence of `[file, del, parent]`; a change's Id is its index.
- `pollPc`, `pollNext`, `polls` and `chan` are the poller goroutine and
  `d.changes`. A page is `[first, last, largest]`.
- `appPc`, `appPage`, `appCur`, `appDels`, `appStaged` and `appCpt` are the
  applier goroutine's position inside `processChange`. This includes the batch
  it has staged and the checkpoint copy inside it.
- `call` and `flight` hold one `InodeForFileId` call per actor (the applier and
  each reader), and the singleflight group's in-flight keys.
- `rdPc`, `rdKey`, `rdKeys`, `rdView` and `rdAcc` are the reader goroutines'
  positions in `RootInodes` (list, then call `InodeForFileId`), in
  `ChildFileIds` (iterator snapshot, `Has` checks, garbage-collecting write)
  and in `FileByInode` (the file read, then its `InodeForFileId`).
- `lru` is `d.lruCache`'s inode entries: inode -> the `File` view cached
  under it (`[file, inode, snap]`: the id, the `Inode` field and the file
  snapshot it was built from). `rootCache` is the `"rootInodes"` entry (a set
  of inodes, or `None` when absent).
- `crashes`, `wfails` and `ffails` count the injected faults. `committed` is a
  history variable: the change Ids whose batch was written.

Each action is one atomic section of the code:

- **`InodeForFileId`**: `StartCall` / `StartCallWith` either joins a flight,
  returns an existing `f2i:`, or starts a flight. `Alloc` is `nextInode` together
  with `writeCheckpoint`'s copy of `d.cpt`. `AllocCommit` is the `db.Write` of
  the mappings and the checkpoint, and may fail.
- **Poller**: `PollStart` is a ticker cycle starting at `lastChangeId()+1`;
  `PollNext` follows a page token; `FetchFrom` is `Changes.List`, which can fail,
  and the blocking send.
- **Applier**:
  - `AppTake` receives a page. On an empty page `processChange` only
    broadcasts (when synced) and returns.
  - `AppAllocDone` is the end of processChange's first `InodeForFileId`.
  - `AppUpdate` is `UpdateFile`.
  - `AppRemove` is `RemoveFileById`'s own write.
  - `AppRealloc` is its second `InodeForFileId`.
  - `AppCommit` is the batch write.
  - `SetCheckpoint` is `setLastChangeId` plus the `writeCheckpoint(batch)` copy.
- **Readers**: `ReaderList`, `ReaderCall`, `ReaderReturn`, `ChildIter`, `ChildHas`
  and `ChildGC`. `FbiRead`, `FbiCall` and `FbiFill` are `FileByInode` on a
  cache miss: `FileIdForInode` and `FileById`, then `InodeForFileId`, then
  `lruCache.Add`. `RootList`, `RootCall`, `RootReturn` and `RootFill` are
  `RootInodes` on a miss of `"rootInodes"`. `FlushCachedInode` removes an
  entry. `RefreshCall` and `RefreshDone` are `Refresh`: `Files.Get`, which
  fails for a file the remote no longer has (`RemoteLive`), then
  `UpdateFile(nil, f)`. That calls `InodeForFileId` and removes the LRU
  entry, but writes the nil batch, so nothing else is stored. `WaitStart` is
  `WaitUntilSynced` entering `d.synced.Wait()`.
- **Broadcast**: `processChange` wakes every waiter (`Broadcast`) at the end
  of a page, and on an empty page, when `d.lastChangeId()` has reached the
  page's `LargestChangeId`.
- **Cache invalidation** is part of the applier's actions, as in the code:
  `AppUpdate` removes the entry of the inode `UpdateFile` looked up,
  `AppRealloc` removes the entry of the inode `RemoveFileById` looked up
  after its write, and the end of a non-empty page (`AppCommit` on its last
  item) removes `"rootInodes"`. An empty page returns before that removal. `processChange`'s own
  removal is guarded by `err != nil && inode > 0`, which never holds, so
  `AppAllocDone` removes nothing.
- **Crash**: `Restart` is a process crash followed by `NewDriveDB`. Volatile
  state is lost and `d.cpt` is read back from `int:checkpoint`. When that
  read fails (part_001:113-117), `d.cpt` starts again at `LastChangeID` 0
  and `LastInode` 1000. This happens when `leveldb.RecoverFile` (91-93) has
  lost the key or its value is corrupt, and at most `MaxReadFailures` times.
  Either way `writeCheckpoint(nil)` writes `d.cpt` back.
- **Allocation**: `Alloc` is `nextInode`'s increment and `writeCheckpoint`'s
  copy in one step. The code takes `d.Mutex` twice, and a `setLastChangeId`
  between the two sections is copied in. The model gives the same copy when
  that `setLastChangeId` comes just after the step.
- **Remote**: `RemoteChange` appends the next entry of `History` to the remote
  log.

`ExpectedFiles` folds `History` with `ApplyChange`. It is the file table the log
describes.

### `InodeMap.tla`: what `InodeForFileId` promises

An abstract specification with two variables:

- `owner` maps each inode handed out to its file id;
- `cur` maps each file id to its current inode, or `None`.

It has two actions:

- `Assign(x, n)`: an id without an inode gets an inode never handed out.
- `Forget(x)`: an id's mapping is deleted, but its inode stays taken.

`DriveDB` instantiates it as `Contract == INSTANCE InodeMap WITH owner <- i2f,
cur <- f2i, Inodes <- InodeSpan`. `ImplementsInodeMap == Contract!Spec` is
checked as a property:

- Every step of the detailed model is an `Assign`, a `Forget` or a stutter
  of the abstract one.
- `AllocCommit` is an `Assign`.
- `RemoveFileById`'s delete of `f2i:` is a `Forget`.
- Everything else stutters.

`InodeSpan` gives twelve inodes above `InodeFloor`. That is more than any
run allocates, and an allocation beyond it would fail the refinement rather
than pass unseen.

### `OAuth.tla`: `src/oauth.go`

A token is the number of the exchange that issued it. The cache file holds a
token, `NoFile`, or `Truncated` (created by `os.Create` but not yet
encoded). The state:

- `pc` is the main goroutine in `getOAuthClient`:
  - `start`, before `tokenFromFile`;
  - `wait`, on `code := <-ch`;
  - `exchange`;
  - `save` and `encode`, the two steps of `saveToken`;
  - `running`, the client returned;
  - `exited`, after `log.Fatalf`.
- `handler` says whether the `/auth` handler is registered. `senders` counts
  the handler goroutines blocked on the unbuffered `ch <- code`.
- `fresh` says whether the access token has not expired. `kicker` is the
  `tokenKicker` goroutine.
- `issued` and `revoked` are the server's view of the tokens.
- `opener` is the `openUrl` goroutine: the entry of its try list it runs
  next, or 0.
- `tabs` holds the randStates of the consent pages open in the browser. Each
  process run has its own randState (`time.Now().UnixNano()`), named by the
  run's number `crashes`. The pages stay open across restarts.

The actions:

- `ReadCache` is `tokenFromFile` and the branch on its error. It either
  returns a client, or registers `/auth`, starts `openUrl` and waits.
- `OpenTry` runs one binary of `openUrl`'s try list. On success it opens this
  run's consent page. After the third failure it logs and returns.
- `UserOpen` is the user opening the URL that `tokenFromWeb` logged.
- `GoodCallback` is a redirect from a page of this run. It blocks on
  `ch <- code`. `BadCallback` is a redirect from a page of an earlier run,
  whose state does not match, or one without a code. It gets a 500.
- `Receive` is the channel receive.
- `Exchange` is `t.Exchange`, or its failure and `log.Fatalf`.
- `SaveCreate` and `SaveEncode` are `saveToken`. Either step may fail with
  only a warning.
- `Kick` is one `tokenKicker` iteration.
- `Expire`, `Revoke` and `Crash` (a crash and restart that keeps the file)
  come from the environment.
- `Terminated` is the program ended for good.

### `LegacySync.tla`: `src/unnamed/part_000`

The data abstraction is the one `DriveDB` uses. The variables are:

- the store: `fid`, `f2i`, `i2f`, `rtf`, `kid` and `ckpt`, which is `None`
  before any checkpoint is written;
- `sync`'s locals: `pc`, its `cpt`, and `next`, the first change id the
  listing `l` will return;
- `d.files`: inode -> `[file, snap, children]`;
- the `WaitUntilSynced` callers blocked in `Wait`.

Only `sync` writes the store, and `RebuildCache` runs on the same goroutine.
So a whole page is one step, and so is a whole rebuild.

- `ApplyItem` folds one change into the batch (`FoldLeft` over the page's
  ids). `d.db.Has(f2i:)` and `d.FileById` read the store as it was before the
  page, never the batch, as in the code. A delete removes `fid:`, `f2i:`,
  `rtf:`, the file's own `kid:` keys and its parent's ref, which is read from
  the stored `fid:`. An update puts `fid:`. Only when the store has no `f2i:`
  does it allocate `LastInode + 1` and put `f2i:`, `i2f:` and the parent ref.
- `ReadCheckpoint` is the start of `sync`. On any read error (a fresh store,
  or `MaxReadFailures` failures of an existing checkpoint) it starts from
  `LastInode = 1` and change 1.
- `FetchFail` is a failed `l.Do()`.
- `Synced` is the caught-up or empty listing: `RebuildCache`, then
  `Broadcast`.
- `ProcessPage` is a page of at most `PageSize` changes. It writes the batch
  with the checkpoint, or fails the write and keeps the advanced local `cpt`.
  After the last page it rebuilds and broadcasts.
- `RebuildAndBroadcast` models `RebuildCache`: `AllFileIds`, `FileById`,
  `InodeByFileId`, and `ChildFileIds` with its deletion of `kid:` keys of
  missing files. It fails, leaving `d.files` as it was, when a listed file has
  no `f2i:`.
- `Wait` and `Crash` (followed by `NewDriveDB`) complete it.
- `MC_LegacySync.tla` defines the histories `LegacyCreateTrash` and
  `LegacyTrashRestore`, which are the same as `HistCreateTrash` and
  `HistTrashRestore` below.

### `MC_DriveDB.tla`

`MC_DriveDB.tla` fixes the file ids as model values and defines the remote
histories the runs use:

| History | Changes |
|---|---|
| `HistCreateTrash` | fa at root; fb in fa; fb deleted |
| `HistTrashRestore` | `HistCreateTrash`, then fb restored into fa |
| `HistMove` | fa and fb at root; fb moved into fa |
| `HistDeleteThenCreate` | fa created then deleted; fb at root |
| `HistDeleteThenCreateTwo` | `HistDeleteThenCreate`, then fc at root |

## Properties

| Module | Property | Kind | Statement |
|---|---|---|---|
| all | `TypeOK` | type | every variable has its type; in DriveDB every inode handed out lies above the 1000 reserved for special inodes |
| DriveDB | `ImplementsInodeMap` | refinement | the `f2i:`/`i2f:` keys are a behaviour of `InodeMap`: an id without an inode gets a fresh one, and an inode is never handed to a second id. This implies that every `f2i:` entry has the matching `i2f:` entry |
| DriveDB | `InodeNeverReassigned` | action | an `i2f:` entry once written never changes |
| DriveDB | `CheckpointCoversCommitted` | invariant | every change up to the persisted `LastChangeID` has had its batch written |
| DriveDB | `CheckpointMonotone` | action | the persisted `LastChangeID` never decreases |
| DriveDB | `NoSkippedChange` | invariant | when the applier is idle, every change up to the in-memory `LastChangeID` has been written, so the next poll skips nothing |
| DriveDB | `ParentRefsIndexed` | invariant | every stored file is listed in `rtf:` or under its parent in `kid:` |
| DriveDB | `Convergence` | liveness | the stored files eventually equal, and stay equal to, the remote log's result |
| DriveDB | `WokenWhenSynced` | action | a `WaitUntilSynced` caller is woken only when every change up to the broadcasting page's `LargestChangeId` is committed |
| DriveDB | `CachedViewFresh` | invariant | when the applier is idle, every cached `File` shows the file as stored (spec 4.5) |
| DriveDB | `DeleteEvictsFile` | action | when `RemoveFileById` finishes, no cached `File` of the removed file is left |
| LegacySync | `InodesAgree` | invariant | every `f2i:` entry has the matching `i2f:` entry, so no inode names two files |
| LegacySync | `CacheConverges` | liveness | in a run without a failed write, `d.files` eventually equals, and stays equal to, the remote's live files with their snapshots and children |
| LegacySync | `WaitersWoken` | liveness | every `WaitUntilSynced` caller is eventually woken |
| LegacySync | `FilesHaveInodes` | invariant | every file in the store has an `f2i:` key, which `RebuildCache` needs |
| OAuth | `ClientTokenIssued` | invariant | the client `getOAuthClient` returns holds a token the server issued, never the zero token of a truncated file |
| OAuth | `EventuallyClient` | liveness | the program eventually holds a client for good, or `log.Fatalf` ended it |
| OAuth | `HandlersReturn` | liveness | every `/auth` handler goroutine blocked on the channel eventually returns |

## Runs

| Run | Expect | What it shows |
|---|---|---|
| `sync_safety` | pass | The inode mappings implement `InodeMap`. The run has two readers calling `ChildFileIds` and `Refresh` (which allocates), one write failure and one fetch failure. No crash, so the inode reuse after a restart (`inode_reuse`, Observations) is out of its reach. |
| `crash_recovery` | pass | A crash, a restart whose checkpoint read may fail, and a failed fetch never persist a checkpoint past an unwritten change, and every inode handed out stays above 1000. Only the applier allocates, and writes do not fail, so the `checkpoint_ahead` race is out of its reach. |
| `convergence` | pass | The stored files converge under fairness, despite duplicate pages from overlapping poll cycles. A reader runs every query and `FlushCachedInode` at the same time. A `WaitUntilSynced` caller is woken only once the changes it waited for are committed. |
| `oauth` | pass | Crashes at any step never leave the program with a token that was not issued. The program eventually has a client or has exited. |
| `checkpoint_ahead` | violation | A foreground allocation persists a `LastChangeID` whose batch has not been written yet. |
| `skipped_change` | violation | A failed batch leaves `d.cpt.LastChangeID` advanced, and the next poll starts after the lost change. |
| `inode_reuse` | violation | A stale checkpoint copy in processChange's batch lowers the persisted `LastInode`. After a crash an inode is handed to a second file. |
| `child_gc_race` | violation | `ChildFileIds` deletes the `kid:` key of a child restored between its `Has` and its write. |
| `cache_deleted` | violation | `RemoveFileById` looks up the deleted file's inode after its write has deleted `f2i:`. It gets a fresh inode and removes that one from the LRU, so the deleted file stays cached. |
| `legacy` | pass | The legacy sync never gives one inode to two files. Its `d.files` settles on the remote, and every waiter is woken. The run has a remote that grows during the run (pages `[2,3]` include a create and a trash of one file), a crash, a failed fetch and a failed write. |
| `legacy_frozen_cache` | violation | A file trashed and restored in one page keeps `fid:` but loses `f2i:`. `RebuildCache` then fails on every call, and `d.files` is never updated again. |
| `oauth_handler_leak` | violation | A second valid `/auth` request blocks its handler goroutine forever on the unbuffered channel. |

The findings in `PROJECT.json` describe each violation and the line it comes from.

### Observations without a run of their own

TLC also finds the following disagreements in the same models. No run of
their own is kept for them:

- **Checkpoint regression**: a poll cycle started while earlier pages are
  still queued re-fetches them (part_001:549). Replaying them moves the
  persisted `LastChangeID` backwards, so `CheckpointMonotone` fails. It needs
  `MaxPolls` 2 and `HistCreateTrash` with all changes present at start.
  `Convergence` shows that the replay does no lasting harm.
- **`FileByInode`** reads a file before a move commits and caches it after
  `UpdateFile`'s removal (part_001:397 and 498). The stale view stays cached
  against spec 4.5, so `CachedViewFresh` fails. It needs ReaderOps
  `{"file"}` and `HistMove`.
- **Moves** (part_001:504): `UpdateFile` writes the ref of the new parent
  but never deletes the old one. `ChildFileIds` of the old parent drops refs
  only to missing files, so a moved file is listed in both folders. The
  invariant "every `kid:` key names a file whose parent is that key's parent"
  fails on `HistMove` with ReaderOps `{"children"}`.
- **`RootInodes`** fills `"rootInodes"` with a list read before a page
  committed, after `processChange` removed the entry (part_001:308 and 623).
  A new root file is then missing from `root_inodes()`, against spec scenario
  5. This is the same interleaving as the previous item, with ReaderOps `{"roots"}`
  and `InitRemoteLen` 0.
- **`FileByInode`** of a file deleted after `FileIdForInode` gets a freshly
  allocated inode from `InodeForFileId` (part_001:379). It caches a `File`
  whose `Inode` is not the inode it is cached under. This comes from the same
  re-allocation as `cache_deleted`.
- **`saveToken`** ignores `--cachetoken` (oauth.go:147), so `CacheToken = FALSE`
  still writes the token file.
- **`WaitUntilSynced`** wakes a caller before every change it waited for is
  committed when a LevelDB write fails. `processChange` logs the failed batch
  and moves on to the next item. The broadcast tests only the in-memory
  `lastChangeId` against the page's largest id (part_001:625). So
  `WokenWhenSynced` fails with `MaxWriteFailures` 1. The convergence run keeps
  it at 0.
- **A failed checkpoint read at restart** (part_001:113-117): `d.cpt`
  starts again at `LastInode` 1000 while `i2f:` keeps the inodes above it.
  The next allocation hands inode 1001 to a second file, so
  `ImplementsInodeMap` fails under `crash_recovery`'s configuration.
  `crash_recovery` checks `TypeOK` and `CheckpointCoversCommitted`, which
  hold.
- **The legacy sync and a failed checkpoint read** (part_000:281): `cpt`
  starts again from `LastInode = 1`. The next new file gets an inode that
  `i2f:` already gives to another file, so `InodesAgree` fails with
  `MaxReadFailures` 1.
- **The legacy sync and a move** (part_000:361): the moved file already has
  `f2i:`, so no `kid:` key is written for its new parent, and the old one
  stays. `CacheConverges` fails on a history where fb moves from the root into
  fa.
- **The legacy sync and a failed write** (part_000:399): a failed write on the
  last page leaves the local `cpt` past the page. The next listing is
  "already synced", so the page is not applied until a newer change arrives.
  `<>[]CacheMatchesRemote` fails with `MaxWriteFailures` 1. That is why
  `CacheConverges` is stated for runs without a failed write.
- **A revoked cached token** is used for ever (oauth.go:145 and 170). Each
  refresh fails and is only logged, and a restart reads the same file again.

### Bounds and why they are enough

DriveDB runs use:

- two or three file ids;
- `PageSize` 2 and `ChanCap` 2, so a poll cycle can produce more than one page
  and the channel can fill;
- `InitRemoteLen` for the part of the log already present, with `RemoteChange`
  appending the rest during the run;
- `MaxPolls` of 1 or 2, to bound the ticker cycles;
- at most one crash, one write failure and one fetch failure;
- one failed checkpoint read at restart, in `crash_recovery` only;
- one or two readers, each running the `ReaderOps` its run names.

Every violation found needs only:

- two poll cycles;
- one foreground caller racing the applier;
- or one fault.

The legacy runs use two files, pages of two changes, and at most one crash,
one failed fetch and one failed write. With `InitRemoteLen` 1 and the remote
growing during the run, the pages of `LegacyCreateTrash` come out as `[1,2] [3]`,
`[1] [2,3]` or `[1] [2] [3]`. So a create and a trash of one file fall in
one page in some behaviours and not in others. `legacy_frozen_cache` needs
only the two pages `[1,2] [3,4]` of `LegacyTrashRestore`.

The OAuth runs use at most two live handler goroutines, two crashes, one
failed exchange and one failed save. Two crashes are enough for a crash
between `os.Create` and `Encode` followed by a restart that reads the
truncated file. Two handlers are enough for a second request to block.

The pass runs together fire every action and every disjunct of `Next`
(`Restart` only in `crash_recovery`). Deadlock checking stays on in every run:

- In DriveDB, `PollBudgetSpent` stutters when the poll budget is spent and all
  goroutines are idle.
- In OAuth, `Terminated` stutters when `log.Fatalf` has ended the program and
  the crash budget is spent.

Any other stop is a real deadlock. The channel capacity of 200 is modelled as 2.
Only whether the channel is full matters to the model: a full channel blocks
the poller. The LRU's capacity of 1000 is not reached with three files.

### Fairness

DriveDB's `FairSpec` assumes weak fairness for:

- the poller and applier steps;
- `RemoteChange`;
- allocation and commit of every `InodeForFileId` call;
- the reader steps that finish a started call, a started `RootInodes` or
  `FileByInode`, or a started `Refresh` (`RefreshDone`).

LegacySync's `FairSpec` assumes weak fairness for the `sync` goroutine's
steps: `ReadCheckpoint`, `Synced` and `ProcessPage`. It loops forever and
blocks only in `time.Sleep`. The remote, faults and callers are not fair, so
`CacheConverges` is about the remote as it stands once it stops changing.

A reader waiting in `WaitUntilSynced` has no step of its own. It is woken
only by the applier's `Broadcast`.

These are goroutines that run whenever they are enabled. `pollForChanges` runs
on a ticker and `sync` blocks only on the channel. Nothing is fair about starting
a new poll cycle beyond `MaxPolls`, about faults, or about readers starting new
calls.

OAuth's `FairSpec` assumes weak fairness for:

- the main goroutine's steps;
- `tokenKicker`, which sleeps for a fixed interval and refreshes;
- one valid `/auth` request while the main goroutine waits with no sender
  blocked, from a consent page of the current run. This is the user
  completing consent;
- `openUrl`'s steps, since it is a goroutine;
- the user opening the logged URL once `openUrl` has returned without a
  consent page of this run open. Without this, the program waits for ever,
  as the code does.

Expiry, revocation, bad requests, extra requests and crashes are not fair.

## Not modelled

- **LRU eviction at capacity**: eviction only drops entries, which the
  properties allow.
- **The `Children` of a cached `File`**: `FileByInode` builds them with
  `ChildFileIds` and an `InodeForFileId` per child before it fills the cache.
  The model keeps the file, its `Inode` and its snapshot.
- **`FreshDownloadUrl`**: its unsynchronised writes of two fields of a shared
  `*File` need the cached objects themselves, not their views.
- **`Close`**: after `d.iters.Wait()` it closes the db and sets it to nil
  while `sync` and `pollForChanges` still run. Every later access would use a
  closed handle, and the model has no state for that.
- **Liveness of `WaitUntilSynced`**: a waiter is woken by the next synced
  page, which comes from a later tick. The model stops ticking after
  `MaxPolls`, so "eventually woken" would fail because of the bound, not the
  code.
- **Files with several parents**: each file has one parent in the model.
- **LevelDB read errors other than a missing key**: `inodeForFileIdImpl`
  allocates on any `d.get` error (226-230), and `ChildFileIds` deletes the
  `kid:` key on a `Has` error as if the child were gone (322-325). The model
  reads the store without errors, except for the read of `int:checkpoint` in
  `NewDriveDB`. `FileByInode`'s child-listing errors are also left out.
- **Key encoding**: string prefixes and JSON are abstracted.
- **`FileById`, `AllFileIds`, `RootFileIds` and `FileIdForInode` as actions**:
  they are read-only.
- **`tokenCacheFile`**: a pure function naming the file. The model has one
  cache file.
- **The legacy `Close`**: it closes the db while `sync` still runs, as in
  part_001.
- **The legacy `FileByInode` and `RootInodes` as actions**: they read
  `d.files` under the mutex and change nothing. `CacheConverges` is stated on
  `d.files` itself.

## What is left

The project keeps its runs to twelve. A further finding takes the place of an
existing run, so the following are recorded rather than run:

- **Moves** in part_001 and part_000 are under Observations.
- **`FreshDownloadUrl`** would need a module of its own. It has a clock and
  the racy write of `cachedDownloadUrl` and its time on a `*File` shared
  through the LRU. Its torn or reordered reads are undefined behaviour under
  the Go memory model.
- **A `RECURSIVE` reference definition of `ExpectedFiles`** would check only
  the model's own helper, not the code, so no run is spent on it.
