# TLA+ models of ben-desktop

ben-desktop is a desktop music application whose libraries are shared between
devices without a server that holds the truth. Each device keeps an operation
log in SQLite, exchanges rows of it with its peers over libp2p, scans local
directories into it and plays from it. This directory holds TLA+ models of the
parts of the program that are concurrent, distributed or both, the TLC
configurations that check them, and TLAPS proofs about all of them but the
checkpoints. All file names below are relative to `src/internal/desktopcore/`
unless they start with another directory.

1. [The system](#1-the-system)
2. [Modules and the code they model](#2-modules-and-the-code-they-model)
3. [Runs](#3-runs)
4. [Where the code does not keep its promises](#4-where-the-code-does-not-keep-its-promises)
5. [Fairness](#5-fairness)
6. [Proofs](#6-proofs)
7. [What is not modelled](#7-what-is-not-modelled)
8. [Plan](#8-plan)

## 1. The system

### 1.1 Inventory

`PROJECT.json` lists every part with its files and says how far it is modelled.
The parts with state and behaviour of their own are these.

| Part | State | Operations | What makes it correct | Module |
|---|---|---|---|---|
| Operation log (`service_oplog.go`, `oplog_apply.go`) | `oplog_entries` keyed by `op_id = device:seq`; `device_clocks`; the tables the log materializes | append a local op; insert a remote op; apply a contiguous run of one device; last writer wins by `(tsns, op_id)` | an op id names one op; a clock never stands for rows that are missing; tables are a function of the rows | `Oplog`, `OplogSync` |
| Catch-up (`service_sync.go`) | one session per peer, in memory | ask with the local clocks; select a round-robin batch; apply row by row; another round while the budget lasts | prefixes grow, nothing is skipped, devices converge and everyone catches up | `OplogSync`, `PrefixReplication` |
| Checkpoints (`service_checkpoint.go`, `service_sync.go`) | one published checkpoint per library, acknowledgements per member | publish, acknowledge, compact, force, install over a local tail, background maintenance | a checkpoint holds what its clocks claim; compaction forgets nothing; clocks never go back | `CheckpointSync` |
| Playlists and likes (`service_playlist.go`) | tables of playlists and items | create, rename, delete, add, move, remove, like, unlike | the local row and the op that is sent agree | `OplogSync` |
| Transport runtime (`service_transport.go`, `active_runtime.go`) | per runtime: catch-up lane, peer-update lane, timers, worker goroutines | attach, stop, tick, change signal, trigger, worker handoff, retries | one worker per lane; no change signal and no announcement is lost; both are eventually served | `CatchupLane`, `PeerUpdateLane` |
| Scan coordinator and watcher (`scan_coordinator.go`, `watcher.go`) | queue of requests, running startup keys, `workerRunning`, `startupScanPending`, collected changes | submit, take a batch, cancel, fail all, flush | every request ends once; the queue is never left without its worker; no change on disk is forgotten | `ScanCoordinator` |
| Ingest and catalog (`service_ingest*.go`, `scan_maintenance.go`, `catalog_rebuild.go`) | scan roots, source file rows, catalog tables, preferences, album pins, the flag of a required repair | full, delta and repair passes; changing roots; ops of other devices; full and scoped rebuilds | what is present is in the catalog and nothing else stays; changes are announced; preferences and pins survive | `Catalog` |
| Availability (`service_playback.go`, `service_transcode.go`, `service_catalog.go`) | none: queries over files, copies, members and pins | look up one recording or many, an album, make playable | one page, a list and the player agree | `Availability` |
| Playback session (`internal/playback/session.go`) | current, loading and next entry, transport transition with a token, preload plan, pending retry with a token, intent epoch, queue and context | play, skip, queue edits, sources, modes, backend events, ticker, catalog rebase, restore | what is shown as playing is what the backend plays; all plans of what comes next agree; stale callbacks change nothing | `PlaybackTransport`, `PlaybackQueue` |
| Playback preparation, cache (`service_playback*.go`, `service_transcode.go`, `service_cache.go`, `service_offline.go`) | asset rows and flags, blob files, offline list, flights, preparation jobs | encode, fetch, prepare, clean up | a flag stands for a file; a source is encoded once; cleanup never removes a pinned blob | `AssetCache` |
| Pins (`service_pin.go`) | pin roots, members, blob references, timers, jobs | pin, unpin, refresh, reconcile | a pinned scope is fetched and stays; an unpinned one holds nothing | `PinScopes` |
| Membership (`membership_*.go`, `service_library.go`, `relayd/main.go`) | members, roles, certificates, chain of admission authorities, revocations, per device; the registry's view | issue, renew, change role, remove, leave, recover, announce, revoke | serials are never reused; members whose standing is good come back; revocations become known | `Membership` |
| Invites (`service_invite.go`, `invite_transport.go`, `service_invite_material.go`) | invites, requests of the owner, attempts of the device | create, request, approve, reject, poll, cancel, install | an invite for one device admits one; cancelled and rejected devices stay out; material can be opened | `InviteJoin` |
| Jobs (`jobs.go`) | snapshots by job id, subscribers | begin, put, track, list | a finished job keeps its outcome | with the parts that start jobs |
| Host, facades, frontend, observability, theme, platform, updaters, inspector | mostly none | forwarding, I/O, rendering | not the subject of these models | |

### 1.2 How the parts interact

* A local edit runs in one SQLite transaction that writes a table row and calls
  `appendLocalOplogTx`. After the commit, `noteLocalLibraryMutation` asks the
  peer-update lane to tell the peers.
* A peer that is told (`handleLibraryChangedSignal`) queues a request on its own
  catch-up lane; the lane's worker runs `syncPeerCatchup`. The same lane is fed
  by a ticker and by the start of the runtime, so that a lost signal is repaired.
* A session asks `buildSyncResponse` of the peer, which records an
  acknowledgement, and returns rows or the id of a checkpoint to install. The
  rows are applied one transaction each, in the order of `sortCheckpointEntries`.
* Admins publish and compact checkpoints by hand or from the background
  maintenance that follows every change.
* The watcher and `syncRuntime` submit scan requests; a scan ends in local edits.
* A scan pass, a change of the scan roots and a catch-up session write source
  files and catalog rows at once, and end in a rebuild that removes what they
  replaced and announces what changed. A rebuild that failed leaves a flag in the
  database that the next repair answers.
* Catalog events reach the pins, which refresh the scopes they touch, and the
  playback session, which rebases a live context.
* Pin jobs and playback preparation fetch encodings from a provider or have the
  transcoder make them; cleanup removes what no pin protects.
* The playback session asks the preparation service for playable URIs and reacts
  to events of the mpv backend, to catalog changes and to its own timers.
* Every conversation between devices carries the certificate of its sender and
  the chain of authorities behind it; the registry (`relayd`) learns revocations
  from the founder and shows them in look-ups.

### 1.3 What is hard here

Two devices and two goroutines of one device interleave at every unlock and at
every statement outside a transaction. The behaviours that a unit test hardly
reaches, and that the `hazards` of `PROJECT.json` locate line by line, fall into
six groups: rows that arrive out of order, twice or not at all; values read
before a transaction and used in it; compaction and installation that replace
history under running sessions; timer callbacks that can no longer be stopped;
a worker that gives up its queue while work arrives; and requests merged with a
scan that has already passed the place where the change is.

## 2. Modules and the code they model

| Module | Models | Extends | Run |
|---|---|---|---|
| `Oplog` | rows, their order, the effect of a run on the tables (`oplog_apply.go`, `models.go`) | | |
| `OplogSync` | devices that edit and catch up (`service_oplog.go`, `service_sync.go`, `service_playlist.go`) | `Oplog` | `oplog` |
| `PrefixReplication` | what the clocks promise, without logs or sessions | | refined in `oplog`, `ckpt_install` |
| `CheckpointSync` | checkpoints, membership and compaction on top (`service_checkpoint.go`, `service_sync.go`) | `OplogSync` | `ckpt_install`, `ckpt_live` |
| `CatchupLane` | the catch-up lane of replaced and stopped runtimes (`service_transport.go`, `active_runtime.go`) | | `catchup_lane` |
| `PeerUpdateLane` | announcements to the peers and their retries (`service_transport.go`) | | `peer_update_lane` |
| `ScanCoordinator` | scan queue, watcher and repairs (`scan_coordinator.go`, `watcher.go`, `service_ingest_scan.go`) | | `scan_queue` |
| `Catalog` | scan passes, scan roots, remote ops, rebuilds, events, preferences and album pins (`service_ingest_scan.go`, `scan_maintenance.go`, `catalog_rebuild.go`, `service_catalog.go`) | | `catalog` |
| `Availability` | what is said to be playable and what is played (`service_playback.go`, `service_transcode.go`, `service_catalog.go`) | | `catalog` |
| `PlaybackTransport` | loading, preloading, retries and the mpv backend (`internal/playback/session.go`, `internal/playback/backend_mpv.go`) | | `playback_transport` |
| `PlaybackQueue` | context, queue, modes, walks, live rebases, restart (`internal/playback/session.go`, `catalog_loader.go`) | | `playback_queue` |
| `AssetCache` | encodings, fetches, preparation jobs, the offline list, cleanup (`service_transcode.go`, `service_playback*.go`, `service_cache.go`, `service_offline.go`) | | with `PinScopes` |
| `PinScopes` | pinned scopes and their jobs over the cache (`service_pin.go`) | `AssetCache` | `pin_scopes` |
| `Membership` | certificates, authorities, roles, recovery, the registry (`membership_*.go`, `service_library.go`, `registryauth`, `relayd/main.go`) | | `membership` |
| `InviteJoin` | invites, requests and attempts on both sides (`service_invite.go`, `invite_transport.go`) | | `invite_join` |
| `ReplicationProofs` | theorems about `OplogSync` and `CatchupLane` | `OplogSync`, `CatchupLane` | |
| `PeerUpdateLaneProofs` | theorems about `PeerUpdateLane` | `PeerUpdateLane` | |
| `ScanCoordinatorProofs` | theorems about `ScanCoordinator` | `ScanCoordinator` | |
| `CatalogProofs` | theorems about `Catalog` and `Availability` | `Catalog`, `Availability` | |
| `PlaybackTransportProofs` | a theorem about `PlaybackTransport` | `PlaybackTransport` | |
| `PlaybackQueueProofs` | theorems about `PlaybackQueue` | `PlaybackQueue` | |
| `PinScopesProofs` | theorems about `PinScopes` and `AssetCache` | `PinScopes` | |
| `MembershipProofs` | theorems about `InviteJoin` and `Membership` | `InviteJoin`, `Membership` | |
| `MC*` | constants of the TLC instances | the module they name | |

`CheckpointSync` composes checkpoints with the replication they cut short,
`PinScopes` composes pins, their jobs and the cache that other callers fill and
empty. `MCCatalog` puts the look-ups of `Availability` beside the initial state
of `Catalog`: a look-up changes nothing, so running the two against each other
would only multiply states. `CatalogProofs`, `MembershipProofs` and
`ReplicationProofs` also hold the proofs of a model that shares nothing with the
others there; that is why `Availability`, `Membership` and `CatchupLane` name their
initial state and steps after themselves.

A definition keeps the name of the function it models where there is one. A
definition whose comment says *mutant* is a wrong variant of the one that follows
it, used to see that a property notices. The last lines of a module join
properties that belong together into the one its run checks (`QueueSound`,
`ChangesHeld`, ...); the parts keep their own names and comments.

### 2.1 Oplog, OplogSync

* `log[n]`, `clock[n]` and `table[n]` are the SQLite rows of device `n`. A
  transaction is one action: storage serialises writers.
* A payload is abstracted to the op that carries it. A table cell holds the op
  id of the op it shows, or `NoVal` for a missing or deleted row; these two are
  not told apart because no modelled code path tells them apart.
* Entities are playlists, items of playlists and everything else (`Plain`). Only
  items have a precondition on another entity (`ItemFails`).
* `OpRank` is the position of the text `device:seq` in the order of strings. It
  is a constant, so the proofs hold for whatever order the database has; the MC
  module computes the real one, in which `"1:10"` sorts before `"1:9"`.
* `TableAfter` gives the effect of a whole run at once. This is equal to applying
  the rows one by one because the log does not change inside the transaction, so
  that at most one row per entity passes `ShouldApplyLatestMutation`.
* Playlist edits have two steps, as in the code: `CheckEdit` reads, and the
  action named after the call commits. `MutatePlain` stands for edits whose
  transaction does not depend on an earlier read.
* A session is `idle`, `asked` (the request is under way, with the clocks it was
  built from) or `apply` (rows of the batch left to apply). `Backlog`,
  `TakenBefore` and `SelectSyncBatch` are the round-robin batch; `more` and
  `empty` are what the loop of `syncPeerCatchup` looks at.
* `AbortCatchup` stands for a transport error, a cancelled context and a crash
  of either process; all state that survives is in the tables.

An edit may carry any time stamp, also one older than a mutation its device has
seen, and remote ops may be applied between the check of an edit and its commit. The
author writes its row either way, although the op it appends says something else
to its peers. `EditStands` says when the two agree; where they do not, `astray`, a
ghost, remembers the entity on that device until a later mutation of it is applied
there (`Settled`). `Converged` speaks of everything that is not astray.

### 2.2 CheckpointSync

`ckpt[n]` is the one published checkpoint a device keeps. Its id is a hash of
base clocks and contents, so the pair stands for the id. A publish is
`ReadCheckpointEntries` and `SavePublishedCheckpoint`, a compaction is
`CompactCheckpoint` (which reads) and `DeleteCovered` (the transaction): the
code releases the database in between. `Races` says which of the two may be
overtaken there. `ByHand` says what operators do in addition to
`CheckpointMaintenance`. `Respond` is `buildSyncResponse` with the
acknowledgement it records and the choice between rows and a checkpoint.
`InstallCheckpoint` is the whole installing transaction: it clears the state,
replays the checkpoint device by device, puts the tail back and replays it in
the order of a Go map (`Turns`), or fails and rolls back. A uuid is not reused
(`born`), even when compaction has removed every row that mentions it.

### 2.3 CatchupLane, PeerUpdateLane

Each critical section of `scheduleMu` and `runtimeMu` is one action, and every
unlock is a point where other actions may come. An expired timer is a counter of
callbacks that still have to take the lock; `Stop` on the timer no longer
reaches them. Runtimes are numbered by incarnation, so the model can replace a
runtime while a handler, a callback or a worker still refers to it. `owed` and
`failed` (catch-up) and `due`, `givenUp` and `letGo` (announcements) are ghosts that
say what the properties talk about; no guard reads them. `letGo` has the peers whose
announcement is let go with no retry: the worker cannot read the local context after
it has claimed its work (`LocalContextFails`, `service_transport.go:820`), or the peer
answers that it has another library (`NotifyMismatch`).

### 2.4 ScanCoordinator

`submitters` are goroutines inside `queueStartupFull`, `queueWatchDelta` or
`submitRepair`, between the critical section that deduplicates, the check of the
context and the critical section that appends. `workers` are goroutines inside
`run`. A pass is the set of changed paths it covers when it starts; a change
during the pass takes the path out of that set, since the pass may have read it
before. Two ghosts name what the coordinator loses: `overlooked` has the changed
paths whose request was dropped because a pass of the same roots was under way that
had read them already, and `mistaken` says that the scan of another directory was
taken for the startup scan that is due.

### 2.5 Catalog

`disk` is what the file system shows, `files` the source-file rows that are
present, `catalog` the four derived tables (tracks, albums, links, artists). A
file content is a tag; the identities `TrackOf`, `AlbumOf`, `ArtistOf`,
`ClusterOf` and `FamilyOf` are functions of it, as they are hashes of it in the
code; `ClustersApart` says that a library album has no id of a variant, since the
two are hashes of different things. There are finitely many contents, and paths of
this device are none of the rows of others. `Derive` is what the present rows stand for and `Fits` compares by table.

An actor (a scan pass, the session that applies remote ops, the removal of scan
roots) goes through the steps between which the code gives the database up: the
impact of the rows as they are (`before`), the rows, the impact as they are then
(`after`), the scoped rebuild, the flags of preferences and pins, the events.
`ReconciledRows` is what `reconcileCatalogMaterializationForScanTx` reads again
inside its transaction, which makes a stale impact harmless. The flag `repair` is
kept in the database; `Restart` loses everything that is not.

`untold`, `touched`, `lapsed`, `flagged` and `unseen` are ghosts: entities that
came or went and were not announced; contents an actor has changed and not yet
followed up; those whose follow-up broke off; those a repair is owed for; paths
that changed since they were read. Paths are
visited in a fixed order, removal's transaction of the roots, its cancellation of
the pass and its capture of the impact are one step, and so are the reads of an
enumeration. Artwork follows albums and is left out.

### 2.6 Availability

Stateless operators over a database `db` of files, copies, members, pins,
preferences and peers, one of `Databases`, whose elements are a `Content` each. `Single` is `GetRecordingAvailability`, `Batch` the list
of the same, `Summary`, `AlbumSummary` and `AggregateState` the album's page,
`Ensure` is `EnsurePlaybackRecording` up to the decision what to serve. `Chosen`
is the variant a library recording resolves to and `Exact` whether a request
names a variant. `FirstGone` and `Departed` are the rows that no longer stand for
anything: a first file that is gone, the copies of a device that has left. One
encoding profile is modelled and every variant is in the
catalog. The orders by title and id are the numbers `Grade`, `Newness` and
`AlbumGrade`. `LibraryApart` is the same assumption for recordings as
`ClustersApart` for albums. `LookupSpec` is a look-up at any of the databases.

### 2.7 PlaybackTransport

`ses` is the part of the session that its mutex guards: the user's queue, current
and loading entry, the transition that waits for the backend (entry, attempt,
token), the preloaded and next entry, the pending retry, the entry the backend
was last seen to load. `mpv` is the backend: its playlist, whether a file plays,
is loading or is paused, the file appended for later. `events` is the channel
between them and `calls` the calls in flight: every operation of `Session` that
releases the mutex to call the backend or the preparation service is a call that
goes through steps, and its answer may find the session changed.
`Pause` and `Resume` of a player that plays tell the backend first (`Tell`) and change
the status in a second critical section (`PlayerTold`); the end of a track that the
backend has already left for the preloaded one is resolved in one step and taken over
in another (`TrackEnded`, then `TakenOver` or `PlayedOut`).
Positions and times are left out; a choice that depends on one is made freely.
`UriOf` is the file of an entry and `Gone` the entries that are known to be
unavailable; in the run entries have different files and all are available (3.1).
`upset` records that a call overtook another in one of the ways of section 4.4,
until the next load puts it right.

### 2.8 PlaybackQueue

`s` is the snapshot the session persists: context list, its kind (none, plain,
live), place (`ci`), resume index (`ri`), shuffle bag, user queue, current entry,
modes. `NextWalk`, `WalkIndices`, `Upcoming`, `FirstUpcoming`, `UpcomingCount`
and `PreviousIndex` are the separate functions of `session.go` that each answer
what comes next. `play` is a play between resolving its entry and committing it,
`fetch` a `SetSource` that enumerates outside the mutex, `worker` and `signal`
the rebase worker and its channel of one. A restart restores the last snapshot.
Where the code goes through conditions in order, so does the model, with IF: the
branches of a CASE are tried in any order. The live source lists no entry twice,
tracks and plain entries are finitely many, and `None` is no entry and no call.
Loading is not modelled here and the queue of 2.7 has no context: the two are the
halves of `Session`, which meet in the entry that is resolved and committed.

### 2.9 AssetCache, PinScopes

`row`, `cached`, `offline` and `refs` are tables, `blob` the files on disk.
`Local` recordings have a source file here and are encoded by `Encoder` callers
that share a flight (`flights`); the others are fetched from a provider that is
online or not. A preparation of a `Played` recording keeps an answer and runs in a
job, or in the call if there is nothing to fetch: it looks at the recording, fetches,
commits and looks again. Each look may fail or be cancelled, and then the answer stays
what it was, also "preparing" (`PrepareBreaksOff`, `service_playback.go:645`, `683`);
cleanup lists its victims, takes their flags off,
looks at the pins again and removes the file, in four steps. `PinScopes` has, per
scope, `root` (none, pending, clear), `members`, `content` (what the scope
resolves to now), the refresh `timer`, and the work on it: the `StartPin` call, its pin
job and the refresh job (`call`, `pin`, `refresh`), each of which reads, fetches one recording at a time and commits a reconcile. The
blob references of `AssetCache` are theirs. `sworn`, `swept`, `removed` and `slips` are
ghosts: what a cleanup found pinned, what one has taken, which file it removed that
nobody has written again, and which scope was overtaken in one of the ways of
section 4.4.

One recording stands for one encoding and one blob. Reads of a reconcile are one
step and so is its transaction, with anything in between. Errors of the database
are `ReconcileFails`.

### 2.10 Membership

`db[d]` is what device `d` stores: roles, the newest certificate per device, the
chain of admission authorities and the private keys it has, revoked serials,
recovery token. An authority key is the sequence of the admins that rotated it:
its length is its version, its prefix the key that signed it. `TakenAsOwn` is what
a device makes of a certificate it is given, with join material and with a renewal
alike. `ValidChain`,
`ValidCert` and `Admits` are the checks of `membership_auth.go`; `Issue`, `Revoke`
and `RotateIf` are those of `service_library.go` in their order. A way of `Ways` is
a peer that another calls; `talk` is the conversation, in the steps between which
its messages can be lost or the other side can change. `reg` is what the registry
has been told, with the order it enforces (`reg.seen`). `issued`, `crossed` and
`recast` are ghosts: the highest serial handed out, members two of whose
certificates were under way at once, and members whose role was changed without a
rotation.

### 2.11 InviteJoin

`invite` and `request` are the owner's, `attempt`, `poll` and `start` the
device's, `call` the owner's approvals and rejections, which work on a copy of
the request and come back to it after the transaction that makes the member.
`seal` is the material of an approval: the key it is for and the serial it holds.
`granted`, `raced`, `cancelled` and `entered` are ghosts. Polls of one attempt do
not overlap, and delivery of a message is merged with the call that sends it;
loss and failure are steps of their own.

## 3. Runs

Twelve runs, all of which pass. Times are those of two workers on an idle
machine, with coverage statistics.

| Run | Instance | Checks | States, time |
|---|---|---|---|
| `oplog` | 2 devices that edit a playlist and an item, 2+1 ops, 2 time stamps, batches of 2, 1 round, 1 cut-off session | `TypeOK`, `PrefixExact`, `Converged`, `ClocksReplicatePrefixes` | 815,919, 142 s |
| `ckpt_install` | 2 devices that install each other's checkpoints, a third that never answers, 2+1 ops, 2 time stamps, 1 round, 2 publishes, nothing is compacted | `PrefixExact`, `ClocksReplicatePrefixes` | 714,665, 218 s |
| `ckpt_live` | 2 devices, the second joins; maintenance and an operator; cutover 2, 2+1 ops, 1 publish, compaction, 1 cut-off session | `HistoryKept`, `OpIdsAgree`, `ClocksNeverGoBack`, `MembersCaughtUp` | 109,908, 91 s |
| `catchup_lane` | 2 peers, 2 runtimes, 3 events, 1 failing pass | `LaneInv`, `SignalHeld`, `SignalFetched` | 368,521, 125 s |
| `peer_update_lane` | 2 peers, 3 attempts, 2 mutations | `UpdateInv`, `MutationAnnounced` | 236,024, 87 s |
| `scan_queue` | a root, a directory in it and a file in that, 3 events, 1 repair, 1 failing pass | `QueueSound`, `ChangesHeld`, `RequestsEnd` | 746,908, 107 s |
| `catalog` | 2 paths under nested roots, 2 files of another device, 4 album variants in 2 clusters of a family, 2 outside events, 2 passes, 1 failure; beside it all look-ups over 12,288 databases | `CatalogCurrent`, `ChangesTold`, `RowsFollowDisk`, `UserDataKept`, `AnswersAgree` | 393,405, 166 s |
| `playback_transport` | a restored and a queued entry, 3 commands, 2 calls at once, 1 attempt, an event channel of 1 | `PlayerFollows`, `PreloadIsNext`, `TransitionLoads` | 1,841,400, 234 s |
| `playback_queue` | a live source of 3 tracks that changes, a plain source, 2 queued entries, 3 events | `PlansAgree`, `PlaceKept`, `CaughtUp`, `LatestIntentWins` | 755,955, 186 s |
| `pin_scopes` | an own and a foreign recording, 2 encoders, 1 scope, 4 events | `CacheSound`, `PinnedBlobsKept`, `PinsSettled`, `PinsFetched` | 1,120,398, 264 s |
| `membership` | a founder, a member it calls, another it does not call; 3 events, 3 serials, 2 authorities | `CertificatesUsable`, `MembersAdmitted`, `RevocationsKnown` | 218,771, 150 s |
| `invite_join` | 2 devices with 2 attempts each, an invite for one and one for many, 2 overlapping answers, 1 event | `OnlyInvitedJoin`, `MaterialOpens` | 1,016,216, 56 s |

### 3.1 Why the bounds are enough

* **Two or three ops per device** (`MaxSeq`, `Quota`) give a gap (row 2 before row 1) and
  a run longer than one row; two time stamps give every order of two mutations
  and the tie that op ids break.
* **Two devices** that both edit and both ask each other contain every pair of
  concurrent edits. A ring of three with one op each was checked for convergence
  (89,000 states) and, with one cut-off session, for liveness (174,000 states)
  while the models were written, and the proofs of section 6 cover any number of
  devices for the safety properties.
* **Batches smaller than the backlog and one round** force a transfer through
  several sessions; `ckpt_live` has two rounds, so that a session mixes an install
  and rows.
* **Cutover 2** replaces 5000: a backlog of two rows reaches it. `Cutover = 9`
  switches that rule off where a run is about something else.
* **Two runtimes** are one replacement, the only interaction between
  incarnations: the lane belongs to its runtime and nothing is handed over.
* **Events, commands, passes and failures** are budgets on the environment, never
  on the program. Three events let a change meet a pass that a stop or a
  replacement overtakes. One failure suffices where nothing counts failures; in
  `PeerUpdateLane` they are unbounded and `MaxAttempts` is the code's own limit.
* **Two paths under nested roots, one of them present at first** give the four
  cases of a path that is gained, lost, changed or taken out of the roots. Three
  variants of one album share two tracks, so that a rebuild of one touches the
  rows of the others; the fourth is in another cluster of the family, where a pin
  may move. With three events and one pass the model passes too (2,052,009
  states).
* **Three tracks** are the least for which the shuffle bag has a choice and an
  entry can leave the context before, at and behind the current one.
* **One scope and two recordings** suffice for the pins, since scopes share only
  blobs and cleanup asks of a blob whether any scope holds it. Both ways of
  getting a recording are there; two encoders compete for one flight.
* **Two members**: a change of the role of one rotates the authority that the
  other's certificate depends on. The founder's conversation with one of them is
  enough, since conversations of different members share nothing but the founder's
  tables. An instance with more ways was explored to six million states without an
  error.
* **Two entries** of different files are the one that plays and the one that is next. With a
  third that is unavailable and one call at a time (two restored entries, 3 commands,
  284,774 states), and with two calls and 2 commands (one restored entry, 2,312,578
  states), the three properties of `playback_transport` hold too.
* **Two attempts per device** are a cancelled one and its successor; two calls are
  an approval and another answer to the same request or the same invite.

`ckpt_install` has no playlists, because the installation of an item can fail (section
4); an install that fails changes nothing. `ckpt_live` has one publish, one entity and one
admin, so that the disagreements of section 4 that need two publishes, a tail on
an older checkpoint or two entities are out of it.

Deadlock is checked in `oplog` and the checkpoint runs. Everywhere else the system
may stop: a stopped runtime or library, an empty queue and an environment that
has used up its events are its normal end, and the configurations say
`CHECK_DEADLOCK FALSE`.

### 3.2 What the properties say

* `PrefixExact` = `PrefixHeld`, `BufferDrained`: a clock stands exactly for the
  contiguous rows that are there. A session can stop between any two rows, and
  two peers can deliver the same device's rows interleaved.
* `Converged` = `LatestMutationShown`, `SameClocksSameLibrary`: two devices with
  equal clocks show the same library, in whatever order the rows came. An edit that
  was overtaken between its check and its commit, or stamped older than what its
  device has seen, does make the two differ; the properties say how far that goes:
  one entity, on the device of the edit, until a later mutation of it is applied.
* `OpIdsAgree`: sequence numbers are never handed out twice, although compaction
  removes the rows from which `MAX(seq)` is computed.
* `ClocksReplicatePrefixes`: every step of the clocks is an op issued by its
  device or the delivery of longer prefixes of issued sequences, one prefix when a
  row arrives and several when a checkpoint does.
* `HistoryKept` = `CTypeOK`, `CheckpointComplete`, `HistoryHeld`, with
  `ClocksNeverGoBack`: what a device can give to a newcomer after it has deleted
  rows.
* `MembersCaughtUp`: members that keep asking get everything.
* `LaneInv` = `LaneTypeOK`, `OneWorker`; `UpdateInv` = `UpdateTypeOK`,
  `OneNotifier`, `AnnouncementHeld`; `QueueSound` = `ScanTypeOK`, `FinishedOnce`,
  `QueueServed`: the flag under the lock says exactly whether a goroutine serves
  the queue; the result channel of a request has room for one value, so a second
  finish would block the worker.
* `SignalHeld`, `AnnouncementHeld`, `ChangesHeld` (= `ChangeHeld`,
  `PendingUntilScanned`): work that is owed is always in some place from which it
  will be picked up. These are the invariants behind `SignalFetched`,
  `MutationAnnounced` and the completeness of scans. What the code drops is excepted by
  name (`letGo`, `overlooked`, `mistaken`) and only as long as it stays dropped.
  `RequestsEnd`: nobody waits
  for ever for a scan.
* `CatalogCurrent` = `CatalogTypeOK`, `PresentShown`, `NothingElseShown`; `RowsFollowDisk`,
  `ChangesTold`: disk, rows, catalog and frontend follow each other although passes,
  sessions and removals interleave at every statement. The exceptions are named by
  the ghosts: work under way, and work that broke off (4.3).
* `UserDataKept` = `PreferencesKept`, `PinsKept`: a rebuild deletes rows and
  writes them anew; what users said of them survives.
* `AnswersAgree` = `BatchAgrees`, `ServedAsShown`, `PlaysTheChosen`,
  `AlbumMatchesTracks`: five functions written apart give one answer. No database is
  excepted: where tables name what is gone the functions differ, and the properties
  say in which cases and what each of them answers there.
* `PlayerFollows` = `TransportTypeOK`, `PlayerInStep`, `SilentUnlessPlaying`;
  `PreloadIsNext`, `TransitionLoads`: when no call is in flight, the session shows
  what the backend does, unless the interleavings of 4.4 came first.
* `PlansAgree`: the functions that say what comes next agree. `PlaceKept` =
  `QueueTypeOK`, `CurrentTracked`, `ResumeAgrees`, `NoGap`: a context that is
  rebuilt under the session does not skip, repeat or detach an entry.
  `CaughtUp`, `LatestIntentWins`: the context is the catalog's in the end, and
  never that of an older command.
* `CacheSound` = `CachedHasBlob`, `OneEncodes`, `OfflineListed`; `PinnedBlobsKept`:
  flags, files, flights and the offline list agree between any two steps, but for a
  file that a cleanup removed and that nobody has written again. `PinsSettled` = `PinTypeOK`, `QuietPinsComplete`,
  `UnpinnedHoldsNothing`, and `PinsFetched`: a pin nobody works on is complete.
* `CertificatesUsable` = `MTypeOK`, `SerialsGrow`, `FounderSigns`,
  `CurrentUsable`, `LockoutNoticed`; `MembersAdmitted`, `RevocationsKnown`:
  members in good standing come back after every loss, expiry and rotation.
* `OnlyInvitedJoin` = `ITypeOK`, `OneMemberPerInvite`, `CancelledStaysOut`,
  `RejectedStaysOut`; `MaterialOpens`: approvals, rejections, polls and
  cancellations that overlap admit whom they should.

Every property of a passing run has a mutant in `PROJECT.json`: a plausible
mistake in one modelled function under which TLC finds it violated.

## 4. Where the code does not keep its promises

The constants, ghosts and exceptions of the properties all come from behaviour
that TLC showed while the models were written. None of it has a run of its own;
the instances are named so that it can be shown again.

### 4.1 Replication and scans: what the repository says otherwise

| Behaviour | Instance | Violates |
|---|---|---|
| An item is added to a playlist while another device deletes it (`oplog_apply.go:276`). The op can never be applied on the deleting device; every later session meets it first, and that origin is never heard again. | `MCOplogSync`, `FairSpec`, a playlist and an item, `MaxSeq` 2, `MaxTs` 2 | `DevicesCaughtUp` |
| A member that covers the checkpoint but misses as many rows as the cutover is told to install the same checkpoint in every round, and the budget runs out every time (`service_sync.go:933`). Maintenance compacts instead of publishing, because that checkpoint is acknowledged by all. | `MCCheckpointSync`, `CFairSpec`, `Founders = {1, 2}`, `MaxSeq` 4, `OnlyFirst`, cutover 2, 2 publishes, `ByHand = {}` | `MembersCaughtUp` |
| A checkpoint published after a compaction lacks the compacted rows, although its clocks claim them, and replaces the one that had them (`service_checkpoint.go:198`). | `MCCheckpointSync`, `CSpec`, `Founders = {1, 2}`, `MaxSeq` 1, `MaxTs` 2, `Even`, 2 publishes, `ByHand = {"publish", "compact"}` | `CheckpointComplete` |
| A directory reported again while its startup scan runs is taken for queued, and the deltas under it are pruned, those of paths in a directory that already waits with the watcher included (`scan_coordinator.go:118`). | `MCScanCoordinator` | `ChangeHeld` without `overlooked` |

### 4.2 Replication and scans: what the passing runs assume

With each dropped alone, TLC finds the following.

| Dropped | Instance | Violated, after |
|---|---|---|
| `astray`, for overtaken edits | 2 devices, 1 playlist, 2 ops each | `SameClocksSameLibrary`, 13 states: a rename commits after a remote delete; its `UPDATE` does not revive the local row, its op revives it elsewhere |
| `astray`, for older time stamps | 2 devices, 1 plain entity, 2 time stamps | `SameClocksSameLibrary`, 7 states: the author shows its own older-stamped edit, the peer does not |
| `Races = {}` → `{"publish"}` | 2 devices, 1 entity | `CheckpointComplete`, 4 states: a row between the two reads |
| `Races = {}` → `{"compact"}` | 2 devices, 2 publishes | `HistoryHeld`, 14 states: the compaction deletes the rows of the checkpoint it read and prunes the one published since |
| one entity → two | 2 devices, 2 plain entities | `CheckpointComplete`, 8 states: a buffered row raises the base clock |
| no playlists in `ckpt_install` | 3 devices, 1 op each | nothing, but an install fails and is asked for again, 15 states: an item is replayed before the playlist of a device with a greater id |
| no compaction in `ckpt_install` | 2 devices, 1 op each | `SameClocksSameLibrary`, 16 states: the latest mutation was compacted, an older op that arrives later wins on that device only |
| one admin → two | 2 devices, 2 publishes | `OpIdsAgree`, 19 states: an admin that compacted installs the other's older checkpoint; its own clock goes back and a number is reused |
| `mistaken` | as `scan_queue` | `PendingUntilScanned`, 12 states: the scan of a sub-directory marks a failed startup scan as satisfied |

### 4.3 Catalog and availability

Named by `lapsed` and `flagged`, which weaken `NothingElseShown` and `ChangesTold`:

* A pass, a session or a removal that breaks off after it has written rows leaves
  tracks and albums no file stands for, until a repair or another full rebuild; a
  cancelled one fails to write the repair flag too, since it uses the cancelled
  context. Rows committed by a failing pass are never announced.
* A file ingested and gone again within one delta pass, or removed while a new pass
  walks a nested root, does the same.
* A repair clears the flag that another actor's failure set while it ran.
* A crash between the transaction that takes a root away and the removal of its
  rows leaves them. Removing a root whose nested root stays marks the files of the
  nested root missing, and their preferences and pins go.
* A checkpoint install reads what to announce after it has cleared the tables;
  album pins of variants that come back later are lost (`PinsKept` excepts it).

Outside the model, met on the way: album variants of different years that share
track variants across devices make every scoped rebuild fail on a `UNIQUE` key;
one unreadable file fails every automatic pass; a rebuild removes preferences of
other devices without an op.

Stated by `BatchAgrees` and `ServedAsShown` in `Availability`: the page of a recording
stops at a first file that is gone where a list finds the second; it calls a copy
cached whose blob is gone, and `EnsurePlaybackRecording` then fails instead of
fetching; lists count copies of devices that have left. Stated by
`AlbumMatchesTracks`: an album's page counts as available a track whose first file is
gone, one whose copies are offline while a provider is online, and one with copies on
a device that left and is seen; their own pages do not. `bestLocalRecordingSource` (`service_transcode.go:283`) ignores that a
request is exact, so that what it encodes cannot be what such a request is served.

### 4.4 Playback, cache and pins

Two entries of one file in a row stop the player while the session shows the second
as playing. In `MCPlaybackTransport` with `Restored` two entries of one file, 1 command
and 1 call, `PreloadIsNext` and `PlayerInStep` are violated. `PreloadNext` (`backend_mpv.go:313`) finds
that the next file is the active one and reports success without appending anything,
and the session registers it as preloaded (`session.go:2934`). At the end of the
track `resolveEOFState` falls back to the file that ended (`backend_mpv.go:695`),
which is that of the preloaded entry, so that the session takes it over as playing
(`session.go:3449`). The backend is idle and nothing corrects the session. A test
has two entries of one file in a context (`session_test.go:3159`), and another
expects the backend to hold what the session has preloaded (`session_test.go:2865`).

Named by `upset` in `PlaybackTransport`:

* `RemoveQueuedEntry` and `MoveQueuedEntry` (`session.go:1413`, `1464`) cancel the
  retry of a loading entry and leave it loading; `Play` then does nothing.
* `tryPendingPlayback` drops the retry a concurrent call has just started; one
  that follows a transport timeout shows the old entry as current.
* `Pause` and `Resume` tell the backend before they change the status
  (`session.go:1588-1636`): a call in between finds a player that is paused and a
  session that plays, or the other way round.
* An end of file after `Pause`, and one whose answer meets another call, is lost;
  a file-loaded event handled before `activatePreloadedEntry` has registered it
  leaves the transition to its timer.
* A failed automatic step leaves the status playing while the backend is idle.
* `Next` during an activation, when all that is left is unavailable, stops the player
  and leaves the transition to its timer (`stopAfterSkipped`, `session.go:2398`).

Named by `missed`, `raced` and the exceptions of `PlaybackQueue`:

* A rebase that an intent overtakes is discarded and not repeated; so is a change
  between the enumeration of `SetSource` and its application, and one between the
  restore and the subscription at the start.
* A context replaced between the resolution and the commit of a play keeps the
  index of the old one.
* While a queued entry plays, every rebase and restart moves the resume index one
  on, so that an entry of the context is skipped; after the last entry of the
  context it starts over although repeat is off (`StartsOver`).
* `SetSource` of the same list attaches an entry that had left it (`LeftBehind`).

Named by `slips`, `swept` and `removed` in `AssetCache` and `PinScopes`: a leader that
finds the row after a cleanup took the file caches a recording without one; a fetch
that commits between a cleanup's check and its removal loses the file, and so does a
pin made after the cleanup listed its entries (`blobHasRetainedReferences`,
`service_cache.go:543`, asks for cached flags and not for pins); an unpin between
a reconcile's reads and its transaction leaves members and references without a
root; a refresh that comes due while the refresh job is active, a `StartPin` while
the pin job of the scope is, and a failed job are dropped without a retry. A
preparation whose look at the recording fails or is cancelled leaves the status
"preparing" with no job behind it (`service_playback.go:645-664`, `683-717`); no
property speaks of that status.

### 4.5 Membership and invites

Named by `crossed` and `recast`, or by the shape of `InTouch`:

* Changes of a role never reach the member's own row. Without a rotation of the
  authority the member is turned away until its certificate expires; with one it
  renews at every call.
* Join material carries the newest authority only: a device that joins after a
  rotation is refused until the founder calls it.
* An admin that demotes or removes the founder cuts itself off.
* Approving a device that is a member already supersedes its certificate, even if
  the join never completes.
* Two refreshes that overtake each other leave a certificate stored that the
  founder has superseded. `verifyTransportPeerAuth` checks before its transaction
  and saves in it without a look, so that a serial can be issued twice.

Named by `raced` and `cancelled` in `InviteJoin`: a key replaced between the copy
and the transaction of an approval gets material it cannot open; a request
rejected, cleared or expired in between leaves a member without material and an
invite that is used up; a poll of an attempt that cannot open its material leaves
it approved for ever, and one whose request expired leaves it pending;
`handleInviteJoinStart` reads the request after it has released the lock.

## 5. Fairness

* `FairSpec` of `OplogSync`: weak fairness of the catch-up of every linked pair.
  A session runs in one goroutine that nothing blocks for ever, and the ticker of
  the runtime starts sessions again (`runBackgroundLoop`). Edits, cancellations
  and aborts have no fairness.
* `CFairSpec` adds weak fairness of the maintenance, which runs after every
  change, and strong fairness of the commits of a publish and of a compaction:
  they can be cancelled and overtaken, and are attempted again each time.
* The lanes and the scan queue have weak fairness of runnable goroutines, of
  armed timers and of the ticker. Signals, mutations, file changes, attaching,
  detaching, stopping and cancelling have none. Fairness of a worker step does
  not force a pass to succeed: failures are bounded by a budget, and the
  liveness properties are about what happens once errors stop. In
  `PeerUpdateLane` failures are unbounded, and `MutationAnnounced` allows the
  code to give up.
* `FairSpec` of `PinScopes`: weak fairness of the jobs and timers of each scope,
  which are goroutines and `time.AfterFunc`. Callers, encoders, cleanup and
  providers have none; `PinsFetched` asks for a provider that stays online.
* `FairSpec` of `Membership`: weak fairness of every way of conversation and of
  the registry's synchronisation, both driven by tickers. Losses are bounded by
  `MaxIncidents`; `MembersAdmitted` ends where a bound on serials is reached.
* `PlaybackTransport`, `PlaybackQueue`, `InviteJoin` and `Catalog` state safety
  only. That an approved join completes was checked while `InviteJoin` was
  written and left out for its cost.

`SignalFetched` promises nothing once no runtime is active. Change signals are
bounded, so the model does not show what a peer that never stops signalling does
to the others: `popTransportCatchupRequestSet` serves single peers before a
request for all, in the order of their keys.

## 6. Proofs

TLAPS checks everything below with SMT, Zenon and LS4. A theorem holds for every
value of the constants under the named assumptions of its component, where a run
of section 3 covers one instance. Each safety theorem is shown the same way: an
inductive invariant, checked by TLC first, that holds initially, is kept by every
action and implies the property. Temporal reasoning is left to the last step of a
theorem.

| Module (obligations) | Theorems | Statement |
|---|---|---|
| `ReplicationProofs` (1995) | `TypeCorrect`, `PrefixesHeld`, `OpIdsNeverCollide` | `Spec => []TypeOK`, `[]PrefixExact`, `[]OpIdsAgree` |
| | `ClocksRefine` | `Spec => ClocksReplicatePrefixes` |
| | `Convergence` | `Spec => []Converged` |
| | `OneWorkerPerLane`, `NoSignalLost` | `LaneSpec => []LaneInv`, `[]SignalHeld` |
| `PeerUpdateLaneProofs` (1049) | `AnnouncementsKept` | `Spec => []UpdateInv` |
| `ScanCoordinatorProofs` (2755) | `QueueKeepsWorker` | `Spec => []QueueSound` |
| | `ChangesKept` | `Spec => []ChangesHeld` |
| `CatalogProofs` (4520) | `CatalogStaysCurrent`, `RowsAlwaysFollow`, `ChangesAreTold` | `Spec => []CatalogCurrent`, `[]RowsFollowDisk`, `[]ChangesTold` |
| | `RebuildsKeepUserData` | `Spec => UserDataKept` |
| | `AnswersAlwaysAgree` | `LookupSpec => []AnswersAgree` |
| `PlaybackTransportProofs` (1246) | `TransitionIsLoading` | `Spec => []TransitionLoads` |
| `PlaybackQueueProofs` (3622) | `SessionKeepsItsPlace`, `PlansAlwaysAgree`, `LiveContextCatchesUp` | `Spec => []PlaceKept`, `[]PlansAgree`, `[]CaughtUp` |
| | `LateSourceNeverWins` | `Spec => LatestIntentWins` |
| `PinScopesProofs` (1886) | `TablesTrusted`, `PinsOutliveCleanups`, `QuietPinsAreComplete` | `Spec => []CacheSound`, `[]PinnedBlobsKept`, `[]PinsSettled` |
| `MembershipProofs` (4883) | `InvitedOnly`, `MaterialCanBeOpened` | `Spec => []OnlyInvitedJoin`, `[]MaterialOpens` |
| | `CertificatesStayUsable` | `MembershipSpec => []CertificatesUsable` |

### 6.1 Replication

The assumptions of `Oplog` and `OplogSync` are: device ids are numbers (only their
order matters), the three kinds of entities are disjoint, op ids have distinct
ranks. Time stamps and the order of checks and commits are as in the code: any.

`StepKinds` reduces every action to what it does to the data: nothing, an
appended row (`AppendFacts`) or an inserted row with the run it completes
(`InsertFacts`). The invariants are then shown for these three kinds only.

*Structure.* `PrefixHeld` and `BufferDrained` are not inductive alone. `StructInv`
adds: every row is also held by the device that issued it (`OriginHolds`), and so
is every row of a batch in flight (`BatchFromOrigin`); a device's own clock is
the length of its own log (`OwnRows`), and its own rows are unique
(`OwnUnique`). `OriginHolds` is what makes a clock of a peer a lower bound of the
origin's clock (`ClocksWithinOrigin`), hence the refinement: `ClocksRefine` maps
an append to `Issue`, an insertion that completes a run to `Deliver`, and
everything else to a stutter. `OpIdsAgree` follows because two rows with one id
are both held by their origin.

*Convergence.* `LatestMutationShown` is strengthened by `HasLatest` (the rows of
an entity have a latest one, by induction over the steps rather than over the
set) and `Untouched` (an entity no applied row mentions shows `NoVal`). A local edit
either stands, and the table shows the row it wrote, or its entity is astray from
then on; this is where `EditStands` is used. An insertion either brings the new latest row into the applied run, and
the table shows it, or leaves the old latest one in place (`LatestExtends`).
`LibraryAgrees` concludes: equal clocks and no buffered rows make equal logs
(`SameClocksSameLog`, from `OpIdsAgree` and `PrefixHeld`), and equal logs have
the same latest mutations (`LatestUnique`).

### 6.2 Checkpoints

Nothing is proved about `CheckpointSync`. Sections 4.1 and 4.2 name four ways in which
history is lost, all of them in the course of normal maintenance: a commit that is
overtaken between its reads and its transaction, a publish from a compacted log, a
publish beside buffered rows, and an install of a checkpoint that is older than the
device's own. A theorem would have to assume all four away. `HistoryKept`,
`ClocksNeverGoBack`, `OpIdsAgree` and `ClocksReplicatePrefixes` with checkpoints are
checked in the instances of section 3, whose bounds keep the four out.

### 6.3 Lanes

`LaneIndInv` adds to `SignalHeld` that a lane with a worker is marked, that a marked
lane without one belongs to a runtime that was cancelled, that a worker covers
only what its request asked for, and that a runtime is stopped only after it has
stopped being the active one. `UpdateIndInv` says where an announcement that was neither given up nor let go may be
(`Covered`: asked for in full, among the retries, with a timer or a late callback of
it, in the hands of a worker), that peers are in a worker's hands only between its
claim and its last retry, and that whatever is asked for will be claimed
(`ClaimToCome`), which is what the flag `running` and the second look of a worker
that ends are for.

### 6.4 Scans

`QueueSound` needs that the requests being submitted, those in the queue and those
in the batches of workers are different requests, and that none of them is
finished: `Apart` says that these collections have no id twice and none in
common. From it follows that each is finished once. `ChangesKept` adds
`ChangesInd`: a changed path that is neither overlooked nor failed has a holder, which
is the watcher, a submitter's request, the queue or a batch (`HeldBy`). The property's
holders are more generous than what is inductive: a repair does not count there, since
its caller may cancel it. A request that is
dropped as known leaves each path it would have covered with the request it was taken
for, or overlooked (`DroppedIsHeld`). `KeysKnown` says what a running startup key
stands for, and that a full pass which succeeded has been noted.

The first version of the property excepted directories reported while a startup scan
was due. Proving it showed that the run had held only by its bounds: with four events
TLC found a change forgotten although no directory appeared in a startup scan, a file
changed in a directory that the watcher had collected before the scan of it began,
whose entry the flush then pruned as already running (`scan_coordinator.go:107-121`).
The exception is now the dropped request itself.

### 6.5 Catalog and availability

`CatalogInv` has four parts beside the types.

*What is present is shown.* `PresentShown` is inductive by itself once the impact of
an actor is known to cover the rows it began with (`CoverInv`). A full rebuild
derives everything. A scoped one deletes the tracks, albums and artists of its
impact and derives anew every track of an album it deletes, so that what it takes
away it puts back (`ScopedShows`), whoever else has written rows in between.

*Nothing else is shown without a reason.* `NothingElseShown` speaks of states without
work under way. `Explained` holds in all: what the catalog shows is derived from
`Reasons`, the present rows, what a session has touched or broken work has left, and
what an actor has touched of the rows it began with. Content that came after an
actor began and went before it captured its impact again is what the reasons leave
out: no rebuild can have brought it in.

*Rows follow the disk.* `ScanOK` says what a pass may count on: each path in its scope
has its row, or is on its list, or will be met in a root to come, or has changed
since it was read (`Handled`, `Enumerated`).

*Changes are told.* `Announced` follows an entity that came or went to the content
that caused it, and this to an actor that still has to capture it, has it in its
impact or is about to tell (`Promised`), unless all is going to be told.

`UserDataKept` is a property of steps, shown from `PreferencesOK` (a device prefers
one variant of a cluster) and `PinsKnown`: a rebuild finds for each album it takes
away whether another of its cluster or family stays. The best of a finite set,
which the code takes after sorting, exists by the lemmas on largest values.

`AnswersAlwaysAgree` needs no induction, since a look-up reads one content. The five
functions are brought to the same questions: which file (`File` and `FilesOf`) and
which copy, who else has one, who of these is there. `FactsAgree` answers each from either
side, for every database: the sets differ by `Departed` and by a first file or a blob
that is gone, and `VerdictKinds` says which verdicts that can change. `ListedAndShown`
compares a list entry with a page, `WhatIsShownPlays` a page with what is served; an
album's counts are cardinalities of sets of recordings that the single answers define
(`TrackCounts`, with `Beyond` for the tracks only the album counts).

### 6.6 Playback queue

A snapshot is `Whole` when its lists, modes and indices fit together. For such
snapshots `PlansAgree` is a fact about states: all functions walk the same `Laps` of
the order, from `WalkStart` and around to `WalkWrap`.

`PlaceKept` needs more than itself. `PlaceInv` says of a session in which no play was
overtaken (4.4) that the current entry is at its index and the session there
(`Tracked`), that the entry about to be played is at the index it was resolved with
(`Fits`), and that the stored index is the one the walk resumes at (`Resumes`). The
first is suspended while a play runs over a new live context, the last while any
play runs.

`CatchInv` says of a rebase that still counts that its context is live and what it
enumerated is the catalog, unless a change was signalled after it; the same holds for
a source that was not told of a change. `NumberInv` bounds the number of what is
shown by that of the last command, which is the number of a source that still counts.

### 6.7 Playback transport

`TransitionLoads` says that an activation under way is that of the entry shown as
loading. It leans on which calls can be under way at the same time. `LoneInv` says
that while nothing overtook anything (4.4) there is one call at most, and that a call
which is still to end in an activation or a direct load (`Bound`) has cancelled the
transition it met, so that it starts its own where there is none. `Loads` adds to the
property that no retry is pending during a transition, because a retry is what a
call sets up instead of one. A step that only touches positions, the queue or the
backend keeps all three (`Calm`); the rest are looked at action by action.

The first attempt at the proof failed at `Next` during an activation: if every entry
that is left is unavailable, the player is stopped and the transition stays. The run
had held only because its instance had no unavailable entry. That case was added to
those that make `upset`, and instances with such an entry to those of section 3.1.

### 6.8 Cache and pins

`CacheInd` adds `BlobsThere` (whoever has stored a blob or its row finds the file,
unless a cleanup removed it since) and `VictimsFree` (the victims of the cleanup under way
are none of those it found pinned). `PinIndInv` adds a condition for each scope. A
pinned scope that was not overtaken (4.4) and has no refresh owed is `Settling`:
every missing blob is on someone's list or in hand, and either someone will still
read the members, or the only plan there is is complete, or the rows are.
`PinsSettled` is what is left of it when nobody works.

### 6.9 Invites

`JoinIndInv` follows a request through the owner's calls, which work on copies.
`Issued` bounds every serial in sight by the last one issued for its device;
`UsedOnce` says that the invite for one device is gone with the first approval;
`CancelledEnded` that a cancelled attempt has no answer left that could bring it
in. `Alone` is for requests outside the race of approval and rejection: one call at
most has a copy, the copy is current, and an approval that has committed is
either marked or still held by the call that will mark it.

### 6.10 Membership

The assumptions are that the founder is none of the members, that "admin" is a role
and "none" is not, that conversations are with the founder, and that bounds are numbers. `MembershipInv` has three parts
beside the types.

`FounderInv`: the founder made every key of its chain, has all their private halves,
and the chain has no gap (`Linked`); nobody is a member before the first key. A chain
that another device shows and that is valid starts at the root and ends, if its
certificate is signed by the founder, at a key of the founder; so it is part of the
founder's (`ChainWithin`), and keeping it changes nothing at the founder. This is why
`FounderSigns` holds whatever peers show.

`SerialInv`: the certificate the founder holds for a member is the one it issued last
(`CurrentOK`), the next serial lies above all that were handed out, both unless two
certificates of the member crossed (4.5), and the registry
knows of no revocation that the founder does not, nor any message to it (`RegistryOK`).

`ReachInv` follows each certificate that is stored (`OwnOK`), offered with join
material (`OfferOK`) or under way in a conversation (`Fits`): the founder issued it,
and it is the newest, or outdated by a new authority, or its owner sees that it needs
another. Material that was not taken yet is newer than anything its device has or has
asked with, which keeps a late renewal from undoing a join. `LockoutNoticed` is what
remains for a member in touch: a certificate that is the newest, in place and signed
by the newest key the member knows is one the founder admits.

Most actions change the tables of one device. `Grows`, `FounderKeeps` and
`MemberKeeps` say what such a step has to keep for all other members and
conversations to stay right (`OthersKept`), so that each action is looked at where it
happens; `FounderIssues` does so for all that hand out a certificate.

### 6.11 What is only model-checked

* Every liveness property, since fairness and ENABLED are outside the prover:
  `MembersCaughtUp`, `SignalFetched`, `MutationAnnounced`, `RequestsEnd`,
  `PinsFetched`, `MembersAdmitted`, `RevocationsKnown`. What is proved of
  `SignalHeld`, `UpdateInv`, `ChangesHeld` and `PinsSettled` is the safety they
  rest on: what is owed is never nowhere.
* Everything about checkpoints (6.2): `HistoryKept`, `ClocksNeverGoBack`, and
  `OpIdsAgree`, `PrefixExact` and `ClocksReplicatePrefixes` with publishes and
  installs. `PrefixExact` holds there only while nothing is compacted.
* `PlayerFollows` and `PreloadIsNext` of `PlaybackTransport`. They hold between calls
  and when entries have different files. What every call in flight, any number of
  events in the channel and the playlist of the backend may be in the meantime is an
  invariant larger than the model; it was not attempted.

## 7. What is not modelled

* Signatures, hashes and transport credentials as data: a certificate or a row is
  authentic or absent; `Membership` models who may sign what, not how.
* The order of items in a playlist (position keys, `rebalancePlaylistPositionKeysTx`)
  and playlist covers; the ops of preferences and assets beyond their effect on
  the catalog; artwork.
* Chunking and hashing of checkpoints, retry delays, logging, statistics.
* Reading clocks and rows in separate statements in `buildSyncResponse`, and the
  rebuild that an aborted session owes (`service_sync.go:775`): in `Catalog` a
  session that fails is an exception of the properties, not repaired.
* Deletes of an optimized asset from other devices, which also delete its device cache
  rows (`oplog_apply.go:422`): no device appends such an op
  (`state_replication.go:43`, `92` write upserts only).
* A change of role of a member without a peer id (`service_library.go:373`), which
  revokes and does not issue: rows of other devices are only ever written with a peer
  id (`service_invite.go:549`, `service_transport.go:1783`), and nothing clears it.
* Rows with `tsns <= 0`, which the code replaces with the current time.
* Announcements dropped when a runtime is replaced; presence and relay lanes;
  the relay daemon except for revocations and their look-up.
* fsnotify's own loss of events and the installation of watches; the order in
  which one pass visits its paths.
* Positions, times and volume in playback; overflow of the backend's event channel
  (`pushEvent` drops); the scoring of the shuffle bag; the window of the listed
  queue; skips over unavailable entries of a context; crash of a playback session between
  snapshots.
* The store's own failures, migrations, configuration, the inspector, the operator
  surface, updaters, host, facades, frontend and observability: I/O and rendering,
  with no protocol of their own, as `PROJECT.json` says of each.

Hazards met in the code and listed here instead of in `PROJECT.json`: mpv events
dropped when the channel is full; position keys that differ after a rebalance
without an op; a sync response that reads clocks and rows apart; announcements
lost with their runtime. No property covers them. Nor is there a run with two
entries of one file in a row (4.4).

## 8. Plan

In place: all models of section 2 with their runs, and the proofs of every safety
property but `PlayerFollows`, `PreloadIsNext` and those about checkpoints (6.11). What remains,
by weight:

1. An inductive invariant for `PlayerFollows` and `PreloadIsNext`: what each event in
   the channel and each call in flight says of the backend's playlist.
2. The history of checkpoints under any maintenance: which rows a device can still
   give, said for every publish and install and not only for the first.
3. The order of playlist items, the owed rebuild of an aborted session, the
   switch of the active library.
