-------------------------- MODULE ScanCoordinator --------------------------
(***************************************************************************)
(* The scan coordinator of the active library (scan_coordinator.go) with   *)
(* the clients that feed it: the file watcher (watcher.go), the runtime    *)
(* synchronisation that asks for the startup scan, and callers of a        *)
(* repair.  Requests wait in one queue; a worker goroutine, started on     *)
(* demand, takes them in batches, scans and finishes them.                 *)
(*                                                                         *)
(* Paths are sequences of names, so that "inside" is IsPrefix.  The files  *)
(* found, the statistics and the progress messages are left out: a scan    *)
(* pass is the set of paths it covers.                                     *)
(***************************************************************************)
EXTENDS Integers, Sequences, FiniteSets, SequencesExt

CONSTANTS
    Names,        \* names of files and directories
    Paths,        \* files and directories that may change, the roots included
    ScanRoots,    \* the device's scan roots
    MaxRepairs,   \* bound on repair requests
    MaxEvents,    \* bound on changes, synchronisations and repairs together
    MaxFailures   \* bound on scan passes that fail

Within(x, roots) == \E r \in roots : IsPrefix(r, x)

ASSUME ScanAssumption ==
    /\ \A x \in Paths : x \in Seq(Names) /\ Within(x, ScanRoots)
    /\ ScanRoots \subseteq Paths /\ ScanRoots # {}
    /\ \A b \in {MaxEvents, MaxRepairs, MaxFailures} : b \in Nat

VARIABLES
    stopped,         \* the coordinator's context is cancelled
    startupPending,  \* activeLibraryRuntime.startupScanPending
    watching,        \* the file watcher runs
    watch,           \* what the watcher collected and has not handed on yet
    submitters,      \* goroutines with requests still to submit, in order
    pending,         \* scanCoordinator.pending
    workerRunning,   \* scanCoordinator.workerRunning
    runningKeys,     \* scanCoordinator.runningStartupKeys
    workers,         \* goroutines in run()
    job,             \* per request, the phase of its job
    finished,        \* per request, how often finishRequest was called
    waiting,         \* repair requests whose caller waits for the result
    callerDone,      \* repair requests whose caller cancelled
    counts,          \* events, repairs and failures so far
    dirty,           \* ghost: paths changed since the last pass over them started
    failed,          \* ghost: dirty paths whose last pass ended in an error
    overlooked,      \* ghost: dirty paths whose full scan was not asked for, since a pass
                     \* over the same roots was under way that had read them already
    scanned,         \* ghost: a full pass over the scan roots has succeeded
    mistaken         \* ghost: a scan of other directories was taken for the one due

queue == <<pending, workerRunning, runningKeys>>
requests == <<job, finished, waiting, callerDone>>
ghosts == <<dirty, failed, overlooked, scanned, mistaken>>
vars == <<stopped, startupPending, watching, watch, submitters, queue, workers, requests,
          counts, ghosts>>

----------------------------------------------------------------------------

\* A request; delta requests carry paths, the others roots to scan in full.
Request(class, paths) ==
    [id |-> Len(job) + 1, class |-> class, paths |-> paths]

\* prunePathsUnderRoots, pruneRootsUnderRoots
PruneUnder(paths, roots) == {x \in paths : ~Within(x, roots)}

Ids(reqs) == {req.id : req \in reqs}

IsRepair(req) == req.class = "repair"

\* scanCoordinatorStartupKeys: a key is the set of the request's roots
StartupKeys(reqs) == {req.paths : req \in {r \in reqs : r.class = "startup"}}

\* The elements of a queue that are in a set, in their order.
Select(s, keep) ==
    LET picked[n \in 0..Len(s)] ==
            IF n = 0 THEN <<>>
            ELSE IF s[n] \in keep THEN Append(picked[n - 1], s[n]) ELSE picked[n - 1]
    IN picked[Len(s)]

\* takeNextBatchLocked: a repair at the head runs alone, otherwise everything
\* but the repairs runs together.  A batch is a set: nothing depends on its order.
NextBatch == IF IsRepair(Head(pending)) THEN {Head(pending)}
             ELSE {req \in ToSet(pending) : ~IsRepair(req)}

AfterBatch == IF IsRepair(Head(pending)) THEN Tail(pending)
              ELSE Select(pending, {req \in ToSet(pending) : IsRepair(req)})

\* executeBatch: the roots scanned in full, and the paths of the delta pass
\* that no full root covers.
FullRoots(batch) == UNION {req.paths : req \in {r \in batch : r.class # "delta"}}

DeltaPaths(batch) ==
    PruneUnder(UNION {req.paths : req \in {r \in batch : r.class = "delta"}},
               FullRoots(batch))

\* runFullScanPass reads all that is in its roots, runDeltaScanPass its paths.
Covers(batch, x) == Within(x, FullRoots(batch)) \/ x \in DeltaPaths(batch)

\* finishRequest on a set of requests: their jobs end, and the callers that
\* wait get the result through a channel with room for one.
Finish(ids, phase) ==
    /\ job' = [k \in DOMAIN job |-> IF k \in ids THEN phase ELSE job[k]]
    /\ finished' = [k \in DOMAIN finished |-> finished[k] + IF k \in ids THEN 1 ELSE 0]

At(pc, i) == i \in DOMAIN workers /\ workers[i].pc = pc

----------------------------------------------------------------------------
Init ==
    /\ stopped = FALSE
    /\ startupPending = TRUE
    /\ watching = FALSE
    /\ watch = [startup |-> {}, delta |-> {}]
    /\ submitters = <<>>
    /\ pending = <<>> /\ workerRunning = FALSE /\ runningKeys = {}
    /\ workers = <<>>
    /\ job = <<>> /\ finished = <<>> /\ waiting = {} /\ callerDone = {}
    /\ counts = [event |-> 0, repair |-> 0, failure |-> 0]
    /\ dirty = ScanRoots /\ failed = {} /\ overlooked = {}
    /\ scanned = FALSE /\ mistaken = FALSE

\* A file or directory changes and the watcher reports it (classifyEvent): a
\* directory that appears is to be scanned in full, anything else as a delta.
\* A pass under way may have read the path before the change.
Change(x, asDir) ==
    /\ watching /\ ~stopped
    /\ counts.event < MaxEvents
    /\ counts' = [counts EXCEPT !.event = @ + 1]
    /\ watch' = [startup |-> IF asDir THEN watch.startup \cup {x} ELSE watch.startup,
                 delta |-> watch.delta \cup {x}]
    /\ dirty' = dirty \cup {x}
    /\ failed' = failed \ {x}
    /\ overlooked' = overlooked \ {x}
    /\ workers' = [i \in DOMAIN workers |-> [workers[i] EXCEPT !.covers = @ \ {x}]]
    /\ UNCHANGED <<stopped, startupPending, watching, submitters, queue, requests, scanned,
                   mistaken>>

NewSubmitter(reqs) == Append(submitters, [pc |-> "admit", todo |-> reqs])

\* Mutant: the flush leaves the directories out of the full scan and prunes the
\* deltas all the same.
FlushPrunesOnly ==
    LET rest == PruneUnder(watch.delta, watch.startup)
        reqs == IF rest = {} THEN <<>> ELSE <<[class |-> "delta", paths |-> rest]>>
    IN /\ watch.delta # {}
       /\ watch' = [startup |-> {}, delta |-> {}]
       /\ submitters' = IF reqs = <<>> THEN submitters ELSE NewSubmitter(reqs)
       /\ UNCHANGED <<stopped, startupPending, watching, queue, workers, requests, counts, ghosts>>

\* The watcher's debounce timer expires: a goroutine submits the startup scan of
\* the new directories, then the deltas outside them.
Flush ==
    LET full == IF watch.startup = {} THEN <<>>
                ELSE <<[class |-> "startup", paths |-> watch.startup]>>
        rest == PruneUnder(watch.delta, watch.startup)
        delta == IF rest = {} THEN <<>> ELSE <<[class |-> "delta", paths |-> rest]>>
    IN /\ watch.delta # {}
       /\ watch' = [startup |-> {}, delta |-> {}]
       /\ submitters' = NewSubmitter(full \o delta)
       /\ UNCHANGED <<stopped, startupPending, watching, queue, workers, requests, counts, ghosts>>

\* ScannerService.syncRuntime: start the watcher, then ask for the startup scan,
\* as every later synchronisation does while it is due.
SyncRuntime ==
    /\ ~stopped
    /\ startupPending \/ ~watching
    /\ counts.event < MaxEvents
    /\ counts' = [counts EXCEPT !.event = @ + 1]
    /\ watching' = TRUE
    /\ submitters' = NewSubmitter(<<[class |-> "startup", paths |-> ScanRoots]>>)
    /\ UNCHANGED <<stopped, startupPending, watch, queue, workers, requests, ghosts>>

\* runTrackedRepair
Repair ==
    /\ counts.event < MaxEvents /\ counts.repair < MaxRepairs
    /\ counts' = [counts EXCEPT !.event = @ + 1, !.repair = @ + 1]
    /\ submitters' = NewSubmitter(<<[class |-> "repair", paths |-> ScanRoots]>>)
    /\ UNCHANGED <<stopped, startupPending, watching, watch, queue, workers, requests, ghosts>>

\* stopLibraryRuntime, resetRuntime
Stop ==
    /\ ~stopped
    /\ stopped' = TRUE
    /\ UNCHANGED <<watching, startupPending, watch, submitters, queue, workers, requests,
                   counts, ghosts>>

----------------------------------------------------------------------------
(* Submitting.                                                             *)

\* The submitter is done with its first request.
Submitted(i, rest) ==
    submitters' = IF Len(rest) = 0 THEN RemoveAt(submitters, i)
                  ELSE [submitters EXCEPT ![i] = [pc |-> "admit", todo |-> rest]]

\* queueStartupFull's critical section: a startup scan of the same roots is
\* pending or running.
KnownStartup(req) ==
    /\ req.class = "startup"
    /\ req.paths \in runningKeys \cup StartupKeys(ToSet(pending))

\* The pass with that key is still to read the path.
WillRead(key, x) ==
    \E i \in DOMAIN workers :
        /\ key \in workers[i].keys
        /\ \/ workers[i].pc \in {"filter", "start"}
           \/ At("scan", i) /\ x \in workers[i].covers

\* What a request would have covered that is dropped for a pass under way.
Overlooks(req) ==
    IF req.paths \in StartupKeys(ToSet(pending)) THEN {}
    ELSE {x \in dirty : Within(x, req.paths) /\ ~WillRead(req.paths, x)}

Admit(i) ==
    LET req == Head(submitters[i].todo)
    IN /\ submitters[i].pc = "admit"
       /\ IF KnownStartup(req)
          THEN /\ Submitted(i, Tail(submitters[i].todo))
               /\ overlooked' = overlooked \cup Overlooks(req)
               /\ UNCHANGED <<job, finished>>
          ELSE /\ submitters' = [submitters EXCEPT ![i] =
                     [pc |-> "submit",
                      todo |-> <<Request(req.class, req.paths)>> \o Tail(@.todo)]]
               /\ job' = Append(job, "queued")
               /\ finished' = Append(finished, 0)
               /\ UNCHANGED overlooked
       /\ UNCHANGED <<stopped, startupPending, watching, watch, queue, workers, waiting,
                      callerDone, counts, dirty, failed, scanned, mistaken>>

\* submit: the check of the context, before the lock.
SubmitCheck(i) ==
    /\ submitters[i].pc = "submit"
    /\ IF stopped THEN Submitted(i, Tail(submitters[i].todo))
                  ELSE submitters' = [submitters EXCEPT ![i].pc = "enqueue"]
    /\ UNCHANGED <<stopped, startupPending, watching, watch, queue, workers, requests,
                   counts, ghosts>>

NewWorker == [pc |-> "loop", batch |-> {}, keys |-> {}, ok |-> TRUE, covers |-> {}]

\* Mutant: whether a worker is needed is decided by the queue, not by the flag.
EnqueueByLength(i) ==
    LET req == Head(submitters[i].todo)
    IN /\ submitters[i].pc = "enqueue"
       /\ pending' = Append(pending, req)
       /\ workerRunning' = TRUE
       /\ workers' = IF pending = <<>> THEN Append(workers, NewWorker) ELSE workers
       /\ waiting' = IF IsRepair(req) THEN waiting \cup {req.id} ELSE waiting
       /\ Submitted(i, Tail(submitters[i].todo))
       /\ UNCHANGED <<stopped, startupPending, watching, watch, runningKeys, job, finished,
                      callerDone, counts, ghosts>>

\* submit: the critical section, and the worker it may start.
Enqueue(i) ==
    LET req == Head(submitters[i].todo)
    IN /\ submitters[i].pc = "enqueue"
       /\ pending' = Append(pending, req)
       /\ workerRunning' = TRUE
       /\ workers' = IF workerRunning THEN workers ELSE Append(workers, NewWorker)
       /\ waiting' = IF IsRepair(req) THEN waiting \cup {req.id} ELSE waiting
       /\ Submitted(i, Tail(submitters[i].todo))
       /\ UNCHANGED <<stopped, startupPending, watching, watch, runningKeys, job, finished,
                      callerDone, counts, ghosts>>

SubmitterStep(i) == Admit(i) \/ SubmitCheck(i) \/ Enqueue(i)

----------------------------------------------------------------------------
(* The caller of a repair (submitRepair).                                  *)

CallerCancels(id) ==
    /\ id \in waiting \ callerDone
    /\ callerDone' = callerDone \cup {id}
    /\ UNCHANGED <<stopped, startupPending, watching, watch, submitters, queue, workers,
                   job, finished, waiting, counts, ghosts>>

\* Mutant: a cancelled caller takes its request off the queue and waits on.
CallerKeepsWaiting(id) ==
    /\ id \in waiting \cap callerDone
    /\ id \in Ids(ToSet(pending))
    /\ pending' = Select(pending, {req \in ToSet(pending) : req.id # id})
    /\ UNCHANGED <<stopped, startupPending, watching, watch, submitters, workerRunning,
                   runningKeys, workers, requests, counts, ghosts>>

\* The caller's context ends first: cancelPendingRequest takes the request off
\* the queue if it is still there, and then finishes it.
CallerLeaves(id) ==
    /\ id \in waiting \cap callerDone
    /\ waiting' = waiting \ {id}
    /\ IF id \in Ids(ToSet(pending))
       THEN /\ pending' = Select(pending, {req \in ToSet(pending) : req.id # id})
            /\ Finish({id}, "failed")
       ELSE UNCHANGED <<pending, job, finished>>
    /\ UNCHANGED <<stopped, startupPending, watching, watch, submitters, workerRunning,
                   runningKeys, workers, callerDone, counts, ghosts>>

\* The result arrives first.
CallerReturns(id) ==
    /\ id \in waiting
    /\ finished[id] > 0
    /\ waiting' = waiting \ {id}
    /\ UNCHANGED <<stopped, startupPending, watching, watch, submitters, queue, workers,
                   job, finished, callerDone, counts, ghosts>>

----------------------------------------------------------------------------
(* The worker (run).                                                       *)

\* failPending: the library was stopped.
FailPending(i) ==
    /\ At("loop", i)
    /\ stopped
    /\ pending' = <<>> /\ workerRunning' = FALSE /\ runningKeys' = {}
    /\ workers' = [workers EXCEPT ![i].pc = "failing", ![i].batch = ToSet(pending)]
    /\ UNCHANGED <<stopped, startupPending, watching, watch, submitters, requests, counts, ghosts>>

\* The critical section of run: leave if nothing is pending, else take a batch.
TakeBatch(i) ==
    /\ At("loop", i)
    /\ ~stopped
    /\ IF pending = <<>>
       THEN /\ workerRunning' = FALSE /\ runningKeys' = {}
            /\ workers' = RemoveAt(workers, i)
            /\ UNCHANGED pending
       ELSE /\ pending' = AfterBatch
            /\ runningKeys' = StartupKeys(NextBatch)
            /\ workers' = [workers EXCEPT ![i] = [NewWorker EXCEPT !.pc = "filter",
                              !.batch = NextBatch, !.keys = StartupKeys(NextBatch)]]
            /\ UNCHANGED workerRunning
    /\ UNCHANGED <<stopped, startupPending, watching, watch, submitters, requests, counts, ghosts>>

\* filterCanceledBatch drops a repair whose caller is gone; the other jobs are
\* reported as running.
FilterBatch(i) ==
    LET batch == workers[i].batch
    IN /\ At("filter", i)
       /\ IF Ids(batch) \subseteq callerDone
          THEN /\ Finish(Ids(batch), "failed")
               /\ workers' = [workers EXCEPT ![i] = NewWorker]
          ELSE /\ job' = [k \in DOMAIN job |-> IF k \in Ids(batch) THEN "running" ELSE job[k]]
               /\ workers' = [workers EXCEPT ![i].pc = "start"]
               /\ UNCHANGED finished
       /\ UNCHANGED <<stopped, startupPending, watching, watch, submitters, queue, waiting,
                      callerDone, counts, ghosts>>

\* executeBatch begins: what it covers is read from now on.
StartPass(i) ==
    LET covers == {x \in dirty : Covers(workers[i].batch, x)}
    IN /\ At("start", i)
       /\ workers' = [workers EXCEPT ![i].pc = "scan", ![i].covers = covers]
       /\ failed' = failed \ covers
       /\ overlooked' = overlooked \ covers
       /\ UNCHANGED <<stopped, startupPending, watching, watch, submitters, queue, requests,
                      counts, dirty, scanned, mistaken>>

PassSucceeds(i) ==
    LET w == workers[i]
    IN /\ At("scan", i)
       /\ dirty' = dirty \ w.covers
       /\ failed' = failed \ w.covers
       /\ overlooked' = overlooked \ w.covers
       /\ scanned' = (scanned \/ ScanRoots \subseteq FullRoots(w.batch))
       /\ workers' = [workers EXCEPT ![i].pc = "clear", ![i].covers = {}]
       /\ UNCHANGED <<stopped, startupPending, watching, watch, submitters, queue, requests,
                      counts, mistaken>>

\* The pass fails, or its context is cancelled: the library's, or the caller's
\* when the batch is a repair (batchExecutionContext).
PassFails(i) ==
    LET w == workers[i]
        cancelled == stopped \/ Ids(w.batch) \subseteq callerDone
    IN /\ At("scan", i)
       /\ cancelled \/ counts.failure < MaxFailures
       /\ counts' = IF cancelled THEN counts ELSE [counts EXCEPT !.failure = @ + 1]
       /\ failed' = failed \cup (w.covers \cap dirty)
       /\ workers' = [workers EXCEPT ![i].pc = "clear", ![i].covers = {}, ![i].ok = FALSE]
       /\ UNCHANGED <<stopped, startupPending, watching, watch, submitters, queue, requests,
                      dirty, overlooked, scanned, mistaken>>

\* clearRunningStartupKeys, markStartupScanSatisfied: any startup scan that
\* succeeds, of whichever roots, satisfies the one that is due.
ClearKeys(i) ==
    LET w == workers[i]
        satisfied == startupPending /\ w.ok /\ w.keys # {}
    IN /\ At("clear", i)
       /\ runningKeys' = runningKeys \ w.keys
       /\ startupPending' = (startupPending /\ ~satisfied)
       /\ mistaken' = (mistaken \/ (satisfied /\ ~(ScanRoots \subseteq FullRoots(w.batch))))
       /\ workers' = [workers EXCEPT ![i].pc = "finish"]
       /\ UNCHANGED <<stopped, watching, watch, submitters, pending, workerRunning, requests,
                      counts, dirty, failed, overlooked, scanned>>

\* The end of failPending: its worker has already given up workerRunning.
FinishFailed(i) ==
    /\ At("failing", i)
    /\ Finish(Ids(workers[i].batch), "failed")
    /\ workers' = RemoveAt(workers, i)
    /\ UNCHANGED <<stopped, startupPending, watching, watch, submitters, queue, waiting,
                   callerDone, counts, ghosts>>

\* finishRequest for the whole batch, then the next round.
FinishBatch(i) ==
    /\ At("finish", i)
    /\ Finish(Ids(workers[i].batch), IF workers[i].ok THEN "completed" ELSE "failed")
    /\ workers' = [workers EXCEPT ![i] = NewWorker]
    /\ UNCHANGED <<stopped, startupPending, watching, watch, submitters, queue, waiting,
                   callerDone, counts, ghosts>>

WorkerStep(i) ==
    \/ FailPending(i) \/ TakeBatch(i) \/ FilterBatch(i) \/ StartPass(i)
    \/ PassSucceeds(i) \/ PassFails(i) \/ ClearKeys(i)
    \/ FinishBatch(i) \/ FinishFailed(i)

Next ==
    \/ \E x \in Paths, asDir \in BOOLEAN : Change(x, asDir)
    \/ Flush \/ SyncRuntime \/ Repair \/ Stop
    \/ \E i \in DOMAIN submitters : SubmitterStep(i)
    \/ \E i \in DOMAIN workers : WorkerStep(i)
    \/ \E id \in waiting : CallerCancels(id) \/ CallerLeaves(id) \/ CallerReturns(id)

\* Goroutines that can run do, the debounce timer expires and a caller that
\* waits takes what it waits for.  Changes, synchronisations, repairs, their
\* cancellation and the end of the library are up to others.
Fairness ==
    /\ WF_vars(Flush)
    /\ WF_vars(\E i \in DOMAIN submitters : SubmitterStep(i))
    /\ WF_vars(\E i \in DOMAIN workers : WorkerStep(i))
    /\ WF_vars(\E id \in waiting : CallerLeaves(id) \/ CallerReturns(id))

Spec == Init /\ [][Next]_vars /\ Fairness

----------------------------------------------------------------------------
Classes == {"startup", "delta", "repair"}
Requests == [id : DOMAIN job, class : Classes, paths : SUBSET Paths]

\* Types of the state.
ScanTypeOK ==
    /\ stopped \in BOOLEAN /\ startupPending \in BOOLEAN /\ watching \in BOOLEAN
    /\ watch \in [startup : SUBSET Paths, delta : SUBSET Paths]
    /\ watch.startup \subseteq watch.delta
    /\ \A i \in DOMAIN submitters : submitters[i].pc \in {"admit", "submit", "enqueue"}
    /\ \A i \in DOMAIN pending : pending[i] \in Requests
    /\ workerRunning \in BOOLEAN /\ runningKeys \subseteq SUBSET Paths
    /\ \A i \in DOMAIN workers :
          /\ workers[i].pc \in {"loop", "filter", "start", "scan", "clear", "finish", "failing"}
          /\ workers[i].covers \subseteq dirty
    /\ DOMAIN finished = DOMAIN job
    /\ \A k \in DOMAIN job : job[k] \in {"queued", "running", "completed", "failed"}
    /\ waiting \subseteq DOMAIN job /\ callerDone \subseteq DOMAIN job
    /\ dirty \subseteq Paths /\ failed \subseteq dirty /\ overlooked \subseteq dirty
    /\ scanned \in BOOLEAN /\ mistaken \in BOOLEAN

\* A request is finished once at most, by the worker, by failPending or by the
\* caller that gave it up: a second result would find the channel full and
\* block the worker for good.  Its job then keeps the outcome.
FinishedOnce ==
    \A k \in DOMAIN job :
        /\ finished[k] <= 1
        /\ finished[k] = 1 <=> job[k] \in {"completed", "failed"}

\* One goroutine at most serves the queue, workerRunning says whether there is
\* one, and no request waits in the queue without it, whatever the order in
\* which a worker leaves, the library stops and requests arrive.
QueueServed ==
    LET serving == {i \in DOMAIN workers : workers[i].pc # "failing"}
    IN /\ Cardinality(serving) <= 1
       /\ workerRunning <=> serving # {}
       /\ pending # <<>> => workerRunning

\* The request will have the path scanned.
Holds(req, x) == IF req.class = "delta" THEN x \in req.paths ELSE Within(x, req.paths)

\* Some request still to be scanned does.
RequestHolds(x) ==
    \/ \E i \in DOMAIN submitters : \E k \in DOMAIN submitters[i].todo :
          Holds(submitters[i].todo[k], x)
    \/ \E k \in DOMAIN pending : Holds(pending[k], x)
    \/ \E i \in DOMAIN workers :
          \/ workers[i].pc \in {"filter", "start"} /\ Covers(workers[i].batch, x)
          \/ At("scan", i) /\ x \in workers[i].covers

\* No change on disk is forgotten while the library is active and watched: a path
\* that changed after the last pass over it began, and on which no pass failed,
\* is with the watcher or in a request on its way to a pass.  The one way to lose
\* it is the request dropped for a pass that has read the path already; it stays
\* lost only until the path changes again or another pass covers it.
ChangeHeld ==
    watching /\ ~stopped =>
        \A x \in dirty \ (failed \cup overlooked) : x \in watch.delta \/ RequestHolds(x)

\* The startup scan stays due until a full scan of all the roots succeeded, or the
\* scan of another directory was taken for it; the roots are then still in a
\* request, or failed, by ChangeHeld.
PendingUntilScanned == scanned \/ startupPending \/ mistaken

\* Nobody waits for ever: requests stop coming, and then the queue is empty, no
\* job is left running and the call of every repair has returned, whether its
\* result, its cancellation or the end of the library came first.
RequestsEnd ==
    []<>(pending = <<>> /\ waiting = {} /\ \A k \in DOMAIN job : job[k] # "running")

\* The queue keeps its worker and its promises to the callers, however submit,
\* cancellation, failPending and the end of the worker interleave.
QueueSound == ScanTypeOK /\ FinishedOnce /\ QueueServed

\* What changed on disk, or was never scanned, stays due until a scan covers it.
ChangesHeld == ChangeHeld /\ PendingUntilScanned
=============================================================================
