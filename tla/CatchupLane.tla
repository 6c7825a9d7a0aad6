---------------------------- MODULE CatchupLane ----------------------------
(***************************************************************************)
(* The catch-up lane of a transport runtime (service_transport.go).  Every *)
(* runtime owns one lane: a set of requests ready to be served, a set      *)
(* that waits for the debounce timer, and a flag that says a worker        *)
(* goroutine is on it.  Peers' change signals, the periodic tick, timer    *)
(* callbacks and the workers' deferred functions all enter the lane under  *)
(* scheduleMu, each in one critical section; between two critical sections *)
(* the runtime may be replaced (syncRuntime) or stopped.                   *)
(*                                                                         *)
(* A runtime is named by the number of its incarnation.  The reason of a   *)
(* request, its logging and the network status it reports are left out.    *)
(***************************************************************************)
EXTENDS Integers, Sequences, FiniteSets, FiniteSetsExt, SequencesExt

CONSTANTS
    NumPeers,     \* peers are 1..NumPeers, numbered in the order of their keys
    MaxRuntimes,  \* bound on runtimes attached
    MaxEvents,    \* bound on runtimes attached and change signals received, together
    MaxFailures   \* bound on passes that end in an error

ASSUME LaneAssumption ==
    /\ NumPeers \in Nat \ {0}
    /\ MaxRuntimes \in Nat \ {0}
    /\ MaxEvents \in Nat
    /\ MaxFailures \in Nat

Peers == 1..NumPeers
Runtimes == 1..MaxRuntimes
All == 0                 \* the nil peer: catch up with every peer
NoRuntime == 0

VARIABLES
    active,     \* App.activeRuntime.transportRuntime, NoRuntime if nil
    attached,   \* runtimes attached so far
    cancelled,  \* runtimes whose context is cancelled
    stopping,   \* per runtime, the steps its stopper has still to take
    starting,   \* <<next, replaced>> of the syncRuntime calls that have still to
                \* queue the startup pass of next
    lane,       \* per runtime, its transportCatchupLaneState
    fired,      \* per runtime, timer callbacks that wait for scheduleMu
    workers,    \* per runtime, its worker goroutines
    handler,    \* per peer, the runtime its signal is about to be queued on
    owed,       \* ghost: peers that signalled a change not fetched yet
    failed,     \* ghost: owed peers whose last pass ended in an error
    signals,    \* signals received so far
    failures    \* passes failed so far

laneVars == <<active, attached, cancelled, stopping, starting>>
catchupVars == <<laneVars, lane, fired, workers, handler, owed, failed, signals, failures>>

----------------------------------------------------------------------------
(* Request sets (transportCatchupRequestSet).                              *)

NoRequests == [all |-> FALSE, peers |-> {}]

HasRequests(set) == set.all \/ set.peers # {}

\* mergeTransportCatchupRequestSet
Merge(set, req) ==
    IF req = All THEN [set EXCEPT !.all = TRUE]
                 ELSE [set EXCEPT !.peers = @ \cup {req}]

\* mergeTransportCatchupRequestSets: a request for all peers stands for the
\* single peers scheduled next to it
MergeSets(dst, src) ==
    IF src.all THEN Merge(dst, All) ELSE [dst EXCEPT !.peers = @ \cup src.peers]

\* popTransportCatchupRequestSet: single peers first, in key order
PopRequest(set) == IF set.peers = {} THEN All ELSE Min(set.peers)

PopRest(set) ==
    IF set.peers = {} THEN NoRequests
                      ELSE [set EXCEPT !.peers = @ \ {Min(set.peers)}]

Wants(req, p) == req \in {All, p}

EmptyLane == [timer |-> "nil", running |-> FALSE,
              ready |-> NoRequests, scheduled |-> NoRequests]

Spawned(req) == [pc |-> "spawned", req |-> req, covers |-> {}]

----------------------------------------------------------------------------
(* Critical sections of scheduleMu.                                        *)

\* Mutant: a trigger that finds the lane idle pops its request without
\* marking the lane as running.
DispatchUnmarked(r, l) ==
    IF l.running \/ ~HasRequests(l.ready)
    THEN lane' = [lane EXCEPT ![r] = l] /\ UNCHANGED workers
    ELSE /\ lane' = [lane EXCEPT ![r] = [l EXCEPT !.ready = PopRest(@)]]
         /\ workers' = [workers EXCEPT ![r] = Append(@, Spawned(PopRequest(l.ready)))]

\* The tail shared by scheduleRuntimeCatchupPeer and triggerRuntimeCatchup:
\* leave the requests to the running worker or start one.
Dispatch(r, l) ==
    IF l.running \/ ~HasRequests(l.ready)
    THEN /\ lane' = [lane EXCEPT ![r] = l]
         /\ UNCHANGED workers
    ELSE /\ lane' = [lane EXCEPT ![r] = [l EXCEPT !.running = TRUE,
                                                  !.ready = PopRest(@)]]
         /\ workers' = [workers EXCEPT ![r] = Append(@, Spawned(PopRequest(l.ready)))]

\* scheduleRuntimeCatchupPeer with a delay: debounce.
Delayed(l, req) == [l EXCEPT !.scheduled = Merge(@, req), !.timer = "armed"]

\* scheduleRuntimeCatchupPeer without a delay, for all peers.
ImmediateAll(l) ==
    [l EXCEPT !.timer = "nil", !.scheduled = NoRequests, !.ready = Merge(@, All)]

\* triggerRuntimeCatchup, up to the shared tail.
Triggered(l) ==
    [l EXCEPT !.timer = "nil", !.ready = MergeSets(@, l.scheduled),
              !.scheduled = NoRequests]

\* clearScheduledRuntime
Cleared(l) ==
    [l EXCEPT !.timer = "nil", !.ready = NoRequests, !.scheduled = NoRequests]

----------------------------------------------------------------------------
LaneInit ==
    /\ active = NoRuntime
    /\ attached = 0
    /\ cancelled = {}
    /\ stopping = [r \in Runtimes |-> <<>>]
    /\ starting = {}
    /\ lane = [r \in Runtimes |-> EmptyLane]
    /\ fired = [r \in Runtimes |-> 0]
    /\ workers = [r \in Runtimes |-> <<>>]
    /\ handler = [p \in Peers |-> NoRuntime]
    /\ owed = {}
    /\ failed = {}
    /\ signals = 0
    /\ failures = 0

\* syncRuntime, the second critical section of runtimeMu: the new runtime is
\* published, then the caller goes on to stop the one it replaces.
Attach ==
    /\ attached < MaxRuntimes /\ attached + signals < MaxEvents
    /\ attached' = attached + 1
    /\ active' = attached + 1
    /\ starting' = starting \cup {<<attached + 1, active>>}
    /\ stopping' = IF active = NoRuntime THEN stopping
                   ELSE [stopping EXCEPT ![active] = <<"clear", "cancel">>]
    /\ UNCHANGED <<cancelled, lane, fired, workers, handler, owed, failed,
                   signals, failures>>

\* TransportService.Stop, and clearActiveLibraryRuntime, which cancels the
\* library's context before it clears the lanes.
Detach ==
    /\ active # NoRuntime
    /\ active' = NoRuntime
    /\ \E steps \in {<<"clear", "cancel">>, <<"cancel", "clear">>} :
          stopping' = [stopping EXCEPT ![active] = steps]
    /\ UNCHANGED <<attached, cancelled, starting, lane, fired, workers, handler,
                   owed, failed, signals, failures>>

\* The next step of stopRuntime or stopLibraryRuntime.
StopStep(r) ==
    /\ stopping[r] # <<>>
    /\ stopping' = [stopping EXCEPT ![r] = Tail(@)]
    /\ IF Head(stopping[r]) = "clear"
       THEN /\ lane' = [lane EXCEPT ![r] = Cleared(@)]
            /\ UNCHANGED cancelled
       ELSE /\ cancelled' = cancelled \cup {r}
            /\ UNCHANGED lane
    /\ UNCHANGED <<active, attached, starting, fired, workers, handler, owed,
                   failed, signals, failures>>

\* The end of syncRuntime, once the replaced runtime is stopped: queue the
\* startup pass.  Another syncRuntime may have replaced r meanwhile.
Startup(r) ==
    /\ \E call \in starting :
          /\ call[1] = r
          /\ call[2] # NoRuntime => stopping[call[2]] = <<>>
          /\ starting' = starting \ {call}
    /\ Dispatch(r, ImmediateAll(lane[r]))
    /\ UNCHANGED <<active, attached, cancelled, stopping, fired, handler, owed,
                   failed, signals, failures>>

Starting(r) == \E call \in starting : call[1] = r

\* Mutant: a tick only helps requests that are waiting for the timer anyway.
TickWaiting(r) ==
    /\ r = active
    /\ ~Starting(r)
    /\ r \notin cancelled
    /\ HasRequests(lane[r].scheduled)
    /\ Dispatch(r, ImmediateAll(lane[r]))
    /\ UNCHANGED <<laneVars, fired, handler, owed, failed, signals, failures>>

\* One tick of runBackgroundLoop, which syncRuntime starts last.
Tick(r) ==
    /\ r = active
    /\ ~Starting(r)
    /\ r \notin cancelled
    /\ Dispatch(r, ImmediateAll(lane[r]))
    /\ UNCHANGED <<laneVars, fired, handler, owed, failed, signals, failures>>

\* handleLibraryChangedSignal on runtime r, up to its choice of the runtime to
\* queue on: the active one if it is alive, else r.  A pass already under way
\* may have read the peer before the change.
ReceiveSignal(p, r) ==
    LET target == IF active # NoRuntime /\ active \notin cancelled THEN active ELSE r
    IN /\ r <= attached
       /\ r \notin cancelled
       /\ handler[p] = NoRuntime
       /\ attached + signals < MaxEvents
       /\ signals' = signals + 1
       /\ handler' = [handler EXCEPT ![p] = target]
       /\ owed' = owed \cup {p}
       /\ failed' = failed \ {p}
       /\ workers' = [q \in Runtimes |->
                        [i \in 1..Len(workers[q]) |->
                           [workers[q][i] EXCEPT !.covers = @ \ {p}]]]
       /\ UNCHANGED <<laneVars, lane, fired, failures>>

\* The rest of handleLibraryChangedSignal: queue the peer, or all peers if it
\* cannot be resolved, after the debounce delay.
QueueSignal(p) ==
    LET r == handler[p]
    IN /\ r # NoRuntime
       /\ \E req \in {p, All} : lane' = [lane EXCEPT ![r] = Delayed(@, req)]
       /\ handler' = [handler EXCEPT ![p] = NoRuntime]
       /\ UNCHANGED <<laneVars, fired, workers, owed, failed, signals, failures>>

\* The timer expires: its callback is a goroutine that still has to take
\* scheduleMu, and Stop no longer reaches it.
Fire(r) ==
    /\ lane[r].timer = "armed"
    /\ lane' = [lane EXCEPT ![r].timer = "fired"]
    /\ fired' = [fired EXCEPT ![r] = @ + 1]
    /\ UNCHANGED <<laneVars, workers, handler, owed, failed, signals, failures>>

\* triggerRuntimeCatchup
Trigger(r) ==
    /\ fired[r] > 0
    /\ fired' = [fired EXCEPT ![r] = @ - 1]
    /\ Dispatch(r, Triggered(lane[r]))
    /\ UNCHANGED <<laneVars, handler, owed, failed, signals, failures>>

----------------------------------------------------------------------------
(* The worker goroutine of startRuntimeCatchup.                            *)

\* Is the runtime still the active one?  If so run the request.
StartPass(r, i) ==
    /\ workers[r][i].pc = "spawned"
    /\ LET covers == {p \in owed : Wants(workers[r][i].req, p)}
       IN IF r = active /\ r \notin cancelled
          THEN /\ workers' = [workers EXCEPT ![r][i] =
                                [@ EXCEPT !.pc = "running", !.covers = covers]]
               /\ failed' = failed \ covers
          ELSE /\ workers' = [workers EXCEPT ![r][i].pc = "ending"]
               /\ UNCHANGED failed
    /\ UNCHANGED <<laneVars, lane, fired, handler, owed, signals, failures>>

\* runRuntimeCatchup succeeds.
PassSucceeds(r, i) ==
    /\ workers[r][i].pc = "running"
    /\ owed' = owed \ workers[r][i].covers
    /\ failed' = failed \ workers[r][i].covers
    /\ workers' = [workers EXCEPT ![r][i] =
                     [@ EXCEPT !.pc = "ending", !.covers = {}]]
    /\ UNCHANGED <<laneVars, lane, fired, handler, signals, failures>>

\* runRuntimeCatchup fails, for a cancelled runtime silently.  A transient
\* failure of a single peer is queued again after a delay; any other error is
\* only logged.  A pass over all peers may have served some of them.
PassFails(r, i) ==
    LET w == workers[r][i]
    IN /\ w.pc = "running"
       /\ r \in cancelled \/ failures < MaxFailures
       /\ failures' = IF r \in cancelled THEN failures ELSE failures + 1
       /\ \E served \in SUBSET w.covers :
             /\ w.req # All => served = {}
             /\ owed' = owed \ served
             /\ \/ /\ failed' = IF r = active THEN (failed \cup w.covers) \cap (owed \ served)
                                              ELSE failed \ served
                   /\ UNCHANGED lane
                \/ /\ w.req # All /\ r \notin cancelled
                   /\ lane' = [lane EXCEPT ![r] = Delayed(@, w.req)]
                   /\ UNCHANGED failed
       /\ workers' = [workers EXCEPT ![r][i] =
                        [@ EXCEPT !.pc = "ending", !.covers = {}]]
       /\ UNCHANGED <<laneVars, fired, handler, signals>>

\* Mutant: the deferred function gives the lane up without looking at what
\* became ready while the worker ran.
NextRequestForgets(r, i) ==
    /\ workers[r][i].pc = "ending"
    /\ lane' = [lane EXCEPT ![r].running = FALSE]
    /\ workers' = [workers EXCEPT ![r] = RemoveAt(@, i)]
    /\ UNCHANGED <<laneVars, fired, handler, owed, failed, signals, failures>>

\* The deferred function: give the lane up, or take its next request and pass
\* it to a new worker.  A stopped runtime starts no other worker, and its lane
\* keeps running = TRUE.
NextRequest(r, i) ==
    LET l == lane[r]
    IN /\ workers[r][i].pc = "ending"
       /\ IF HasRequests(l.ready)
          THEN /\ lane' = [lane EXCEPT ![r].running = TRUE, ![r].ready = PopRest(@)]
               /\ workers' = IF r \in cancelled
                             THEN [workers EXCEPT ![r] = RemoveAt(@, i)]
                             ELSE [workers EXCEPT ![r][i] = Spawned(PopRequest(l.ready))]
          ELSE /\ lane' = [lane EXCEPT ![r].running = FALSE]
               /\ workers' = [workers EXCEPT ![r] = RemoveAt(@, i)]
       /\ UNCHANGED <<laneVars, fired, handler, owed, failed, signals, failures>>

WorkerStep(r) ==
    \E i \in 1..Len(workers[r]) :
        \/ StartPass(r, i)
        \/ PassSucceeds(r, i)
        \/ PassFails(r, i)
        \/ NextRequest(r, i)

LaneNext ==
    \/ Attach
    \/ Detach
    \/ \E r \in Runtimes :
          \/ StopStep(r) \/ Startup(r) \/ Tick(r) \/ Fire(r) \/ Trigger(r)
          \/ WorkerStep(r)
    \/ \E p \in Peers : QueueSignal(p) \/ \E r \in Runtimes : ReceiveSignal(p, r)

\* Goroutines that are runnable run: the caller of syncRuntime, the stopper,
\* expired timers and their callbacks, handlers and workers.  The ticker
\* ticks.  Signals, attaching and detaching are up to others.
LaneFairness ==
    /\ \A r \in Runtimes :
          /\ WF_catchupVars(StopStep(r)) /\ WF_catchupVars(Startup(r)) /\ WF_catchupVars(Tick(r))
          /\ WF_catchupVars(Fire(r)) /\ WF_catchupVars(Trigger(r)) /\ WF_catchupVars(WorkerStep(r))
    /\ \A p \in Peers : WF_catchupVars(QueueSignal(p))

LaneSpec == LaneInit /\ [][LaneNext]_catchupVars /\ LaneFairness

----------------------------------------------------------------------------
RequestSets == [all : BOOLEAN, peers : SUBSET Peers]

\* Types of the state (transportCatchupLaneState and its users).
LaneTypeOK ==
    /\ active \in Runtimes \cup {NoRuntime}
    /\ attached \in 0..MaxRuntimes
    /\ cancelled \subseteq Runtimes
    /\ \A r \in Runtimes : stopping[r] \in
          {<<>>, <<"clear">>, <<"cancel">>, <<"clear", "cancel">>, <<"cancel", "clear">>}
    /\ starting \subseteq Runtimes \X (Runtimes \cup {NoRuntime})
    /\ lane \in [Runtimes -> [timer : {"nil", "armed", "fired"}, running : BOOLEAN,
                              ready : RequestSets, scheduled : RequestSets]]
    /\ fired \in [Runtimes -> Nat]
    /\ \A r \in Runtimes : \A i \in 1..Len(workers[r]) :
          workers[r][i] \in [pc : {"spawned", "running", "ending"},
                             req : Peers \cup {All}, covers : SUBSET Peers]
    /\ handler \in [Peers -> Runtimes \cup {NoRuntime}]
    /\ owed \subseteq Peers /\ failed \subseteq owed
    /\ signals \in 0..MaxEvents /\ failures \in 0..MaxFailures

\* The requests a lane holds reach a worker: what is ready has a worker that
\* will take it, what is scheduled has a timer or a callback that will move it.
LaneHolds(r, p) ==
    LET l == lane[r]
    IN \/ l.running /\ (l.ready.all \/ p \in l.ready.peers)
       \/ (l.timer = "armed" \/ fired[r] > 0) /\ (l.scheduled.all \/ p \in l.scheduled.peers)
       \/ \E i \in 1..Len(workers[r]) :
             LET w == workers[r][i]
             IN \/ w.pc = "spawned" /\ Wants(w.req, p)
                \/ w.pc = "running" /\ p \in w.covers

\* No change signal is lost: as long as a runtime is active, every peer that
\* signalled a change which no pass fetched or failed on is in the lane of the
\* active runtime (ready, scheduled or in the hands of its worker), about to be
\* queued there by its handler, or covered by the startup pass still to come.
\* The request may sit on a runtime replaced between the handler's choice and
\* its scheduling: only the startup pass then saves it.
SignalHeld ==
    active # NoRuntime =>
        \A p \in owed \ failed :
            Starting(active) \/ handler[p] = active \/ LaneHolds(active, p)

\* A lane has one worker at most, and lane.running says whether it has one,
\* whichever of the four entry points started it.  (A runtime that is stopped
\* may keep running = TRUE: its worker leaves without resetting it.)
OneWorker ==
    \A r \in Runtimes :
        /\ Len(workers[r]) <= 1
        /\ r \notin cancelled => (lane[r].running <=> workers[r] # <<>>)

\* Every change signalled is fetched, or no runtime is left to fetch it: a
\* pass starts for it after the signal and succeeds, once errors stop.
SignalFetched ==
    \A p \in Peers : p \in owed ~> (p \notin owed \/ active = NoRuntime)

\* The lane itself stays sound whichever callback, handler or stop reaches it late.
LaneInv == LaneTypeOK /\ OneWorker
=============================================================================
