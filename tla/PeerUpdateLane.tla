--------------------------- MODULE PeerUpdateLane ---------------------------
(***************************************************************************)
(* The peer-update lane of the active transport runtime                    *)
(* (service_transport.go): after a local mutation the device tells every   *)
(* connected peer that the library changed.  A mutation asks for a full    *)
(* broadcast after a debounce delay; a broadcast that cannot start is      *)
(* retried as a whole, a peer that cannot be notified is retried alone,    *)
(* both with a bounded number of attempts.                                 *)
(*                                                                         *)
(* The lane is shared by the mutating callers, the debounce timer, one     *)
(* retry timer per peer and the worker goroutine; each enters it under     *)
(* scheduleMu, some of them twice with the lock released in between.  The  *)
(* module follows one runtime while it is active.                          *)
(***************************************************************************)
EXTENDS Integers, Sequences, FiniteSets, SequencesExt

CONSTANTS
    Peers,         \* the connected peers, by transportPeerUpdateKey
    MaxAttempts,   \* peerRetrySettings' maxCount
    MaxMutations   \* bound on local mutations

ASSUME UpdateAssumption == MaxAttempts \in Nat \ {0} /\ MaxMutations \in Nat

VARIABLES
    full,        \* lane.full: a broadcast to every peer is asked for
    attempt,     \* lane.fullRetryAttempt
    retries,     \* lane.peerRetries: per peer its attempt, 0 if absent
    retryTimer,  \* lane.peerRetryTimers: the attempt of the armed timer, 0 if none
    loose,       \* per peer, attempts of retry timers that Stop no longer reaches
    timer,       \* lane.timer, armed or not
    fired,       \* expired callbacks of lane.timer that wait for scheduleMu
    running,     \* lane.running
    rerun,       \* lane.rerun
    callers,     \* mutating callers between their two critical sections
    workers,     \* worker goroutines
    due,         \* ghost: peers not notified since the last mutation
    givenUp,     \* ghost: peers whose retries were suppressed since then
    letGo,       \* ghost: peers whose announcement was let go since then, with no retry
    mutations    \* mutations so far

work == <<full, attempt, retries, retryTimer>>
task == <<timer, fired, running, rerun>>
vars == <<work, loose, task, callers, workers, due, givenUp, letGo, mutations>>

None == [p \in Peers |-> 0]

\* A worker: where it is, and the work it claimed.
Worker(pc) == [pc |-> pc, full |-> FALSE, attempt |-> 0, claimed |-> None, failures |-> None]

At(pc, i) == i \in DOMAIN workers /\ workers[i].pc = pc

----------------------------------------------------------------------------
(* Scheduling (scheduleRuntimeTask, triggerRuntimeTask).                   *)

\* Without a delay: one worker, or a rerun of the one there is.
RunNow(rest) ==
    /\ timer' = FALSE
    /\ IF running THEN /\ rerun' = TRUE
                       /\ running' = running
                       /\ workers' = rest
                  ELSE /\ running' = TRUE
                       /\ rerun' = rerun
                       /\ workers' = Append(rest, Worker("spawned"))

\* With a delay: (re)arm the timer.
RunLater == timer' = TRUE /\ UNCHANGED <<fired, running, rerun>>

\* Ask for a full broadcast, dropping the retries it makes superfluous.
AskFull(a) ==
    /\ full' = TRUE
    /\ attempt' = a
    /\ retries' = None
    /\ retryTimer' = None

----------------------------------------------------------------------------
Init ==
    /\ full = FALSE /\ attempt = 0
    /\ retries = None /\ retryTimer = None
    /\ loose = [p \in Peers |-> <<>>]
    /\ timer = FALSE /\ fired = 0 /\ running = FALSE /\ rerun = FALSE
    /\ callers = 0
    /\ workers = <<>>
    /\ due = {} /\ givenUp = {} /\ letGo = {}
    /\ mutations = 0

\* noteLocalLibraryMutation, scheduleRuntimePeerUpdateBroadcast up to the
\* unlock: a new mutation restarts the count of attempts.
Mutate ==
    /\ mutations < MaxMutations
    /\ mutations' = mutations + 1
    /\ AskFull(0)
    /\ callers' = callers + 1
    /\ due' = Peers
    /\ givenUp' = {} /\ letGo' = {}
    /\ UNCHANGED <<loose, task, workers>>

\* The rest of scheduleRuntimePeerUpdateBroadcast.
ScheduleBroadcast ==
    /\ callers > 0
    /\ callers' = callers - 1
    /\ RunLater
    /\ UNCHANGED <<work, loose, workers, due, givenUp, letGo, mutations>>

\* The debounce timer expires.
Fire ==
    /\ timer
    /\ timer' = FALSE
    /\ fired' = fired + 1
    /\ UNCHANGED <<work, loose, running, rerun, callers, workers, due, givenUp, letGo, mutations>>

\* Mutant: a trigger that finds a worker on the lane leaves it at that.
TriggerNoRerun ==
    /\ fired > 0
    /\ fired' = fired - 1
    /\ timer' = FALSE
    /\ IF running THEN UNCHANGED <<running, rerun, workers>> ELSE RunNow(workers)
    /\ UNCHANGED <<work, loose, callers, due, givenUp, letGo, mutations>>

\* triggerRuntimeTask
Trigger ==
    /\ fired > 0
    /\ fired' = fired - 1
    /\ RunNow(workers)
    /\ UNCHANGED <<work, loose, callers, due, givenUp, letGo, mutations>>

\* A peer's retry timer expires.
FireRetry(p) ==
    /\ retryTimer[p] > 0
    /\ retryTimer' = [retryTimer EXCEPT ![p] = 0]
    /\ loose' = [loose EXCEPT ![p] = Append(@, retryTimer[p])]
    /\ UNCHANGED <<full, attempt, retries, task, callers, workers, due, givenUp, letGo, mutations>>

\* triggerRuntimePeerUpdateRetry: it removes the peer's entry in
\* peerRetryTimers, also when that entry is a newer timer, which then runs on
\* out of reach.  The greater attempt wins (mergeTransportPeerUpdateRetries).
TriggerRetry(p) ==
    \E i \in DOMAIN loose[p] :
        LET a == loose[p][i]
            rest == RemoveAt(loose[p], i)
        IN /\ retryTimer' = [retryTimer EXCEPT ![p] = 0]
           /\ loose' = [loose EXCEPT ![p] = IF retryTimer[p] > 0
                                            THEN Append(rest, retryTimer[p]) ELSE rest]
           /\ IF full
              THEN UNCHANGED <<retries, task, workers>>
              ELSE /\ retries' = [retries EXCEPT ![p] = IF @ > a THEN @ ELSE a]
                   /\ IF running
                      THEN /\ rerun' = TRUE
                           /\ UNCHANGED <<timer, fired, running, workers>>
                      ELSE /\ running' = TRUE
                           /\ workers' = Append(workers, Worker("spawned"))
                           /\ UNCHANGED <<timer, fired, rerun>>
           /\ UNCHANGED <<full, attempt, callers, due, givenUp, letGo, mutations>>

----------------------------------------------------------------------------
(* The worker (startRuntimeTask, runRuntimePeerUpdateBroadcast).           *)

\* Mutant: a retry does not count as an attempt.
ClaimUncounted(i) ==
    /\ At("spawned", i)
    /\ workers' = [workers EXCEPT ![i] =
          [@ EXCEPT !.pc = IF ~full /\ retries = None THEN "ending" ELSE "claimed",
                    !.full = full, !.attempt = attempt,
                    !.claimed = IF full THEN [p \in Peers |-> attempt + 1] ELSE retries]]
    /\ full' = FALSE
    /\ attempt' = 0
    /\ retries' = None
    /\ UNCHANGED <<retryTimer, loose, task, callers, due, givenUp, letGo, mutations>>

\* claimRuntimePeerUpdateWork.  claimed holds, per peer still to notify, one
\* more than the attempt that is being made.
Claim(i) ==
    /\ At("spawned", i)
    /\ workers' = [workers EXCEPT ![i] =
          [@ EXCEPT !.pc = IF ~full /\ retries = None THEN "ending" ELSE "claimed",
                    !.full = full, !.attempt = attempt,
                    !.claimed = IF full THEN [p \in Peers |-> attempt + 1]
                                ELSE [p \in Peers |-> IF retries[p] > 0 THEN retries[p] + 1
                                                                        ELSE 0]]]
    /\ full' = FALSE
    /\ attempt' = 0
    /\ retries' = None
    /\ UNCHANGED <<retryTimer, loose, task, callers, due, givenUp, letGo, mutations>>

\* The library and the device are not those of the runtime, or cannot be read: the
\* worker returns with what it claimed.
LocalContextFails(i) ==
    /\ At("claimed", i)
    /\ workers' = [workers EXCEPT ![i].pc = "ending", ![i].claimed = None]
    /\ letGo' = IF full THEN letGo ELSE letGo \cup {p \in Peers : workers[i].claimed[p] > 0}
    /\ UNCHANGED <<work, loose, task, callers, due, givenUp, mutations>>

\* The credentials are built and (full) the peers are listed.
Begin(i) ==
    /\ At("claimed", i)
    /\ workers' = [workers EXCEPT ![i].pc = "notify"]
    /\ UNCHANGED <<work, loose, task, callers, due, givenUp, letGo, mutations>>

\* The credentials cannot be built, or (full) the peers cannot be listed, before
\* anyone is notified: scheduleRuntimePeerUpdateFullRetry up to its unlock, or
\* all the claimed peers fail.
CannotStart(i) ==
    LET w == workers[i]
    IN /\ At("claimed", i)
       /\ IF ~w.full
          THEN /\ workers' = [workers EXCEPT ![i].pc = "retry", ![i].claimed = None,
                                             ![i].failures = w.claimed]
               /\ UNCHANGED <<work, givenUp>>
          ELSE IF w.attempt + 1 >= MaxAttempts
          THEN /\ givenUp' = IF full THEN givenUp ELSE givenUp \cup due
               /\ workers' = [workers EXCEPT ![i].pc = "ending", ![i].claimed = None]
               /\ UNCHANGED work
          ELSE IF full
          THEN /\ workers' = [workers EXCEPT ![i].pc = "ending", ![i].claimed = None]
               /\ UNCHANGED <<work, givenUp>>
          ELSE /\ AskFull(w.attempt + 1)
               /\ workers' = [workers EXCEPT ![i].pc = "fullretry", ![i].claimed = None]
               /\ UNCHANGED givenUp
       /\ UNCHANGED <<loose, task, callers, due, letGo, mutations>>

\* The rest of scheduleRuntimePeerUpdateFullRetry.
ScheduleFullRetry(i) ==
    /\ At("fullretry", i)
    /\ RunLater
    /\ workers' = [workers EXCEPT ![i].pc = "ending"]
    /\ UNCHANGED <<work, loose, callers, due, givenUp, letGo, mutations>>

\* NotifyLibraryChanged on one claimed peer succeeds: the peer will pull
\* everything this device has by now.
NotifyPeer(i, p) ==
    /\ At("notify", i)
    /\ workers[i].claimed[p] > 0
    /\ workers' = [workers EXCEPT ![i].claimed[p] = 0]
    /\ due' = due \ {p}
    /\ UNCHANGED <<work, loose, task, callers, givenUp, letGo, mutations>>

\* The peer answers for another library, and is not asked again.
NotifyMismatch(i, p) ==
    /\ At("notify", i)
    /\ workers[i].claimed[p] > 0
    /\ workers' = [workers EXCEPT ![i].claimed[p] = 0]
    /\ letGo' = IF full THEN letGo ELSE letGo \cup {p}
    /\ UNCHANGED <<work, loose, task, callers, due, givenUp, mutations>>

\* The peer cannot be resolved or notified.
NotifyFails(i, p) ==
    /\ At("notify", i)
    /\ workers[i].claimed[p] > 0
    /\ workers' = [workers EXCEPT ![i].claimed[p] = 0,
                                  ![i].failures[p] = workers[i].claimed[p]]
    /\ UNCHANGED <<work, loose, task, callers, due, givenUp, letGo, mutations>>

\* Everyone has been tried.
NotifiedAll(i) ==
    /\ At("notify", i)
    /\ workers[i].claimed = None
    /\ workers' = [workers EXCEPT ![i].pc = "retry"]
    /\ UNCHANGED <<work, loose, task, callers, due, givenUp, letGo, mutations>>

\* One round of scheduleRuntimePeerUpdateRetries: give up on the peer, leave it
\* to the broadcast already asked for, or arm its retry timer.
RetryPeer(i, p) ==
    LET a == workers[i].failures[p]
    IN /\ At("retry", i)
       /\ a > 0
       /\ IF a >= MaxAttempts
          THEN /\ givenUp' = IF full THEN givenUp ELSE givenUp \cup {p}
               /\ UNCHANGED retryTimer
          ELSE /\ retryTimer' = IF full THEN retryTimer ELSE [retryTimer EXCEPT ![p] = a]
               /\ UNCHANGED givenUp
       /\ workers' = [workers EXCEPT ![i].failures[p] = 0]
       /\ UNCHANGED <<full, attempt, retries, loose, task, callers, due, letGo, mutations>>

RetriedAll(i) ==
    /\ At("retry", i)
    /\ workers[i].failures = None
    /\ workers' = [workers EXCEPT ![i].pc = "ending"]
    /\ UNCHANGED <<work, loose, task, callers, due, givenUp, letGo, mutations>>

\* The deferred function of startRuntimeTask up to its unlock.
Release(i) ==
    /\ At("ending", i)
    /\ running' = FALSE
    /\ rerun' = FALSE
    /\ workers' = IF rerun THEN [workers EXCEPT ![i] = Worker("rerun")]
                           ELSE RemoveAt(workers, i)
    /\ UNCHANGED <<work, loose, timer, fired, callers, due, givenUp, letGo, mutations>>

\* Its second half: schedule the rerun at once.
Rerun(i) ==
    /\ At("rerun", i)
    /\ RunNow(RemoveAt(workers, i))
    /\ UNCHANGED <<work, loose, fired, callers, due, givenUp, letGo, mutations>>

WorkerStep(i) ==
    \/ Claim(i) \/ LocalContextFails(i) \/ Begin(i) \/ CannotStart(i) \/ ScheduleFullRetry(i)
    \/ \E p \in Peers :
         NotifyPeer(i, p) \/ NotifyMismatch(i, p) \/ NotifyFails(i, p) \/ RetryPeer(i, p)
    \/ NotifiedAll(i) \/ RetriedAll(i) \/ Release(i) \/ Rerun(i)

Next ==
    \/ Mutate \/ ScheduleBroadcast \/ Fire \/ Trigger
    \/ \E p \in Peers : FireRetry(p) \/ TriggerRetry(p)
    \/ \E i \in DOMAIN workers : WorkerStep(i)

\* Runnable goroutines run and armed timers expire.
Fairness ==
    /\ WF_vars(ScheduleBroadcast) /\ WF_vars(Fire) /\ WF_vars(Trigger)
    /\ \A p \in Peers : WF_vars(FireRetry(p)) /\ WF_vars(TriggerRetry(p))
    /\ WF_vars(\E i \in DOMAIN workers : WorkerStep(i))

Spec == Init /\ [][Next]_vars /\ Fairness

----------------------------------------------------------------------------
Attempts == 0..(MaxAttempts - 1)

\* Types of the state (transportTaskLaneState and its users).  No retry is ever
\* kept with an attempt at or past the limit of peerUpdateRetryDelay.
UpdateTypeOK ==
    /\ full \in BOOLEAN /\ attempt \in Attempts
    /\ retries \in [Peers -> Attempts] /\ retryTimer \in [Peers -> Attempts]
    /\ \A p \in Peers : \A i \in DOMAIN loose[p] : loose[p][i] \in Attempts \ {0}
    /\ timer \in BOOLEAN /\ fired \in Nat /\ running \in BOOLEAN /\ rerun \in BOOLEAN
    /\ callers \in Nat
    /\ \A i \in DOMAIN workers : workers[i] \in
          [pc : {"spawned", "claimed", "notify", "fullretry", "retry", "ending", "rerun"},
           full : BOOLEAN, attempt : Attempts,
           claimed : [Peers -> 0..MaxAttempts], failures : [Peers -> 0..MaxAttempts]]
    /\ due \subseteq Peers /\ givenUp \subseteq Peers /\ letGo \subseteq Peers
    /\ mutations \in 0..MaxMutations

\* At most one goroutine claims work and notifies peers, and lane.running says
\* so; another one can at most be on its way to schedule a rerun.
OneNotifier ==
    LET notifying == {i \in DOMAIN workers : workers[i].pc # "rerun"}
    IN Cardinality(notifying) <= 1 /\ (running <=> notifying # {})

\* A worker will claim what is asked for now.
ClaimToCome ==
    \/ timer \/ fired > 0 \/ callers > 0
    \/ running /\ rerun
    \/ \E i \in DOMAIN workers : workers[i].pc \in {"spawned", "fullretry", "rerun"}

\* No announcement is lost but where the code lets it go: a peer that was not
\* notified since the last mutation, whose attempts are not used up and whose
\* announcement met neither an unreadable local context (service_transport.go:820)
\* nor a peer of another library, is covered by a broadcast
\* that is asked for and that someone will claim, by a retry in the same
\* position, by a retry timer, or by the worker that has yet to try it or to
\* schedule its retry.
AnnouncementHeld ==
    \A p \in due \ (givenUp \cup letGo) :
        \/ (full \/ retries[p] > 0) /\ ClaimToCome
        \/ retryTimer[p] > 0 \/ loose[p] # <<>>
        \/ \E i \in DOMAIN workers : workers[i].claimed[p] > 0 \/ workers[i].failures[p] > 0

\* Every peer is told of every mutation, unless its attempts are exhausted or the
\* code lets the announcement go without a retry.
MutationAnnounced ==
    \A p \in Peers : p \in due ~> (p \notin due \/ p \in givenUp \cup letGo)

\* Retries, reruns and timers that can no longer be stopped neither lose an
\* announcement nor start a second notifier nor retry past the limit.
UpdateInv == UpdateTypeOK /\ OneNotifier /\ AnnouncementHeld
=============================================================================
