------------------------- MODULE PlaybackTransport -------------------------
(***************************************************************************)
(* The transport half of the playback session (internal/playback): how an  *)
(* entry becomes the one the player plays.  Calls of the user, events of   *)
(* the player, the ticker that preloads the next entry, the retry of an    *)
(* entry that is still being prepared and the timer of a preloaded         *)
(* activation run in goroutines of their own; each takes the session lock  *)
(* for short critical sections and calls the player and the core between   *)
(* them.  An action is one such section with the call that ends it.        *)
(*                                                                         *)
(* The queue is the user queue alone (no context is set), so that "what    *)
(* comes next" is the head of the queue; PlaybackQueue has the contexts.   *)
(* Positions, durations and the cached plan are left out: where a position *)
(* decides, both outcomes are possible.                                    *)
(***************************************************************************)
EXTENDS Naturals, Sequences, FiniteSets, SequencesExt

CONSTANTS
  Entry,        \* the entries that may be queued, each at most once
  UriOf,        \* the playable URI of every entry; two entries may share one
  Restored,     \* the user queue the store has from the last session
  Gone,         \* the entries whose target is known to be unavailable
  None,
  MaxCommands,  \* bound: commands of the user, and calls of core and player that fail
  MaxCalls,     \* bound: calls in flight at a time
  MaxAttempts,  \* bound: activations the player accepts
  MaxList,      \* bound: entries of the player's playlist
  MaxEvents     \* bound: events the session has not handled yet

ASSUME TransportAssumption ==
  /\ None \notin Entry /\ Gone \subseteq Entry
  /\ \A e \in Entry : UriOf[e] # None
  /\ MaxEvents > 0 /\ MaxCalls > 0

VARIABLES
  ses,       \* the session: its snapshot and the fields beside it
  mpv,       \* the player behind the backend, with the backend's own state
  events,    \* the event channel
  calls,     \* for every goroutine the call it is in, or Idle
  unused,    \* entries not queued yet
  commands,  \* commands of the user so far
  upset      \* history: "yes" once a call has overlapped with another one or with the
             \* end of a track, has failed, has given up an activation or replays a file
             \* whose end is still to be handled;
             \* "mending" while the next call is alone, "no" when that has loaded

vars == <<ses, mpv, events, calls, unused, commands, upset>>

Uri == {UriOf[e] : e \in Entry}

\* "select" is whoever holds selectMu; Play, which resumes in "pause", and Pause
\* do not take it.
Thread == {"select", "play", "pause", "event", "retry", "timer", "tick"}

Idle == [pc |-> "idle", entry |-> None, qi |-> 0, prev |-> None, keep |-> FALSE,
         follow |-> "none", blocked |-> {}, stop |-> FALSE, attempt |-> 0,
         uri |-> None]

Busy == {t \in Thread : calls[t].pc # "idle"}
Free(t) == t \notin Busy /\ Cardinality(Busy) < MaxCalls

----------------------------------------------------------------------------
(* The session's critical sections, as functions of the session record.    *)

\* cancelTransportTransitionLocked
CancelTransport(s) == IF s.trans = None THEN s ELSE [s EXCEPT !.trans = None, !.load = None]

\* clearNextPreparationStateLocked
ClearNext(s) == [s EXCEPT !.next = None, !.ready = FALSE, !.pre = None, !.failed = None]

\* shouldClearBackendPreloadLocked, or the recovery that invalidatePreloadPlanLocked forces
NeedsClear(s) == s.armed \/ s.next # None \/ s.pre # None \/ (s.cur # None /\ s.loaded # None)

\* cancelPendingRetryLocked
CancelRetry(s) == [s EXCEPT !.retry = None]

\* normalizeSnapshot, as far as the status depends on the entries
Touch(s) ==
  LET a == IF s.cur = None /\ s.status \in {"playing", "pending"} THEN "paused" ELSE s.status
      empty == s.user = <<>> /\ s.cur = None /\ s.load = None
      b == IF empty THEN "idle" ELSE a
      c == IF s.load # None /\ s.cur = None THEN "pending" ELSE b
  IN  [s EXCEPT !.status = c, !.next = IF empty THEN None ELSE @]

\* switchCurrentLocked: the queue index was taken when the entry was resolved
SwitchCurrent(s, e, qi) ==
  [s EXCEPT !.user = IF qi \in 1..Len(@) THEN RemoveAt(@, qi) ELSE @, !.cur = e]

\* The snapshot next-actions are planned from: the target of a transition
\* counts as taken out of the queue.  The code removes it from a slice that
\* shares its array with the queue, so that the queue itself is shifted.
PlanningQueue(s) ==
  IF s.trans # None /\ s.trans.qi \in 1..Len(s.user) /\ s.user[s.trans.qi] = s.trans.entry
  THEN RemoveAt(s.user, s.trans.qi) ELSE s.user
AfterPlanning(s) ==
  LET n == Len(s.user) IN
  IF PlanningQueue(s) = s.user THEN s
  ELSE [s EXCEPT !.user = [k \in 1..n |->
          IF k < s.trans.qi THEN @[k] ELSE IF k < n THEN @[k + 1] ELSE @[n]]]

\* playbackCandidateFromPlannedLocked: where the entry is now
QueueIndexOf(s, e) ==
  IF s.cur = e THEN 0
  ELSE IF s.trans # None /\ s.trans.entry = e THEN s.trans.qi
  ELSE IF \E k \in 1..Len(s.user) : s.user[k] = e
       THEN CHOOSE k \in 1..Len(s.user) : s.user[k] = e /\ \A j \in 1..(k - 1) : s.user[j] # e
       ELSE 0

\* resolvePlayableFromPlan: the first planned entry that is not blocked and
\* not known to be unavailable, and the ones passed over on the way
Candidates(s, blocked) == SelectSeq(PlanningQueue(s), LAMBDA e : e \notin blocked)
Playable(s, blocked) == SelectSeq(Candidates(s, blocked), LAMBDA e : e \notin Gone)
Resolved(s, blocked) == IF Playable(s, blocked) = <<>> THEN None ELSE Head(Playable(s, blocked))
SkippedBefore(s, blocked) ==
  LET c == Candidates(s, blocked) IN
  {e \in Range(c) \cap Gone : \A k \in 1..Len(c) :
     c[k] = Resolved(s, blocked) => \E j \in 1..(k - 1) : c[j] = e}

\* preloadedActivationLocked
PreloadedReady(s, e) == s.pre = e /\ s.next = e /\ s.ready

\* shouldArmNextPreparationLocked
ShouldArm(s) == s.trans = None /\ s.load = None /\ s.status = "playing" /\ s.cur # None

\* failPlayback, failPendingPlayback
Fail(s) == Touch(CancelTransport([s EXCEPT !.status = "paused", !.load = None]))
FailPending(s) ==
  Touch(CancelTransport([s EXCEPT !.status = IF s.cur = None THEN "paused" ELSE @, !.load = None]))

\* handleInterruptedTrackEnd
Interrupted(s) ==
  Touch([CancelTransport(CancelRetry(ClearNext(s))) EXCEPT
    !.status = "paused", !.load = None, !.loaded = None])

----------------------------------------------------------------------------
(* The backend.  The playlist is the player's, from the entry it plays on;  *)
(* preload, act and attempt are fields of mpvBackend.                       *)

Active(m) == IF m.on THEN Head(m.list) ELSE None

BackendLoad(m, u) ==
  [m EXCEPT !.list = <<u>>, !.on = TRUE, !.loading = TRUE, !.preload = None, !.act = 0, !.paused = FALSE]
BackendStop(m) == [m EXCEPT !.list = <<>>, !.on = FALSE, !.loading = FALSE, !.preload = None, !.act = 0]

\* ClearPreloaded: while something plays the appended entry is only forgotten
ClearPreloaded(m) ==
  [m EXCEPT !.preload = None,
            !.list = IF m.on THEN @ ELSE SelectSeq(@, LAMBDA u : u # m.preload)]

\* The entry that was appended last is the one that is tracked.
Positions(m, u) == {k \in 1..Len(m.list) : m.list[k] = u}
CanActivate(m, u) == m.preload = u /\ m.attempt < MaxAttempts /\ Positions(m, u) # {}
BackendActivate(m, u) ==
  [m EXCEPT !.list = SubSeq(@, Max(Positions(m, u)), Len(@)), !.on = TRUE, !.loading = TRUE,
            !.attempt = @ + 1, !.act = m.attempt + 1]

CanPreload(m, u) == Active(m) = u \/ m.preload = u \/ Len(m.list) < MaxList
\* Mutant: what was appended is not remembered.
BackendPreloadForgets(m, u) ==
  IF Active(m) = u \/ m.preload = u THEN m ELSE [m EXCEPT !.list = Append(@, u)]
BackendPreload(m, u) ==
  IF Active(m) = u \/ m.preload = u THEN m
  ELSE [m EXCEPT !.list = Append(@, u), !.preload = u]

\* Overlapping or failing work is recorded; a call that runs alone mends it.
Upset(now) == upset' = IF now THEN "yes" ELSE upset

\* pushEvent; that it drops events a full channel has no room for is left out
Push(e) == Len(events) < MaxEvents /\ events' = Append(events, e)

\* The backend's event loop reads the player as it reports a file loaded.
MpvFileLoaded ==
  /\ mpv.loading
  /\ mpv' = [mpv EXCEPT !.loading = FALSE, !.act = 0,
                        !.preload = IF @ = Active(mpv) THEN None ELSE @]
  /\ Push([type |-> "loaded", uri |-> Active(mpv), attempt |-> mpv.act, ended |-> None])
  /\ UNCHANGED <<ses, calls, unused, commands, upset>>

\* The file ends; the player goes on to the next one of its playlist, if any.
MpvEndFile ==
  /\ ~mpv.loading /\ mpv.on /\ ~mpv.paused
  /\ LET rest == Tail(mpv.list)
         active == IF rest # <<>> THEN Head(rest)
                   ELSE IF mpv.preload # None THEN mpv.preload ELSE Active(mpv)
     IN  /\ mpv' = [mpv EXCEPT !.loading = rest # <<>>, !.on = rest # <<>>, !.act = 0, !.list = rest,
                               !.preload = IF @ = active THEN None ELSE @]
         /\ Push([type |-> "eof", uri |-> active, attempt |-> 0, ended |-> Active(mpv)])
  /\ Upset(Busy # {})
  /\ UNCHANGED <<ses, calls, unused, commands>>

\* The player reports an error, or that it shuts down.
MpvFault(kind) ==
  /\ kind \in {"error", "shutdown"}
  /\ commands < MaxCommands /\ commands' = commands + 1
  /\ Push([type |-> kind, uri |-> None, attempt |-> 0, ended |-> None])
  /\ UNCHANGED <<ses, mpv, calls, unused, upset>>

----------------------------------------------------------------------------
(* Commands that edit the queue: one critical section, then the backend is  *)
(* told to forget its preload.                                              *)

Overlaps == Busy # {}

Command == commands < MaxCommands /\ commands' = commands + 1

\* The section ends in s; before it the session was ses.
Edited(s, stop) ==
  /\ ses' = [s EXCEPT !.armed = IF NeedsClear(ses) \/ stop THEN FALSE ELSE @]
  /\ mpv' = LET m == IF NeedsClear(ses) THEN ClearPreloaded(mpv) ELSE mpv
            IN  IF stop THEN BackendStop(m) ELSE m
  /\ Upset(Overlaps \/ (ses.trans # None /\ s.trans = None))
  /\ UNCHANGED <<events, calls>>

QueueItems(e, first) ==
  /\ e \in unused /\ unused' = unused \ {e}
  /\ Edited(LET s == ClearNext(IF first THEN CancelTransport(ses) ELSE ses)
            IN  Touch([s EXCEPT !.user = IF first THEN <<e>> \o @ ELSE Append(@, e)]), FALSE)
  /\ UNCHANGED commands

RemoveQueuedEntry(i) ==
  /\ Command /\ i \in 1..Len(ses.user)
  /\ LET hit == ses.trans # None /\ (ses.trans.entry = ses.user[i] \/ i <= ses.trans.qi)
         s == ClearNext(IF hit THEN CancelTransport(ses) ELSE ses)
     IN  Edited(Touch(CancelRetry([s EXCEPT !.user = RemoveAt(@, i)])), FALSE)
  /\ UNCHANGED unused

MoveQueuedEntry(i, j) ==
  /\ Command /\ i \in 1..Len(ses.user) /\ j \in 1..Len(ses.user) /\ i # j
  /\ LET q == IF ses.trans = None THEN 0 ELSE ses.trans.qi
         hit == \/ ses.trans # None /\ ses.trans.entry = ses.user[i]
                \/ q # 0 /\ ((i < q /\ j >= q) \/ (i > q /\ j <= q))
         s == ClearNext(IF hit THEN CancelTransport(ses) ELSE ses)
     IN  Edited(Touch(CancelRetry([s EXCEPT !.user = InsertAt(RemoveAt(@, i), j, s.user[i])])), FALSE)
  /\ UNCHANGED unused

ClearQueue ==
  /\ Command
  /\ LET s == CancelRetry([ClearNext(CancelTransport(ses)) EXCEPT !.user = <<>>, !.load = None])
     IN  Edited(Touch(IF s.cur = None THEN [s EXCEPT !.status = "idle", !.loaded = None] ELSE s),
                ses.cur = None)
  /\ UNCHANGED unused

\* A goroutine t enters a call.
Enter(t, c) == Free(t) /\ calls' = [calls EXCEPT ![t] = c]
Begin(t, c) ==
  /\ Enter(t, c)
  /\ IF ~Overlaps /\ upset = "yes" THEN upset' = "mending" ELSE Upset(Overlaps)

\* The player is told, outside the lock, to pause or to go on, or refuses; the
\* status follows in a section of its own (PlayerTold).
Tell(pc) ==
  \/ /\ mpv' = [mpv EXCEPT !.paused = (pc = "paused")]
     /\ Enter("pause", [Idle EXCEPT !.pc = pc])
     /\ Upset(Overlaps \/ (pc = "paused" /\ events # <<>>))
  \/ Enter("pause", [Idle EXCEPT !.pc = "refused"]) /\ Upset(TRUE) /\ UNCHANGED mpv

\* Pause while the end of the track is already on its way is a race as well.
Pause == Command /\ ses.status = "playing" /\ Tell("paused") /\ UNCHANGED <<ses, events, unused>>

\* Play: nothing while something loads and nothing is current; a paused entry
\* that is loaded resumes; otherwise the current entry or the head is played.
Resume ==
  /\ Command /\ ses.cur # None /\ ses.loaded = ses.cur /\ ses.status = "paused"
  /\ Tell("resumed") /\ UNCHANGED <<ses, events, unused>>

Play ==
  /\ Command
  /\ ~(ses.load # None /\ ses.cur = None)
  /\ ~(ses.loaded = ses.cur /\ ses.status = "paused" /\ ses.cur # None)
  /\ ses.cur # None \/ ses.user # <<>>
  /\ Begin("play", [Idle EXCEPT
       !.pc = "begin", !.follow = IF ses.cur = None THEN "play" ELSE "none",
       !.entry = IF ses.cur # None THEN ses.cur ELSE Head(ses.user),
       !.qi = IF ses.cur # None THEN 0 ELSE 1, !.prev = ses.cur, !.keep = TRUE])
  /\ UNCHANGED <<ses, mpv, events, unused>>

\* The entry Next and Previous start from: a transition's target comes first.
Anchor == IF ses.trans # None THEN ses.trans.entry ELSE ses.cur

Next_ ==
  /\ Command
  /\ Begin("select", [Idle EXCEPT !.pc = "resolve", !.follow = "next", !.prev = Anchor,
                                  !.keep = TRUE, !.stop = TRUE])
  /\ UNCHANGED <<ses, mpv, events, unused>>

\* Without a context there is nothing before: the anchor itself is played.
Previous ==
  /\ Command /\ Anchor # None
  /\ Begin("select", [Idle EXCEPT !.pc = "begin", !.entry = Anchor, !.keep = TRUE])
  /\ UNCHANGED <<ses, mpv, events, unused>>

SelectEntry(i) ==
  /\ Command /\ i \in 1..Len(ses.user)
  /\ ses.user[i] \notin {ses.cur, ses.load}
  /\ Begin("select", [Idle EXCEPT !.pc = "begin", !.entry = ses.user[i], !.qi = i,
                                  !.prev = ses.cur, !.keep = TRUE])
  /\ UNCHANGED <<ses, mpv, events, unused>>

----------------------------------------------------------------------------
(* The steps of a call.                                                     *)

Goto(t, pc) == calls' = [calls EXCEPT ![t].pc = pc]
Continue(t, c) == calls' = [calls EXCEPT ![t] = c]

\* How a call of playEntry returns to its caller.
Returned(t, c) ==
  IF c.follow = "next" /\ c.blocked # {} THEN [c EXCEPT !.pc = "consume"]
  ELSE IF t = "retry" THEN [c EXCEPT !.pc = "settle", !.stop = FALSE] ELSE Idle
Errored(t, c) == IF t = "retry" THEN [c EXCEPT !.pc = "settle", !.stop = TRUE] ELSE Idle
Unavailable(t, c) ==
  IF c.follow = "none" THEN Errored(t, c)
  ELSE [c EXCEPT !.pc = "resolve", !.blocked = @ \cup {c.entry}, !.follow = "next",
                 !.stop = @ \/ c.follow = "play"]

\* playNextAvailable: resolve the next candidate; without one, stop or settle.
\* An activation that is under way then goes on, though nothing is shown as loading.
Resolve(t) ==
  LET c == calls[t] e == Resolved(ses, c.blocked)
      skipped == c.blocked \cup SkippedBefore(ses, c.blocked)
      s == AfterPlanning(ses)
      kept == IF c.prev # None /\ s.cur = None THEN [s EXCEPT !.cur = c.prev] ELSE s
      stopped == Touch([ClearNext(kept) EXCEPT !.status = "paused", !.loaded = None,
                                               !.load = None, !.armed = FALSE])
  IN  /\ c.pc = "resolve"
      /\ \/ /\ e # None
            /\ ses' = s /\ UNCHANGED mpv
            /\ Continue(t, [c EXCEPT !.pc = "begin", !.entry = e, !.qi = QueueIndexOf(s, e),
                                     !.blocked = skipped])
         \/ /\ e = None /\ skipped # {} /\ c.stop
            /\ ses' = stopped /\ mpv' = BackendStop(mpv)
            /\ Continue(t, IF t = "retry" THEN Returned(t, [c EXCEPT !.blocked = {}]) ELSE Idle)
         \/ /\ e = None /\ (skipped = {} \/ ~c.stop)
            /\ ses' = IF skipped = {} THEN s ELSE Touch([ClearNext(s) EXCEPT !.load = None])
            /\ UNCHANGED mpv
            /\ Continue(t, IF t = "retry" THEN Returned(t, [c EXCEPT !.blocked = {}]) ELSE Idle)
      /\ Upset(ses.trans # None /\ ses'.load # ses.load)
      /\ UNCHANGED <<events, unused, commands>>

\* playEntry, up to the choice between the preloaded entry and a direct load.
\* Mutant: a transition that is under way is left alone.
PlayBeginKeepsTransition(t) ==
  LET c == calls[t] ready == PreloadedReady(ses, c.entry) s == CancelRetry(ses)
  IN  /\ c.pc = "begin"
      /\ ses' = IF ready THEN s ELSE [ClearNext(s) EXCEPT !.armed = FALSE]
      /\ mpv' = IF ~ready /\ NeedsClear(s) THEN ClearPreloaded(mpv) ELSE mpv
      /\ Goto(t, IF ready THEN "activate" ELSE "prepare")
      /\ UNCHANGED <<events, unused, commands, upset>>

PlayBegin(t) ==
  LET c == calls[t] ready == PreloadedReady(ses, c.entry)
      s == CancelTransport(CancelRetry(ses))
  IN  /\ c.pc = "begin"
      /\ ses' = IF ready THEN s ELSE [ClearNext(s) EXCEPT !.armed = FALSE]
      /\ mpv' = IF ~ready /\ NeedsClear(s) THEN ClearPreloaded(mpv) ELSE mpv
      /\ Goto(t, IF ready THEN "activate" ELSE "prepare")
      /\ upset' = IF ses.trans # None /\ upset = "no" THEN "mending" ELSE upset
      /\ UNCHANGED <<events, unused, commands>>

\* The backend activates what it has preloaded, or cannot.
Activate(t) ==
  LET c == calls[t] u == UriOf[c.entry] IN
  /\ c.pc = "activate"
  /\ IF CanActivate(mpv, u)
     THEN /\ mpv' = BackendActivate(mpv, u)
          /\ Continue(t, [c EXCEPT !.pc = "activated", !.attempt = mpv.attempt + 1])
          /\ UNCHANGED ses
     ELSE /\ mpv' = ClearPreloaded(mpv)
          /\ ses' = [ClearNext(ses) EXCEPT !.armed = FALSE]
          /\ Goto(t, "prepare")
  /\ UNCHANGED <<events, unused, commands, upset>>

Activated(t) ==
  LET c == calls[t] IN
  /\ c.pc = "activated"
  /\ ses' = Touch(CancelRetry([ses EXCEPT
       !.trans = [entry |-> c.entry, qi |-> c.qi, prev |-> c.prev, attempt |-> c.attempt],
       !.load = c.entry]))
  /\ Continue(t, Returned(t, c))
  /\ UNCHANGED <<mpv, events, unused, commands, upset>>

\* PreparePlaybackTarget answers that the entry is being fetched or transcoded
\* and is retried later, that it is unavailable, or the call fails.
Prepare(t) ==
  LET c == calls[t]
      replace == ses.cur = None \/ ~c.keep
      s == IF replace THEN [ses EXCEPT !.cur = None, !.status = "pending", !.loaded = None] ELSE ses
  IN  /\ c.pc = "prepare" /\ c.follow # "pending"
      /\ \/ /\ c.entry \notin Gone
            /\ ses' = Touch([ClearNext(s) EXCEPT !.load = c.entry, !.retry = c.entry])
            /\ mpv' = IF replace THEN BackendStop(mpv) ELSE mpv
            /\ Continue(t, Returned(t, c)) /\ UNCHANGED <<commands, upset>>
         \/ /\ IF c.entry \in Gone THEN UNCHANGED commands ELSE Command
            /\ Continue(t, Unavailable(t, c)) /\ UNCHANGED <<ses, mpv, upset>>
         \/ Command /\ Upset(TRUE) /\ Continue(t, Errored(t, c)) /\ UNCHANGED <<ses, mpv>>
      /\ UNCHANGED <<events, unused>>

\* It is ready, and the backend loads and plays it.  A pending retry, which
\* knows that its entry is ready, starts here.  A failed load ends the call.
Load(t) ==
  LET c == calls[t] IN
  /\ c.pc = "prepare" /\ c.entry \notin Gone
  /\ \/ /\ mpv' = BackendLoad(mpv, UriOf[c.entry]) /\ UNCHANGED <<commands, upset>>
        /\ Continue(t, [c EXCEPT !.pc = "commit", !.prev = None, !.keep = FALSE])
     \/ Command /\ Upset(TRUE) /\ UNCHANGED mpv /\ Continue(t, Errored(t, c))
  /\ UNCHANGED <<ses, events, unused>>

Replays(e) == \E k \in 1..Len(events) : events[k].ended = UriOf[e]

\* The end of playEntry; what was resolved before the load is now applied.
Commit(t) ==
  LET c == calls[t] IN
  /\ c.pc = "commit" /\ c.follow # "pending"
  /\ ses' = Touch([CancelRetry(ClearNext(SwitchCurrent(ses, c.entry, c.qi))) EXCEPT
       !.load = None, !.status = "playing", !.loaded = c.entry, !.armed = FALSE])
  /\ Continue(t, [Idle EXCEPT !.pc = "arm", !.follow = c.follow, !.blocked = c.blocked])
  /\ upset' = IF Replays(c.entry) THEN "yes"
              ELSE IF upset = "mending" /\ events = <<>> THEN "no" ELSE upset
  /\ UNCHANGED <<mpv, events, unused, commands>>

\* completePendingPlayback
CommitPending(t) ==
  LET c == calls[t]
      qi == IF \E k \in 1..Len(ses.user) : ses.user[k] = c.entry
            THEN CHOOSE k \in 1..Len(ses.user) :
                   ses.user[k] = c.entry /\ \A j \in 1..(k - 1) : ses.user[j] # c.entry
            ELSE 0
  IN  /\ c.pc = "commit" /\ c.follow = "pending"
      /\ ses' = Touch([CancelRetry(SwitchCurrent(ses, c.entry, qi)) EXCEPT
           !.load = None, !.status = "playing", !.loaded = c.entry, !.armed = FALSE, !.trans = None])
      /\ Continue(t, Idle)
      /\ Upset(Replays(c.entry))
      /\ UNCHANGED <<mpv, events, unused, commands>>

\* consumeSkippedUserEntries
Consume(t) ==
  LET c == calls[t] IN
  /\ c.pc = "consume"
  /\ ses' = Touch([ses EXCEPT !.user = SelectSeq(@, LAMBDA e : e \notin c.blocked)])
  /\ Continue(t, Returned(t, [c EXCEPT !.blocked = {}]))
  /\ UNCHANGED <<mpv, events, unused, commands, upset>>

\* preloadNext: forget the next entry, or ask for its preparation.
Arm(t) ==
  LET c == calls[t] e == Resolved(ses, {}) s == AfterPlanning(ses)
      done == Returned(t, c)
  IN  /\ c.pc = "arm"
      /\ IF ~ShouldArm(ses) \/ e = None \/ e = ses.cur
         THEN /\ ses' = [ClearNext(IF ShouldArm(ses) THEN s ELSE ses) EXCEPT !.armed = FALSE]
              /\ mpv' = ClearPreloaded(mpv)
              /\ Continue(t, done)
         ELSE /\ ses' = s /\ UNCHANGED mpv
              /\ IF s.next = e /\ s.ready /\ s.pre = e THEN Continue(t, done)
                 ELSE Continue(t, [c EXCEPT !.pc = "apply", !.uri = e])
      /\ UNCHANGED <<events, unused, commands, upset>>

\* applyNextPreparationStatus: the answer is kept whatever has changed since.
Apply(t) ==
  LET c == calls[t] e == c.uri
      s == [ses EXCEPT !.next = e, !.failed = IF @ = e THEN @ ELSE None]
  IN  /\ c.pc = "apply"
      /\ \/ /\ ses' = [s EXCEPT !.ready = FALSE, !.pre = None, !.armed = FALSE]
            /\ mpv' = ClearPreloaded(mpv)
            /\ Continue(t, Returned(t, c))
         \/ /\ ses' = [s EXCEPT !.ready = TRUE]
            /\ UNCHANGED mpv
            /\ IF ShouldArm(s) /\ s.failed # e THEN Goto(t, "append") ELSE Continue(t, Returned(t, c))
      /\ UNCHANGED <<events, unused, commands, upset>>

AppendPreload(t) ==
  LET c == calls[t] u == UriOf[c.uri] IN
  /\ c.pc = "append"
  /\ \/ /\ CanPreload(mpv, u) /\ mpv' = BackendPreload(mpv, u)
        /\ Goto(t, "arming") /\ UNCHANGED <<ses, commands>>
     \/ /\ Command /\ ses' = [ses EXCEPT !.failed = c.uri]
        /\ UNCHANGED mpv /\ Continue(t, Returned(t, c))
  /\ UNCHANGED <<events, unused, upset>>

Armed(t) ==
  LET c == calls[t] IN
  /\ c.pc = "arming"
  /\ ses' = [ses EXCEPT !.failed = None, !.pre = c.uri, !.armed = TRUE, !.next = c.uri, !.ready = TRUE]
  /\ Continue(t, Returned(t, c))
  /\ UNCHANGED <<mpv, events, unused, commands, upset>>

\* The end of Pause, of the Play that resumes, or failPlayback: whatever the
\* session has become while the player was told.
PlayerTold(t) ==
  LET c == calls[t] IN
  /\ \/ c.pc = "paused" /\ ses' = Touch([ses EXCEPT !.status = "paused"])
     \/ c.pc = "resumed" /\ ses' = Touch([ses EXCEPT !.status = "playing"])
     \/ c.pc = "refused" /\ ses' = Fail(ses)
  /\ Continue(t, Idle)
  /\ UNCHANGED <<mpv, events, unused, commands, upset>>

CallStep(t) ==
  \/ Resolve(t) \/ PlayBegin(t) \/ Activate(t) \/ Activated(t) \/ Prepare(t) \/ Load(t)
  \/ Commit(t) \/ CommitPending(t) \/ Consume(t)
  \/ Arm(t) \/ Apply(t) \/ AppendPreload(t) \/ Armed(t) \/ PlayerTold(t)

----------------------------------------------------------------------------
(* The ticker, the retry of a pending entry and the transport timer.        *)

TickPreload ==
  /\ ShouldArm(ses) /\ Free("tick")
  /\ ~(ses.pre # None /\ ses.next = ses.pre /\ ses.ready)
  /\ Begin("tick", [Idle EXCEPT !.pc = "arm"])
  /\ UNCHANGED <<ses, mpv, events, unused, commands>>

\* tryPendingPlayback: the entry is ready, or has become unavailable.
RetryReady ==
  /\ ses.retry # None /\ ses.load = ses.retry
  /\ Begin("retry", [Idle EXCEPT !.pc = "prepare", !.entry = ses.retry, !.follow = "pending"])
  /\ UNCHANGED <<ses, mpv, events, unused, commands>>

RetryUnavailable ==
  /\ Command /\ ses.retry # None /\ ses.load = ses.retry
  /\ Begin("retry", [Idle EXCEPT !.pc = "resolve", !.follow = "next", !.keep = ses.cur # None,
                                 !.stop = ses.cur = None])
  /\ UNCHANGED <<ses, mpv, events, unused>>

\* The end of tryPendingPlayback: after a fall-through whatever retry is
\* registered now is dropped, after a failed load only its own.
RetrySettle ==
  LET c == calls["retry"] IN
  /\ c.pc = "settle"
  /\ LET s == IF c.stop THEN FailPending(ses) ELSE ses
     IN  ses' = IF c.follow = "pending" /\ ses.retry # c.entry THEN s ELSE CancelRetry(s)
  /\ Continue("retry", Idle)
  /\ UNCHANGED <<mpv, events, unused, commands, upset>>

\* finishPendingRetry after two minutes
RetryTimeout ==
  /\ ses.retry # None /\ "retry" \notin Busy
  /\ ses' = Touch([CancelRetry(ses) EXCEPT !.status = IF ses.cur = None THEN "paused" ELSE @,
                                           !.load = None])
  /\ Upset(Overlaps)
  /\ UNCHANGED <<mpv, events, calls, unused, commands>>

\* startTransportRetry: the activation was not confirmed, so load directly.
TransportTimeout ==
  /\ ses.trans # None
  /\ Enter("timer", [Idle EXCEPT !.pc = "begin", !.entry = ses.trans.entry, !.qi = ses.trans.qi,
                                 !.prev = ses.trans.prev, !.keep = TRUE])
  /\ ses' = Touch([CancelTransport(ClearNext(ses)) EXCEPT !.armed = FALSE])
  /\ mpv' = ClearPreloaded(mpv)
  /\ upset' = IF Overlaps THEN "yes" ELSE "mending"
  /\ UNCHANGED <<events, unused, commands>>

----------------------------------------------------------------------------
(* The event goroutine handles one event after the other.                   *)

Event == Head(events)
Handle(type) ==
  /\ events # <<>> /\ Event.type = type /\ "event" \notin Busy
  /\ events' = Tail(events)

\* handleFileLoaded: only the activation the transition waits for completes it.
FileLoaded ==
  /\ Handle("loaded")
  /\ IF ses.trans # None /\ Event.attempt = ses.trans.attempt
     THEN /\ Begin("event", [Idle EXCEPT !.pc = "arm"])
          /\ ses' = Touch([CancelRetry(ClearNext(
               SwitchCurrent(ses, ses.trans.entry, ses.trans.qi))) EXCEPT
               !.load = None, !.trans = None, !.status = "playing",
               !.loaded = ses.trans.entry, !.armed = FALSE])
     ELSE Upset(Overlaps) /\ UNCHANGED <<ses, calls>>
  /\ UNCHANGED <<mpv, unused, commands>>

\* The end of a track far from its end, or with an error, is an interruption.
TrackInterrupted ==
  /\ Handle("eof") /\ Command
  /\ ses.status = "playing" /\ ses.cur # None
  /\ ses' = [Interrupted(ses) EXCEPT !.armed = FALSE]
  /\ mpv' = ClearPreloaded(mpv)
  /\ Upset(TRUE)
  /\ UNCHANGED <<calls, unused>>

\* handleTrackEOF, the part before the next entry is resolved.
TrackEOF ==
  LET ignored == \/ ses.status # "playing" \/ ses.trans # None
                 \/ ses.loaded # None /\ Event.ended # UriOf[ses.loaded]
  IN  /\ Handle("eof")
      /\ \/ ignored /\ Upset(Overlaps) /\ UNCHANGED <<ses, mpv, calls>>
         \/ /\ ~ignored /\ ses.load # None
            /\ ses' = Touch([ClearNext(ses) EXCEPT !.status = "pending", !.loaded = None,
                                                   !.cur = None, !.armed = FALSE])
            /\ mpv' = BackendStop(mpv)
            /\ Upset(Overlaps) /\ UNCHANGED calls
         \/ /\ ~ignored /\ ses.load = None
            /\ Begin("event", [Idle EXCEPT !.pc = "eof", !.prev = ses.cur, !.uri = Event.uri,
                                           !.entry = ses.pre])
            /\ UNCHANGED <<ses, mpv>>
      /\ UNCHANGED <<unused, commands>>

\* The preloaded entry that has taken over becomes the current one.
\* Mutant: which entry is loaded is not noted.
TakeOverUnnoted(s, e, qi) ==
  Touch([ClearNext(SwitchCurrent(s, e, qi)) EXCEPT !.status = "playing", !.armed = FALSE])
TakeOver(s, e, qi) ==
  Touch([ClearNext(SwitchCurrent(s, e, qi)) EXCEPT
    !.status = "playing", !.loaded = e, !.armed = FALSE])

\* ... and the part after: the preloaded entry has taken over, or another one
\* is played, or nothing is left.  c.entry is what was preloaded at the event.
TrackEnded ==
  LET c == calls["event"] e == Resolved(ses, {}) s == AfterPlanning(ses)
      matches == e # None /\ s.pre = e /\ c.entry # None /\ c.uri = UriOf[c.entry]
  IN  /\ c.pc = "eof"
      /\ ses' = s
      /\ LET call == [Idle EXCEPT !.prev = c.prev] IN
         Continue("event",
           IF matches THEN [call EXCEPT !.pc = "takeover", !.entry = e, !.qi = QueueIndexOf(s, e)]
           ELSE IF e # None THEN [call EXCEPT !.pc = "resolve", !.follow = "next", !.stop = TRUE]
           ELSE [call EXCEPT !.pc = "over", !.blocked = SkippedBefore(ses, {})])
      /\ UNCHANGED <<mpv, events, unused, commands, upset>>

\* What was resolved is applied to whatever the session is by then.
TakenOver ==
  LET c == calls["event"] IN
  /\ c.pc = "takeover"
  /\ ses' = TakeOver(ses, c.entry, c.qi)
  /\ Continue("event", [Idle EXCEPT !.pc = "arm"])
  /\ UNCHANGED <<mpv, events, unused, commands, upset>>

PlayedOut ==
  LET c == calls["event"]
      over == [ClearNext(ses) EXCEPT !.status = "paused", !.loaded = None, !.armed = FALSE]
  IN  /\ c.pc = "over"
      /\ ses' = Touch(IF c.blocked = {} THEN over
                      ELSE [over EXCEPT !.load = None, !.cur = IF @ = None THEN c.prev ELSE @])
      /\ mpv' = BackendStop(mpv) /\ Continue("event", Idle)
      /\ UNCHANGED <<events, unused, commands, upset>>

\* The session says paused, whatever the player does next.
BackendError ==
  /\ Handle("error")
  /\ ses' = Fail(ses)
  /\ Upset(TRUE)
  /\ UNCHANGED <<mpv, calls, unused, commands>>

BackendShutdown ==
  /\ Handle("shutdown")
  /\ ses' = Touch([CancelTransport(ses) EXCEPT !.status = "paused"])
  /\ Upset(TRUE)
  /\ UNCHANGED <<mpv, calls, unused, commands>>

----------------------------------------------------------------------------
Init ==
  /\ ses = [user |-> Restored, cur |-> None, status |-> IF Restored = <<>> THEN "idle" ELSE "paused", load |-> None, retry |-> None,
            trans |-> None, pre |-> None, next |-> None, ready |-> FALSE, loaded |-> None,
            armed |-> FALSE, failed |-> None]
  /\ mpv = [list |-> <<>>, on |-> FALSE, loading |-> FALSE, paused |-> FALSE, preload |-> None,
            attempt |-> 0, act |-> 0]
  /\ events = <<>> /\ calls = [t \in Thread |-> Idle]
  /\ unused = Entry \ Range(Restored) /\ commands = 0 /\ upset = "no"

UserStep ==
  \/ \E e \in Entry, first \in BOOLEAN : QueueItems(e, first)
  \/ \E i \in 1..Len(ses.user) : RemoveQueuedEntry(i) \/ SelectEntry(i)
  \/ \E i, j \in 1..Len(ses.user) : MoveQueuedEntry(i, j)
  \/ ClearQueue \/ Pause \/ Resume \/ Play \/ Next_ \/ Previous

EventStep ==
  \/ FileLoaded \/ TrackInterrupted \/ TrackEOF \/ TrackEnded \/ TakenOver \/ PlayedOut
  \/ BackendError \/ BackendShutdown
TimerStep == TickPreload \/ RetryReady \/ RetryUnavailable \/ RetrySettle \/ RetryTimeout \/ TransportTimeout
PlayerStep == MpvFileLoaded \/ MpvEndFile \/ (\E k \in {"error", "shutdown"} : MpvFault(k))

Next == UserStep \/ EventStep \/ TimerStep \/ PlayerStep \/ \E t \in Thread : CallStep(t)

Spec == Init /\ [][Next]_vars

----------------------------------------------------------------------------
(* Properties.                                                              *)

\* The session, the player and the calls in flight are of their types.
TransportTypeOK ==
  /\ ses.user \in Seq(Entry) /\ ses.status \in {"idle", "paused", "pending", "playing"}
  /\ {ses.cur, ses.load, ses.retry, ses.pre, ses.next, ses.loaded, ses.failed} \subseteq Entry \cup {None}
  /\ ses.trans # None => ses.trans.entry \in Entry /\ ses.trans.attempt \in 1..MaxAttempts
  /\ mpv.list \in Seq(Uri) /\ (mpv.on => mpv.list # <<>>) /\ (mpv.loading => mpv.on)
  /\ Len(events) <= MaxEvents /\ Cardinality(Busy) <= MaxCalls
  /\ upset \in {"no", "mending", "yes"}

Quiet == Busy = {} /\ events = <<>> /\ ~mpv.loading
Settled == Quiet /\ upset = "no"

\* What the session shows as playing is the file the player plays, once calls
\* and events are over: playEntry, handleFileLoaded, handleTrackEOF and
\* completePendingPlayback all switch the current entry on their own.
PlayerInStep ==
  Settled /\ ses.status = "playing" /\ ses.load = None =>
    ses.loaded = ses.cur /\ Active(mpv) = UriOf[ses.loaded]

\* While nothing plays according to the session, the player is silent.
SilentUnlessPlaying ==
  Settled /\ ses.status # "playing" /\ ses.load = None => ~mpv.on \/ mpv.paused

\* A preloaded entry that is still queued is the one that comes next, and the
\* player holds it: preloadNext registers it after the backend call without
\* looking at the queue again.
PreloadIsNext ==
  Settled /\ ses.trans = None /\ ses.pre \in Range(ses.user) =>
    ses.pre = Resolved(ses, {}) /\ mpv.preload = UriOf[ses.pre]

\* The entry that is shown as loading is the target of the activation that the
\* session waits for, so that a late file-loaded event or timer settles it.
TransitionLoads == ses.trans # None /\ upset = "no" => ses.load = ses.trans.entry

\* Once calls and events are over, the session shows what the player does.
PlayerFollows == TransportTypeOK /\ PlayerInStep /\ SilentUnlessPlaying
=============================================================================
