------------------------------ MODULE PinScopes ------------------------------
(***************************************************************************)
(* Pins over the asset cache (service_pin.go and the pin jobs of           *)
(* service_playback.go): a pinned scope resolves to recordings, a job      *)
(* fetches those that are not held, reconcileScope writes what the scope   *)
(* holds, and timers refresh the scopes that still wait or that a catalog  *)
(* event touched.  A reconcile reads in many statements and writes in one  *)
(* transaction that does not look again; jobs are deduplicated by id.      *)
(***************************************************************************)
EXTENDS AssetCache

CONSTANT Tracks   \* what the scopes resolve to at first

ASSUME TracksAssumption == Tracks \in [Scope -> SUBSET Rec]

VARIABLES
    content,   \* what a scope resolves to: the album's or playlist's recordings
    root,      \* pin_roots: "none", or by its pending_count "clear" or "pending"
    members,   \* pin_members
    timer,     \* refreshTimers: a refresh of the scope is due
    work       \* the StartPin call, the pin job and the refresh job of each scope

pinVars == <<content, root, members, timer, work>>
vars    == <<cacheVars, pinVars>>

Kind   == {"call", "pin", "refresh"}
WorkAt == {"idle", "begin", "fetch", "stored", "read", "commit", "close"}

NoPlan == [members |-> {}, pending |-> FALSE, held |-> {}]
Idle   == [pc |-> "idle", todo |-> {}, at |-> None, wait |-> FALSE, plan |-> NoPlan]

On(s, k, pc) == work[s][k].pc = pc

Becomes(s, k, w) == work' = [work EXCEPT ![s][k] = w]

RefsOf(s) == {p \in refs : p[1] = s}
HeldBy(s) == {p[2] : p \in RefsOf(s)}

\* resolvePinScope, resolveRecordingPinTarget: the recordings of the scope now.
Resolved(s) == content[s]

\* Neither a source file here nor a flagged encoding; the file behind the flag is not looked at.
Missing(s) == Resolved(s) \ (Local \cup cached)

\* startActiveLibraryJob: an active job of the same id is left to do the work.
StartJob(w, s, k, ids) ==
    IF w[s][k].pc = "idle" THEN [w EXCEPT ![s][k] = [Idle EXCEPT !.pc = "begin", !.todo = ids]] ELSE w

(***************************************************************************)
(* StartPin and Unpin.                                                     *)
(***************************************************************************)
\* StartPin resolves the scope, writes the root and goes on to reconcile it.
StartPin(s) ==
    /\ On(s, "call", "idle") /\ Happens
    /\ root' = [root EXCEPT ![s] = IF @ = "none" THEN "clear" ELSE @]
    /\ Becomes(s, "call", [Idle EXCEPT !.pc = "read", !.todo = Resolved(s)])
    /\ UNCHANGED <<assetVars, refs, online, encVars, prepVars, sweepVars, slips, content, members, timer>>

\* deletePinRoot, in one transaction; jobs, timers and reconciles under way go on.
Unpin(s) ==
    /\ root[s] # "none" /\ Happens
    /\ root' = [root EXCEPT ![s] = "none"]
    /\ members' = [members EXCEPT ![s] = {}]
    /\ refs' = refs \ RefsOf(s)
    /\ sworn' = {r \in sworn : \E p \in refs' : p[2] = r}
    /\ slips' = slips \cup {<<"unpinned", s>> : k \in {k \in Kind : On(s, k, "commit")}}
    /\ UNCHANGED <<assetVars, online, encVars, prepVars, sweep, swept, content, timer, work>>

\* The call ends by starting the pin job.
StartPinJob(s) ==
    /\ On(s, "call", "close")
    /\ work' = StartJob([work EXCEPT ![s]["call"] = Idle], s, "pin", work[s]["call"].todo)
    /\ slips' = slips \cup (IF On(s, "pin", "idle") THEN {} ELSE {<<"pin job", s>>})
    /\ UNCHANGED <<assetVars, refs, online, encVars, prepVars, sweepVars, events, content, root, members, timer>>

(***************************************************************************)
(* The jobs: what can be fetched is fetched, the rest waits for a retry.   *)
(***************************************************************************)
\* recordingsReadyForPinFetch.
Ready(ids) == IF online THEN ids ELSE ids \cap (Local \cup cached)

Planned(s, k, ids) ==
    Becomes(s, k, [work[s][k] EXCEPT !.pc = "fetch", !.todo = Ready(ids), !.wait = ids # Ready(ids)])

\* runRecordingPinJob and runPinScopeJob work on the recordings StartPin resolved.
PinBegin(s) ==
    /\ On(s, "pin", "begin")
    /\ Planned(s, "pin", work[s]["pin"].todo)
    /\ UNCHANGED <<cacheVars, content, root, members, timer>>

\* runPinScopeRefreshJob resolves the scope again and keeps what is not held.
RefreshBegin(s) ==
    /\ On(s, "refresh", "begin")
    /\ IF root[s] = "none"
       THEN Becomes(s, "refresh", [Idle EXCEPT !.pc = "close"]) /\ UNCHANGED slips
       ELSE Planned(s, "refresh", Missing(s)) /\ slips' = {x \in slips : x[2] # s}
    /\ UNCHANGED <<assetVars, refs, online, encVars, prepVars, sweepVars, events, content, root, members, timer>>

\* prepareRecordingPinResult of one recording: held, fetched, or left for the retry.
FetchOne(s, k, r) ==
    /\ On(s, k, "fetch") /\ r \in work[s][k].todo
    /\ LET w == [work[s][k] EXCEPT !.todo = @ \ {r}] IN
       \/ /\ r \in cached
          /\ Becomes(s, k, [w EXCEPT !.wait = @ \/ r \notin blob])
          /\ UNCHANGED assetVars
       \/ /\ r \notin cached /\ r \in Local
          /\ Becomes(s, k, w)
          /\ UNCHANGED assetVars
       \/ /\ r \notin cached \cup Local /\ online
          /\ StoreFetched(r)
          /\ Becomes(s, k, [w EXCEPT !.pc = "stored", !.at = r])
       \/ /\ r \notin cached \cup Local /\ ~online
          /\ Becomes(s, k, [w EXCEPT !.wait = TRUE])
          /\ UNCHANGED assetVars
    /\ UNCHANGED <<refs, online, encVars, prepVars, sweepVars, slips, events, content, root, members, timer>>

\* Mutant: a fetch that failed is not counted as pending.
FetchOneFailsUncounted(s, k, r) ==
    /\ On(s, k, "fetch") /\ r \in work[s][k].todo \ (cached \cup Local) /\ Happens
    /\ Becomes(s, k, [work[s][k] EXCEPT !.todo = @ \ {r}])
    /\ UNCHANGED <<assetVars, refs, online, encVars, prepVars, sweepVars, slips, content, root, members, timer>>

FetchOneFails(s, k, r) ==
    /\ On(s, k, "fetch") /\ r \in work[s][k].todo \ (cached \cup Local) /\ Happens
    /\ Becomes(s, k, [work[s][k] EXCEPT !.todo = @ \ {r}, !.wait = TRUE])
    /\ UNCHANGED <<assetVars, refs, online, encVars, prepVars, sweepVars, slips, content, root, members, timer>>

CommitOne(s, k) ==
    /\ On(s, k, "stored")
    /\ CommitFetched(work[s][k].at)
    /\ Becomes(s, k, [work[s][k] EXCEPT !.pc = "fetch", !.at = None])
    /\ UNCHANGED <<refs, online, encVars, prepVars, sweepVars, slips, events, content, root, members, timer>>

(***************************************************************************)
(* reconcileScope.                                                         *)
(***************************************************************************)
Reading(s, k) == On(s, k, "read") \/ (On(s, k, "fetch") /\ work[s][k].todo = {})

Plan(s) == [members |-> Resolved(s),
            pending |-> Missing(s) # {},
            held    |-> Resolved(s) \cap cached]

Written(s) == [members |-> members[s], pending |-> root[s] = "pending", held |-> HeldBy(s)]

\* The root, the members, what is pending and what is held are read; equal rows are left alone.
\* The call and the jobs of a scope do not exclude each other: an older plan may be written after.
ReconcileRead(s, k) ==
    /\ Reading(s, k)
    /\ Becomes(s, k,
         IF root[s] = "none" \/ Plan(s) = Written(s)
         THEN [work[s][k] EXCEPT !.pc = "close"]
         ELSE [work[s][k] EXCEPT !.pc = "commit", !.plan = Plan(s)])
    /\ slips' = slips \cup {<<"overtaken", s>> : j \in {j \in Kind \ {k} : On(s, j, "commit")}}
    /\ UNCHANGED <<assetVars, refs, online, encVars, prepVars, sweepVars, events, content, root, members, timer>>

\* One transaction replaces the members and the references; the root is updated if it is there.
ReconcileCommit(s, k) ==
    /\ On(s, k, "commit")
    /\ LET plan == work[s][k].plan IN
       /\ members' = [members EXCEPT ![s] = plan.members]
       /\ refs' = (refs \ RefsOf(s)) \cup ({s} \X plan.held)
       /\ root' = [root EXCEPT ![s] = IF @ = "none" THEN @ ELSE IF plan.pending THEN "pending" ELSE "clear"]
       /\ sworn' = {r \in sworn : \E p \in refs' : p[2] = r}
    /\ Becomes(s, k, [work[s][k] EXCEPT !.pc = "close", !.plan = NoPlan])
    /\ UNCHANGED <<assetVars, online, encVars, prepVars, sweep, swept, slips, events, content, timer>>

\* A read or the transaction fails: the call or the job ends, without a retry.
ReconcileFails(s, k) ==
    /\ (Reading(s, k) \/ On(s, k, "commit")) /\ Happens
    /\ Becomes(s, k, Idle)
    /\ slips' = slips \cup {<<"failed", s>>}
    /\ UNCHANGED <<assetVars, refs, online, encVars, prepVars, sweepVars, content, root, members, timer>>

\* Mutant: only the refresh job asks for a retry.
JobDoneRetries(s, k) ==
    /\ k # "call" /\ On(s, k, "close")
    /\ timer' = [timer EXCEPT ![s] = @ \/ (k = "refresh" /\ work[s][k].wait)]
    /\ Becomes(s, k, Idle)
    /\ UNCHANGED <<cacheVars, content, root, members>>

\* The job is complete; what still waits is refreshed after the retry delay.
JobDone(s, k) ==
    /\ k # "call" /\ On(s, k, "close")
    /\ timer' = [timer EXCEPT ![s] = @ \/ work[s][k].wait]
    /\ Becomes(s, k, Idle)
    /\ UNCHANGED <<cacheVars, content, root, members>>

(***************************************************************************)
(* The timers and what sets them.                                          *)
(***************************************************************************)
\* The timer is forgotten, then its job started, unless the last one is still active.
TimerFires(s) ==
    /\ timer[s]
    /\ timer' = [timer EXCEPT ![s] = FALSE]
    /\ work' = StartJob(work, s, "refresh", {})
    /\ slips' = slips \cup (IF On(s, "refresh", "idle") THEN {} ELSE {<<"refresh", s>>})
    /\ UNCHANGED <<assetVars, refs, online, encVars, prepVars, sweepVars, events, content, root, members>>

\* The scope's tracks change, here or by sync: a base event refreshes the roots it names.
CatalogChange(s, recs) ==
    /\ Happens /\ recs # content[s]
    /\ content' = [content EXCEPT ![s] = recs]
    /\ timer' = [timer EXCEPT ![s] = @ \/ root[s] # "none"]
    /\ UNCHANGED <<assetVars, refs, online, encVars, prepVars, sweepVars, slips, root, members, work>>

\* A provider comes or goes: availability is invalidated and the pending roots are refreshed.
AvailabilityChange ==
    /\ Happens
    /\ online' = ~online
    /\ timer' = [s \in Scope |-> timer[s] \/ root[s] = "pending"]
    /\ UNCHANGED <<assetVars, refs, encVars, prepVars, sweepVars, slips, content, root, members, work>>

\* The process ends at any step; rows and files stay, and the runtime starts by refreshing every root.
Restart ==
    /\ Happens
    /\ flights' = [r \in Rec |-> None]
    /\ enc' = [e \in Encoder |-> [pc |-> "idle", rec |-> None]]
    /\ prep' = [r \in Played |-> "none"] /\ active' = [r \in Played |-> FALSE]
    /\ runs' = [r \in Played |-> [k \in Run |-> "none"]]
    /\ sweep' = NoSweep /\ sworn' = {}
    /\ work' = [s \in Scope |-> [k \in Kind |-> Idle]]
    /\ timer' = [s \in Scope |-> root[s] # "none"]
    /\ UNCHANGED <<assetVars, refs, online, swept, slips, content, root, members>>

Init ==
    /\ CacheInit
    /\ content = Tracks
    /\ root = [s \in Scope |-> "none"] /\ members = [s \in Scope |-> {}]
    /\ timer = [s \in Scope |-> FALSE]
    /\ work = [s \in Scope |-> [k \in Kind |-> Idle]]

JobStep(s) ==
    \/ StartPinJob(s) \/ PinBegin(s) \/ RefreshBegin(s) \/ TimerFires(s)
    \/ \E k \in Kind :
         \/ \E r \in Rec : FetchOne(s, k, r)
         \/ CommitOne(s, k) \/ ReconcileRead(s, k) \/ ReconcileCommit(s, k) \/ JobDone(s, k)

PinSteps ==
    \E s \in Scope :
      \/ StartPin(s) \/ Unpin(s) \/ JobStep(s)
      \/ \E k \in Kind : ReconcileFails(s, k) \/ \E r \in Rec : FetchOneFails(s, k, r)
      \/ \E recs \in SUBSET Rec : CatalogChange(s, recs)

Next ==
    \/ CacheNext /\ UNCHANGED pinVars
    \/ PinSteps
    \/ AvailabilityChange
    \/ Restart

Spec == Init /\ [][Next]_vars

\* Jobs are goroutines and timers run out; nobody has to call, and providers need not come.
Fairness == \A s \in Scope : WF_vars(JobStep(s))

FairSpec == Spec /\ Fairness

(***************************************************************************)
(* Properties.                                                             *)
(***************************************************************************)
\* The type invariant.
PinTypeOK ==
    /\ CacheTypeOK
    /\ \A s \in Scope :
         /\ content[s] \subseteq Rec /\ members[s] \subseteq Rec
         /\ root[s] \in {"none", "clear", "pending"} /\ timer[s] \in BOOLEAN
         /\ \A k \in Kind : work[s][k].pc \in WorkAt /\ work[s][k].todo \subseteq Rec

Slipped(s) == \E x \in slips : x[2] = s
Quiet(s) == ~timer[s] /\ \A k \in Kind : On(s, k, "idle")

\* When nothing is left to run for a pinned scope it is complete: its rows name what the scope now
\* resolves to, every recording is held, and each fetched one is protected from cleanup.  Jobs
\* that edits, outages, failures, restarts and the end of other jobs overtake must not lose a
\* refresh (service_pin.go:1071-1196, service_playback.go:2100-2275).
QuietPinsComplete ==
    \A s \in Scope :
      (Quiet(s) /\ root[s] # "none" /\ ~Slipped(s) /\ content[s] \cap swept = {}) =>
        /\ root[s] = "clear" /\ Missing(s) = {} /\ members[s] = content[s]
        /\ content[s] \ Local \subseteq HeldBy(s)

\* A scope that is not pinned holds no members and no blobs, unless it was unpinned between a
\* reconcile's reads and its transaction (service_pin.go:363-385, 1350-1454).
UnpinnedHoldsNothing ==
    \A s \in Scope : root[s] = "none" /\ <<"unpinned", s>> \notin slips =>
        members[s] = {} /\ RefsOf(s) = {}

\* A scope that stays pinned while a provider stays online gets all its recordings, whatever was
\* fetched, edited or lost before.
PinsFetched ==
    \A s \in Scope :
      <>[](root[s] # "none" /\ online /\ ~Slipped(s) /\ content[s] \cap swept = {})
        => <>[](Missing(s) = {})

\* A pinned scope nobody works on is complete, one that is not pinned is empty.
PinsSettled == PinTypeOK /\ QuietPinsComplete /\ UnpinnedHoldsNothing
===============================================================================
