------------------------------ MODULE AssetCache ------------------------------
(***************************************************************************)
(* The optimized audio one device keeps: asset rows, is_cached flags, the  *)
(* offline list and the blob files, as the transcoder, the remote fetches, *)
(* playback preparation and the cache cleanup change them                  *)
(* (service_transcode.go, service_playback.go, service_playback_remote.go, *)
(* service_cache.go, service_offline.go).  Rows change in transactions and *)
(* files do not, so that every step below is one statement, one            *)
(* transaction or one file operation of its caller.                        *)
(***************************************************************************)
EXTENDS Integers, FiniteSets

CONSTANTS
    Rec,        \* recordings, each with one encoding and one blob
    Local,      \* those with a source file on this device
    Encoder,    \* callers of EnsureRecordingEncoding
    Played,     \* recordings playback prepares
    Run,        \* runs of finishPlaybackPreparation of a recording at a time: jobs and calls
    Scope,      \* pin scopes: recordings, albums, playlists
    None,
    MaxEvents   \* calls, outages, failures and restarts of a behaviour

ASSUME CacheAssumption ==
    /\ Local \subseteq Rec /\ Played \subseteq Rec \ Local
    /\ None \notin Rec \cup Encoder
    /\ MaxEvents \in Nat

VARIABLES
    row,      \* recordings with an optimized_assets row
    cached,   \* recordings whose device_asset_caches row says is_cached
    blob,     \* recordings whose blob is on disk
    offline,  \* rows of offline_members
    refs,     \* rows of pin_blob_refs: <<scope, recording>>
    online,   \* a provider is connected and was seen within the online window
    flights,  \* the transcode flight of a recording's source: its leader or None
    enc,      \* the encoder calls: where they are and for which recording
    prep,     \* the preparation status kept for a recording
    runs,     \* the runs that prepare it
    active,   \* whether the job tracker shows its preparation job as active
    sweep,    \* the cleanup: where it is, the entries left, the entry in hand
    sworn,    \* history: blobs that were pinned when the cleanup listed them, and still are
    swept,    \* history: recordings a cleanup took as victims
    removed,  \* history: recordings whose file a cleanup removed and nobody has written since
    slips,    \* history: work the code let go (see the actions that add to it)
    events    \* the events so far

blobVars  == <<blob, removed>>
assetVars == <<row, cached, offline, blobVars>>
encVars   == <<flights, enc>>
prepVars  == <<prep, runs, active>>
sweepVars == <<sweep, sworn, swept>>
cacheVars == <<assetVars, refs, online, encVars, prepVars, sweepVars, slips, events>>

EncoderAt == {"idle", "join", "lead", "build", "stored", "wait", "mark"}
RunAt     == {"none", "look", "ask", "stored", "look again", "closing"}
Status    == {"none", "ready", "preparing", "failed", "unavailable"}

Happens == events < MaxEvents /\ events' = events + 1

Pinned(r) == \E s \in Scope : <<s, r>> \in refs

\* Playback finds the source file, or a cached encoding whose file is there.
Playable(r) == r \in Local \/ r \in cached \cap blob

\* Availability says "fetch it": not held here by the rows, and a provider is online.
Fetchable(r) == r \notin Local \cup cached /\ online

\* queryDesiredMembersTx: what this device can play without a network, by the rows.
Desired(c) == Local \cup c

\* upsertDeviceAssetCacheTx: the flag, and in the same transaction the recording's row of the offline list.
Flag(r, c) == cached' = c /\ offline' = (offline \ {r}) \cup ({r} \cap Desired(c))
Flagged(r)   == Flag(r, cached \cup {r})
Unflagged(r) == Flag(r, cached \ {r})

WriteBlob(r) == blob' = blob \cup {r} /\ removed' = removed \ {r}

(***************************************************************************)
(* EnsureRecordingEncoding: one encoding per source at a time.             *)
(***************************************************************************)
At(e, pc) == enc[e].pc = pc

Goto(e, pc) == enc' = [enc EXCEPT ![e].pc = pc]

EnsureEncoding(e, r) ==
    /\ At(e, "idle") /\ r \in Local /\ Happens
    /\ enc' = [enc EXCEPT ![e] = [pc |-> IF r \in row \cap blob THEN "mark" ELSE "join", rec |-> r]]
    /\ UNCHANGED <<assetVars, refs, online, flights, prepVars, sweepVars, slips>>

\* beginFlight: the first caller leads, the others wait for it.
JoinFlight(e) ==
    /\ At(e, "join")
    /\ LET r == enc[e].rec IN
       IF flights[r] = None
       THEN flights' = [flights EXCEPT ![r] = e] /\ Goto(e, "lead")
       ELSE Goto(e, "wait") /\ UNCHANGED flights
    /\ UNCHANGED <<assetVars, refs, online, prepVars, sweepVars, slips, events>>

\* finishFlight: every waiter goes on to the row, or returns the leader's error.
FinishFlight(e, ok) ==
    LET r == enc[e].rec IN
    /\ flights' = [flights EXCEPT ![r] = None]
    /\ enc' = [x \in Encoder |->
                 IF x = e THEN [pc |-> "idle", rec |-> None]
                 ELSE IF enc[x] = [pc |-> "wait", rec |-> r]
                      THEN IF ok THEN [enc[x] EXCEPT !.pc = "mark"] ELSE [pc |-> "idle", rec |-> None]
                      ELSE enc[x]]

\* The leader looks for the row a former flight may have written, not for its file.
LeadAgain(e) ==
    /\ At(e, "lead")
    /\ LET r == enc[e].rec IN
       IF r \in row
       THEN Flagged(r) /\ FinishFlight(e, TRUE)
       ELSE Goto(e, "build") /\ UNCHANGED <<cached, offline, flights>>
    /\ UNCHANGED <<row, blobVars, refs, online, prepVars, sweepVars, slips, events>>

\* BuildAAC and storeBlobBytes.
StoreEncoded(e) ==
    /\ At(e, "build")
    /\ WriteBlob(enc[e].rec)
    /\ Goto(e, "stored")
    /\ UNCHANGED <<row, cached, offline, refs, online, flights, prepVars, sweepVars, slips, events>>

BuildFails(e) ==
    /\ At(e, "build") /\ Happens
    /\ FinishFlight(e, FALSE)
    /\ UNCHANGED <<assetVars, refs, online, prepVars, sweepVars, slips>>

\* The asset row and the flag, in one transaction.
CommitEncoded(e) ==
    /\ At(e, "stored")
    /\ row' = row \cup {enc[e].rec}
    /\ Flagged(enc[e].rec)
    /\ FinishFlight(e, TRUE)
    /\ UNCHANGED <<blobVars, refs, online, prepVars, sweepVars, slips, events>>

\* markAssetCached of a caller that found the asset or waited for it.
MarkCached(e) ==
    /\ At(e, "mark")
    /\ IF enc[e].rec \in row THEN Flagged(enc[e].rec) ELSE UNCHANGED <<cached, offline>>
    /\ enc' = [enc EXCEPT ![e] = [pc |-> "idle", rec |-> None]]
    /\ UNCHANGED <<row, blobVars, refs, online, flights, prepVars, sweepVars, slips, events>>

(***************************************************************************)
(* storeFetchedPlaybackAsset, shared by preparation and pins: the file of  *)
(* a verified transfer first, then the mirrored row and the flag.          *)
(***************************************************************************)
\* Mutant: the rows are committed before the file is written.
StoreFetchedRows(r) == row' = row \cup {r} /\ Flagged(r) /\ UNCHANGED blobVars

StoreFetched(r) == WriteBlob(r) /\ UNCHANGED <<row, cached, offline>>

CommitFetched(r) == row' = row \cup {r} /\ Flagged(r) /\ UNCHANGED blobVars

(***************************************************************************)
(* PreparePlaybackRecording: finishPlaybackPreparationForLocalContext runs *)
(* in a job if there is something to fetch and else in the call itself.    *)
(* Both kinds of run report under one job id, and only jobs look at it.    *)
(***************************************************************************)
RunGoto(r, k, pc) == runs' = [runs EXCEPT ![r][k] = pc]
Store(r, status) == prep' = [prep EXCEPT ![r] = status]
Tracked(r, on) == active' = [active EXCEPT ![r] = on]

Inspected(r) == IF Playable(r) THEN "ready" ELSE "unavailable"

\* Nothing to fetch at the first look: the call goes on by itself.
PrepareCall(r, k) ==
    /\ Happens /\ runs[r][k] = "none"
    /\ ~(~Playable(r) /\ Fetchable(r))
    /\ RunGoto(r, k, "look") /\ Tracked(r, TRUE)
    /\ UNCHANGED <<assetVars, refs, online, encVars, prep, sweepVars, slips>>

\* "Preparing" is kept, and a job started unless the id is active; the start may fail.
PrepareAsync(r, k) ==
    /\ Happens
    /\ ~Playable(r) /\ Fetchable(r)
    /\ \/ /\ active[r]
          /\ Store(r, "preparing") /\ UNCHANGED <<runs, active>>
       \/ /\ ~active[r] /\ runs[r][k] = "none"
          /\ Store(r, "preparing") /\ RunGoto(r, k, "look") /\ Tracked(r, TRUE)
       \/ /\ ~active[r]
          /\ Store(r, "failed") /\ UNCHANGED <<runs, active>>
    /\ UNCHANGED <<assetVars, refs, online, encVars, sweepVars, slips>>

\* finishPlaybackPreparationForLocalContext inspects again.
PrepareLook(r, k) ==
    /\ runs[r][k] = "look"
    /\ IF ~Playable(r) /\ Fetchable(r)
       THEN Store(r, "preparing") /\ RunGoto(r, k, "ask")
       ELSE Store(r, Inspected(r)) /\ RunGoto(r, k, "closing")
    /\ UNCHANGED <<assetVars, refs, online, encVars, active, sweepVars, slips, events>>

PrepareFetch(r, k) ==
    /\ runs[r][k] = "ask"
    /\ IF online
       THEN StoreFetched(r) /\ RunGoto(r, k, "stored")
       ELSE RunGoto(r, k, "look again") /\ UNCHANGED assetVars
    /\ UNCHANGED <<refs, online, encVars, prep, active, sweepVars, slips, events>>

PrepareFetchFails(r, k) ==
    /\ runs[r][k] \in {"ask", "stored"} /\ Happens
    /\ Store(r, "failed") /\ RunGoto(r, k, "closing")
    /\ UNCHANGED <<assetVars, refs, online, encVars, active, sweepVars, slips>>

PrepareCommit(r, k) ==
    /\ runs[r][k] = "stored"
    /\ CommitFetched(r) /\ RunGoto(r, k, "look again")
    /\ UNCHANGED <<refs, online, encVars, prep, active, sweepVars, slips, events>>

\* The status after the fetch is kept; the job is completed in a step of its own.
PrepareDone(r, k) ==
    /\ runs[r][k] = "look again"
    /\ Store(r, Inspected(r))
    /\ RunGoto(r, k, "closing")
    /\ UNCHANGED <<assetVars, refs, online, encVars, active, sweepVars, slips, events>>

\* A look fails or is cancelled: the job is failed and the status stays what it was.
PrepareBreaksOff(r, k) ==
    /\ runs[r][k] \in {"look", "look again"} /\ Happens
    /\ RunGoto(r, k, "none") /\ Tracked(r, FALSE)
    /\ UNCHANGED <<assetVars, refs, online, encVars, prep, sweepVars, slips>>

PrepareClose(r, k) ==
    /\ runs[r][k] = "closing"
    /\ RunGoto(r, k, "none") /\ Tracked(r, FALSE)
    /\ UNCHANGED <<assetVars, refs, online, encVars, prep, sweepVars, slips, events>>

(***************************************************************************)
(* CleanupCache: entries are listed once with their pins; each victim is   *)
(* unflagged, checked for other references and removed.                    *)
(***************************************************************************)
\* addOptimizedEntries: what the rows flag and the disk holds.
Listed == cached \cap blob

NoSweep == [pc |-> "idle", left |-> {}, at |-> None]

\* Mutant: the pins of the entries are not looked at.
CleanupListPinned(victims) ==
    /\ sweep.pc = "idle" /\ Happens
    /\ victims # {} /\ victims \subseteq Listed
    /\ sweep' = [pc |-> "next", left |-> victims, at |-> None]
    /\ sworn' = {r \in blob : Pinned(r)}
    /\ swept' = swept \cup victims
    /\ UNCHANGED <<assetVars, refs, online, encVars, prepVars, slips>>

\* listEntries and the choice of victims: any unpinned subset, as the three modes make it.
CleanupList(victims) ==
    /\ sweep.pc = "idle" /\ Happens
    /\ victims # {} /\ victims \subseteq {r \in Listed : ~Pinned(r)}
    /\ sweep' = [pc |-> "next", left |-> victims, at |-> None]
    /\ sworn' = {r \in blob : Pinned(r)}
    /\ swept' = swept \cup victims
    /\ UNCHANGED <<assetVars, refs, online, encVars, prepVars, slips>>

\* markBlobEncodingsUncached.
CleanupUnmark ==
    /\ sweep.pc = "next"
    /\ \E r \in sweep.left :
         /\ Unflagged(r)
         /\ sweep' = [pc |-> "unmarked", left |-> sweep.left \ {r}, at |-> r]
    /\ UNCHANGED <<row, blobVars, refs, online, encVars, prepVars, sworn, swept, slips, events>>

AfterVictim == IF sweep.left = {} THEN "idle" ELSE "next"

\* blobHasRetainedReferences: is_cached again since, or an artwork row (not modelled).
CleanupCheck ==
    /\ sweep.pc = "unmarked"
    /\ sweep' = IF sweep.at \in cached THEN [sweep EXCEPT !.pc = AfterVictim, !.at = None]
                                       ELSE [sweep EXCEPT !.pc = "remove"]
    /\ UNCHANGED <<assetVars, refs, online, encVars, prepVars, sworn, swept, slips, events>>

CleanupRemove ==
    /\ sweep.pc = "remove"
    /\ blob' = blob \ {sweep.at} /\ removed' = removed \cup {sweep.at}
    /\ sweep' = [sweep EXCEPT !.pc = AfterVictim, !.at = None]
    /\ UNCHANGED <<row, cached, offline, refs, online, encVars, prepVars, sworn, swept, slips, events>>

CacheInit ==
    /\ row = {} /\ cached = {} /\ blob = {} /\ offline = Local /\ removed = {}
    /\ refs = {} /\ online \in BOOLEAN
    /\ flights = [r \in Rec |-> None]
    /\ enc = [e \in Encoder |-> [pc |-> "idle", rec |-> None]]
    /\ prep = [r \in Played |-> "none"] /\ active = [r \in Played |-> FALSE]
    /\ runs = [r \in Played |-> [k \in Run |-> "none"]]
    /\ sweep = NoSweep /\ sworn = {} /\ swept = {}
    /\ slips = {} /\ events = 0

EncoderSteps ==
    \E e \in Encoder :
      \/ \E r \in Local : EnsureEncoding(e, r)
      \/ JoinFlight(e) \/ LeadAgain(e)
      \/ StoreEncoded(e) \/ BuildFails(e) \/ CommitEncoded(e) \/ MarkCached(e)

PrepareSteps ==
    \E r \in Played, k \in Run :
      \/ PrepareCall(r, k) \/ PrepareAsync(r, k)
      \/ PrepareLook(r, k) \/ PrepareFetch(r, k) \/ PrepareFetchFails(r, k)
      \/ PrepareCommit(r, k) \/ PrepareDone(r, k)
      \/ PrepareBreaksOff(r, k) \/ PrepareClose(r, k)

CleanupSteps ==
    \/ \E victims \in SUBSET Rec : CleanupList(victims)
    \/ CleanupUnmark \/ CleanupCheck \/ CleanupRemove

CacheNext == EncoderSteps \/ PrepareSteps \/ CleanupSteps

(***************************************************************************)
(* Properties.                                                             *)
(***************************************************************************)
\* The type invariant of the cache.
CacheTypeOK ==
    /\ row \subseteq Rec /\ cached \subseteq row /\ blob \subseteq Rec /\ removed \subseteq Rec
    /\ refs \subseteq Scope \X Rec /\ online \in BOOLEAN
    /\ \A r \in Rec : flights[r] \in Encoder \cup {None}
    /\ \A e \in Encoder : enc[e].pc \in EncoderAt /\ enc[e].rec \in Rec \cup {None}
    /\ \A r \in Played : prep[r] \in Status /\ active[r] \in BOOLEAN
    /\ \A r \in Played, k \in Run : runs[r][k] \in RunAt
    /\ sweep.left \subseteq Rec /\ sworn \subseteq Rec /\ swept \subseteq Rec

\* A recording the rows call cached has its blob on disk, unless a cleanup removed the file and
\* nobody has written it since, whatever failed or ended between file and rows: playback,
\* peers and pins trust the flag without a look at the file (service_playback.go:1744, service_pin.go:688).
CachedHasBlob == cached \ removed \subseteq blob

\* A source is encoded by one caller at a time, the leader of its flight, however the callers
\* interleave with the end of a former flight (service_transcode.go:174-231, 349-368).
OneEncodes ==
    \A e \in Encoder : enc[e].pc \in {"lead", "build", "stored"} => flights[enc[e].rec] = e

\* A cleanup leaves alone every blob a pin held when it listed the cache and holds still, whatever
\* is fetched, pinned or unpinned meanwhile (service_cache.go:155-228, 470-505).
PinnedBlobsKept == sweep.pc # "idle" => sworn \subseteq blob

\* The offline list shows exactly what the rows say can be played here, after every transaction
\* of the transcoder, a fetch or the cleanup (state_replication.go:61-106, service_offline.go:119-182).
OfflineListed == offline = Desired(cached)

\* What the tables say of the cache is so, between any two steps of transcoder,
\* fetch, preparation and cleanup, with failures, cancellations and restarts anywhere.
CacheSound == CachedHasBlob /\ OneEncodes /\ OfflineListed
===============================================================================
