---------------------------- MODULE Availability ----------------------------
(* What the playback service says about a recording, and what it serves.        *)
(* One recording is looked up through a chain of queries; lists and album pages *)
(* use queries of their own that answer for many recordings at once. All read   *)
(* the same tables, given here as a record db; the operators are the queries,   *)
(* the properties at the end say where the answers agree, and how they differ.  *)
(* A recording has files and encodings of one profile; an encoding is named by  *)
(* the source file it was made from.                                            *)
EXTENDS Naturals, FiniteSets

CONSTANTS
    Recordings,     \* track variants
    LibraryOf,      \* per track variant, its cluster: the library recording
    Grade,          \* per track variant, its place by quality, bitrate and id
    Sources,        \* source_files
    VariantOf,      \* per source file, its track variant
    OwnerOf,        \* per source file, its device
    Newness,        \* per source file, its place by last_seen_at, quality, size and path
    Albums,         \* album variants
    AlbumCluster,   \* per album variant, its cluster: the library album
    TracksOf,       \* per album variant, its track variants
    AlbumGrade,     \* per album variant, its place by quality, title and id
    Machines, Here, \* devices, and this one
    Databases       \* the contents that the tables may have

\* The tables.
Content == [present : SUBSET Sources, gone : SUBSET Sources, encoded : SUBSET Sources,
            cached : SUBSET (Machines \X Sources), lost : SUBSET Sources,
            role : [Machines -> {"none", "guest", "member", "admin", "owner"}],
            seen : SUBSET Machines, network : BOOLEAN,
            liked : SUBSET Recordings, likedAlbums : SUBSET Albums,
            pins : SUBSET [cluster : {LibraryOf[v] : v \in Recordings}, variant : Recordings,
                           logical : BOOLEAN],
            albumPins : SUBSET Albums]

\* Places count from 1; what is compared by them is finite.
ASSUME AvailabilityAssumption ==
    /\ Here \in Machines
    /\ IsFiniteSet(Recordings) /\ IsFiniteSet(Sources) /\ IsFiniteSet(Albums)
    /\ VariantOf \in [Sources -> Recordings] /\ OwnerOf \in [Sources -> Machines]
    /\ TracksOf \in [Albums -> SUBSET Recordings]
    /\ Grade \in [Recordings -> 1..Cardinality(Recordings)]
    /\ Newness \in [Sources -> 1..Cardinality(Sources)]
    /\ AlbumGrade \in [Albums -> 1..Cardinality(Albums)]
    /\ Databases \subseteq Content
    /\ \A db \in Databases :
         /\ {c[2] : c \in db.cached} \subseteq db.encoded
         /\ db.role[Here] # "none"

\* A library recording is none of its variants: the ids are hashes of different things.
ASSUME LibraryApart == Recordings \cap {LibraryOf[v] : v \in Recordings} = {}

VARIABLE tables     \* what a look-up reads: one of them, or none between look-ups

LibraryRecordings == {LibraryOf[v] : v \in Recordings}
LibraryAlbums     == {AlbumCluster[a] : a \in Albums}
Requests == Recordings \cup LibraryRecordings
Exact(r) == r \in Recordings
Provider(db, d) == db.role[d] \in {"owner", "admin", "member"}

Narrow(S, T) == IF S \cap T = {} THEN S ELSE S \cap T
Top(S, place) == CHOOSE x \in S : \A y \in S : place[x] >= place[y]

-----------------------------------------------------------------------------
(* The variant that stands for a library recording.                            *)

PresentHere(db) == {VariantOf[s] : s \in {t \in db.present : OwnerOf[t] = Here}}
CachedHere(db)  == {VariantOf[s] : s \in {t \in Sources : <<Here, t>> \in db.cached}}

Chosen(db, c) ==
    LET all == {v \in Recordings : LibraryOf[v] = c} IN
    Top(Narrow(Narrow(Narrow(all, db.liked), PresentHere(db)), CachedHere(db)), Grade)

Resolved(db, r) == IF Exact(r) THEN r ELSE Chosen(db, r)

ResolvedAll(db, R) == [r \in R |-> IF Exact(r) THEN r ELSE Chosen(db, r)]

\* Files that may stand for variant v: only its own for an exact request.
Candidates(v, exact) ==
    {s \in Sources : VariantOf[s] = v \/ (~exact /\ LibraryOf[VariantOf[s]] = LibraryOf[v])}

FirstOf(S, v) ==
    IF S = {} THEN {} ELSE {Top(Narrow(S, {s \in Sources : VariantOf[s] = v}), Newness)}

-----------------------------------------------------------------------------
(* One recording.                                                              *)

OwnFiles(db, v, exact) == {s \in Candidates(v, exact) \cap db.present : OwnerOf[s] = Here}
OwnCopies(db, v, exact) == {s \in Candidates(v, exact) : <<Here, s>> \in db.cached}

\* The first row, if its file is there; no second is looked at.
File(db, v, exact) == FirstOf(OwnFiles(db, v, exact), v) \ db.gone

\* The first row; that its blob is there is not checked.
Copy(db, v, exact) == FirstOf(OwnCopies(db, v, exact), v)

\* What every member device has.
Items(db, r) ==
    LET may == Candidates(Resolved(db, r), Exact(r)) IN
    [d \in {m \in Machines : db.role[m] # "none"} |->
       [source |-> \E s \in may \cap db.present : OwnerOf[s] = d,
        made   |-> \E s \in may \cap db.encoded : OwnerOf[s] = d,
        cached |-> \E s \in may : <<d, s>> \in db.cached]]

\* The state and its reason, once own files and copies are looked up.
Verdict(db, file, copy, f) ==
    CASE file -> "localFile"
      [] copy /\ ~file -> "cached"
      [] ~file /\ ~copy /\ f.remoteCached ->
           IF ~f.cachedOnline THEN "providerOffline"
           ELSE IF db.network THEN "remote" ELSE "networkOff"
      [] ~file /\ ~copy /\ ~f.remoteCached /\ f.remoteSource ->
           IF ~f.sourceOnline THEN "providerOffline"
           ELSE IF db.network THEN "waitingTranscode" ELSE "networkOff"
      [] OTHER -> "noPath"

Single(db, r) ==
    LET items   == Items(db, r)
        caching == {d \in DOMAIN items \ {Here} : items[d].cached}
        giving  == {d \in DOMAIN items \ {Here} : items[d].source /\ Provider(db, d)}
    IN  Verdict(db, File(db, Resolved(db, r), Exact(r)) # {},
                Copy(db, Resolved(db, r), Exact(r)) # {},
                [remoteCached |-> caching # {}, cachedOnline |-> caching \cap db.seen # {},
                 remoteSource |-> giving # {},  sourceOnline |-> giving \cap db.seen # {}])

\* The summary of one track, from its state and the devices' items.
TrackIsLocal(db, r) ==
    \/ Items(db, r)[Here].source \/ Items(db, r)[Here].cached
    \/ Single(db, r) \in {"localFile", "cached"}

-----------------------------------------------------------------------------
(* Many recordings.                                                            *)

FilesOf(db, v, exact) == FirstOf(OwnFiles(db, v, exact) \ db.gone, v)

CopiesOf(db, v, exact) == OwnCopies(db, v, exact) \ db.lost

Facts(db, v, exact) ==
    LET may     == Candidates(v, exact)
        giving  == {OwnerOf[s] : s \in may \cap db.present}
        caching == {c[1] : c \in {x \in db.cached : x[2] \in may}}
        remote  == {d \in giving \ {Here} : Provider(db, d)}
        other   == caching \ {Here}
    IN  [localSource |-> Here \in giving, localCached |-> Here \in caching,
         remoteSource |-> remote # {}, sourceOnline |-> remote \cap db.seen # {},
         remoteCached |-> other # {},  cachedOnline |-> other \cap db.seen # {}]

\* pin_members of scope recording: of the clusters and exact variants asked for.
Pins(db, R) ==
    LET asked    == {v \in Recordings : v \in R \/ LibraryOf[v] \in R}
        clusters == {LibraryOf[v] : v \in asked}
        rows     == {p \in db.pins : p.cluster \in clusters \/ p.variant \in asked}
        resolved == ResolvedAll(db, clusters)
    IN  {r \in R : IF r \in asked THEN \E p \in rows : p.variant = r
                   ELSE \E p \in rows : /\ p.cluster = r
                                        /\ p.logical \/ p.variant = resolved[r]}

Batch(db, R) ==
    LET resolved == ResolvedAll(db, R)
        pinned   == Pins(db, R)
    IN  [r \in R |->
           [state  |-> Verdict(db, FilesOf(db, resolved[r], Exact(r)) # {},
                               CopiesOf(db, resolved[r], Exact(r)) # {},
                               Facts(db, resolved[r], Exact(r))),
            pinned |-> r \in pinned]]

-----------------------------------------------------------------------------
(* Albums.                                                                     *)

LocalTracks(db, a) == Cardinality(TracksOf[a] \cap PresentHere(db))

ChosenAlbum(db, c) ==
    LET all    == {a \in Albums : AlbumCluster[a] = c}
        liked  == Narrow(all, db.likedAlbums)
        local  == {a \in liked : \A b \in liked : LocalTracks(db, a) >= LocalTracks(db, b)}
    IN  Top({a \in local : \A b \in local :
                Cardinality(TracksOf[a]) >= Cardinality(TracksOf[b])}, AlbumGrade)

\* The album variant that is shown, and the recordings it is made of: its own
\* variants when it was asked for by its id, library recordings otherwise.
AlbumScope(db, a) ==
    LET variant == IF a \in Albums THEN a ELSE ChosenAlbum(db, a) IN
    [variant    |-> variant,
     recordings |-> IF a \in Albums THEN TracksOf[a]
                    ELSE {LibraryOf[v] : v \in TracksOf[variant]}]

Summary(db, f) ==
    LET now == \/ f.localSource \/ f.localCached
               \/ db.network /\ (f.cachedOnline \/ f.sourceOnline)
    IN  [now     |-> now,
         offline |-> ~now /\ (f.remoteCached \/ f.remoteSource),
         local   |-> f.localSource \/ f.localCached]

AggregateState(s) ==
    CASE s.tracks = 0 -> "unavailable"
      [] s.tracks > 0 /\ s.sources = s.tracks -> "local"
      [] s.sources < s.tracks /\ s.pinned = s.tracks -> "pinned"
      [] s.sources < s.tracks /\ s.pinned < s.tracks ->
           IF s.cached = s.tracks THEN "cached"
           ELSE IF s.now = s.tracks THEN "available"
           ELSE IF s.now > 0 THEN "partial"
           ELSE IF s.offline > 0 THEN "offline" ELSE "unavailable"

\* pin_roots of scope album.
AlbumPinned(db, a) == a \in db.albumPins

AlbumSummary(db, a) ==
    LET scope    == AlbumScope(db, a)
        R        == scope.recordings
        resolved == ResolvedAll(db, R)
        facts    == [r \in R |-> Facts(db, resolved[r], Exact(r))]
        sums     == [r \in R |-> Summary(db, facts[r])]
    IN  [tracks  |-> Cardinality(R),
         sources |-> Cardinality({r \in R : facts[r].localSource}),
         cached  |-> Cardinality({r \in R : facts[r].localCached}),
         local   |-> Cardinality({r \in R : sums[r].local}),
         now     |-> Cardinality({r \in R : sums[r].now}),
         offline |-> Cardinality({r \in R : sums[r].offline}),
         pinned  |-> IF AlbumPinned(db, scope.variant) THEN Cardinality(R)
                     ELSE Cardinality(Pins(db, R))]

-----------------------------------------------------------------------------
(* Serving a recording.                                                        *)

\* EnsureRecordingEncoding makes an encoding of the first own file of the
\* cluster, or only the note that an existing one is cached.
Encoded(db, v) ==
    LET from == FirstOf(OwnFiles(db, v, FALSE), v) \ db.gone IN
    IF Provider(db, Here)
    THEN [db EXCEPT !.cached  = @ \cup ({Here} \X from),
                    !.encoded = @ \cup from,
                    !.lost    = @ \ (from \ db.encoded)]
    ELSE db

ServedCopy(db, copy) == IF copy \subseteq db.lost THEN "error" ELSE "cached"

\* Mutant: the cached copy goes before the file.
EnsureCopyFirst(db, r) ==
    LET v == Resolved(db, r)   e == Exact(r) IN
    CASE Copy(db, v, e) # {} -> ServedCopy(db, Copy(db, v, e))
      [] Copy(db, v, e) = {} /\ File(db, v, e) # {} -> "localFile"
      [] OTHER -> Single(db, r)

Ensure(db, r) ==
    LET v     == Resolved(db, r)
        e     == Exact(r)
        after == Encoded(db, v)
    IN  CASE File(db, v, e) # {} -> "localFile"
          [] File(db, v, e) = {} /\ Copy(db, v, e) # {} -> ServedCopy(db, Copy(db, v, e))
          [] File(db, v, e) \cup Copy(db, v, e) = {} /\ Copy(after, v, e) # {} ->
               ServedCopy(after, Copy(after, v, e))
          [] OTHER -> Single(after, r)

-----------------------------------------------------------------------------
(* A look-up changes nothing: it reads the tables as they are.                 *)

NoLookup == tables = {}
Look     == NoLookup /\ \E db \in Databases : tables' = {db}

LookupSpec == NoLookup /\ [][Look]_tables

-----------------------------------------------------------------------------
(* Properties                                                                  *)

\* The table names a file here that is gone and was taken for the first; a device
\* that left the library is noted to have copies.
FirstGone(db, v, e) == OwnFiles(db, v, e) # {} /\ File(db, v, e) = {}
Departed(db, v, e)  == {d \in Machines : /\ db.role[d] = "none"
                                         /\ \E s \in Candidates(v, e) : <<d, s>> \in db.cached}

\* A list says of every recording what its own page says, however many others
\* are on the list (ListRecordingPlaybackAvailability and GetRecordingAvailability),
\* and differs in three cases only, each in one way: behind a first file that is
\* gone only the list finds the next one; of copies whose blobs are all gone only
\* the page speaks; only the list counts the copies of devices that have left.
BatchAgrees ==
    \A db \in tables :
        LET batch == Batch(db, Requests) IN
        \A r \in Requests :
            LET v == Resolved(db, r)   e == Exact(r)
                listed == batch[r].state   shown == Single(db, r)
                behind == FirstGone(db, v, e) /\ FilesOf(db, v, e) # {}
                wiped  == Copy(db, v, e) # {} /\ CopiesOf(db, v, e) = {}
            IN  /\ batch[r].pinned = (r \in Pins(db, {r}))
                /\ CASE behind -> listed = "localFile" /\ shown # "localFile"
                     [] FilesOf(db, v, e) = {} /\ wiped ->
                          shown = "cached" /\ listed \notin {"localFile", "cached"}
                     [] FilesOf(db, v, e) \cup Copy(db, v, e) = {} /\ Departed(db, v, e) # {} ->
                          /\ listed \in {"remote", "providerOffline", "networkOff"}
                          /\ shown \notin {"localFile", "cached"}
                     [] OTHER -> listed = shown

\* What the page of a recording says is played as it says: from the file or the
\* copy here, or fetched, or not at all (EnsurePlaybackRecording), with an encoding
\* made on the way changing nothing; but a copy whose blob is gone is an error.
ServedAsShown ==
    \A db \in tables : \A r \in Requests :
        LET v == Resolved(db, r)   e == Exact(r)
            blobGone == \E s \in Copy(db, v, e) : s \in db.lost
        IN  Ensure(db, r) = IF File(db, v, e) = {} /\ blobGone THEN "error" ELSE Single(db, r)

\* The variant that is shown is the one that plays: a library recording is never
\* played from a file or copy of another variant while the chosen one has its own.
PlaysTheChosen ==
    \A db \in tables : \A c \in LibraryRecordings :
        LET v == Chosen(db, c) IN
        /\ \A s \in FilesOf(db, v, FALSE) :
              FilesOf(db, v, TRUE) # {} => VariantOf[s] = v
        /\ \A s \in Copy(db, v, FALSE) :
              Copy(db, v, TRUE) # {} => VariantOf[s] = v
        /\ Single(db, v) = "localFile" => Single(db, c) = "localFile"

\* The page of an album counts as available the tracks whose own pages call them
\* playable, and beyond those only tracks whose first file is gone, tracks whose
\* copies are offline while a provider is online, and tracks with copies on a device
\* that left and is seen; it is local only if every track plays from a file here or
\* its file is gone, and unavailable only if no track has a path.
AlbumMatchesTracks ==
    \A db \in tables : \A a \in Albums \cup LibraryAlbums :
        LET tracks == AlbumScope(db, a).recordings
            sum    == AlbumSummary(db, a)
            playable(r) == Single(db, r) \in
                {"localFile", "cached", "remote", "waitingTranscode"}
            beyond(r) ==
                LET v == Resolved(db, r)   e == Exact(r)   f == Facts(db, v, e) IN
                \/ FirstGone(db, v, e)
                \/ db.network /\ f.sourceOnline /\ f.remoteCached /\ ~f.cachedOnline
                \/ db.network /\ Departed(db, v, e) \cap db.seen # {}
        IN  /\ sum.local = Cardinality({r \in tracks : TrackIsLocal(db, r)})
            /\ sum.now = Cardinality({r \in tracks : playable(r) \/ beyond(r)})
            /\ AggregateState(sum) = "local" =>
                   \A r \in tracks : \/ Single(db, r) = "localFile"
                                     \/ FirstGone(db, Resolved(db, r), Exact(r))
            /\ AggregateState(sum) = "unavailable" =>
                   \A r \in tracks : Single(db, r) = "noPath"

\* The page of a recording, lists, album pages and the player give one answer,
\* but where the tables name what is no longer there, and there as is said.
AnswersAgree == BatchAgrees /\ ServedAsShown /\ PlaysTheChosen /\ AlbumMatchesTracks
===============================================================================
