------------------------------- MODULE Catalog -------------------------------
(***************************************************************************)
(* The catalog tables (tracks, albums, their links, artists) of one device *)
(* and what writes them: scan passes over the files of the scan roots      *)
(* (service_ingest_scan.go), changes of the scan roots (service_ingest.go),*)
(* operations of other devices (service_sync.go), and the rebuilds         *)
(* (catalog_rebuild.go).  A row that is ingested is put into the catalog   *)
(* at once; what it replaces stays there until a rebuild: a scoped one at  *)
(* the end of a pass, a full one at the end of a session or of a repair.   *)
(*                                                                         *)
(* A file's content is its tag set; its identities (track variant, album   *)
(* variant, clusters, artists) are functions of it.  Of a source file row  *)
(* the model keeps the content it has while it is present.  Credits come   *)
(* and go with the track or album they belong to.                          *)
(***************************************************************************)
EXTENDS Integers, FiniteSets

CONSTANTS
    Paths,        \* audio files of this device
    Remote,       \* source files of other devices
    Roots,        \* directories that may be scan roots
    Under,        \* per root, the paths inside it
    Tags,         \* contents of files
    Holds,        \* per file, the contents it may have
    TrackOf,      \* per content, its track variant
    AlbumOf,      \* per content, its album variant
    ArtistOf,     \* per track and album variant, the artist credited
    ClusterOf,    \* per album variant, its library album
    FamilyOf,     \* per library album, the title and artists it is known by
    Preferred,    \* album variants a device may prefer over others of their cluster
    Devices,      \* devices with preferences; one of them is Me
    Me,
    None,
    FirstDisk, FirstFiles, FirstRoots,  \* a library as a finished scan left it
    MaxEvents, MaxPasses, MaxFailures   \* bounds on what happens from outside

ASSUME CatalogAssumption ==
    /\ Me \in Devices /\ FirstRoots \subseteq Roots
    /\ \A b \in {MaxEvents, MaxPasses, MaxFailures} : b \in Nat
    /\ IsFiniteSet(Tags) /\ None \notin Tags
    /\ Paths \cap Remote = {} /\ Under \in [Roots -> SUBSET Paths]
    /\ \A f \in Paths \cup Remote : Holds[f] \subseteq Tags
    /\ FirstDisk \in [Paths -> Tags \cup {None}]
    /\ FirstFiles \in [Paths \cup Remote -> Tags \cup {None}]
    /\ \A p \in Paths : FirstFiles[p] =
         IF \E r \in FirstRoots : p \in Under[r] THEN FirstDisk[p] ELSE None

\* A library album is none of its variants: the ids are hashes of different things.
ASSUME ClustersApart ==
    \A g, h \in Tags : ClusterOf[AlbumOf[g]] # AlbumOf[h] /\ ClusterOf[AlbumOf[g]] # None

VARIABLES
    disk,      \* the content of every path
    roots,     \* scan_roots of this device
    files,     \* source_files: the content of the rows that are present
    catalog,   \* track_variants, album_variants, album_tracks and artists
    prefs,     \* device_variant_preferences for albums
    pins,      \* pin_roots of albums, of this device
    repair,    \* ScanMaintenanceState.RepairRequired
    work,      \* the scan pass and the removal of roots under way
    session,   \* a catch-up session
    touched,   \* history: contents each of them gained or lost since the last full rebuild
    lapsed,    \* history: contents touched by work that broke off, or not there yet when the work began
    flagged,   \* history: contents the repair flag stands for
    untold,    \* tracks and albums that came or went without a catalog event
    unseen,    \* history: paths that changed, or left or joined the scan roots, since they were read
    counts

owed == <<touched, lapsed, flagged>>
vars == <<disk, roots, files, catalog, prefs, pins, repair, work, session, owed, untold,
          unseen, counts>>

Files == Paths \cup Remote
Actors == {"pass", "removal"}
Variants == {AlbumOf[g] : g \in Tags}

----------------------------------------------------------------------------
\* Derived tables.

Inside(rs) == UNION {Under[r] : r \in rs}
PresentIn(fs) == {fs[f] : f \in Files} \ {None}
RowsOf(paths) == {files[p] : p \in paths} \ {None}

\* deriveCatalogMaterializationRows
Derive(contents) ==
    [tracks  |-> {TrackOf[g] : g \in contents},
     albums  |-> {AlbumOf[g] : g \in contents},
     links   |-> {<<AlbumOf[g], TrackOf[g]>> : g \in contents},
     artists |-> UNION {{ArtistOf[TrackOf[g]], ArtistOf[AlbumOf[g]]} : g \in contents}]

With(c, d) == [k \in DOMAIN c |-> c[k] \cup d[k]]
Fits(c, d) == \A k \in DOMAIN c : c[k] \subseteq d[k]
Shown(c) == c.tracks \cup c.albums
Clusters(c) == {ClusterOf[a] : a \in c.albums}

TracksIn(c, as) == {l[2] : l \in {x \in c.links : x[1] \in as}}
AlbumsOf(c, ts) == {l[1] : l \in {x \in c.links : x[2] \in ts}}

\* captureScanImpact, expandScanImpact: what the present rows of the paths stand for
NoImpact == [tracks |-> {}, albums |-> {}, artists |-> {}]
Impact(paths) ==
    LET ts == {TrackOf[g] : g \in RowsOf(paths)}
        as == AlbumsOf(catalog, ts)
    IN [tracks |-> ts, albums |-> as,
        artists |-> {ArtistOf[e] : e \in (ts \cap catalog.tracks) \cup as}]

\* Mutant: the tracks of the impact alone, without the others of its albums.
ReconciledTracksNarrow(c, impact) == impact.tracks

\* The tracks a scoped rebuild deletes and derives anew.
ReconciledTracks(c, impact) == impact.tracks \cup TracksIn(c, impact.albums)

\* The contents a scoped rebuild derives them from.
ReconciledRows(c, impact) ==
    {g \in PresentIn(files) : TrackOf[g] \in ReconciledTracks(c, impact)}

\* createAlbumVariantsTx inserts: an album outside the impact is there already.
Clashes(c, impact) ==
    \E g \in ReconciledRows(c, impact) : AlbumOf[g] \in c.albums \ impact.albums

\* reconcileCatalogMaterializationForScanTx, deleteScopedCatalogRowsTx, pruneOrphanArtistsTx
Scoped(c, impact) ==
    LET ts == ReconciledTracks(c, impact)
        d == Derive(ReconciledRows(c, impact))
        tracks == (c.tracks \ ts) \cup d.tracks
        albums == (c.albums \ impact.albums) \cup d.albums
        credited == {ArtistOf[e] : e \in tracks \cup albums}
    IN [tracks |-> tracks, albums |-> albums,
        links |-> {l \in c.links : l[1] \notin impact.albums /\ l[2] \notin ts} \cup d.links,
        artists |-> (c.artists \cup d.artists) \ (impact.artists \ credited)]

\* pruneDanglingVariantPreferencesTx
KeptPreferences(c, ps) == {x \in ps : x.variant \in c.albums}

\* chooseAlbumVariantID: the variant with the most local tracks, then the most tracks; equal
\* ones in a fixed order.
LargestAlbum(c, some) ==
    LET size(a) == Cardinality(TracksIn(c, {a}))
        own(a) == Cardinality(TracksIn(c, {a}) \cap {TrackOf[g] : g \in RowsOf(Paths)})
    IN CHOOSE a \in some : \A b \in some :
         own(a) > own(b) \/ (own(a) = own(b) /\ size(a) >= size(b))

\* chooseMigratedAlbumPinVariantIDTx: the preferred variant of a cluster, else the largest
PinVariant(c, ps, k) ==
    LET some == {a \in c.albums : ClusterOf[a] = k}
        liked == {a \in some : \E x \in ps : x.device = Me /\ x.variant = a}
    IN IF liked # {} THEN CHOOSE a \in liked : TRUE ELSE LargestAlbum(c, some)

\* chooseMigratedAlbumPinClusterID: of the clusters of a family, the one with the longest album
PinCluster(c, family) ==
    LET some == {k \in Clusters(c) : FamilyOf[k] = family}
        best(k) == CHOOSE n \in 0..Cardinality(c.tracks) :
                     /\ \E a \in c.albums : ClusterOf[a] = k /\ Cardinality(TracksIn(c, {a})) = n
                     /\ \A a \in c.albums :
                          ClusterOf[a] = k => Cardinality(TracksIn(c, {a})) <= n
    IN IF some = {} THEN None ELSE CHOOSE k \in some : \A j \in some : best(k) >= best(j)

ClusterOfPin(p) == IF p \in Variants THEN ClusterOf[p] ELSE p

\* Mutant: a pin whose album variant is gone goes with it.
MigratedOrLost(p, before, after, ps) ==
    IF p \in Clusters(after) \cup after.albums THEN {p} ELSE {}

\* One pin of migrateAlbumPinRootsTx: kept, moved or deleted.
Migrated(p, before, after, ps) ==
    LET old == IF p \in Clusters(before) \cup before.albums THEN ClusterOfPin(p) ELSE None
        new == IF old = None THEN None
               ELSE IF old \in Clusters(after) THEN old ELSE PinCluster(after, FamilyOf[old])
    IN IF p \in Clusters(after) THEN {p}
       ELSE IF new = None THEN {} ELSE {PinVariant(after, ps, new)}

\* What a rebuild does to the rest of the database, in the transaction that replaces the tables.
Rebuild(before, after) ==
    /\ catalog' = after
    /\ prefs' = KeptPreferences(after, prefs)
    /\ pins' = UNION {Migrated(p, before, after, prefs') : p \in pins}
    /\ untold' = untold \cup (Shown(catalog) \ Shown(after)) \cup (Shown(after) \ Shown(catalog))

\* rebuildCatalogMaterializationTx: everything from the rows that are present
RebuildAll ==
    /\ Rebuild(catalog, Derive(PresentIn(files)))
    /\ touched' = [a \in DOMAIN touched |-> {}] /\ lapsed' = {} /\ flagged' = {}

----------------------------------------------------------------------------
\* fresh and began are history: the paths of the scope that did not change since, and what the rows
\* of the scope held at first.
Idle == [pc |-> "idle", kind |-> None, todo |-> {}, roots |-> {}, scope |-> {},
         seen |-> {}, fresh |-> {}, began |-> {}, impact |-> NoImpact, mutated |-> FALSE]

At(a, pc) == work[a].pc = pc
Set(a, w) == work' = [work EXCEPT ![a] = w]
First(set) == CHOOSE x \in set : TRUE

\* Work that stops before its catalog update leaves the tables as they are.
Lapse(as) ==
    /\ lapsed' = lapsed \cup UNION {touched[a] : a \in as}
    /\ touched' = [a \in DOMAIN touched |-> IF a \in as THEN {} ELSE touched[a]]

Happens(n) == counts[n] < CASE n = "event" -> MaxEvents [] n = "pass" -> MaxPasses
                            [] n = "failure" -> MaxFailures
Count(n) == Happens(n) /\ counts' = [counts EXCEPT ![n] = @ + 1]

\* Rows change: fs are the new rows, gs the contents that are put into the catalog with them.
\* upsertIngestTx, upsertArtistsAndCredits, applySourceFileOplogEntryTx
Rows(a, fs, gs) ==
    LET c == With(catalog, Derive(gs))
        moved == {f \in Files : fs[f] # files[f]}
    IN /\ files' = fs
       /\ catalog' = c
       /\ untold' = untold \cup (Shown(c) \ Shown(catalog))
       /\ touched' = [touched EXCEPT ![a] = (@ \cup gs \cup {files[f] : f \in moved} \cup {fs[f] : f \in moved})
                        \ {None}]
       /\ lapsed' = lapsed \cup (IF a = "session" THEN {} ELSE
                                  {files[f] : f \in moved} \ (work[a].began \cup {None}))
       /\ UNCHANGED flagged

Init ==
    /\ disk = FirstDisk /\ roots = FirstRoots /\ files = FirstFiles
    /\ catalog = Derive(PresentIn(FirstFiles))
    /\ prefs = {} /\ pins = {} /\ repair = FALSE
    /\ work = [a \in Actors |-> Idle] /\ session = "idle"
    /\ touched = [a \in Actors \cup {"session"} |-> {}] /\ lapsed = {} /\ flagged = {}
    /\ untold = {} /\ unseen = {}
    /\ counts = [event |-> 0, pass |-> 0, failure |-> 0, install |-> 0]

\* A file appears, changes or goes.
DiskChange(p, g) ==
    /\ Count("event") /\ g # disk[p]
    /\ disk' = [disk EXCEPT ![p] = g]
    /\ unseen' = unseen \cup {p}
    /\ work' = [work EXCEPT !["pass"].fresh = @ \ {p}]
    /\ UNCHANGED <<roots, files, catalog, prefs, pins, repair, session, owed, untold>>

----------------------------------------------------------------------------
\* Scan passes.

\* runFullScanPass: the impact before, and every path on disk under the roots
BeginFull(kind) ==
    LET paths == Inside(roots)
        seen == {p \in paths : disk[p] # None}
    IN /\ At("pass", "idle") /\ roots # {} /\ Count("pass")
       /\ Set("pass", [Idle EXCEPT !.pc = "rows", !.kind = kind, !.roots = roots,
                         !.todo = seen \cap Under[First(roots)], !.scope = paths,
                         !.seen = seen, !.fresh = paths, !.began = RowsOf(paths),
                         !.impact = IF kind = "repair" THEN NoImpact ELSE Impact(paths)])
       /\ UNCHANGED <<disk, roots, files, catalog, prefs, pins, repair, session, owed, untold,
                      unseen>>

\* runDeltaScanPass over some paths, and over roots of which only absence is looked for
BeginDelta(paths, rs) ==
    LET scope == paths \cup Inside(rs)
    IN /\ At("pass", "idle") /\ paths \cup rs # {}
       /\ paths \subseteq Inside(roots) /\ rs \subseteq roots /\ Count("pass")
       /\ Set("pass", [Idle EXCEPT !.pc = "rows", !.kind = "delta", !.roots = rs,
                         !.todo = paths, !.scope = scope, !.began = RowsOf(scope),
                         !.impact = Impact(scope),
                         !.fresh = paths \cup {p \in Inside(rs) : disk[p] = None}])
       /\ UNCHANGED <<disk, roots, files, catalog, prefs, pins, repair, session, owed, untold,
                      unseen>>

\* upsertIngestTx: the row of the path takes the new content, a row of an older content of
\* the same path goes.
Ingested(p) == [files EXCEPT ![p] = disk[p]]

\* ingestPath, lookupFileState, upsertIngest: a row that shows the file already is left alone.  A
\* path that is gone is marked missing by a delta pass, an error to a full one (PassFails), and
\* passed over by a repair.
IngestNext ==
    LET w == work["pass"]
        p == First(w.todo)
        gone == disk[p] = None
    IN /\ At("pass", "rows") /\ w.todo # {}
       /\ gone => w.kind # "full"
       /\ LET skip == disk[p] = files[p] \/ (gone /\ w.kind = "repair")
          IN /\ Set("pass", [w EXCEPT !.todo = @ \ {p}, !.mutated = @ \/ ~skip])
             /\ IF skip THEN UNCHANGED <<files, catalog, untold, owed>>
                ELSE Rows("pass", Ingested(p), {disk[p]} \ {None})
       /\ UNCHANGED <<disk, roots, prefs, pins, repair, session, unseen, counts>>

\* Mutant: an enumeration that finds nothing is taken for a root that is not mounted.
MissingUnlessEmpty(r, found) ==
    IF found = {} THEN {} ELSE {p \in Under[r] : files[p] # None} \ found

\* reconcileRootPresence, reconcileMissingPaths: the present rows the enumeration did not find
MissingUnder(r, found) == {p \in Under[r] : files[p] # None} \ found

MarkMissing(ps) == [f \in Files |-> IF f \in ps THEN None ELSE files[f]]

\* After the paths of a root, its rows whose files are gone; then the next root.
ReconcilePresence ==
    LET w == work["pass"]
        r == First(w.roots)
        found == IF w.kind = "delta" THEN {p \in Under[r] : disk[p] # None} ELSE w.seen
        missing == MissingUnder(r, found)
        rest == w.roots \ {r}
    IN /\ At("pass", "rows") /\ w.todo = {} /\ w.roots # {}
       /\ Set("pass", [w EXCEPT !.roots = rest, !.mutated = @ \/ missing # {},
                         !.todo = IF w.kind = "delta" \/ rest = {} THEN {}
                                  ELSE w.seen \cap Under[First(rest)]])
       /\ Rows("pass", MarkMissing(missing), {})
       /\ UNCHANGED <<disk, roots, prefs, pins, repair, session, unseen, counts>>

RowsDone(a) == At(a, "rows") /\ work[a].todo = {} /\ work[a].roots = {}

\* A pass that changed no row ends (reconcileScanArtworkScope).
PassUnchanged ==
    /\ RowsDone("pass") /\ work["pass"].kind # "repair" /\ ~work["pass"].mutated
    /\ unseen' = unseen \ work["pass"].fresh
    /\ Set("pass", Idle)
    /\ UNCHANGED <<disk, roots, files, catalog, prefs, pins, repair, session, owed, untold,
                   counts>>

\* scanImpactSet.merge
Merged(before, after) == [k \in DOMAIN before |-> before[k] \cup after[k]]

\* The impact after: removeScanRootsFromCatalog does it as a pass does.
CaptureAfter(a) ==
    LET w == work[a]
    IN /\ RowsDone(a) /\ w.mutated /\ w.kind # "repair"
       /\ Set(a, [w EXCEPT !.pc = "apply", !.impact = Merged(@, Impact(w.scope))])
       /\ unseen' = unseen \ w.fresh
       /\ UNCHANGED <<disk, roots, files, catalog, prefs, pins, repair, session, owed, untold,
                      counts>>

\* rebuildCatalogMaterializationScoped: its transaction
ApplyScoped(a) ==
    LET impact == work[a].impact
    IN /\ At(a, "apply")
       /\ impact.tracks \cup impact.albums # {} /\ ~Clashes(catalog, impact)
       /\ Rebuild(catalog, Scoped(catalog, impact))
       /\ touched' = [touched EXCEPT ![a] = {}]
       /\ Set(a, [work[a] EXCEPT !.pc = "tell"])
       /\ UNCHANGED <<disk, roots, files, repair, session, lapsed, flagged, unseen, counts>>

\* recordAutoRepairRequired, markScanRepairRequired
Flagged(a) ==
    /\ repair' = TRUE
    /\ flagged' = flagged \cup touched[a]
    /\ touched' = [touched EXCEPT ![a] = {}]
    /\ UNCHANGED lapsed

\* applyAutomaticScopedCatalogUpdate: an update that cannot be made asks for a repair, and the
\* pass succeeds.
ApplyFlags(a) ==
    LET impact == work[a].impact
    IN /\ At(a, "apply")
       /\ \/ (impact.tracks \cup impact.albums = {} \/ Clashes(catalog, impact)) /\ UNCHANGED counts
          \/ Count("failure")
       /\ Flagged(a)
       /\ Set(a, Idle)
       /\ UNCHANGED <<disk, roots, files, catalog, prefs, pins, session, untold, unseen>>

\* Mutant: events for the albums only.
ToldAlbums(impact) == impact.albums

\* emitCatalogChangesForScan
Told(impact) == impact.tracks \cup impact.albums

TellScan(a) ==
    /\ At(a, "tell")
    /\ untold' = untold \ Told(work[a].impact)
    /\ Set(a, Idle)
    /\ UNCHANGED <<disk, roots, files, catalog, prefs, pins, repair, session, owed, unseen, counts>>

\* A repair rebuilds everything, invalidates everything and clears the flag
\* (rebuildCatalogMaterializationFull, prepareCatalogRebuildTx, clearScanRepairRequired).
RepairRebuild ==
    /\ RowsDone("pass") /\ work["pass"].kind = "repair"
    /\ RebuildAll
    /\ Set("pass", [work["pass"] EXCEPT !.pc = "tellall"])
    /\ unseen' = unseen \ work["pass"].fresh
    /\ UNCHANGED <<disk, roots, files, repair, session, counts>>

RepairTells ==
    /\ At("pass", "tellall")
    /\ untold' = {}
    /\ Set("pass", [work["pass"] EXCEPT !.pc = "clear"])
    /\ UNCHANGED <<disk, roots, files, catalog, prefs, pins, repair, session, owed, unseen, counts>>

RepairClears ==
    /\ At("pass", "clear")
    /\ repair' = FALSE
    /\ lapsed' = lapsed \cup flagged /\ flagged' = {}
    /\ Set("pass", Idle)
    /\ UNCHANGED <<disk, roots, files, catalog, prefs, pins, session, touched, untold, unseen,
                   counts>>

\* A pass ends with an error before its update: a tag or a row cannot be read or written, a file
\* is gone, or the rebuild of a repair fails.
PassFails ==
    LET w == work["pass"]
        gone == w.kind = "full" /\ w.todo # {} /\ disk[First(w.todo)] = None
    IN /\ At("pass", "rows")
       /\ \/ gone /\ UNCHANGED counts
          \/ ~gone /\ (w.kind = "repair" => RowsDone("pass")) /\ Count("failure")
       /\ Set("pass", Idle)
       /\ Lapse({"pass"})
       /\ UNCHANGED <<disk, roots, files, catalog, prefs, pins, repair, session, flagged, untold,
                      unseen>>

\* A repair goes on after a file it cannot read.
RepairSkips ==
    LET w == work["pass"]
    IN /\ At("pass", "rows") /\ w.kind = "repair" /\ w.todo # {} /\ Count("failure")
       /\ Set("pass", [w EXCEPT !.todo = @ \ {First(w.todo)}, !.fresh = @ \ {First(w.todo)}])
       /\ UNCHANGED <<disk, roots, files, catalog, prefs, pins, repair, session, owed, untold,
                      unseen>>

----------------------------------------------------------------------------
\* Scan roots.

Rerooted(old, new) == (Inside(old) \ Inside(new)) \cup (Inside(new) \ Inside(old))

\* resetRuntime cancels the pass: it writes nothing any more, but what it committed it tells.
Cancelled(w) == IF w.pc \in {"tell", "tellall"} THEN [w EXCEPT !.pc = "tell",
                     !.impact = IF w.pc = "tell" THEN @ ELSE
                       [NoImpact EXCEPT !.tracks = {TrackOf[g] : g \in Tags}, !.albums = Variants]]
                ELSE Idle

\* SetScanRoots, AddScanRoots, RemoveScanRoots, setLibraryScanRootsTx; removeScanRootsFromCatalog
\* begins with the impact of the roots that go.
SetScanRoots(new) ==
    LET gone == roots \ new
    IN /\ At("removal", "idle") /\ new # roots /\ Count("event")
       /\ roots' = new
       /\ work' = [work EXCEPT
            !["pass"] = Cancelled(@),
            !["removal"] = IF gone = {} THEN Idle
               ELSE [Idle EXCEPT !.pc = "rows", !.kind = "remove", !.roots = gone,
                       !.seen = roots, !.scope = Inside(gone), !.began = RowsOf(Inside(gone)),
                       !.impact = Impact(Inside(gone))]]
       /\ Lapse({"pass"})
       /\ unseen' = unseen \cup Rerooted(roots, new)
       /\ UNCHANGED <<disk, files, catalog, prefs, pins, repair, session, flagged, untold>>

\* markSourceFilesMissing for every row under the roots that go, those that another root still
\* covers included; nothing is left to do when there is none.
RemoveRows ==
    LET w == work["removal"]
        missing == {p \in w.scope : files[p] # None}
    IN /\ At("removal", "rows") /\ w.roots # {}
       /\ Rows("removal", MarkMissing(missing), {})
       /\ work' = [work EXCEPT
            !["pass"].fresh = @ \ missing,
            !["removal"] = IF missing = {} THEN Idle ELSE [w EXCEPT !.roots = {}, !.mutated = TRUE]]
       /\ unseen' = (unseen \ (w.scope \ Inside(roots))) \cup (missing \cap Inside(roots))
       /\ UNCHANGED <<disk, roots, prefs, pins, repair, session, counts>>

\* restoreScanRootsAfterFailure, before the rows or after the update
RemovalFails ==
    LET w == work["removal"]
    IN /\ (At("removal", "rows") /\ w.roots # {}) \/ At("removal", "tell")
       /\ Count("failure")
       /\ roots' = w.seen
       /\ unseen' = unseen \cup Rerooted(roots, w.seen)
       /\ untold' = IF At("removal", "tell") THEN untold \ Told(w.impact) ELSE untold
       /\ work' = [work EXCEPT !["pass"].fresh = @ \ Rerooted(roots, w.seen), !["removal"] = Idle]
       /\ UNCHANGED <<disk, files, catalog, prefs, pins, repair, session, owed>>

----------------------------------------------------------------------------
\* Operations of other devices.

\* applyRemoteOp: a row of another device is written, is marked missing or goes.  A row that comes
\* as missing is put into the catalog all the same.
RemoteOp(f, g) ==
    /\ session \in {"idle", "ops"} /\ g # files[f] /\ Count("event")
    /\ session' = "ops"
    /\ \/ Rows("session", [files EXCEPT ![f] = g], {g} \ {None})
       \/ g = None /\ Rows("session", [files EXCEPT ![f] = None], {files[f]})
    /\ UNCHANGED <<disk, roots, prefs, pins, repair, work, unseen>>

SessionRebuild ==
    /\ session = "ops"
    /\ RebuildAll
    /\ session' = "tellall"
    /\ UNCHANGED <<disk, roots, files, repair, work, unseen, counts>>

SessionTells ==
    /\ session = "tellall"
    /\ untold' = {} /\ session' = "idle"
    /\ UNCHANGED <<disk, roots, files, catalog, prefs, pins, repair, work, owed, unseen, counts>>

\* The session ends with an error: that a rebuild is owed was a local variable.
SessionFails ==
    /\ session = "ops" /\ Count("failure")
    /\ session' = "idle"
    /\ Lapse({"session"})
    /\ UNCHANGED <<disk, roots, files, catalog, prefs, pins, repair, work, flagged, untold, unseen>>

\* installCheckpointRecordWithJob: rows and tables are cleared, replayed and rebuilt in one
\* transaction, so that the snapshot taken before the rebuild shows what was replayed.
InstallCheckpoint(new) ==
    LET fs == [f \in Files |-> IF f \in Remote THEN new[f] ELSE files[f]]
        c == Derive(PresentIn(fs))
    IN /\ session \in {"idle", "ops"} /\ Happens("event")
       /\ counts' = [counts EXCEPT !.event = @ + 1, !.install = @ + 1]
       /\ files' = fs
       /\ catalog' = c
       /\ prefs' = KeptPreferences(c, prefs)
       /\ pins' = UNION {Migrated(p, c, c, prefs') : p \in pins}
       /\ untold' = untold \cup (Shown(catalog) \ Shown(c)) \cup (Shown(c) \ Shown(catalog))
       /\ touched' = [a \in DOMAIN touched |-> {}] /\ lapsed' = {} /\ flagged' = {}
       /\ session' = "tellall"
       /\ UNCHANGED <<disk, roots, repair, work, unseen>>

----------------------------------------------------------------------------
\* SetPreferredAlbumVariant here, or the operation of another device
SetPreferred(d, v) ==
    /\ Count("event")
    /\ d = Me => v \in catalog.albums
    /\ prefs' = {x \in prefs : x.device # d \/ ClusterOf[x.variant] # ClusterOf[v]}
                  \cup {[device |-> d, variant |-> v]}
    /\ UNCHANGED <<disk, roots, files, catalog, pins, repair, work, session, owed, untold, unseen>>

\* An album is pinned, as a variant or as a library album.
PinAlbum(p) ==
    /\ Count("event")
    /\ p \in catalog.albums \cup Clusters(catalog) /\ p \notin pins
    /\ pins' = pins \cup {p}
    /\ UNCHANGED <<disk, roots, files, catalog, prefs, repair, work, session, owed, untold, unseen>>

\* The process ends; the tables, the roots and the flag stay, the frontend loads anew.
Restart ==
    /\ Count("failure")
    /\ work' = [a \in Actors |-> Idle] /\ session' = "idle" /\ untold' = {}
    /\ Lapse(DOMAIN touched)
    /\ UNCHANGED <<disk, roots, files, catalog, prefs, pins, repair, flagged, unseen>>

PassStep ==
    \/ IngestNext \/ ReconcilePresence \/ PassUnchanged
    \/ RepairRebuild \/ RepairTells \/ RepairClears \/ RepairSkips \/ PassFails
    \/ \E k \in {"full", "repair"} : BeginFull(k)
    \/ \E ps \in SUBSET Paths, rs \in SUBSET Roots : BeginDelta(ps, rs)

UpdateStep(a) == CaptureAfter(a) \/ ApplyScoped(a) \/ ApplyFlags(a) \/ TellScan(a)

Outside ==
    \/ \E p \in Paths : \E g \in Holds[p] \cup {None} : DiskChange(p, g)
    \/ \E new \in SUBSET Roots : SetScanRoots(new)
    \/ \E f \in Remote : \E g \in Holds[f] \cup {None} : RemoteOp(f, g)
    \/ \E new \in [Remote -> Tags \cup {None}] :
         (\A f \in Remote : new[f] \in Holds[f] \cup {None}) /\ InstallCheckpoint(new)
    \/ \E d \in Devices, v \in Preferred : SetPreferred(d, v)
    \/ \E p \in Variants \cup {ClusterOf[a] : a \in Variants} : PinAlbum(p)

Next ==
    \/ PassStep
    \/ \E a \in Actors : UpdateStep(a)
    \/ RemoveRows \/ RemovalFails
    \/ SessionRebuild \/ SessionTells \/ SessionFails
    \/ Outside
    \/ Restart

Spec == Init /\ [][Next]_vars

(***************************************************************************)
(* Properties.                                                             *)
(***************************************************************************)
\* The type invariant.
CatalogTypeOK ==
    /\ disk \in [Paths -> Tags \cup {None}] /\ files \in [Files -> Tags \cup {None}]
    /\ roots \subseteq Roots /\ unseen \subseteq Paths
    /\ catalog.albums \subseteq Variants /\ catalog.links \subseteq catalog.albums \X catalog.tracks
    /\ \A x \in prefs : x.device \in Devices /\ x.variant \in Preferred
    /\ \A x, y \in prefs :
         x.device = y.device /\ ClusterOf[x.variant] = ClusterOf[y.variant] => x = y
    /\ repair \in BOOLEAN /\ session \in {"idle", "ops", "tellall"}
    /\ \A a \in Actors : work[a].pc \in {"idle", "rows", "apply", "tell", "tellall", "clear"}

\* Every file that is present is in the catalog, with its album, its place on it and its artists,
\* at every step of a pass, a session and a removal that run at once: a scoped rebuild whose
\* impact was read before its transaction deletes nothing it does not put back
\* (catalog_rebuild.go:388-428).
PresentShown == Fits(Derive(PresentIn(files)), catalog)

\* The catalog shows nothing else, unless a repair is asked for: work that is under way or broke
\* off explains everything that no present file stands for (service_ingest_scan.go:282-296,
\* 391-402, 476-487; service_sync.go:775-787).
NothingElseShown ==
    repair \/ Fits(catalog, Derive(PresentIn(files) \cup lapsed
                                   \cup UNION {touched[a] : a \in DOMAIN touched}))

EntitiesOf(gs) == {TrackOf[g] : g \in gs} \cup {AlbumOf[g] : g \in gs}

\* Every track and album that came or went is told to the frontend once the work that changed it is
\* done (catalog_rebuild.go:56-60, 119, 130-187).
ChangesTold ==
    \/ repair \/ session = "tellall" \/ At("pass", "tellall")
    \/ untold \subseteq EntitiesOf(lapsed \cup UNION {touched[a] : a \in DOMAIN touched})
         \cup UNION {Told(work[a].impact) : a \in {b \in Actors : At(b, "tell")}}

\* A path that has not changed since a pass or a removal read it has the row it should have: the
\* file's content under a scan root, none elsewhere (service_ingest_scan.go:142-311, 313-474,
\* 504-536, 1030-1055).
RowsFollowDisk ==
    \A p \in Paths \ unseen : files[p] = IF p \in Inside(roots) THEN disk[p] ELSE None

\* A rebuild drops no preference whose album variant still has a file, whichever device's it is
\* (catalog_rebuild.go:526-584).
PreferencesKept ==
    [][\A x \in prefs :
         \/ \E y \in prefs' : y.device = x.device /\ ClusterOf[y.variant] = ClusterOf[x.variant]
         \/ x.variant \notin Derive(PresentIn(files')).albums]_vars

\* An album stays pinned as long as a file of it is there: on its cluster, else on a cluster of its
\* family.  Only a checkpoint, which clears the tables first, may lose the pin of a variant it does
\* not bring back (catalog_rebuild.go:586-688, service_sync.go:1259-1301).
PinsKept ==
    [][counts'.install = counts.install =>
         \A p \in pins :
           LET k == ClusterOfPin(p)
               alive == {ClusterOf[a] : a \in Derive(PresentIn(files')).albums}
           IN /\ k \in alive => \E q \in pins' : ClusterOfPin(q) = k
              /\ (\E j \in alive : FamilyOf[j] = FamilyOf[k]) =>
                   \E q \in pins' : FamilyOf[ClusterOfPin(q)] = FamilyOf[k]]_vars

\* The catalog is what the present files stand for, up to work that is under way
\* or a repair that is asked for.
CatalogCurrent == CatalogTypeOK /\ PresentShown /\ NothingElseShown

\* Rebuilds, which derive the catalog anew, keep what users have set on it.
UserDataKept == PreferencesKept /\ PinsKept
===============================================================================
