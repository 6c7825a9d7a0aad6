---------------------------- MODULE CatalogProofs ----------------------------
(***************************************************************************)
(* Theorems about Catalog: the tables are what the present files stand for *)
(* up to the work under way (CatalogCurrent), what came or went is told    *)
(* (ChangesTold), the rows follow the disk (RowsFollowDisk), and rebuilds  *)
(* keep preferences and pins (UserDataKept).  Last, about Availability:    *)
(* the queries over these tables give one answer (AnswersAgree).           *)
(***************************************************************************)
EXTENDS Catalog, Availability, FiniteSetTheorems, WellFoundedInduction, TLAPS

Tracks  == {TrackOf[g] : g \in Tags}
Artists == {ArtistOf[e] : e \in Tracks \cup Variants}

Catalogs == [tracks : SUBSET Tracks, albums : SUBSET Variants,
             links : SUBSET (Variants \X Tracks), artists : SUBSET Artists]
Impacts  == [tracks : SUBSET Tracks, albums : SUBSET Variants, artists : SUBSET Artists]
Works    == [pc : {"idle", "rows", "apply", "tell", "tellall", "clear"},
             kind : {None, "full", "repair", "delta", "remove"},
             todo : SUBSET Paths, roots : SUBSET Roots, scope : SUBSET Paths,
             seen : SUBSET (Paths \cup Roots), fresh : SUBSET Paths, began : SUBSET Tags,
             impact : Impacts, mutated : BOOLEAN]
Workers  == Actors \cup {"session"}

Linked(c) == c.links \subseteq c.albums \X c.tracks

-----------------------------------------------------------------------------
\* Tables.

\* What two catalogs of the four tables compare by.
LEMMA FitsTables ==
    ASSUME NEW c, NEW d, DOMAIN c = {"tracks", "albums", "links", "artists"}
    PROVE  Fits(c, d) <=> /\ c.tracks \subseteq d.tracks /\ c.albums \subseteq d.albums
                          /\ c.links \subseteq d.links /\ c.artists \subseteq d.artists
BY DEF Fits

LEMMA DeriveTables ==
    ASSUME NEW gs
    PROVE  /\ DOMAIN Derive(gs) = {"tracks", "albums", "links", "artists"}
           /\ Derive(gs).tracks = {TrackOf[g] : g \in gs}
           /\ Derive(gs).albums = {AlbumOf[g] : g \in gs}
           /\ Derive(gs).links = {<<AlbumOf[g], TrackOf[g]>> : g \in gs}
           /\ Derive(gs).artists =
                UNION {{ArtistOf[TrackOf[g]], ArtistOf[AlbumOf[g]]} : g \in gs}
BY DEF Derive

LEMMA CatalogTables ==
    ASSUME NEW c \in Catalogs
    PROVE  /\ DOMAIN c = {"tracks", "albums", "links", "artists"}
           /\ c.tracks \subseteq Tracks /\ c.albums \subseteq Variants
           /\ c.links \subseteq Variants \X Tracks /\ c.artists \subseteq Artists
BY DEF Catalogs

LEMMA DeriveType ==
    ASSUME NEW gs \in SUBSET Tags
    PROVE  Derive(gs) \in Catalogs /\ Linked(Derive(gs))
<1>1. \A g \in gs : TrackOf[g] \in Tracks /\ AlbumOf[g] \in Variants
      BY DEF Tracks, Variants
<1>2. \A g \in gs : ArtistOf[TrackOf[g]] \in Artists /\ ArtistOf[AlbumOf[g]] \in Artists
      BY <1>1 DEF Artists
<1>3. QED  BY <1>1, <1>2 DEF Derive, Catalogs, Linked

LEMMA WithTables ==
    ASSUME NEW c \in Catalogs, NEW gs \in SUBSET Tags
    PROVE  LET n == With(c, Derive(gs)) IN
           /\ n \in Catalogs /\ (Linked(c) => Linked(n))
           /\ n.tracks = c.tracks \cup {TrackOf[g] : g \in gs}
           /\ n.albums = c.albums \cup {AlbumOf[g] : g \in gs}
           /\ n.links = c.links \cup {<<AlbumOf[g], TrackOf[g]>> : g \in gs}
           /\ n.artists = c.artists \cup
                UNION {{ArtistOf[TrackOf[g]], ArtistOf[AlbumOf[g]]} : g \in gs}
<1> DEFINE d == Derive(gs)
           n == With(c, d)
<1>1. d \in Catalogs /\ Linked(d)
      BY DeriveType
<1>2. n = [tracks |-> c.tracks \cup d.tracks, albums |-> c.albums \cup d.albums,
           links |-> c.links \cup d.links, artists |-> c.artists \cup d.artists]
  <2> HIDE DEF d
  <2>1. n = [k \in DOMAIN n |-> c[k] \cup d[k]]
        /\ DOMAIN n = {"tracks", "albums", "links", "artists"}
        BY CatalogTables DEF With
  <2> HIDE DEF n
  <2>2. QED  BY <2>1
<1> HIDE DEF n
<1>3. n \in Catalogs /\ (Linked(c) => Linked(n))
  <2> HIDE DEF d
  <2>1. QED  BY <1>1, <1>2 DEF Catalogs, Linked
<1>4. QED  BY <1>2, <1>3, DeriveTables DEF n

LEMMA ImpactRecord ==
    ASSUME NEW t \in SUBSET Tracks, NEW a \in SUBSET Variants, NEW x \in SUBSET Artists
    PROVE  [tracks |-> t, albums |-> a, artists |-> x] \in Impacts
BY DEF Impacts

LEMMA ImpactType ==
    ASSUME catalog \in Catalogs, files \in [Files -> Tags \cup {None}],
           NEW paths \in SUBSET Paths
    PROVE  Impact(paths) \in Impacts /\ RowsOf(paths) \subseteq Tags
<1>1. RowsOf(paths) \subseteq Tags
      BY DEF RowsOf, Files
<1> DEFINE ts == {TrackOf[g] : g \in RowsOf(paths)}
           as == AlbumsOf(catalog, ts)
           x == {ArtistOf[e] : e \in (ts \cap catalog.tracks) \cup as}
<1>2. ts \subseteq Tracks
      BY <1>1 DEF Tracks
<1>3. as \subseteq Variants
      BY CatalogTables DEF AlbumsOf
<1>4. x \subseteq Artists
      BY <1>2, <1>3 DEF Artists
<1>5. Impact(paths) = [tracks |-> ts, albums |-> as, artists |-> x]
      BY DEF Impact
<1> HIDE DEF ts, as, x
<1>6. Impact(paths) \in Impacts
      BY <1>2, <1>3, <1>4, <1>5, ImpactRecord
<1>7. QED  BY <1>1, <1>6

\* What the impact of some paths covers, if the catalog shows their rows.
LEMMA ImpactCovers ==
    ASSUME catalog \in Catalogs, Fits(Derive(PresentIn(files)), catalog),
           NEW paths \in SUBSET Paths, NEW g \in RowsOf(paths)
    PROVE  /\ TrackOf[g] \in Impact(paths).tracks /\ AlbumOf[g] \in Impact(paths).albums
           /\ ArtistOf[TrackOf[g]] \in Impact(paths).artists
           /\ ArtistOf[AlbumOf[g]] \in Impact(paths).artists
<1>1. g \in PresentIn(files)
      BY DEF RowsOf, PresentIn, Files
<1>2. TrackOf[g] \in catalog.tracks /\ <<AlbumOf[g], TrackOf[g]>> \in catalog.links
  <2>1. /\ Derive(PresentIn(files)).tracks \subseteq catalog.tracks
        /\ Derive(PresentIn(files)).links \subseteq catalog.links
        BY DeriveTables, FitsTables
  <2>2. QED  BY <1>1, <2>1, DeriveTables
<1> DEFINE ts == {TrackOf[h] : h \in RowsOf(paths)}
           as == AlbumsOf(catalog, ts)
<1>3. TrackOf[g] \in ts
      OBVIOUS
<1>4. AlbumOf[g] \in as
  <2> HIDE DEF ts
  <2>1. <<AlbumOf[g], TrackOf[g]>> \in {x \in catalog.links : x[2] \in ts}
        BY <1>2, <1>3
  <2>2. QED  BY <2>1 DEF AlbumsOf
<1>5. /\ Impact(paths).tracks = ts /\ Impact(paths).albums = as
      /\ Impact(paths).artists = {ArtistOf[e] : e \in (ts \cap catalog.tracks) \cup as}
      BY DEF Impact
<1> HIDE DEF ts, as
<1>6. QED  BY <1>2, <1>3, <1>4, <1>5

LEMMA MergedImpact ==
    ASSUME NEW i \in Impacts, NEW j \in Impacts
    PROVE  /\ Merged(i, j) \in Impacts
           /\ Merged(i, j).tracks = i.tracks \cup j.tracks
           /\ Merged(i, j).albums = i.albums \cup j.albums
           /\ Merged(i, j).artists = i.artists \cup j.artists
<1>1. DOMAIN i = {"tracks", "albums", "artists"}
      BY DEF Impacts
<1> DEFINE m == Merged(i, j)
<1>2. m = [k \in DOMAIN m |-> i[k] \cup j[k]] /\ DOMAIN m = {"tracks", "albums", "artists"}
      BY <1>1 DEF Merged
<1>3. m = [tracks |-> i.tracks \cup j.tracks, albums |-> i.albums \cup j.albums,
           artists |-> i.artists \cup j.artists]
  <2> HIDE DEF m
  <2>1. QED  BY <1>2
<1> HIDE DEF m
<1>4. m \in Impacts
      BY <1>3 DEF Impacts
<1>5. QED  BY <1>3, <1>4 DEF m

LEMMA ScopedTables ==
    ASSUME NEW c \in Catalogs, Linked(c), NEW i \in Impacts,
           files \in [Files -> Tags \cup {None}]
    PROVE  LET ts == ReconciledTracks(c, i)
               rs == ReconciledRows(c, i)
               n == Scoped(c, i) IN
           /\ n \in Catalogs /\ Linked(n)
           /\ rs = {g \in PresentIn(files) : TrackOf[g] \in ts} /\ rs \subseteq Tags
           /\ n.tracks = (c.tracks \ ts) \cup {TrackOf[g] : g \in rs}
           /\ n.albums = (c.albums \ i.albums) \cup {AlbumOf[g] : g \in rs}
           /\ n.links = {l \in c.links : l[1] \notin i.albums /\ l[2] \notin ts}
                          \cup {<<AlbumOf[g], TrackOf[g]>> : g \in rs}
           /\ n.artists = (c.artists
                \cup UNION {{ArtistOf[TrackOf[g]], ArtistOf[AlbumOf[g]]} : g \in rs})
                \ (i.artists \ {ArtistOf[e] : e \in n.tracks \cup n.albums})
<1> DEFINE ts == ReconciledTracks(c, i)
           rs == ReconciledRows(c, i)
           d == Derive(rs)
           tracks == (c.tracks \ ts) \cup d.tracks
           albums == (c.albums \ i.albums) \cup d.albums
           links == {l \in c.links : l[1] \notin i.albums /\ l[2] \notin ts} \cup d.links
           artists == (c.artists \cup d.artists) \ (i.artists \ {ArtistOf[e] : e \in tracks \cup albums})
<1>1. rs = {g \in PresentIn(files) : TrackOf[g] \in ts} /\ rs \subseteq Tags
      BY DEF ReconciledRows, PresentIn
<1>2. Scoped(c, i) = [tracks |-> tracks, albums |-> albums, links |-> links, artists |-> artists]
      BY DEF Scoped
<1> HIDE DEF ts, rs
<1>3. d \in Catalogs /\ Linked(d)
      BY <1>1, DeriveType
<1>4. /\ d.tracks = {TrackOf[g] : g \in rs} /\ d.albums = {AlbumOf[g] : g \in rs}
      /\ d.links = {<<AlbumOf[g], TrackOf[g]>> : g \in rs}
      /\ d.artists = UNION {{ArtistOf[TrackOf[g]], ArtistOf[AlbumOf[g]]} : g \in rs}
      BY DeriveTables
<1> HIDE DEF d
<1>5. tracks \subseteq Tracks /\ albums \subseteq Variants /\ artists \subseteq Artists
      BY <1>3, CatalogTables
<1>6. links \subseteq albums \X tracks
      BY <1>3 DEF Linked
<1>7. links \subseteq Variants \X Tracks
      BY <1>5, <1>6
<1>8. Scoped(c, i) \in Catalogs /\ Linked(Scoped(c, i))
  <2> HIDE DEF tracks, albums, links, artists
  <2>1. QED  BY <1>2, <1>5, <1>6, <1>7 DEF Catalogs, Linked
<1>9. /\ Scoped(c, i).tracks = tracks /\ Scoped(c, i).albums = albums
      /\ Scoped(c, i).links = links /\ Scoped(c, i).artists = artists
  <2> HIDE DEF tracks, albums, links, artists
  <2>1. QED  BY <1>2
<1>10. QED  BY <1>1, <1>4, <1>8, <1>9 DEF ts, rs
-----------------------------------------------------------------------------
\* Types.

Counts == [event : Nat, pass : Nat, failure : Nat, install : Nat]

TypeInv ==
    /\ disk \in [Paths -> Tags \cup {None}] /\ files \in [Files -> Tags \cup {None}]
    /\ roots \subseteq Roots /\ unseen \subseteq Paths
    /\ catalog \in Catalogs /\ Linked(catalog)
    /\ work \in [Actors -> Works] /\ work["removal"].seen \subseteq Roots
    /\ touched \in [Workers -> SUBSET Tags] /\ lapsed \subseteq Tags /\ flagged \subseteq Tags
    /\ untold \subseteq Tracks \cup Variants
    /\ repair \in BOOLEAN /\ session \in {"idle", "ops", "tellall"}
    /\ counts \in Counts

LEMMA IdleWork ==
    /\ NoImpact \in Impacts /\ Idle \in Works
    /\ Idle.pc = "idle" /\ Idle.seen = {} /\ Idle.fresh = {} /\ Idle.began = {}
    /\ Idle.roots = {} /\ Idle.todo = {} /\ Idle.mutated = FALSE
<1>1. NoImpact \in Impacts
      BY ImpactRecord DEF NoImpact
<1>2. QED  BY <1>1 DEF Idle, Works

LEMMA WorkSet ==
    ASSUME work \in [Actors -> Works], NEW a \in Actors, NEW w \in Works, Set(a, w)
    PROVE  /\ work' \in [Actors -> Works] /\ work'[a] = w
           /\ \A b \in Actors : b # a => work'[b] = work[b]
BY DEF Set

\* What a change of rows does to the histories.
Moved(fs) == {f \in Files : fs[f] # files[f]}

LEMMA RowsFacts ==
    ASSUME TypeInv, NEW a \in Workers, NEW fs \in [Files -> Tags \cup {None}],
           NEW gs \in SUBSET Tags, Rows(a, fs, gs)
    PROVE  /\ files' = fs /\ catalog' = With(catalog, Derive(gs)) /\ flagged' = flagged
           /\ untold' = untold \cup (Shown(catalog') \ Shown(catalog))
           /\ touched' \in [Workers -> SUBSET Tags]
           /\ \A b \in Workers : b # a => touched'[b] = touched[b]
           /\ touched'[a] = touched[a] \cup ((gs \cup {files[f] : f \in Moved(fs)}
                                               \cup {fs[f] : f \in Moved(fs)}) \ {None})
           /\ lapsed' \subseteq Tags /\ lapsed \subseteq lapsed'
           /\ a # "session" => \A f \in Moved(fs) :
                files[f] # None => files[f] \in work[a].began \cup lapsed'
<1> DEFINE more == (gs \cup {files[f] : f \in Moved(fs)} \cup {fs[f] : f \in Moved(fs)}) \ {None}
<1>1. more \subseteq Tags
      BY DEF Moved, TypeInv
<1>2. (touched[a] \cup gs \cup {files[f] : f \in Moved(fs)} \cup {fs[f] : f \in Moved(fs)}) \ {None}
        = touched[a] \cup more
      BY CatalogAssumption DEF TypeInv
<1>3. /\ files' = fs /\ catalog' = With(catalog, Derive(gs)) /\ flagged' = flagged
      /\ untold' = untold \cup (Shown(catalog') \ Shown(catalog))
      BY DEF Rows
<1>4. touched' = [touched EXCEPT ![a] = touched[a] \cup more]
  <2>1. touched' = [touched EXCEPT ![a] = (@ \cup gs \cup {files[f] : f \in Moved(fs)}
                                             \cup {fs[f] : f \in Moved(fs)}) \ {None}]
        BY DEF Rows, Moved
  <2>2. QED  BY <1>2, <2>1 DEF TypeInv
<1>5. lapsed' = lapsed \cup (IF a = "session" THEN {} ELSE
                               {files[f] : f \in Moved(fs)} \ (work[a].began \cup {None}))
      BY DEF Rows, Moved
<1>6. {files[f] : f \in Moved(fs)} \ {None} \subseteq Tags
      BY DEF Moved, TypeInv
<1> HIDE DEF more
<1>7. /\ touched' \in [Workers -> SUBSET Tags]
      /\ \A b \in Workers : b # a => touched'[b] = touched[b]
      /\ touched'[a] = touched[a] \cup more
      BY <1>1, <1>4 DEF TypeInv
<1>8. lapsed' \subseteq Tags /\ lapsed \subseteq lapsed'
      BY <1>5, <1>6 DEF TypeInv
<1>9. a # "session" => \A f \in Moved(fs) :
         files[f] # None => files[f] \in work[a].began \cup lapsed'
      BY <1>5
<1>10. QED  BY <1>3, <1>7, <1>8, <1>9 DEF more

LEMMA RowsType ==
    ASSUME TypeInv, NEW a \in Workers, NEW fs \in [Files -> Tags \cup {None}],
           NEW gs \in SUBSET Tags, Rows(a, fs, gs)
    PROVE  /\ files' \in [Files -> Tags \cup {None}] /\ catalog' \in Catalogs /\ Linked(catalog')
           /\ touched' \in [Workers -> SUBSET Tags] /\ lapsed' \subseteq Tags /\ flagged' \subseteq Tags
           /\ untold' \subseteq Tracks \cup Variants
<1>1. catalog' \in Catalogs /\ Linked(catalog')
      BY RowsFacts, WithTables DEF TypeInv
<1>2. Shown(catalog') \subseteq Tracks \cup Variants
      BY <1>1, CatalogTables DEF Shown
<1>3. QED  BY <1>1, <1>2, RowsFacts DEF TypeInv

\* A rebuild and the lapse of work keep the types.
LEMMA LapseType ==
    ASSUME TypeInv, NEW as \in SUBSET Workers, Lapse(as)
    PROVE  /\ touched' \in [Workers -> SUBSET Tags] /\ lapsed' \subseteq Tags /\ lapsed \subseteq lapsed'
           /\ \A b \in Workers : b \notin as => touched'[b] = touched[b]
           /\ \A b \in as : touched'[b] = {} /\ touched[b] \subseteq lapsed'
<1>1. DOMAIN touched = Workers
      BY DEF TypeInv
<1>2. \A b \in as : touched[b] \subseteq Tags
      BY DEF TypeInv
<1>3. lapsed' = lapsed \cup UNION {touched[b] : b \in as}
      BY DEF Lapse
<1>4. touched' = [b \in Workers |-> IF b \in as THEN {} ELSE touched[b]]
      BY <1>1 DEF Lapse
<1>5. QED  BY <1>2, <1>3, <1>4 DEF TypeInv

LEMMA RebuildType ==
    ASSUME TypeInv, NEW c \in Catalogs, Linked(c), Rebuild(catalog, c)
    PROVE  /\ catalog' \in Catalogs /\ Linked(catalog') /\ untold' \subseteq Tracks \cup Variants
           /\ catalog' = c
<1>1. Shown(c) \subseteq Tracks \cup Variants /\ Shown(catalog) \subseteq Tracks \cup Variants
      BY CatalogTables DEF Shown, TypeInv
<1>2. QED  BY <1>1 DEF Rebuild, TypeInv

LEMMA RebuildAllType ==
    ASSUME TypeInv, RebuildAll
    PROVE  /\ catalog' \in Catalogs /\ Linked(catalog') /\ untold' \subseteq Tracks \cup Variants
           /\ catalog' = Derive(PresentIn(files))
           /\ touched' = [a \in Workers |-> {}] /\ lapsed' = {} /\ flagged' = {}
<1>1. PresentIn(files) \subseteq Tags
      BY DEF PresentIn, TypeInv
<1>2. DOMAIN touched = Workers
      BY DEF TypeInv
<1>3. QED  BY <1>1, <1>2, DeriveType, RebuildType DEF RebuildAll

LEMMA CountType ==
    ASSUME counts \in Counts
    PROVE  \A n \in {"event", "pass", "failure"} :
             Count(n) => counts' \in Counts /\ counts'.install = counts.install
BY DEF Counts, Count

\* What the actions do to the work.  SameWork: two works that differ at most in what they have
\* yet to do.
SameWork(v, w) ==
    /\ v.kind = w.kind /\ v.scope = w.scope /\ v.seen = w.seen /\ v.began = w.began

LEMMA IngestWork ==
    ASSUME TypeInv, IngestNext
    PROVE  LET w == work["pass"]
               v == work'["pass"]
               p == First(w.todo)
               skip == disk[p] = files[p] \/ (disk[p] = None /\ w.kind = "repair") IN
           /\ w.pc = "rows" /\ p \in w.todo /\ p \in Paths /\ (disk[p] = None => w.kind # "full")
           /\ work' \in [Actors -> Works] /\ work'["removal"] = work["removal"]
           /\ SameWork(v, w) /\ v.pc = w.pc /\ v.roots = w.roots /\ v.fresh = w.fresh
           /\ v.todo = w.todo \ {p} /\ v.impact = w.impact
           /\ v.mutated <=> w.mutated \/ ~skip
           /\ IF skip THEN UNCHANGED <<files, catalog, untold, owed>>
              ELSE Rows("pass", Ingested(p), {disk[p]} \ {None})
           /\ UNCHANGED <<disk, roots, prefs, pins, repair, session, unseen, counts>>
<1> DEFINE w == work["pass"]
           p == First(w.todo)
           skip == disk[p] = files[p] \/ (disk[p] = None /\ w.kind = "repair")
           v == [w EXCEPT !.todo = @ \ {p}, !.mutated = @ \/ ~skip]
<1>1. w \in Works /\ "pass" \in Actors /\ "removal" \in Actors
      BY DEF TypeInv, Actors
<1>2. w.pc = "rows" /\ w.todo # {} /\ (disk[p] = None => w.kind # "full")
      BY DEF IngestNext, At
<1>3. p \in w.todo
      BY <1>2 DEF First
<1>4. p \in Paths
      BY <1>1, <1>3 DEF Works
<1>5. /\ Set("pass", v)
      /\ IF skip THEN UNCHANGED <<files, catalog, untold, owed>>
         ELSE Rows("pass", Ingested(p), {disk[p]} \ {None})
      /\ UNCHANGED <<disk, roots, prefs, pins, repair, session, unseen, counts>>
      BY DEF IngestNext
<1> HIDE DEF w, p, skip
<1>6. /\ v \in Works /\ SameWork(v, w) /\ v.pc = w.pc /\ v.roots = w.roots /\ v.fresh = w.fresh
      /\ v.todo = w.todo \ {p} /\ v.impact = w.impact
      /\ v.mutated <=> w.mutated \/ ~skip
  <2>1. skip \in BOOLEAN
        BY DEF skip
  <2>2. QED  BY <1>1, <2>1 DEF Works, SameWork
<1> HIDE DEF v
<1>7. /\ work' \in [Actors -> Works] /\ work'["pass"] = v
      /\ work'["removal"] = work["removal"]
      BY <1>1, <1>5, <1>6, WorkSet DEF TypeInv
<1>8. QED  BY <1>2, <1>3, <1>4, <1>5, <1>6, <1>7 DEF w, p, skip

LEMMA PresenceWork ==
    ASSUME TypeInv, ReconcilePresence
    PROVE  LET w == work["pass"]
               v == work'["pass"]
               r == First(w.roots)
               found == IF w.kind = "delta" THEN {p \in Under[r] : disk[p] # None} ELSE w.seen
               missing == MissingUnder(r, found)
               rest == w.roots \ {r} IN
           /\ w.pc = "rows" /\ w.todo = {} /\ r \in w.roots /\ r \in Roots /\ Under[r] \subseteq Paths
           /\ missing \subseteq Under[r]
           /\ work' \in [Actors -> Works] /\ work'["removal"] = work["removal"]
           /\ SameWork(v, w) /\ v.pc = w.pc /\ v.roots = rest /\ v.fresh = w.fresh
           /\ v.todo = (IF w.kind = "delta" \/ rest = {} THEN {} ELSE w.seen \cap Under[First(rest)])
           /\ v.impact = w.impact
           /\ v.mutated <=> w.mutated \/ missing # {}
           /\ Rows("pass", MarkMissing(missing), {})
           /\ UNCHANGED <<disk, roots, prefs, pins, repair, session, unseen, counts>>
<1> DEFINE w == work["pass"]
           r == First(w.roots)
           found == IF w.kind = "delta" THEN {p \in Under[r] : disk[p] # None} ELSE w.seen
           missing == MissingUnder(r, found)
           rest == w.roots \ {r}
           next == IF w.kind = "delta" \/ rest = {} THEN {} ELSE w.seen \cap Under[First(rest)]
           v == [w EXCEPT !.roots = rest, !.mutated = @ \/ missing # {}, !.todo = next]
<1>1. w \in Works /\ "pass" \in Actors /\ "removal" \in Actors
      BY DEF TypeInv, Actors
<1>2. w.pc = "rows" /\ w.todo = {} /\ w.roots # {}
      BY DEF ReconcilePresence, At
<1>3. r \in w.roots
      BY <1>2 DEF First
<1>4. r \in Roots /\ Under[r] \subseteq Paths
      BY <1>1, <1>3, CatalogAssumption DEF Works
<1>5. missing \subseteq Under[r]
      BY DEF MissingUnder
<1>6. next \subseteq Paths
  <2>1. CASE rest = {}
        BY <2>1
  <2>2. CASE rest # {}
    <3>1. First(rest) \in rest
          BY <2>2 DEF First
    <3>2. First(rest) \in Roots
          BY <1>1, <3>1 DEF Works
    <3>3. Under[First(rest)] \subseteq Paths
          BY <3>2, CatalogAssumption
    <3>4. QED  BY <3>3
  <2>3. QED  BY <2>1, <2>2
<1>7. /\ Set("pass", v)
      /\ Rows("pass", MarkMissing(missing), {})
      /\ UNCHANGED <<disk, roots, prefs, pins, repair, session, unseen, counts>>
      BY DEF ReconcilePresence
<1> HIDE DEF w, r, found, missing, next
<1>8. /\ v \in Works /\ SameWork(v, w) /\ v.pc = w.pc /\ v.roots = rest /\ v.fresh = w.fresh
      /\ v.todo = next /\ v.impact = w.impact /\ (v.mutated <=> w.mutated \/ missing # {})
      BY <1>1, <1>6 DEF Works, SameWork
<1> HIDE DEF v
<1>9. /\ work' \in [Actors -> Works] /\ work'["pass"] = v
      /\ work'["removal"] = work["removal"]
      BY <1>1, <1>7, <1>8, WorkSet DEF TypeInv
<1>10. QED  BY <1>2, <1>3, <1>4, <1>5, <1>7, <1>8, <1>9 DEF w, r, found, missing, next

\* One that ends.
LEMMA EndsWork ==
    ASSUME TypeInv, NEW a \in Actors, Set(a, Idle)
    PROVE  /\ work' \in [Actors -> Works] /\ work'[a] = Idle
           /\ \A b \in Actors : b # a => work'[b] = work[b]
BY IdleWork, WorkSet DEF TypeInv

\* One that goes on to another step.
LEMMA StepWork ==
    ASSUME TypeInv, NEW a \in Actors, NEW pc \in {"idle", "rows", "apply", "tell", "tellall", "clear"},
           NEW impact \in Impacts, Set(a, [work[a] EXCEPT !.pc = pc, !.impact = impact])
    PROVE  /\ work' \in [Actors -> Works] /\ \A b \in Actors : b # a => work'[b] = work[b]
           /\ SameWork(work'[a], work[a]) /\ work'[a].pc = pc /\ work'[a].impact = impact
           /\ work'[a].todo = work[a].todo /\ work'[a].roots = work[a].roots
           /\ work'[a].fresh = work[a].fresh /\ work'[a].mutated = work[a].mutated
<1> DEFINE w == work[a]
           v == [w EXCEPT !.pc = pc, !.impact = impact]
<1>1. w \in Works
      BY DEF TypeInv
<1> HIDE DEF w
<1>2. /\ v \in Works /\ SameWork(v, w) /\ v.pc = pc /\ v.impact = impact
      /\ v.todo = w.todo /\ v.roots = w.roots /\ v.fresh = w.fresh /\ v.mutated = w.mutated
      BY <1>1 DEF Works, SameWork
<1>3. Set(a, v)
      BY DEF w
<1> HIDE DEF v
<1>4. QED  BY <1>2, <1>3, WorkSet DEF w, TypeInv

LEMMA CaptureWork ==
    ASSUME TypeInv, NEW a \in Actors, CaptureAfter(a)
    PROVE  LET w == work[a]
               v == work'[a] IN
           /\ w.pc = "rows" /\ w.todo = {} /\ w.roots = {} /\ w.mutated /\ w.kind # "repair"
           /\ work' \in [Actors -> Works] /\ \A b \in Actors : b # a => work'[b] = work[b]
           /\ SameWork(v, w) /\ v.pc = "apply" /\ v.fresh = w.fresh /\ v.mutated = w.mutated
           /\ v.impact = Merged(w.impact, Impact(w.scope)) /\ w.impact \in Impacts
           /\ Impact(w.scope) \in Impacts /\ w.scope \subseteq Paths
           /\ unseen' = unseen \ w.fresh
           /\ UNCHANGED <<disk, roots, files, catalog, prefs, pins, repair, session, owed, untold,
                          counts>>
<1>1. work[a] \in Works
      BY DEF TypeInv
<1>2. work[a].scope \subseteq Paths /\ work[a].impact \in Impacts
      BY <1>1 DEF Works
<1>3. Impact(work[a].scope) \in Impacts
      BY <1>2, ImpactType DEF TypeInv
<1> DEFINE i == Merged(work[a].impact, Impact(work[a].scope))
<1>4. i \in Impacts
      BY <1>2, <1>3, MergedImpact
<1>5. /\ Set(a, [work[a] EXCEPT !.pc = "apply", !.impact = i])
      /\ unseen' = unseen \ work[a].fresh
      /\ UNCHANGED <<disk, roots, files, catalog, prefs, pins, repair, session, owed, untold,
                     counts>>
      /\ work[a].pc = "rows" /\ work[a].todo = {} /\ work[a].roots = {} /\ work[a].mutated
      /\ work[a].kind # "repair"
      BY <1>1 DEF CaptureAfter, RowsDone, At, Works
<1> HIDE DEF i
<1>6. /\ work' \in [Actors -> Works] /\ \A b \in Actors : b # a => work'[b] = work[b]
      /\ SameWork(work'[a], work[a]) /\ work'[a].pc = "apply" /\ work'[a].impact = i
      /\ work'[a].fresh = work[a].fresh /\ work'[a].mutated = work[a].mutated
      BY <1>4, <1>5, StepWork
<1>7. QED  BY <1>2, <1>3, <1>5, <1>6 DEF i

\* One that goes on with the impact it has.
LEMMA PcWork ==
    ASSUME TypeInv, NEW a \in Actors, NEW pc \in {"idle", "rows", "apply", "tell", "tellall", "clear"},
           Set(a, [work[a] EXCEPT !.pc = pc])
    PROVE  /\ work' \in [Actors -> Works] /\ \A b \in Actors : b # a => work'[b] = work[b]
           /\ SameWork(work'[a], work[a]) /\ work'[a].pc = pc /\ work'[a].impact = work[a].impact
           /\ work'[a].todo = work[a].todo /\ work'[a].roots = work[a].roots
           /\ work'[a].fresh = work[a].fresh /\ work'[a].mutated = work[a].mutated
<1> DEFINE w == work[a]
           v == [w EXCEPT !.pc = pc]
<1>1. w \in Works
      BY DEF TypeInv
<1> HIDE DEF w
<1>2. /\ v \in Works /\ SameWork(v, w) /\ v.pc = pc /\ v.impact = w.impact
      /\ v.todo = w.todo /\ v.roots = w.roots /\ v.fresh = w.fresh /\ v.mutated = w.mutated
      BY <1>1 DEF Works, SameWork
<1>3. Set(a, v)
      BY DEF w
<1> HIDE DEF v
<1>4. QED  BY <1>2, <1>3, WorkSet DEF w, TypeInv

LEMMA SkipWork ==
    ASSUME TypeInv, RepairSkips
    PROVE  LET w == work["pass"]
               v == work'["pass"]
               p == First(w.todo) IN
           /\ w.pc = "rows" /\ w.kind = "repair" /\ p \in w.todo
           /\ work' \in [Actors -> Works] /\ work'["removal"] = work["removal"]
           /\ SameWork(v, w) /\ v.pc = w.pc /\ v.impact = w.impact /\ v.roots = w.roots
           /\ v.todo = w.todo \ {p} /\ v.fresh = w.fresh \ {p} /\ v.mutated = w.mutated
           /\ Count("failure")
           /\ UNCHANGED <<disk, roots, files, catalog, prefs, pins, repair, session, owed, untold,
                          unseen>>
<1> DEFINE w == work["pass"]
           p == First(w.todo)
           v == [w EXCEPT !.todo = @ \ {p}, !.fresh = @ \ {p}]
<1>1. w \in Works /\ "pass" \in Actors /\ "removal" \in Actors
      BY DEF TypeInv, Actors
<1>2. w.pc = "rows" /\ w.kind = "repair" /\ w.todo # {}
      BY DEF RepairSkips, At
<1>3. p \in w.todo
      BY <1>2 DEF First
<1>4. /\ Set("pass", v) /\ Count("failure")
      /\ UNCHANGED <<disk, roots, files, catalog, prefs, pins, repair, session, owed, untold,
                     unseen>>
      BY DEF RepairSkips
<1> HIDE DEF w, p
<1>5. /\ v \in Works /\ SameWork(v, w) /\ v.pc = w.pc /\ v.impact = w.impact /\ v.roots = w.roots
      /\ v.todo = w.todo \ {p} /\ v.fresh = w.fresh \ {p} /\ v.mutated = w.mutated
      BY <1>1 DEF Works, SameWork
<1> HIDE DEF v
<1>6. /\ work' \in [Actors -> Works] /\ work'["pass"] = v
      /\ work'["removal"] = work["removal"]
      BY <1>1, <1>4, <1>5, WorkSet DEF TypeInv
<1>7. QED  BY <1>2, <1>3, <1>4, <1>5, <1>6 DEF w, p

LEMMA InsideType ==
    ASSUME NEW rs \in SUBSET Roots
    PROVE  Inside(rs) \subseteq Paths /\ \A r \in rs : Under[r] \subseteq Inside(rs)
BY CatalogAssumption DEF Inside

LEMMA BeginFullWork ==
    ASSUME TypeInv, NEW k \in {"full", "repair"}, BeginFull(k)
    PROVE  LET w == work'["pass"]
               paths == Inside(roots)
               seen == {p \in paths : disk[p] # None} IN
           /\ work["pass"].pc = "idle" /\ paths \subseteq Paths
           /\ First(roots) \in roots
           /\ work' \in [Actors -> Works] /\ work'["removal"] = work["removal"]
           /\ w.pc = "rows" /\ w.kind = k /\ w.roots = roots
           /\ w.todo = seen \cap Under[First(roots)] /\ w.scope = paths /\ w.seen = seen
           /\ w.fresh = paths /\ w.began = RowsOf(paths)
           /\ (k # "repair" => w.impact = Impact(paths))
           /\ w.mutated = FALSE /\ Count("pass")
           /\ UNCHANGED <<disk, roots, files, catalog, prefs, pins, repair, session, owed, untold,
                          unseen>>
<1> DEFINE paths == Inside(roots)
           seen == {p \in paths : disk[p] # None}
           todo == seen \cap Under[First(roots)]
           began == RowsOf(paths)
           impact == IF k = "repair" THEN NoImpact ELSE Impact(paths)
           w == [Idle EXCEPT !.pc = "rows", !.kind = k, !.roots = roots, !.todo = todo,
                   !.scope = paths, !.seen = seen, !.fresh = paths, !.began = began,
                   !.impact = impact]
<1>1. paths \subseteq Paths /\ roots \subseteq Roots
      BY InsideType DEF TypeInv
<1>2. impact \in Impacts /\ began \subseteq Tags
      BY <1>1, IdleWork, ImpactType DEF TypeInv
<1>3. roots # {} /\ work["pass"].pc = "idle"
      BY DEF BeginFull, At
<1>4. First(roots) \in roots
      BY <1>3 DEF First
<1>5. /\ Set("pass", w) /\ Count("pass")
      /\ UNCHANGED <<disk, roots, files, catalog, prefs, pins, repair, session, owed, untold,
                     unseen>>
      BY DEF BeginFull
<1>6. seen \subseteq Paths /\ todo \subseteq Paths
      BY <1>1
<1>7. k # "repair" => impact = Impact(paths)
      OBVIOUS
<1> HIDE DEF paths, seen, todo, began, impact
<1>8. /\ w \in Works /\ w.pc = "rows" /\ w.kind = k /\ w.roots = roots /\ w.todo = todo
      /\ w.scope = paths /\ w.seen = seen /\ w.fresh = paths /\ w.began = began
      /\ w.impact = impact /\ w.mutated = FALSE
      BY <1>1, <1>2, <1>6 DEF Works, Idle
<1> HIDE DEF w
<1>9. /\ work' \in [Actors -> Works] /\ work'["pass"] = w
      /\ work'["removal"] = work["removal"]
      BY <1>5, <1>8, WorkSet DEF TypeInv, Actors
<1>10. QED  BY <1>1, <1>3, <1>4, <1>5, <1>7, <1>8, <1>9 DEF paths, seen, todo, began

LEMMA BeginDeltaWork ==
    ASSUME TypeInv, NEW paths \in SUBSET Paths, NEW rs \in SUBSET Roots, BeginDelta(paths, rs)
    PROVE  LET w == work'["pass"]
               scope == paths \cup Inside(rs) IN
           /\ work["pass"].pc = "idle" /\ scope \subseteq Paths
           /\ paths \subseteq Inside(roots) /\ rs \subseteq roots
           /\ work' \in [Actors -> Works] /\ work'["removal"] = work["removal"]
           /\ w.pc = "rows" /\ w.kind = "delta" /\ w.roots = rs /\ w.todo = paths
           /\ w.scope = scope /\ w.fresh = paths \cup {p \in Inside(rs) : disk[p] = None}
           /\ w.began = RowsOf(scope) /\ w.impact = Impact(scope)
           /\ w.mutated = FALSE /\ Count("pass")
           /\ UNCHANGED <<disk, roots, files, catalog, prefs, pins, repair, session, owed, untold,
                          unseen>>
<1> DEFINE scope == paths \cup Inside(rs)
           fresh == paths \cup {p \in Inside(rs) : disk[p] = None}
           began == RowsOf(scope)
           impact == Impact(scope)
           w == [Idle EXCEPT !.pc = "rows", !.kind = "delta", !.roots = rs, !.todo = paths,
                   !.scope = scope, !.began = began, !.impact = impact, !.fresh = fresh]
<1>1. scope \subseteq Paths /\ fresh \subseteq Paths
      BY InsideType
<1>2. impact \in Impacts /\ began \subseteq Tags
      BY <1>1, ImpactType DEF TypeInv
<1>3. /\ work["pass"].pc = "idle" /\ paths \subseteq Inside(roots) /\ rs \subseteq roots
      /\ Set("pass", w) /\ Count("pass")
      /\ UNCHANGED <<disk, roots, files, catalog, prefs, pins, repair, session, owed, untold,
                     unseen>>
      BY DEF BeginDelta, At
<1> HIDE DEF scope, fresh, began, impact
<1>4. /\ w \in Works /\ w.pc = "rows" /\ w.kind = "delta" /\ w.roots = rs /\ w.todo = paths
      /\ w.scope = scope /\ w.fresh = fresh /\ w.began = began
      /\ w.impact = impact /\ w.mutated = FALSE
      BY <1>1, <1>2, IdleWork DEF Works, Idle
<1> HIDE DEF w
<1>5. /\ work' \in [Actors -> Works] /\ work'["pass"] = w
      /\ work'["removal"] = work["removal"]
      BY <1>3, <1>4, WorkSet DEF TypeInv, Actors
<1>6. QED  BY <1>1, <1>3, <1>4, <1>5 DEF scope, fresh, began, impact

\* A cancelled pass is over, or all it has yet to do is to tell.
LEMMA CancelledWork ==
    ASSUME NEW w \in Works
    PROVE  LET v == Cancelled(w) IN
           /\ v \in Works
           /\ \/ v = Idle
              \/ /\ v.pc = "tell" /\ w.pc \in {"tell", "tellall"} /\ v.kind = w.kind
                 /\ (w.pc = "tell" => v.impact = w.impact)
                 /\ (w.pc = "tellall" => v.impact.tracks = Tracks /\ v.impact.albums = Variants)
           /\ w.pc \in {"tell", "tellall"} <=> v.pc # "idle"
<1>1. CASE w.pc \notin {"tell", "tellall"}
      BY <1>1, IdleWork DEF Cancelled
<1>2. CASE w.pc = "tell"
  <2>1. Cancelled(w) = [w EXCEPT !.pc = "tell", !.impact = @]
        BY <1>2 DEF Cancelled
  <2>2. QED  BY <1>2, <2>1 DEF Works
<1>3. CASE w.pc = "tellall"
  <2> DEFINE all == [NoImpact EXCEPT !.tracks = {TrackOf[g] : g \in Tags}, !.albums = Variants]
  <2>1. all \in Impacts /\ all.tracks = Tracks /\ all.albums = Variants
        BY IdleWork DEF Impacts, Tracks
  <2>2. Cancelled(w) = [w EXCEPT !.pc = "tell", !.impact = all]
        BY <1>3 DEF Cancelled
  <2> HIDE DEF all
  <2>3. QED  BY <1>3, <2>1, <2>2 DEF Works
<1>4. QED  BY <1>1, <1>2, <1>3

LEMMA SetRootsWork ==
    ASSUME TypeInv, NEW new \in SUBSET Roots, SetScanRoots(new)
    PROVE  LET gone == roots \ new
               w == work'["removal"] IN
           /\ work["removal"].pc = "idle" /\ roots' = new
           /\ work' \in [Actors -> Works] /\ work'["pass"] = Cancelled(work["pass"])
           /\ \/ w = Idle
              \/ /\ w.pc = "rows" /\ w.kind = "remove" /\ w.roots = gone /\ gone # {}
                 /\ w.seen = roots /\ w.scope = Inside(gone) /\ w.began = RowsOf(Inside(gone))
                 /\ w.impact = Impact(Inside(gone)) /\ w.mutated = FALSE /\ w.fresh = {}
           /\ Inside(gone) \subseteq Paths /\ Inside(roots) \subseteq Paths /\ Inside(new) \subseteq Paths
           /\ Count("event") /\ Lapse({"pass"}) /\ unseen' = unseen \cup Rerooted(roots, new)
           /\ UNCHANGED <<disk, files, catalog, prefs, pins, repair, session, flagged, untold>>
<1> DEFINE gone == roots \ new
           scope == Inside(gone)
           impact == Impact(scope)
           began == RowsOf(scope)
           w == IF gone = {} THEN Idle
                ELSE [Idle EXCEPT !.pc = "rows", !.kind = "remove", !.roots = gone,
                        !.seen = roots, !.scope = scope, !.began = began, !.impact = impact]
           v == Cancelled(work["pass"])
<1>1. roots \subseteq Roots /\ gone \subseteq Roots
      BY DEF TypeInv
<1>2. scope \subseteq Paths /\ Inside(roots) \subseteq Paths /\ Inside(new) \subseteq Paths
      BY <1>1, InsideType
<1>3. impact \in Impacts /\ began \subseteq Tags
      BY <1>2, ImpactType DEF TypeInv
<1>4. work["pass"] \in Works
      BY DEF TypeInv, Actors
<1>5. v \in Works
      BY <1>4, CancelledWork
<1>6. /\ work["removal"].pc = "idle" /\ roots' = new
      /\ Count("event") /\ Lapse({"pass"}) /\ unseen' = unseen \cup Rerooted(roots, new)
      /\ UNCHANGED <<disk, files, catalog, prefs, pins, repair, session, flagged, untold>>
      BY DEF SetScanRoots, At
<1>7. work' = [work EXCEPT !["pass"] = v, !["removal"] = w]
      BY DEF SetScanRoots
<1> HIDE DEF gone, scope, impact, began, v
<1>8. /\ w \in Works
      /\ \/ w = Idle
         \/ /\ w.pc = "rows" /\ w.kind = "remove" /\ w.roots = gone /\ gone # {}
            /\ w.seen = roots /\ w.scope = scope /\ w.began = began
            /\ w.impact = impact /\ w.mutated = FALSE /\ w.fresh = {}
  <2>1. CASE gone = {}
        BY <2>1, IdleWork
  <2>2. CASE gone # {}
        BY <1>1, <1>2, <1>3, <2>2, IdleWork DEF Works, Idle
  <2>3. QED  BY <2>1, <2>2
<1> HIDE DEF w
<1>9. work' \in [Actors -> Works] /\ work'["pass"] = v /\ work'["removal"] = w
      BY <1>5, <1>7, <1>8 DEF TypeInv, Actors
<1>10. QED  BY <1>2, <1>6, <1>8, <1>9 DEF gone, scope, impact, began, v

\* The paths a pass has not to look at again become fewer.
LEMMA FreshWork ==
    ASSUME TypeInv, NEW ps, NEW w \in Works,
           work' = [work EXCEPT !["pass"].fresh = @ \ ps, !["removal"] = w]
    PROVE  /\ work' \in [Actors -> Works] /\ work'["removal"] = w
           /\ SameWork(work'["pass"], work["pass"])
           /\ work'["pass"].pc = work["pass"].pc /\ work'["pass"].impact = work["pass"].impact
           /\ work'["pass"].todo = work["pass"].todo /\ work'["pass"].roots = work["pass"].roots
           /\ work'["pass"].fresh = work["pass"].fresh \ ps
           /\ work'["pass"].mutated = work["pass"].mutated
<1> DEFINE u == work["pass"]
           v == [u EXCEPT !.fresh = @ \ ps]
<1>1. u \in Works
      BY DEF TypeInv, Actors
<1>2. work' = [work EXCEPT !["pass"] = v, !["removal"] = w]
      OBVIOUS
<1> HIDE DEF u
<1>3. /\ v \in Works /\ SameWork(v, u) /\ v.pc = u.pc /\ v.impact = u.impact
      /\ v.todo = u.todo /\ v.roots = u.roots /\ v.fresh = u.fresh \ ps /\ v.mutated = u.mutated
      BY <1>1 DEF Works, SameWork
<1> HIDE DEF v
<1>4. work' \in [Actors -> Works] /\ work'["pass"] = v /\ work'["removal"] = w
      BY <1>2, <1>3 DEF TypeInv, Actors
<1>5. QED  BY <1>3, <1>4 DEF u

LEMMA RemoveRowsWork ==
    ASSUME TypeInv, RemoveRows
    PROVE  LET w == work["removal"]
               v == work'["removal"]
               missing == {p \in w.scope : files[p] # None}
               u == work["pass"]
               n == work'["pass"] IN
           /\ w.pc = "rows" /\ w.roots # {} /\ w.scope \subseteq Paths
           /\ work' \in [Actors -> Works]
           /\ SameWork(n, u) /\ n.pc = u.pc /\ n.impact = u.impact /\ n.todo = u.todo
           /\ n.roots = u.roots /\ n.fresh = u.fresh \ missing /\ n.mutated = u.mutated
           /\ \/ missing = {} /\ v = Idle
              \/ /\ SameWork(v, w) /\ v.pc = w.pc /\ v.impact = w.impact /\ v.todo = w.todo
                 /\ v.roots = {} /\ v.fresh = w.fresh /\ v.mutated = TRUE
           /\ Rows("removal", MarkMissing(missing), {})
           /\ unseen' = (unseen \ (w.scope \ Inside(roots))) \cup (missing \cap Inside(roots))
           /\ UNCHANGED <<disk, roots, prefs, pins, repair, session, counts>>
<1> DEFINE w == work["removal"]
           missing == {p \in w.scope : files[p] # None}
           v == IF missing = {} THEN Idle ELSE [w EXCEPT !.roots = {}, !.mutated = TRUE]
<1>1. w \in Works
      BY DEF TypeInv, Actors
<1>2. w.scope \subseteq Paths
      BY <1>1 DEF Works
<1>3. /\ w.pc = "rows" /\ w.roots # {}
      /\ Rows("removal", MarkMissing(missing), {})
      /\ unseen' = (unseen \ (w.scope \ Inside(roots))) \cup (missing \cap Inside(roots))
      /\ UNCHANGED <<disk, roots, prefs, pins, repair, session, counts>>
      BY DEF RemoveRows, At
<1>4. work' = [work EXCEPT !["pass"].fresh = @ \ missing, !["removal"] = v]
      BY DEF RemoveRows
<1> HIDE DEF w, missing
<1>5. /\ v \in Works
      /\ \/ missing = {} /\ v = Idle
         \/ /\ SameWork(v, w) /\ v.pc = w.pc /\ v.impact = w.impact /\ v.todo = w.todo
            /\ v.roots = {} /\ v.fresh = w.fresh /\ v.mutated = TRUE
  <2>1. CASE missing = {}
        BY <2>1, IdleWork
  <2>2. CASE missing # {}
        BY <1>1, <2>2 DEF Works, SameWork
  <2>3. QED  BY <2>1, <2>2
<1> HIDE DEF v
<1>6. /\ work' \in [Actors -> Works] /\ work'["removal"] = v
      /\ SameWork(work'["pass"], work["pass"])
      /\ work'["pass"].pc = work["pass"].pc /\ work'["pass"].impact = work["pass"].impact
      /\ work'["pass"].todo = work["pass"].todo /\ work'["pass"].roots = work["pass"].roots
      /\ work'["pass"].fresh = work["pass"].fresh \ missing
      /\ work'["pass"].mutated = work["pass"].mutated
      BY <1>4, <1>5, FreshWork
<1>7. QED  BY <1>2, <1>3, <1>5, <1>6 DEF w, missing

LEMMA RemovalFailsWork ==
    ASSUME TypeInv, RemovalFails
    PROVE  LET w == work["removal"]
               u == work["pass"]
               n == work'["pass"] IN
           /\ \/ w.pc = "rows" /\ w.roots # {} /\ untold' = untold
              \/ w.pc = "tell" /\ untold' = untold \ Told(w.impact)
           /\ work' \in [Actors -> Works] /\ work'["removal"] = Idle
           /\ SameWork(n, u) /\ n.pc = u.pc /\ n.impact = u.impact /\ n.todo = u.todo
           /\ n.roots = u.roots /\ n.fresh = u.fresh \ Rerooted(roots, roots')
           /\ n.mutated = u.mutated
           /\ roots' = w.seen /\ unseen' = unseen \cup Rerooted(roots, roots') /\ Count("failure")
           /\ UNCHANGED <<disk, files, catalog, prefs, pins, repair, session, owed>>
<1>1. /\ \/ At("removal", "rows") /\ work["removal"].roots # {}
         \/ At("removal", "tell")
      /\ untold' = IF At("removal", "tell") THEN untold \ Told(work["removal"].impact) ELSE untold
      /\ roots' = work["removal"].seen /\ unseen' = unseen \cup Rerooted(roots, work["removal"].seen)
      /\ Count("failure")
      /\ UNCHANGED <<disk, files, catalog, prefs, pins, repair, session, owed>>
      BY DEF RemovalFails
<1>2. work' = [work EXCEPT !["pass"].fresh = @ \ Rerooted(roots, work["removal"].seen),
                           !["removal"] = Idle]
      BY DEF RemovalFails
<1>3. /\ \/ work["removal"].pc = "rows" /\ work["removal"].roots # {} /\ untold' = untold
         \/ work["removal"].pc = "tell" /\ untold' = untold \ Told(work["removal"].impact)
      BY <1>1 DEF At
<1>4. QED  BY <1>1, <1>2, <1>3, IdleWork, FreshWork

LEMMA DiskWork ==
    ASSUME TypeInv, NEW p \in Paths, NEW g \in Holds[p] \cup {None}, DiskChange(p, g)
    PROVE  LET u == work["pass"]
               n == work'["pass"] IN
           /\ disk' \in [Paths -> Tags \cup {None}] /\ \A q \in Paths \ {p} : disk'[q] = disk[q]
           /\ work' \in [Actors -> Works] /\ work'["removal"] = work["removal"]
           /\ SameWork(n, u) /\ n.pc = u.pc /\ n.impact = u.impact /\ n.todo = u.todo
           /\ n.roots = u.roots /\ n.fresh = u.fresh \ {p} /\ n.mutated = u.mutated
           /\ unseen' = unseen \cup {p} /\ Count("event")
           /\ UNCHANGED <<roots, files, catalog, prefs, pins, repair, session, owed, untold>>
<1>1. /\ disk' = [disk EXCEPT ![p] = g] /\ Count("event")
      /\ work' = [work EXCEPT !["pass"].fresh = @ \ {p}]
      /\ unseen' = unseen \cup {p}
      /\ UNCHANGED <<roots, files, catalog, prefs, pins, repair, session, owed, untold>>
      BY DEF DiskChange
<1>2. g \in Tags \cup {None}
      BY CatalogAssumption
<1>3. disk' \in [Paths -> Tags \cup {None}] /\ \A q \in Paths \ {p} : disk'[q] = disk[q]
      BY <1>1, <1>2 DEF TypeInv
<1>4. work["removal"] \in Works /\ "removal" \in DOMAIN work
      BY DEF TypeInv, Actors
<1>5. work' = [work EXCEPT !["pass"].fresh = @ \ {p}, !["removal"] = work["removal"]]
      BY <1>1, <1>4 DEF TypeInv
<1>6. QED  BY <1>1, <1>3, <1>4, <1>5, FreshWork

LEMMA TypeStep ==
    ASSUME TypeInv, [Next]_vars
    PROVE  TypeInv'
<1>1. ASSUME IngestNext PROVE TypeInv'
  <2> DEFINE p == First(work["pass"].todo)
  <2>1. /\ p \in Paths /\ work' \in [Actors -> Works] /\ work'["removal"] = work["removal"]
        /\ \/ UNCHANGED <<files, catalog, untold, owed>>
           \/ Rows("pass", Ingested(p), {disk[p]} \ {None})
        /\ UNCHANGED <<disk, roots, prefs, pins, repair, session, unseen, counts>>
        BY <1>1, IngestWork
  <2> HIDE DEF p
  <2>2. CASE UNCHANGED <<files, catalog, untold, owed>>
        BY <2>1, <2>2 DEF TypeInv, owed
  <2>3. CASE Rows("pass", Ingested(p), {disk[p]} \ {None})
    <3>1. Ingested(p) \in [Files -> Tags \cup {None}] /\ {disk[p]} \ {None} \subseteq Tags
          BY <2>1 DEF Ingested, TypeInv, Files
    <3>2. QED  BY <2>1, <2>3, <3>1, RowsType DEF TypeInv, Workers, Actors
  <2>4. QED  BY <2>1, <2>2, <2>3
<1>2. ASSUME ReconcilePresence PROVE TypeInv'
  <2>1. PICK missing \in SUBSET Paths :
          /\ work' \in [Actors -> Works] /\ work'["removal"] = work["removal"]
          /\ Rows("pass", MarkMissing(missing), {})
          /\ UNCHANGED <<disk, roots, prefs, pins, repair, session, unseen, counts>>
        BY <1>2, PresenceWork
  <2>2. MarkMissing(missing) \in [Files -> Tags \cup {None}]
        BY DEF MarkMissing, TypeInv
  <2>3. QED  BY <2>1, <2>2, RowsType DEF TypeInv, Workers, Actors
<1>3. ASSUME PassUnchanged PROVE TypeInv'
  <2>1. /\ work' \in [Actors -> Works] /\ work'["removal"] = work["removal"]
        /\ unseen' \subseteq unseen
        /\ UNCHANGED <<disk, roots, files, catalog, prefs, pins, repair, session, owed, untold,
                       counts>>
        BY <1>3, EndsWork DEF PassUnchanged, Actors
  <2>2. QED  BY <2>1 DEF TypeInv, owed
<1>4. ASSUME RepairRebuild PROVE TypeInv'
  <2>1. /\ work' \in [Actors -> Works] /\ work'["removal"] = work["removal"]
        /\ unseen' \subseteq unseen /\ RebuildAll
        /\ UNCHANGED <<disk, roots, files, repair, session, counts>>
        BY <1>4, PcWork DEF RepairRebuild, Actors
  <2>2. QED  BY <2>1, RebuildAllType DEF TypeInv, Workers
<1>5. ASSUME RepairTells PROVE TypeInv'
  <2>1. /\ work' \in [Actors -> Works] /\ work'["removal"] = work["removal"] /\ untold' = {}
        /\ UNCHANGED <<disk, roots, files, catalog, prefs, pins, repair, session, owed, unseen, counts>>
        BY <1>5, PcWork DEF RepairTells, Actors
  <2>2. QED  BY <2>1 DEF TypeInv, owed
<1>6. ASSUME RepairClears PROVE TypeInv'
  <2>1. /\ work' \in [Actors -> Works] /\ work'["removal"] = work["removal"] /\ repair' = FALSE
        /\ lapsed' = lapsed \cup flagged /\ flagged' = {}
        /\ UNCHANGED <<disk, roots, files, catalog, prefs, pins, session, touched, untold, unseen,
                       counts>>
        BY <1>6, EndsWork DEF RepairClears, Actors
  <2>2. QED  BY <2>1 DEF TypeInv
<1>7. ASSUME RepairSkips PROVE TypeInv'
  <2>1. /\ work' \in [Actors -> Works] /\ work'["removal"] = work["removal"] /\ counts' \in Counts
        /\ UNCHANGED <<disk, roots, files, catalog, prefs, pins, repair, session, owed, untold,
                       unseen>>
        BY <1>7, SkipWork, CountType DEF TypeInv
  <2>2. QED  BY <2>1 DEF TypeInv, owed
<1>8. ASSUME PassFails PROVE TypeInv'
  <2>1. /\ work' \in [Actors -> Works] /\ work'["removal"] = work["removal"] /\ counts' \in Counts
        /\ Lapse({"pass"})
        /\ UNCHANGED <<disk, roots, files, catalog, prefs, pins, repair, session, flagged, untold,
                       unseen>>
        BY <1>8, EndsWork, CountType DEF PassFails, Actors, TypeInv
  <2>2. QED  BY <2>1, LapseType DEF TypeInv, Workers, Actors
<1>9. ASSUME NEW k \in {"full", "repair"}, BeginFull(k) PROVE TypeInv'
  <2>1. /\ work' \in [Actors -> Works] /\ work'["removal"] = work["removal"] /\ counts' \in Counts
        /\ UNCHANGED <<disk, roots, files, catalog, prefs, pins, repair, session, owed, untold,
                       unseen>>
        BY <1>9, BeginFullWork, CountType DEF TypeInv
  <2>2. QED  BY <2>1 DEF TypeInv, owed
<1>10. ASSUME NEW ps \in SUBSET Paths, NEW rs \in SUBSET Roots, BeginDelta(ps, rs) PROVE TypeInv'
  <2>1. /\ work' \in [Actors -> Works] /\ work'["removal"] = work["removal"] /\ counts' \in Counts
        /\ UNCHANGED <<disk, roots, files, catalog, prefs, pins, repair, session, owed, untold,
                       unseen>>
        BY <1>10, BeginDeltaWork, CountType DEF TypeInv
  <2>2. QED  BY <2>1 DEF TypeInv, owed
<1>11. ASSUME NEW a \in Actors, CaptureAfter(a) PROVE TypeInv'
  <2>1. /\ work' \in [Actors -> Works] /\ work'["removal"].seen = work["removal"].seen
        /\ unseen' \subseteq unseen
        /\ UNCHANGED <<disk, roots, files, catalog, prefs, pins, repair, session, owed, untold,
                       counts>>
        BY <1>11, CaptureWork DEF Actors, SameWork
  <2>2. QED  BY <2>1 DEF TypeInv, owed
<1>12. ASSUME NEW a \in Actors, ApplyScoped(a) PROVE TypeInv'
  <2>1. work[a].impact \in Impacts
        BY DEF TypeInv, Works
  <2>2. /\ work' \in [Actors -> Works] /\ work'["removal"].seen = work["removal"].seen
        /\ Rebuild(catalog, Scoped(catalog, work[a].impact))
        /\ touched' = [touched EXCEPT ![a] = {}]
        /\ UNCHANGED <<disk, roots, files, repair, session, lapsed, flagged, unseen, counts>>
        BY <1>12, PcWork DEF ApplyScoped, Actors, SameWork
  <2>3. Scoped(catalog, work[a].impact) \in Catalogs /\ Linked(Scoped(catalog, work[a].impact))
        BY <2>1, ScopedTables DEF TypeInv
  <2>4. QED  BY <2>2, <2>3, RebuildType DEF TypeInv
<1>13. ASSUME NEW a \in Actors, ApplyFlags(a) PROVE TypeInv'
  <2>1. /\ work' \in [Actors -> Works] /\ work'["removal"].seen \subseteq Roots /\ Flagged(a)
        /\ counts' \in Counts
        /\ UNCHANGED <<disk, roots, files, catalog, prefs, pins, session, untold, unseen>>
        BY <1>13, EndsWork, IdleWork, CountType DEF ApplyFlags, Actors, TypeInv
  <2>2. touched[a] \subseteq Tags
        BY DEF TypeInv, Workers
  <2>3. QED  BY <2>1, <2>2 DEF TypeInv, Flagged
<1>14. ASSUME NEW a \in Actors, TellScan(a) PROVE TypeInv'
  <2>1. /\ work' \in [Actors -> Works] /\ work'["removal"].seen \subseteq Roots
        /\ untold' \subseteq untold
        /\ UNCHANGED <<disk, roots, files, catalog, prefs, pins, repair, session, owed, unseen, counts>>
        BY <1>14, EndsWork, IdleWork DEF TellScan, Actors, TypeInv
  <2>2. QED  BY <2>1 DEF TypeInv, owed
<1>15. ASSUME RemoveRows PROVE TypeInv'
  <2>1. PICK missing \in SUBSET Paths :
          /\ work' \in [Actors -> Works] /\ work'["removal"].seen \subseteq Roots
          /\ Rows("removal", MarkMissing(missing), {})
          /\ unseen' \subseteq unseen \cup missing
          /\ UNCHANGED <<disk, roots, prefs, pins, repair, session, counts>>
    <3> DEFINE missing == {p \in work["removal"].scope : files[p] # None}
    <3>1. /\ work' \in [Actors -> Works] /\ missing \subseteq Paths
          /\ Rows("removal", MarkMissing(missing), {})
          /\ work'["removal"] = Idle \/ work'["removal"].seen = work["removal"].seen
          /\ unseen' = (unseen \ (work["removal"].scope \ Inside(roots))) \cup (missing \cap Inside(roots))
          /\ UNCHANGED <<disk, roots, prefs, pins, repair, session, counts>>
          BY <1>15, RemoveRowsWork DEF SameWork
    <3> HIDE DEF missing
    <3>2. work'["removal"].seen \subseteq Roots
          BY <3>1, IdleWork DEF TypeInv
    <3>3. unseen' \subseteq unseen \cup missing
          BY <3>1
    <3>4. QED  BY <3>1, <3>2, <3>3
  <2>2. MarkMissing(missing) \in [Files -> Tags \cup {None}]
        BY DEF MarkMissing, TypeInv
  <2>3. QED  BY <2>1, <2>2, RowsType DEF TypeInv, Workers, Actors
<1>16. ASSUME RemovalFails PROVE TypeInv'
  <2>1. /\ work' \in [Actors -> Works] /\ work'["removal"] = Idle /\ counts' \in Counts
        /\ roots' = work["removal"].seen /\ unseen' = unseen \cup Rerooted(roots, roots')
        /\ untold' \subseteq untold
        /\ UNCHANGED <<disk, files, catalog, prefs, pins, repair, session, owed>>
        BY <1>16, RemovalFailsWork, CountType DEF TypeInv
  <2>2. roots' \subseteq Roots
        BY <2>1 DEF TypeInv
  <2>3. Rerooted(roots, roots') \subseteq Paths
        BY <2>2, InsideType DEF Rerooted, TypeInv
  <2>4. QED  BY <2>1, <2>2, <2>3, IdleWork DEF TypeInv, owed
<1>17. ASSUME SessionRebuild PROVE TypeInv'
      BY <1>17, RebuildAllType DEF SessionRebuild, TypeInv, Workers
<1>18. ASSUME SessionTells PROVE TypeInv'
      BY <1>18 DEF SessionTells, TypeInv, owed
<1>19. ASSUME SessionFails PROVE TypeInv'
  <2>1. Lapse({"session"}) /\ counts' \in Counts
        BY <1>19, CountType DEF SessionFails, TypeInv
  <2>2. QED  BY <1>19, <2>1, LapseType DEF SessionFails, TypeInv, Workers
<1>20. ASSUME NEW p \in Paths, NEW g \in Holds[p] \cup {None}, DiskChange(p, g) PROVE TypeInv'
  <2>1. /\ disk' \in [Paths -> Tags \cup {None}] /\ work' \in [Actors -> Works]
        /\ work'["removal"] = work["removal"] /\ unseen' = unseen \cup {p} /\ counts' \in Counts
        /\ UNCHANGED <<roots, files, catalog, prefs, pins, repair, session, owed, untold>>
        BY <1>20, DiskWork, CountType DEF TypeInv
  <2>2. QED  BY <2>1 DEF TypeInv, owed
<1>21. ASSUME NEW new \in SUBSET Roots, SetScanRoots(new) PROVE TypeInv'
  <2>1. /\ work' \in [Actors -> Works] /\ roots' = new /\ counts' \in Counts
        /\ work'["removal"] = Idle \/ work'["removal"].seen = roots
        /\ Inside(roots) \subseteq Paths /\ Inside(new) \subseteq Paths
        /\ Lapse({"pass"}) /\ unseen' = unseen \cup Rerooted(roots, new)
        /\ UNCHANGED <<disk, files, catalog, prefs, pins, repair, session, flagged, untold>>
        BY <1>21, SetRootsWork, CountType DEF TypeInv
  <2>2. Rerooted(roots, new) \subseteq Paths
        BY <2>1 DEF Rerooted
  <2>3. work'["removal"].seen \subseteq Roots
        BY <2>1, IdleWork DEF TypeInv
  <2>4. QED  BY <2>1, <2>2, <2>3, LapseType DEF TypeInv, Workers, Actors
<1>22. ASSUME NEW f \in Remote, NEW g \in Holds[f] \cup {None}, RemoteOp(f, g) PROVE TypeInv'
  <2>1. /\ session' = "ops" /\ Count("event")
        /\ \/ Rows("session", [files EXCEPT ![f] = g], {g} \ {None})
           \/ Rows("session", [files EXCEPT ![f] = None], {files[f]}) /\ g # files[f] /\ g = None
        /\ UNCHANGED <<disk, roots, prefs, pins, repair, work, unseen>>
        BY <1>22 DEF RemoteOp
  <2>2. g \in Tags \cup {None} /\ f \in Files
        BY CatalogAssumption DEF Files
  <2>3. counts' \in Counts
        BY <2>1, CountType DEF TypeInv
  <2>4. PICK fs \in [Files -> Tags \cup {None}], gs \in SUBSET Tags : Rows("session", fs, gs)
    <3>1. CASE Rows("session", [files EXCEPT ![f] = g], {g} \ {None})
          BY <2>2, <3>1 DEF TypeInv
    <3>2. CASE Rows("session", [files EXCEPT ![f] = None], {files[f]}) /\ g # files[f] /\ g = None
      <4>1. [files EXCEPT ![f] = None] \in [Files -> Tags \cup {None}] /\ {files[f]} \subseteq Tags
            BY <2>2, <3>2 DEF TypeInv
      <4>2. QED  BY <3>2, <4>1
    <3>3. QED  BY <2>1, <3>1, <3>2
  <2>5. "session" \in Workers /\ session' \in {"idle", "ops", "tellall"}
        BY <2>1 DEF Workers
  <2>6. QED  BY <2>1, <2>3, <2>4, <2>5, RowsType DEF TypeInv
<1>23. ASSUME NEW new \in [Remote -> Tags \cup {None}], InstallCheckpoint(new) PROVE TypeInv'
  <2>1. PICK fs \in [Files -> Tags \cup {None}] :
          /\ files' = fs /\ catalog' = Derive(PresentIn(fs))
          /\ untold' = untold \cup (Shown(catalog) \ Shown(catalog')) \cup (Shown(catalog') \ Shown(catalog))
          /\ touched' = [b \in DOMAIN touched |-> {}] /\ lapsed' = {} /\ flagged' = {}
          /\ session' = "tellall"
          /\ UNCHANGED <<disk, roots, repair, work, unseen>>
    <3> DEFINE fs == [f \in Files |-> IF f \in Remote THEN new[f] ELSE files[f]]
    <3>1. fs \in [Files -> Tags \cup {None}]
          BY DEF TypeInv
    <3>2. QED  BY <1>23, <3>1 DEF InstallCheckpoint
  <2>2. PresentIn(fs) \in SUBSET Tags
        BY DEF PresentIn
  <2>3. catalog' \in Catalogs /\ Linked(catalog')
        BY <2>1, <2>2, DeriveType
  <2>4. untold' \subseteq Tracks \cup Variants
        BY <2>1, <2>3, CatalogTables DEF Shown, TypeInv
  <2>5. touched' \in [Workers -> SUBSET Tags]
        BY <2>1 DEF TypeInv
  <2>6. counts' \in Counts
    <3>1. counts' = [counts EXCEPT !.event = counts.event + 1, !.install = counts.install + 1]
          BY <1>23 DEF InstallCheckpoint
    <3>2. counts \in Counts /\ counts.event + 1 \in Nat /\ counts.install + 1 \in Nat
          BY DEF TypeInv, Counts
    <3>3. QED  BY <3>1, <3>2 DEF Counts
  <2>7. QED  BY <2>1, <2>3, <2>4, <2>5, <2>6 DEF TypeInv
<1>24. ASSUME NEW d \in Devices, NEW v \in Preferred, SetPreferred(d, v) PROVE TypeInv'
  <2>1. counts' \in Counts
        BY <1>24, CountType DEF SetPreferred, TypeInv
  <2>2. QED  BY <1>24, <2>1 DEF SetPreferred, TypeInv, owed
<1>25. ASSUME NEW p \in Variants \cup {ClusterOf[a] : a \in Variants}, PinAlbum(p) PROVE TypeInv'
  <2>1. counts' \in Counts
        BY <1>25, CountType DEF PinAlbum, TypeInv
  <2>2. QED  BY <1>25, <2>1 DEF PinAlbum, TypeInv, owed
<1>26. ASSUME Restart PROVE TypeInv'
  <2>1. counts' \in Counts /\ Lapse(Workers) /\ work' = [b \in Actors |-> Idle]
        BY <1>26, CountType DEF Restart, TypeInv
  <2>2. work' \in [Actors -> Works] /\ work'["removal"].seen \subseteq Roots
        BY <2>1, IdleWork DEF Actors
  <2>3. QED  BY <1>26, <2>1, <2>2, LapseType DEF Restart, TypeInv
<1>27. ASSUME UNCHANGED vars PROVE TypeInv'
      BY <1>27 DEF vars, owed, TypeInv
<1>28. QED  BY <1>1, <1>2, <1>3, <1>4, <1>5, <1>6, <1>7, <1>8, <1>9, <1>10, <1>11, <1>12, <1>13,
               <1>14, <1>15, <1>16, <1>17, <1>18, <1>19, <1>20, <1>21, <1>22, <1>23, <1>24, <1>25,
               <1>26, <1>27
      DEF Next, PassStep, UpdateStep, Outside

-----------------------------------------------------------------------------
\* Every file that is present is shown.

Shows(c, g) ==
    /\ TrackOf[g] \in c.tracks /\ AlbumOf[g] \in c.albums
    /\ <<AlbumOf[g], TrackOf[g]>> \in c.links
    /\ ArtistOf[TrackOf[g]] \in c.artists /\ ArtistOf[AlbumOf[g]] \in c.artists

LEMMA FitsShows ==
    ASSUME NEW gs, NEW c
    PROVE  Fits(Derive(gs), c) <=> \A g \in gs : Shows(c, g)
<1>1. Fits(Derive(gs), c) <=>
        /\ Derive(gs).tracks \subseteq c.tracks /\ Derive(gs).albums \subseteq c.albums
        /\ Derive(gs).links \subseteq c.links /\ Derive(gs).artists \subseteq c.artists
      BY DeriveTables, FitsTables
<1>2. Derive(gs).tracks \subseteq c.tracks <=> \A g \in gs : TrackOf[g] \in c.tracks
      BY DeriveTables
<1>3. Derive(gs).albums \subseteq c.albums <=> \A g \in gs : AlbumOf[g] \in c.albums
      BY DeriveTables
<1>4. Derive(gs).links \subseteq c.links
        <=> \A g \in gs : <<AlbumOf[g], TrackOf[g]>> \in c.links
      BY DeriveTables
<1>5. Derive(gs).artists \subseteq c.artists
        <=> \A g \in gs : ArtistOf[TrackOf[g]] \in c.artists /\ ArtistOf[AlbumOf[g]] \in c.artists
      BY DeriveTables
<1>6. QED  BY <1>1, <1>2, <1>3, <1>4, <1>5 DEF Shows

LEMMA DeriveShows ==
    ASSUME NEW gs
    PROVE  \A g \in gs : Shows(Derive(gs), g)
BY DeriveTables DEF Shows

LEMMA WithShows ==
    ASSUME NEW c \in Catalogs, NEW gs \in SUBSET Tags
    PROVE  /\ \A g \in gs : Shows(With(c, Derive(gs)), g)
           /\ \A g : Shows(c, g) => Shows(With(c, Derive(gs)), g)
BY WithTables DEF Shows

\* A scoped rebuild, whatever its impact, deletes nothing it does not put back: an album of the
\* impact that the file is on has the file's track among those that are derived anew.
LEMMA ScopedShows ==
    ASSUME NEW c \in Catalogs, Linked(c), NEW i \in Impacts,
           files \in [Files -> Tags \cup {None}],
           NEW g \in PresentIn(files), Shows(c, g)
    PROVE  Shows(Scoped(c, i), g)
<1> DEFINE ts == ReconciledTracks(c, i)
           rs == ReconciledRows(c, i)
           n == Scoped(c, i)
           again == UNION {{ArtistOf[TrackOf[h]], ArtistOf[AlbumOf[h]]} : h \in rs}
<1>1. /\ n.tracks = (c.tracks \ ts) \cup {TrackOf[h] : h \in rs}
      /\ n.albums = (c.albums \ i.albums) \cup {AlbumOf[h] : h \in rs}
      /\ n.links = {l \in c.links : l[1] \notin i.albums /\ l[2] \notin ts}
                     \cup {<<AlbumOf[h], TrackOf[h]>> : h \in rs}
      /\ n.artists = (c.artists \cup again) \ (i.artists \ {ArtistOf[e] : e \in n.tracks \cup n.albums})
      BY ScopedTables
<1>2. rs = {h \in PresentIn(files) : TrackOf[h] \in ts}
      BY ScopedTables
<1>3. AlbumOf[g] \in i.albums => TrackOf[g] \in ts
  <2>1. SUFFICES ASSUME AlbumOf[g] \in i.albums PROVE TrackOf[g] \in TracksIn(c, i.albums)
        BY DEF ReconciledTracks
  <2>2. <<AlbumOf[g], TrackOf[g]>> \in {x \in c.links : x[1] \in i.albums}
        BY <2>1 DEF Shows
  <2>3. QED  BY <2>2 DEF TracksIn
<1> HIDE DEF ts, rs, n
<1>4. /\ TrackOf[g] \in n.tracks /\ AlbumOf[g] \in n.albums
      /\ <<AlbumOf[g], TrackOf[g]>> \in n.links
  <2>1. CASE TrackOf[g] \in ts
    <3>1. g \in rs
          BY <1>2, <2>1
    <3>2. QED  BY <1>1, <3>1
  <2>2. CASE TrackOf[g] \notin ts
        BY <1>1, <1>3, <2>2 DEF Shows
  <2>3. QED  BY <2>1, <2>2
<1>5. ArtistOf[TrackOf[g]] \in n.artists /\ ArtistOf[AlbumOf[g]] \in n.artists
  <2>1. /\ ArtistOf[TrackOf[g]] \in {ArtistOf[e] : e \in n.tracks \cup n.albums}
        /\ ArtistOf[AlbumOf[g]] \in {ArtistOf[e] : e \in n.tracks \cup n.albums}
        BY <1>4
  <2>2. ArtistOf[TrackOf[g]] \in c.artists /\ ArtistOf[AlbumOf[g]] \in c.artists
        BY DEF Shows
  <2>3. QED  BY <1>1, <2>1, <2>2
<1>6. QED  BY <1>4, <1>5 DEF Shows, n

LEMMA RowsPresent ==
    ASSUME TypeInv, PresentShown, NEW a \in Workers, NEW fs \in [Files -> Tags \cup {None}],
           NEW gs \in SUBSET Tags, Rows(a, fs, gs), PresentIn(fs) \subseteq PresentIn(files) \cup gs
    PROVE  PresentShown'
<1>1. files' = fs /\ catalog' = With(catalog, Derive(gs))
      BY RowsFacts
<1>2. \A g \in PresentIn(files) : Shows(catalog, g)
      BY FitsShows DEF PresentShown
<1>3. \A g \in PresentIn(files') : Shows(catalog', g)
      BY <1>1, <1>2, WithShows DEF TypeInv
<1>4. QED  BY <1>3, FitsShows DEF PresentShown

LEMMA MissingPresent ==
    ASSUME TypeInv, NEW missing
    PROVE  /\ MarkMissing(missing) \in [Files -> Tags \cup {None}]
           /\ PresentIn(MarkMissing(missing)) \subseteq PresentIn(files)
BY DEF MarkMissing, PresentIn, TypeInv

\* What an operation of another device does to the rows.
LEMMA RemoteRows ==
    ASSUME TypeInv, NEW f \in Remote, NEW g \in Holds[f] \cup {None}, RemoteOp(f, g)
    PROVE  \E fs \in [Files -> Tags \cup {None}], gs \in SUBSET Tags :
             /\ Rows("session", fs, gs) /\ PresentIn(fs) \subseteq PresentIn(files) \cup gs
             /\ \A p \in Paths : fs[p] = files[p]
<1>1. g \in Tags \cup {None} /\ f \in Files /\ f \notin Paths
      BY CatalogAssumption DEF Files
<1>2. \/ Rows("session", [files EXCEPT ![f] = g], {g} \ {None})
      \/ Rows("session", [files EXCEPT ![f] = None], {files[f]}) /\ g # files[f] /\ g = None
      BY DEF RemoteOp
<1>3. CASE Rows("session", [files EXCEPT ![f] = g], {g} \ {None})
  <2> DEFINE fs == [files EXCEPT ![f] = g]
  <2>1. /\ fs \in [Files -> Tags \cup {None}] /\ {g} \ {None} \in SUBSET Tags
        /\ \A p \in Paths : fs[p] = files[p]
        BY <1>1 DEF TypeInv, Files
  <2>2. PresentIn(fs) \subseteq PresentIn(files) \cup ({g} \ {None})
        BY <1>1 DEF PresentIn, TypeInv
  <2> HIDE DEF fs
  <2>3. Rows("session", fs, {g} \ {None})
        BY <1>3 DEF fs
  <2>4. QED  BY <2>1, <2>2, <2>3
<1>4. CASE Rows("session", [files EXCEPT ![f] = None], {files[f]}) /\ g # files[f] /\ g = None
  <2> DEFINE fs == [files EXCEPT ![f] = None]
  <2>1. /\ fs \in [Files -> Tags \cup {None}] /\ {files[f]} \in SUBSET Tags
        /\ \A p \in Paths : fs[p] = files[p]
        BY <1>1, <1>4 DEF TypeInv, Files
  <2>2. PresentIn(fs) \subseteq PresentIn(files) \cup {files[f]}
        BY <1>1 DEF PresentIn, TypeInv
  <2> HIDE DEF fs
  <2>3. Rows("session", fs, {files[f]})
        BY <1>4 DEF fs
  <2>4. QED  BY <2>1, <2>2, <2>3
<1>5. QED  BY <1>2, <1>3, <1>4

LEMMA RebuildPresent ==
    ASSUME TypeInv, RebuildAll, files' = files
    PROVE  PresentShown'
BY RebuildAllType, DeriveShows, FitsShows DEF PresentShown

LEMMA PresentStep ==
    ASSUME TypeInv, PresentShown, [Next]_vars
    PROVE  PresentShown'
<1>1. ASSUME IngestNext PROVE PresentShown'
  <2> DEFINE p == First(work["pass"].todo)
  <2>1. /\ p \in Paths
        /\ \/ UNCHANGED <<files, catalog, untold, owed>>
           \/ Rows("pass", Ingested(p), {disk[p]} \ {None})
        BY <1>1, IngestWork
  <2> HIDE DEF p
  <2>2. CASE UNCHANGED <<files, catalog, untold, owed>>
        BY <2>2 DEF PresentShown
  <2>3. CASE Rows("pass", Ingested(p), {disk[p]} \ {None})
    <3>1. Ingested(p) \in [Files -> Tags \cup {None}] /\ {disk[p]} \ {None} \subseteq Tags
          BY <2>1 DEF Ingested, TypeInv, Files
    <3>2. PresentIn(Ingested(p)) \subseteq PresentIn(files) \cup ({disk[p]} \ {None})
          BY <2>1 DEF PresentIn, Ingested, TypeInv
    <3>3. QED  BY <2>3, <3>1, <3>2, RowsPresent DEF Workers, Actors
  <2>4. QED  BY <2>1, <2>2, <2>3
<1>2. ASSUME ReconcilePresence PROVE PresentShown'
  <2>1. PICK missing : Rows("pass", MarkMissing(missing), {})
        BY <1>2, PresenceWork
  <2>2. /\ MarkMissing(missing) \in [Files -> Tags \cup {None}]
        /\ PresentIn(MarkMissing(missing)) \subseteq PresentIn(files)
        BY MissingPresent
  <2>3. QED  BY <2>1, <2>2, RowsPresent DEF Workers, Actors
<1>3. ASSUME PassUnchanged PROVE PresentShown'
      BY <1>3 DEF PassUnchanged, PresentShown
<1>4. ASSUME RepairRebuild PROVE PresentShown'
      BY <1>4, RebuildPresent DEF RepairRebuild
<1>5. ASSUME RepairTells PROVE PresentShown'
      BY <1>5 DEF RepairTells, PresentShown
<1>6. ASSUME RepairClears PROVE PresentShown'
      BY <1>6 DEF RepairClears, PresentShown
<1>7. ASSUME RepairSkips PROVE PresentShown'
      BY <1>7 DEF RepairSkips, PresentShown
<1>8. ASSUME PassFails PROVE PresentShown'
      BY <1>8 DEF PassFails, PresentShown
<1>9. ASSUME NEW k \in {"full", "repair"}, BeginFull(k) PROVE PresentShown'
      BY <1>9 DEF BeginFull, PresentShown
<1>10. ASSUME NEW ps \in SUBSET Paths, NEW rs \in SUBSET Roots, BeginDelta(ps, rs)
       PROVE  PresentShown'
      BY <1>10 DEF BeginDelta, PresentShown
<1>11. ASSUME NEW a \in Actors, CaptureAfter(a) PROVE PresentShown'
      BY <1>11 DEF CaptureAfter, PresentShown
<1>12. ASSUME NEW a \in Actors, ApplyScoped(a) PROVE PresentShown'
  <2>1. work[a].impact \in Impacts
        BY DEF TypeInv, Works
  <2>2. files' = files /\ catalog' = Scoped(catalog, work[a].impact)
        BY <1>12 DEF ApplyScoped, Rebuild
  <2>3. \A g \in PresentIn(files) : Shows(catalog, g)
        BY FitsShows DEF PresentShown
  <2>4. \A g \in PresentIn(files) : Shows(catalog', g)
        BY <2>1, <2>2, <2>3, ScopedShows DEF TypeInv
  <2>5. QED  BY <2>2, <2>4, FitsShows DEF PresentShown
<1>13. ASSUME NEW a \in Actors, ApplyFlags(a) PROVE PresentShown'
      BY <1>13 DEF ApplyFlags, PresentShown
<1>14. ASSUME NEW a \in Actors, TellScan(a) PROVE PresentShown'
      BY <1>14 DEF TellScan, PresentShown
<1>15. ASSUME RemoveRows PROVE PresentShown'
  <2>1. PICK missing : Rows("removal", MarkMissing(missing), {})
        BY <1>15, RemoveRowsWork
  <2>2. /\ MarkMissing(missing) \in [Files -> Tags \cup {None}]
        /\ PresentIn(MarkMissing(missing)) \subseteq PresentIn(files)
        BY MissingPresent
  <2>3. QED  BY <2>1, <2>2, RowsPresent DEF Workers, Actors
<1>16. ASSUME RemovalFails PROVE PresentShown'
      BY <1>16 DEF RemovalFails, PresentShown
<1>17. ASSUME SessionRebuild PROVE PresentShown'
      BY <1>17, RebuildPresent DEF SessionRebuild
<1>18. ASSUME SessionTells PROVE PresentShown'
      BY <1>18 DEF SessionTells, PresentShown
<1>19. ASSUME SessionFails PROVE PresentShown'
      BY <1>19 DEF SessionFails, PresentShown
<1>20. ASSUME NEW p \in Paths, NEW g \in Holds[p] \cup {None}, DiskChange(p, g) PROVE PresentShown'
      BY <1>20 DEF DiskChange, PresentShown
<1>21. ASSUME NEW new \in SUBSET Roots, SetScanRoots(new) PROVE PresentShown'
      BY <1>21 DEF SetScanRoots, PresentShown
<1>22. ASSUME NEW f \in Remote, NEW g \in Holds[f] \cup {None}, RemoteOp(f, g) PROVE PresentShown'
  <2>1. PICK fs \in [Files -> Tags \cup {None}], gs \in SUBSET Tags :
          Rows("session", fs, gs) /\ PresentIn(fs) \subseteq PresentIn(files) \cup gs
        BY <1>22, RemoteRows
  <2>2. QED  BY <2>1, RowsPresent DEF Workers
<1>23. ASSUME NEW new \in [Remote -> Tags \cup {None}], InstallCheckpoint(new) PROVE PresentShown'
  <2>1. catalog' = Derive(PresentIn(files'))
        BY <1>23 DEF InstallCheckpoint
  <2>2. QED  BY <2>1, DeriveShows, FitsShows DEF PresentShown
<1>24. ASSUME NEW d \in Devices, NEW v \in Preferred, SetPreferred(d, v) PROVE PresentShown'
      BY <1>24 DEF SetPreferred, PresentShown
<1>25. ASSUME NEW p \in Variants \cup {ClusterOf[a] : a \in Variants}, PinAlbum(p)
       PROVE  PresentShown'
      BY <1>25 DEF PinAlbum, PresentShown
<1>26. ASSUME Restart PROVE PresentShown'
      BY <1>26 DEF Restart, PresentShown
<1>27. ASSUME UNCHANGED vars PROVE PresentShown'
      BY <1>27 DEF vars, PresentShown
<1>28. QED  BY <1>1, <1>2, <1>3, <1>4, <1>5, <1>6, <1>7, <1>8, <1>9, <1>10, <1>11, <1>12, <1>13,
               <1>14, <1>15, <1>16, <1>17, <1>18, <1>19, <1>20, <1>21, <1>22, <1>23, <1>24, <1>25,
               <1>26, <1>27
      DEF Next, PassStep, UpdateStep, Outside

-----------------------------------------------------------------------------
\* What work has touched.

\* The impact of a pass or a removal covers the rows it began with.
Covered(w) ==
    w.pc \in {"rows", "apply"} /\ w.kind # "repair" =>
      \A g \in w.began : /\ TrackOf[g] \in w.impact.tracks /\ AlbumOf[g] \in w.impact.albums
                         /\ ArtistOf[TrackOf[g]] \in w.impact.artists
                         /\ ArtistOf[AlbumOf[g]] \in w.impact.artists

\* Only work that will look at the catalog has touched anything.
QuietWork(w, gs) ==
    \/ gs = {}
    \/ w.pc = "apply"
    \/ w.pc = "rows" /\ w.mutated

CoverInv ==
    /\ \A a \in Actors : /\ Covered(work[a]) /\ QuietWork(work[a], touched[a])
                         /\ work[a].pc = "apply" => work[a].kind # "repair"
    /\ work["removal"].pc = "rows" /\ work["removal"].roots # {} => ~work["removal"].mutated
    /\ repair \/ flagged = {}

LEMMA SameCovered ==
    ASSUME NEW v, NEW w, Covered(w), SameWork(v, w), v.pc = w.pc, v.impact = w.impact
    PROVE  Covered(v)
BY DEF Covered, SameWork

LEMMA IdleCovered ==
    Covered(Idle)
BY IdleWork DEF Covered

LEMMA BeganCovered ==
    ASSUME TypeInv, PresentShown, NEW w, NEW paths \in SUBSET Paths, w.began = RowsOf(paths),
           w.kind # "repair" => w.impact = Impact(paths)
    PROVE  Covered(w)
BY ImpactCovers DEF Covered, TypeInv, PresentShown

\* Actions that leave the works, the histories and the flag alone.
LEMMA CoverFrame ==
    ASSUME CoverInv, UNCHANGED <<work, touched, flagged, repair>>
    PROVE  CoverInv'
BY DEF CoverInv

\* Of two works, one goes on.
LEMMA CoverOne ==
    ASSUME TypeInv, CoverInv, NEW a \in Actors,
           \A b \in Actors : b # a => work'[b] = work[b] /\ touched'[b] = touched[b],
           Covered(work'[a]), QuietWork(work'[a], touched'[a]),
           work'[a].pc = "apply" => work'[a].kind # "repair",
           a = "removal" /\ work'[a].pc = "rows" /\ work'[a].roots # {} => ~work'[a].mutated,
           repair' \/ flagged' = {}
    PROVE  CoverInv'
BY DEF CoverInv, Actors

\* Rows that go from nowhere touch nothing.
LEMMA MissingTouched ==
    ASSUME TypeInv, NEW a \in Workers, NEW missing, Rows(a, MarkMissing(missing), {})
    PROVE  /\ \A b \in Workers : b # a => touched'[b] = touched[b]
           /\ flagged' = flagged
           /\ missing = {} => touched'[a] = touched[a]
<1>1. MarkMissing(missing) \in [Files -> Tags \cup {None}]
      BY MissingPresent
<1>2. missing = {} => Moved(MarkMissing(missing)) = {}
      BY DEF Moved, MarkMissing
<1> DEFINE fs == MarkMissing(missing)
<1> HIDE DEF fs
<1>3. fs \in [Files -> Tags \cup {None}] /\ {} \in SUBSET Tags /\ Rows(a, fs, {})
      BY <1>1 DEF fs
<1>4. /\ \A b \in Workers : b # a => touched'[b] = touched[b]
      /\ flagged' = flagged
      /\ touched'[a] = touched[a] \cup (({} \cup {files[f] : f \in Moved(fs)}
                                          \cup {fs[f] : f \in Moved(fs)}) \ {None})
      BY <1>3, RowsFacts
<1>5. QED  BY <1>2, <1>4 DEF fs

LEMMA CoverStep ==
    ASSUME TypeInv, PresentShown, CoverInv, [Next]_vars
    PROVE  CoverInv'
<1>1. ASSUME IngestNext PROVE CoverInv'
  <2> DEFINE w == work["pass"]
           v == work'["pass"]
           p == First(w.todo)
           skip == disk[p] = files[p] \/ (disk[p] = None /\ w.kind = "repair")
  <2>1. /\ w.pc = "rows" /\ p \in Paths /\ work'["removal"] = work["removal"]
        /\ SameWork(v, w) /\ v.pc = w.pc /\ v.impact = w.impact
        /\ v.mutated <=> w.mutated \/ ~skip
        /\ IF skip THEN UNCHANGED <<files, catalog, untold, owed>>
           ELSE Rows("pass", Ingested(p), {disk[p]} \ {None})
        /\ repair' = repair
        BY <1>1, IngestWork
  <2> HIDE DEF w, v, p, skip
  <2>2. touched'["removal"] = touched["removal"] /\ flagged' = flagged
        /\ (skip => touched' = touched)
    <3>1. CASE skip
          BY <2>1, <3>1 DEF owed
    <3>2. CASE ~skip
      <4>1. Ingested(p) \in [Files -> Tags \cup {None}] /\ {disk[p]} \ {None} \in SUBSET Tags
            BY <2>1 DEF Ingested, TypeInv, Files
      <4>2. Rows("pass", Ingested(p), {disk[p]} \ {None})
            BY <2>1, <3>2
      <4>3. QED  BY <3>2, <4>1, <4>2, RowsFacts DEF Workers, Actors
    <3>3. QED  BY <3>1, <3>2
  <2>3. Covered(w) /\ QuietWork(w, touched["pass"]) /\ (repair \/ flagged = {})
        BY DEF CoverInv, Actors, w
  <2>4. Covered(v)
        BY <2>1, <2>3, SameCovered
  <2>5. QuietWork(v, touched'["pass"]) /\ v.pc # "apply"
    <3>1. CASE skip
          BY <2>1, <2>2, <2>3, <3>1 DEF QuietWork
    <3>2. CASE ~skip
          BY <2>1, <3>2 DEF QuietWork
    <3>3. QED  BY <2>1, <3>1, <3>2
  <2>6. QED  BY <2>1, <2>2, <2>3, <2>4, <2>5, CoverOne DEF v, Actors
<1>2. ASSUME ReconcilePresence PROVE CoverInv'
  <2> DEFINE w == work["pass"]
           v == work'["pass"]
  <2>1. PICK missing :
          /\ w.pc = "rows" /\ work'["removal"] = work["removal"]
          /\ SameWork(v, w) /\ v.pc = w.pc /\ v.impact = w.impact
          /\ v.mutated <=> w.mutated \/ missing # {}
          /\ Rows("pass", MarkMissing(missing), {}) /\ repair' = repair
        BY <1>2, PresenceWork
  <2> HIDE DEF w, v
  <2>2. /\ touched'["removal"] = touched["removal"] /\ flagged' = flagged
        /\ missing = {} => touched'["pass"] = touched["pass"]
        BY <2>1, MissingTouched DEF Workers, Actors
  <2>3. Covered(w) /\ QuietWork(w, touched["pass"]) /\ (repair \/ flagged = {})
        BY DEF CoverInv, Actors, w
  <2>4. Covered(v)
        BY <2>1, <2>3, SameCovered
  <2>5. QuietWork(v, touched'["pass"]) /\ v.pc # "apply"
    <3>1. CASE missing = {}
          BY <2>1, <2>2, <2>3, <3>1 DEF QuietWork
    <3>2. CASE missing # {}
          BY <2>1, <3>2 DEF QuietWork
    <3>3. QED  BY <2>1, <3>1, <3>2
  <2>6. QED  BY <2>1, <2>2, <2>3, <2>4, <2>5, CoverOne DEF v, Actors
<1>3. ASSUME PassUnchanged PROVE CoverInv'
  <2>1. /\ work["pass"].pc = "rows" /\ ~work["pass"].mutated
        /\ work'["pass"] = Idle /\ work'["removal"] = work["removal"]
        /\ UNCHANGED <<repair, owed>>
        BY <1>3, EndsWork DEF PassUnchanged, RowsDone, At, Actors
  <2>2. touched["pass"] = {} /\ touched' = touched /\ (repair' \/ flagged' = {})
        BY <2>1 DEF CoverInv, QuietWork, Actors, owed
  <2>3. QED  BY <2>1, <2>2, IdleWork, IdleCovered, CoverOne DEF QuietWork, Actors
<1>4. ASSUME RepairRebuild PROVE CoverInv'
  <2>1. /\ work'["removal"] = work["removal"] /\ work'["pass"].pc = "tellall"
        /\ touched' = [a \in Workers |-> {}] /\ flagged' = {}
        BY <1>4, PcWork, RebuildAllType DEF RepairRebuild, Actors
  <2>2. QED  BY <2>1 DEF CoverInv, Covered, QuietWork, Actors, Workers
<1>5. ASSUME RepairTells PROVE CoverInv'
  <2>1. /\ work["pass"].pc = "tellall" /\ work'["removal"] = work["removal"]
        /\ work'["pass"].pc = "clear" /\ UNCHANGED <<repair, owed>>
        BY <1>5, PcWork DEF RepairTells, Actors, At
  <2>2. touched["pass"] = {} /\ touched' = touched /\ (repair' \/ flagged' = {})
        BY <2>1 DEF CoverInv, QuietWork, Actors, owed
  <2>3. QED  BY <2>1, <2>2, CoverOne DEF Covered, QuietWork, Actors
<1>6. ASSUME RepairClears PROVE CoverInv'
  <2>1. /\ work["pass"].pc = "clear" /\ work'["removal"] = work["removal"]
        /\ work'["pass"] = Idle /\ touched' = touched /\ flagged' = {}
        BY <1>6, EndsWork DEF RepairClears, Actors, At
  <2>2. touched["pass"] = {}
        BY <2>1 DEF CoverInv, QuietWork, Actors
  <2>3. QED  BY <2>1, <2>2, IdleWork, IdleCovered, CoverOne DEF QuietWork, Actors
<1>7. ASSUME RepairSkips PROVE CoverInv'
  <2> DEFINE w == work["pass"]
           v == work'["pass"]
  <2>1. /\ w.pc = "rows" /\ work'["removal"] = work["removal"]
        /\ SameWork(v, w) /\ v.pc = w.pc /\ v.impact = w.impact /\ v.mutated = w.mutated
        /\ UNCHANGED <<repair, owed>>
        BY <1>7, SkipWork
  <2> HIDE DEF w, v
  <2>2. /\ Covered(w) /\ QuietWork(w, touched["pass"]) /\ (repair' \/ flagged' = {})
        /\ touched' = touched
        BY <2>1 DEF CoverInv, Actors, w, owed
  <2>3. Covered(v)
        BY <2>1, <2>2, SameCovered
  <2>4. QuietWork(v, touched'["pass"]) /\ v.pc # "apply"
        BY <2>1, <2>2 DEF QuietWork
  <2>5. QED  BY <2>1, <2>2, <2>3, <2>4, CoverOne DEF v, Actors
<1>8. ASSUME PassFails PROVE CoverInv'
  <2>1. /\ work'["pass"] = Idle /\ work'["removal"] = work["removal"]
        /\ touched'["pass"] = {} /\ touched'["removal"] = touched["removal"]
        /\ UNCHANGED <<repair, flagged>>
        BY <1>8, EndsWork, LapseType DEF PassFails, Actors, Workers
  <2>2. repair' \/ flagged' = {}
        BY <2>1 DEF CoverInv
  <2>3. QED  BY <2>1, <2>2, IdleWork, IdleCovered, CoverOne DEF QuietWork, Actors
<1>9. ASSUME NEW k \in {"full", "repair"}, BeginFull(k) PROVE CoverInv'
  <2> DEFINE v == work'["pass"]
  <2>1. /\ work["pass"].pc = "idle" /\ work'["removal"] = work["removal"]
        /\ Inside(roots) \subseteq Paths /\ v.began = RowsOf(Inside(roots)) /\ v.kind = k
        /\ v.kind # "repair" => v.impact = Impact(Inside(roots))
        /\ v.pc = "rows" /\ UNCHANGED <<repair, owed>>
        BY <1>9, BeginFullWork
  <2> HIDE DEF v
  <2>2. touched["pass"] = {} /\ touched' = touched /\ (repair' \/ flagged' = {})
        BY <2>1 DEF CoverInv, QuietWork, Actors, owed
  <2>3. Covered(v)
        BY <2>1, BeganCovered
  <2>4. QED  BY <2>1, <2>2, <2>3, CoverOne DEF v, QuietWork, Actors
<1>10. ASSUME NEW ps \in SUBSET Paths, NEW rs \in SUBSET Roots, BeginDelta(ps, rs) PROVE CoverInv'
  <2> DEFINE v == work'["pass"]
           scope == ps \cup Inside(rs)
  <2>1. /\ work["pass"].pc = "idle" /\ work'["removal"] = work["removal"]
        /\ scope \subseteq Paths /\ v.began = RowsOf(scope) /\ v.impact = Impact(scope)
        /\ v.pc = "rows" /\ UNCHANGED <<repair, owed>>
        BY <1>10, BeginDeltaWork
  <2> HIDE DEF v, scope
  <2>2. touched["pass"] = {} /\ touched' = touched /\ (repair' \/ flagged' = {})
        BY <2>1 DEF CoverInv, QuietWork, Actors, owed
  <2>3. Covered(v)
        BY <2>1, BeganCovered
  <2>4. QED  BY <2>1, <2>2, <2>3, CoverOne DEF v, QuietWork, Actors
<1>11. ASSUME NEW a \in Actors, CaptureAfter(a) PROVE CoverInv'
  <2> DEFINE w == work[a]
           v == work'[a]
  <2>1. /\ w.pc = "rows" /\ w.kind # "repair" /\ \A b \in Actors : b # a => work'[b] = work[b]
        /\ SameWork(v, w) /\ v.pc = "apply" /\ v.impact = Merged(w.impact, Impact(w.scope))
        /\ w.impact \in Impacts /\ Impact(w.scope) \in Impacts /\ UNCHANGED <<repair, owed>>
        BY <1>11, CaptureWork
  <2> HIDE DEF w, v
  <2>2. Covered(w) /\ touched' = touched /\ (repair' \/ flagged' = {})
        BY <2>1 DEF CoverInv, w, owed
  <2>3. Covered(v)
        BY <2>1, <2>2, MergedImpact DEF Covered, SameWork
  <2>4. QED  BY <2>1, <2>2, <2>3, CoverOne DEF v, QuietWork, SameWork
<1>12. ASSUME NEW a \in Actors, ApplyScoped(a) PROVE CoverInv'
  <2>1. /\ \A b \in Actors : b # a => work'[b] = work[b]
        /\ work'[a].pc = "tell" /\ touched' = [touched EXCEPT ![a] = {}]
        /\ UNCHANGED <<repair, flagged>>
        BY <1>12, PcWork DEF ApplyScoped
  <2>2. touched'[a] = {} /\ \A b \in Actors : b # a => touched'[b] = touched[b]
        BY <2>1 DEF TypeInv, Workers
  <2>3. repair' \/ flagged' = {}
        BY <2>1 DEF CoverInv
  <2>4. QED  BY <2>1, <2>2, <2>3, CoverOne DEF Covered, QuietWork
<1>13. ASSUME NEW a \in Actors, ApplyFlags(a) PROVE CoverInv'
  <2>1. /\ \A b \in Actors : b # a => work'[b] = work[b]
        /\ work'[a] = Idle /\ touched' = [touched EXCEPT ![a] = {}] /\ repair' = TRUE
        BY <1>13, EndsWork DEF ApplyFlags, Flagged
  <2>2. touched'[a] = {} /\ \A b \in Actors : b # a => touched'[b] = touched[b]
        BY <2>1 DEF TypeInv, Workers
  <2>3. QED  BY <2>1, <2>2, IdleWork, IdleCovered, CoverOne DEF QuietWork
<1>14. ASSUME NEW a \in Actors, TellScan(a) PROVE CoverInv'
  <2>1. /\ \A b \in Actors : b # a => work'[b] = work[b]
        /\ work[a].pc = "tell" /\ work'[a] = Idle /\ UNCHANGED <<repair, owed>>
        BY <1>14, EndsWork DEF TellScan, At
  <2>2. touched[a] = {} /\ touched' = touched /\ (repair' \/ flagged' = {})
        BY <2>1 DEF CoverInv, QuietWork, owed
  <2>3. QED  BY <2>1, <2>2, IdleWork, IdleCovered, CoverOne DEF QuietWork
<1>15. ASSUME RemoveRows PROVE CoverInv'
  <2> DEFINE w == work["removal"]
           v == work'["removal"]
           u == work["pass"]
           n == work'["pass"]
  <2>1. PICK missing :
           /\ w.pc = "rows" /\ w.roots # {} /\ SameWork(n, u) /\ n.pc = u.pc /\ n.impact = u.impact
           /\ n.mutated = u.mutated
           /\ \/ missing = {} /\ v = Idle
              \/ SameWork(v, w) /\ v.pc = w.pc /\ v.impact = w.impact /\ v.roots = {} /\ v.mutated = TRUE
           /\ Rows("removal", MarkMissing(missing), {}) /\ repair' = repair
        BY <1>15, RemoveRowsWork
  <2>2. /\ Covered(w) /\ Covered(u) /\ QuietWork(w, touched["removal"])
        /\ QuietWork(u, touched["pass"]) /\ (u.pc = "apply" => u.kind # "repair")
        /\ ~w.mutated /\ (repair \/ flagged = {})
        BY <2>1 DEF CoverInv, Actors
  <2> HIDE DEF w, v, u, n
  <2>3. /\ touched'["pass"] = touched["pass"] /\ flagged' = flagged
        /\ missing = {} => touched'["removal"] = touched["removal"]
        BY <2>1, MissingTouched DEF Workers, Actors
  <2>4. Covered(n) /\ QuietWork(n, touched'["pass"]) /\ (n.pc = "apply" => n.kind # "repair")
        BY <2>1, <2>2, <2>3, SameCovered DEF QuietWork, SameWork
  <2>5. CASE missing = {} /\ v = Idle
    <3>1. touched'["removal"] = {}
          BY <2>1, <2>2, <2>3, <2>5 DEF QuietWork
    <3>2. Covered(v) /\ QuietWork(v, touched'["removal"]) /\ v.pc = "idle"
          BY <2>5, <3>1, IdleWork, IdleCovered DEF QuietWork
    <3>3. QED  BY <2>1, <2>2, <2>3, <2>4, <3>2 DEF CoverInv, Actors, v, n
  <2>6. CASE SameWork(v, w) /\ v.pc = w.pc /\ v.impact = w.impact /\ v.roots = {} /\ v.mutated = TRUE
    <3>1. Covered(v) /\ QuietWork(v, touched'["removal"]) /\ v.pc = "rows"
          BY <2>1, <2>2, <2>6, SameCovered DEF QuietWork
    <3>2. QED  BY <2>1, <2>2, <2>3, <2>4, <2>6, <3>1 DEF CoverInv, Actors, v, n
  <2>7. QED  BY <2>1, <2>5, <2>6
<1>16. ASSUME RemovalFails PROVE CoverInv'
  <2> DEFINE w == work["removal"]
           u == work["pass"]
           n == work'["pass"]
  <2>1. /\ (w.pc = "rows" /\ w.roots # {}) \/ w.pc = "tell"
        /\ work'["removal"] = Idle /\ SameWork(n, u) /\ n.pc = u.pc /\ n.impact = u.impact
        /\ n.mutated = u.mutated /\ UNCHANGED <<repair, owed>>
        BY <1>16, RemovalFailsWork
  <2>2. /\ Covered(u) /\ QuietWork(u, touched["pass"]) /\ (u.pc = "apply" => u.kind # "repair")
        /\ touched["removal"] = {} /\ touched' = touched /\ (repair' \/ flagged' = {})
        BY <2>1 DEF CoverInv, QuietWork, Actors, owed
  <2> HIDE DEF u, n
  <2>3. Covered(n) /\ QuietWork(n, touched'["pass"]) /\ (n.pc = "apply" => n.kind # "repair")
        BY <2>1, <2>2, SameCovered DEF QuietWork, SameWork
  <2>4. QED  BY <2>1, <2>2, <2>3, IdleWork, IdleCovered DEF CoverInv, QuietWork, Actors, n
<1>17. ASSUME SessionRebuild PROVE CoverInv'
  <2>1. touched' = [a \in Workers |-> {}] /\ flagged' = {} /\ work' = work
        BY <1>17, RebuildAllType DEF SessionRebuild
  <2>2. QED  BY <2>1 DEF CoverInv, QuietWork, Actors, Workers
<1>18. ASSUME SessionTells PROVE CoverInv'
      BY <1>18, CoverFrame DEF SessionTells, owed
<1>19. ASSUME SessionFails PROVE CoverInv'
  <2>1. /\ \A a \in Actors : touched'[a] = touched[a]
        /\ UNCHANGED <<work, repair, flagged>>
        BY <1>19, LapseType DEF SessionFails, Actors, Workers
  <2>2. QED  BY <2>1 DEF CoverInv
<1>20. ASSUME NEW p \in Paths, NEW g \in Holds[p] \cup {None}, DiskChange(p, g) PROVE CoverInv'
  <2> DEFINE u == work["pass"]
           n == work'["pass"]
  <2>1. /\ work'["removal"] = work["removal"] /\ SameWork(n, u) /\ n.pc = u.pc
        /\ n.impact = u.impact /\ n.mutated = u.mutated /\ UNCHANGED <<repair, owed>>
        BY <1>20, DiskWork
  <2>2. /\ Covered(u) /\ QuietWork(u, touched["pass"]) /\ (u.pc = "apply" => u.kind # "repair")
        /\ touched' = touched /\ (repair' \/ flagged' = {})
        BY <2>1 DEF CoverInv, QuietWork, Actors, owed
  <2> HIDE DEF u, n
  <2>3. Covered(n) /\ QuietWork(n, touched'["pass"]) /\ (n.pc = "apply" => n.kind # "repair")
        BY <2>1, <2>2, SameCovered DEF QuietWork, SameWork
  <2>4. QED  BY <2>1, <2>2, <2>3, CoverOne DEF Actors, n
<1>21. ASSUME NEW new \in SUBSET Roots, SetScanRoots(new) PROVE CoverInv'
  <2> DEFINE gone == Inside(roots \ new)
           v == work'["removal"]
  <2>1. /\ work["removal"].pc = "idle" /\ work'["pass"] = Cancelled(work["pass"])
        /\ \/ v = Idle
           \/ /\ v.pc = "rows" /\ v.kind = "remove" /\ v.began = RowsOf(gone)
              /\ v.impact = Impact(gone) /\ v.mutated = FALSE
        /\ gone \subseteq Paths /\ Lapse({"pass"}) /\ UNCHANGED <<repair, flagged>>
        BY <1>21, SetRootsWork
  <2>2. /\ touched'["pass"] = {} /\ touched'["removal"] = touched["removal"]
        /\ touched["removal"] = {} /\ (repair \/ flagged = {})
        BY <2>1, LapseType DEF Actors, Workers, CoverInv, QuietWork
  <2> HIDE DEF gone, v
  <2>3. Covered(v) /\ v.pc # "apply" /\ (v.pc = "rows" => ~v.mutated)
    <3>1. CASE v = Idle
          BY <3>1, IdleWork, IdleCovered
    <3>2. CASE v.pc = "rows" /\ v.began = RowsOf(gone) /\ v.impact = Impact(gone) /\ v.mutated = FALSE
          BY <2>1, <3>2, BeganCovered
    <3>3. QED  BY <2>1, <3>1, <3>2
  <2>4. Covered(work'["pass"]) /\ work'["pass"].pc # "apply"
    <3>1. work["pass"] \in Works
          BY DEF TypeInv, Actors
    <3>2. work'["pass"].pc \in {"idle", "tell"}
          BY <2>1, <3>1, IdleWork, CancelledWork
    <3>3. QED  BY <3>2 DEF Covered
  <2>5. QED  BY <2>1, <2>2, <2>3, <2>4 DEF CoverInv, QuietWork, Actors, v
<1>22. ASSUME NEW f \in Remote, NEW g \in Holds[f] \cup {None}, RemoteOp(f, g) PROVE CoverInv'
  <2>1. PICK fs \in [Files -> Tags \cup {None}], gs \in SUBSET Tags : Rows("session", fs, gs)
        BY <1>22, RemoteRows
  <2>2. /\ \A a \in Actors : touched'[a] = touched[a]
        /\ flagged' = flagged
        BY <2>1, RowsFacts DEF Workers, Actors
  <2>3. work' = work /\ repair' = repair
        BY <1>22 DEF RemoteOp
  <2>4. QED  BY <2>2, <2>3 DEF CoverInv
<1>23. ASSUME NEW new \in [Remote -> Tags \cup {None}], InstallCheckpoint(new) PROVE CoverInv'
  <2>1. touched' = [a \in DOMAIN touched |-> {}] /\ flagged' = {} /\ work' = work
        BY <1>23 DEF InstallCheckpoint
  <2>2. touched' = [a \in Workers |-> {}]
        BY <2>1 DEF TypeInv
  <2>3. QED  BY <2>1, <2>2 DEF CoverInv, QuietWork, Actors, Workers
<1>24. ASSUME NEW d \in Devices, NEW v \in Preferred, SetPreferred(d, v) PROVE CoverInv'
      BY <1>24, CoverFrame DEF SetPreferred, owed
<1>25. ASSUME NEW p \in Variants \cup {ClusterOf[a] : a \in Variants}, PinAlbum(p) PROVE CoverInv'
      BY <1>25, CoverFrame DEF PinAlbum, owed
<1>26. ASSUME Restart PROVE CoverInv'
  <2>1. Lapse(Workers) /\ work' = [a \in Actors |-> Idle] /\ UNCHANGED <<repair, flagged>>
        BY <1>26 DEF Restart, TypeInv
  <2>2. \A a \in Actors : touched'[a] = {} /\ work'[a] = Idle
        BY <2>1, LapseType DEF Workers
  <2>3. QED  BY <2>1, <2>2, IdleWork, IdleCovered DEF CoverInv, QuietWork, Actors
<1>27. ASSUME UNCHANGED vars PROVE CoverInv'
      BY <1>27, CoverFrame DEF vars, owed
<1>28. QED  BY <1>1, <1>2, <1>3, <1>4, <1>5, <1>6, <1>7, <1>8, <1>9, <1>10, <1>11, <1>12, <1>13,
               <1>14, <1>15, <1>16, <1>17, <1>18, <1>19, <1>20, <1>21, <1>22, <1>23, <1>24, <1>25,
               <1>26, <1>27
      DEF Next, PassStep, UpdateStep, Outside

-----------------------------------------------------------------------------
\* Everything that is shown has a reason.

\* What the catalog may show: present files, and what work has touched that its rebuild or a repair
\* will look at.
Reasons ==
    PresentIn(files) \cup lapsed \cup flagged \cup touched["session"]
      \cup UNION {touched[a] \cap work[a].began : a \in Actors}

Explained == Fits(catalog, Derive(Reasons))

\* That Reasons explain a catalog, one row at a time.
ExplainedBy(c, gs) ==
    /\ \A t \in c.tracks : \E g \in gs : t = TrackOf[g]
    /\ \A a \in c.albums : \E g \in gs : a = AlbumOf[g]
    /\ \A l \in c.links : \E g \in gs : l = <<AlbumOf[g], TrackOf[g]>>
    /\ \A x \in c.artists : \E g \in gs : x = ArtistOf[TrackOf[g]] \/ x = ArtistOf[AlbumOf[g]]

LEMMA FitsExplained ==
    ASSUME NEW c \in Catalogs, NEW gs
    PROVE  Fits(c, Derive(gs)) <=> ExplainedBy(c, gs)
<1>1. Fits(c, Derive(gs)) <=>
        /\ c.tracks \subseteq Derive(gs).tracks /\ c.albums \subseteq Derive(gs).albums
        /\ c.links \subseteq Derive(gs).links /\ c.artists \subseteq Derive(gs).artists
      BY CatalogTables, FitsTables
<1>2. c.tracks \subseteq Derive(gs).tracks <=> \A t \in c.tracks : \E g \in gs : t = TrackOf[g]
      BY DeriveTables
<1>3. c.albums \subseteq Derive(gs).albums <=> \A a \in c.albums : \E g \in gs : a = AlbumOf[g]
      BY DeriveTables
<1>4. c.links \subseteq Derive(gs).links
        <=> \A l \in c.links : \E g \in gs : l = <<AlbumOf[g], TrackOf[g]>>
      BY DeriveTables
<1>5. c.artists \subseteq Derive(gs).artists
        <=> \A x \in c.artists : \E g \in gs : x = ArtistOf[TrackOf[g]] \/ x = ArtistOf[AlbumOf[g]]
      BY DeriveTables
<1>6. QED  BY <1>1, <1>2, <1>3, <1>4, <1>5 DEF ExplainedBy

LEMMA MoreExplain ==
    ASSUME NEW c, NEW R, NEW S, ExplainedBy(c, R), R \subseteq S
    PROVE  ExplainedBy(c, S)
BY DEF ExplainedBy

LEMMA WithExplained ==
    ASSUME NEW c \in Catalogs, NEW gs \in SUBSET Tags, NEW R, ExplainedBy(c, R)
    PROVE  ExplainedBy(With(c, Derive(gs)), R \cup gs)
BY WithTables DEF ExplainedBy

LEMMA DeriveExplained ==
    ASSUME NEW gs \in SUBSET Tags
    PROVE  ExplainedBy(Derive(gs), gs)
BY DeriveTables DEF ExplainedBy

\* A scoped rebuild shows no longer what its impact covers.
LEMMA ScopedExplained ==
    ASSUME NEW c \in Catalogs, Linked(c), NEW i \in Impacts,
           files \in [Files -> Tags \cup {None}],
           NEW R, NEW X, ExplainedBy(c, R \cup X), PresentIn(files) \subseteq R,
           \A g \in X : /\ TrackOf[g] \in i.tracks /\ AlbumOf[g] \in i.albums
                        /\ ArtistOf[TrackOf[g]] \in i.artists /\ ArtistOf[AlbumOf[g]] \in i.artists
    PROVE  ExplainedBy(Scoped(c, i), R)
<1> DEFINE ts == ReconciledTracks(c, i)
           rs == ReconciledRows(c, i)
           n == Scoped(c, i)
           again == UNION {{ArtistOf[TrackOf[h]], ArtistOf[AlbumOf[h]]} : h \in rs}
<1>1. /\ n.tracks = (c.tracks \ ts) \cup {TrackOf[h] : h \in rs}
      /\ n.albums = (c.albums \ i.albums) \cup {AlbumOf[h] : h \in rs}
      /\ n.links = {l \in c.links : l[1] \notin i.albums /\ l[2] \notin ts}
                     \cup {<<AlbumOf[h], TrackOf[h]>> : h \in rs}
      /\ n.artists = (c.artists \cup again) \ (i.artists \ {ArtistOf[e] : e \in n.tracks \cup n.albums})
      BY ScopedTables
<1>2. rs \subseteq R
      BY ScopedTables
<1>3. i.tracks \subseteq ts
      BY DEF ReconciledTracks
<1> HIDE DEF ts, rs, n
<1>4. \A t \in n.tracks : \E g \in R : t = TrackOf[g]
      BY <1>1, <1>2, <1>3 DEF ExplainedBy
<1>5. \A a \in n.albums : \E g \in R : a = AlbumOf[g]
      BY <1>1, <1>2 DEF ExplainedBy
<1>6. \A l \in n.links : \E g \in R : l = <<AlbumOf[g], TrackOf[g]>>
      BY <1>1, <1>2 DEF ExplainedBy
<1>7. ASSUME NEW x \in n.artists
      PROVE  \E g \in R : x = ArtistOf[TrackOf[g]] \/ x = ArtistOf[AlbumOf[g]]
  <2>1. CASE \E e \in n.tracks \cup n.albums : x = ArtistOf[e]
        BY <1>4, <1>5, <2>1
  <2>2. CASE x \notin i.artists
    <3>1. CASE x \in c.artists
      <4>1. PICK g \in R \cup X : x = ArtistOf[TrackOf[g]] \/ x = ArtistOf[AlbumOf[g]]
            BY <3>1 DEF ExplainedBy
      <4>2. g \in R
            BY <2>2, <4>1
      <4>3. QED  BY <4>1, <4>2
    <3>2. CASE x \in again
          BY <1>2, <3>2
    <3>3. QED  BY <1>1, <3>1, <3>2
  <2>3. QED  BY <1>1, <2>1, <2>2
<1>8. QED  BY <1>4, <1>5, <1>6, <1>7 DEF ExplainedBy, n

\* Work that goes on, ends or breaks off without a change of the tables.
LEMMA ExplainedKept ==
    ASSUME TypeInv, Explained, catalog' = catalog, files' = files,
           lapsed \cup flagged \subseteq lapsed' \cup flagged',
           touched["session"] \subseteq touched'["session"] \cup lapsed',
           \A a \in Actors : touched[a] \cap work[a].began
              \subseteq (touched'[a] \cap work'[a].began) \cup lapsed' \cup flagged'
    PROVE  Explained'
<1>1. ASSUME NEW g \in Reasons PROVE g \in Reasons'
  <2>1. CASE g \in PresentIn(files)
        BY <2>1 DEF Reasons
  <2>2. CASE g \in lapsed \cup flagged \/ g \in touched["session"]
        BY <2>2 DEF Reasons
  <2>3. CASE \E a \in Actors : g \in touched[a] \cap work[a].began
        BY <2>3 DEF Reasons
  <2>4. QED  BY <2>1, <2>2, <2>3 DEF Reasons
<1>2. ExplainedBy(catalog, Reasons)
      BY FitsExplained DEF Explained, TypeInv
<1>3. ExplainedBy(catalog', Reasons')
      BY <1>1, <1>2, MoreExplain
<1>4. catalog' \in Catalogs
      BY DEF TypeInv
<1>5. QED  BY <1>3, <1>4, FitsExplained DEF Explained

LEMMA RowsExplained ==
    ASSUME TypeInv, Explained, NEW a \in Workers, NEW fs \in [Files -> Tags \cup {None}],
           NEW gs \in SUBSET Tags, Rows(a, fs, gs), a = "session" \/ gs \subseteq PresentIn(fs),
           \A b \in Actors : work'[b].began = work[b].began \/ touched'[b] = {}
    PROVE  Explained'
<1>1. /\ files' = fs /\ catalog' = With(catalog, Derive(gs)) /\ flagged' = flagged
      /\ \A b \in Workers : touched[b] \subseteq touched'[b]
      /\ gs \subseteq touched'[a]
      /\ \A f \in Moved(fs) : files[f] # None => files[f] \in touched'[a]
      /\ lapsed \subseteq lapsed'
      /\ a # "session" => \A f \in Moved(fs) :
           files[f] # None => files[f] \in work[a].began \cup lapsed'
  <2>1. /\ files' = fs /\ catalog' = With(catalog, Derive(gs)) /\ flagged' = flagged
        /\ lapsed \subseteq lapsed'
        /\ a # "session" => \A f \in Moved(fs) :
             files[f] # None => files[f] \in work[a].began \cup lapsed'
        BY RowsFacts
  <2>2. /\ \A b \in Workers : b # a => touched'[b] = touched[b]
        /\ touched'[a] = touched[a] \cup ((gs \cup {files[f] : f \in Moved(fs)}
                                            \cup {fs[f] : f \in Moved(fs)}) \ {None})
        BY RowsFacts
  <2>3. None \notin gs
        BY CatalogAssumption
  <2>4. QED  BY <2>1, <2>2, <2>3
<1>2. \A f \in Files : f \in Moved(fs) \/ fs[f] = files[f]
      BY DEF Moved
<1>3. ASSUME NEW g \in gs PROVE g \in Reasons'
  <2>1. CASE a = "session"
        BY <1>1, <2>1 DEF Reasons
  <2>2. CASE gs \subseteq PresentIn(fs)
        BY <1>1, <2>2 DEF Reasons
  <2>3. QED  BY <2>1, <2>2
<1>4. ASSUME NEW g \in PresentIn(files) PROVE g \in Reasons'
  <2>1. PICK f \in Files : g = files[f] /\ g # None
        BY DEF PresentIn
  <2>2. CASE fs[f] = files[f]
        BY <1>1, <2>1, <2>2 DEF Reasons, PresentIn
  <2>3. CASE f \in Moved(fs) /\ a = "session"
        BY <1>1, <2>1, <2>3 DEF Reasons
  <2>4. CASE f \in Moved(fs) /\ a # "session"
    <3>1. g \in touched'[a] /\ g \in work[a].began \cup lapsed' /\ a \in Actors
          BY <1>1, <2>1, <2>4 DEF Workers
    <3>2. work'[a].began = work[a].began
          BY <3>1
    <3>3. QED  BY <3>1, <3>2 DEF Reasons
  <2>5. QED  BY <1>2, <2>2, <2>3, <2>4
<1>5. ASSUME NEW g \in lapsed \cup flagged \cup touched["session"] PROVE g \in Reasons'
      BY <1>1 DEF Reasons, Workers
<1>6. ASSUME NEW b \in Actors, NEW g \in touched[b] \cap work[b].began PROVE g \in Reasons'
  <2>1. g \in touched'[b]
        BY <1>1 DEF Workers
  <2>2. work'[b].began = work[b].began
        BY <2>1
  <2>3. QED  BY <2>1, <2>2 DEF Reasons
<1>7. Reasons \cup gs \subseteq Reasons'
  <2>1. \A g \in Reasons : g \in Reasons'
        BY <1>4, <1>5, <1>6 DEF Reasons
  <2>2. QED  BY <1>3, <2>1
<1>8. ExplainedBy(catalog, Reasons)
      BY FitsExplained DEF Explained, TypeInv
<1>9. ExplainedBy(catalog', Reasons \cup gs)
      BY <1>1, <1>8, WithExplained DEF TypeInv
<1>10. ExplainedBy(catalog', Reasons')
      BY <1>7, <1>9, MoreExplain
<1>11. catalog' \in Catalogs
      BY RowsType
<1>12. QED  BY <1>10, <1>11, FitsExplained DEF Explained

LEMMA RebuildExplained ==
    ASSUME PresentIn(files') \in SUBSET Tags, catalog' = Derive(PresentIn(files'))
    PROVE  Explained'
<1>1. PresentIn(files') \subseteq Reasons'
      BY DEF Reasons
<1>2. ExplainedBy(catalog', Reasons')
      BY <1>1, DeriveExplained, MoreExplain
<1>3. catalog' \in Catalogs
      BY DeriveType
<1>4. QED  BY <1>2, <1>3, FitsExplained DEF Explained

LEMMA ExplainedStep ==
    ASSUME TypeInv, CoverInv, Explained, [Next]_vars
    PROVE  Explained'
<1>1. ASSUME IngestNext PROVE Explained'
  <2> DEFINE p == First(work["pass"].todo)
  <2>1. /\ p \in Paths /\ \A b \in Actors : work'[b].began = work[b].began
        /\ \/ UNCHANGED <<files, catalog, untold, owed>>
           \/ Rows("pass", Ingested(p), {disk[p]} \ {None})
        BY <1>1, IngestWork DEF Actors, SameWork
  <2> HIDE DEF p
  <2>2. CASE UNCHANGED <<files, catalog, untold, owed>>
        BY <2>1, <2>2, ExplainedKept DEF owed
  <2>3. CASE Rows("pass", Ingested(p), {disk[p]} \ {None})
    <3>1. /\ Ingested(p) \in [Files -> Tags \cup {None}] /\ {disk[p]} \ {None} \in SUBSET Tags
          /\ {disk[p]} \ {None} \subseteq PresentIn(Ingested(p))
          BY <2>1 DEF Ingested, TypeInv, Files, PresentIn
    <3>2. QED  BY <2>1, <2>3, <3>1, RowsExplained DEF Workers, Actors
  <2>4. QED  BY <2>1, <2>2, <2>3
<1>2. ASSUME ReconcilePresence PROVE Explained'
  <2>1. /\ \A b \in Actors : work'[b].began = work[b].began
        /\ \E missing : Rows("pass", MarkMissing(missing), {})
        BY <1>2, PresenceWork DEF Actors, SameWork
  <2>2. PICK missing : Rows("pass", MarkMissing(missing), {})
        BY <2>1
  <2>3. MarkMissing(missing) \in [Files -> Tags \cup {None}]
        BY MissingPresent
  <2>4. QED  BY <2>1, <2>2, <2>3, RowsExplained DEF Workers, Actors
<1>3. ASSUME PassUnchanged PROVE Explained'
  <2>1. /\ work["pass"].pc = "rows" /\ ~work["pass"].mutated
        /\ work'["removal"] = work["removal"] /\ UNCHANGED <<files, catalog, owed>>
        BY <1>3, EndsWork DEF PassUnchanged, RowsDone, At, Actors
  <2>2. touched["pass"] = {}
        BY <2>1 DEF CoverInv, QuietWork, Actors
  <2>3. QED  BY <2>1, <2>2, ExplainedKept DEF owed, Actors
<1>4. ASSUME RepairRebuild PROVE Explained'
  <2>1. catalog' = Derive(PresentIn(files)) /\ files' = files
        BY <1>4, RebuildAllType DEF RepairRebuild
  <2>2. PresentIn(files') \in SUBSET Tags
        BY <2>1 DEF PresentIn, TypeInv
  <2>3. QED  BY <2>1, <2>2, RebuildExplained
<1>5. ASSUME RepairTells PROVE Explained'
  <2>1. /\ work["pass"].pc = "tellall" /\ work'["removal"] = work["removal"]
        /\ UNCHANGED <<files, catalog, owed>>
        BY <1>5, PcWork DEF RepairTells, Actors, At
  <2>2. touched["pass"] = {}
        BY <2>1 DEF CoverInv, QuietWork, Actors
  <2>3. QED  BY <2>1, <2>2, ExplainedKept DEF owed, Actors
<1>6. ASSUME RepairClears PROVE Explained'
  <2>1. /\ work["pass"].pc = "clear" /\ work'["removal"] = work["removal"]
        /\ lapsed' = lapsed \cup flagged /\ UNCHANGED <<files, catalog, touched>>
        BY <1>6, EndsWork DEF RepairClears, Actors, At
  <2>2. touched["pass"] = {}
        BY <2>1 DEF CoverInv, QuietWork, Actors
  <2>3. QED  BY <2>1, <2>2, ExplainedKept DEF Actors
<1>7. ASSUME RepairSkips PROVE Explained'
  <2>1. /\ \A b \in Actors : work'[b].began = work[b].began
        /\ UNCHANGED <<files, catalog, owed>>
        BY <1>7, SkipWork DEF Actors, SameWork
  <2>2. QED  BY <2>1, ExplainedKept DEF owed
<1>8. ASSUME PassFails PROVE Explained'
  <2>1. /\ work'["removal"] = work["removal"] /\ UNCHANGED <<files, catalog, flagged>>
        /\ touched["pass"] \subseteq lapsed' /\ lapsed \subseteq lapsed'
        /\ touched'["removal"] = touched["removal"] /\ touched'["session"] = touched["session"]
        BY <1>8, EndsWork, LapseType DEF PassFails, Actors, Workers
  <2>2. QED  BY <2>1, ExplainedKept DEF Actors
<1>9. ASSUME NEW k \in {"full", "repair"}, BeginFull(k) PROVE Explained'
  <2>1. /\ work["pass"].pc = "idle" /\ work'["removal"] = work["removal"]
        /\ UNCHANGED <<files, catalog, owed>>
        BY <1>9, BeginFullWork
  <2>2. touched["pass"] = {}
        BY <2>1 DEF CoverInv, QuietWork, Actors
  <2>3. QED  BY <2>1, <2>2, ExplainedKept DEF owed, Actors
<1>10. ASSUME NEW ps \in SUBSET Paths, NEW rs \in SUBSET Roots, BeginDelta(ps, rs) PROVE Explained'
  <2>1. /\ work["pass"].pc = "idle" /\ work'["removal"] = work["removal"]
        /\ UNCHANGED <<files, catalog, owed>>
        BY <1>10, BeginDeltaWork
  <2>2. touched["pass"] = {}
        BY <2>1 DEF CoverInv, QuietWork, Actors
  <2>3. QED  BY <2>1, <2>2, ExplainedKept DEF owed, Actors
<1>11. ASSUME NEW a \in Actors, CaptureAfter(a) PROVE Explained'
  <2>1. /\ \A b \in Actors : work'[b].began = work[b].began
        /\ UNCHANGED <<files, catalog, owed>>
        BY <1>11, CaptureWork DEF SameWork
  <2>2. QED  BY <2>1, ExplainedKept DEF owed
<1>12. ASSUME NEW a \in Actors, ApplyScoped(a) PROVE Explained'
  <2> DEFINE i == work[a].impact
           X == touched[a] \cap work[a].began
  <2>1. i \in Impacts
        BY DEF TypeInv, Works
  <2>2. /\ files' = files /\ catalog' = Scoped(catalog, i) /\ touched' = [touched EXCEPT ![a] = {}]
        /\ \A b \in Actors : work'[b].began = work[b].began
        /\ work[a].pc = "apply" /\ UNCHANGED <<lapsed, flagged>>
        BY <1>12, PcWork DEF ApplyScoped, Rebuild, SameWork, At
  <2>3. /\ touched'[a] = {} /\ \A b \in Workers \ {a} : touched'[b] = touched[b]
        BY <2>2 DEF TypeInv, Workers
  <2>4. \A g \in X : /\ TrackOf[g] \in i.tracks /\ AlbumOf[g] \in i.albums
                     /\ ArtistOf[TrackOf[g]] \in i.artists /\ ArtistOf[AlbumOf[g]] \in i.artists
        BY <2>2 DEF CoverInv, Covered
  <2> HIDE DEF i, X
  <2>5. Reasons \subseteq Reasons' \cup X /\ PresentIn(files) \subseteq Reasons'
    <3>1. ASSUME NEW b \in Actors, NEW g \in touched[b] \cap work[b].began
          PROVE  g \in Reasons' \cup X
      <4>1. CASE b = a
            BY <4>1 DEF X
      <4>2. CASE b # a
        <5>1. g \in touched'[b] \cap work'[b].began
              BY <2>2, <2>3, <4>2 DEF Workers
        <5>2. QED  BY <5>1 DEF Reasons
      <4>3. QED  BY <4>1, <4>2
    <3>2. touched'["session"] = touched["session"]
          BY <2>3 DEF Workers, Actors
    <3>3. ASSUME NEW g \in PresentIn(files) \cup lapsed \cup flagged \cup touched["session"]
          PROVE  g \in Reasons'
          BY <2>2, <3>2 DEF Reasons
    <3>4. \A g \in Reasons : g \in Reasons' \cup X
          BY <3>1, <3>3 DEF Reasons
    <3>5. QED  BY <3>3, <3>4
  <2>6. ExplainedBy(catalog, Reasons)
        BY FitsExplained DEF Explained, TypeInv
  <2>7. ExplainedBy(catalog, Reasons' \cup X)
        BY <2>5, <2>6, MoreExplain
  <2>8. ExplainedBy(catalog', Reasons') /\ catalog' \in Catalogs
        BY <2>1, <2>2, <2>4, <2>5, <2>7, ScopedExplained, ScopedTables DEF TypeInv
  <2>9. QED  BY <2>8, FitsExplained DEF Explained
<1>13. ASSUME NEW a \in Actors, ApplyFlags(a) PROVE Explained'
  <2>1. /\ \A b \in Actors : b # a => work'[b] = work[b]
        /\ flagged' = flagged \cup touched[a] /\ touched' = [touched EXCEPT ![a] = {}]
        /\ UNCHANGED <<files, catalog, lapsed>>
        BY <1>13, EndsWork DEF ApplyFlags, Flagged
  <2>2. /\ touched'["session"] = touched["session"]
        /\ \A b \in Actors : b # a => touched'[b] = touched[b]
        BY <2>1 DEF TypeInv, Workers, Actors
  <2>3. QED  BY <2>1, <2>2, ExplainedKept
<1>14. ASSUME NEW a \in Actors, TellScan(a) PROVE Explained'
  <2>1. /\ \A b \in Actors : b # a => work'[b] = work[b]
        /\ work[a].pc = "tell" /\ UNCHANGED <<files, catalog, owed>>
        BY <1>14, EndsWork DEF TellScan, At
  <2>2. touched[a] = {}
        BY <2>1 DEF CoverInv, QuietWork
  <2>3. QED  BY <2>1, <2>2, ExplainedKept DEF owed
<1>15. ASSUME RemoveRows PROVE Explained'
  <2>1. PICK missing :
           /\ work["removal"].pc = "rows" /\ work["removal"].roots # {}
           /\ work'["pass"].began = work["pass"].began
           /\ missing = {} \/ work'["removal"].began = work["removal"].began
           /\ Rows("removal", MarkMissing(missing), {})
        BY <1>15, RemoveRowsWork DEF SameWork
  <2>2. touched["removal"] = {}
        BY <2>1 DEF CoverInv, QuietWork, Actors
  <2>3. missing = {} => touched'["removal"] = {}
        BY <2>1, <2>2, MissingTouched DEF Workers, Actors
  <2>4. MarkMissing(missing) \in [Files -> Tags \cup {None}]
        BY MissingPresent
  <2>5. QED  BY <2>1, <2>3, <2>4, RowsExplained DEF Workers, Actors
<1>16. ASSUME RemovalFails PROVE Explained'
  <2>1. /\ (work["removal"].pc = "rows" /\ work["removal"].roots # {}) \/ work["removal"].pc = "tell"
        /\ work'["pass"].began = work["pass"].began /\ UNCHANGED <<files, catalog, owed>>
        BY <1>16, RemovalFailsWork DEF SameWork
  <2>2. touched["removal"] = {}
        BY <2>1 DEF CoverInv, QuietWork, Actors
  <2>3. QED  BY <2>1, <2>2, ExplainedKept DEF owed, Actors
<1>17. ASSUME SessionRebuild PROVE Explained'
  <2>1. catalog' = Derive(PresentIn(files)) /\ files' = files
        BY <1>17, RebuildAllType DEF SessionRebuild
  <2>2. PresentIn(files') \in SUBSET Tags
        BY <2>1 DEF PresentIn, TypeInv
  <2>3. QED  BY <2>1, <2>2, RebuildExplained
<1>18. ASSUME SessionTells PROVE Explained'
      BY <1>18, ExplainedKept DEF SessionTells, owed
<1>19. ASSUME SessionFails PROVE Explained'
  <2>1. /\ UNCHANGED <<files, catalog, flagged, work>>
        /\ touched["session"] \subseteq lapsed' /\ lapsed \subseteq lapsed'
        /\ \A b \in Actors : touched'[b] = touched[b]
        BY <1>19, LapseType DEF SessionFails, Actors, Workers
  <2>2. QED  BY <2>1, ExplainedKept
<1>20. ASSUME NEW p \in Paths, NEW g \in Holds[p] \cup {None}, DiskChange(p, g) PROVE Explained'
  <2>1. /\ \A b \in Actors : work'[b].began = work[b].began
        /\ UNCHANGED <<files, catalog, owed>>
        BY <1>20, DiskWork DEF SameWork, Actors
  <2>2. QED  BY <2>1, ExplainedKept DEF owed
<1>21. ASSUME NEW new \in SUBSET Roots, SetScanRoots(new) PROVE Explained'
  <2>1. work["removal"].pc = "idle" /\ Lapse({"pass"}) /\ UNCHANGED <<files, catalog, flagged>>
        BY <1>21, SetRootsWork
  <2>2. /\ touched["pass"] \subseteq lapsed' /\ lapsed \subseteq lapsed'
        /\ touched'["session"] = touched["session"]
        BY <2>1, LapseType DEF Actors, Workers
  <2>3. touched["removal"] = {}
        BY <2>1 DEF CoverInv, QuietWork, Actors
  <2>4. QED  BY <2>1, <2>2, <2>3, ExplainedKept DEF Actors
<1>22. ASSUME NEW f \in Remote, NEW g \in Holds[f] \cup {None}, RemoteOp(f, g) PROVE Explained'
  <2>1. PICK fs \in [Files -> Tags \cup {None}], gs \in SUBSET Tags : Rows("session", fs, gs)
        BY <1>22, RemoteRows
  <2>2. work' = work
        BY <1>22 DEF RemoteOp
  <2>3. QED  BY <2>1, <2>2, RowsExplained DEF Workers
<1>23. ASSUME NEW new \in [Remote -> Tags \cup {None}], InstallCheckpoint(new) PROVE Explained'
  <2>1. catalog' = Derive(PresentIn(files'))
        BY <1>23 DEF InstallCheckpoint
  <2>2. files' \in [Files -> Tags \cup {None}]
        BY <1>23 DEF InstallCheckpoint, TypeInv
  <2>3. PresentIn(files') \in SUBSET Tags
        BY <2>2 DEF PresentIn
  <2>4. QED  BY <2>1, <2>3, RebuildExplained
<1>24. ASSUME NEW d \in Devices, NEW v \in Preferred, SetPreferred(d, v) PROVE Explained'
      BY <1>24, ExplainedKept DEF SetPreferred, owed
<1>25. ASSUME NEW p \in Variants \cup {ClusterOf[a] : a \in Variants}, PinAlbum(p) PROVE Explained'
      BY <1>25, ExplainedKept DEF PinAlbum, owed
<1>26. ASSUME Restart PROVE Explained'
  <2>1. Lapse(Workers) /\ UNCHANGED <<files, catalog, flagged>>
        BY <1>26 DEF Restart, TypeInv
  <2>2. \A b \in Workers : touched[b] \subseteq lapsed'
        BY <2>1, LapseType
  <2>3. lapsed \subseteq lapsed'
        BY <2>1, LapseType
  <2>4. QED  BY <2>1, <2>2, <2>3, ExplainedKept DEF Workers
<1>27. ASSUME UNCHANGED vars PROVE Explained'
      BY <1>27, ExplainedKept DEF vars, owed
<1>28. QED  BY <1>1, <1>2, <1>3, <1>4, <1>5, <1>6, <1>7, <1>8, <1>9, <1>10, <1>11, <1>12, <1>13,
               <1>14, <1>15, <1>16, <1>17, <1>18, <1>19, <1>20, <1>21, <1>22, <1>23, <1>24, <1>25,
               <1>26, <1>27
      DEF Next, PassStep, UpdateStep, Outside

-----------------------------------------------------------------------------
\* The rows follow the disk.

\* A path of the scope that has not changed since has its row, or a step to come will see to it:
\* its ingestion, the reconciliation of a root it is gone from, or the enumeration of a later root.
Handled(p) ==
    LET w == work["pass"] IN
    \/ files[p] = disk[p]
    \/ p \in w.todo
    \/ disk[p] = None /\ p \in Inside(w.roots)
    \/ w.kind # "delta" /\ disk[p] # None /\ p \in Inside(w.roots \ {First(w.roots)})

\* What a full pass found when it enumerated the roots.
Enumerated ==
    LET w == work["pass"] IN
    /\ w.todo \subseteq w.seen
    /\ \A p \in w.scope : disk[p] # None => p \in w.seen \cup unseen
    /\ \A p \in w.fresh : p \in w.seen <=> disk[p] # None

ScanOK ==
    LET w == work["pass"] IN
    /\ w.kind \in {"full", "repair", "delta"}
    /\ w.todo \subseteq w.scope /\ Inside(w.roots) \subseteq w.scope
    /\ w.scope \subseteq Inside(roots) \cup unseen
    /\ work["removal"].pc # "idle" => w.scope \subseteq Inside(roots)
    /\ w.fresh \subseteq Inside(roots)
    /\ w.kind # "delta" => Enumerated
    /\ \A p \in w.fresh : Handled(p)

ScanInv == /\ work["removal"].fresh = {}
           /\ work["pass"].pc = "rows" => ScanOK

FollowInv == ScanInv /\ RowsFollowDisk

LEMMA InsideRoots ==
    ASSUME NEW rs, NEW p
    PROVE  p \in Inside(rs) <=> \E r \in rs : p \in Under[r]
BY DEF Inside

\* What a pass that has gone over all its paths may be believed.
LEMMA FreshFollow ==
    ASSUME FollowInv, work["pass"].pc = "rows", work["pass"].todo = {}, work["pass"].roots = {},
           UNCHANGED <<disk, roots, files>>, unseen' = unseen \ work["pass"].fresh
    PROVE  RowsFollowDisk'
<1>1. \A p \in work["pass"].fresh : p \in Inside(roots) /\ Handled(p)
      BY DEF FollowInv, ScanInv, ScanOK
<1>2. \A p : p \notin Inside(work["pass"].roots) /\ p \notin Inside({} \ {First({})})
      BY InsideRoots
<1>3. \A p \in work["pass"].fresh : p \in Inside(roots) /\ files[p] = disk[p]
      BY <1>1, <1>2 DEF Handled
<1>4. QED  BY <1>3 DEF FollowInv, RowsFollowDisk

\* Steps that are none of a pass over rows.
LEMMA FollowFrame ==
    ASSUME FollowInv, UNCHANGED <<disk, roots, unseen>>, \A p \in Paths : files'[p] = files[p],
           TypeInv, work'["removal"].fresh = {},
           work'["removal"].pc # "idle" => work["removal"].pc # "idle",
           \/ work'["pass"].pc # "rows"
           \/ work'["pass"] = work["pass"]
    PROVE  FollowInv'
<1>1. RowsFollowDisk'
      BY DEF FollowInv, RowsFollowDisk
<1>2. CASE work'["pass"].pc # "rows"
      BY <1>1, <1>2 DEF FollowInv, ScanInv
<1>3. CASE work'["pass"] = work["pass"]
  <2>1. SUFFICES ASSUME work["pass"].pc = "rows" PROVE ScanOK'
        BY <1>1, <1>3 DEF FollowInv, ScanInv
  <2>2. ScanOK
        BY <2>1 DEF FollowInv, ScanInv
  <2>3. work["pass"].fresh \subseteq Paths
        BY DEF TypeInv, Works, Actors
  <2>4. \A p \in work["pass"].fresh : Handled(p)'
        BY <1>3, <2>2, <2>3 DEF ScanOK, Handled
  <2>5. QED  BY <1>3, <2>2, <2>4 DEF ScanOK, Enumerated
<1>4. QED  BY <1>2, <1>3

\* A pass ends, breaks off or goes on to its update.
LEMMA FollowOver ==
    ASSUME FollowInv, UNCHANGED <<disk, roots, files, unseen>>,
           work'["removal"] = work["removal"], work'["pass"].pc # "rows"
    PROVE  FollowInv'
BY DEF FollowInv, ScanInv, RowsFollowDisk

LEMMA FollowStep ==
    ASSUME TypeInv, FollowInv, [Next]_vars
    PROVE  FollowInv'
<1>1. ASSUME IngestNext PROVE FollowInv'
  <2> DEFINE w == work["pass"]
           v == work'["pass"]
           p == First(w.todo)
  <2>1. /\ w.pc = "rows" /\ p \in w.todo /\ p \in Paths /\ (disk[p] = None => w.kind # "full")
        /\ work'["removal"] = work["removal"] /\ SameWork(v, w) /\ v.roots = w.roots
        /\ v.fresh = w.fresh /\ v.todo = w.todo \ {p}
        /\ \/ /\ UNCHANGED <<files, catalog, untold, owed>>
              /\ disk[p] = files[p] \/ (disk[p] = None /\ w.kind = "repair")
           \/ Rows("pass", Ingested(p), {disk[p]} \ {None})
        /\ UNCHANGED <<disk, roots, unseen>>
        BY <1>1, IngestWork
  <2>2. ScanOK /\ w.scope \subseteq Paths /\ w.fresh \subseteq Paths
        BY <2>1 DEF FollowInv, ScanInv, TypeInv, Works, Actors
  <2> HIDE DEF w, v, p
  <2>3. /\ \A q \in Paths : q # p => files'[q] = files[q]
        /\ \/ files'[p] = disk[p]
           \/ files' = files /\ disk[p] = None /\ w.kind = "repair"
    <3>1. CASE /\ UNCHANGED <<files, catalog, untold, owed>>
               /\ disk[p] = files[p] \/ (disk[p] = None /\ w.kind = "repair")
          BY <2>1, <3>1
    <3>2. CASE Rows("pass", Ingested(p), {disk[p]} \ {None})
          BY <2>1, <3>2 DEF Rows, Ingested, TypeInv, Files
    <3>3. QED  BY <2>1, <3>1, <3>2
  <2>4. RowsFollowDisk'
    <3>1. p \in unseen \/ p \in Inside(roots)
          BY <2>1, <2>2 DEF ScanOK, w, v
    <3>2. QED  BY <2>1, <2>3, <3>1 DEF FollowInv, RowsFollowDisk
  <2>5. ASSUME NEW q \in w.fresh PROVE Handled(q)'
    <3>1. Handled(q)
          BY <2>2, <2>5 DEF ScanOK, w, v
    <3>2. q \in Paths
          BY <2>2, <2>5
    <3>3. CASE q # p
          BY <2>1, <2>3, <3>1, <3>2, <3>3 DEF Handled, SameWork, w, v
    <3>4. CASE q = p
      <4>1. ~(disk[p] = None /\ w.kind = "repair")
            BY <2>1, <2>2, <3>4 DEF ScanOK, Enumerated, w, v
      <4>2. QED  BY <2>1, <2>3, <3>4, <4>1 DEF Handled, w, v
    <3>5. QED  BY <3>3, <3>4
  <2>6. ScanOK'
        BY <2>1, <2>2, <2>5 DEF ScanOK, Enumerated, SameWork, w, v
  <2>7. QED  BY <2>1, <2>4, <2>6 DEF FollowInv, ScanInv
<1>2. ASSUME ReconcilePresence PROVE FollowInv'
  <2> DEFINE w == work["pass"]
           v == work'["pass"]
           r == First(w.roots)
           found == IF w.kind = "delta" THEN {p \in Under[r] : disk[p] # None} ELSE w.seen
           missing == MissingUnder(r, found)
           rest == w.roots \ {r}
  <2>1. /\ w.pc = "rows" /\ w.todo = {} /\ r \in w.roots /\ Under[r] \subseteq Paths
        /\ work'["removal"] = work["removal"] /\ SameWork(v, w) /\ v.roots = rest
        /\ v.fresh = w.fresh
        /\ v.todo = (IF w.kind = "delta" \/ rest = {} THEN {} ELSE w.seen \cap Under[First(rest)])
        /\ Rows("pass", MarkMissing(missing), {})
        /\ UNCHANGED <<disk, roots, unseen>>
        BY <1>2, PresenceWork
  <2>2. /\ ScanOK /\ w.scope \subseteq Paths /\ w.fresh \subseteq Paths
        BY <2>1 DEF FollowInv, ScanInv, TypeInv, Works, Actors
  <2>3. missing = {p \in Under[r] : files[p] # None} \ found
        BY DEF MissingUnder
  <2> HIDE DEF w, v, r, missing
  <2>4. Under[r] \subseteq w.scope
        BY <2>1, <2>2, InsideRoots DEF ScanOK, w, v
  <2>5. \A p \in Paths : files'[p] = IF p \in missing THEN None ELSE files[p]
        BY <2>1 DEF Rows, MarkMissing, Files
  <2>6. ASSUME NEW p \in Under[r], p \in w.fresh \/ p \notin unseen, disk[p] # None
        PROVE  p \notin missing
        BY <2>2, <2>3, <2>4, <2>6 DEF ScanOK, Enumerated, w, v
  <2>7. ASSUME NEW p \in Under[r], p \in w.fresh, disk[p] = None
        PROVE  files'[p] = None
    <3>1. p \notin found
          BY <2>2, <2>7 DEF ScanOK, Enumerated, w, v
    <3>2. QED  BY <2>1, <2>3, <2>5, <2>7, <3>1
  <2> HIDE DEF found
  <2>8. RowsFollowDisk'
    <3>1. SUFFICES ASSUME NEW p \in Paths \ unseen, p \in missing PROVE FALSE
          BY <2>1, <2>5 DEF FollowInv, RowsFollowDisk
    <3>2. p \in Under[r] /\ files[p] # None /\ p \in Inside(roots)
          BY <2>2, <2>3, <2>4, <3>1 DEF ScanOK, w, v
    <3>3. disk[p] # None
          BY <3>2 DEF FollowInv, RowsFollowDisk
    <3>4. QED  BY <2>6, <3>1, <3>2, <3>3
  <2>9. ASSUME NEW p \in w.fresh PROVE Handled(p)'
    <3>1. Handled(p) /\ p \in Paths /\ p \notin w.todo
          BY <2>1, <2>2 DEF ScanOK, w, v
    <3>2. CASE files[p] = disk[p]
      <4>1. files'[p] = disk[p]
        <5>1. CASE p \in missing
              BY <2>3, <2>6, <3>2, <5>1
        <5>2. CASE p \notin missing
              BY <2>5, <3>1, <3>2, <5>2
        <5>3. QED  BY <5>1, <5>2
      <4>2. QED  BY <2>1, <4>1 DEF Handled, w, v
    <3>3. CASE disk[p] = None /\ p \in Inside(w.roots)
      <4>1. CASE p \in Under[r]
            BY <2>1, <2>7, <3>3, <4>1 DEF Handled, w, v
      <4>2. CASE p \notin Under[r]
        <5>1. p \in Inside(v.roots)
              BY <2>1, <3>3, <4>2, InsideRoots
        <5>2. QED  BY <2>1, <3>3, <5>1 DEF Handled, w, v
      <4>3. QED  BY <4>1, <4>2
    <3>4. CASE w.kind # "delta" /\ disk[p] # None /\ p \in Inside(rest)
      <4>1. rest # {} /\ p \in w.seen
            BY <2>2, <2>9, <3>1, <3>4, InsideRoots DEF ScanOK, Enumerated, w, v
      <4>2. CASE p \in Under[First(rest)]
        <5>1. p \in v.todo
              BY <2>1, <3>4, <4>1, <4>2
        <5>2. QED  BY <5>1 DEF Handled, w, v
      <4>3. CASE p \notin Under[First(rest)]
        <5>1. p \in Inside(v.roots \ {First(v.roots)})
              BY <2>1, <3>4, <4>3, InsideRoots
        <5>2. QED  BY <2>1, <3>4, <5>1 DEF Handled, SameWork, w, v
      <4>4. QED  BY <4>2, <4>3
    <3>5. QED  BY <3>1, <3>2, <3>3, <3>4 DEF Handled, r, w, v
  <2>10. v.todo \subseteq v.seen /\ v.todo \subseteq v.scope /\ Inside(v.roots) \subseteq v.scope
    <3>1. Inside(rest) \subseteq w.scope
          BY <2>2, InsideRoots DEF ScanOK, w, v
    <3>2. CASE w.kind = "delta" \/ rest = {}
          BY <2>1, <3>1, <3>2 DEF SameWork
    <3>3. CASE ~(w.kind = "delta" \/ rest = {})
      <4>1. First(rest) \in rest
            BY <3>3 DEF First
      <4>2. Under[First(rest)] \subseteq w.scope
            BY <3>1, <4>1, InsideRoots
      <4>3. QED  BY <2>1, <3>1, <3>3, <4>2 DEF SameWork
    <3>4. QED  BY <3>2, <3>3
  <2>11. ScanOK'
        BY <2>1, <2>2, <2>9, <2>10 DEF ScanOK, Enumerated, SameWork, w, v
  <2>12. QED  BY <2>1, <2>8, <2>11 DEF FollowInv, ScanInv
<1>3. ASSUME PassUnchanged PROVE FollowInv'
  <2>1. /\ work["pass"].pc = "rows" /\ work["pass"].todo = {} /\ work["pass"].roots = {}
        /\ work'["pass"] = Idle /\ work'["removal"] = work["removal"]
        /\ unseen' = unseen \ work["pass"].fresh /\ UNCHANGED <<disk, roots, files>>
        BY <1>3, EndsWork DEF PassUnchanged, RowsDone, At, Actors
  <2>2. QED  BY <2>1, FreshFollow, IdleWork DEF FollowInv, ScanInv
<1>4. ASSUME RepairRebuild PROVE FollowInv'
  <2>1. /\ work["pass"].pc = "rows" /\ work["pass"].todo = {} /\ work["pass"].roots = {}
        /\ work'["pass"].pc = "tellall" /\ work'["removal"] = work["removal"]
        /\ unseen' = unseen \ work["pass"].fresh /\ UNCHANGED <<disk, roots, files>>
        BY <1>4, PcWork DEF RepairRebuild, RowsDone, At, Actors
  <2>2. QED  BY <2>1, FreshFollow DEF FollowInv, ScanInv
<1>5. ASSUME RepairTells PROVE FollowInv'
  <2>1. /\ work'["pass"].pc = "clear" /\ work'["removal"] = work["removal"]
        /\ UNCHANGED <<disk, roots, files, unseen>>
        BY <1>5, PcWork DEF RepairTells, Actors
  <2>2. QED  BY <2>1, FollowOver
<1>6. ASSUME RepairClears PROVE FollowInv'
  <2>1. /\ work'["pass"] = Idle /\ work'["removal"] = work["removal"]
        /\ UNCHANGED <<disk, roots, files, unseen>>
        BY <1>6, EndsWork DEF RepairClears, Actors
  <2>2. QED  BY <2>1, FollowOver, IdleWork
<1>7. ASSUME RepairSkips PROVE FollowInv'
  <2> DEFINE w == work["pass"]
           v == work'["pass"]
           p == First(w.todo)
  <2>1. /\ w.pc = "rows" /\ work'["removal"] = work["removal"] /\ SameWork(v, w)
        /\ v.roots = w.roots /\ v.todo = w.todo \ {p} /\ v.fresh = w.fresh \ {p}
        /\ UNCHANGED <<disk, roots, files, unseen>>
        BY <1>7, SkipWork
  <2>2. ScanOK
        BY <2>1 DEF FollowInv, ScanInv
  <2> HIDE DEF w, v, p
  <2>3. \A q \in v.fresh : Handled(q)'
        BY <2>1, <2>2 DEF ScanOK, Handled, SameWork, w, v
  <2>4. ScanOK'
        BY <2>1, <2>2, <2>3 DEF ScanOK, Enumerated, SameWork, w, v
  <2>5. QED  BY <2>1, <2>4 DEF FollowInv, ScanInv, RowsFollowDisk
<1>8. ASSUME PassFails PROVE FollowInv'
  <2>1. /\ work'["pass"] = Idle /\ work'["removal"] = work["removal"]
        /\ UNCHANGED <<disk, roots, files, unseen>>
        BY <1>8, EndsWork DEF PassFails, Actors
  <2>2. QED  BY <2>1, FollowOver, IdleWork
<1>9. ASSUME NEW k \in {"full", "repair"}, BeginFull(k) PROVE FollowInv'
  <2> DEFINE v == work'["pass"]
           paths == Inside(roots)
           seen == {p \in paths : disk[p] # None}
  <2>1. /\ First(roots) \in roots /\ work'["removal"] = work["removal"]
        /\ v.kind = k /\ v.roots = roots /\ v.todo = seen \cap Under[First(roots)]
        /\ v.scope = paths /\ v.seen = seen /\ v.fresh = paths
        /\ UNCHANGED <<disk, roots, files, unseen>>
        BY <1>9, BeginFullWork
  <2> HIDE DEF v
  <2>2. ASSUME NEW p \in paths PROVE Handled(p)'
    <3>1. CASE disk[p] = None
          BY <2>1, <3>1 DEF Handled, v
    <3>2. CASE disk[p] # None /\ p \in Under[First(roots)]
      <4>1. p \in v.todo
            BY <2>1, <3>2
      <4>2. QED  BY <4>1 DEF Handled, v
    <3>3. CASE disk[p] # None /\ p \notin Under[First(roots)]
      <4>1. p \in Inside(roots \ {First(roots)})
            BY <3>3, InsideRoots
      <4>2. QED  BY <2>1, <3>3, <4>1 DEF Handled, v
    <3>4. QED  BY <3>1, <3>2, <3>3
  <2>3. v.todo \subseteq v.scope /\ v.todo \subseteq v.seen
        BY <2>1
  <2>4. ScanOK'
        BY <2>1, <2>2, <2>3 DEF ScanOK, Enumerated, v
  <2>5. QED  BY <2>1, <2>4 DEF FollowInv, ScanInv, RowsFollowDisk
<1>10. ASSUME NEW ps \in SUBSET Paths, NEW rs \in SUBSET Roots, BeginDelta(ps, rs) PROVE FollowInv'
  <2> DEFINE v == work'["pass"]
           scope == ps \cup Inside(rs)
  <2>1. /\ ps \subseteq Inside(roots) /\ rs \subseteq roots /\ work'["removal"] = work["removal"]
        /\ v.kind = "delta" /\ v.roots = rs /\ v.todo = ps /\ v.scope = scope
        /\ v.fresh = ps \cup {p \in Inside(rs) : disk[p] = None}
        /\ UNCHANGED <<disk, roots, files, unseen>>
        BY <1>10, BeginDeltaWork
  <2> HIDE DEF v
  <2>2. \A p \in v.fresh : Handled(p)'
        BY <2>1 DEF Handled, v
  <2>3. scope \subseteq Inside(roots)
        BY <2>1, InsideRoots
  <2>4. ScanOK'
        BY <2>1, <2>2, <2>3 DEF ScanOK, v
  <2>5. QED  BY <2>1, <2>4 DEF FollowInv, ScanInv, RowsFollowDisk
<1>11. ASSUME NEW a \in Actors, CaptureAfter(a) PROVE FollowInv'
  <2>1. /\ work[a].pc = "rows" /\ work[a].todo = {} /\ work[a].roots = {}
        /\ \A b \in Actors : b # a => work'[b] = work[b]
        /\ work'[a].pc = "apply" /\ work'[a].fresh = work[a].fresh
        /\ unseen' = unseen \ work[a].fresh /\ UNCHANGED <<disk, roots, files>>
        BY <1>11, CaptureWork
  <2>2. CASE a = "pass"
        BY <2>1, <2>2, FreshFollow DEF FollowInv, ScanInv, Actors
  <2>3. CASE a = "removal"
    <3>1. unseen' = unseen /\ work'["removal"].fresh = {} /\ work'["pass"] = work["pass"]
          BY <2>1, <2>3 DEF FollowInv, ScanInv, Actors
    <3>2. QED  BY <2>1, <2>3, <3>1, FollowFrame
  <2>4. QED  BY <2>2, <2>3 DEF Actors
<1>12. ASSUME NEW a \in Actors, ApplyScoped(a) PROVE FollowInv'
  <2>1. /\ \A b \in Actors : b # a => work'[b] = work[b]
        /\ work[a].pc = "apply" /\ work'[a].pc = "tell" /\ work'[a].fresh = work[a].fresh
        /\ UNCHANGED <<disk, roots, files, unseen>>
        BY <1>12, PcWork DEF ApplyScoped, At
  <2>2. /\ work'["removal"].fresh = {}
        /\ work'["removal"].pc # "idle" => work["removal"].pc # "idle"
        /\ work'["pass"].pc # "rows" \/ work'["pass"] = work["pass"]
        BY <2>1 DEF FollowInv, ScanInv, Actors
  <2>3. QED  BY <2>1, <2>2, FollowFrame
<1>13. ASSUME NEW a \in Actors, ApplyFlags(a) PROVE FollowInv'
  <2>1. /\ \A b \in Actors : b # a => work'[b] = work[b]
        /\ work'[a] = Idle /\ UNCHANGED <<disk, roots, files, unseen>>
        BY <1>13, EndsWork DEF ApplyFlags
  <2>2. /\ work'["removal"].fresh = {}
        /\ work'["removal"].pc # "idle" => work["removal"].pc # "idle"
        /\ work'["pass"].pc # "rows" \/ work'["pass"] = work["pass"]
        BY <2>1, IdleWork DEF FollowInv, ScanInv, Actors
  <2>3. QED  BY <2>1, <2>2, FollowFrame
<1>14. ASSUME NEW a \in Actors, TellScan(a) PROVE FollowInv'
  <2>1. /\ \A b \in Actors : b # a => work'[b] = work[b]
        /\ work'[a] = Idle /\ UNCHANGED <<disk, roots, files, unseen>>
        BY <1>14, EndsWork DEF TellScan
  <2>2. /\ work'["removal"].fresh = {}
        /\ work'["removal"].pc # "idle" => work["removal"].pc # "idle"
        /\ work'["pass"].pc # "rows" \/ work'["pass"] = work["pass"]
        BY <2>1, IdleWork DEF FollowInv, ScanInv, Actors
  <2>3. QED  BY <2>1, <2>2, FollowFrame
<1>15. ASSUME RemoveRows PROVE FollowInv'
  <2> DEFINE w == work["removal"]
           missing == {p \in w.scope : files[p] # None}
           u == work["pass"]
           n == work'["pass"]
  <2>1. /\ w.pc = "rows" /\ w.scope \subseteq Paths
        /\ SameWork(n, u) /\ n.pc = u.pc /\ n.todo = u.todo
        /\ n.roots = u.roots /\ n.fresh = u.fresh \ missing
        /\ work'["removal"] = Idle \/ work'["removal"].fresh = w.fresh
        /\ Rows("removal", MarkMissing(missing), {})
        /\ unseen' = (unseen \ (w.scope \ Inside(roots))) \cup (missing \cap Inside(roots))
        /\ UNCHANGED <<disk, roots>>
        BY <1>15, RemoveRowsWork
  <2>2. \A p \in Paths : files'[p] = IF p \in missing THEN None ELSE files[p]
        BY <2>1 DEF Rows, MarkMissing, Files
  <2>3. RowsFollowDisk'
    <3>1. SUFFICES ASSUME NEW p \in Paths \ unseen'
                   PROVE  files'[p] = IF p \in Inside(roots) THEN disk[p] ELSE None
          BY <2>1 DEF RowsFollowDisk
    <3>2. CASE p \in w.scope
      <4>1. files'[p] = None
            BY <2>2, <3>2
      <4>2. CASE p \in Inside(roots)
        <5>1. p \notin missing /\ p \notin unseen
              BY <2>1, <4>2
        <5>2. QED  BY <2>2, <4>2, <5>1 DEF FollowInv, RowsFollowDisk
      <4>3. QED  BY <4>1, <4>2
    <3>3. CASE p \notin w.scope
          BY <2>1, <2>2, <3>3 DEF FollowInv, RowsFollowDisk
    <3>4. QED  BY <3>2, <3>3
  <2>4. work'["removal"].fresh = {}
        BY <2>1, IdleWork DEF FollowInv, ScanInv
  <2>5. ASSUME u.pc = "rows" PROVE ScanOK'
    <3>1. ScanOK /\ u.scope \subseteq Inside(roots) /\ u.fresh \subseteq Paths
          BY <2>1, <2>5 DEF FollowInv, ScanInv, ScanOK, TypeInv, Works, Actors
    <3> HIDE DEF missing, w, u, n
    <3>2. \A p \in Inside(roots) : p \in unseen => p \in unseen'
          BY <2>1
    <3>3. \A p \in n.fresh : Handled(p)'
          BY <2>1, <2>2, <3>1 DEF ScanOK, Handled, SameWork, u, n
    <3>4. n.kind # "delta" => Enumerated'
          BY <2>1, <3>1, <3>2 DEF ScanOK, Enumerated, SameWork, u, n
    <3>5. QED  BY <2>1, <3>1, <3>3, <3>4 DEF ScanOK, SameWork, u, n
  <2>6. QED  BY <2>1, <2>3, <2>4, <2>5 DEF FollowInv, ScanInv
<1>16. ASSUME RemovalFails PROVE FollowInv'
  <2> DEFINE u == work["pass"]
           n == work'["pass"]
  <2>1. /\ work'["removal"] = Idle /\ SameWork(n, u) /\ n.pc = u.pc /\ n.todo = u.todo
        /\ n.roots = u.roots /\ n.fresh = u.fresh \ Rerooted(roots, roots')
        /\ unseen' = unseen \cup Rerooted(roots, roots') /\ UNCHANGED <<disk, files>>
        BY <1>16, RemovalFailsWork
  <2>2. \A p : p \in Rerooted(roots, roots') \/ (p \in Inside(roots) <=> p \in Inside(roots'))
        BY DEF Rerooted
  <2> HIDE DEF u, n
  <2>3. RowsFollowDisk'
        BY <2>1, <2>2 DEF FollowInv, RowsFollowDisk
  <2>4. ASSUME u.pc = "rows" PROVE ScanOK'
    <3>1. ScanOK
          BY <2>4 DEF FollowInv, ScanInv, u
    <3>2. \A p \in n.fresh : Handled(p)'
          BY <2>1, <3>1 DEF ScanOK, Handled, SameWork, u, n
    <3>3. n.kind # "delta" => Enumerated'
          BY <2>1, <3>1 DEF ScanOK, Enumerated, SameWork, u, n
    <3>4. QED  BY <2>1, <2>2, <3>1, <3>2, <3>3, IdleWork DEF ScanOK, SameWork, u, n
  <2>5. QED  BY <2>1, <2>3, <2>4, IdleWork DEF FollowInv, ScanInv, n
<1>17. ASSUME SessionRebuild PROVE FollowInv'
      BY <1>17, FollowFrame DEF SessionRebuild, FollowInv, ScanInv
<1>18. ASSUME SessionTells PROVE FollowInv'
      BY <1>18, FollowFrame DEF SessionTells, FollowInv, ScanInv
<1>19. ASSUME SessionFails PROVE FollowInv'
      BY <1>19, FollowFrame DEF SessionFails, FollowInv, ScanInv
<1>20. ASSUME NEW p \in Paths, NEW g \in Holds[p] \cup {None}, DiskChange(p, g) PROVE FollowInv'
  <2> DEFINE u == work["pass"]
           n == work'["pass"]
  <2>1. /\ \A q \in Paths \ {p} : disk'[q] = disk[q]
        /\ work'["removal"] = work["removal"] /\ SameWork(n, u) /\ n.pc = u.pc /\ n.todo = u.todo
        /\ n.roots = u.roots /\ n.fresh = u.fresh \ {p}
        /\ unseen' = unseen \cup {p} /\ UNCHANGED <<roots, files>>
        BY <1>20, DiskWork
  <2> HIDE DEF u, n
  <2>2. RowsFollowDisk'
        BY <2>1 DEF FollowInv, RowsFollowDisk
  <2>3. ASSUME u.pc = "rows" PROVE ScanOK'
    <3>1. ScanOK /\ u.scope \subseteq Paths /\ u.fresh \subseteq Paths
          BY <2>3 DEF FollowInv, ScanInv, TypeInv, Works, Actors, u
    <3>2. \A q \in n.fresh : Handled(q)'
          BY <2>1, <3>1 DEF ScanOK, Handled, SameWork, u, n
    <3>3. n.kind # "delta" => Enumerated'
          BY <2>1, <3>1 DEF ScanOK, Enumerated, SameWork, u, n
    <3>4. QED  BY <2>1, <3>1, <3>2, <3>3 DEF ScanOK, SameWork, u, n
  <2>4. QED  BY <2>1, <2>2, <2>3 DEF FollowInv, ScanInv, n
<1>21. ASSUME NEW new \in SUBSET Roots, SetScanRoots(new) PROVE FollowInv'
  <2>1. /\ work'["pass"] = Cancelled(work["pass"]) /\ roots' = new
        /\ work'["removal"] = Idle \/ work'["removal"].fresh = {}
        /\ unseen' = unseen \cup Rerooted(roots, new) /\ UNCHANGED <<disk, files>>
        BY <1>21, SetRootsWork
  <2>2. \A p : p \in Rerooted(roots, new) \/ (p \in Inside(roots) <=> p \in Inside(new))
        BY DEF Rerooted
  <2>3. RowsFollowDisk'
        BY <2>1, <2>2 DEF FollowInv, RowsFollowDisk
  <2>4. work["pass"] \in Works
        BY DEF TypeInv, Actors
  <2>5. work'["pass"].pc # "rows"
        BY <2>1, <2>4, CancelledWork, IdleWork
  <2>6. QED  BY <2>1, <2>3, <2>5, IdleWork DEF FollowInv, ScanInv
<1>22. ASSUME NEW f \in Remote, NEW g \in Holds[f] \cup {None}, RemoteOp(f, g) PROVE FollowInv'
  <2>1. PICK fs \in [Files -> Tags \cup {None}], gs \in SUBSET Tags :
          Rows("session", fs, gs) /\ \A p \in Paths : fs[p] = files[p]
        BY <1>22, RemoteRows
  <2>2. \A p \in Paths : files'[p] = files[p]
        BY <2>1 DEF Rows
  <2>3. UNCHANGED <<disk, roots, unseen, work>>
        BY <1>22 DEF RemoteOp
  <2>4. QED  BY <2>2, <2>3, FollowFrame DEF FollowInv, ScanInv
<1>23. ASSUME NEW new \in [Remote -> Tags \cup {None}], InstallCheckpoint(new) PROVE FollowInv'
  <2>1. \A p \in Paths : files'[p] = files[p]
        BY <1>23, CatalogAssumption DEF InstallCheckpoint, Files
  <2>2. UNCHANGED <<disk, roots, unseen, work>>
        BY <1>23 DEF InstallCheckpoint
  <2>3. QED  BY <2>1, <2>2, FollowFrame DEF FollowInv, ScanInv
<1>24. ASSUME NEW d \in Devices, NEW v \in Preferred, SetPreferred(d, v) PROVE FollowInv'
      BY <1>24, FollowFrame DEF SetPreferred, FollowInv, ScanInv
<1>25. ASSUME NEW p \in Variants \cup {ClusterOf[a] : a \in Variants}, PinAlbum(p) PROVE FollowInv'
      BY <1>25, FollowFrame DEF PinAlbum, FollowInv, ScanInv
<1>26. ASSUME Restart PROVE FollowInv'
  <2>1. /\ work'["pass"] = Idle /\ work'["removal"] = Idle
        /\ UNCHANGED <<disk, roots, files, unseen>>
        BY <1>26 DEF Restart, Actors
  <2>2. QED  BY <2>1, IdleWork DEF FollowInv, ScanInv, RowsFollowDisk
<1>27. ASSUME UNCHANGED vars PROVE FollowInv'
      BY <1>27, FollowFrame DEF vars, FollowInv, ScanInv
<1>28. QED  BY <1>1, <1>2, <1>3, <1>4, <1>5, <1>6, <1>7, <1>8, <1>9, <1>10, <1>11, <1>12, <1>13,
               <1>14, <1>15, <1>16, <1>17, <1>18, <1>19, <1>20, <1>21, <1>22, <1>23, <1>24, <1>25,
               <1>26, <1>27
      DEF Next, PassStep, UpdateStep, Outside

-----------------------------------------------------------------------------
\* What came or went is told.

\* Work under way will tell of a content: it began with it or reads it when it captures the
\* impact again, or its impact has it.
Pending(a, g) ==
    /\ g \in touched[a]
    /\ \/ work[a].pc = "rows" /\ (g \in work[a].began \/ g \in RowsOf(work[a].scope))
       \/ /\ work[a].pc = "apply"
          /\ TrackOf[g] \in work[a].impact.tracks /\ AlbumOf[g] \in work[a].impact.albums

Owes(g) ==
    \/ g \in lapsed \cup flagged \cup touched["session"]
    \/ \E a \in Actors : Pending(a, g)

Tells(a, e) == work[a].pc = "tell" /\ e \in Told(work[a].impact)

Promised(e) ==
    \/ \E g \in Tags : Owes(g) /\ (e = TrackOf[g] \/ e = AlbumOf[g])
    \/ \E a \in Actors : Tells(a, e)

TellsAll == session = "tellall" \/ work["pass"].pc = "tellall"

Announced == TellsAll \/ \A e \in untold : Promised(e)

LEMMA PendingSame ==
    ASSUME files' = files, NEW a \in Actors, SameWork(work'[a], work[a]),
           work'[a].pc = work[a].pc, work'[a].impact = work[a].impact,
           NEW g, Pending(a, g), g \in touched'[a]
    PROVE  Pending(a, g)'
BY DEF Pending, SameWork, RowsOf

\* Steps that change neither rows nor tables.
LEMMA AnnouncedKept ==
    ASSUME Announced, untold' \subseteq untold, TellsAll => TellsAll',
           lapsed \cup flagged \subseteq lapsed' \cup flagged',
           touched["session"] \subseteq touched'["session"] \cup lapsed',
           \A a \in Actors : \A g \in Tags :
              Pending(a, g) => Pending(a, g)' \/ g \in lapsed' \cup flagged',
           \A a \in Actors : \A e \in untold' : Tells(a, e) => Tells(a, e)'
    PROVE  Announced'
<1>1. ASSUME NEW e \in untold', Promised(e) PROVE Promised(e)'
  <2>1. CASE \E g \in Tags : Owes(g) /\ (e = TrackOf[g] \/ e = AlbumOf[g])
    <3>1. PICK g \in Tags : Owes(g) /\ (e = TrackOf[g] \/ e = AlbumOf[g])
          BY <2>1
    <3>2. Owes(g)'
          BY <3>1 DEF Owes
    <3>3. QED  BY <3>1, <3>2 DEF Promised
  <2>2. CASE \E a \in Actors : Tells(a, e)
        BY <2>2 DEF Promised
  <2>3. QED  BY <1>1, <2>1, <2>2 DEF Promised
<1>2. QED  BY <1>1 DEF Announced

\* The works that go on pend as they did; those that do not have touched nothing.
LEMMA AnnouncedFrame ==
    ASSUME TypeInv, Announced, files' = files, untold' = untold, session' = session,
           lapsed \cup flagged \subseteq lapsed' \cup flagged',
           touched["session"] \subseteq touched'["session"] \cup lapsed',
           \A a \in Actors :
             \/ /\ SameWork(work'[a], work[a]) /\ work'[a].pc = work[a].pc
                /\ work'[a].impact = work[a].impact /\ touched'[a] = touched[a]
             \/ /\ touched[a] \subseteq lapsed' \cup flagged'
                /\ work[a].pc \notin {"tell", "tellall"}
    PROVE  Announced'
<1>1. TellsAll => TellsAll'
      BY DEF TellsAll, Actors
<1>2. \A a \in Actors : \A g \in Tags :
         Pending(a, g) => Pending(a, g)' \/ g \in lapsed' \cup flagged'
  <2>1. SUFFICES ASSUME NEW a \in Actors, NEW g \in Tags, Pending(a, g), g \notin lapsed' \cup flagged'
                 PROVE  Pending(a, g)'
        OBVIOUS
  <2>2. g \in touched[a]
        BY <2>1 DEF Pending
  <2>3. QED  BY <2>1, <2>2, PendingSame
<1>3. \A a \in Actors : \A e \in untold' : Tells(a, e) => Tells(a, e)'
      BY DEF Tells
<1>4. QED  BY <1>1, <1>2, <1>3, AnnouncedKept

\* One is done telling.
LEMMA AnnouncedToldBy ==
    ASSUME TypeInv, Announced, CoverInv, files' = files, session' = session, owed' = owed,
           NEW a \in Actors, work[a].pc = "tell", untold' = untold \ Told(work[a].impact),
           \A b \in Actors : b # a =>
             /\ SameWork(work'[b], work[b]) /\ work'[b].pc = work[b].pc
             /\ work'[b].impact = work[b].impact
    PROVE  Announced'
<1>1. touched' = touched /\ lapsed' = lapsed /\ flagged' = flagged
      BY DEF owed
<1>2. TellsAll => TellsAll'
      BY DEF TellsAll, Actors
<1>3. \A b \in Actors : \A g \in Tags : Pending(b, g) => Pending(b, g)'
  <2>1. SUFFICES ASSUME NEW b \in Actors, NEW g \in Tags, Pending(b, g) PROVE Pending(b, g)'
        OBVIOUS
  <2>2. b # a /\ g \in touched[b]
        BY <2>1 DEF Pending
  <2>3. QED  BY <1>1, <2>1, <2>2, PendingSame
<1>4. \A b \in Actors : \A e \in untold' : Tells(b, e) => Tells(b, e)'
      BY DEF Tells
<1>5. QED  BY <1>1, <1>2, <1>3, <1>4, AnnouncedKept

\* Rows change: a content that loses its row was there when the work began, or lapses; what is put
\* into the catalog has its row in the scope.
LEMMA RowsAnnounced ==
    ASSUME TypeInv, Announced, NEW a \in Workers, NEW fs \in [Files -> Tags \cup {None}],
           NEW gs \in SUBSET Tags, Rows(a, fs, gs), TellsAll => TellsAll',
           \A b \in Actors :
             \/ /\ SameWork(work'[b], work[b]) /\ work'[b].pc = work[b].pc
                /\ work'[b].impact = work[b].impact
             \/ touched'[b] = {} /\ work[b].pc = "rows",
           \A b \in Actors : work[b].scope \subseteq Paths,
           a = "session" => \A p \in Paths : fs[p] = files[p],
           a # "session" => work[a].pc = "rows" /\ \A g \in gs : \E p \in work[a].scope : fs[p] = g
    PROVE  Announced'
<1>1. /\ files' = fs /\ flagged' = flagged /\ lapsed \subseteq lapsed'
      /\ \A b \in Workers : touched[b] \subseteq touched'[b]
      /\ gs \subseteq touched'[a]
      /\ \A f \in Moved(fs) : files[f] # None => files[f] \in touched'[a]
      /\ a # "session" => \A f \in Moved(fs) :
           files[f] # None => files[f] \in work[a].began \cup lapsed'
  <2>1. /\ files' = fs /\ flagged' = flagged /\ lapsed \subseteq lapsed'
        /\ a # "session" => \A f \in Moved(fs) :
             files[f] # None => files[f] \in work[a].began \cup lapsed'
        BY RowsFacts
  <2>2. /\ \A b \in Workers : b # a => touched'[b] = touched[b]
        /\ touched'[a] = touched[a] \cup ((gs \cup {files[f] : f \in Moved(fs)}
                                            \cup {fs[f] : f \in Moved(fs)}) \ {None})
        BY RowsFacts
  <2>3. None \notin gs
        BY CatalogAssumption
  <2>4. QED  BY <2>1, <2>2, <2>3
<1>2. catalog' = With(catalog, Derive(gs)) /\ untold' = untold \cup (Shown(catalog') \ Shown(catalog))
      BY RowsFacts
<1>3. \A f \in Files : f \in Moved(fs) \/ fs[f] = files[f]
      BY DEF Moved
<1>4. Actors \subseteq Workers /\ (a # "session" => a \in Actors) /\ Paths \subseteq Files
      BY DEF Workers, Files
<1>5. ASSUME NEW b \in Actors, NEW g \in Tags, Pending(b, g) PROVE Owes(g)'
  <2>1. g \in touched[b] /\ g \in touched'[b]
        BY <1>1, <1>4, <1>5 DEF Pending
  <2>2. SameWork(work'[b], work[b]) /\ work'[b].pc = work[b].pc /\ work'[b].impact = work[b].impact
        BY <2>1
  <2>3. CASE work[b].pc # "rows"
    <3>1. Pending(b, g)'
          BY <1>5, <2>1, <2>2, <2>3 DEF Pending
    <3>2. QED  BY <3>1 DEF Owes
  <2>4. CASE work[b].pc = "rows" /\ g \in work[b].began
    <3>1. Pending(b, g)'
          BY <2>1, <2>2, <2>4 DEF Pending, SameWork
    <3>2. QED  BY <3>1 DEF Owes
  <2>5. CASE work[b].pc = "rows" /\ g \in RowsOf(work[b].scope)
    <3>1. PICK p \in work[b].scope : files[p] = g /\ g # None
          BY <2>5 DEF RowsOf
    <3>2. p \in Paths /\ p \in Files
          BY <1>4
    <3>3. CASE fs[p] = files[p]
      <4>1. work'[b].scope = work[b].scope
            BY <2>2 DEF SameWork
      <4>2. g \in RowsOf(work[b].scope)'
            BY <1>1, <3>1, <3>3, <4>1 DEF RowsOf
      <4>3. Pending(b, g)'
            BY <2>1, <2>2, <2>5, <4>2 DEF Pending
      <4>4. QED  BY <4>3 DEF Owes
    <3>4. CASE p \in Moved(fs)
      <4>1. a # "session" /\ a \in Actors
            BY <1>4, <3>2, <3>4 DEF Moved
      <4>2. g \in touched'[a] /\ g \in work[a].began \cup lapsed'
            BY <1>1, <3>1, <3>4, <4>1
      <4>3. CASE g \in lapsed'
            BY <4>3 DEF Owes
      <4>4. CASE g \in work[a].began
        <5>1. SameWork(work'[a], work[a]) /\ work'[a].pc = work[a].pc
              BY <4>1, <4>2
        <5>2. Pending(a, g)'
              BY <4>1, <4>2, <4>4, <5>1 DEF Pending, SameWork
        <5>3. QED  BY <4>1, <5>2 DEF Owes
      <4>5. QED  BY <4>2, <4>3, <4>4
    <3>5. QED  BY <1>3, <3>2, <3>3, <3>4
  <2>6. QED  BY <1>5, <2>3, <2>4, <2>5 DEF Pending
<1>6. ASSUME NEW g \in Tags, Owes(g) PROVE Owes(g)'
  <2>1. CASE g \in lapsed \cup flagged \cup touched["session"]
        BY <1>1, <2>1 DEF Owes, Workers
  <2>2. QED  BY <1>5, <1>6, <2>1 DEF Owes
<1>7. ASSUME NEW g \in gs PROVE Owes(g)'
  <2>1. g \in touched'[a]
        BY <1>1
  <2>2. CASE a = "session"
        BY <2>1, <2>2 DEF Owes
  <2>3. CASE a # "session"
    <3>1. a \in Actors /\ work[a].pc = "rows"
          BY <1>4, <2>3
    <3>2. SameWork(work'[a], work[a]) /\ work'[a].pc = "rows"
          BY <2>1, <3>1
    <3>3. PICK p \in work[a].scope : fs[p] = g
          BY <2>3
    <3>4. p \in work'[a].scope /\ g # None
          BY <3>2, CatalogAssumption DEF SameWork
    <3>5. g \in RowsOf(work[a].scope)'
          BY <1>1, <3>3, <3>4 DEF RowsOf
    <3>6. Pending(a, g)'
          BY <2>1, <3>2, <3>5 DEF Pending
    <3>7. QED  BY <3>1, <3>6 DEF Owes
  <2>4. QED  BY <2>2, <2>3
<1>8. ASSUME NEW e \in untold, Promised(e) PROVE Promised(e)'
  <2>1. CASE \E g \in Tags : Owes(g) /\ (e = TrackOf[g] \/ e = AlbumOf[g])
        BY <1>6, <2>1 DEF Promised
  <2>2. CASE \E b \in Actors : Tells(b, e)
    <3>1. PICK b \in Actors : Tells(b, e)
          BY <2>2
    <3>2. Tells(b, e)'
          BY <3>1 DEF Tells
    <3>3. QED  BY <3>2 DEF Promised
  <2>3. QED  BY <1>8, <2>1, <2>2 DEF Promised
<1>9. ASSUME NEW e \in Shown(catalog') \ Shown(catalog) PROVE Promised(e)'
  <2>1. /\ catalog'.tracks = catalog.tracks \cup {TrackOf[g] : g \in gs}
        /\ catalog'.albums = catalog.albums \cup {AlbumOf[g] : g \in gs}
        BY <1>2, WithTables DEF TypeInv
  <2>2. PICK g \in gs : e = TrackOf[g] \/ e = AlbumOf[g]
        BY <2>1 DEF Shown
  <2>3. QED  BY <1>7, <2>2 DEF Promised
<1>10. QED  BY <1>2, <1>8, <1>9 DEF Announced

LEMMA AnnouncedStep ==
    ASSUME TypeInv, PresentShown, CoverInv, Explained, FollowInv, Announced, [Next]_vars
    PROVE  Announced'
<1>1. ASSUME IngestNext PROVE Announced'
  <2> DEFINE p == First(work["pass"].todo)
  <2>1. /\ p \in Paths /\ p \in work["pass"].todo /\ work["pass"].pc = "rows"
        /\ session' = session
        /\ \A b \in Actors : /\ SameWork(work'[b], work[b]) /\ work'[b].pc = work[b].pc
                             /\ work'[b].impact = work[b].impact
        /\ \/ UNCHANGED <<files, catalog, untold, owed>>
           \/ Rows("pass", Ingested(p), {disk[p]} \ {None})
        BY <1>1, IngestWork DEF Actors, SameWork
  <2>2. p \in work["pass"].scope
        BY <2>1 DEF FollowInv, ScanInv, ScanOK
  <2>3. \A b \in Actors : work[b].scope \subseteq Paths
        BY DEF TypeInv, Works
  <2> HIDE DEF p
  <2>4. CASE UNCHANGED <<files, catalog, untold, owed>>
        BY <2>1, <2>4, AnnouncedFrame DEF owed
  <2>5. CASE Rows("pass", Ingested(p), {disk[p]} \ {None})
    <3> DEFINE fs == Ingested(p)
             gs == {disk[p]} \ {None}
    <3>1. fs \in [Files -> Tags \cup {None}] /\ gs \in SUBSET Tags /\ \A g \in gs : fs[p] = g
          BY <2>1 DEF Ingested, TypeInv, Files
    <3>2. TellsAll => TellsAll'
          BY <2>1 DEF TellsAll, Actors
    <3> HIDE DEF fs, gs
    <3>3. Rows("pass", fs, gs)
          BY <2>5 DEF fs, gs
    <3>4. \A g \in gs : \E q \in work["pass"].scope : fs[q] = g
          BY <2>2, <3>1
    <3>5. QED  BY <2>1, <2>3, <3>1, <3>2, <3>3, <3>4, RowsAnnounced DEF Workers, Actors
  <2>6. QED  BY <2>1, <2>4, <2>5
<1>2. ASSUME ReconcilePresence PROVE Announced'
  <2>1. /\ \A b \in Actors : /\ SameWork(work'[b], work[b]) /\ work'[b].pc = work[b].pc
                             /\ work'[b].impact = work[b].impact
        /\ \E missing : Rows("pass", MarkMissing(missing), {})
        /\ session' = session /\ work["pass"].pc = "rows"
        BY <1>2, PresenceWork DEF Actors, SameWork
  <2>2. PICK missing : Rows("pass", MarkMissing(missing), {})
        BY <2>1
  <2>3. \A b \in Actors : work[b].scope \subseteq Paths
        BY DEF TypeInv, Works
  <2> DEFINE fs == MarkMissing(missing)
  <2>4. fs \in [Files -> Tags \cup {None}] /\ {} \in SUBSET Tags
        BY MissingPresent
  <2>5. TellsAll => TellsAll'
        BY <2>1 DEF TellsAll, Actors
  <2> HIDE DEF fs
  <2>6. Rows("pass", fs, {})
        BY <2>2 DEF fs
  <2>7. QED  BY <2>1, <2>3, <2>4, <2>5, <2>6, RowsAnnounced DEF Workers, Actors
<1>3. ASSUME PassUnchanged PROVE Announced'
  <2>1. /\ work["pass"].pc = "rows" /\ ~work["pass"].mutated
        /\ work'["removal"] = work["removal"] /\ UNCHANGED <<files, session, untold, owed>>
        BY <1>3, EndsWork DEF PassUnchanged, RowsDone, At, Actors
  <2>2. touched["pass"] = {}
        BY <2>1 DEF CoverInv, QuietWork, Actors
  <2>3. QED  BY <2>1, <2>2, AnnouncedFrame DEF owed, Actors, SameWork
<1>4. ASSUME RepairRebuild PROVE Announced'
  <2>1. work'["pass"].pc = "tellall"
        BY <1>4, PcWork DEF RepairRebuild, Actors
  <2>2. QED  BY <2>1 DEF Announced, TellsAll
<1>5. ASSUME RepairTells PROVE Announced'
      BY <1>5 DEF RepairTells, Announced
<1>6. ASSUME RepairClears PROVE Announced'
  <2>1. /\ work["pass"].pc = "clear" /\ work'["removal"] = work["removal"]
        /\ lapsed' = lapsed \cup flagged /\ UNCHANGED <<files, session, untold, touched>>
        BY <1>6, EndsWork DEF RepairClears, Actors, At
  <2>2. touched["pass"] = {}
        BY <2>1 DEF CoverInv, QuietWork, Actors
  <2>3. QED  BY <2>1, <2>2, AnnouncedFrame DEF Actors, SameWork
<1>7. ASSUME RepairSkips PROVE Announced'
  <2>1. /\ UNCHANGED <<files, untold, session, owed>>
        /\ \A b \in Actors : /\ SameWork(work'[b], work[b]) /\ work'[b].pc = work[b].pc
                             /\ work'[b].impact = work[b].impact
        BY <1>7, SkipWork DEF Actors, SameWork
  <2>2. QED  BY <2>1, AnnouncedFrame DEF owed
<1>8. ASSUME PassFails PROVE Announced'
  <2>1. /\ work["pass"].pc = "rows" /\ work'["removal"] = work["removal"]
        /\ touched["pass"] \subseteq lapsed' /\ lapsed \subseteq lapsed'
        /\ touched'["removal"] = touched["removal"] /\ touched'["session"] = touched["session"]
        /\ UNCHANGED <<files, session, untold, flagged>>
        BY <1>8, EndsWork, LapseType DEF PassFails, Actors, Workers, At
  <2>2. QED  BY <2>1, AnnouncedFrame DEF Actors, SameWork
<1>9. ASSUME NEW k \in {"full", "repair"}, BeginFull(k) PROVE Announced'
  <2>1. /\ work["pass"].pc = "idle" /\ work'["removal"] = work["removal"]
        /\ UNCHANGED <<files, session, untold, owed>>
        BY <1>9, BeginFullWork
  <2>2. touched["pass"] = {}
        BY <2>1 DEF CoverInv, QuietWork, Actors
  <2>3. QED  BY <2>1, <2>2, AnnouncedFrame DEF owed, Actors, SameWork
<1>10. ASSUME NEW ps \in SUBSET Paths, NEW rs \in SUBSET Roots, BeginDelta(ps, rs) PROVE Announced'
  <2>1. /\ work["pass"].pc = "idle" /\ work'["removal"] = work["removal"]
        /\ UNCHANGED <<files, session, untold, owed>>
        BY <1>10, BeginDeltaWork
  <2>2. touched["pass"] = {}
        BY <2>1 DEF CoverInv, QuietWork, Actors
  <2>3. QED  BY <2>1, <2>2, AnnouncedFrame DEF owed, Actors, SameWork
<1>11. ASSUME NEW a \in Actors, CaptureAfter(a) PROVE Announced'
  <2> DEFINE w == work[a]
           i == w.impact
           j == Impact(w.scope)
  <2>1. /\ w.pc = "rows" /\ w.kind # "repair" /\ \A b \in Actors : b # a => work'[b] = work[b]
        /\ work'[a].pc = "apply" /\ work'[a].impact = Merged(i, j)
        /\ i \in Impacts /\ j \in Impacts /\ w.scope \subseteq Paths
        /\ UNCHANGED <<files, session, untold, owed>>
        BY <1>11, CaptureWork
  <2>2. Merged(i, j).tracks = i.tracks \cup j.tracks /\ Merged(i, j).albums = i.albums \cup j.albums
        BY <2>1, MergedImpact
  <2>3. ASSUME NEW g, Pending(a, g)
        PROVE  TrackOf[g] \in i.tracks \cup j.tracks /\ AlbumOf[g] \in i.albums \cup j.albums
    <3>1. g \in w.began \/ g \in RowsOf(w.scope)
          BY <2>1, <2>3 DEF Pending
    <3>2. CASE g \in w.began
          BY <2>1, <3>2 DEF CoverInv, Covered
    <3>3. CASE g \in RowsOf(w.scope)
          BY <2>1, <3>3, ImpactCovers DEF TypeInv, PresentShown
    <3>4. QED  BY <3>1, <3>2, <3>3
  <2> HIDE DEF w, i, j
  <2>4. \A b \in Actors : \A g \in Tags : Pending(b, g) => Pending(b, g)'
    <3>1. SUFFICES ASSUME NEW b \in Actors, NEW g \in Tags, Pending(b, g) PROVE Pending(b, g)'
          OBVIOUS
    <3>2. g \in touched'[b]
          BY <2>1, <3>1 DEF Pending, owed
    <3>3. CASE b = a
          BY <2>1, <2>2, <2>3, <3>1, <3>2, <3>3 DEF Pending
    <3>4. CASE b # a
          BY <2>1, <3>1, <3>2, <3>4, PendingSame DEF SameWork
    <3>5. QED  BY <3>3, <3>4
  <2>5. \A b \in Actors : \A e \in untold' : Tells(b, e) => Tells(b, e)'
        BY <2>1 DEF Tells, w
  <2>6. TellsAll => TellsAll'
        BY <2>1 DEF TellsAll, Actors, w
  <2>7. QED  BY <2>1, <2>4, <2>5, <2>6, AnnouncedKept DEF owed
<1>12. ASSUME NEW a \in Actors, ApplyScoped(a) PROVE Announced'
  <2> DEFINE i == work[a].impact
           n == Scoped(catalog, i)
           lost == Shown(catalog) \ Shown(n)
           more == Shown(n) \ Shown(catalog)
  <2>1. i \in Impacts
        BY DEF TypeInv, Works
  <2>2. /\ \A b \in Actors : b # a => work'[b] = work[b]
        /\ work[a].pc = "apply" /\ work'[a].pc = "tell" /\ work'[a].impact = i
        /\ untold' = untold \cup lost \cup more
        /\ touched' = [touched EXCEPT ![a] = {}]
        /\ UNCHANGED <<files, session, lapsed, flagged>>
        BY <1>12, PcWork DEF ApplyScoped, Rebuild, At
  <2>3. \A b \in Workers \ {a} : touched'[b] = touched[b]
        BY <2>2 DEF TypeInv, Workers
  <2>4. \A e \in i.tracks \cup i.albums : Promised(e)'
        BY <2>2 DEF Promised, Tells, Told
  <2>5. \A g \in PresentIn(files) : Shows(catalog, g) /\ Shows(n, g)
    <3>1. \A g \in PresentIn(files) : Shows(catalog, g)
          BY FitsShows DEF PresentShown
    <3>2. QED  BY <2>1, <3>1, ScopedShows DEF TypeInv
  <2>6. more = {}
    <3>1. /\ n.tracks \subseteq catalog.tracks \cup {TrackOf[g] : g \in ReconciledRows(catalog, i)}
          /\ n.albums \subseteq catalog.albums \cup {AlbumOf[g] : g \in ReconciledRows(catalog, i)}
          /\ ReconciledRows(catalog, i) \subseteq PresentIn(files)
          BY <2>1, ScopedTables DEF TypeInv
    <3>2. \A g \in PresentIn(files) : TrackOf[g] \in catalog.tracks /\ AlbumOf[g] \in catalog.albums
          BY <2>5 DEF Shows
    <3> HIDE DEF n, i
    <3>3. n.tracks \subseteq catalog.tracks /\ n.albums \subseteq catalog.albums
          BY <3>1, <3>2
    <3>4. QED  BY <3>3 DEF Shown
  <2>7. ExplainedBy(catalog, Reasons)
        BY FitsExplained DEF Explained, TypeInv
  <2>8. Covered(work[a]) /\ work[a].kind # "repair"
        BY <2>2 DEF CoverInv
  <2>9. ASSUME NEW g \in Tags, Owes(g), NEW e, e = TrackOf[g] \/ e = AlbumOf[g] PROVE Promised(e)'
    <3>1. CASE g \in lapsed \cup flagged \cup touched["session"]
      <4>1. g \in lapsed' \cup flagged' \cup touched'["session"]
            BY <2>2, <2>3, <3>1 DEF Workers, Actors
      <4>2. QED  BY <2>9, <4>1 DEF Promised, Owes
    <3>2. CASE Pending(a, g)
      <4>1. e \in i.tracks \cup i.albums
            BY <2>2, <2>9, <3>2 DEF Pending
      <4>2. QED  BY <2>4, <4>1
    <3>3. ASSUME NEW b \in Actors \ {a}, Pending(b, g) PROVE Promised(e)'
      <4>1. work'[b] = work[b] /\ touched'[b] = touched[b]
            BY <2>2, <2>3 DEF Workers
      <4>2. Pending(b, g)'
            BY <2>2, <3>3, <4>1, PendingSame DEF SameWork, Pending
      <4>3. QED  BY <2>9, <4>2 DEF Promised, Owes
    <3>4. QED  BY <2>9, <3>1, <3>2, <3>3 DEF Owes
  <2>10. ASSUME NEW e \in lost PROVE Promised(e)'
    <3>1. PICK g \in Reasons : e = TrackOf[g] \/ e = AlbumOf[g]
          BY <2>7 DEF ExplainedBy, Shown
    <3>2. g \notin PresentIn(files)
          BY <2>5, <3>1 DEF Shown, Shows
    <3>3. CASE g \in lapsed \cup flagged \cup touched["session"]
      <4>1. g \in Tags
            BY <3>3 DEF TypeInv, Workers
      <4>2. QED  BY <2>9, <3>1, <3>3, <4>1 DEF Owes
    <3>4. CASE g \in touched[a] \cap work[a].began
      <4>1. e \in i.tracks \cup i.albums
            BY <2>2, <2>8, <3>1, <3>4 DEF Covered
      <4>2. QED  BY <2>4, <4>1
    <3>5. ASSUME NEW b \in Actors, g \in touched[b] \cap work[b].began PROVE Promised(e)'
      <4>1. Covered(work[b]) /\ QuietWork(work[b], touched[b])
            /\ (work[b].pc = "apply" => work[b].kind # "repair") /\ g \in Tags
            BY <3>5 DEF CoverInv, TypeInv, Workers
      <4>2. Pending(b, g)
            BY <3>5, <4>1 DEF Pending, Covered, QuietWork
      <4>3. QED  BY <2>9, <3>1, <4>1, <4>2 DEF Owes
    <3>6. QED  BY <3>1, <3>2, <3>3, <3>5 DEF Reasons
  <2> HIDE DEF i, n, lost, more
  <2>11. ASSUME NEW e \in untold, Promised(e) PROVE Promised(e)'
    <3>1. ASSUME NEW b \in Actors, Tells(b, e) PROVE Promised(e)'
      <4>1. b # a
            BY <2>2, <3>1 DEF Tells
      <4>2. QED  BY <2>2, <3>1, <4>1 DEF Tells, Promised
    <3>2. QED  BY <2>9, <2>11, <3>1 DEF Promised
  <2>12. TellsAll => TellsAll'
        BY <2>2 DEF TellsAll, Actors
  <2>13. QED  BY <2>2, <2>6, <2>10, <2>11, <2>12 DEF Announced
<1>13. ASSUME NEW a \in Actors, ApplyFlags(a) PROVE Announced'
  <2>1. /\ \A b \in Actors : b # a => work'[b] = work[b]
        /\ work[a].pc = "apply"
        /\ flagged' = flagged \cup touched[a] /\ touched' = [touched EXCEPT ![a] = {}]
        /\ UNCHANGED <<files, session, untold, lapsed>>
        BY <1>13, EndsWork DEF ApplyFlags, Flagged, At
  <2>2. /\ touched'["session"] = touched["session"]
        /\ \A b \in Actors : b # a => touched'[b] = touched[b]
        BY <2>1 DEF TypeInv, Workers, Actors
  <2>3. QED  BY <2>1, <2>2, AnnouncedFrame DEF SameWork
<1>14. ASSUME NEW a \in Actors, TellScan(a) PROVE Announced'
  <2>1. /\ \A b \in Actors : b # a => work'[b] = work[b]
        /\ work[a].pc = "tell" /\ untold' = untold \ Told(work[a].impact)
        /\ UNCHANGED <<files, session, owed>>
        BY <1>14, EndsWork DEF TellScan, At
  <2>2. QED  BY <2>1, AnnouncedToldBy DEF SameWork
<1>15. ASSUME RemoveRows PROVE Announced'
  <2>1. PICK missing :
           /\ work["removal"].pc = "rows" /\ work["removal"].roots # {}
           /\ SameWork(work'["pass"], work["pass"]) /\ work'["pass"].pc = work["pass"].pc
           /\ work'["pass"].impact = work["pass"].impact
           /\ \/ missing = {}
              \/ /\ SameWork(work'["removal"], work["removal"])
                 /\ work'["removal"].pc = work["removal"].pc
                 /\ work'["removal"].impact = work["removal"].impact
           /\ Rows("removal", MarkMissing(missing), {}) /\ session' = session
        BY <1>15, RemoveRowsWork
  <2>2. touched["removal"] = {}
        BY <2>1 DEF CoverInv, QuietWork, Actors
  <2>3. missing = {} => touched'["removal"] = {}
        BY <2>1, <2>2, MissingTouched DEF Workers, Actors
  <2>4. \A b \in Actors : work[b].scope \subseteq Paths
        BY DEF TypeInv, Works
  <2> DEFINE fs == MarkMissing(missing)
  <2>5. fs \in [Files -> Tags \cup {None}] /\ {} \in SUBSET Tags
        BY MissingPresent
  <2>6. TellsAll => TellsAll'
        BY <2>1 DEF TellsAll
  <2> HIDE DEF fs
  <2>7. Rows("removal", fs, {})
        BY <2>1 DEF fs
  <2>8. \A b \in Actors :
          \/ /\ SameWork(work'[b], work[b]) /\ work'[b].pc = work[b].pc
             /\ work'[b].impact = work[b].impact
          \/ touched'[b] = {} /\ work[b].pc = "rows"
        BY <2>1, <2>3 DEF Actors
  <2>9. QED  BY <2>1, <2>4, <2>5, <2>6, <2>7, <2>8, RowsAnnounced DEF Workers, Actors
<1>16. ASSUME RemovalFails PROVE Announced'
  <2>1. /\ \/ work["removal"].pc = "rows" /\ work["removal"].roots # {} /\ untold' = untold
           \/ work["removal"].pc = "tell" /\ untold' = untold \ Told(work["removal"].impact)
        /\ SameWork(work'["pass"], work["pass"]) /\ work'["pass"].pc = work["pass"].pc
        /\ work'["pass"].impact = work["pass"].impact
        /\ UNCHANGED <<files, session, owed>>
        BY <1>16, RemovalFailsWork
  <2>2. CASE work["removal"].pc = "tell"
        BY <2>1, <2>2, AnnouncedToldBy DEF Actors
  <2>3. CASE work["removal"].pc = "rows"
    <3>1. touched["removal"] = {}
          BY <2>1, <2>3 DEF CoverInv, QuietWork, Actors
    <3>2. QED  BY <2>1, <2>3, <3>1, AnnouncedFrame DEF owed, Actors
  <2>4. QED  BY <2>1, <2>2, <2>3
<1>17. ASSUME SessionRebuild PROVE Announced'
      BY <1>17 DEF SessionRebuild, Announced, TellsAll
<1>18. ASSUME SessionTells PROVE Announced'
      BY <1>18 DEF SessionTells, Announced
<1>19. ASSUME SessionFails PROVE Announced'
  <2>1. /\ UNCHANGED <<files, untold, flagged, work>> /\ session = "ops"
        /\ touched["session"] \subseteq lapsed' /\ lapsed \subseteq lapsed'
        /\ \A b \in Actors : touched'[b] = touched[b]
        BY <1>19, LapseType DEF SessionFails, Actors, Workers
  <2>2. TellsAll => TellsAll'
        BY <2>1 DEF TellsAll
  <2>3. \A b \in Actors : \A g \in Tags : Pending(b, g) => Pending(b, g)'
        BY <2>1, PendingSame DEF SameWork, Pending
  <2>4. QED  BY <2>1, <2>2, <2>3, AnnouncedKept DEF Tells
<1>20. ASSUME NEW p \in Paths, NEW g \in Holds[p] \cup {None}, DiskChange(p, g) PROVE Announced'
  <2>1. /\ UNCHANGED <<files, untold, session, owed>>
        /\ \A b \in Actors : /\ SameWork(work'[b], work[b]) /\ work'[b].pc = work[b].pc
                             /\ work'[b].impact = work[b].impact
        BY <1>20, DiskWork DEF Actors, SameWork
  <2>2. QED  BY <2>1, AnnouncedFrame DEF owed
<1>21. ASSUME NEW new \in SUBSET Roots, SetScanRoots(new) PROVE Announced'
  <2>1. /\ work["removal"].pc = "idle" /\ work'["pass"] = Cancelled(work["pass"])
        /\ Lapse({"pass"}) /\ UNCHANGED <<files, session, untold, flagged>>
        BY <1>21, SetRootsWork
  <2>2. /\ touched["pass"] \subseteq lapsed' /\ lapsed \subseteq lapsed'
        /\ touched'["session"] = touched["session"]
        BY <2>1, LapseType DEF Actors, Workers
  <2>3. touched["removal"] = {}
        BY <2>1 DEF CoverInv, QuietWork, Actors
  <2>4. work["pass"] \in Works
        BY DEF TypeInv, Actors
  <2>5. CASE work["pass"].pc = "tellall"
    <3>1. /\ work'["pass"].pc = "tell"
          /\ work'["pass"].impact.tracks = Tracks /\ work'["pass"].impact.albums = Variants
          BY <2>1, <2>4, <2>5, CancelledWork, IdleWork
    <3>2. \A e \in untold : Tells("pass", e)'
          BY <2>1, <3>1 DEF Tells, Told, TypeInv
    <3>3. QED  BY <2>1, <3>2 DEF Announced, Promised, Actors
  <2>6. CASE work["pass"].pc # "tellall"
    <3>1. TellsAll => TellsAll'
          BY <2>1, <2>6 DEF TellsAll
    <3>2. ASSUME NEW b \in Actors, NEW e \in untold', Tells(b, e) PROVE Tells(b, e)'
      <4>1. b = "pass" /\ work["pass"].pc = "tell"
            BY <2>1, <3>2 DEF Tells, Actors
      <4>2. work'["pass"].pc = "tell" /\ work'["pass"].impact = work["pass"].impact
            BY <2>1, <2>4, <4>1, CancelledWork, IdleWork
      <4>3. QED  BY <3>2, <4>1, <4>2 DEF Tells
    <3>3. \A b \in Actors : \A g \in Tags : Pending(b, g) => g \in lapsed' \cup flagged'
          BY <2>2, <2>3 DEF Pending, Actors
    <3>4. QED  BY <2>1, <2>2, <3>1, <3>2, <3>3, AnnouncedKept
  <2>7. QED  BY <2>5, <2>6
<1>22. ASSUME NEW f \in Remote, NEW g \in Holds[f] \cup {None}, RemoteOp(f, g) PROVE Announced'
  <2>1. PICK fs \in [Files -> Tags \cup {None}], gs \in SUBSET Tags :
          Rows("session", fs, gs) /\ \A p \in Paths : fs[p] = files[p]
        BY <1>22, RemoteRows
  <2>2. work' = work /\ session \in {"idle", "ops"}
        BY <1>22 DEF RemoteOp
  <2>3. \A b \in Actors : work[b].scope \subseteq Paths
        BY DEF TypeInv, Works
  <2>4. TellsAll => TellsAll'
        BY <2>2 DEF TellsAll
  <2>5. QED  BY <2>1, <2>2, <2>3, <2>4, RowsAnnounced DEF Workers, SameWork
<1>23. ASSUME NEW new \in [Remote -> Tags \cup {None}], InstallCheckpoint(new) PROVE Announced'
      BY <1>23 DEF InstallCheckpoint, Announced, TellsAll
<1>24. ASSUME NEW d \in Devices, NEW v \in Preferred, SetPreferred(d, v) PROVE Announced'
      BY <1>24, AnnouncedFrame DEF SetPreferred, owed, SameWork
<1>25. ASSUME NEW p \in Variants \cup {ClusterOf[a] : a \in Variants}, PinAlbum(p) PROVE Announced'
      BY <1>25, AnnouncedFrame DEF PinAlbum, owed, SameWork
<1>26. ASSUME Restart PROVE Announced'
      BY <1>26 DEF Restart, Announced
<1>27. ASSUME UNCHANGED vars PROVE Announced'
      BY <1>27, AnnouncedFrame DEF vars, owed, SameWork
<1>28. QED  BY <1>1, <1>2, <1>3, <1>4, <1>5, <1>6, <1>7, <1>8, <1>9, <1>10, <1>11, <1>12, <1>13,
               <1>14, <1>15, <1>16, <1>17, <1>18, <1>19, <1>20, <1>21, <1>22, <1>23, <1>24, <1>25,
               <1>26, <1>27
      DEF Next, PassStep, UpdateStep, Outside

-----------------------------------------------------------------------------
\* The largest of finitely many: the CHOOSEs of the pin migration have what they look for.

\* Numbers have a least one: among the intervals up to them one contains no other, since strict
\* inclusion of finite sets is well-founded.
LEMMA LeastNumber ==
    ASSUME NEW T \in SUBSET Nat, T # {}
    PROVE  \E x \in T : \A y \in T : x <= y
<1> DEFINE below == {1..x : x \in T}
<1>1. below \subseteq FiniteSubsetsOf(Nat)
  <2>1. SUFFICES ASSUME NEW x \in T PROVE 1..x \in FiniteSubsetsOf(Nat)
        OBVIOUS
  <2>2. IsFiniteSet(1..x)
        BY FS_Interval
  <2>3. QED  BY <2>2 DEF FiniteSubsetsOf
<1>2. below # {}
      OBVIOUS
<1>3. \E X \in below : \A Y \in below : <<Y, X>> \notin StrictSubsetOrdering(Nat)
  <2> HIDE DEF below
  <2>1. QED  BY <1>1, <1>2, FS_StrictSubsetOrderingWellFounded, WFMin
<1>4. PICK x \in T : \A y \in T : <<1..y, 1..x>> \notin StrictSubsetOrdering(Nat)
      BY <1>3
<1>5. ASSUME NEW y \in T, y < x PROVE FALSE
  <2>1. 1..y \subseteq 1..x /\ x \in 1..x /\ x \notin 1..y
        BY <1>5
  <2>2. 1..y \in SUBSET Nat /\ 1..x \in SUBSET Nat /\ 1..y # 1..x
        BY <2>1
  <2>3. <<1..y, 1..x>> \in StrictSubsetOrdering(Nat)
        BY <2>1, <2>2, Zenon DEF StrictSubsetOrdering
  <2>4. QED  BY <1>4, <2>3
<1>6. QED  BY <1>5

LEMMA LargestValue ==
    ASSUME NEW S, S # {}, NEW n \in Nat, NEW f \in [S -> 0..n]
    PROVE  \E x \in S : \A y \in S : f[x] >= f[y]
<1> DEFINE T == {n - f[x] : x \in S}
<1>1. T \subseteq Nat /\ T # {}
      OBVIOUS
<1>2. PICK t \in T : \A u \in T : t <= u
  <2> HIDE DEF T
  <2>1. QED  BY <1>1, LeastNumber
<1>3. PICK x \in S : t = n - f[x]
      OBVIOUS
<1>4. ASSUME NEW y \in S PROVE f[x] >= f[y]
  <2>1. n - f[x] <= n - f[y]
        BY <1>2, <1>3
  <2>2. f[x] \in 0..n /\ f[y] \in 0..n
        OBVIOUS
  <2>3. QED  BY <2>1, <2>2
<1>5. QED  BY <1>4

\* The largest by two measures, the second where the first is equal.
Largest(S, f, h, x) == \A y \in S : f[x] > f[y] \/ (f[x] = f[y] /\ h[x] >= h[y])

LEMMA LargestPair ==
    ASSUME NEW S, S # {}, NEW n \in Nat, NEW f \in [S -> 0..n], NEW h \in [S -> 0..n]
    PROVE  \E x \in S : Largest(S, f, h, x)
<1>1. PICK x \in S : \A y \in S : f[x] >= f[y]
      BY LargestValue
<1> DEFINE S2 == {y \in S : f[y] = f[x]}
           h2 == [y \in S2 |-> h[y]]
<1>2. S2 # {} /\ h2 \in [S2 -> 0..n]
      OBVIOUS
<1>3. PICK z \in S2 : \A y \in S2 : h2[z] >= h2[y]
  <2> HIDE DEF S2, h2
  <2>1. QED  BY <1>2, LargestValue
<1>4. ASSUME NEW y \in S PROVE f[z] > f[y] \/ (f[z] = f[y] /\ h[z] >= h[y])
  <2>1. f[z] = f[x] /\ f[x] >= f[y] /\ f[x] \in 0..n /\ f[y] \in 0..n
        BY <1>1
  <2>2. CASE f[y] = f[x]
        BY <1>3, <2>1, <2>2
  <2>3. CASE f[y] # f[x]
        BY <2>1, <2>3
  <2>4. QED  BY <2>2, <2>3
<1>5. QED  BY <1>4 DEF Largest

LEMMA TracksFinite ==
    IsFiniteSet(Tracks) /\ Cardinality(Tracks) \in Nat
<1> DEFINE f == [g \in Tags |-> TrackOf[g]]
<1>1. f \in Surjection(Tags, Tracks)
      BY DEF Surjection, Tracks
<1>2. IsFiniteSet(Tags)
      BY CatalogAssumption
<1> HIDE DEF f
<1>3. IsFiniteSet(Tracks)
      BY <1>1, <1>2, FS_Surjection
<1>4. QED  BY <1>3, FS_CardinalityType

LEMMA SomeTracks ==
    ASSUME NEW ts \in SUBSET Tracks, NEW us \in SUBSET ts
    PROVE  /\ Cardinality(ts) \in 0..Cardinality(Tracks)
           /\ Cardinality(us) \in 0..Cardinality(ts)
<1>1. IsFiniteSet(ts) /\ Cardinality(ts) <= Cardinality(Tracks)
      BY TracksFinite, FS_Subset
<1>2. IsFiniteSet(us) /\ Cardinality(us) <= Cardinality(ts)
      BY <1>1, FS_Subset
<1>3. QED  BY <1>1, <1>2, TracksFinite, FS_CardinalityType

LEMMA AlbumTracks ==
    ASSUME NEW c \in Catalogs, Linked(c), NEW a
    PROVE  TracksIn(c, {a}) \subseteq c.tracks
BY DEF TracksIn, Linked

LEMMA LargestAlbumIn ==
    ASSUME NEW c \in Catalogs, Linked(c), NEW some, some # {}
    PROVE  LargestAlbum(c, some) \in some
<1> DEFINE n == Cardinality(Tracks)
           own(a) == Cardinality(TracksIn(c, {a}) \cap {TrackOf[g] : g \in RowsOf(Paths)})
           size(a) == Cardinality(TracksIn(c, {a}))
           f == [a \in some |-> own(a)]
           h == [a \in some |-> size(a)]
<1>1. ASSUME NEW a PROVE own(a) \in 0..n /\ size(a) \in 0..n
  <2>1. TracksIn(c, {a}) \in SUBSET Tracks
        BY AlbumTracks, CatalogTables
  <2> DEFINE ts == TracksIn(c, {a})
             us == ts \cap {TrackOf[g] : g \in RowsOf(Paths)}
  <2>2. ts \in SUBSET Tracks /\ us \in SUBSET Tracks
        BY <2>1
  <2> HIDE DEF ts, us
  <2>3. Cardinality(ts) \in 0..n /\ Cardinality(us) \in 0..n
        BY <2>2, SomeTracks
  <2>4. QED  BY <2>3 DEF ts, us
<1>2. f \in [some -> 0..n] /\ h \in [some -> 0..n] /\ n \in Nat
      BY <1>1, TracksFinite
<1>3. \E x \in some : Largest(some, f, h, x)
  <2> HIDE DEF f, h, n
  <2>1. QED  BY <1>2, LargestPair
<1> HIDE DEF own, size
<1>4. \E x \in some : \A y \in some : own(x) > own(y) \/ (own(x) = own(y) /\ size(x) >= size(y))
      BY <1>3 DEF Largest
<1>5. LargestAlbum(c, some) = CHOOSE x \in some :
         \A y \in some : own(x) > own(y) \/ (own(x) = own(y) /\ size(x) >= size(y))
      BY DEF LargestAlbum, own, size
<1>6. QED  BY <1>4, <1>5

\* The pin migration finds a variant of the cluster it looks for.
LEMMA PinVariantFound ==
    ASSUME NEW c \in Catalogs, Linked(c), NEW ps, NEW k \in Clusters(c)
    PROVE  PinVariant(c, ps, k) \in c.albums /\ ClusterOf[PinVariant(c, ps, k)] = k
<1> DEFINE some == {a \in c.albums : ClusterOf[a] = k}
           liked == {a \in some : \E x \in ps : x.device = Me /\ x.variant = a}
<1>1. some # {}
      BY DEF Clusters
<1>2. LargestAlbum(c, some) \in some
  <2> HIDE DEF some
  <2>1. QED  BY <1>1, LargestAlbumIn
<1>3. PinVariant(c, ps, k) = IF liked # {} THEN CHOOSE a \in liked : TRUE ELSE LargestAlbum(c, some)
      BY DEF PinVariant
<1>4. PinVariant(c, ps, k) \in some
  <2>1. CASE liked = {}
        BY <1>2, <1>3, <2>1
  <2>2. CASE liked # {}
    <3> DEFINE x == CHOOSE a \in liked : TRUE
    <3>1. x \in liked
          BY <2>2
    <3>2. liked \subseteq some
          OBVIOUS
    <3>3. PinVariant(c, ps, k) = x
          BY <1>3, <2>2
    <3> HIDE DEF x, liked, some
    <3>4. QED  BY <3>1, <3>2, <3>3
  <2>3. QED  BY <2>1, <2>2
<1>5. QED  BY <1>4

\* The pin migration finds a cluster of the family it looks for, if there is one.
LEMMA PinClusterFound ==
    ASSUME NEW c \in Catalogs, Linked(c), NEW family
    PROVE  LET some == {k \in Clusters(c) : FamilyOf[k] = family} IN
           IF some = {} THEN PinCluster(c, family) = None ELSE PinCluster(c, family) \in some
<1> DEFINE some == {k \in Clusters(c) : FamilyOf[k] = family}
           n == Cardinality(c.tracks)
           size(a) == Cardinality(TracksIn(c, {a}))
           longest(k, m) == /\ \E a \in c.albums : ClusterOf[a] = k /\ size(a) = m
                            /\ \A a \in c.albums : ClusterOf[a] = k => size(a) <= m
           best(k) == CHOOSE m \in 0..n : longest(k, m)
           f == [k \in some |-> best(k)]
<1>1. PinCluster(c, family) =
        IF some = {} THEN None ELSE CHOOSE k \in some : \A j \in some : best(k) >= best(j)
      BY DEF PinCluster
<1>2. n \in Nat /\ \A a : size(a) \in 0..n
  <2>1. c.tracks \in SUBSET Tracks
        BY CatalogTables
  <2>2. ASSUME NEW a PROVE size(a) \in 0..n
    <3> DEFINE us == TracksIn(c, {a})
    <3>1. us \in SUBSET c.tracks
          BY AlbumTracks
    <3> HIDE DEF us
    <3>2. Cardinality(us) \in 0..Cardinality(c.tracks)
          BY <2>1, <3>1, SomeTracks
    <3>3. QED  BY <3>2 DEF us
  <2>3. n \in Nat
        BY <2>1, SomeTracks
  <2>4. QED  BY <2>2, <2>3
<1> HIDE DEF n, size
<1>3. ASSUME NEW k \in Clusters(c) PROVE best(k) \in 0..n
  <2> DEFINE S == {a \in c.albums : ClusterOf[a] = k}
             h == [a \in S |-> size(a)]
  <2>1. S # {} /\ h \in [S -> 0..n]
        BY <1>2 DEF Clusters
  <2>2. PICK x \in S : \A y \in S : h[x] >= h[y]
    <3> HIDE DEF S, h
    <3>1. QED  BY <1>2, <2>1, LargestValue
  <2>3. size(x) \in 0..n /\ longest(k, size(x))
    <3>1. \A a \in c.albums : ClusterOf[a] = k => size(a) <= size(x)
      <4>1. ASSUME NEW a \in c.albums, ClusterOf[a] = k PROVE size(a) <= size(x)
        <5>1. a \in S
              BY <4>1
        <5>2. h[x] >= h[a] /\ h[x] = size(x) /\ h[a] = size(a)
              BY <2>2, <5>1
        <5>3. QED  BY <1>2, <5>2
      <4>2. QED  BY <4>1
    <3>2. QED  BY <1>2, <3>1
  <2> HIDE DEF longest
  <2>4. QED  BY <2>3
<1> HIDE DEF best
<1>4. ASSUME some # {} PROVE \E k \in some : \A j \in some : best(k) >= best(j)
  <2>1. f \in [some -> 0..n]
        BY <1>3
  <2>2. \E k \in some : \A j \in some : f[k] >= f[j]
    <3> HIDE DEF f, some
    <3>1. QED  BY <1>2, <1>4, <2>1, LargestValue
  <2>3. QED  BY <2>2
<1> HIDE DEF some
<1>5. QED  BY <1>1, <1>4 DEF some

-----------------------------------------------------------------------------
\* What users have set on the catalog.

PreferencesOK ==
    /\ \A x \in prefs : x.device \in Devices /\ x.variant \in Preferred
    /\ \A x, y \in prefs :
         x.device = y.device /\ ClusterOf[x.variant] = ClusterOf[y.variant] => x = y

PinsKnown == pins \subseteq catalog.albums \cup Clusters(catalog)

UserInv == PreferencesOK /\ PinsKnown

\* What one step does to the preferences and the pins.
PreferencesStay ==
    \A x \in prefs :
      \/ \E y \in prefs' : y.device = x.device /\ ClusterOf[y.variant] = ClusterOf[x.variant]
      \/ x.variant \notin Derive(PresentIn(files')).albums

PinsStay ==
    counts'.install = counts.install =>
      \A p \in pins :
        LET k == ClusterOfPin(p)
            alive == {ClusterOf[a] : a \in Derive(PresentIn(files')).albums}
        IN /\ k \in alive => \E q \in pins' : ClusterOfPin(q) = k
           /\ (\E j \in alive : FamilyOf[j] = FamilyOf[k]) =>
                \E q \in pins' : FamilyOf[ClusterOfPin(q)] = FamilyOf[k]

LEMMA ClusterIds ==
    ASSUME NEW c \in Catalogs
    PROVE  /\ c.albums \subseteq Variants
           /\ \A k \in Clusters(c) : k # None /\ k \notin Variants
<1>1. c.albums \subseteq Variants
      BY CatalogTables
<1>2. ASSUME NEW k \in Clusters(c) PROVE k # None /\ k \notin Variants
  <2>1. PICK a \in Variants : k = ClusterOf[a]
        BY <1>1 DEF Clusters
  <2>2. PICK g \in Tags : a = AlbumOf[g]
        BY DEF Variants
  <2>3. QED  BY <2>1, <2>2, ClustersApart DEF Variants
<1>3. QED  BY <1>1, <1>2

\* Where a pin goes.
LEMMA MigratedPin ==
    ASSUME NEW before \in Catalogs, NEW after \in Catalogs, Linked(after), NEW ps,
           NEW p \in before.albums \cup Clusters(before)
    PROVE  LET k == ClusterOfPin(p)
               m == Migrated(p, before, after, ps) IN
           /\ m \subseteq after.albums \cup Clusters(after)
           /\ k \in Clusters(after) => \E q \in m : ClusterOfPin(q) = k
           /\ (\E j \in Clusters(after) : FamilyOf[j] = FamilyOf[k]) =>
                \E q \in m : FamilyOf[ClusterOfPin(q)] = FamilyOf[k]
<1> DEFINE k == ClusterOfPin(p)
           to == IF k \in Clusters(after) THEN k ELSE PinCluster(after, FamilyOf[k])
           m == Migrated(p, before, after, ps)
           some == {j \in Clusters(after) : FamilyOf[j] = FamilyOf[k]}
<1>1. CASE p \in Clusters(after)
  <2>1. m = {p}
        BY <1>1 DEF Migrated
  <2>2. QED  BY <1>1, <2>1
<1>2. CASE p \notin Clusters(after)
  <2>1. k # None
    <3>1. CASE p \in Variants
      <4>1. PICK g \in Tags : p = AlbumOf[g]
            BY <3>1 DEF Variants
      <4>2. QED  BY <3>1, <4>1, ClustersApart DEF ClusterOfPin
    <3>2. CASE p \notin Variants
      <4>1. p \in Clusters(before)
            BY <3>2, ClusterIds
      <4>2. QED  BY <3>2, <4>1, ClusterIds DEF ClusterOfPin
    <3>3. QED  BY <3>1, <3>2
  <2>2. m = IF to = None THEN {} ELSE {PinVariant(after, ps, to)}
    <3>1. p \in Clusters(before) \cup before.albums
          OBVIOUS
    <3>2. QED  BY <1>2, <2>1, <3>1 DEF Migrated
  <2>3. IF some = {} THEN PinCluster(after, FamilyOf[k]) = None
        ELSE PinCluster(after, FamilyOf[k]) \in some
    <3> HIDE DEF k
    <3>1. QED  BY PinClusterFound
  <2> HIDE DEF k, m
  <2>4. \/ to = None /\ k \notin Clusters(after) /\ some = {}
        \/ /\ to \in Clusters(after) /\ FamilyOf[to] = FamilyOf[k]
           /\ k \in Clusters(after) => to = k
        BY <2>3
  <2> HIDE DEF to
  <2>5. CASE to = None
    <3>1. to \notin Clusters(after)
          BY <2>5, ClusterIds
    <3>2. QED  BY <2>2, <2>4, <2>5, <3>1 DEF k, m
  <2>6. CASE to # None
    <3> DEFINE q == PinVariant(after, ps, to)
    <3>1. to \in Clusters(after)
          BY <2>4, <2>6
    <3>2. q \in after.albums /\ ClusterOf[q] = to
          BY <3>1, PinVariantFound
    <3> HIDE DEF q
    <3>3. ClusterOfPin(q) = to
          BY <3>2, ClusterIds DEF ClusterOfPin
    <3>4. m = {q}
          BY <2>2, <2>6 DEF q
    <3>5. QED  BY <2>4, <2>6, <3>2, <3>3, <3>4 DEF k, m
  <2>7. QED  BY <2>5, <2>6
<1>3. QED  BY <1>1, <1>2

\* A step that rebuilds: pins of known albums go where their files are.
LEMMA RebuildKeeps ==
    ASSUME TypeInv, UserInv, PresentShown', files' = files, NEW c \in Catalogs, Linked(c),
           Rebuild(catalog, c)
    PROVE  UserInv' /\ PreferencesStay /\ PinsStay
<1>1. /\ catalog' = c /\ prefs' = {x \in prefs : x.variant \in c.albums}
      /\ pins' = UNION {Migrated(p, catalog, c, prefs') : p \in pins}
      BY DEF Rebuild, KeptPreferences
<1>2. \A g \in PresentIn(files') : Shows(c, g)
      BY <1>1, FitsShows DEF PresentShown
<1>3. Derive(PresentIn(files')).albums \subseteq c.albums
  <2> DEFINE gs == PresentIn(files')
  <2>1. \A g \in gs : AlbumOf[g] \in c.albums
        BY <1>2 DEF Shows
  <2> HIDE DEF gs
  <2>2. Derive(gs).albums = {AlbumOf[g] : g \in gs}
        BY DeriveTables
  <2>3. Derive(gs).albums \subseteq c.albums
        BY <2>1, <2>2
  <2>4. QED  BY <2>3 DEF gs
<1>4. PreferencesStay
  <2>1. SUFFICES ASSUME NEW x \in prefs, x.variant \in Derive(PresentIn(files')).albums
                 PROVE  x \in prefs'
        BY DEF PreferencesStay
  <2>2. QED  BY <1>1, <1>3, <2>1
<1>5. PreferencesOK'
      BY <1>1 DEF UserInv, PreferencesOK
<1> DEFINE m(p) == Migrated(p, catalog, c, prefs')
<1>6. ASSUME NEW p \in pins
      PROVE  LET k == ClusterOfPin(p) IN
             /\ m(p) \subseteq c.albums \cup Clusters(c)
             /\ k \in Clusters(c) => \E q \in m(p) : ClusterOfPin(q) = k
             /\ (\E j \in Clusters(c) : FamilyOf[j] = FamilyOf[k]) =>
                  \E q \in m(p) : FamilyOf[ClusterOfPin(q)] = FamilyOf[k]
  <2>1. p \in catalog.albums \cup Clusters(catalog) /\ catalog \in Catalogs
        BY DEF UserInv, PinsKnown, TypeInv
  <2>2. QED  BY <2>1, MigratedPin
<1> HIDE DEF m
<1>7. pins' = UNION {m(p) : p \in pins}
      BY <1>1 DEF m
<1>8. PinsKnown'
  <2>1. \A q \in pins' : q \in c.albums \cup Clusters(c)
        BY <1>6, <1>7
  <2>2. QED  BY <1>1, <2>1 DEF PinsKnown
<1>9. PinsStay
  <2> DEFINE alive == {ClusterOf[a] : a \in Derive(PresentIn(files')).albums}
  <2>1. alive \subseteq Clusters(c)
        BY <1>3 DEF Clusters
  <2>2. \A p \in pins : m(p) \subseteq pins'
        BY <1>7
  <2> HIDE DEF alive
  <2>3. \A p \in pins :
          /\ ClusterOfPin(p) \in alive => \E q \in pins' : ClusterOfPin(q) = ClusterOfPin(p)
          /\ (\E j \in alive : FamilyOf[j] = FamilyOf[ClusterOfPin(p)]) =>
               \E q \in pins' : FamilyOf[ClusterOfPin(q)] = FamilyOf[ClusterOfPin(p)]
    <3>1. SUFFICES ASSUME NEW p \in pins
                   PROVE  /\ ClusterOfPin(p) \in alive =>
                               \E q \in pins' : ClusterOfPin(q) = ClusterOfPin(p)
                          /\ (\E j \in alive : FamilyOf[j] = FamilyOf[ClusterOfPin(p)]) =>
                               \E q \in pins' : FamilyOf[ClusterOfPin(q)] = FamilyOf[ClusterOfPin(p)]
          OBVIOUS
    <3>2. m(p) \subseteq pins'
          BY <2>2
    <3>3. QED  BY <1>6, <2>1, <3>2
  <2>4. QED  BY <2>3 DEF PinsStay, alive
<1>10. QED  BY <1>4, <1>5, <1>8, <1>9 DEF UserInv

\* Steps that leave preferences and pins alone, and take no album from the catalog.
LEMMA UserFrame ==
    ASSUME UserInv, UNCHANGED <<prefs, pins>>, catalog.albums \subseteq catalog'.albums
    PROVE  UserInv' /\ PreferencesStay /\ PinsStay
<1>1. PreferencesOK'
      BY DEF UserInv, PreferencesOK
<1>2. PinsKnown'
      BY DEF UserInv, PinsKnown, Clusters
<1>3. QED  BY <1>1, <1>2 DEF UserInv, PreferencesStay, PinsStay

LEMMA RowsUser ==
    ASSUME TypeInv, UserInv, NEW a \in Workers, NEW fs \in [Files -> Tags \cup {None}],
           NEW gs \in SUBSET Tags, Rows(a, fs, gs), UNCHANGED <<prefs, pins>>
    PROVE  UserInv' /\ PreferencesStay /\ PinsStay
BY RowsFacts, WithTables, UserFrame DEF TypeInv

LEMMA UserStep ==
    ASSUME TypeInv, PresentShown', UserInv, [Next]_vars
    PROVE  UserInv' /\ PreferencesStay /\ PinsStay
<1>1. ASSUME IngestNext PROVE UserInv' /\ PreferencesStay /\ PinsStay
  <2> DEFINE p == First(work["pass"].todo)
  <2>1. /\ p \in Paths /\ UNCHANGED <<prefs, pins>>
        /\ \/ UNCHANGED <<files, catalog, untold, owed>>
           \/ Rows("pass", Ingested(p), {disk[p]} \ {None})
        BY <1>1, IngestWork
  <2> HIDE DEF p
  <2>2. CASE UNCHANGED <<files, catalog, untold, owed>>
        BY <2>1, <2>2, UserFrame
  <2>3. CASE Rows("pass", Ingested(p), {disk[p]} \ {None})
    <3>1. Ingested(p) \in [Files -> Tags \cup {None}] /\ {disk[p]} \ {None} \in SUBSET Tags
          BY <2>1 DEF Ingested, TypeInv, Files
    <3>2. QED  BY <2>1, <2>3, <3>1, RowsUser DEF Workers, Actors
  <2>4. QED  BY <2>1, <2>2, <2>3
<1>2. ASSUME ReconcilePresence PROVE UserInv' /\ PreferencesStay /\ PinsStay
  <2>1. PICK missing : Rows("pass", MarkMissing(missing), {})
        BY <1>2, PresenceWork
  <2> DEFINE fs == MarkMissing(missing)
  <2>2. fs \in [Files -> Tags \cup {None}] /\ {} \in SUBSET Tags
        BY MissingPresent
  <2> HIDE DEF fs
  <2>3. Rows("pass", fs, {})
        BY <2>1 DEF fs
  <2>4. UNCHANGED <<prefs, pins>>
        BY <1>2 DEF ReconcilePresence
  <2>5. QED  BY <2>2, <2>3, <2>4, RowsUser DEF Workers, Actors
<1>3. ASSUME PassUnchanged PROVE UserInv' /\ PreferencesStay /\ PinsStay
      BY <1>3, UserFrame DEF PassUnchanged
<1>4. ASSUME RepairRebuild PROVE UserInv' /\ PreferencesStay /\ PinsStay
  <2> DEFINE c == Derive(PresentIn(files))
  <2>1. PresentIn(files) \in SUBSET Tags
        BY DEF PresentIn, TypeInv
  <2>2. c \in Catalogs /\ Linked(c)
        BY <2>1, DeriveType
  <2>3. Rebuild(catalog, c) /\ files' = files
        BY <1>4 DEF RepairRebuild, RebuildAll
  <2> HIDE DEF c
  <2>4. QED  BY <2>2, <2>3, RebuildKeeps
<1>5. ASSUME RepairTells PROVE UserInv' /\ PreferencesStay /\ PinsStay
      BY <1>5, UserFrame DEF RepairTells
<1>6. ASSUME RepairClears PROVE UserInv' /\ PreferencesStay /\ PinsStay
      BY <1>6, UserFrame DEF RepairClears
<1>7. ASSUME RepairSkips PROVE UserInv' /\ PreferencesStay /\ PinsStay
      BY <1>7, UserFrame DEF RepairSkips
<1>8. ASSUME PassFails PROVE UserInv' /\ PreferencesStay /\ PinsStay
      BY <1>8, UserFrame DEF PassFails
<1>9. ASSUME NEW k \in {"full", "repair"}, BeginFull(k)
      PROVE  UserInv' /\ PreferencesStay /\ PinsStay
      BY <1>9, UserFrame DEF BeginFull
<1>10. ASSUME NEW ps \in SUBSET Paths, NEW rs \in SUBSET Roots, BeginDelta(ps, rs)
       PROVE  UserInv' /\ PreferencesStay /\ PinsStay
      BY <1>10, UserFrame DEF BeginDelta
<1>11. ASSUME NEW a \in Actors, CaptureAfter(a) PROVE UserInv' /\ PreferencesStay /\ PinsStay
      BY <1>11, UserFrame DEF CaptureAfter
<1>12. ASSUME NEW a \in Actors, ApplyScoped(a) PROVE UserInv' /\ PreferencesStay /\ PinsStay
  <2> DEFINE i == work[a].impact
           c == Scoped(catalog, i)
  <2>1. i \in Impacts
        BY DEF TypeInv, Works
  <2>2. c \in Catalogs /\ Linked(c)
        BY <2>1, ScopedTables DEF TypeInv
  <2>3. Rebuild(catalog, c) /\ files' = files
        BY <1>12 DEF ApplyScoped
  <2> HIDE DEF c
  <2>4. QED  BY <2>2, <2>3, RebuildKeeps
<1>13. ASSUME NEW a \in Actors, ApplyFlags(a) PROVE UserInv' /\ PreferencesStay /\ PinsStay
      BY <1>13, UserFrame DEF ApplyFlags
<1>14. ASSUME NEW a \in Actors, TellScan(a) PROVE UserInv' /\ PreferencesStay /\ PinsStay
      BY <1>14, UserFrame DEF TellScan
<1>15. ASSUME RemoveRows PROVE UserInv' /\ PreferencesStay /\ PinsStay
  <2>1. PICK missing : Rows("removal", MarkMissing(missing), {})
        BY <1>15, RemoveRowsWork
  <2> DEFINE fs == MarkMissing(missing)
  <2>2. fs \in [Files -> Tags \cup {None}] /\ {} \in SUBSET Tags
        BY MissingPresent
  <2> HIDE DEF fs
  <2>3. Rows("removal", fs, {})
        BY <2>1 DEF fs
  <2>4. UNCHANGED <<prefs, pins>>
        BY <1>15 DEF RemoveRows
  <2>5. QED  BY <2>2, <2>3, <2>4, RowsUser DEF Workers, Actors
<1>16. ASSUME RemovalFails PROVE UserInv' /\ PreferencesStay /\ PinsStay
      BY <1>16, UserFrame DEF RemovalFails
<1>17. ASSUME SessionRebuild PROVE UserInv' /\ PreferencesStay /\ PinsStay
  <2> DEFINE c == Derive(PresentIn(files))
  <2>1. PresentIn(files) \in SUBSET Tags
        BY DEF PresentIn, TypeInv
  <2>2. c \in Catalogs /\ Linked(c)
        BY <2>1, DeriveType
  <2>3. Rebuild(catalog, c) /\ files' = files
        BY <1>17 DEF SessionRebuild, RebuildAll
  <2> HIDE DEF c
  <2>4. QED  BY <2>2, <2>3, RebuildKeeps
<1>18. ASSUME SessionTells PROVE UserInv' /\ PreferencesStay /\ PinsStay
      BY <1>18, UserFrame DEF SessionTells
<1>19. ASSUME SessionFails PROVE UserInv' /\ PreferencesStay /\ PinsStay
      BY <1>19, UserFrame DEF SessionFails
<1>20. ASSUME NEW p \in Paths, NEW g \in Holds[p] \cup {None}, DiskChange(p, g)
       PROVE  UserInv' /\ PreferencesStay /\ PinsStay
      BY <1>20, UserFrame DEF DiskChange
<1>21. ASSUME NEW new \in SUBSET Roots, SetScanRoots(new)
       PROVE  UserInv' /\ PreferencesStay /\ PinsStay
      BY <1>21, UserFrame DEF SetScanRoots
<1>22. ASSUME NEW f \in Remote, NEW g \in Holds[f] \cup {None}, RemoteOp(f, g)
       PROVE  UserInv' /\ PreferencesStay /\ PinsStay
  <2>1. PICK fs \in [Files -> Tags \cup {None}], gs \in SUBSET Tags : Rows("session", fs, gs)
        BY <1>22, RemoteRows
  <2>2. UNCHANGED <<prefs, pins>>
        BY <1>22 DEF RemoteOp
  <2>3. QED  BY <2>1, <2>2, RowsUser DEF Workers
<1>23. ASSUME NEW new \in [Remote -> Tags \cup {None}], InstallCheckpoint(new)
       PROVE  UserInv' /\ PreferencesStay /\ PinsStay
  <2> DEFINE c == catalog'
  <2>1. /\ catalog' = Derive(PresentIn(files')) /\ prefs' = {x \in prefs : x.variant \in c.albums}
        /\ counts' = [counts EXCEPT !.event = counts.event + 1, !.install = counts.install + 1]
        BY <1>23 DEF InstallCheckpoint, KeptPreferences
  <2>2. files' \in [Files -> Tags \cup {None}]
        BY <1>23 DEF InstallCheckpoint, TypeInv
  <2>3. PresentIn(files') \in SUBSET Tags
        BY <2>2 DEF PresentIn
  <2>4. c \in Catalogs /\ Linked(c)
        BY <2>1, <2>3, DeriveType
  <2>5. PreferencesOK' /\ PreferencesStay
        BY <2>1 DEF UserInv, PreferencesOK, PreferencesStay
  <2>6. counts'.install # counts.install
    <3>1. counts \in Counts
          BY DEF TypeInv
    <3>2. counts.install \in Nat /\ counts'.install = counts.install + 1
          BY <2>1, <3>1 DEF Counts
    <3>3. QED  BY <3>2
  <2>7. PinsKnown'
    <3>1. pins' = UNION {Migrated(p, c, c, prefs') : p \in pins}
          BY <1>23, <2>1 DEF InstallCheckpoint
    <3>2. ASSUME NEW p \in pins, NEW q \in Migrated(p, c, c, prefs')
          PROVE  q \in c.albums \cup Clusters(c)
      <4>1. CASE p \in c.albums \cup Clusters(c)
            BY <2>4, <3>2, <4>1, MigratedPin
      <4>2. CASE p \notin c.albums \cup Clusters(c)
            BY <3>2, <4>2 DEF Migrated
      <4>3. QED  BY <4>1, <4>2
    <3>3. QED  BY <3>1, <3>2 DEF PinsKnown
  <2>8. QED  BY <2>5, <2>6, <2>7 DEF UserInv, PinsStay
<1>24. ASSUME NEW d \in Devices, NEW v \in Preferred, SetPreferred(d, v)
       PROVE  UserInv' /\ PreferencesStay /\ PinsStay
  <2> DEFINE z == [device |-> d, variant |-> v]
  <2>1. /\ prefs' = {x \in prefs : x.device # d \/ ClusterOf[x.variant] # ClusterOf[v]} \cup {z}
        /\ UNCHANGED <<catalog, pins>>
        BY <1>24 DEF SetPreferred
  <2>2. z.device = d /\ z.variant = v
        OBVIOUS
  <2> HIDE DEF z
  <2>3. PreferencesOK'
        BY <2>1, <2>2 DEF UserInv, PreferencesOK
  <2>4. PreferencesStay
        BY <2>1, <2>2 DEF PreferencesStay
  <2>5. QED  BY <2>1, <2>3, <2>4 DEF UserInv, PinsKnown, PinsStay
<1>25. ASSUME NEW p \in Variants \cup {ClusterOf[a] : a \in Variants}, PinAlbum(p)
       PROVE  UserInv' /\ PreferencesStay /\ PinsStay
  <2>1. /\ pins' = pins \cup {p} /\ p \in catalog.albums \cup Clusters(catalog)
        /\ UNCHANGED <<catalog, prefs>>
        BY <1>25 DEF PinAlbum
  <2>2. QED  BY <2>1 DEF UserInv, PreferencesOK, PinsKnown, PreferencesStay, PinsStay
<1>26. ASSUME Restart PROVE UserInv' /\ PreferencesStay /\ PinsStay
      BY <1>26, UserFrame DEF Restart
<1>27. ASSUME UNCHANGED vars PROVE UserInv' /\ PreferencesStay /\ PinsStay
      BY <1>27, UserFrame DEF vars
<1>28. QED  BY <1>1, <1>2, <1>3, <1>4, <1>5, <1>6, <1>7, <1>8, <1>9, <1>10, <1>11, <1>12, <1>13,
               <1>14, <1>15, <1>16, <1>17, <1>18, <1>19, <1>20, <1>21, <1>22, <1>23, <1>24, <1>25,
               <1>26, <1>27
      DEF Next, PassStep, UpdateStep, Outside

-----------------------------------------------------------------------------
\* The invariant, and the theorems.

CatalogInv ==
    /\ TypeInv /\ PresentShown /\ CoverInv /\ Explained /\ FollowInv /\ Announced /\ UserInv

LEMMA InitInv ==
    Init => CatalogInv
<1> SUFFICES ASSUME Init PROVE CatalogInv
    OBVIOUS
<1>1. /\ disk = FirstDisk /\ roots = FirstRoots /\ files = FirstFiles
      /\ catalog = Derive(PresentIn(files)) /\ prefs = {} /\ pins = {} /\ repair = FALSE
      /\ work = [a \in Actors |-> Idle] /\ session = "idle"
      /\ touched = [a \in Workers |-> {}] /\ lapsed = {} /\ flagged = {}
      /\ untold = {} /\ unseen = {}
      /\ counts = [event |-> 0, pass |-> 0, failure |-> 0, install |-> 0]
      BY DEF Init, Workers
<1>2. disk \in [Paths -> Tags \cup {None}] /\ files \in [Files -> Tags \cup {None}] /\ roots \subseteq Roots
      BY <1>1, CatalogAssumption DEF Files
<1>3. PresentIn(files) \in SUBSET Tags
      BY <1>2 DEF PresentIn
<1>4. catalog \in Catalogs /\ Linked(catalog)
      BY <1>1, <1>3, DeriveType
<1>5. work \in [Actors -> Works] /\ \A a \in Actors : work[a] = Idle
      BY <1>1, IdleWork
<1>6. TypeInv
  <2>1. counts \in Counts
        BY <1>1 DEF Counts
  <2>2. work["removal"].seen = {}
        BY <1>5, IdleWork DEF Actors
  <2>3. QED  BY <1>1, <1>2, <1>4, <1>5, <2>1, <2>2 DEF TypeInv
<1>7. PresentShown
      BY <1>1, DeriveShows, FitsShows DEF PresentShown
<1>8. CoverInv
  <2>1. \A a \in Actors : touched[a] = {}
        BY <1>1 DEF Workers
  <2>2. QED  BY <1>1, <1>5, <2>1, IdleWork, IdleCovered DEF CoverInv, QuietWork, Actors
<1>9. Explained
  <2>1. ExplainedBy(catalog, PresentIn(files))
        BY <1>1, <1>3, DeriveExplained
  <2>2. ExplainedBy(catalog, Reasons)
        BY <2>1, MoreExplain DEF Reasons
  <2>3. QED  BY <1>4, <2>2, FitsExplained DEF Explained
<1>10. FollowInv
  <2>1. RowsFollowDisk
    <3>1. ASSUME NEW p \in Paths PROVE files[p] = IF p \in Inside(roots) THEN disk[p] ELSE None
      <4>1. FirstFiles[p] = IF \E r \in FirstRoots : p \in Under[r] THEN FirstDisk[p] ELSE None
            BY CatalogAssumption
      <4>2. p \in Inside(roots) <=> \E r \in FirstRoots : p \in Under[r]
            BY <1>1, InsideRoots
      <4>3. QED  BY <1>1, <4>1, <4>2
    <3>2. QED  BY <3>1 DEF RowsFollowDisk
  <2>2. QED  BY <1>5, <2>1, IdleWork DEF FollowInv, ScanInv, Actors
<1>11. Announced
      BY <1>1 DEF Announced
<1>12. UserInv
      BY <1>1 DEF UserInv, PreferencesOK, PinsKnown
<1>13. QED  BY <1>6, <1>7, <1>8, <1>9, <1>10, <1>11, <1>12 DEF CatalogInv

LEMMA InvStep ==
    ASSUME CatalogInv, [Next]_vars
    PROVE  CatalogInv' /\ PreferencesStay /\ PinsStay
<1>1. TypeInv' /\ PresentShown' /\ CoverInv' /\ Explained' /\ FollowInv' /\ Announced'
      BY TypeStep, PresentStep, CoverStep, ExplainedStep, FollowStep, AnnouncedStep DEF CatalogInv
<1>2. UserInv' /\ PreferencesStay /\ PinsStay
      BY <1>1, UserStep DEF CatalogInv
<1>3. QED  BY <1>1, <1>2 DEF CatalogInv

LEMMA AlwaysInv ==
    Spec => []CatalogInv
<1>1. CatalogInv /\ [Next]_vars => CatalogInv'
      BY InvStep
<1>2. QED  BY <1>1, InitInv, PTL DEF Spec

LEMMA NothingElse ==
    ASSUME CatalogInv
    PROVE  NothingElseShown
<1> DEFINE all == PresentIn(files) \cup lapsed \cup UNION {touched[a] : a \in DOMAIN touched}
<1>1. TypeInv /\ CoverInv /\ Explained
      BY DEF CatalogInv
<1>2. SUFFICES ASSUME ~repair PROVE Fits(catalog, Derive(all))
      BY DEF NothingElseShown
<1>3. flagged = {}
      BY <1>1, <1>2 DEF CoverInv
<1>4. DOMAIN touched = Workers
      BY <1>1 DEF TypeInv
<1>5. Reasons \subseteq all
      BY <1>3, <1>4 DEF Reasons, Workers
<1>6. ExplainedBy(catalog, Reasons) /\ catalog \in Catalogs
      BY <1>1, FitsExplained DEF Explained, TypeInv
<1> HIDE DEF all
<1>7. QED  BY <1>5, <1>6, MoreExplain, FitsExplained

\* What the catalog shows follows from what is present and what work has touched: a scan pass, a
\* session and a removal that run at once, fail anywhere and restart leave no present file out, and
\* nothing in that no work accounts for (catalog_rebuild.go:388-428, service_ingest_scan.go:282-296).
THEOREM CatalogStaysCurrent ==
    Spec => []CatalogCurrent
<1>1. CatalogInv => CatalogCurrent
  <2>1. SUFFICES ASSUME CatalogInv PROVE CatalogTypeOK /\ PresentShown /\ NothingElseShown
        BY DEF CatalogCurrent
  <2>2. TypeInv /\ UserInv /\ PresentShown
        BY <2>1 DEF CatalogInv
  <2>3. catalog.albums \subseteq Variants /\ catalog.links \subseteq catalog.albums \X catalog.tracks
        BY <2>2, CatalogTables DEF TypeInv, Linked
  <2>4. \A a \in Actors : work[a].pc \in {"idle", "rows", "apply", "tell", "tellall", "clear"}
        BY <2>2 DEF TypeInv, Works
  <2>5. CatalogTypeOK
        BY <2>2, <2>3, <2>4 DEF CatalogTypeOK, TypeInv, UserInv, PreferencesOK
  <2>6. QED  BY <2>1, <2>2, <2>5, NothingElse
<1>2. QED  BY <1>1, AlwaysInv, PTL

\* Whatever came into the catalog or went from it is told, or is still to be told by work that is
\* under way, lapsed or left to a repair (catalog_rebuild.go:56-60, 119, 130-187).
THEOREM ChangesAreTold ==
    Spec => []ChangesTold
<1>1. CatalogInv => ChangesTold
  <2> DEFINE all == lapsed \cup UNION {touched[a] : a \in DOMAIN touched}
             tellers == {b \in Actors : At(b, "tell")}
  <2>1. SUFFICES ASSUME CatalogInv, ~repair, ~TellsAll
                 PROVE  untold \subseteq EntitiesOf(all) \cup UNION {Told(work[a].impact) : a \in tellers}
        BY DEF ChangesTold, TellsAll, At
  <2>2. flagged = {} /\ DOMAIN touched = Workers /\ \A e \in untold : Promised(e)
        BY <2>1 DEF CatalogInv, CoverInv, TypeInv, Announced
  <2>3. ASSUME NEW e \in untold
        PROVE  e \in EntitiesOf(all) \/ \E a \in tellers : e \in Told(work[a].impact)
    <3>1. CASE \E g \in Tags : Owes(g) /\ (e = TrackOf[g] \/ e = AlbumOf[g])
      <4>1. PICK g \in Tags : Owes(g) /\ (e = TrackOf[g] \/ e = AlbumOf[g])
            BY <3>1
      <4>2. g \in all
            BY <2>2, <4>1 DEF Owes, Pending, Workers
      <4> HIDE DEF all
      <4>3. QED  BY <4>1, <4>2 DEF EntitiesOf
    <3>2. CASE \E a \in Actors : Tells(a, e)
          BY <3>2 DEF Tells, At
    <3>3. QED  BY <2>2, <3>1, <3>2 DEF Promised
  <2> HIDE DEF all, tellers
  <2>4. QED  BY <2>3
<1>2. QED  BY <1>1, AlwaysInv, PTL

\* A path that did not change since it was read has the row it should have, whatever roots come and
\* go meanwhile (service_ingest_scan.go:142-311, 313-474, 504-536, 1030-1055).
THEOREM RowsAlwaysFollow ==
    Spec => []RowsFollowDisk
<1>1. CatalogInv => RowsFollowDisk
      BY DEF CatalogInv, FollowInv
<1>2. QED  BY <1>1, AlwaysInv, PTL

\* No rebuild drops the preference or the pin of an album that still has a file
\* (catalog_rebuild.go:526-688).
THEOREM RebuildsKeepUserData ==
    Spec => UserDataKept
<1>1. CatalogInv /\ [Next]_vars => [PreferencesStay]_vars /\ [PinsStay]_vars
      BY InvStep
<1>2. Spec => [][PreferencesStay]_vars /\ [][PinsStay]_vars
      BY <1>1, AlwaysInv, PTL DEF Spec
<1>3. QED  BY <1>2 DEF UserDataKept, PreferencesKept, PinsKept, PreferencesStay, PinsStay

-----------------------------------------------------------------------------
\* What is said of a recording and what is played.

\* The first of some things by their places is one of them.
LEMMA TopIn ==
    ASSUME NEW S, S # {}, NEW n \in Nat, NEW place, \A x \in S : place[x] \in 1..n
    PROVE  Top(S, place) \in S
<1> DEFINE f == [x \in S |-> place[x]]
<1>1. f \in [S -> 0..n]
      OBVIOUS
<1>2. \E x \in S : \A y \in S : f[x] >= f[y]
  <2> HIDE DEF f
  <2>1. QED  BY <1>1, LargestValue
<1>3. \E x \in S : \A y \in S : place[x] >= place[y]
      BY <1>2
<1>4. QED  BY <1>3 DEF Top

LEMMA NarrowIn ==
    ASSUME NEW S, NEW T
    PROVE  /\ Narrow(S, T) \subseteq S /\ (S # {} => Narrow(S, T) # {})
           /\ S \cap T # {} => Narrow(S, T) \subseteq T
BY DEF Narrow

\* The first row of a query: there is one if there are rows, of v itself if one is.
LEMMA FirstOfIn ==
    ASSUME NEW S \in SUBSET Sources, NEW v
    PROVE  /\ FirstOf(S, v) \subseteq S /\ (FirstOf(S, v) = {} <=> S = {})
           /\ \A s, t \in FirstOf(S, v) : s = t
           /\ (\E s \in S : VariantOf[s] = v) => \A s \in FirstOf(S, v) : VariantOf[s] = v
<1> DEFINE own == {s \in Sources : VariantOf[s] = v}
<1>1. CASE S = {}
      BY <1>1 DEF FirstOf
<1>2. CASE S # {}
  <2>1. /\ Narrow(S, own) \subseteq S /\ Narrow(S, own) # {}
        /\ S \cap own # {} => Narrow(S, own) \subseteq own
        BY <1>2, NarrowIn
  <2>2. Cardinality(Sources) \in Nat
        BY AvailabilityAssumption, FS_CardinalityType
  <2>3. \A s \in Narrow(S, own) : Newness[s] \in 1..Cardinality(Sources)
        BY <2>1, AvailabilityAssumption
  <2>4. Top(Narrow(S, own), Newness) \in Narrow(S, own)
        BY <2>1, <2>2, <2>3, TopIn
  <2>5. FirstOf(S, v) = {Top(Narrow(S, own), Newness)}
        BY <1>2 DEF FirstOf
  <2>6. QED  BY <2>1, <2>4, <2>5
<1>3. QED  BY <1>1, <1>2

\* A library recording is played by a variant of its own.
LEMMA ChosenIn ==
    ASSUME NEW db, NEW c \in LibraryRecordings
    PROVE  Chosen(db, c) \in Recordings /\ LibraryOf[Chosen(db, c)] = c
<1> DEFINE all == {v \in Recordings : LibraryOf[v] = c}
           some == Narrow(Narrow(Narrow(all, db.liked), PresentHere(db)), CachedHere(db))
<1>1. all # {}
      BY DEF LibraryRecordings
<1>2. some \subseteq all /\ some # {}
  <2> HIDE DEF all
  <2>1. QED  BY <1>1, NarrowIn
<1>3. Cardinality(Recordings) \in Nat
      BY AvailabilityAssumption, FS_CardinalityType
<1>4. \A v \in some : Grade[v] \in 1..Cardinality(Recordings)
      BY <1>2, AvailabilityAssumption
<1>5. Chosen(db, c) = Top(some, Grade)
      BY DEF Chosen
<1> HIDE DEF some
<1>6. Top(some, Grade) \in some
      BY <1>2, <1>3, <1>4, TopIn
<1>7. QED  BY <1>2, <1>5, <1>6

LEMMA ResolvedIn ==
    ASSUME NEW db, NEW r \in Requests
    PROVE  Resolved(db, r) \in Recordings
BY ChosenIn DEF Resolved, Requests, Exact

LEMMA Queries ==
    ASSUME NEW db, NEW v, NEW exact
    PROVE  /\ OwnFiles(db, v, exact) \in SUBSET Sources /\ OwnCopies(db, v, exact) \in SUBSET Sources
           /\ OwnFiles(db, v, exact) \ db.gone \in SUBSET Sources
           /\ Candidates(v, exact) \in SUBSET Sources
BY DEF OwnFiles, OwnCopies, Candidates

\* What the single look-ups and those for many find.
LEMMA LookupsFind ==
    ASSUME NEW db, NEW v, NEW exact
    PROVE  /\ File(db, v, exact) # {} => FilesOf(db, v, exact) # {}
           /\ FilesOf(db, v, exact) # {} => OwnFiles(db, v, exact) # {}
           /\ CopiesOf(db, v, exact) # {} => Copy(db, v, exact) # {}
           /\ Copy(db, v, exact) # {} <=> OwnCopies(db, v, exact) # {}
<1>1. /\ FirstOf(OwnFiles(db, v, exact), v) \subseteq OwnFiles(db, v, exact)
      /\ FirstOf(OwnFiles(db, v, exact) \ db.gone, v) = {} <=> OwnFiles(db, v, exact) \ db.gone = {}
      /\ FirstOf(OwnCopies(db, v, exact), v) = {} <=> OwnCopies(db, v, exact) = {}
      BY Queries, FirstOfIn
<1>2. QED  BY <1>1 DEF File, FilesOf, Copy, CopiesOf

\* What the devices have of the files that may stand for v.
Shares(db, v, exact) ==
    [d \in {m \in Machines : db.role[m] # "none"} |->
        [source |-> \E s \in Candidates(v, exact) \cap db.present : OwnerOf[s] = d,
         made   |-> \E s \in Candidates(v, exact) \cap db.encoded : OwnerOf[s] = d,
         cached |-> \E s \in Candidates(v, exact) : <<d, s>> \in db.cached]]

Caching(items) == {d \in DOMAIN items \ {Here} : items[d].cached}
Giving(db, items) == {d \in DOMAIN items \ {Here} : items[d].source /\ Provider(db, d)}

\* The facts of the list are those of the devices' items, and the copies of devices that left.
LEMMA FactsAgree ==
    ASSUME NEW db \in Databases, NEW v, NEW exact
    PROVE  LET items == Shares(db, v, exact)
               f == Facts(db, v, exact)
           IN  /\ f.localSource <=> items[Here].source
               /\ f.localCached <=> items[Here].cached
               /\ f.remoteCached <=> Caching(items) # {} \/ Departed(db, v, exact) # {}
               /\ f.cachedOnline <=> \/ Caching(items) \cap db.seen # {}
                                     \/ Departed(db, v, exact) \cap db.seen # {}
               /\ f.remoteSource <=> Giving(db, items) # {}
               /\ f.sourceOnline <=> Giving(db, items) \cap db.seen # {}
<1> DEFINE items == Shares(db, v, exact)
           may == Candidates(v, exact)
           members == {m \in Machines : db.role[m] # "none"}
           owners == {OwnerOf[s] : s \in may \cap db.present}
           holders == {c[1] : c \in {x \in db.cached : x[2] \in may}}
<1>1. may \subseteq Sources
      BY Queries
<1>2. db.cached \subseteq Machines \X Sources /\ Here \in members /\ OwnerOf \in [Sources -> Machines]
      BY AvailabilityAssumption DEF Content
<1>3. DOMAIN items = members
      BY DEF Shares
<1>4. \A d \in members : /\ items[d].source <=> d \in owners
                         /\ items[d].cached <=> d \in holders
  <2>1. SUFFICES ASSUME NEW d \in members
                 PROVE  /\ (\E s \in may \cap db.present : OwnerOf[s] = d) <=> d \in owners
                        /\ (\E s \in may : <<d, s>> \in db.cached) <=> d \in holders
        BY DEF Shares
  <2>2. ASSUME NEW s \in may, <<d, s>> \in db.cached PROVE d \in holders
    <3>1. <<d, s>>[1] = d /\ <<d, s>>[2] = s
          OBVIOUS
    <3>2. QED  BY <2>2, <3>1
  <2>3. ASSUME NEW c \in db.cached, c[2] \in may, d = c[1] PROVE \E s \in may : <<d, s>> \in db.cached
    <3>1. c = <<c[1], c[2]>>
          BY <1>2
    <3>2. QED  BY <2>3, <3>1
  <2>4. QED  BY <2>2, <2>3
<1>5. /\ owners \subseteq Machines /\ holders \subseteq Machines
      /\ \A d \in Machines : d \in holders <=> \E s \in may : <<d, s>> \in db.cached
  <2>1. owners \subseteq Machines /\ holders \subseteq Machines
        BY <1>1, <1>2
  <2>2. ASSUME NEW d \in Machines, NEW s \in may, <<d, s>> \in db.cached PROVE d \in holders
    <3>1. <<d, s>>[1] = d /\ <<d, s>>[2] = s
          OBVIOUS
    <3>2. QED  BY <2>2, <3>1
  <2>3. ASSUME NEW c \in db.cached, c[2] \in may PROVE \E s \in may : <<c[1], s>> \in db.cached
    <3>1. c = <<c[1], c[2]>>
          BY <1>2
    <3>2. QED  BY <2>3, <3>1
  <2>4. QED  BY <2>1, <2>2, <2>3
<1>6. \A d \in Machines : Provider(db, d) => d \in members
      BY DEF Provider
<1> HIDE DEF items, may, owners, holders, members
<1>7. holders \ {Here} = Caching(items) \cup Departed(db, v, exact)
  <2>1. Departed(db, v, exact) = holders \ members
        BY <1>5 DEF Departed, members, may
  <2>2. Caching(items) = (holders \cap members) \ {Here}
        BY <1>3, <1>4 DEF Caching
  <2>3. Here \in members
        BY <1>2
  <2>4. QED  BY <2>1, <2>2, <2>3
<1>8. Giving(db, items) = {d \in owners \ {Here} : Provider(db, d)}
      BY <1>3, <1>4, <1>5, <1>6 DEF Giving
<1>9. /\ Facts(db, v, exact).remoteCached <=> (holders \ {Here} # {})
      /\ Facts(db, v, exact).cachedOnline <=> ((holders \ {Here}) \cap db.seen # {})
      /\ Facts(db, v, exact).remoteSource <=> ({d \in owners \ {Here} : Provider(db, d)} # {})
      /\ Facts(db, v, exact).sourceOnline <=> ({d \in owners \ {Here} : Provider(db, d)} \cap db.seen # {})
      /\ Facts(db, v, exact).localSource <=> (Here \in owners)
      /\ Facts(db, v, exact).localCached <=> (Here \in holders)
      BY DEF Facts, may, owners, holders
<1>10. Here \in members
       BY <1>2
<1>11. QED  BY <1>4, <1>7, <1>8, <1>9, <1>10 DEF items

\* What a list says of a recording, and what its own page says.
Listed(db, r) ==
    Verdict(db, FilesOf(db, Resolved(db, r), Exact(r)) # {}, CopiesOf(db, Resolved(db, r), Exact(r)) # {},
            Facts(db, Resolved(db, r), Exact(r)))

LEMMA VerdictSame ==
    ASSUME NEW db, NEW file, NEW copy, NEW f, NEW g,
           f.remoteCached <=> g.remoteCached, f.cachedOnline <=> g.cachedOnline,
           f.remoteSource <=> g.remoteSource, f.sourceOnline <=> g.sourceOnline
    PROVE  Verdict(db, file, copy, f) = Verdict(db, file, copy, g)
BY DEF Verdict

LEMMA SingleVerdict ==
    ASSUME NEW db, NEW r
    PROVE  LET v == Resolved(db, r)
               items == Shares(db, v, Exact(r))
           IN  Single(db, r) = Verdict(db, File(db, v, Exact(r)) # {}, Copy(db, v, Exact(r)) # {},
                   [remoteCached |-> Caching(items) # {},
                    cachedOnline |-> Caching(items) \cap db.seen # {},
                    remoteSource |-> Giving(db, items) # {},
                    sourceOnline |-> Giving(db, items) \cap db.seen # {}])
BY DEF Single, Items, Shares, Caching, Giving

LEMMA VerdictKinds ==
    ASSUME NEW db, NEW file \in BOOLEAN, NEW copy \in BOOLEAN, NEW f, f.remoteCached \in BOOLEAN
    PROVE  LET verdict == Verdict(db, file, copy, f)
           IN  /\ file => verdict = "localFile"
               /\ ~file /\ copy => verdict = "cached"
               /\ ~file /\ ~copy => verdict \notin {"localFile", "cached"}
               /\ ~file /\ ~copy /\ f.remoteCached =>
                      verdict \in {"remote", "providerOffline", "networkOff"}
BY DEF Verdict

LEMMA ListedAndShown ==
    ASSUME NEW db \in Databases, NEW r \in Requests, NEW v, v = Resolved(db, r), NEW e, e = Exact(r)
    PROVE  /\ File(db, v, e) # {} => Listed(db, r) = "localFile" /\ Single(db, r) = "localFile"
           /\ FirstGone(db, v, e) /\ FilesOf(db, v, e) # {} =>
                 Listed(db, r) = "localFile" /\ Single(db, r) # "localFile"
           /\ FilesOf(db, v, e) = {} /\ Copy(db, v, e) # {} =>
                 /\ Single(db, r) = "cached"
                 /\ IF CopiesOf(db, v, e) = {} THEN Listed(db, r) \notin {"localFile", "cached"}
                                               ELSE Listed(db, r) = "cached"
           /\ FilesOf(db, v, e) \cup Copy(db, v, e) = {} =>
                 IF Departed(db, v, e) = {} THEN Listed(db, r) = Single(db, r)
                 ELSE /\ Listed(db, r) \in {"remote", "providerOffline", "networkOff"}
                      /\ Single(db, r) \notin {"localFile", "cached"}
<1> DEFINE items == Shares(db, v, e)
           f == Facts(db, v, e)
           g == [remoteCached |-> Caching(items) # {}, cachedOnline |-> Caching(items) \cap db.seen # {},
                 remoteSource |-> Giving(db, items) # {},
                 sourceOnline |-> Giving(db, items) \cap db.seen # {}]
           oneFile == File(db, v, e) # {}
           someFile == FilesOf(db, v, e) # {}
           oneCopy == Copy(db, v, e) # {}
           someCopy == CopiesOf(db, v, e) # {}
<1>1. Single(db, r) = Verdict(db, oneFile, oneCopy, g)
      BY SingleVerdict
<1>2. Listed(db, r) = Verdict(db, someFile, someCopy, f)
      BY DEF Listed
<1>3. /\ f.remoteCached <=> g.remoteCached \/ Departed(db, v, e) # {}
      /\ Departed(db, v, e) = {} => /\ f.cachedOnline <=> g.cachedOnline
                                    /\ f.remoteSource <=> g.remoteSource
                                    /\ f.sourceOnline <=> g.sourceOnline
      BY FactsAgree
<1>4. f.remoteCached \in BOOLEAN /\ g.remoteCached \in BOOLEAN
      BY DEF Facts
<1>5. /\ oneFile => someFile
      /\ someCopy => oneCopy
      /\ FirstGone(db, v, e) => ~oneFile
      BY LookupsFind DEF FirstGone
<1>6. /\ oneFile \in BOOLEAN /\ someFile \in BOOLEAN /\ oneCopy \in BOOLEAN /\ someCopy \in BOOLEAN
      OBVIOUS
<1> HIDE DEF f, g, oneFile, someFile, oneCopy, someCopy
<1>7. /\ oneFile => Single(db, r) = "localFile"
      /\ ~oneFile /\ oneCopy => Single(db, r) = "cached"
      /\ ~oneFile => Single(db, r) # "localFile"
      /\ ~oneFile /\ ~oneCopy => Single(db, r) \notin {"localFile", "cached"}
      BY <1>1, <1>4, <1>6, VerdictKinds
<1>8. /\ someFile => Listed(db, r) = "localFile"
      /\ ~someFile /\ someCopy => Listed(db, r) = "cached"
      /\ ~someFile /\ ~someCopy => Listed(db, r) \notin {"localFile", "cached"}
      /\ ~someFile /\ ~someCopy /\ Departed(db, v, e) # {} =>
            Listed(db, r) \in {"remote", "providerOffline", "networkOff"}
      BY <1>2, <1>3, <1>4, <1>6, VerdictKinds
<1>9. ASSUME ~someFile, ~oneCopy, Departed(db, v, e) = {} PROVE Listed(db, r) = Single(db, r)
  <2>1. oneFile = someFile /\ oneCopy = someCopy
        BY <1>5, <1>6, <1>9
  <2>2. Verdict(db, someFile, someCopy, f) = Verdict(db, someFile, someCopy, g)
        BY <1>3, <1>9, VerdictSame
  <2>3. QED  BY <1>1, <1>2, <2>1, <2>2
<1>10. QED  BY <1>5, <1>7, <1>8, <1>9 DEF oneFile, someFile, oneCopy, someCopy

LEMMA BatchListed ==
    ASSUME NEW db, NEW R, NEW r \in R
    PROVE  Batch(db, R)[r].state = Listed(db, r) /\ Batch(db, R)[r].pinned = (r \in Pins(db, R))
<1>1. ResolvedAll(db, R)[r] = Resolved(db, r)
      BY DEF ResolvedAll, Resolved
<1>2. QED  BY <1>1 DEF Batch, Listed

LEMMA PinsApart ==
    ASSUME NEW db, NEW r \in Requests
    PROVE  r \in Pins(db, Requests) <=> r \in Pins(db, {r})
<1> DEFINE asked(R) == {v \in Recordings : v \in R \/ LibraryOf[v] \in R}
           clusters(R) == {LibraryOf[v] : v \in asked(R)}
           rows(R) == {p \in db.pins : p.cluster \in clusters(R) \/ p.variant \in asked(R)}
           logically(R) == \E p \in rows(R) : /\ p.cluster = r
                                              /\ p.logical \/ p.variant = ResolvedAll(db, clusters(R))[r]
<1>1. ASSUME NEW R, r \in R
      PROVE  r \in Pins(db, R) <=> (IF r \in asked(R) THEN \E p \in rows(R) : p.variant = r ELSE logically(R))
      BY <1>1 DEF Pins
<1>2. CASE r \in Recordings
  <2>1. ASSUME NEW R, r \in R PROVE r \in Pins(db, R) <=> \E p \in db.pins : p.variant = r
        BY <1>1, <1>2, <2>1
  <2>2. QED  BY <2>1
<1>3. CASE r \notin Recordings
  <2>1. ASSUME NEW R, r \in R
        PROVE  /\ r \notin asked(R) /\ r \in clusters(R)
               /\ ResolvedAll(db, clusters(R))[r] = Chosen(db, r)
    <3>1. r \notin asked(R)
          BY <1>3
    <3>2. PICK v \in Recordings : LibraryOf[v] = r
          BY <1>3 DEF Requests, LibraryRecordings
    <3>3. v \in asked(R)
          BY <2>1, <3>2
    <3>4. r \in clusters(R)
          BY <3>2, <3>3
    <3> HIDE DEF clusters
    <3>5. QED  BY <1>3, <3>1, <3>4 DEF ResolvedAll, Exact
  <2>2. ASSUME NEW R, r \in R
        PROVE  r \in Pins(db, R) <=>
                 \E p \in db.pins : p.cluster = r /\ (p.logical \/ p.variant = Chosen(db, r))
    <3>1. r \in Pins(db, R) <=> logically(R)
          BY <1>1, <2>1, <2>2
    <3>2. r \in clusters(R) /\ ResolvedAll(db, clusters(R))[r] = Chosen(db, r)
          BY <2>1, <2>2
    <3> HIDE DEF clusters
    <3>3. QED  BY <3>1, <3>2
  <2>3. QED  BY <2>2
<1>4. QED  BY <1>2, <1>3

LEMMA BatchesAgree ==
    ASSUME tables \subseteq Databases
    PROVE  BatchAgrees
<1> DEFINE cases(db, r, v, e, listed, shown) ==
             CASE FirstGone(db, v, e) /\ FilesOf(db, v, e) # {} ->
                    listed = "localFile" /\ shown # "localFile"
               [] FilesOf(db, v, e) = {} /\ Copy(db, v, e) # {} /\ CopiesOf(db, v, e) = {} ->
                    shown = "cached" /\ listed \notin {"localFile", "cached"}
               [] FilesOf(db, v, e) \cup Copy(db, v, e) = {} /\ Departed(db, v, e) # {} ->
                    /\ listed \in {"remote", "providerOffline", "networkOff"}
                    /\ shown \notin {"localFile", "cached"}
               [] OTHER -> listed = shown
<1>1. SUFFICES ASSUME NEW db \in tables, NEW r \in Requests
               PROVE  /\ Batch(db, Requests)[r].pinned = (r \in Pins(db, {r}))
                      /\ cases(db, r, Resolved(db, r), Exact(r), Batch(db, Requests)[r].state,
                               Single(db, r))
      BY DEF BatchAgrees
<1>2. db \in Databases
      BY <1>1
<1>3. PICK v, e : v = Resolved(db, r) /\ e = Exact(r)
      OBVIOUS
<1>4. cases(db, r, v, e, Listed(db, r), Single(db, r))
  <2>1. CASE File(db, v, e) # {}
    <3>1. Listed(db, r) = Single(db, r) /\ FilesOf(db, v, e) # {} /\ ~FirstGone(db, v, e)
          BY <1>2, <1>3, <2>1, ListedAndShown, LookupsFind DEF FirstGone
    <3>2. QED  BY <3>1
  <2>2. CASE File(db, v, e) = {} /\ FilesOf(db, v, e) # {}
    <3>1. FirstGone(db, v, e)
          BY <2>2, LookupsFind DEF FirstGone
    <3>2. Listed(db, r) = "localFile" /\ Single(db, r) # "localFile"
          BY <1>2, <1>3, <2>2, <3>1, ListedAndShown
    <3>3. QED  BY <2>2, <3>1, <3>2
  <2>3. CASE FilesOf(db, v, e) = {} /\ Copy(db, v, e) # {}
    <3>1. /\ Single(db, r) = "cached"
          /\ IF CopiesOf(db, v, e) = {} THEN Listed(db, r) \notin {"localFile", "cached"}
                                        ELSE Listed(db, r) = "cached"
          BY <1>2, <1>3, <2>3, ListedAndShown
    <3>2. QED  BY <2>3, <3>1
  <2>4. CASE FilesOf(db, v, e) = {} /\ Copy(db, v, e) = {}
    <3>1. FilesOf(db, v, e) \cup Copy(db, v, e) = {}
          BY <2>4
    <3>2. IF Departed(db, v, e) = {} THEN Listed(db, r) = Single(db, r)
          ELSE /\ Listed(db, r) \in {"remote", "providerOffline", "networkOff"}
               /\ Single(db, r) \notin {"localFile", "cached"}
          BY <1>2, <1>3, <3>1, ListedAndShown
    <3>3. QED  BY <2>4, <3>1, <3>2
  <2>5. QED  BY <2>1, <2>2, <2>3, <2>4
<1> HIDE DEF cases
<1>5. QED  BY <1>3, <1>4, BatchListed, PinsApart

-----------------------------------------------------------------------------
\* What is shown is what is played.

\* A variant's own files go before those of its cluster.
LEMMA OwnFirst ==
    ASSUME NEW db, NEW v, OwnFiles(db, v, TRUE) # {}
    PROVE  File(db, v, FALSE) = File(db, v, TRUE)
<1> DEFINE own == {s \in Sources : VariantOf[s] = v}
<1>1. OwnFiles(db, v, TRUE) = OwnFiles(db, v, FALSE) \cap own
      BY DEF OwnFiles, Candidates
<1>2. /\ Narrow(OwnFiles(db, v, FALSE), own) = OwnFiles(db, v, FALSE) \cap own
      /\ Narrow(OwnFiles(db, v, TRUE), own) = OwnFiles(db, v, FALSE) \cap own
      BY <1>1 DEF Narrow
<1>3. OwnFiles(db, v, FALSE) # {}
      BY <1>1
<1>4. FirstOf(OwnFiles(db, v, FALSE), v) = FirstOf(OwnFiles(db, v, TRUE), v)
      BY <1>2, <1>3 DEF FirstOf
<1>5. QED  BY <1>4 DEF File

LEMMA ChosenPlays ==
    ASSUME NEW db, NEW c \in LibraryRecordings, NEW v, v = Chosen(db, c)
    PROVE  /\ \A s \in FilesOf(db, v, FALSE) :
                 FilesOf(db, v, TRUE) # {} => VariantOf[s] = v
           /\ \A s \in Copy(db, v, FALSE) :
                 Copy(db, v, TRUE) # {} => VariantOf[s] = v
           /\ Single(db, v) = "localFile" => Single(db, c) = "localFile"
<1> DEFINE own == {s \in Sources : VariantOf[s] = v}
<1>1. v \in Recordings /\ LibraryOf[v] = c /\ c \notin Recordings
      BY ChosenIn, LibraryApart DEF LibraryRecordings
<1>2. Candidates(v, TRUE) = own /\ own \subseteq Candidates(v, FALSE)
      BY DEF Candidates
<1>3. /\ OwnFiles(db, v, TRUE) = OwnFiles(db, v, FALSE) \cap own
      /\ OwnCopies(db, v, TRUE) = OwnCopies(db, v, FALSE) \cap own
      BY <1>2 DEF OwnFiles, OwnCopies
<1>4. ASSUME NEW s \in FilesOf(db, v, FALSE), FilesOf(db, v, TRUE) # {} PROVE VariantOf[s] = v
  <2>1. OwnFiles(db, v, TRUE) \ db.gone # {}
        BY <1>4, Queries, FirstOfIn DEF FilesOf
  <2>2. \E t \in OwnFiles(db, v, FALSE) \ db.gone : VariantOf[t] = v
        BY <1>3, <2>1
  <2>3. \A t \in FirstOf(OwnFiles(db, v, FALSE) \ db.gone, v) : VariantOf[t] = v
    <3>1. OwnFiles(db, v, FALSE) \ db.gone \in SUBSET Sources
          BY Queries
    <3>2. QED  BY <2>2, <3>1, FirstOfIn
  <2>4. QED  BY <1>4, <2>3 DEF FilesOf
<1>5. ASSUME NEW s \in Copy(db, v, FALSE), Copy(db, v, TRUE) # {} PROVE VariantOf[s] = v
  <2>1. OwnCopies(db, v, TRUE) # {}
        BY <1>5, Queries, FirstOfIn DEF Copy
  <2>2. \E t \in OwnCopies(db, v, FALSE) : VariantOf[t] = v
        BY <1>3, <2>1
  <2>3. \A t \in FirstOf(OwnCopies(db, v, FALSE), v) : VariantOf[t] = v
    <3>1. OwnCopies(db, v, FALSE) \in SUBSET Sources
          BY Queries
    <3>2. QED  BY <2>2, <3>1, FirstOfIn
  <2>4. QED  BY <1>5, <2>3 DEF Copy
<1>6. ASSUME Single(db, v) = "localFile" PROVE Single(db, c) = "localFile"
  <2>1. Resolved(db, v) = v /\ Exact(v) = TRUE /\ Resolved(db, c) = v /\ Exact(c) = FALSE
        BY <1>1 DEF Resolved, Exact
  <2>2. File(db, v, TRUE) # {}
        BY <1>6, <2>1 DEF Single, Verdict
  <2>3. File(db, v, FALSE) = File(db, v, TRUE)
        BY <2>2, LookupsFind, OwnFirst
  <2>4. QED  BY <2>1, <2>2, <2>3 DEF Single, Verdict
<1>7. QED  BY <1>4, <1>5, <1>6

LEMMA ChosenOnesPlay == PlaysTheChosen
BY ChosenPlays DEF PlaysTheChosen

\* The tables after an encoding was made; what is looked up is as before but for the copies here.
LEMMA EncodedTables ==
    ASSUME NEW db \in Databases, NEW v
    PROVE  LET after == Encoded(db, v)
           IN  /\ after.present = db.present /\ after.gone = db.gone /\ after.role = db.role
               /\ after.seen = db.seen /\ after.network = db.network /\ after.liked = db.liked
               /\ \/ after.cached = db.cached
                  \/ after.cached = db.cached \cup ({Here} \X File(db, v, FALSE))
<1>1. db \in Content
      BY AvailabilityAssumption
<1>2. QED  BY <1>1 DEF Encoded, Content, File

\* Nothing can be encoded here that would be served: there is no file, or it is
\* of another variant than the one that was asked for.
LEMMA EncodingAddsNothing ==
    ASSUME NEW db \in Databases, NEW r \in Requests, NEW v, v = Resolved(db, r),
           File(db, v, Exact(r)) = {}, OwnCopies(db, v, Exact(r)) = {},
           NEW after, after = Encoded(db, v)
    PROVE  Copy(after, v, Exact(r)) = {} /\ Single(after, r) = Single(db, r)
<1> DEFINE e == Exact(r)
           from == File(db, v, FALSE)
<1>1. /\ after.present = db.present /\ after.gone = db.gone /\ after.role = db.role
      /\ after.seen = db.seen /\ after.network = db.network /\ after.liked = db.liked
      /\ after.cached = db.cached \/ after.cached = db.cached \cup ({Here} \X from)
      BY EncodedTables
<1>2. e \in BOOLEAN
      BY DEF Exact
<1>3. ~e => from = {}
      BY <1>2
<1>4. e => OwnFiles(db, v, TRUE) = {} \/ from = {}
      BY <1>2, OwnFirst
<1>5. from \cap Candidates(v, e) = {}
  <2>1. CASE from = {}
        BY <2>1
  <2>2. CASE e /\ OwnFiles(db, v, TRUE) = {}
    <3>1. OwnFiles(db, v, FALSE) \in SUBSET Sources
          BY Queries
    <3>2. from \subseteq OwnFiles(db, v, FALSE)
          BY <3>1, FirstOfIn DEF File
    <3>3. OwnFiles(db, v, FALSE) \cap Candidates(v, TRUE) \subseteq OwnFiles(db, v, TRUE)
          BY DEF OwnFiles
    <3>4. e = TRUE
          BY <1>2, <2>2
    <3>5. QED  BY <2>2, <3>2, <3>3, <3>4
  <2>3. QED  BY <1>2, <1>3, <1>4, <2>1, <2>2
<1>6. \A d \in Machines : \A s \in Candidates(v, e) : <<d, s>> \in after.cached <=> <<d, s>> \in db.cached
  <2>1. SUFFICES ASSUME NEW d \in Machines, NEW s \in Candidates(v, e), <<d, s>> \in {Here} \X from
                 PROVE  FALSE
        BY <1>1
  <2>2. s \in from
        BY <2>1
  <2>3. QED  BY <1>5, <2>2
<1>7. Here \in Machines
      BY AvailabilityAssumption
<1>8. OwnCopies(after, v, e) = {} /\ OwnCopies(db, v, e) = {}
      BY <1>6, <1>7 DEF OwnCopies
<1>9. Copy(after, v, e) = {} /\ Copy(db, v, e) = {}
      BY <1>8 DEF Copy, FirstOf
<1>10. File(after, v, e) = File(db, v, e)
      BY <1>1 DEF File, OwnFiles
<1>11. Resolved(after, r) = v
  <2>1. CASE e
        BY <2>1 DEF Resolved
  <2>2. CASE ~e
    <3>1. from = {}
          BY <1>3, <2>2
    <3>2. after.cached = db.cached
          BY <1>1, <3>1
    <3>3. PresentHere(after) = PresentHere(db) /\ CachedHere(after) = CachedHere(db)
          BY <1>1, <3>2 DEF PresentHere, CachedHere
    <3>4. QED  BY <1>1, <3>3 DEF Resolved, Chosen
  <2>3. QED  BY <1>2, <2>1, <2>2
<1> HIDE DEF e, from
<1>12. /\ Caching(Shares(after, v, e)) = Caching(Shares(db, v, e))
       /\ Giving(after, Shares(after, v, e)) = Giving(db, Shares(db, v, e))
  <2> DEFINE new == Shares(after, v, e)
             old == Shares(db, v, e)
             members == {m \in Machines : db.role[m] # "none"}
  <2>1. DOMAIN new = members /\ DOMAIN old = members
        BY <1>1 DEF Shares
  <2>2. ASSUME NEW d \in members
        PROVE  (new[d].source <=> old[d].source) /\ (new[d].cached <=> old[d].cached)
    <3>1. d \in Machines /\ \A s \in Candidates(v, e) : <<d, s>> \in after.cached <=> <<d, s>> \in db.cached
          BY <1>6
    <3>2. QED  BY <1>1, <3>1 DEF Shares
  <2> HIDE DEF new, old, members
  <2>3. Caching(new) = Caching(old)
        BY <2>1, <2>2 DEF Caching
  <2>4. Giving(after, new) = Giving(db, old)
    <3>1. \A d : Provider(after, d) <=> Provider(db, d)
          BY <1>1 DEF Provider
    <3>2. QED  BY <2>1, <2>2, <3>1 DEF Giving
  <2>5. QED  BY <2>3, <2>4 DEF new, old
<1>13. Single(after, r) = Single(db, r)
  <2>1. \A f : Verdict(after, File(after, v, e) # {}, Copy(after, v, e) # {}, f)
             = Verdict(db, File(db, v, e) # {}, Copy(db, v, e) # {}, f)
        BY <1>1, <1>9, <1>10 DEF Verdict
  <2> DEFINE facts(t) == [remoteCached |-> Caching(Shares(t, v, e)) # {},
                          cachedOnline |-> Caching(Shares(t, v, e)) \cap t.seen # {},
                          remoteSource |-> Giving(t, Shares(t, v, e)) # {},
                          sourceOnline |-> Giving(t, Shares(t, v, e)) \cap t.seen # {}]
  <2>2. facts(after) = facts(db)
        BY <1>1, <1>12
  <2>3. Single(after, r) = Verdict(after, File(after, v, e) # {}, Copy(after, v, e) # {}, facts(after))
        BY <1>11, SingleVerdict DEF e
  <2>4. Single(db, r) = Verdict(db, File(db, v, e) # {}, Copy(db, v, e) # {}, facts(db))
        BY SingleVerdict DEF e
  <2> HIDE DEF facts
  <2>5. QED  BY <2>1, <2>2, <2>3, <2>4
<1>14. QED  BY <1>9, <1>13 DEF e

LEMMA WhatIsShownPlays ==
    ASSUME NEW db \in Databases, NEW r \in Requests, NEW v, v = Resolved(db, r), NEW e, e = Exact(r)
    PROVE  Ensure(db, r) = IF File(db, v, e) = {} /\ \E s \in Copy(db, v, e) : s \in db.lost
                           THEN "error" ELSE Single(db, r)
<1> DEFINE after == Encoded(db, v)
<1>1. CASE File(db, v, e) # {}
  <2>1. Ensure(db, r) = "localFile"
        BY <1>1 DEF Ensure
  <2>2. QED  BY <1>1, <2>1, ListedAndShown
<1>2. CASE File(db, v, e) = {} /\ Copy(db, v, e) # {}
  <2>1. Ensure(db, r) = ServedCopy(db, Copy(db, v, e))
        BY <1>2 DEF Ensure
  <2>2. (Copy(db, v, e) \subseteq db.lost) <=> \E s \in Copy(db, v, e) : s \in db.lost
        BY <1>2 DEF Copy, FirstOf
  <2>3. Single(db, r) = "cached"
    <3>1. Single(db, r) = Verdict(db, FALSE, TRUE,
                [remoteCached |-> Caching(Shares(db, v, e)) # {},
                 cachedOnline |-> Caching(Shares(db, v, e)) \cap db.seen # {},
                 remoteSource |-> Giving(db, Shares(db, v, e)) # {},
                 sourceOnline |-> Giving(db, Shares(db, v, e)) \cap db.seen # {}])
          BY <1>2, SingleVerdict
    <3>2. QED  BY <3>1 DEF Verdict
  <2>4. QED  BY <1>2, <2>1, <2>2, <2>3 DEF ServedCopy
<1>3. CASE File(db, v, e) = {} /\ Copy(db, v, e) = {}
  <2>1. Copy(after, v, e) = {} /\ Single(after, r) = Single(db, r)
        BY <1>3, LookupsFind, EncodingAddsNothing
  <2>2. Ensure(db, r) = Single(after, r)
        BY <1>3, <2>1 DEF Ensure
  <2>3. QED  BY <1>3, <2>1, <2>2
<1>4. QED  BY <1>1, <1>2, <1>3

LEMMA PagesServe ==
    ASSUME tables \subseteq Databases
    PROVE  ServedAsShown
<1>1. SUFFICES ASSUME NEW db \in tables, NEW r \in Requests
               PROVE  LET v == Resolved(db, r)   e == Exact(r)
                          blobGone == \E s \in Copy(db, v, e) : s \in db.lost
                      IN  Ensure(db, r) = IF File(db, v, e) = {} /\ blobGone THEN "error"
                                          ELSE Single(db, r)
      BY DEF ServedAsShown
<1>2. db \in Databases
      BY <1>1
<1>3. QED  BY <1>2, WhatIsShownPlays

-----------------------------------------------------------------------------
\* Album pages.

\* A library album is shown by a variant of its own.
LEMMA ChosenAlbumIn ==
    ASSUME NEW db, NEW c \in LibraryAlbums
    PROVE  ChosenAlbum(db, c) \in Albums
<1> DEFINE n == Cardinality(Recordings)
           all == {a \in Albums : AlbumCluster[a] = c}
           liked == Narrow(all, db.likedAlbums)
           local == {a \in liked : \A b \in liked : LocalTracks(db, a) >= LocalTracks(db, b)}
           some == {a \in local : \A b \in local : Cardinality(TracksOf[a]) >= Cardinality(TracksOf[b])}
           f == [a \in liked |-> LocalTracks(db, a)]
           h == [a \in local |-> Cardinality(TracksOf[a])]
<1>1. liked \subseteq Albums /\ liked # {}
  <2>1. all # {} /\ all \subseteq Albums
        BY DEF LibraryAlbums
  <2> HIDE DEF all
  <2>2. QED  BY <2>1, NarrowIn
<1>2. n \in Nat /\ \A T \in SUBSET Recordings : Cardinality(T) \in 0..n
  <2>1. IsFiniteSet(Recordings)
        BY AvailabilityAssumption
  <2>2. QED  BY <2>1, FS_CardinalityType, FS_Subset
<1>3. \A a \in Albums : TracksOf[a] \in SUBSET Recordings
      BY AvailabilityAssumption
<1> HIDE DEF n, liked
<1>4. f \in [liked -> 0..n]
      BY <1>1, <1>2, <1>3 DEF LocalTracks
<1>5. local # {} /\ local \subseteq liked
  <2>1. PICK a \in liked : \A b \in liked : f[a] >= f[b]
    <3> HIDE DEF f
    <3>1. QED  BY <1>1, <1>2, <1>4, LargestValue
  <2>2. QED  BY <2>1
<1> HIDE DEF local, f
<1>6. h \in [local -> 0..n]
      BY <1>1, <1>2, <1>3, <1>5
<1>7. some # {} /\ some \subseteq local
  <2>1. PICK a \in local : \A b \in local : h[a] >= h[b]
    <3> HIDE DEF h
    <3>1. QED  BY <1>2, <1>5, <1>6, LargestValue
  <2>2. QED  BY <2>1
<1>8. ChosenAlbum(db, c) = Top(some, AlbumGrade)
      BY DEF ChosenAlbum, liked, local
<1> HIDE DEF some, h
<1>9. Cardinality(Albums) \in Nat /\ \A a \in some : AlbumGrade[a] \in 1..Cardinality(Albums)
      BY <1>1, <1>5, <1>7, AvailabilityAssumption, FS_CardinalityType
<1>10. Top(some, AlbumGrade) \in some
      BY <1>7, <1>9, TopIn
<1>11. QED  BY <1>1, <1>5, <1>7, <1>8, <1>10

LEMMA ScopeIn ==
    ASSUME NEW db, NEW a \in Albums \cup LibraryAlbums
    PROVE  /\ AlbumScope(db, a).recordings \subseteq Requests
           /\ IsFiniteSet(AlbumScope(db, a).recordings)
<1> DEFINE variant == IF a \in Albums THEN a ELSE ChosenAlbum(db, a)
           library == {LibraryOf[v] : v \in TracksOf[variant]}
<1>1. variant \in Albums
      BY ChosenAlbumIn
<1>2. AlbumScope(db, a).recordings = IF a \in Albums THEN TracksOf[a] ELSE library
      BY DEF AlbumScope
<1> HIDE DEF variant
<1>3. TracksOf[variant] \subseteq Recordings /\ (a \in Albums => TracksOf[a] \subseteq Recordings)
      BY <1>1, AvailabilityAssumption
<1>4. IsFiniteSet(TracksOf[variant]) /\ (a \in Albums => IsFiniteSet(TracksOf[a]))
      BY <1>3, AvailabilityAssumption, FS_Subset
<1>5. IsFiniteSet(library)
  <2> DEFINE f == [v \in TracksOf[variant] |-> LibraryOf[v]]
  <2>1. f \in Surjection(TracksOf[variant], library)
        BY DEF Surjection
  <2> HIDE DEF f, library
  <2>2. QED  BY <1>4, <2>1, FS_Surjection
<1>6. library \subseteq LibraryRecordings
      BY <1>3 DEF LibraryRecordings
<1> HIDE DEF library
<1>7. QED  BY <1>2, <1>3, <1>4, <1>5, <1>6 DEF Requests

\* The tables say that r has a file, or a copy, here.
LEMMA LocalFacts ==
    ASSUME NEW db \in Databases, NEW v, NEW e
    PROVE  /\ Facts(db, v, e).localSource <=> OwnFiles(db, v, e) # {}
           /\ Facts(db, v, e).localCached <=> OwnCopies(db, v, e) # {}
<1>1. db.cached \subseteq Machines \X Sources
      BY AvailabilityAssumption DEF Content
<1>2. Facts(db, v, e).localSource <=> \E s \in Candidates(v, e) \cap db.present : OwnerOf[s] = Here
      BY DEF Facts
<1>3. Facts(db, v, e).localCached <=> \E c \in db.cached : c[2] \in Candidates(v, e) /\ c[1] = Here
      BY DEF Facts
<1>4. \A c \in db.cached : c = <<c[1], c[2]>>
      BY <1>1
<1>5. \A s : <<Here, s>>[1] = Here /\ <<Here, s>>[2] = s
      OBVIOUS
<1>6. Facts(db, v, e).localCached <=> \E s \in Candidates(v, e) : <<Here, s>> \in db.cached
      BY <1>3, <1>4, <1>5
<1>7. QED  BY <1>2, <1>6 DEF OwnFiles, OwnCopies

LEMMA TrackLocal ==
    ASSUME NEW db \in Databases, NEW r, NEW f, f = Facts(db, Resolved(db, r), Exact(r))
    PROVE  TrackIsLocal(db, r) <=> f.localSource \/ f.localCached
<1> DEFINE v == Resolved(db, r)
           e == Exact(r)
<1>1. Items(db, r) = Shares(db, v, e)
      BY DEF Items, Shares
<1>2. /\ f.localSource <=> Items(db, r)[Here].source
      /\ f.localCached <=> Items(db, r)[Here].cached
      BY <1>1, FactsAgree
<1>3. Single(db, r) = "localFile" => OwnFiles(db, v, e) # {}
  <2>1. OwnFiles(db, v, e) \in SUBSET Sources
        BY Queries
  <2>2. FirstOf(OwnFiles(db, v, e), v) \subseteq OwnFiles(db, v, e)
        BY <2>1, FirstOfIn
  <2>3. Single(db, r) = "localFile" => File(db, v, e) # {}
        BY DEF Single, Verdict
  <2>4. QED  BY <2>2, <2>3 DEF File
<1>4. Single(db, r) = "cached" => OwnCopies(db, v, e) # {}
  <2>1. Single(db, r) = "cached" => Copy(db, v, e) # {}
        BY DEF Single, Verdict
  <2>2. QED  BY <2>1 DEF Copy, FirstOf
<1>5. /\ OwnFiles(db, v, e) # {} <=> f.localSource
      /\ OwnCopies(db, v, e) # {} <=> f.localCached
      BY LocalFacts
<1>6. QED  BY <1>2, <1>3, <1>4, <1>5 DEF TrackIsLocal

\* What the album page counts beyond the tracks that are playable.
Beyond(db, r) ==
    LET v == Resolved(db, r)   e == Exact(r)   f == Facts(db, v, e) IN
    \/ FirstGone(db, v, e)
    \/ db.network /\ f.sourceOnline /\ f.remoteCached /\ ~f.cachedOnline
    \/ db.network /\ Departed(db, v, e) \cap db.seen # {}

\* The page of a recording and the facts that the album page counts by.
LEMMA TrackCounts ==
    ASSUME NEW db \in Databases, NEW r \in Requests,
           NEW f, f = Facts(db, Resolved(db, r), Exact(r))
    PROVE  /\ Summary(db, f).now <=>
                 \/ Single(db, r) \in {"localFile", "cached", "remote", "waitingTranscode"}
                 \/ Beyond(db, r)
           /\ f.localSource =>
                 Single(db, r) = "localFile" \/ FirstGone(db, Resolved(db, r), Exact(r))
           /\ ~Summary(db, f).now /\ ~Summary(db, f).offline => Single(db, r) = "noPath"
<1>1. PICK v, e : v = Resolved(db, r) /\ e = Exact(r)
      OBVIOUS
<1> DEFINE items == Shares(db, v, e)
           g == [remoteCached |-> Caching(items) # {}, cachedOnline |-> Caching(items) \cap db.seen # {},
                 remoteSource |-> Giving(db, items) # {},
                 sourceOnline |-> Giving(db, items) \cap db.seen # {}]
           file == File(db, v, e) # {}
           copy == Copy(db, v, e) # {}
           left == Departed(db, v, e) # {}
           leftOnline == Departed(db, v, e) \cap db.seen # {}
           first == FirstGone(db, v, e)
<1>2. Single(db, r) = Verdict(db, file, copy, g)
      BY <1>1, SingleVerdict
<1>3. /\ f.remoteCached <=> g.remoteCached \/ left
      /\ f.cachedOnline <=> g.cachedOnline \/ leftOnline
      /\ f.remoteSource <=> g.remoteSource
      /\ f.sourceOnline <=> g.sourceOnline
      BY <1>1, FactsAgree
<1>4. /\ g.cachedOnline => g.remoteCached
      /\ g.sourceOnline => g.remoteSource
      /\ leftOnline => left
      OBVIOUS
<1>5. /\ f.localSource <=> file \/ first
      /\ f.localCached <=> copy
      /\ first => ~file
      BY <1>1, LocalFacts, LookupsFind DEF FirstGone
<1>6. /\ f.localSource \in BOOLEAN /\ f.localCached \in BOOLEAN
      /\ f.remoteCached \in BOOLEAN /\ f.remoteSource \in BOOLEAN
      /\ f.cachedOnline \in BOOLEAN /\ f.sourceOnline \in BOOLEAN
      /\ g.remoteCached \in BOOLEAN /\ g.remoteSource \in BOOLEAN
      /\ g.cachedOnline \in BOOLEAN /\ g.sourceOnline \in BOOLEAN
      /\ file \in BOOLEAN /\ copy \in BOOLEAN /\ left \in BOOLEAN /\ leftOnline \in BOOLEAN
      BY DEF Facts
<1>7. db.network \in BOOLEAN
  <2>1. db \in Content
        BY AvailabilityAssumption
  <2>2. QED  BY <2>1 DEF Content
<1>8. Beyond(db, r) <=> \/ first
                        \/ db.network /\ f.sourceOnline /\ f.remoteCached /\ ~f.cachedOnline
                        \/ db.network /\ leftOnline
      BY <1>1 DEF Beyond
<1>9. /\ Summary(db, f).now <=>
            f.localSource \/ f.localCached \/ (db.network /\ (f.cachedOnline \/ f.sourceOnline))
      /\ Summary(db, f).offline <=> ~Summary(db, f).now /\ (f.remoteCached \/ f.remoteSource)
      BY DEF Summary
<1> HIDE DEF g, file, copy, left, leftOnline, first
<1>10. CASE file
       BY <1>2, <1>5, <1>6, <1>7, <1>8, <1>9, <1>10 DEF Verdict
<1>11. CASE ~file /\ copy
       BY <1>1, <1>2, <1>5, <1>6, <1>7, <1>8, <1>9, <1>11 DEF Verdict, first
<1>12. CASE ~file /\ ~copy /\ g.remoteCached
  <2>1. Single(db, r) = IF ~g.cachedOnline THEN "providerOffline"
                        ELSE IF db.network THEN "remote" ELSE "networkOff"
        BY <1>2, <1>12 DEF Verdict
  <2>2. QED  BY <1>1, <1>3, <1>4, <1>5, <1>6, <1>7, <1>8, <1>9, <1>12, <2>1 DEF first
<1>13. CASE ~file /\ ~copy /\ ~g.remoteCached /\ g.remoteSource
  <2>1. Single(db, r) = IF ~g.sourceOnline THEN "providerOffline"
                        ELSE IF db.network THEN "waitingTranscode" ELSE "networkOff"
        BY <1>2, <1>13 DEF Verdict
  <2>2. QED  BY <1>1, <1>3, <1>4, <1>5, <1>6, <1>7, <1>8, <1>9, <1>13, <2>1 DEF first
<1>14. CASE ~file /\ ~copy /\ ~g.remoteCached /\ ~g.remoteSource
  <2>1. Single(db, r) = "noPath"
        BY <1>2, <1>14 DEF Verdict
  <2>2. QED  BY <1>1, <1>3, <1>4, <1>5, <1>6, <1>7, <1>8, <1>9, <1>14, <2>1 DEF first
<1>15. QED  BY <1>6, <1>10, <1>11, <1>12, <1>13, <1>14

\* An aggregate state says what its counts are.
LEMMA AggregateCounts ==
    ASSUME NEW s, s.tracks \in Nat, s.sources \in 0..s.tracks, s.pinned \in 0..s.tracks,
           s.now \in Nat, s.offline \in Nat
    PROVE  /\ AggregateState(s) = "local" => s.sources = s.tracks
           /\ AggregateState(s) = "unavailable" /\ s.tracks > 0 => s.now = 0 /\ s.offline = 0
<1>1. CASE s.tracks = 0
      BY <1>1 DEF AggregateState
<1>2. CASE s.tracks > 0 /\ s.sources = s.tracks
      BY <1>2 DEF AggregateState
<1>3. CASE s.tracks > 0 /\ s.sources < s.tracks /\ s.pinned = s.tracks
      BY <1>3 DEF AggregateState
<1>4. CASE s.tracks > 0 /\ s.sources < s.tracks /\ s.pinned < s.tracks
      BY <1>4 DEF AggregateState
<1>5. QED  BY <1>1, <1>2, <1>3, <1>4

LEMMA SummaryCounts ==
    ASSUME NEW db, NEW a
    PROVE  LET R == AlbumScope(db, a).recordings
               s == AlbumSummary(db, a)
               f(r) == Facts(db, Resolved(db, r), Exact(r))
           IN  /\ s.tracks = Cardinality(R)
               /\ s.sources = Cardinality({r \in R : f(r).localSource})
               /\ s.local = Cardinality({r \in R : Summary(db, f(r)).local})
               /\ s.now = Cardinality({r \in R : Summary(db, f(r)).now})
               /\ s.offline = Cardinality({r \in R : Summary(db, f(r)).offline})
               /\ s.pinned = Cardinality(R) \/ s.pinned = Cardinality(Pins(db, R))
<1> DEFINE R == AlbumScope(db, a).recordings
           f(r) == Facts(db, Resolved(db, r), Exact(r))
           facts == [r \in R |-> Facts(db, ResolvedAll(db, R)[r], Exact(r))]
           sums == [r \in R |-> Summary(db, facts[r])]
<1>1. \A r \in R : facts[r] = f(r)
      BY DEF ResolvedAll, Resolved
<1>2. \A r \in R : sums[r] = Summary(db, f(r))
      BY <1>1
<1>3. /\ AlbumSummary(db, a).tracks = Cardinality(R)
      /\ AlbumSummary(db, a).sources = Cardinality({r \in R : facts[r].localSource})
      /\ AlbumSummary(db, a).local = Cardinality({r \in R : sums[r].local})
      /\ AlbumSummary(db, a).now = Cardinality({r \in R : sums[r].now})
      /\ AlbumSummary(db, a).offline = Cardinality({r \in R : sums[r].offline})
      /\ \/ AlbumSummary(db, a).pinned = Cardinality(R)
         \/ AlbumSummary(db, a).pinned = Cardinality(Pins(db, R))
      BY DEF AlbumSummary
<1> HIDE DEF facts, sums, f, R
<1>4. /\ {r \in R : facts[r].localSource} = {r \in R : f(r).localSource}
      /\ {r \in R : sums[r].local} = {r \in R : Summary(db, f(r)).local}
      /\ {r \in R : sums[r].now} = {r \in R : Summary(db, f(r)).now}
      /\ {r \in R : sums[r].offline} = {r \in R : Summary(db, f(r)).offline}
      BY <1>1, <1>2
<1>5. QED  BY <1>3, <1>4 DEF f, R

LEMMA AlbumsMatch ==
    ASSUME tables \subseteq Databases
    PROVE  AlbumMatchesTracks
<1> DEFINE playable(db, r) == Single(db, r) \in {"localFile", "cached", "remote", "waitingTranscode"}
           facts(db, r) == Facts(db, Resolved(db, r), Exact(r))
           gone(db, r) == FirstGone(db, Resolved(db, r), Exact(r))
           matches(db, R, s) ==
              /\ s.local = Cardinality({r \in R : TrackIsLocal(db, r)})
              /\ s.now = Cardinality({r \in R : playable(db, r) \/ Beyond(db, r)})
              /\ AggregateState(s) = "local" =>
                     \A r \in R : Single(db, r) = "localFile" \/ gone(db, r)
              /\ AggregateState(s) = "unavailable" => \A r \in R : Single(db, r) = "noPath"
<1>1. SUFFICES ASSUME NEW db \in tables, NEW a \in Albums \cup LibraryAlbums
               PROVE  matches(db, AlbumScope(db, a).recordings, AlbumSummary(db, a))
      BY DEF AlbumMatchesTracks, Beyond
<1> DEFINE R == AlbumScope(db, a).recordings
           s == AlbumSummary(db, a)
<1>2. db \in Databases
      BY <1>1
<1>3. R \subseteq Requests /\ IsFiniteSet(R)
      BY <1>1, ScopeIn
<1>4. /\ s.tracks = Cardinality(R)
      /\ s.sources = Cardinality({r \in R : facts(db, r).localSource})
      /\ s.local = Cardinality({r \in R : Summary(db, facts(db, r)).local})
      /\ s.now = Cardinality({r \in R : Summary(db, facts(db, r)).now})
      /\ s.offline = Cardinality({r \in R : Summary(db, facts(db, r)).offline})
      /\ s.pinned = Cardinality(R) \/ s.pinned = Cardinality(Pins(db, R))
      BY SummaryCounts
<1> HIDE DEF R, s
<1>5. s.local = Cardinality({r \in R : TrackIsLocal(db, r)})
  <2>1. \A r \in R : Summary(db, facts(db, r)).local <=> TrackIsLocal(db, r)
        BY <1>2, TrackLocal DEF Summary
  <2> HIDE DEF facts
  <2>2. {r \in R : Summary(db, facts(db, r)).local} = {r \in R : TrackIsLocal(db, r)}
        BY <2>1
  <2>3. QED  BY <1>4, <2>2
<1>6. /\ s.now = Cardinality({r \in R : playable(db, r) \/ Beyond(db, r)})
      /\ AggregateState(s) = "local" => \A r \in R : Single(db, r) = "localFile" \/ gone(db, r)
      /\ AggregateState(s) = "unavailable" => \A r \in R : Single(db, r) = "noPath"
  <2>1. ASSUME NEW r \in R
        PROVE  /\ Summary(db, facts(db, r)).now <=> playable(db, r) \/ Beyond(db, r)
               /\ facts(db, r).localSource => Single(db, r) = "localFile" \/ gone(db, r)
               /\ ~Summary(db, facts(db, r)).now /\ ~Summary(db, facts(db, r)).offline =>
                    Single(db, r) = "noPath"
        BY <1>2, <1>3, TrackCounts
  <2> HIDE DEF facts, playable, gone
  <2>2. {r \in R : Summary(db, facts(db, r)).now} = {r \in R : playable(db, r) \/ Beyond(db, r)}
        BY <2>1
  <2>3. \A T \in SUBSET R : /\ IsFiniteSet(T) /\ Cardinality(T) \in 0..Cardinality(R)
                            /\ Cardinality(T) = Cardinality(R) => T = R
                            /\ Cardinality(T) = 0 => T = {}
        BY <1>3, FS_Subset, FS_CardinalityType, FS_EmptySet
  <2>4. Cardinality(R) \in Nat
        BY <1>3, FS_CardinalityType
  <2>5. Pins(db, R) \subseteq R
        BY DEF Pins
  <2>6. /\ s.tracks \in Nat /\ s.sources \in 0..s.tracks /\ s.pinned \in 0..s.tracks
        /\ s.now \in Nat /\ s.offline \in Nat
        BY <1>4, <2>3, <2>4, <2>5
  <2>7. ASSUME AggregateState(s) = "local", NEW r \in R
        PROVE  Single(db, r) = "localFile" \/ gone(db, r)
    <3>1. s.sources = s.tracks
          BY <2>6, <2>7, AggregateCounts
    <3>2. {x \in R : facts(db, x).localSource} = R
          BY <1>4, <2>3, <3>1
    <3>3. QED  BY <2>1, <3>2
  <2>8. ASSUME AggregateState(s) = "unavailable", NEW r \in R PROVE Single(db, r) = "noPath"
    <3>1. s.tracks > 0
      <4>1. Cardinality(R) # 0
            BY <1>3, FS_EmptySet
      <4>2. QED  BY <1>4, <2>4, <4>1
    <3>2. s.now = 0 /\ s.offline = 0
          BY <2>6, <2>8, <3>1, AggregateCounts
    <3>3. /\ {x \in R : Summary(db, facts(db, x)).now} = {}
          /\ {x \in R : Summary(db, facts(db, x)).offline} = {}
          BY <1>4, <2>3, <3>2
    <3>4. QED  BY <2>1, <3>3
  <2>9. QED  BY <1>4, <2>2, <2>7, <2>8
<1>7. QED  BY <1>5, <1>6 DEF R, s

-----------------------------------------------------------------------------
\* Whatever is in the tables, the page of a recording, lists of recordings, album
\* pages and the player give one answer, but where the tables name a file or a blob
\* that is gone or copies of a device that left: there they differ in the one way that
\* AnswersAgree states (service_playback.go, service_transcode.go, service_catalog.go).
\* A look-up reads a content that the tables may have.
THEOREM AnswersAlwaysAgree ==
    LookupSpec => []AnswersAgree
<1>1. tables \subseteq Databases => AnswersAgree
      BY BatchesAgree, PagesServe, ChosenOnesPlay, AlbumsMatch DEF AnswersAgree
<1>2. NoLookup => tables \subseteq Databases
      BY DEF NoLookup
<1>3. tables \subseteq Databases /\ [Look]_tables => (tables \subseteq Databases)'
      BY DEF Look
<1>4. QED  BY <1>1, <1>2, <1>3, PTL DEF LookupSpec
===============================================================================
