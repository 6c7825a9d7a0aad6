-------------------------- MODULE PinScopesProofs --------------------------
(***************************************************************************)
(* Theorems about PinScopes, and so about AssetCache, for any recordings,   *)
(* encoders, scopes and number of events: the tables agree with the files, *)
(* the cleanup leaves pinned blobs alone, and a pinned scope nobody works  *)
(* on is complete.                                                         *)
(***************************************************************************)
EXTENDS PinScopes, TLAPS

-----------------------------------------------------------------------------
(* The inductive invariant.                                                 *)

Callers == [pc : EncoderAt, rec : Rec \cup {None}]
Cleanups == [pc : {"idle", "next", "unmarked", "remove"}, left : SUBSET Rec, at : Rec \cup {None}]

TablesType ==
  /\ row \subseteq Rec /\ cached \subseteq row /\ blob \subseteq Rec
  /\ swept \subseteq Rec /\ removed \subseteq Rec

CallersType ==
  /\ flights \in [Rec -> Encoder \cup {None}]
  /\ enc \in [Encoder -> Callers]
  /\ \A e \in Encoder : enc[e].pc # "idle" => enc[e].rec \in Rec

PreparationType ==
  /\ prep \in [Played -> Status] /\ active \in [Played -> BOOLEAN]
  /\ runs \in [Played -> [Run -> RunAt]]

CleanupType == sweep \in Cleanups /\ sworn \subseteq Rec

Plans == [members : SUBSET Rec, pending : BOOLEAN, held : SUBSET Rec]
Works == [pc : WorkAt, todo : SUBSET Rec, at : Rec \cup {None}, wait : BOOLEAN, plan : Plans]

PinType ==
  /\ refs \subseteq Scope \X Rec /\ online \in BOOLEAN
  /\ content \in [Scope -> SUBSET Rec] /\ members \in [Scope -> SUBSET Rec]
  /\ root \in [Scope -> {"none", "clear", "pending"}] /\ timer \in [Scope -> BOOLEAN]
  /\ work \in [Scope -> [Kind -> Works]]
  /\ \A s \in Scope : work[s]["call"].pc \in {"idle", "read", "commit", "close"}
  /\ \A s \in Scope, k \in Kind : work[s][k].pc = "stored" => work[s][k].at \in Rec

\* A blob goes only by a cleanup: whoever has stored one, or has its row, finds it there or
\* could know that it was removed.
There(r) == r \in blob \cup removed

BlobsThere ==
  /\ \A r \in row : There(r)
  /\ \A e \in Encoder : enc[e].pc = "stored" => There(enc[e].rec)
  /\ \A r \in Played, k \in Run : runs[r][k] = "stored" => There(r)
  /\ \A s \in Scope, k \in Kind : On(s, k, "stored") => There(work[s][k].at)

\* The victims of the cleanup under way, of which none is protected.
VictimsFree ==
  /\ sweep.left \subseteq swept
  /\ sweep.pc \in {"unmarked", "remove"} => sweep.at \in swept \ sworn
  /\ sweep.pc # "idle" => sworn \subseteq blob /\ sweep.left \cap sworn = {}

CacheInd ==
  /\ TablesType /\ CallersType /\ PreparationType /\ CleanupType
  /\ BlobsThere /\ OneEncodes /\ OfflineListed /\ VictimsFree

\* A plan for a scope that was unpinned after it was made is known to be stale.
StaleKnown(s) == \A k \in Kind : On(s, k, "commit") /\ root[s] = "none" => <<"unpinned", s>> \in slips

Emptied(s) == root[s] = "none" /\ <<"unpinned", s>> \notin slips => members[s] = {} /\ RefsOf(s) = {}

\* A refresh of the scope will begin: it is due, or a job that left something will ask for it.
Owed(s) ==
  \/ timer[s] \/ On(s, "refresh", "begin")
  \/ \E k \in Kind \ {"call"} : work[s][k].wait /\ work[s][k].pc \notin {"idle", "begin"}

\* A reconcile of the scope is still to read; the call starts a job that does.
WillRead(s) ==
  \/ ~On(s, "call", "idle")
  \/ \E k \in Kind : work[s][k].pc \in {"begin", "fetch", "stored", "read"}

\* Somebody has r on the list, or in hand.
OnList(w, r) == w.pc \in {"begin", "fetch", "stored"} /\ r \in w.todo
InHand(w, r) == w.pc = "stored" /\ w.at = r
WillFetch(s, r) ==
  \/ ~On(s, "call", "idle") /\ r \in work[s]["call"].todo
  \/ \E k \in Kind : OnList(work[s][k], r) \/ InHand(work[s][k], r)

\* What is written, or about to be by the only plan there is, is complete.
Complete(s, m, pending, held) == m = content[s] /\ ~pending /\ content[s] \ Local \subseteq held

PlanComplete(s, k) ==
  /\ On(s, k, "commit") /\ \A j \in Kind \ {k} : ~On(s, j, "commit")
  /\ Complete(s, work[s][k].plan.members, work[s][k].plan.pending, work[s][k].plan.held)

RowsComplete(s) ==
  /\ \A k \in Kind : ~On(s, k, "commit")
  /\ Complete(s, members[s], root[s] = "pending", HeldBy(s))

Counted(s) == root[s] # "none" /\ ~Slipped(s) /\ content[s] \cap swept = {} /\ ~Owed(s)

Settling(s) ==
  Counted(s) =>
    /\ \A r \in Missing(s) : WillFetch(s, r)
    /\ WillRead(s) \/ (\E k \in Kind : PlanComplete(s, k)) \/ RowsComplete(s)

ScopeInd(s) == StaleKnown(s) /\ Emptied(s) /\ Settling(s)

PinIndInv == CacheInd /\ PinType /\ \A s \in Scope : ScopeInd(s)

-----------------------------------------------------------------------------
(* The invariant implies the properties, and holds at first.                *)

\* The tables can be trusted, and the cleanup with them.
LEMMA CacheIndHolds == CacheInd => CacheSound /\ PinnedBlobsKept
<1> SUFFICES ASSUME CacheInd PROVE CacheSound /\ PinnedBlobsKept
    OBVIOUS
<1>1. CachedHasBlob
      BY DEF CacheInd, BlobsThere, There, TablesType, CachedHasBlob
<1>2. QED  BY <1>1 DEF CacheInd, CacheSound, VictimsFree, PinnedBlobsKept

\* A scope on which nobody works has no reconcile to come.
LEMMA PinIndHolds == PinIndInv => PinsSettled
<1> SUFFICES ASSUME PinIndInv PROVE PinsSettled
    OBVIOUS
<1> USE DEF PinIndInv
<1>1. CacheTypeOK
  <2>1. \A e \in Encoder : enc[e].pc \in EncoderAt /\ enc[e].rec \in Rec \cup {None}
        BY DEF CacheInd, CallersType, Callers
  <2>2. \A r \in Rec : flights[r] \in Encoder \cup {None}
        BY DEF CacheInd, CallersType
  <2>3. /\ \A r \in Played : prep[r] \in Status /\ active[r] \in BOOLEAN
        /\ \A r \in Played, k \in Run : runs[r][k] \in RunAt
        BY DEF CacheInd, PreparationType
  <2>4. sweep.left \subseteq Rec /\ sworn \subseteq Rec
        BY DEF CacheInd, CleanupType, Cleanups
  <2>5. QED  BY <2>1, <2>2, <2>3, <2>4 DEF CacheTypeOK, CacheInd, TablesType, PinType
<1>2. PinTypeOK
  <2>1. ASSUME NEW s \in Scope, NEW k \in Kind PROVE work[s][k].pc \in WorkAt /\ work[s][k].todo \subseteq Rec
    <3>1. work[s][k] \in Works
          BY DEF PinType
    <3>2. QED  BY <3>1 DEF Works
  <2>2. QED  BY <1>1, <2>1 DEF PinTypeOK, PinType
<1>3. ASSUME NEW s \in Scope, Quiet(s), root[s] # "none", ~Slipped(s), content[s] \cap swept = {}
      PROVE  /\ root[s] = "clear" /\ Missing(s) = {} /\ members[s] = content[s]
             /\ content[s] \ Local \subseteq HeldBy(s)
  <2>1. \A k \in Kind : work[s][k].pc = "idle"
        BY <1>3 DEF Quiet, On
  <2>2. "call" \in Kind /\ "refresh" \in Kind
        BY DEF Kind
  <2>3. ~Owed(s)
        BY <1>3, <2>1, <2>2 DEF Owed, Quiet, On
  <2>4. ~WillRead(s) /\ \A r : ~WillFetch(s, r)
        BY <2>1, <2>2 DEF WillRead, WillFetch, OnList, InHand, On
  <2>5. \A k \in Kind : ~PlanComplete(s, k)
        BY <2>1 DEF PlanComplete, On
  <2>6. RowsComplete(s) /\ Missing(s) = {}
        BY <1>3, <2>3, <2>4, <2>5 DEF ScopeInd, Settling, Counted
  <2>7. root[s] \in {"clear", "pending"}
        BY <1>3 DEF PinType
  <2>8. QED  BY <2>6, <2>7 DEF RowsComplete, Complete
<1>4. QuietPinsComplete
      BY <1>3 DEF QuietPinsComplete
<1>5. UnpinnedHoldsNothing
      BY DEF UnpinnedHoldsNothing, ScopeInd, Emptied
<1>6. QED  BY <1>2, <1>4, <1>5 DEF PinsSettled

\* Nothing is cached, nothing is pinned.
LEMMA PinInit == Init => PinIndInv
<1> SUFFICES ASSUME Init PROVE PinIndInv
    OBVIOUS
<1> USE DEF Init, CacheInit
<1>1. TablesType /\ CleanupType /\ VictimsFree
      BY DEF TablesType, CleanupType, Cleanups, VictimsFree, NoSweep
<1>2. CallersType /\ OneEncodes
      BY DEF CallersType, Callers, EncoderAt, OneEncodes
<1>3. PreparationType
      BY DEF PreparationType, Status, RunAt
<1>4. OfflineListed
      BY DEF OfflineListed, Desired
<1>5. Idle \in Works /\ Idle.pc = "idle"
      BY DEF Idle, Works, Plans, NoPlan, WorkAt
<1>6. \A s \in Scope, k \in Kind : work[s][k] = Idle
      OBVIOUS
<1>7. BlobsThere
      BY <1>5, <1>6 DEF BlobsThere, On
<1>8. PinType
  <2>1. Kind = {"call", "pin", "refresh"}
        BY DEF Kind
  <2>2. QED  BY <1>5, <1>6, <2>1, TracksAssumption DEF PinType
<1>9. ASSUME NEW s \in Scope PROVE ScopeInd(s)
      BY <1>5, <1>6 DEF ScopeInd, StaleKnown, Emptied, Settling, Counted, On, RefsOf
<1>10. QED  BY <1>1, <1>2, <1>3, <1>4, <1>7, <1>8, <1>9 DEF PinIndInv, CacheInd

-----------------------------------------------------------------------------
(* What a step leaves alone.                                                *)

\* Nothing is taken from the cache but by a cleanup.
CacheGrows == swept \subseteq swept' /\ cached \ swept' \subseteq cached'

\* The step is not about the scope s, and forgets no slip of it.
SameScope(s) ==
  /\ content'[s] = content[s] /\ root'[s] = root[s] /\ members'[s] = members[s]
  /\ timer[s] => timer'[s]
  /\ work'[s] = work[s] /\ RefsOf(s)' = RefsOf(s)
  /\ Slipped(s) => Slipped(s)'
  /\ <<"unpinned", s>> \in slips => <<"unpinned", s>> \in slips'

\* The parts of the invariant about another scope stand.
LEMMA ScopeStands ==
  ASSUME NEW s \in Scope, ScopeInd(s), SameScope(s), CacheGrows
  PROVE  ScopeInd(s)'
<1> USE DEF SameScope, CacheGrows
<1>1. \A k \in Kind, pc \in WorkAt : On(s, k, pc)' <=> On(s, k, pc)
      BY DEF On
<1>2. StaleKnown(s)'
      BY DEF ScopeInd, StaleKnown, On
<1>3. Emptied(s)'
      BY DEF ScopeInd, Emptied
<1>4. Settling(s)'
  <2>1. SUFFICES ASSUME Counted(s)'
                 PROVE  /\ \A r \in Missing(s)' : WillFetch(s, r)'
                        /\ WillRead(s)' \/ (\E k \in Kind : PlanComplete(s, k)') \/ RowsComplete(s)'
        BY DEF Settling
  <2>2. Owed(s) => Owed(s)'
        BY DEF Owed, On
  <2>3. Counted(s)
        BY <2>1, <2>2 DEF Counted
  <2>4. content[s] \cap swept' = {}
        BY <2>1 DEF Counted
  <2>5. Missing(s)' \subseteq Missing(s)
        BY <2>4 DEF Missing, Resolved
  <2>6. \A r : WillFetch(s, r)' <=> WillFetch(s, r)
        BY DEF WillFetch, OnList, InHand, On
  <2>7. WillRead(s)' <=> WillRead(s)
        BY DEF WillRead, On
  <2>8. \A k \in Kind : PlanComplete(s, k)' <=> PlanComplete(s, k)
        BY DEF PlanComplete, Complete, On
  <2>9. RowsComplete(s)' <=> RowsComplete(s)
        BY DEF RowsComplete, Complete, On, HeldBy
  <2>10. QED  BY <2>3, <2>5, <2>6, <2>7, <2>8, <2>9 DEF ScopeInd, Settling
<1>5. QED  BY <1>2, <1>3, <1>4 DEF ScopeInd

\* So do all scopes when the cache alone is worked on.
LEMMA PinsStand ==
  ASSUME PinIndInv, UNCHANGED <<refs, pinVars>>, online' \in BOOLEAN, CacheGrows,
         \A s \in Scope : /\ Slipped(s) => Slipped(s)'
                          /\ <<"unpinned", s>> \in slips => <<"unpinned", s>> \in slips'
  PROVE  PinType' /\ \A s \in Scope : ScopeInd(s)'
<1>1. PinType'
      BY DEF PinIndInv, PinType, pinVars
<1>2. \A s \in Scope : SameScope(s)
      BY DEF SameScope, pinVars, RefsOf
<1>3. QED  BY <1>1, <1>2, ScopeStands DEF PinIndInv

-----------------------------------------------------------------------------
(* The encoders.                                                            *)

\* Rows and files as a step of an encoder or a fetch leaves them.
Tables ==
  /\ TablesType' /\ row \subseteq row' /\ cached \subseteq cached' /\ swept' = swept
  /\ blob \subseteq blob' /\ removed \subseteq blob' \cup removed'
  /\ OfflineListed'
  /\ row' \subseteq blob' \cup removed'

\* The flag of a recording that has a row is set.
LEMMA FlaggedTables ==
  ASSUME CacheInd, NEW r \in Rec, There(r), row' = row \/ row' = row \cup {r}, r \in row', Flagged(r),
         UNCHANGED <<blobVars, swept>>
  PROVE  Tables
<1>1. cached' = cached \cup {r}
      BY DEF Flagged, Flag
<1>2. OfflineListed'
      BY DEF Flagged, Flag, CacheInd, OfflineListed, Desired
<1>3. QED  BY <1>1, <1>2 DEF Tables, CacheInd, TablesType, BlobsThere, There, blobVars

\* A blob is stored.
LEMMA StoredTables ==
  ASSUME CacheInd, NEW r \in Rec, WriteBlob(r), UNCHANGED <<row, cached, offline, swept>>
  PROVE  Tables /\ There(r)'
BY DEF Tables, CacheInd, TablesType, OfflineListed, Desired, BlobsThere, There, WriteBlob

\* Rows and files are left alone.
LEMMA SameTables ==
  ASSUME CacheInd, UNCHANGED <<assetVars, swept>>
  PROVE  Tables
BY DEF Tables, assetVars, blobVars, CacheInd, TablesType, OfflineListed, Desired, BlobsThere, There

\* What is there stays there.
LEMMA StillThere == ASSUME Tables, NEW r, There(r) PROVE There(r)'
BY DEF Tables, There

\* A caller goes on with its recording.
LEMMA GotoFacts ==
  ASSUME CallersType, NEW e \in Encoder, enc[e].pc # "idle", NEW pc \in EncoderAt, Goto(e, pc)
  PROVE  /\ enc' \in [Encoder -> Callers]
         /\ enc'[e].pc = pc /\ enc'[e].rec = enc[e].rec /\ enc[e].rec \in Rec
         /\ \A x \in Encoder \ {e} : enc'[x] = enc[x]
<1> USE DEF CallersType
<1> DEFINE new == [enc[e] EXCEPT !.pc = pc]
<1>1. enc[e] \in Callers
      OBVIOUS
<1>2. new \in Callers /\ new.pc = pc /\ new.rec = enc[e].rec
      BY <1>1 DEF Callers
<1>3. enc' = [enc EXCEPT ![e] = new]
      BY DEF Goto
<1> HIDE DEF new
<1>4. QED  BY <1>2, <1>3

\* The end of a flight: the leader is free, and those who waited are free or go to the row.
LEMMA FinishFacts ==
  ASSUME CallersType, OneEncodes, NEW e \in Encoder, enc[e].pc \in {"lead", "build", "stored"},
         NEW ok \in BOOLEAN, FinishFlight(e, ok)
  PROVE  CallersType' /\ OneEncodes' /\ \A x \in Encoder : enc'[x].pc = "stored" => enc'[x] = enc[x]
<1> USE DEF CallersType
<1> DEFINE r == enc[e].rec
           free == [pc |-> "idle", rec |-> None]
           on(x) == [enc[x] EXCEPT !.pc = "mark"]
<1>1. r \in Rec /\ flights[r] = e /\ e # None
      BY CacheAssumption DEF OneEncodes
<1>2. flights' = [flights EXCEPT ![r] = None]
      BY DEF FinishFlight
<1>3. free \in Callers /\ free.pc = "idle"
      BY DEF Callers, EncoderAt
<1>4. \A x \in Encoder : enc[x].pc = "wait" =>
        on(x) \in Callers /\ on(x).pc = "mark" /\ on(x).rec = enc[x].rec /\ enc[x].rec \in Rec
  <2>1. ASSUME NEW x \in Encoder, enc[x].pc = "wait"
        PROVE  on(x) \in Callers /\ on(x).pc = "mark" /\ on(x).rec = enc[x].rec /\ enc[x].rec \in Rec
    <3>1. enc[x] \in Callers /\ enc[x].rec \in Rec
          BY <2>1
    <3>2. QED  BY <3>1 DEF Callers, EncoderAt
  <2>2. QED  BY <2>1
<1>5. ASSUME NEW x \in Encoder
      PROVE  /\ x = e => enc'[x] = free
             /\ \/ enc'[x] = free
                \/ enc[x].pc = "wait" /\ enc'[x] = on(x)
                \/ enc'[x] = enc[x]
      BY DEF FinishFlight
<1>6. enc' = [x \in Encoder |-> enc'[x]]
      BY DEF FinishFlight
<1> HIDE DEF free, on
<1>7. \A x \in Encoder : enc'[x] \in Callers /\ (enc'[x].pc # "idle" => enc'[x].rec \in Rec)
      BY <1>3, <1>4, <1>5
<1>8. CallersType'
      BY <1>1, <1>2, <1>6, <1>7
<1>9. ASSUME NEW x \in Encoder, enc'[x].pc \in {"lead", "build", "stored"}
      PROVE  enc'[x] = enc[x] /\ x # e
      BY <1>3, <1>4, <1>5, <1>9
<1>10. OneEncodes'
  <2>1. ASSUME NEW x \in Encoder, enc'[x].pc \in {"lead", "build", "stored"}
        PROVE  flights'[enc'[x].rec] = x
    <3>1. enc'[x] = enc[x] /\ x # e
          BY <1>9, <2>1
    <3>2. flights[enc[x].rec] = x /\ enc[x].rec \in Rec
          BY <2>1, <3>1 DEF OneEncodes
    <3>3. enc[x].rec # r
          BY <1>1, <3>1, <3>2
    <3>4. QED  BY <1>2, <3>1, <3>2, <3>3
  <2>2. QED  BY <2>1 DEF OneEncodes
<1>11. QED  BY <1>8, <1>9, <1>10

\* The step of an encoder, its flight and its tables apart, leaves the rest of the invariant as it was.
LEMMA EncoderFrame ==
  ASSUME PinIndInv, UNCHANGED <<refs, online, prepVars, sweepVars, slips, pinVars>>, Tables,
         CallersType', OneEncodes', \A x \in Encoder : enc'[x].pc = "stored" => enc'[x].rec \in blob' \cup removed'
  PROVE  PinIndInv'
<1> USE DEF PinIndInv, CacheInd
<1>1. CacheGrows
      BY DEF CacheGrows, Tables
<1>2. PinType' /\ \A s \in Scope : ScopeInd(s)'
      BY <1>1, PinsStand DEF PinType, Slipped
<1>3. PreparationType' /\ CleanupType'
      BY DEF PreparationType, CleanupType, prepVars, sweepVars
<1>4. VictimsFree'
      BY DEF VictimsFree, sweepVars, Tables
<1>5. BlobsThere'
  <2>1. \A r \in Played, k \in Run : runs'[r][k] = "stored" => r \in blob' \cup removed'
        BY DEF BlobsThere, There, Tables, prepVars
  <2>2. \A s \in Scope, k \in Kind : work'[s][k].pc = "stored" => work'[s][k].at \in blob' \cup removed'
        BY DEF BlobsThere, There, Tables, pinVars, On
  <2>3. \A r \in row' : r \in blob' \cup removed'
        BY DEF Tables, There
  <2>4. QED  BY <2>1, <2>2, <2>3 DEF BlobsThere, There, On
<1>6. QED  BY <1>2, <1>3, <1>4, <1>5 DEF Tables

\* Every step of an encoder.
LEMMA EncoderKeeps ==
  ASSUME PinIndInv, EncoderSteps, UNCHANGED pinVars
  PROVE  PinIndInv'
<1> USE DEF PinIndInv, CacheInd
<1>1. PICK e \in Encoder :
        \/ \E r \in Local : EnsureEncoding(e, r)
        \/ JoinFlight(e) \/ LeadAgain(e)
        \/ StoreEncoded(e) \/ BuildFails(e) \/ CommitEncoded(e) \/ MarkCached(e)
      BY DEF EncoderSteps
<1>2. UNCHANGED <<refs, online, prepVars, sweepVars, slips>> /\ swept' = swept
      BY <1>1 DEF EnsureEncoding, JoinFlight, LeadAgain, StoreEncoded, BuildFails, CommitEncoded, MarkCached, sweepVars
<1>3. \A x \in Encoder : enc[x].pc = "stored" => enc[x].rec \in blob \cup removed
      BY DEF BlobsThere, There
<1> DEFINE StoredThere == \A x \in Encoder : enc'[x].pc = "stored" => enc'[x].rec \in blob' \cup removed'
<1> SUFFICES Tables /\ CallersType' /\ OneEncodes' /\ StoredThere
    BY <1>2, EncoderFrame
<1>4. ASSUME NEW r \in Local, EnsureEncoding(e, r) PROVE Tables /\ CallersType' /\ OneEncodes' /\ StoredThere
  <2>1. PICK pc \in {"mark", "join"} : enc' = [enc EXCEPT ![e] = [pc |-> pc, rec |-> r]]
        BY <1>4 DEF EnsureEncoding
  <2>2. flights' = flights /\ UNCHANGED assetVars
        BY <1>4 DEF EnsureEncoding
  <2>3. r \in Rec /\ [pc |-> pc, rec |-> r] \in Callers
        BY CacheAssumption DEF Callers, EncoderAt
  <2>4. CallersType'
        BY <2>1, <2>2, <2>3 DEF CallersType
  <2>5. \A x \in Encoder : enc'[x].pc \in {"lead", "build", "stored"} => enc'[x] = enc[x]
        BY <2>1 DEF CallersType
  <2>6. Tables
        BY <1>2, <2>2, SameTables
  <2>7. OneEncodes'
        BY <2>2, <2>5 DEF OneEncodes
  <2>8. QED  BY <1>2, <1>3, <2>2, <2>4, <2>5, <2>6, <2>7 DEF assetVars, blobVars
<1>5. CASE JoinFlight(e)
  <2>1. enc[e].pc = "join" /\ UNCHANGED assetVars
        BY <1>5 DEF JoinFlight, At
  <2>2. Tables
        BY <1>2, <2>1, SameTables
  <2>3. enc[e].rec \in Rec
        BY <2>1 DEF CallersType
  <2>4. CASE flights[enc[e].rec] = None
    <3>1. flights' = [flights EXCEPT ![enc[e].rec] = e] /\ Goto(e, "lead")
          BY <1>5, <2>4 DEF JoinFlight
    <3>2. /\ enc' \in [Encoder -> Callers]
          /\ enc'[e].pc = "lead" /\ enc'[e].rec = enc[e].rec
          /\ \A x \in Encoder \ {e} : enc'[x] = enc[x]
          BY <2>1, <3>1, GotoFacts DEF EncoderAt
    <3>3. CallersType'
          BY <2>3, <3>1, <3>2 DEF CallersType
    <3>4. \A x \in Encoder \ {e} : enc[x].pc \in {"lead", "build", "stored"} =>
            enc[x].rec # enc[e].rec /\ flights[enc[x].rec] = x /\ enc[x].rec \in Rec
          BY <2>4, CacheAssumption DEF OneEncodes, CallersType
    <3>5. OneEncodes'
          BY <2>3, <3>1, <3>2, <3>4 DEF OneEncodes, CallersType
    <3>6. QED  BY <1>2, <1>3, <2>1, <2>2, <3>2, <3>3, <3>5 DEF assetVars, blobVars
  <2>5. CASE flights[enc[e].rec] # None
    <3>1. flights' = flights /\ Goto(e, "wait")
          BY <1>5, <2>5 DEF JoinFlight
    <3>2. /\ enc' \in [Encoder -> Callers]
          /\ enc'[e].pc = "wait" /\ enc'[e].rec = enc[e].rec
          /\ \A x \in Encoder \ {e} : enc'[x] = enc[x]
          BY <2>1, <3>1, GotoFacts DEF EncoderAt
    <3>3. CallersType'
          BY <2>3, <3>1, <3>2 DEF CallersType
    <3>4. OneEncodes'
          BY <3>1, <3>2 DEF OneEncodes
    <3>5. QED  BY <1>2, <1>3, <2>1, <2>2, <3>2, <3>3, <3>4 DEF assetVars, blobVars
  <2>6. QED  BY <2>4, <2>5
<1>6. CASE LeadAgain(e)
  <2>1. enc[e].pc = "lead" /\ enc[e].rec \in Rec
        BY <1>6 DEF LeadAgain, At, CallersType
  <2>2. CASE enc[e].rec \in row
    <3>1. Flagged(enc[e].rec) /\ FinishFlight(e, TRUE) /\ UNCHANGED <<row, blobVars>>
          BY <1>6, <2>2 DEF LeadAgain
    <3>2. Tables
          BY <1>2, <2>1, <2>2, <3>1, FlaggedTables DEF BlobsThere
    <3>3. CallersType' /\ OneEncodes' /\ \A x \in Encoder : enc'[x].pc = "stored" => enc'[x] = enc[x]
          BY <2>1, <3>1, FinishFacts
    <3>4. QED  BY <1>2, <1>3, <3>1, <3>2, <3>3 DEF blobVars
  <2>3. CASE enc[e].rec \notin row
    <3>1. Goto(e, "build") /\ UNCHANGED <<cached, offline, flights, row, blobVars>>
          BY <1>6, <2>3 DEF LeadAgain
    <3>2. Tables
          BY <1>2, <3>1, SameTables DEF assetVars, blobVars
    <3>3. /\ enc' \in [Encoder -> Callers]
          /\ enc'[e].pc = "build" /\ enc'[e].rec = enc[e].rec
          /\ \A x \in Encoder \ {e} : enc'[x] = enc[x]
          BY <2>1, <3>1, GotoFacts DEF EncoderAt
    <3>4. CallersType'
          BY <2>1, <3>1, <3>3 DEF CallersType
    <3>5. OneEncodes'
          BY <2>1, <3>1, <3>3 DEF OneEncodes
    <3>6. QED  BY <1>2, <1>3, <3>1, <3>2, <3>3, <3>4, <3>5 DEF blobVars
  <2>4. QED  BY <2>2, <2>3
<1>7. CASE StoreEncoded(e)
  <2>1. enc[e].pc = "build" /\ enc[e].rec \in Rec
        BY <1>7 DEF StoreEncoded, At, CallersType
  <2>2. WriteBlob(enc[e].rec) /\ Goto(e, "stored") /\ UNCHANGED <<row, cached, offline, flights>>
        BY <1>7 DEF StoreEncoded
  <2>3. Tables
        BY <1>2, <2>1, <2>2, StoredTables
  <2>4. /\ enc' \in [Encoder -> Callers]
        /\ enc'[e].pc = "stored" /\ enc'[e].rec = enc[e].rec
        /\ \A x \in Encoder \ {e} : enc'[x] = enc[x]
        BY <2>1, <2>2, GotoFacts DEF EncoderAt
  <2>5. CallersType'
        BY <2>1, <2>2, <2>4 DEF CallersType
  <2>6. OneEncodes'
        BY <2>1, <2>2, <2>4 DEF OneEncodes
  <2>7. QED  BY <1>2, <1>3, <2>2, <2>3, <2>4, <2>5, <2>6 DEF WriteBlob
<1>8. CASE BuildFails(e)
  <2>1. enc[e].pc = "build" /\ FinishFlight(e, FALSE) /\ UNCHANGED assetVars
        BY <1>8 DEF BuildFails, At
  <2>2. CallersType' /\ OneEncodes' /\ \A x \in Encoder : enc'[x].pc = "stored" => enc'[x] = enc[x]
        BY <2>1, FinishFacts
  <2>3. QED  BY <1>2, <1>3, <2>1, <2>2, SameTables DEF assetVars, blobVars
<1>9. CASE CommitEncoded(e)
  <2>1. /\ enc[e].pc = "stored" /\ enc[e].rec \in Rec /\ row' = row \cup {enc[e].rec}
        /\ Flagged(enc[e].rec) /\ FinishFlight(e, TRUE) /\ UNCHANGED blobVars
        BY <1>9 DEF CommitEncoded, At, CallersType
  <2>2. Tables
        BY <1>2, <1>3, <2>1, FlaggedTables DEF There
  <2>3. CallersType' /\ OneEncodes' /\ \A x \in Encoder : enc'[x].pc = "stored" => enc'[x] = enc[x]
        BY <2>1, FinishFacts
  <2>4. QED  BY <1>2, <1>3, <2>1, <2>2, <2>3 DEF blobVars
<1>10. CASE MarkCached(e)
  <2>1. /\ enc[e].pc = "mark" /\ enc[e].rec \in Rec
        /\ enc' = [enc EXCEPT ![e] = [pc |-> "idle", rec |-> None]] /\ UNCHANGED <<row, blobVars, flights>>
        /\ IF enc[e].rec \in row THEN Flagged(enc[e].rec) ELSE UNCHANGED <<cached, offline>>
        BY <1>10 DEF MarkCached, At, CallersType
  <2>2. Tables
    <3>1. CASE enc[e].rec \in row
          BY <1>2, <2>1, <3>1, FlaggedTables DEF BlobsThere
    <3>2. CASE enc[e].rec \notin row
          BY <1>2, <2>1, <3>2, SameTables DEF assetVars, blobVars
    <3>3. QED  BY <3>1, <3>2
  <2>3. [pc |-> "idle", rec |-> None] \in Callers
        BY DEF Callers, EncoderAt
  <2>4. CallersType'
        BY <2>1, <2>3 DEF CallersType
  <2>5. \A x \in Encoder : enc'[x].pc \in {"lead", "build", "stored"} => enc'[x] = enc[x]
        BY <2>1 DEF CallersType
  <2>6. OneEncodes'
        BY <2>1, <2>5 DEF OneEncodes
  <2>7. QED  BY <1>2, <1>3, <2>1, <2>2, <2>4, <2>5, <2>6 DEF blobVars
<1>11. QED  BY <1>1, <1>4, <1>5, <1>6, <1>7, <1>8, <1>9, <1>10

-----------------------------------------------------------------------------
(* Preparation.                                                             *)

\* The step of a preparation, its runs and its tables apart.
LEMMA PrepareFrame ==
  ASSUME PinIndInv, UNCHANGED <<refs, online, encVars, sweepVars, slips, pinVars>>, Tables,
         PreparationType',
         \A q \in Played, k \in Run : runs'[q][k] = "stored" => q \in blob' \cup removed'
  PROVE  PinIndInv'
<1> USE DEF PinIndInv, CacheInd
<1>1. CacheGrows
      BY DEF CacheGrows, Tables
<1>2. PinType' /\ \A s \in Scope : ScopeInd(s)'
      BY <1>1, PinsStand DEF PinType, Slipped
<1>3. CallersType' /\ OneEncodes' /\ CleanupType'
      BY DEF CallersType, OneEncodes, CleanupType, encVars, sweepVars
<1>4. VictimsFree'
      BY DEF VictimsFree, sweepVars, Tables
<1>5. BlobsThere'
  <2>1. \A e \in Encoder : enc'[e].pc = "stored" => enc'[e].rec \in blob' \cup removed'
        BY DEF BlobsThere, There, Tables, encVars
  <2>2. \A s \in Scope, k \in Kind : work'[s][k].pc = "stored" => work'[s][k].at \in blob' \cup removed'
        BY DEF BlobsThere, There, Tables, pinVars, On
  <2>3. \A q \in row' : q \in blob' \cup removed'
        BY DEF Tables
  <2>4. QED  BY <2>1, <2>2, <2>3 DEF BlobsThere, There, On
<1>6. QED  BY <1>2, <1>3, <1>4, <1>5 DEF Tables

\* Every step of a preparation.
LEMMA PrepareKeeps ==
  ASSUME PinIndInv, PrepareSteps, UNCHANGED pinVars
  PROVE  PinIndInv'
<1> USE DEF PinIndInv, CacheInd
<1>1. PICK r \in Played, k \in Run :
        \/ PrepareCall(r, k) \/ PrepareAsync(r, k)
        \/ PrepareLook(r, k) \/ PrepareFetch(r, k) \/ PrepareFetchFails(r, k)
        \/ PrepareCommit(r, k) \/ PrepareDone(r, k)
        \/ PrepareBreaksOff(r, k) \/ PrepareClose(r, k)
      BY DEF PrepareSteps
<1> USE DEF PrepareCall, PrepareAsync, PrepareLook, PrepareFetch, PrepareFetchFails,
            PrepareCommit, PrepareDone, PrepareBreaksOff, PrepareClose
<1>2. UNCHANGED <<refs, online, encVars, sweepVars, slips>> /\ swept' = swept
      BY <1>1 DEF sweepVars
<1>3. r \in Rec
      BY CacheAssumption
<1>4. /\ prep' \in [Played -> Status] /\ active' \in [Played -> BOOLEAN]
      /\ runs' = runs \/ \E pc \in RunAt : RunGoto(r, k, pc)
      BY <1>1 DEF Store, Inspected, Tracked, PreparationType, RunAt, Status
<1>5. /\ runs' \in [Played -> [Run -> RunAt]]
      /\ \A q \in Played, j \in Run : q # r \/ j # k => runs'[q][j] = runs[q][j]
      BY <1>4 DEF RunGoto, PreparationType
<1>6. Tables /\ (runs'[r][k] = "stored" => r \in blob' \cup removed')
  <2>1. CASE PrepareFetch(r, k) /\ online
    <3>1. WriteBlob(r) /\ UNCHANGED <<row, cached, offline>>
          BY <2>1 DEF StoreFetched
    <3>2. QED  BY <1>2, <1>3, <3>1, StoredTables DEF There
  <2>2. CASE PrepareCommit(r, k)
    <3>1. row' = row \cup {r} /\ Flagged(r) /\ UNCHANGED blobVars /\ runs[r][k] = "stored"
          BY <2>2 DEF CommitFetched
    <3>2. There(r)
          BY <3>1 DEF BlobsThere
    <3>3. QED  BY <1>2, <1>3, <3>1, <3>2, FlaggedTables DEF blobVars, There
  <2>3. CASE ~(PrepareFetch(r, k) /\ online) /\ ~PrepareCommit(r, k)
    <3>1. UNCHANGED assetVars
          BY <1>1, <2>3
    <3>2. runs'[r][k] = "stored" => runs[r][k] = "stored"
          BY <1>1, <2>3 DEF RunGoto, PreparationType
    <3>3. QED  BY <1>2, <3>1, <3>2, SameTables DEF BlobsThere, There, assetVars, blobVars
  <2>4. QED  BY <2>1, <2>2, <2>3
<1>7. \A q \in Played, j \in Run : runs'[q][j] = "stored" => q \in blob' \cup removed'
      BY <1>5, <1>6 DEF BlobsThere, There, Tables
<1>8. PreparationType'
       BY <1>4, <1>5 DEF PreparationType
<1>9. QED  BY <1>2, <1>6, <1>7, <1>8, PrepareFrame

-----------------------------------------------------------------------------
(* The cleanup.                                                             *)

\* Every step of a cleanup: its victims are known, and none of them is protected.
LEMMA CleanupKeeps ==
  ASSUME PinIndInv, CleanupSteps, UNCHANGED pinVars
  PROVE  PinIndInv'
<1> USE DEF PinIndInv, CacheInd
<1> DEFINE CleanedUp ==
      /\ UNCHANGED <<row, refs, online, encVars, prepVars, slips>>
      /\ swept \subseteq swept' /\ swept' \subseteq Rec /\ cached' \subseteq cached /\ blob' \subseteq blob
      /\ cached \ swept \subseteq cached' /\ removed' \subseteq Rec /\ blob \cup removed \subseteq blob' \cup removed'
      /\ OfflineListed' /\ CleanupType' /\ VictimsFree'
<1>1. CleanedUp
  <2>1. /\ sweep.left \subseteq Rec /\ sweep.pc \in {"idle", "next", "unmarked", "remove"}
        /\ sweep = [pc |-> sweep.pc, left |-> sweep.left, at |-> sweep.at]
        BY DEF CleanupType, Cleanups
  <2>2. ASSUME NEW victims \in SUBSET Rec, CleanupList(victims)
        PROVE  CleanedUp
    <3> DEFINE new == [pc |-> "next", left |-> victims, at |-> None]
    <3>1. /\ victims \subseteq {r \in Listed : ~Pinned(r)} /\ sweep' = new
          /\ sworn' = {r \in blob : Pinned(r)} /\ swept' = swept \cup victims
          /\ UNCHANGED <<assetVars, refs, online, encVars, prepVars, slips>>
          BY <2>2 DEF CleanupList
    <3>2. new \in Cleanups /\ new.pc = "next" /\ new.left = victims
          BY DEF Cleanups
    <3> HIDE DEF new
    <3>3. VictimsFree'
          BY <3>1, <3>2 DEF VictimsFree, assetVars, blobVars
    <3>4. QED  BY <3>1, <3>2, <3>3 DEF assetVars, blobVars, OfflineListed, Desired, CleanupType, TablesType
  <2>3. CASE CleanupUnmark
    <3>1. PICK r \in sweep.left :
            Unflagged(r) /\ sweep' = [pc |-> "unmarked", left |-> sweep.left \ {r}, at |-> r]
          BY <2>3 DEF CleanupUnmark
    <3>2. sweep.pc = "next" /\ UNCHANGED <<row, blobVars, refs, online, encVars, prepVars, sworn, swept, slips>>
          BY <2>3 DEF CleanupUnmark
    <3> DEFINE new == [pc |-> "unmarked", left |-> sweep.left \ {r}, at |-> r]
    <3>3. new \in Cleanups /\ new.pc = "unmarked" /\ new.left = sweep.left \ {r} /\ new.at = r
          BY <2>1, <3>1 DEF Cleanups
    <3> HIDE DEF new
    <3>4. sweep' = new
          BY <3>1 DEF new
    <3>5. r \in swept \ sworn /\ sworn \subseteq blob
          BY <3>2 DEF VictimsFree
    <3>6. cached' = cached \ {r} /\ OfflineListed'
          BY <3>1 DEF Unflagged, Flag, OfflineListed, Desired
    <3>7. VictimsFree'
          BY <3>2, <3>3, <3>4, <3>5 DEF VictimsFree, blobVars
    <3>8. CleanupType' /\ swept \subseteq Rec
          BY <3>2, <3>3, <3>4 DEF CleanupType, TablesType
    <3>9. QED  BY <3>2, <3>5, <3>6, <3>7, <3>8 DEF blobVars, TablesType
  <2>4. CASE CleanupCheck
    <3>1. sweep.pc = "unmarked" /\ UNCHANGED <<assetVars, refs, online, encVars, prepVars, sworn, swept, slips>>
          BY <2>4 DEF CleanupCheck
    <3>2. /\ sweep' \in Cleanups /\ sweep'.left = sweep.left
          /\ sweep'.pc \in {"unmarked", "remove"} => sweep'.at = sweep.at
          BY <2>1, <2>4 DEF CleanupCheck, CleanupType, Cleanups, AfterVictim
    <3>3. VictimsFree'
          BY <3>1, <3>2 DEF VictimsFree, assetVars, blobVars
    <3>4. QED  BY <3>1, <3>2, <3>3 DEF assetVars, blobVars, OfflineListed, Desired, CleanupType, TablesType
  <2>5. CASE CleanupRemove
    <3>1. /\ sweep.pc = "remove" /\ blob' = blob \ {sweep.at} /\ removed' = removed \cup {sweep.at}
          /\ UNCHANGED <<row, cached, offline, refs, online, encVars, prepVars, sworn, swept, slips>>
          BY <2>5 DEF CleanupRemove
    <3>2. /\ sweep' \in Cleanups /\ sweep'.left = sweep.left
          /\ sweep'.pc \notin {"unmarked", "remove"}
          BY <2>1, <2>5 DEF CleanupRemove, CleanupType, Cleanups, AfterVictim
    <3>3. sweep.at \in swept \ sworn
          BY <3>1 DEF VictimsFree
    <3>4. VictimsFree'
          BY <3>1, <3>2, <3>3 DEF VictimsFree
    <3>5. QED  BY <3>1, <3>2, <3>3, <3>4 DEF OfflineListed, Desired, CleanupType, TablesType
  <2>6. QED  BY <2>2, <2>3, <2>4, <2>5 DEF CleanupSteps
<1>2. CacheGrows
      BY <1>1 DEF CacheGrows
<1>3. PinType' /\ \A s \in Scope : ScopeInd(s)'
      BY <1>1, <1>2, PinsStand DEF PinType, Slipped
<1>4. TablesType'
      BY <1>1 DEF TablesType
<1>5. CallersType' /\ OneEncodes' /\ PreparationType'
      BY <1>1 DEF CallersType, OneEncodes, PreparationType, encVars, prepVars
<1>6. \A r : There(r) => There(r)'
      BY <1>1 DEF There
<1>7. BlobsThere'
  <2>1. \A r \in row' : r \in blob' \cup removed'
        BY <1>1, <1>6 DEF BlobsThere, There
  <2>2. \A e \in Encoder : enc'[e].pc = "stored" => enc'[e].rec \in blob' \cup removed'
        BY <1>1, <1>6 DEF BlobsThere, There, encVars
  <2>3. \A r \in Played, k \in Run : runs'[r][k] = "stored" => r \in blob' \cup removed'
        BY <1>1, <1>6 DEF BlobsThere, There, prepVars
  <2>4. \A s \in Scope, k \in Kind : work'[s][k].pc = "stored" => work'[s][k].at \in blob' \cup removed'
        BY <1>1, <1>6 DEF BlobsThere, There, pinVars, On
  <2>5. QED  BY <2>1, <2>2, <2>3, <2>4 DEF BlobsThere, There, On
<1>8. QED  BY <1>1, <1>3, <1>4, <1>5, <1>7

-----------------------------------------------------------------------------
(* Pins: the frame of a step about one scope.                               *)

\* The step is about the scope s alone.
Only(s) ==
  /\ \A t \in Scope \ {s} :
       /\ content'[t] = content[t] /\ root'[t] = root[t] /\ members'[t] = members[t]
       /\ timer'[t] = timer[t] /\ work'[t] = work[t] /\ RefsOf(t)' = RefsOf(t)
  /\ \A x \in slips : x[2] # s => x \in slips'

\* Nothing of the cache moves but its tables and what the cleanup may not touch.
CacheQuiet ==
  Tables /\ UNCHANGED <<encVars, prepVars, sweep, swept>> /\ sworn' \subseteq sworn

\* What is left to show of a step about one scope.
LEMMA PinFrame ==
  ASSUME PinIndInv, NEW s \in Scope, Only(s), CacheQuiet, PinType', ScopeInd(s)',
         \A k \in Kind : work'[s][k].pc = "stored" => work'[s][k].at \in blob' \cup removed'
  PROVE  PinIndInv'
<1> USE DEF PinIndInv, CacheInd, CacheQuiet
<1>1. CacheGrows
      BY DEF CacheGrows, Tables
<1>2. ASSUME NEW t \in Scope \ {s} PROVE ScopeInd(t)'
  <2>1. SameScope(t)
    <3>1. Slipped(t) => Slipped(t)'
          BY DEF Only, Slipped
    <3>2. <<"unpinned", t>>[2] # s
          OBVIOUS
    <3>3. <<"unpinned", t>> \in slips => <<"unpinned", t>> \in slips'
          BY <3>2 DEF Only
    <3>4. QED  BY <3>1, <3>3 DEF Only, SameScope
  <2>2. QED  BY <1>1, <2>1, ScopeStands
<1>4. PreparationType' /\ CallersType' /\ OneEncodes' /\ CleanupType'
      BY DEF CallersType, OneEncodes, PreparationType, CleanupType, encVars, prepVars
<1>6. VictimsFree'
      BY DEF VictimsFree, Tables
<1>7. BlobsThere'
  <2>1. \A r \in row' : r \in blob' \cup removed'
        BY DEF Tables
  <2>2. \A e \in Encoder : enc'[e].pc = "stored" => enc'[e].rec \in blob' \cup removed'
        BY DEF BlobsThere, There, encVars, Tables
  <2>3. \A r \in Played, k \in Run : runs'[r][k] = "stored" => r \in blob' \cup removed'
        BY DEF BlobsThere, There, prepVars, Tables
  <2>4. \A t \in Scope, k \in Kind : work'[t][k].pc = "stored" => work'[t][k].at \in blob' \cup removed'
        BY DEF BlobsThere, There, Tables, Only, On
  <2>5. QED  BY <2>1, <2>2, <2>3, <2>4 DEF BlobsThere, There, On
<1>8. QED  BY <1>2, <1>4, <1>6, <1>7 DEF Tables

\* The cache is not touched.
LEMMA QuietCache ==
  ASSUME PinIndInv, UNCHANGED <<assetVars, encVars, prepVars, sweep, swept>>, sworn' \subseteq sworn
  PROVE  CacheQuiet
<1>1. Tables
      BY SameTables DEF PinIndInv
<1>2. QED  BY <1>1 DEF CacheQuiet

\* The records of the jobs, when one of them goes on.
WorkOk(k, w) ==
  /\ w \in Works /\ (k = "call" => w.pc \in {"idle", "read", "commit", "close"})
  /\ w.pc = "stored" => w.at \in Rec

WorkType ==
  /\ work \in [Scope -> [Kind -> Works]]
  /\ \A s \in Scope : work[s]["call"].pc \in {"idle", "read", "commit", "close"}
  /\ \A s \in Scope, k \in Kind : work[s][k].pc = "stored" => work[s][k].at \in Rec

LEMMA WorkFacts ==
  ASSUME PinType, NEW s \in Scope, NEW k \in Kind, NEW w, WorkOk(k, w), Becomes(s, k, w)
  PROVE  /\ WorkType'
         /\ work'[s][k] = w /\ \A j \in Kind \ {k} : work'[s][j] = work[s][j]
         /\ \A t \in Scope \ {s} : work'[t] = work[t]
<1> USE DEF PinType, WorkOk, Becomes
<1>1. work'[s] = [work[s] EXCEPT ![k] = w] /\ \A t \in Scope \ {s} : work'[t] = work[t]
      OBVIOUS
<1>2. work[s] \in [Kind -> Works]
      OBVIOUS
<1>3. work'[s] \in [Kind -> Works] /\ work'[s][k] = w /\ \A j \in Kind \ {k} : work'[s][j] = work[s][j]
      BY <1>1, <1>2
<1>4. work' \in [Scope -> [Kind -> Works]]
      BY <1>3
<1>5. "call" \in Kind
      BY DEF Kind
<1>6. ASSUME NEW t \in Scope
      PROVE  /\ work'[t]["call"].pc \in {"idle", "read", "commit", "close"}
             /\ \A j \in Kind : work'[t][j].pc = "stored" => work'[t][j].at \in Rec
  <2>1. CASE t = s
        BY <1>3, <1>5, <2>1
  <2>2. CASE t # s
        BY <1>1, <2>2
  <2>3. QED  BY <2>1, <2>2
<1>7. QED  BY <1>1, <1>3, <1>4, <1>6 DEF WorkType

\* The idle record.
LEMMA IdleFacts ==
  /\ Idle \in Works /\ Idle.pc = "idle" /\ Idle.wait = FALSE
  /\ \A k \in Kind : WorkOk(k, Idle)
BY DEF Idle, Works, Plans, NoPlan, WorkAt, WorkOk

\* The members of a record that is a job's.
LEMMA WorkMembers ==
  ASSUME PinType, NEW s \in Scope, NEW k \in Kind
  PROVE  /\ work[s][k] \in Works /\ work[s][k].todo \subseteq Rec /\ work[s][k].plan \in Plans
         /\ work[s][k].pc \in WorkAt
BY DEF PinType, Works

-----------------------------------------------------------------------------
(* A job that fetches.                                                      *)

\* The scope's rows are left alone.
SameRows(s) ==
  /\ content'[s] = content[s] /\ root'[s] = root[s] /\ members'[s] = members[s]
  /\ RefsOf(s)' = RefsOf(s)
  /\ <<"unpinned", s>> \in slips => <<"unpinned", s>> \in slips'
  /\ \A k \in Kind : On(s, k, "commit")' => On(s, k, "commit")

LEMMA SameRowsStand ==
  ASSUME NEW s \in Scope, ScopeInd(s), SameRows(s)
  PROVE  StaleKnown(s)' /\ Emptied(s)'
BY DEF ScopeInd, SameRows, StaleKnown, Emptied

\* What was on its list still is, or is in hand, held, or left for the retry.
LEMMA JobGoesOn ==
  ASSUME NEW s \in Scope, NEW k \in Kind \ {"call"}, ScopeInd(s), SameRows(s), CacheGrows,
         Slipped(s) => Slipped(s)', timer'[s] = timer[s],
         \A j \in Kind \ {k} : work'[s][j] = work[s][j],
         work[s][k].pc \in {"fetch", "stored"} \/ (k = "pin" /\ work[s][k].pc = "begin"),
         work'[s][k].pc \in {"fetch", "stored"},
         work[s][k].pc # "begin" /\ work[s][k].wait => work'[s][k].wait,
         \A r : OnList(work[s][k], r) \/ InHand(work[s][k], r) =>
           \/ OnList(work'[s][k], r) \/ InHand(work'[s][k], r)
           \/ work'[s][k].wait \/ r \in Local \cup cached'
  PROVE  ScopeInd(s)'
<1>1. StaleKnown(s)' /\ Emptied(s)'
      BY SameRowsStand
<1>2. SUFFICES ASSUME Counted(s)'
               PROVE  /\ \A r \in Missing(s)' : WillFetch(s, r)'
                      /\ WillRead(s)'
      BY <1>1 DEF ScopeInd, Settling
<1>3. WillRead(s)'
      BY DEF WillRead
<1>4. ~work'[s][k].wait
      BY <1>2 DEF Counted, Owed
<1>5. ~Owed(s)
  <2>1. ~timer[s]
        BY <1>2 DEF Counted, Owed
  <2>2. ~On(s, "refresh", "begin")
        BY <1>2 DEF Counted, Owed, On, Kind
  <2>3. ASSUME NEW j \in Kind \ {"call"}, work[s][j].wait, work[s][j].pc \notin {"idle", "begin"} PROVE FALSE
    <3>1. CASE j = k
          BY <1>4, <2>3, <3>1
    <3>2. CASE j # k
          BY <1>2, <2>3, <3>2 DEF Counted, Owed
    <3>3. QED  BY <3>1, <3>2
  <2>4. QED  BY <2>1, <2>2, <2>3 DEF Owed
<1>6. Counted(s)
      BY <1>2, <1>5 DEF Counted, SameRows, CacheGrows
<1>7. Missing(s)' \subseteq Missing(s)
      BY <1>2 DEF Counted, Missing, Resolved, SameRows, CacheGrows
<1>8. ASSUME NEW r \in Missing(s)' PROVE WillFetch(s, r)'
  <2>1. WillFetch(s, r) /\ r \notin Local \cup cached'
        BY <1>6, <1>7, <1>8 DEF ScopeInd, Settling, Missing
  <2>2. CASE ~On(s, "call", "idle") /\ r \in work[s]["call"].todo
        BY <2>2 DEF WillFetch, On, Kind
  <2>3. CASE \E j \in Kind : OnList(work[s][j], r) \/ InHand(work[s][j], r)
        BY <1>4, <2>1, <2>3 DEF WillFetch
  <2>4. QED  BY <2>1, <2>2, <2>3 DEF WillFetch
<1>9. QED  BY <1>3, <1>8

\* PinBegin and RefreshBegin of a pinned scope, and the fetches.
LEMMA PlannedRecord ==
  ASSUME PinType, NEW s \in Scope, NEW k \in Kind \ {"call"}, NEW ids \in SUBSET Rec, Planned(s, k, ids)
  PROVE  /\ \E w : WorkOk(k, w) /\ Becomes(s, k, w)
         /\ work'[s][k].pc = "fetch" /\ work'[s][k].todo = Ready(ids) /\ Ready(ids) \subseteq ids
         /\ work'[s][k].wait = (ids # Ready(ids))
         /\ \A j \in Kind \ {k} : work'[s][j] = work[s][j]
<1> DEFINE w == [work[s][k] EXCEPT !.pc = "fetch", !.todo = Ready(ids), !.wait = ids # Ready(ids)]
<1>1. Ready(ids) \subseteq ids
      BY DEF Ready
<1>2. work[s][k] \in Works
      BY WorkMembers
<1>3. w \in Works /\ w.pc = "fetch" /\ w.todo = Ready(ids) /\ w.wait = (ids # Ready(ids))
      BY <1>1, <1>2 DEF Works, WorkAt
<1>4. Becomes(s, k, w)
      BY DEF Planned
<1> HIDE DEF w
<1>5. WorkOk(k, w)
      BY <1>3 DEF WorkOk
<1>6. QED  BY <1>1, <1>3, <1>4, <1>5, WorkFacts

\* The type is kept when the work of a job goes on and the rows are left alone.
LEMMA PinTypeStands ==
  ASSUME PinType, WorkType', timer' \in [Scope -> BOOLEAN], UNCHANGED <<refs, online, content, root, members>>
  PROVE  PinType'
BY DEF PinType, WorkType

\* The pin job plans its fetches.
LEMMA PinBeginKeeps ==
  ASSUME PinIndInv, NEW s \in Scope, PinBegin(s)
  PROVE  PinIndInv'
<1> USE DEF PinIndInv
<1>1. /\ work[s]["pin"].pc = "begin" /\ Planned(s, "pin", work[s]["pin"].todo)
      /\ UNCHANGED <<cacheVars, content, root, members, timer>>
      BY DEF PinBegin, On
<1>2. "pin" \in Kind \ {"call"} /\ work[s]["pin"].todo \in SUBSET Rec
      BY WorkMembers DEF Kind
<1>3. /\ \E w : WorkOk("pin", w) /\ Becomes(s, "pin", w)
      /\ work'[s]["pin"].pc = "fetch" /\ work'[s]["pin"].todo = Ready(work[s]["pin"].todo)
      /\ work'[s]["pin"].wait = (work[s]["pin"].todo # Ready(work[s]["pin"].todo))
      /\ \A j \in Kind \ {"pin"} : work'[s][j] = work[s][j]
      BY <1>1, <1>2, PlannedRecord
<1>4. WorkType' /\ \A t \in Scope \ {s} : work'[t] = work[t]
      BY <1>2, <1>3, WorkFacts
<1>5. PinType'
      BY <1>1, <1>4, PinTypeStands DEF cacheVars, PinType
<1>6. CacheQuiet /\ CacheGrows
      BY <1>1, QuietCache DEF cacheVars, sweepVars, CacheGrows, assetVars, blobVars
<1>7. Only(s)
      BY <1>1, <1>4 DEF Only, cacheVars, RefsOf
<1>8. ScopeInd(s)'
  <2>1. SameRows(s) /\ (Slipped(s) => Slipped(s)')
        BY <1>1, <1>3 DEF SameRows, cacheVars, RefsOf, Slipped, On
  <2>2. \A r : OnList(work[s]["pin"], r) \/ InHand(work[s]["pin"], r) =>
           OnList(work'[s]["pin"], r) \/ work'[s]["pin"].wait
        BY <1>1, <1>3 DEF OnList, InHand
  <2>3. QED  BY <1>1, <1>2, <1>3, <1>6, <2>1, <2>2, JobGoesOn
<1>9. \A k \in Kind : work'[s][k].pc = "stored" => work'[s][k].at \in blob' \cup removed'
  <2>1. \A k \in Kind : work'[s][k].pc = "stored" => work'[s][k] = work[s][k]
        BY <1>3
  <2>2. QED  BY <1>1, <2>1 DEF CacheInd, BlobsThere, There, On, cacheVars, assetVars, blobVars, sweepVars
<1>10. QED  BY <1>5, <1>6, <1>7, <1>8, <1>9, PinFrame

\* The refresh job begins: what went wrong before is looked at again.
LEMMA RefreshBeginKeeps ==
  ASSUME PinIndInv, NEW s \in Scope, RefreshBegin(s)
  PROVE  PinIndInv'
<1> USE DEF PinIndInv
<1>1. /\ work[s]["refresh"].pc = "begin"
      /\ UNCHANGED <<assetVars, refs, online, encVars, prepVars, sweepVars, events, content, root, members, timer>>
      BY DEF RefreshBegin, On
<1>2. "refresh" \in Kind \ {"call"} /\ Missing(s) \in SUBSET Rec
      BY DEF Kind, Missing, Resolved, PinType
<1>3. CacheQuiet /\ CacheGrows
      BY <1>1, QuietCache DEF sweepVars, CacheGrows, assetVars, blobVars
<1>4. CASE root[s] = "none"
  <2> DEFINE w == [Idle EXCEPT !.pc = "close"]
  <2>1. Becomes(s, "refresh", w) /\ slips' = slips
        BY <1>4 DEF RefreshBegin
  <2>2. WorkOk("refresh", w) /\ w.pc = "close"
        BY DEF WorkOk, Works, Idle, NoPlan, Plans, WorkAt
  <2> HIDE DEF w
  <2>3. /\ WorkType' /\ work'[s]["refresh"] = w /\ \A j \in Kind \ {"refresh"} : work'[s][j] = work[s][j]
        /\ \A t \in Scope \ {s} : work'[t] = work[t]
        BY <1>2, <2>1, <2>2, WorkFacts
  <2>4. PinType'
        BY <1>1, <2>3, PinTypeStands DEF PinType
  <2>5. Only(s)
        BY <1>1, <2>1, <2>3 DEF Only, RefsOf
  <2>6. SameRows(s)
        BY <1>1, <2>1, <2>2, <2>3 DEF SameRows, RefsOf, On
  <2>7. ~Counted(s)'
        BY <1>1, <1>4 DEF Counted
  <2>8. ScopeInd(s)'
        BY <2>6, <2>7, SameRowsStand DEF ScopeInd, Settling
  <2>9. \A k \in Kind : work'[s][k].pc = "stored" => work'[s][k] = work[s][k]
        BY <2>2, <2>3
  <2>10. \A k \in Kind : work'[s][k].pc = "stored" => work'[s][k].at \in blob' \cup removed'
        BY <1>1, <2>9 DEF CacheInd, BlobsThere, There, On, assetVars, blobVars, sweepVars
  <2>11. QED  BY <1>3, <2>4, <2>5, <2>8, <2>10, PinFrame
<1>5. CASE root[s] # "none"
  <2>1. Planned(s, "refresh", Missing(s)) /\ slips' = {x \in slips : x[2] # s}
        BY <1>5 DEF RefreshBegin
  <2>2. /\ \E w : WorkOk("refresh", w) /\ Becomes(s, "refresh", w)
        /\ work'[s]["refresh"].pc = "fetch" /\ work'[s]["refresh"].todo = Ready(Missing(s))
        /\ work'[s]["refresh"].wait = (Missing(s) # Ready(Missing(s)))
        /\ \A j \in Kind \ {"refresh"} : work'[s][j] = work[s][j]
        BY <1>2, <2>1, PlannedRecord
  <2>3. WorkType' /\ \A t \in Scope \ {s} : work'[t] = work[t]
        BY <1>2, <2>2, WorkFacts
  <2>4. PinType'
        BY <1>1, <2>3, PinTypeStands DEF PinType
  <2>5. Only(s)
        BY <1>1, <2>1, <2>3 DEF Only, RefsOf
  <2>6. StaleKnown(s)' /\ Emptied(s)'
        BY <1>1, <1>5 DEF StaleKnown, Emptied
  <2>7. Settling(s)'
    <3>1. SUFFICES ASSUME Counted(s)' PROVE (\A r \in Missing(s)' : WillFetch(s, r)') /\ WillRead(s)'
          BY DEF Settling
    <3>2. WillRead(s)'
          BY <1>2, <2>2 DEF WillRead
    <3>3. ~work'[s]["refresh"].wait
          BY <1>2, <2>2, <3>1 DEF Counted, Owed
    <3>4. work'[s]["refresh"].todo = Missing(s)
          BY <2>2, <3>3
    <3>5. Missing(s)' = Missing(s)
          BY <1>1 DEF Missing, Resolved, assetVars, blobVars
    <3>6. QED  BY <1>2, <2>2, <3>2, <3>4, <3>5 DEF WillFetch, OnList
  <2>8. \A k \in Kind : work'[s][k].pc = "stored" => work'[s][k] = work[s][k]
        BY <2>2
  <2>9. \A k \in Kind : work'[s][k].pc = "stored" => work'[s][k].at \in blob' \cup removed'
        BY <1>1, <2>8 DEF CacheInd, BlobsThere, There, On, assetVars, blobVars, sweepVars
  <2>10. QED  BY <1>3, <2>4, <2>5, <2>6, <2>7, <2>9, PinFrame DEF ScopeInd
<1>6. QED  BY <1>4, <1>5

\* A fetch: held, stored, left for the retry, or failed.
LEMMA FetchKeeps ==
  ASSUME PinIndInv, NEW s \in Scope, NEW k \in Kind, NEW r \in Rec,
         FetchOne(s, k, r) \/ FetchOneFails(s, k, r)
  PROVE  PinIndInv'
<1> USE DEF PinIndInv
<1>1. /\ work[s][k].pc = "fetch" /\ r \in work[s][k].todo
      /\ UNCHANGED <<refs, online, encVars, prepVars, sweepVars, slips, content, root, members, timer>>
      BY DEF FetchOne, FetchOneFails, On
<1>2. k # "call"
      BY <1>1 DEF PinType
\* The record as it goes on.
<1>3. PICK w : /\ w \in Works /\ Becomes(s, k, w) /\ w.todo = work[s][k].todo \ {r}
               /\ \/ /\ w.pc = "fetch" /\ UNCHANGED assetVars /\ (work[s][k].wait => w.wait)
                     /\ r \in cached \cup Local \/ w.wait
                  \/ /\ w.pc = "stored" /\ w.at = r /\ w.wait = work[s][k].wait /\ StoreFetched(r)
  <2> DEFINE base == [work[s][k] EXCEPT !.todo = @ \ {r}]
             waits(b) == [work[s][k] EXCEPT !.todo = @ \ {r}, !.wait = b]
             stored == [work[s][k] EXCEPT !.todo = @ \ {r}, !.pc = "stored", !.at = r]
  <2>1. work[s][k] \in Works
        BY WorkMembers
  <2>2. base \in Works /\ base.pc = "fetch" /\ base.todo = work[s][k].todo \ {r} /\ base.wait = work[s][k].wait
        BY <1>1, <2>1 DEF Works
  <2>3. /\ stored \in Works /\ stored.pc = "stored" /\ stored.at = r
        /\ stored.todo = work[s][k].todo \ {r} /\ stored.wait = work[s][k].wait
        BY <2>1 DEF Works, WorkAt
  <2>4. ASSUME NEW b \in BOOLEAN
        PROVE  waits(b) \in Works /\ waits(b).pc = "fetch" /\ waits(b).todo = work[s][k].todo \ {r} /\ waits(b).wait = b
        BY <1>1, <2>1 DEF Works
  <2>5. work[s][k].wait \in BOOLEAN
        BY <2>1 DEF Works
  <2>6. CASE r \in cached /\ FetchOne(s, k, r)
    <3> DEFINE b == work[s][k].wait \/ r \notin blob
    <3>1. Becomes(s, k, waits(b)) /\ UNCHANGED assetVars /\ b \in BOOLEAN
          BY <2>5, <2>6 DEF FetchOne
    <3> HIDE DEF waits
    <3>2. QED  BY <2>4, <2>6, <3>1
  <2>7. CASE r \in Local \ cached /\ FetchOne(s, k, r)
    <3>1. Becomes(s, k, base) /\ UNCHANGED assetVars
          BY <2>7 DEF FetchOne
    <3> HIDE DEF base
    <3>2. QED  BY <2>2, <2>7, <3>1
  <2>8. CASE r \notin cached \cup Local /\ online /\ FetchOne(s, k, r)
    <3>1. Becomes(s, k, stored) /\ StoreFetched(r)
          BY <2>8 DEF FetchOne
    <3> HIDE DEF stored
    <3>2. QED  BY <2>3, <3>1
  <2>9. CASE (r \notin cached \cup Local /\ ~online /\ FetchOne(s, k, r)) \/ FetchOneFails(s, k, r)
    <3>1. Becomes(s, k, waits(TRUE)) /\ UNCHANGED assetVars
          BY <2>9 DEF FetchOne, FetchOneFails
    <3> HIDE DEF waits
    <3>2. QED  BY <2>4, <3>1
  <2>10. QED  BY <2>6, <2>7, <2>8, <2>9
<1>4. WorkOk(k, w)
      BY <1>2, <1>3 DEF WorkOk
<1>5. /\ WorkType' /\ work'[s][k] = w /\ \A j \in Kind \ {k} : work'[s][j] = work[s][j]
      /\ \A t \in Scope \ {s} : work'[t] = work[t]
      BY <1>3, <1>4, WorkFacts
<1>6. PinType'
      BY <1>1, <1>5, PinTypeStands DEF PinType
<1>7. Tables
      BY <1>1, <1>3, SameTables, StoredTables DEF PinIndInv, sweepVars, StoreFetched
<1>8. CacheQuiet /\ CacheGrows
      BY <1>1, <1>7 DEF CacheQuiet, CacheGrows, sweepVars, Tables
<1>9. Only(s)
      BY <1>1, <1>5 DEF Only, RefsOf
<1>10. ScopeInd(s)'
  <2>1. SameRows(s) /\ (Slipped(s) => Slipped(s)')
        BY <1>1, <1>3, <1>5 DEF SameRows, RefsOf, Slipped, On
  <2>2. ASSUME NEW q, OnList(work[s][k], q) \/ InHand(work[s][k], q)
        PROVE  \/ OnList(work'[s][k], q) \/ InHand(work'[s][k], q)
               \/ work'[s][k].wait \/ q \in Local \cup cached'
        BY <1>1, <1>3, <1>5, <2>2 DEF OnList, InHand, assetVars, blobVars
  <2>3. k \in Kind \ {"call"} /\ work'[s][k].pc \in {"fetch", "stored"} /\ (work[s][k].wait => work'[s][k].wait)
        BY <1>2, <1>3, <1>5
  <2>4. QED  BY <1>1, <1>5, <1>8, <2>1, <2>2, <2>3, JobGoesOn
<1>11. \A j \in Kind : work'[s][j].pc = "stored" => work'[s][j].at \in blob' \cup removed'
  <2>1. CASE w.pc = "stored"
        BY <1>3, <1>5, <1>7, <2>1 DEF CacheInd, BlobsThere, There, On, StoreFetched, WriteBlob, Tables
  <2>2. CASE w.pc # "stored"
        BY <1>3, <1>5, <1>7, <2>2 DEF CacheInd, BlobsThere, There, On, Tables
  <2>3. QED  BY <2>1, <2>2
<1>12. QED  BY <1>6, <1>8, <1>9, <1>10, <1>11, PinFrame

\* What was fetched is committed.
LEMMA CommitOneKeeps ==
  ASSUME PinIndInv, NEW s \in Scope, NEW k \in Kind, CommitOne(s, k)
  PROVE  PinIndInv'
<1> USE DEF PinIndInv
<1> DEFINE r == work[s][k].at
           w == [work[s][k] EXCEPT !.pc = "fetch", !.at = None]
<1>1. /\ work[s][k].pc = "stored" /\ CommitFetched(r) /\ Becomes(s, k, w)
      /\ UNCHANGED <<refs, online, encVars, prepVars, sweepVars, slips, events, content, root, members, timer>>
      BY DEF CommitOne, On
<1>2. k # "call" /\ r \in Rec /\ There(r)
      BY <1>1 DEF PinType, CacheInd, BlobsThere, On
<1>3. w \in Works /\ w.pc = "fetch" /\ w.todo = work[s][k].todo /\ w.wait = work[s][k].wait
      BY WorkMembers DEF Works, WorkAt
<1> HIDE DEF w
<1>4. WorkOk(k, w)
      BY <1>2, <1>3 DEF WorkOk
<1>5. /\ WorkType' /\ work'[s][k] = w /\ \A j \in Kind \ {k} : work'[s][j] = work[s][j]
      /\ \A t \in Scope \ {s} : work'[t] = work[t]
      BY <1>1, <1>4, WorkFacts
<1>6. PinType'
      BY <1>1, <1>5, PinTypeStands DEF PinType
<1>7. row' = row \cup {r} /\ Flagged(r) /\ UNCHANGED blobVars /\ swept' = swept
      BY <1>1 DEF CommitFetched, sweepVars
<1>8. Tables /\ r \in cached'
      BY <1>2, <1>7, FlaggedTables DEF Flagged, Flag
<1>9. CacheQuiet /\ CacheGrows
      BY <1>1, <1>8 DEF CacheQuiet, CacheGrows, sweepVars, Tables
<1>10. Only(s)
       BY <1>1, <1>5 DEF Only, RefsOf
<1>11. ScopeInd(s)'
  <2>1. SameRows(s) /\ (Slipped(s) => Slipped(s)')
        BY <1>1, <1>3, <1>5 DEF SameRows, RefsOf, Slipped, On
  <2>2. \A q : OnList(work[s][k], q) \/ InHand(work[s][k], q) => OnList(work'[s][k], q) \/ q \in Local \cup cached'
        BY <1>1, <1>3, <1>5, <1>8 DEF OnList, InHand
  <2>3. QED  BY <1>1, <1>2, <1>3, <1>5, <1>9, <2>1, <2>2, JobGoesOn
<1>12. \A j \in Kind : work'[s][j].pc = "stored" => work'[s][j].at \in blob' \cup removed'
       BY <1>3, <1>5, <1>8 DEF CacheInd, BlobsThere, There, On, Tables
<1>13. QED  BY <1>6, <1>9, <1>10, <1>11, <1>12, PinFrame

-----------------------------------------------------------------------------
(* reconcileScope.                                                          *)

\* Who is still to fetch is still to read.
LEMMA FetchersRead == ASSUME NEW s \in Scope, NEW r, WillFetch(s, r) PROVE WillRead(s)
BY DEF WillFetch, WillRead, OnList, InHand

\* The last one to read finds everything held, and plans for that or finds it written.
LEMMA ReconcileReadKeeps ==
  ASSUME PinIndInv, NEW s \in Scope, NEW k \in Kind, ReconcileRead(s, k)
  PROVE  PinIndInv'
<1> USE DEF PinIndInv
<1> DEFINE done == root[s] = "none" \/ Plan(s) = Written(s)
           w == IF done THEN [work[s][k] EXCEPT !.pc = "close"]
                ELSE [work[s][k] EXCEPT !.pc = "commit", !.plan = Plan(s)]
<1>1. /\ Reading(s, k) /\ Becomes(s, k, w)
      /\ slips' = slips \cup {<<"overtaken", s>> : j \in {j \in Kind \ {k} : On(s, j, "commit")}}
      /\ UNCHANGED <<assetVars, refs, online, encVars, prepVars, sweepVars, events, content, root, members, timer>>
      BY DEF ReconcileRead
<1>2. \/ work[s][k].pc = "read"
      \/ work[s][k].pc = "fetch" /\ work[s][k].todo = {} /\ k # "call"
      BY <1>1 DEF Reading, On, PinType
<1>3. Plan(s) \in Plans
      BY DEF Plan, Plans, Resolved, PinType
<1>4. /\ w \in Works /\ w.todo = work[s][k].todo /\ w.wait = work[s][k].wait
      /\ done => w.pc = "close"
      /\ ~done => w.pc = "commit" /\ w.plan = Plan(s)
      BY <1>3, WorkMembers DEF Works, WorkAt
<1> HIDE DEF w
<1>5. WorkOk(k, w)
      BY <1>4 DEF WorkOk
<1>6. /\ WorkType' /\ work'[s][k] = w /\ \A j \in Kind \ {k} : work'[s][j] = work[s][j]
      /\ \A t \in Scope \ {s} : work'[t] = work[t]
      BY <1>1, <1>5, WorkFacts
<1>7. PinType'
      BY <1>1, <1>6, PinTypeStands DEF PinType
<1>8. CacheQuiet
      BY <1>1, QuietCache DEF sweepVars
<1>9. Only(s)
      BY <1>1, <1>6 DEF Only, RefsOf
<1>10. StaleKnown(s)' /\ Emptied(s)'
  <2>1. StaleKnown(s)'
        BY <1>1, <1>4, <1>6 DEF ScopeInd, StaleKnown, On
  <2>2. QED  BY <1>1, <2>1 DEF ScopeInd, Emptied, RefsOf
<1>11. Settling(s)'
  <2>1. SUFFICES ASSUME Counted(s)'
                 PROVE  /\ \A r \in Missing(s)' : WillFetch(s, r)'
                        /\ WillRead(s)' \/ (\E j \in Kind : PlanComplete(s, j)') \/ RowsComplete(s)'
        BY DEF Settling
  <2>2. root[s] # "none" /\ content[s] \cap swept = {} /\ ~Slipped(s)
        BY <1>1, <2>1 DEF Counted, Slipped, sweepVars
  <2>3. \A j \in Kind \ {k} : ~On(s, j, "commit")
    <3>1. <<"overtaken", s>> \notin slips'
          BY <2>1 DEF Counted, Slipped
    <3>2. QED  BY <1>1, <3>1
  <2>4. ~Owed(s)
    <3>1. ~timer[s]
          BY <1>1, <2>1 DEF Counted, Owed
    <3>2. ~On(s, "refresh", "begin")
          BY <1>2, <1>6, <2>1 DEF Counted, Owed, On, Kind
    <3>3. ASSUME NEW j \in Kind \ {"call"}, work[s][j].wait, work[s][j].pc \notin {"idle", "begin"} PROVE FALSE
          BY <1>4, <1>6, <2>1, <3>3 DEF Counted, Owed
    <3>4. QED  BY <3>1, <3>2, <3>3 DEF Owed
  <2>5. Settling(s) /\ Counted(s)
        BY <2>2, <2>4 DEF Counted, ScopeInd
  <2>6. Missing(s)' = Missing(s)
        BY <1>1 DEF Missing, Resolved, assetVars, blobVars
  <2>7. ASSUME NEW r \in Missing(s) PROVE WillFetch(s, r)'
    <3>1. WillFetch(s, r)
          BY <2>5 DEF Settling
    <3>2. ~OnList(work[s][k], r) /\ ~InHand(work[s][k], r)
          BY <1>2 DEF OnList, InHand
    <3>3. CASE ~On(s, "call", "idle") /\ r \in work[s]["call"].todo
          BY <1>4, <1>6, <3>3 DEF WillFetch, On, Kind
    <3>4. QED  BY <1>6, <3>1, <3>2, <3>3 DEF WillFetch
  <2>8. CASE ~WillRead(s)'
    <3>1. Missing(s) = {}
          BY <2>7, <2>8, FetchersRead DEF WillFetch, WillRead, OnList, InHand
    <3>2. content[s] \ Local \subseteq content[s] \cap cached
          BY <3>1 DEF Missing, Resolved
    <3>3. Complete(s, Plan(s).members, Plan(s).pending, Plan(s).held)
          BY <3>1, <3>2 DEF Complete, Plan, Resolved
    <3>4. CASE done
      <4>1. Complete(s, members[s], root[s] = "pending", HeldBy(s))
            BY <2>2, <3>3, <3>4 DEF Written
      <4>2. \A j \in Kind : ~On(s, j, "commit")'
            BY <1>4, <1>6, <2>3, <3>4 DEF On
      <4>3. QED  BY <1>1, <2>6, <2>7, <4>1, <4>2 DEF RowsComplete, Complete, HeldBy, RefsOf
    <3>5. CASE ~done
      <4>1. On(s, k, "commit")' /\ \A j \in Kind \ {k} : ~On(s, j, "commit")'
            BY <1>4, <1>6, <2>3, <3>5 DEF On
      <4>2. PlanComplete(s, k)'
            BY <1>1, <1>4, <1>6, <3>3, <3>5, <4>1 DEF PlanComplete, Complete
      <4>3. QED  BY <2>6, <2>7, <4>2
    <3>6. QED  BY <3>4, <3>5
  <2>9. QED  BY <2>6, <2>7, <2>8
<1>12. \A j \in Kind : work'[s][j].pc = "stored" => work'[s][j].at \in blob' \cup removed'
       BY <1>1, <1>4, <1>6 DEF CacheInd, BlobsThere, There, On, assetVars, blobVars, sweepVars
<1>13. QED  BY <1>7, <1>8, <1>9, <1>10, <1>11, <1>12, PinFrame DEF ScopeInd

\* The transaction of a reconcile writes its plan.
LEMMA ReconcileCommitKeeps ==
  ASSUME PinIndInv, NEW s \in Scope, NEW k \in Kind, ReconcileCommit(s, k)
  PROVE  PinIndInv'
<1> USE DEF PinIndInv
<1> DEFINE plan == work[s][k].plan
           w == [work[s][k] EXCEPT !.pc = "close", !.plan = NoPlan]
<1>1. /\ work[s][k].pc = "commit" /\ Becomes(s, k, w)
      /\ members' = [members EXCEPT ![s] = plan.members]
      /\ refs' = (refs \ RefsOf(s)) \cup ({s} \X plan.held)
      /\ root' = [root EXCEPT ![s] = IF @ = "none" THEN @ ELSE IF plan.pending THEN "pending" ELSE "clear"]
      /\ sworn' = {r \in sworn : \E p \in refs' : p[2] = r}
      /\ UNCHANGED <<assetVars, online, encVars, prepVars, sweep, swept, slips, events, content, timer>>
      BY DEF ReconcileCommit, On
<1>2. plan.members \subseteq Rec /\ plan.held \subseteq Rec /\ plan.pending \in BOOLEAN
      BY WorkMembers DEF Plans
<1>3. w \in Works /\ w.pc = "close" /\ w.todo = work[s][k].todo /\ w.wait = work[s][k].wait
      BY WorkMembers DEF Works, WorkAt, NoPlan, Plans
<1> HIDE DEF w
<1>4. WorkOk(k, w)
      BY <1>3 DEF WorkOk
<1>5. /\ WorkType' /\ work'[s][k] = w /\ \A j \in Kind \ {k} : work'[s][j] = work[s][j]
      /\ \A t \in Scope \ {s} : work'[t] = work[t]
      BY <1>1, <1>4, WorkFacts
<1> HIDE DEF plan
<1>6. /\ RefsOf(s)' = {s} \X plan.held
      /\ \A t \in Scope \ {s} : RefsOf(t)' = RefsOf(t)
      /\ refs' \subseteq Scope \X Rec
      BY <1>1, <1>2 DEF RefsOf, PinType
<1>7. /\ members'[s] = plan.members
      /\ root[s] = "none" => root'[s] = "none"
      /\ root[s] # "none" => root'[s] = IF plan.pending THEN "pending" ELSE "clear"
      BY <1>1 DEF PinType
<1>8. PinType'
  <2>1. members' \in [Scope -> SUBSET Rec] /\ root' \in [Scope -> {"none", "clear", "pending"}]
        BY <1>1, <1>2 DEF PinType
  <2>2. QED  BY <1>1, <1>5, <1>6, <2>1 DEF PinType, WorkType
<1>9. CacheQuiet
      BY <1>1, QuietCache
<1>10. Only(s)
       BY <1>1, <1>5, <1>6 DEF Only, PinType
<1>11. StaleKnown(s)' /\ Emptied(s)'
  <2>1. root'[s] = "none" => root[s] = "none" /\ <<"unpinned", s>> \in slips
        BY <1>1, <1>7 DEF ScopeInd, StaleKnown, On
  <2>2. QED  BY <1>1, <2>1 DEF StaleKnown, Emptied
<1>12. Settling(s)'
  <2>1. SUFFICES ASSUME Counted(s)'
                 PROVE  /\ \A r \in Missing(s)' : WillFetch(s, r)'
                        /\ WillRead(s)' \/ RowsComplete(s)'
        BY DEF Settling
  <2>2. root[s] # "none" /\ content[s] \cap swept = {} /\ ~Slipped(s)
        BY <1>1, <1>7, <2>1 DEF Counted, Slipped
  <2>3. ~Owed(s)
    <3>1. ~timer[s]
          BY <1>1, <2>1 DEF Counted, Owed
    <3>2. ~On(s, "refresh", "begin")
          BY <1>1, <1>5, <2>1 DEF Counted, Owed, On, Kind
    <3>3. ASSUME NEW j \in Kind \ {"call"}, work[s][j].wait, work[s][j].pc \notin {"idle", "begin"} PROVE FALSE
          BY <1>3, <1>5, <2>1, <3>3 DEF Counted, Owed
    <3>4. QED  BY <3>1, <3>2, <3>3 DEF Owed
  <2>4. Settling(s) /\ Counted(s)
        BY <2>2, <2>3 DEF Counted, ScopeInd
  <2>5. Missing(s)' = Missing(s)
        BY <1>1 DEF Missing, Resolved, assetVars, blobVars
  <2>6. ASSUME NEW r \in Missing(s) PROVE WillFetch(s, r)'
    <3>1. WillFetch(s, r)
          BY <2>4 DEF Settling
    <3>2. ~OnList(work[s][k], r) /\ ~InHand(work[s][k], r)
          BY <1>1 DEF OnList, InHand
    <3>3. CASE ~On(s, "call", "idle") /\ r \in work[s]["call"].todo
          BY <1>3, <1>5, <3>3 DEF WillFetch, On, Kind
    <3>4. QED  BY <1>5, <3>1, <3>2, <3>3 DEF WillFetch
  <2>7. CASE ~WillRead(s)'
    <3>1. ~WillRead(s)
      <4>1. On(s, "call", "idle")
            BY <1>3, <1>5, <2>7 DEF WillRead, On, Kind
      <4>2. QED  BY <1>1, <1>5, <2>7, <4>1 DEF WillRead
    <3>2. PlanComplete(s, k)
          BY <1>1, <2>4, <3>1 DEF Settling, RowsComplete, PlanComplete, On
    <3>3. plan.members = content[s] /\ ~plan.pending /\ content[s] \ Local \subseteq plan.held
          BY <3>2 DEF PlanComplete, Complete, plan
    <3>4. HeldBy(s)' = plan.held
      <4>1. HeldBy(s)' = {p[2] : p \in {s} \X plan.held}
            BY <1>6 DEF HeldBy
      <4>2. \A r \in plan.held : <<s, r>> \in {s} \X plan.held /\ <<s, r>>[2] = r
            OBVIOUS
      <4>3. plan.held \subseteq {p[2] : p \in {s} \X plan.held}
            BY <4>2
      <4>4. \A p \in {s} \X plan.held : p[2] \in plan.held
            OBVIOUS
      <4>5. QED  BY <4>1, <4>3, <4>4
    <3>5. \A j \in Kind : ~On(s, j, "commit")'
          BY <1>3, <1>5, <3>2 DEF PlanComplete, On
    <3>6. RowsComplete(s)'
          BY <1>1, <1>7, <2>2, <3>3, <3>4, <3>5 DEF RowsComplete, Complete
    <3>7. QED  BY <2>5, <2>6, <3>6
  <2>8. QED  BY <2>5, <2>6, <2>7
<1>13. \A j \in Kind : work'[s][j].pc = "stored" => work'[s][j].at \in blob' \cup removed'
       BY <1>1, <1>3, <1>5 DEF CacheInd, BlobsThere, There, On, assetVars, blobVars
<1>14. QED  BY <1>8, <1>9, <1>10, <1>11, <1>12, <1>13, PinFrame DEF ScopeInd

\* It fails, which leaves a slip.
LEMMA ReconcileFailsKeeps ==
  ASSUME PinIndInv, NEW s \in Scope, NEW k \in Kind, ReconcileFails(s, k)
  PROVE  PinIndInv'
<1> USE DEF PinIndInv
<1>1. /\ Becomes(s, k, Idle) /\ slips' = slips \cup {<<"failed", s>>}
      /\ UNCHANGED <<assetVars, refs, online, encVars, prepVars, sweepVars, content, root, members, timer>>
      BY DEF ReconcileFails
<1>2. /\ WorkType' /\ work'[s][k] = Idle /\ \A j \in Kind \ {k} : work'[s][j] = work[s][j]
      /\ \A t \in Scope \ {s} : work'[t] = work[t]
      BY <1>1, WorkFacts, IdleFacts
<1>3. PinType'
      BY <1>1, <1>2, PinTypeStands DEF PinType
<1>4. CacheQuiet
      BY <1>1, QuietCache DEF sweepVars
<1>5. Only(s)
      BY <1>1, <1>2 DEF Only, RefsOf
<1>6. SameRows(s)
      BY <1>1, <1>2, IdleFacts DEF SameRows, RefsOf, On
<1>7. ~Counted(s)'
  <2>1. <<"failed", s>> \in slips' /\ <<"failed", s>>[2] = s
        BY <1>1
  <2>2. QED  BY <2>1 DEF Counted, Slipped
<1>8. ScopeInd(s)'
      BY <1>6, <1>7, SameRowsStand DEF ScopeInd, Settling
<1>9. \A j \in Kind : work'[s][j].pc = "stored" => work'[s][j].at \in blob' \cup removed'
      BY <1>1, <1>2, IdleFacts DEF CacheInd, BlobsThere, There, On, assetVars, blobVars, sweepVars
<1>10. QED  BY <1>3, <1>4, <1>5, <1>8, <1>9, PinFrame

\* The job is complete; what waits is owed.
LEMMA JobDoneKeeps ==
  ASSUME PinIndInv, NEW s \in Scope, NEW k \in Kind, JobDone(s, k)
  PROVE  PinIndInv'
<1> USE DEF PinIndInv
<1>1. /\ k # "call" /\ work[s][k].pc = "close" /\ Becomes(s, k, Idle)
      /\ timer' = [timer EXCEPT ![s] = @ \/ work[s][k].wait]
      /\ UNCHANGED <<cacheVars, content, root, members>>
      BY DEF JobDone, On
<1>2. /\ WorkType' /\ work'[s][k] = Idle /\ \A j \in Kind \ {k} : work'[s][j] = work[s][j]
      /\ \A t \in Scope \ {s} : work'[t] = work[t]
      BY <1>1, WorkFacts, IdleFacts
<1>3. /\ timer' \in [Scope -> BOOLEAN] /\ timer'[s] = (timer[s] \/ work[s][k].wait)
      /\ \A t \in Scope \ {s} : timer'[t] = timer[t]
      BY <1>1, WorkMembers DEF PinType, Works
<1>4. PinType'
      BY <1>1, <1>2, <1>3, PinTypeStands DEF cacheVars, PinType
<1>5. CacheQuiet
      BY <1>1, QuietCache DEF cacheVars, sweepVars
<1>6. Only(s)
      BY <1>1, <1>2, <1>3 DEF Only, RefsOf, cacheVars
<1>7. SameRows(s)
      BY <1>1, <1>2, IdleFacts DEF SameRows, RefsOf, On, cacheVars
<1>8. Settling(s)'
  <2>1. SUFFICES ASSUME Counted(s)'
                 PROVE  /\ \A r \in Missing(s)' : WillFetch(s, r)'
                        /\ WillRead(s)' \/ (\E j \in Kind : PlanComplete(s, j)') \/ RowsComplete(s)'
        BY DEF Settling
  <2>2. ~Owed(s)
    <3>1. ~timer[s] /\ ~work[s][k].wait
          BY <1>3, <2>1 DEF Counted, Owed
    <3>2. ~On(s, "refresh", "begin")
          BY <1>1, <1>2, <2>1 DEF Counted, Owed, On, Kind
    <3>3. ASSUME NEW j \in Kind \ {"call"}, work[s][j].wait, work[s][j].pc \notin {"idle", "begin"} PROVE FALSE
          BY <1>2, <2>1, <3>1, <3>3 DEF Counted, Owed
    <3>4. QED  BY <3>1, <3>2, <3>3 DEF Owed
  <2>3. Settling(s) /\ Counted(s)
        BY <1>1, <2>1, <2>2 DEF Counted, ScopeInd, Slipped, cacheVars, sweepVars
  <2>4. Missing(s)' = Missing(s)
        BY <1>1 DEF Missing, Resolved, assetVars, blobVars, cacheVars
  <2>5. \A r : WillFetch(s, r) => WillFetch(s, r)'
        BY <1>1, <1>2 DEF WillFetch, OnList, InHand, On, Kind
  <2>6. WillRead(s) => WillRead(s)'
        BY <1>1, <1>2 DEF WillRead, On, Kind
  <2>7. \A j \in Kind : On(s, j, "commit")' <=> On(s, j, "commit")
        BY <1>1, <1>2, IdleFacts DEF On
  <2>8. \A j \in Kind : PlanComplete(s, j) => PlanComplete(s, j)'
    <3>1. \A j \in Kind : On(s, j, "commit") => work'[s][j] = work[s][j]
          BY <1>1, <1>2 DEF On
    <3>2. QED  BY <1>1, <2>7, <3>1 DEF PlanComplete, Complete
  <2>9. RowsComplete(s) => RowsComplete(s)'
        BY <1>1, <2>7 DEF RowsComplete, Complete, HeldBy, RefsOf, cacheVars
  <2>10. QED  BY <2>3, <2>4, <2>5, <2>6, <2>8, <2>9 DEF Settling
<1>9. \A j \in Kind : work'[s][j].pc = "stored" => work'[s][j].at \in blob' \cup removed'
      BY <1>1, <1>2, IdleFacts DEF CacheInd, BlobsThere, There, On, assetVars, blobVars, sweepVars, cacheVars
<1>10. QED  BY <1>4, <1>5, <1>6, <1>7, <1>8, <1>9, SameRowsStand, PinFrame DEF ScopeInd

-----------------------------------------------------------------------------
(* The calls, the timers and what sets them.                                *)

\* StartPin: its call has everything on the list.
LEMMA StartPinKeeps ==
  ASSUME PinIndInv, NEW s \in Scope, StartPin(s)
  PROVE  PinIndInv'
<1> USE DEF PinIndInv
<1> DEFINE w == [Idle EXCEPT !.pc = "read", !.todo = content[s]]
<1>1. /\ root' = [root EXCEPT ![s] = IF @ = "none" THEN "clear" ELSE @] /\ Becomes(s, "call", w)
      /\ UNCHANGED <<assetVars, refs, online, encVars, prepVars, sweepVars, slips, content, members, timer>>
      BY DEF StartPin, Resolved
<1>2. WorkOk("call", w) /\ w.pc = "read" /\ w.todo = content[s]
      BY DEF WorkOk, Works, Idle, NoPlan, Plans, WorkAt, PinType
<1> HIDE DEF w
<1>3. "call" \in Kind
      BY DEF Kind
<1>4. /\ WorkType' /\ work'[s]["call"] = w /\ \A j \in Kind \ {"call"} : work'[s][j] = work[s][j]
      /\ \A t \in Scope \ {s} : work'[t] = work[t]
      BY <1>1, <1>2, <1>3, WorkFacts
<1>5. root' \in [Scope -> {"none", "clear", "pending"}] /\ root'[s] # "none" /\ \A t \in Scope \ {s} : root'[t] = root[t]
      BY <1>1 DEF PinType
<1>6. PinType'
      BY <1>1, <1>4, <1>5 DEF PinType, WorkType
<1>7. CacheQuiet
      BY <1>1, QuietCache DEF sweepVars
<1>8. Only(s)
      BY <1>1, <1>4, <1>5 DEF Only, RefsOf
<1>9. StaleKnown(s)' /\ Emptied(s)'
      BY <1>5 DEF StaleKnown, Emptied
<1>10. Settling(s)'
  <2>1. WillRead(s)'
        BY <1>2, <1>4 DEF WillRead, On
  <2>2. \A r \in Missing(s)' : WillFetch(s, r)'
        BY <1>1, <1>2, <1>4 DEF Missing, Resolved, WillFetch, On
  <2>3. QED  BY <2>1, <2>2 DEF Settling
<1>11. \A j \in Kind : work'[s][j].pc = "stored" => work'[s][j].at \in blob' \cup removed'
       BY <1>1, <1>2, <1>4 DEF CacheInd, BlobsThere, There, On, assetVars, blobVars, sweepVars
<1>12. QED  BY <1>6, <1>7, <1>8, <1>9, <1>10, <1>11, PinFrame DEF ScopeInd

\* Unpin empties the scope; a plan under way is known to be stale.
LEMMA UnpinKeeps ==
  ASSUME PinIndInv, NEW s \in Scope, Unpin(s)
  PROVE  PinIndInv'
<1> USE DEF PinIndInv
<1>1. /\ root' = [root EXCEPT ![s] = "none"] /\ members' = [members EXCEPT ![s] = {}]
      /\ refs' = refs \ RefsOf(s) /\ sworn' = {r \in sworn : \E p \in refs' : p[2] = r}
      /\ slips' = slips \cup {<<"unpinned", s>> : k \in {k \in Kind : On(s, k, "commit")}}
      /\ UNCHANGED <<assetVars, online, encVars, prepVars, sweep, swept, content, timer, work>>
      BY DEF Unpin
<1>2. /\ root' \in [Scope -> {"none", "clear", "pending"}] /\ root'[s] = "none" /\ members'[s] = {}
      /\ members' \in [Scope -> SUBSET Rec] /\ refs' \subseteq Scope \X Rec
      /\ \A t \in Scope \ {s} : root'[t] = root[t] /\ members'[t] = members[t]
      BY <1>1 DEF PinType
<1>3. RefsOf(s)' = {} /\ \A t \in Scope \ {s} : RefsOf(t)' = RefsOf(t)
      BY <1>1 DEF RefsOf
<1>4. PinType'
      BY <1>1, <1>2 DEF PinType
<1>5. CacheQuiet
      BY <1>1, QuietCache
<1>6. Only(s)
      BY <1>1, <1>2, <1>3 DEF Only
<1>7. Emptied(s)' /\ ~Counted(s)'
      BY <1>2, <1>3 DEF Emptied, Counted
<1>8. StaleKnown(s)'
      BY <1>1 DEF StaleKnown, On
<1>9. \A j \in Kind : work'[s][j].pc = "stored" => work'[s][j].at \in blob' \cup removed'
      BY <1>1 DEF CacheInd, BlobsThere, There, On, assetVars, blobVars
<1>10. QED  BY <1>4, <1>5, <1>6, <1>7, <1>8, <1>9, PinFrame DEF ScopeInd, Settling

\* The record w is put in the place of the job k of s.
Puts(w0, s, k, w) == work' = [w0 EXCEPT ![s][k] = w]

LEMMA PutFacts ==
  ASSUME NEW w0 \in [Scope -> [Kind -> Works]], NEW s \in Scope, NEW k \in Kind, NEW w \in Works,
         Puts(w0, s, k, w)
  PROVE  /\ work' \in [Scope -> [Kind -> Works]] /\ work'[s][k] = w
         /\ \A j \in Kind \ {k} : work'[s][j] = w0[s][j]
         /\ \A t \in Scope \ {s} : work'[t] = w0[t]
<1>1. work' = [w0 EXCEPT ![s][k] = w]
      BY DEF Puts
<1>2. w0[s] \in [Kind -> Works]
      OBVIOUS
<1>3. work'[s] = [w0[s] EXCEPT ![k] = w] /\ \A t \in Scope \ {s} : work'[t] = w0[t]
      BY <1>1
<1>4. work'[s] \in [Kind -> Works] /\ work'[s][k] = w /\ \A j \in Kind \ {k} : work'[s][j] = w0[s][j]
      BY <1>2, <1>3
<1>5. work' \in [Scope -> [Kind -> Works]]
      BY <1>1, <1>4
<1>6. QED  BY <1>3, <1>4, <1>5

\* A job that is started has its list and is about to begin.
Started(ids) == [Idle EXCEPT !.pc = "begin", !.todo = ids]

LEMMA StartedFacts ==
  ASSUME NEW ids \in SUBSET Rec
  PROVE  Started(ids) \in Works /\ Started(ids).pc = "begin" /\ Started(ids).todo = ids
BY DEF Started, Works, Idle, NoPlan, Plans, WorkAt

\* The call hands its list to the job, or leaves a slip.
LEMMA StartPinJobKeeps ==
  ASSUME PinIndInv, NEW s \in Scope, StartPinJob(s)
  PROVE  PinIndInv'
<1> USE DEF PinIndInv
<1> DEFINE w0 == [work EXCEPT ![s]["call"] = Idle]
           ids == work[s]["call"].todo
<1>1. /\ work[s]["call"].pc = "close" /\ work' = StartJob(w0, s, "pin", ids)
      /\ slips' = slips \cup (IF On(s, "pin", "idle") THEN {} ELSE {<<"pin job", s>>})
      /\ UNCHANGED <<assetVars, refs, online, encVars, prepVars, sweepVars, events, content, root, members, timer>>
      BY DEF StartPinJob, On
<1>2. "call" \in Kind /\ "pin" \in Kind /\ ids \in SUBSET Rec
      BY WorkMembers DEF Kind
<1>3. /\ w0 \in [Scope -> [Kind -> Works]] /\ w0[s]["call"] = Idle
      /\ \A j \in Kind \ {"call"} : w0[s][j] = work[s][j]
      /\ \A t \in Scope \ {s} : w0[t] = work[t]
  <2>1. work[s] \in [Kind -> Works]
        BY DEF PinType
  <2>2. w0[s] = [work[s] EXCEPT !["call"] = Idle] /\ \A t \in Scope \ {s} : w0[t] = work[t]
        BY DEF PinType
  <2>3. w0[s] \in [Kind -> Works] /\ w0[s]["call"] = Idle /\ \A j \in Kind \ {"call"} : w0[s][j] = work[s][j]
        BY <1>2, <2>1, <2>2, IdleFacts
  <2>4. w0 \in [Scope -> [Kind -> Works]]
        BY <2>3 DEF PinType
  <2>5. QED  BY <2>2, <2>3, <2>4
<1> HIDE DEF w0
<1>4. /\ work' \in [Scope -> [Kind -> Works]] /\ work'[s]["call"] = Idle
      /\ work'[s]["refresh"] = work[s]["refresh"]
      /\ \A t \in Scope \ {s} : work'[t] = work[t]
      /\ IF On(s, "pin", "idle") THEN work'[s]["pin"].pc = "begin" /\ work'[s]["pin"].todo = ids
                                 ELSE work'[s]["pin"] = work[s]["pin"]
  <2>1. CASE On(s, "pin", "idle")
    <3>1. w0[s]["pin"].pc = "idle"
          BY <1>2, <1>3, <2>1 DEF On
    <3>2. /\ work' \in [Scope -> [Kind -> Works]]
          /\ work'[s]["pin"].pc = "begin" /\ work'[s]["pin"].todo = ids
          /\ \A j \in Kind \ {"pin"} : work'[s][j] = w0[s][j]
          /\ \A t \in Scope \ {s} : work'[t] = w0[t]
      <4> HIDE DEF ids
      <4>1. Puts(w0, s, "pin", Started(ids))
            BY <1>1, <3>1 DEF StartJob, Puts, Started
      <4>2. Started(ids) \in Works /\ Started(ids).pc = "begin" /\ Started(ids).todo = ids
            BY <1>2, StartedFacts
      <4>3. QED  BY <1>2, <1>3, <4>1, <4>2, PutFacts
    <3>3. QED  BY <1>3, <2>1, <3>2 DEF Kind
  <2>2. CASE ~On(s, "pin", "idle")
    <3>1. work' = w0
          BY <1>1, <1>2, <1>3, <2>2 DEF StartJob, On
    <3>2. QED  BY <1>3, <2>2, <3>1 DEF Kind
  <2>3. QED  BY <2>1, <2>2
<1>5. \A j \in Kind : j = "call" \/ j = "pin" \/ j = "refresh"
      BY DEF Kind
<1>6. WorkType'
  <2>1. \A j \in Kind : work'[s][j].pc = "stored" => work'[s][j] = work[s][j]
        BY <1>4, <1>5, IdleFacts
  <2>2. QED  BY <1>4, <2>1, IdleFacts DEF WorkType, PinType
<1>7. PinType'
      BY <1>1, <1>6, PinTypeStands DEF PinType
<1>8. CacheQuiet
      BY <1>1, QuietCache DEF sweepVars
<1>9. Only(s)
      BY <1>1, <1>4 DEF Only, RefsOf
<1>10. SameRows(s)
       BY <1>1, <1>4, <1>5, IdleFacts DEF SameRows, RefsOf, On
<1>11. Settling(s)'
  <2>1. CASE ~On(s, "pin", "idle")
    <3>1. <<"pin job", s>> \in slips' /\ <<"pin job", s>>[2] = s
          BY <1>1, <2>1
    <3>2. QED  BY <3>1 DEF Settling, Counted, Slipped
  <2>2. CASE On(s, "pin", "idle")
    <3>1. SUFFICES ASSUME Counted(s)' PROVE (\A r \in Missing(s)' : WillFetch(s, r)') /\ WillRead(s)'
          BY DEF Settling
    <3>2. WillRead(s)'
          BY <1>2, <1>4, <2>2 DEF WillRead
    <3>3. ~Owed(s)
      <4>1. ~timer[s] /\ ~On(s, "refresh", "begin")
            BY <1>1, <1>4, <3>1 DEF Counted, Owed, On
      <4>2. ASSUME NEW j \in Kind \ {"call"}, work[s][j].wait, work[s][j].pc \notin {"idle", "begin"} PROVE FALSE
            BY <1>4, <1>5, <2>2, <3>1, <4>2 DEF Counted, Owed, On
      <4>3. QED  BY <4>1, <4>2 DEF Owed
    <3>4. Counted(s)
          BY <1>1, <2>2, <3>1, <3>3 DEF Counted, Slipped, sweepVars
    <3>5. Missing(s)' = Missing(s)
          BY <1>1 DEF Missing, Resolved, assetVars, blobVars
    <3>6. ASSUME NEW r \in Missing(s) PROVE WillFetch(s, r)'
      <4>1. WillFetch(s, r)
            BY <3>4 DEF ScopeInd, Settling
      <4>2. CASE r \in ids
            BY <1>2, <1>4, <2>2, <4>2 DEF WillFetch, OnList
      <4>3. CASE r \notin ids
        <5>1. \A j \in {"call", "pin"} : ~OnList(work[s][j], r) /\ ~InHand(work[s][j], r)
              BY <1>1, <2>2 DEF OnList, InHand, On
        <5>2. "refresh" \in Kind /\ (OnList(work[s]["refresh"], r) \/ InHand(work[s]["refresh"], r))
              BY <1>5, <4>1, <4>3, <5>1 DEF WillFetch, Kind
        <5>3. QED  BY <1>4, <5>2 DEF WillFetch
      <4>4. QED  BY <4>2, <4>3
    <3>7. QED  BY <3>2, <3>5, <3>6
  <2>3. QED  BY <2>1, <2>2
<1>12. \A j \in Kind : work'[s][j].pc = "stored" => work'[s][j].at \in blob' \cup removed'
  <2>1. \A j \in Kind : work'[s][j].pc = "stored" => work'[s][j] = work[s][j]
        BY <1>4, <1>5, IdleFacts
  <2>2. QED  BY <1>1, <2>1 DEF CacheInd, BlobsThere, There, On, assetVars, blobVars, sweepVars
<1>13. QED  BY <1>7, <1>8, <1>9, <1>10, <1>11, <1>12, SameRowsStand, PinFrame DEF ScopeInd

\* The timer's job begins, or the one at work leaves a slip.
LEMMA TimerFiresKeeps ==
  ASSUME PinIndInv, NEW s \in Scope, TimerFires(s)
  PROVE  PinIndInv'
<1> USE DEF PinIndInv
<1>1. /\ timer' = [timer EXCEPT ![s] = FALSE] /\ work' = StartJob(work, s, "refresh", {})
      /\ slips' = slips \cup (IF On(s, "refresh", "idle") THEN {} ELSE {<<"refresh", s>>})
      /\ UNCHANGED <<assetVars, refs, online, encVars, prepVars, sweepVars, events, content, root, members>>
      BY DEF TimerFires
<1>2. timer' \in [Scope -> BOOLEAN] /\ \A t \in Scope \ {s} : timer'[t] = timer[t]
      BY <1>1 DEF PinType
<1>3. /\ work' \in [Scope -> [Kind -> Works]]
      /\ \A j \in Kind \ {"refresh"} : work'[s][j] = work[s][j]
      /\ \A t \in Scope \ {s} : work'[t] = work[t]
      /\ IF On(s, "refresh", "idle") THEN work'[s]["refresh"].pc = "begin"
                                     ELSE work'[s]["refresh"] = work[s]["refresh"]
  <2>1. CASE On(s, "refresh", "idle")
    <3>1. Puts(work, s, "refresh", Started({}))
          BY <1>1, <2>1 DEF StartJob, Puts, Started, On
    <3>2. /\ Started({}) \in Works /\ Started({}).pc = "begin"
          /\ "refresh" \in Kind /\ work \in [Scope -> [Kind -> Works]]
          BY StartedFacts DEF Kind, PinType
    <3>3. /\ work' \in [Scope -> [Kind -> Works]]
          /\ work'[s]["refresh"].pc = "begin"
          /\ \A j \in Kind \ {"refresh"} : work'[s][j] = work[s][j]
          /\ \A t \in Scope \ {s} : work'[t] = work[t]
          BY <3>1, <3>2, PutFacts
    <3>4. QED  BY <2>1, <3>3
  <2>2. CASE ~On(s, "refresh", "idle")
        BY <1>1, <2>2 DEF StartJob, On, PinType
  <2>3. QED  BY <2>1, <2>2
<1>4. "refresh" \in Kind /\ "call" \in Kind
      BY DEF Kind
<1>5. \A j \in Kind : work'[s][j].pc \in {"stored", "commit"} => work'[s][j] = work[s][j]
      BY <1>3
<1>6. WorkType'
      BY <1>3, <1>4, <1>5 DEF WorkType, PinType
<1>7. PinType'
      BY <1>1, <1>2, <1>6, PinTypeStands DEF PinType
<1>8. CacheQuiet
      BY <1>1, QuietCache DEF sweepVars
<1>9. Only(s)
      BY <1>1, <1>2, <1>3 DEF Only, RefsOf
<1>10. SameRows(s)
       BY <1>1, <1>5 DEF SameRows, RefsOf, On
<1>11. ~Counted(s)'
  <2>1. CASE On(s, "refresh", "idle")
        BY <1>3, <2>1 DEF Counted, Owed, On
  <2>2. CASE ~On(s, "refresh", "idle")
    <3>1. <<"refresh", s>> \in slips' /\ <<"refresh", s>>[2] = s
          BY <1>1, <2>2
    <3>2. QED  BY <3>1 DEF Counted, Slipped
  <2>3. QED  BY <2>1, <2>2
<1>12. \A j \in Kind : work'[s][j].pc = "stored" => work'[s][j].at \in blob' \cup removed'
       BY <1>1, <1>5 DEF CacheInd, BlobsThere, There, On, assetVars, blobVars, sweepVars
<1>13. QED  BY <1>7, <1>8, <1>9, <1>10, <1>11, <1>12, SameRowsStand, PinFrame DEF ScopeInd, Settling

\* A catalog event makes a refresh due.
LEMMA CatalogChangeKeeps ==
  ASSUME PinIndInv, NEW s \in Scope, NEW recs \in SUBSET Rec, CatalogChange(s, recs)
  PROVE  PinIndInv'
<1> USE DEF PinIndInv
<1>1. /\ content' = [content EXCEPT ![s] = recs]
      /\ timer' = [timer EXCEPT ![s] = @ \/ root[s] # "none"]
      /\ UNCHANGED <<assetVars, refs, online, encVars, prepVars, sweepVars, slips, root, members, work>>
      BY DEF CatalogChange
<1>2. /\ content' \in [Scope -> SUBSET Rec] /\ timer' \in [Scope -> BOOLEAN]
      /\ root[s] # "none" => timer'[s]
      /\ \A t \in Scope \ {s} : content'[t] = content[t] /\ timer'[t] = timer[t]
      BY <1>1 DEF PinType
<1>3. PinType'
      BY <1>1, <1>2 DEF PinType
<1>4. CacheQuiet
      BY <1>1, QuietCache DEF sweepVars
<1>5. Only(s)
      BY <1>1, <1>2 DEF Only, RefsOf
<1>6. StaleKnown(s)' /\ Emptied(s)'
      BY <1>1 DEF ScopeInd, StaleKnown, Emptied, On, RefsOf
<1>7. ~Counted(s)'
      BY <1>1, <1>2 DEF Counted, Owed
<1>8. \A j \in Kind : work'[s][j].pc = "stored" => work'[s][j].at \in blob' \cup removed'
      BY <1>1 DEF CacheInd, BlobsThere, There, On, assetVars, blobVars, sweepVars
<1>9. QED  BY <1>3, <1>4, <1>5, <1>6, <1>7, <1>8, PinFrame DEF ScopeInd, Settling

\* A provider comes or goes, which makes refreshes due.
LEMMA AvailabilityKeeps ==
  ASSUME PinIndInv, AvailabilityChange
  PROVE  PinIndInv'
<1> USE DEF PinIndInv, CacheInd
<1>1. /\ online' = ~online /\ timer' = [s \in Scope |-> timer[s] \/ root[s] = "pending"]
      /\ UNCHANGED <<assetVars, refs, encVars, prepVars, sweepVars, slips, content, root, members, work>>
      BY DEF AvailabilityChange
<1>2. PinType'
      BY <1>1 DEF PinType
<1>3. \A s \in Scope : SameScope(s)
      BY <1>1 DEF SameScope, RefsOf, Slipped
<1>4. CacheGrows
      BY <1>1 DEF CacheGrows, assetVars, blobVars, sweepVars
<1>5. TablesType' /\ CallersType' /\ PreparationType' /\ CleanupType' /\ OneEncodes' /\ OfflineListed'
      BY <1>1 DEF TablesType, CallersType, PreparationType, CleanupType, OneEncodes, OfflineListed, Desired,
                  assetVars, blobVars, encVars, prepVars, sweepVars
<1>6. VictimsFree' /\ BlobsThere'
      BY <1>1 DEF VictimsFree, BlobsThere, There, On, assetVars, blobVars, encVars, prepVars, sweepVars
<1>7. QED  BY <1>2, <1>3, <1>4, <1>5, <1>6, ScopeStands

\* After a restart nobody is at work, and every pinned scope is refreshed.
LEMMA RestartKeeps ==
  ASSUME PinIndInv, Restart
  PROVE  PinIndInv'
<1> USE DEF PinIndInv, CacheInd
<1>1. /\ flights' = [r \in Rec |-> None] /\ enc' = [e \in Encoder |-> [pc |-> "idle", rec |-> None]]
      /\ prep' = [r \in Played |-> "none"] /\ active' = [r \in Played |-> FALSE]
      /\ runs' = [r \in Played |-> [k \in Run |-> "none"]]
      /\ sweep' = NoSweep /\ sworn' = {}
      /\ work' = [s \in Scope |-> [k \in Kind |-> Idle]]
      /\ timer' = [s \in Scope |-> root[s] # "none"]
      /\ UNCHANGED <<assetVars, refs, online, swept, slips, content, root, members>>
      BY DEF Restart
<1>2. TablesType' /\ OfflineListed'
      BY <1>1 DEF TablesType, OfflineListed, Desired, assetVars, blobVars
<1>3. CallersType' /\ OneEncodes' /\ PreparationType'
      BY <1>1 DEF CallersType, Callers, EncoderAt, OneEncodes, PreparationType, Status, RunAt
<1>4. CleanupType' /\ VictimsFree'
      BY <1>1 DEF CleanupType, Cleanups, VictimsFree, NoSweep
<1>5. \A s \in Scope, k \in Kind : work'[s][k] = Idle
      BY <1>1
<1>6. BlobsThere'
      BY <1>1, <1>5, IdleFacts DEF BlobsThere, There, On, assetVars, blobVars
<1>7. PinType'
  <2>1. "call" \in Kind
        BY DEF Kind
  <2>2. QED  BY <1>1, <1>5, <2>1, IdleFacts DEF PinType
<1>8. ASSUME NEW s \in Scope PROVE ScopeInd(s)'
  <2>1. StaleKnown(s)'
        BY <1>5, IdleFacts DEF StaleKnown, On
  <2>3. Emptied(s)'
        BY <1>1 DEF ScopeInd, Emptied, RefsOf
  <2>4. ~Counted(s)'
        BY <1>1 DEF Counted, Owed
  <2>5. QED  BY <2>1, <2>3, <2>4 DEF ScopeInd, Settling
<1>9. QED  BY <1>2, <1>3, <1>4, <1>6, <1>7, <1>8

-----------------------------------------------------------------------------
(* The theorems.                                                            *)

\* Every step keeps the invariant.
LEMMA PinInductive == PinIndInv /\ [Next]_vars => PinIndInv'
<1> SUFFICES ASSUME PinIndInv, [Next]_vars PROVE PinIndInv'
    OBVIOUS
<1>1. CASE CacheNext /\ UNCHANGED pinVars
      BY <1>1, EncoderKeeps, PrepareKeeps, CleanupKeeps DEF CacheNext
<1>2. ASSUME NEW s \in Scope, JobStep(s) PROVE PinIndInv'
      BY <1>2, StartPinJobKeeps, PinBeginKeeps, RefreshBeginKeeps, TimerFiresKeeps, FetchKeeps,
         CommitOneKeeps, ReconcileReadKeeps, ReconcileCommitKeeps, JobDoneKeeps DEF JobStep
<1>3. CASE PinSteps
      BY <1>2, <1>3, StartPinKeeps, UnpinKeeps, ReconcileFailsKeeps, FetchKeeps, CatalogChangeKeeps
      DEF PinSteps
<1>4. CASE AvailabilityChange \/ Restart
      BY <1>4, AvailabilityKeeps, RestartKeeps
<1>5. CASE UNCHANGED vars
  <2>1. UNCHANGED <<assetVars, refs, online, encVars, prepVars, sweepVars, slips, pinVars>>
        BY <1>5 DEF vars, cacheVars
  <2>2. Tables
        BY <2>1, SameTables DEF PinIndInv, sweepVars
  <2>3. CallersType' /\ OneEncodes'
        BY <2>1 DEF PinIndInv, CacheInd, CallersType, OneEncodes, encVars
  <2>4. \A x \in Encoder : enc'[x].pc = "stored" => enc'[x].rec \in blob' \cup removed'
        BY <2>1 DEF PinIndInv, CacheInd, BlobsThere, There, encVars, assetVars, blobVars, sweepVars
  <2>5. QED  BY <2>1, <2>2, <2>3, <2>4, EncoderFrame
<1>6. QED  BY <1>1, <1>3, <1>4, <1>5 DEF Next

\* The invariant holds in every reachable state.
LEMMA PinInvariant == Spec => []PinIndInv
<1>1. QED  BY PinInit, PinInductive, PTL DEF Spec

\* CacheSound (EnsureRecordingEncoding, storeFetchedPlaybackAsset,
\* PreparePlaybackRecording, CleanupCache): what the rows call cached is on disk
\* unless a cleanup removed the file and nobody wrote it since, a source is
\* encoded by one caller at a time, and the offline list agrees with the rows.
THEOREM TablesTrusted == Spec => []CacheSound
<1>1. PinIndInv => CacheSound
      BY CacheIndHolds DEF PinIndInv
<1>2. QED  BY <1>1, PinInvariant, PTL

\* PinnedBlobsKept (CleanupCache, listEntries): a cleanup leaves alone every blob
\* that a pin held when the entries were listed, and holds still.
THEOREM PinsOutliveCleanups == Spec => []PinnedBlobsKept
<1>1. PinIndInv => PinnedBlobsKept
      BY CacheIndHolds DEF PinIndInv
<1>2. QED  BY <1>1, PinInvariant, PTL

\* PinsSettled (StartPin, Unpin, runPinScopeJob, runPinScopeRefreshJob,
\* reconcileScope): a pinned scope on which nobody works is complete, unless the
\* work was let go or a cleanup took a recording; an unpinned one is empty.
THEOREM QuietPinsAreComplete == Spec => []PinsSettled
<1>1. QED  BY PinInvariant, PinIndHolds, PTL
=============================================================================
