------------------------------- MODULE Oplog -------------------------------
(***************************************************************************)
(* Rows of the operation log of a shared library, and how a contiguous run *)
(* of them changes the library's tables (internal/desktopcore/oplog_apply, *)
(* service_oplog and the replay half of service_sync).                     *)
(*                                                                         *)
(* A payload is abstracted to the identity of the op that carries it: an   *)
(* upsert writes the value <<dev, seq>> and a delete writes NoVal.  Rows   *)
(* that were never created and rows with deleted_at set both read NoVal:   *)
(* no code path tells the two apart.                                       *)
(*                                                                         *)
(* A mutation writes the row of its own entity.  The replay of a delete of *)
(* an optimized asset would also take the cache rows of that asset, but no *)
(* code appends such an op: optimized assets and cache rows are upserted   *)
(* only, and deletes are of source files, artwork, playlists and items.    *)
(***************************************************************************)
EXTENDS Integers, FiniteSets

CONSTANTS
    Device,      \* device ids; integers, so that "<" is the string order of ids
    Playlist,    \* ids of playlists created by users
    Item,        \* ids of playlist items
    Plain,       \* every other replicated entity (source files, assets, ...)
    PlaylistOf,  \* the playlist an item belongs to
    MaxSeq,      \* bound on the ops one device issues
    MaxTs,       \* bound on wall-clock readings (tsns)
    OpRank       \* position of the text "<dev>:<seq>" in the string order of op ids

Seqs   == 1..MaxSeq
Times  == 1..MaxTs
Entity == Playlist \cup Item \cup Plain

ASSUME DeviceAssumption == Device \subseteq Nat /\ IsFiniteSet(Device)
ASSUME EntityAssumption ==
    /\ Playlist \cap Item = {}
    /\ Playlist \cap Plain = {}
    /\ Item \cap Plain = {}
    /\ PlaylistOf \in [Item -> Playlist]
ASSUME BoundAssumption == MaxSeq \in Nat /\ MaxTs \in Nat
\* op ids are distinct texts, so their ranks are distinct numbers
ASSUME OpRankAssumption ==
    /\ OpRank \in [Device \X Seqs -> Nat]
    /\ \A a, b \in Device \X Seqs : OpRank[a] = OpRank[b] => a = b

NoVal == <<0, 0>>
Val   == (Device \X Seqs) \cup {NoVal}

\* A row of oplog_entries; (dev, seq) stands for the primary key op_id.
OplogEntry ==
    [dev : Device, seq : Seqs, ts : Times, ent : Entity, kind : {"upsert", "delete"}]

OpId(o) == <<o.dev, o.seq>>

\* A mutant: ops with equal timestamps are left unordered.
MutationBeforeByTime(p, o) == p.ts < o.ts

\* ORDER BY tsns, op_id
MutationBefore(p, o) ==
    \/ p.ts < o.ts
    \/ p.ts = o.ts /\ OpRank[OpId(p)] < OpRank[OpId(o)]

\* The row is the one ORDER BY tsns DESC, op_id DESC LIMIT 1 returns for its
\* entity.  Rows that are buffered behind a gap take part.
ShouldApplyLatestMutation(L, o) ==
    \A p \in L : p.ent = o.ent => OpId(p) = OpId(o) \/ MutationBefore(p, o)

\* What the entity's table row shows once o has been applied.
Written(o) == IF o.kind = "delete" THEN NoVal ELSE OpId(o)

HasOp(L, d, s) == \E o \in L : o.dev = d /\ o.seq = s

\* The rows of device d from seq `from' to seq `to'.
DeviceRun(L, d, from, to) == {o \in L : o.dev = d /\ from <= o.seq /\ o.seq <= to}

\* `to' is the last row of d's contiguous run that starts at `from'.
RunEnds(L, d, from, to) ==
    /\ \A s \in from..to : HasOp(L, d, s)
    /\ ~HasOp(L, d, to + 1)

\* The table after the rows of R have been applied in seq order to T, when L
\* is the log during the whole transaction: only latest mutations write.
TableAfter(T, L, R) ==
    [e \in Entity |->
        IF \E o \in R : o.ent = e /\ ShouldApplyLatestMutation(L, o)
        THEN Written(CHOOSE o \in R : o.ent = e /\ ShouldApplyLatestMutation(L, o))
        ELSE T[e]]

\* Entities whose latest mutation in L is one of the rows of R.
Settled(L, R) == {o.ent : o \in {p \in R : ShouldApplyLatestMutation(L, p)}}

\* "SELECT COUNT(*) FROM playlists WHERE ... deleted_at IS NULL" when the turn
\* of the item row o comes, after the rows in `before'.
PlaylistLiveAt(T, L, before, o) ==
    LET wrote == {q \in before : /\ q.ent = PlaylistOf[o.ent]
                                 /\ ShouldApplyLatestMutation(L, q)}
    IN  IF wrote # {} THEN \E q \in wrote : q.kind = "upsert"
                      ELSE T[PlaylistOf[o.ent]] # NoVal

\* "playlist %q does not exist for playlist item op"
ItemFails(T, L, before, o) ==
    /\ o.ent \in Item
    /\ o.kind = "upsert"
    /\ ShouldApplyLatestMutation(L, o)
    /\ ~PlaylistLiveAt(T, L, before, o)

\* The transaction that applies the run R of one device fails.
ApplyFails(T, L, R) ==
    \E o \in R : ItemFails(T, L, {q \in R : q.seq < o.seq}, o)
=============================================================================
