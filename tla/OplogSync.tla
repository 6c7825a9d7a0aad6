----------------------------- MODULE OplogSync -----------------------------
(***************************************************************************)
(* Incremental synchronisation of a shared library between devices.  Every *)
(* device keeps a log of operations, one clock per device and the tables   *)
(* the log materializes.  Local edits append to the device's own log; a    *)
(* catch-up session asks a peer for the rows beyond the local clocks and   *)
(* applies them one transaction at a time.  Any number of sessions and of  *)
(* local edits interleave, and a session can fail at any point.            *)
(***************************************************************************)
EXTENDS Oplog

CONSTANTS
    Links,         \* <<n, m>>: n can reach m and catches up with it
    Quota,         \* Quota[n]: bound on the ops device n issues
    BatchSize,     \* defaultSyncBatchSize
    MaxRounds,     \* maxSyncCatchupRounds
    MaxAborts      \* bound on the sessions that the network or a crash ends

ASSUME SyncAssumption ==
    /\ Links \subseteq Device \X Device
    /\ \A n \in Device : <<n, n>> \notin Links
    /\ Quota \in [Device -> 0..MaxSeq]
    /\ BatchSize \in Nat \ {0} /\ MaxRounds \in Nat \ {0} /\ MaxAborts \in Nat

VARIABLES
    log,    \* log[n]: the rows of oplog_entries on device n
    clock,  \* clock[n][d]: device_clocks.last_seq_seen of d on n, 0 without a row
    table,  \* table[n][e]: the value of e on n, NoVal when absent or deleted
    astray, \* <<n, e>>: n's last edit of e and the op it appended say different things
    edits,  \* edits[n]: UI calls on n that passed their checks, not yet committed
    sess,   \* sess[n][m]: the catch-up session of n with the peer m
    aborts  \* how many sessions were cut off so far

data == <<log, clock, table, astray>>
vars == <<log, clock, table, astray, edits, sess, aborts>>

Clocks == [Device -> 0..MaxSeq]
NoClocks == [d \in Device |-> 0]

EditRequest == [act : {"rename", "delete"}, ent : Playlist]
                 \cup [act : {"add", "move", "remove"}, ent : Item]

Idle == [phase |-> "idle", clocks |-> NoClocks, ops |-> {}, more |-> FALSE,
         empty |-> FALSE, round |-> 0]
Session == [phase : {"idle", "asked", "apply"}, clocks : Clocks,
            ops : SUBSET OplogEntry, more : BOOLEAN, empty : BOOLEAN,
            round : 0..MaxRounds]

Init ==
    /\ log   = [n \in Device |-> {}]
    /\ clock = [n \in Device |-> NoClocks]
    /\ table = [n \in Device |-> [e \in Entity |-> NoVal]]
    /\ astray = {}
    /\ edits = [n \in Device |-> {}]
    /\ sess  = [n \in Device |-> [m \in Device |-> Idle]]
    /\ aborts = 0

-----------------------------------------------------------------------------
(* Local edits *)

\* Mutants: a number is skipped; the clock is not consulted, so compacted
\* numbers come back.
NextSeqSkipped(n, s) == s = clock[n][n] + 2
NextSeqFromRows(n, s) ==
    /\ \A o \in log[n] : o.dev = n => o.seq < s
    /\ s = 1 \/ HasOp(log[n], n, s - 1)

\* nextLibraryDeviceSeqTx: one more than both the clock and MAX(seq).
NextLibraryDeviceSeq(n, s) ==
    /\ clock[n][n] < s
    /\ \A o \in log[n] : o.dev = n => o.seq < s
    /\ clock[n][n] = s - 1 \/ HasOp(log[n], n, s - 1)

\* The edit that appends o is the one to be shown on every device: no mutation
\* that n holds is stamped later, and the row it writes is there to be written.
EditStands(n, o, revives) ==
    /\ ShouldApplyLatestMutation(log[n] \cup {o}, o)
    /\ o.kind = "delete" \/ revives \/ table[n][o.ent] # NoVal

\* appendLocalOplogTx, with the table row that its transaction writes: an
\* INSERT revives a deleted row, an UPDATE of other columns does not.  Neither
\* asks whether the edit stands.
AppendLocalOplog(n, e, kind, revives) ==
    \E s \in 1..Quota[n], ts \in Times :
        LET o == [dev |-> n, seq |-> s, ts |-> ts, ent |-> e, kind |-> kind]
        IN  /\ NextLibraryDeviceSeq(n, s)
            /\ log' = [log EXCEPT ![n] = @ \cup {o}]
            /\ clock' = [clock EXCEPT ![n][n] = s]
            /\ table' = [table EXCEPT ![n][e] =
                           IF revives \/ @ # NoVal THEN Written(o) ELSE NoVal]
            /\ astray' = IF EditStands(n, o, revives) THEN astray \ {<<n, e>>}
                                                     ELSE astray \cup {<<n, e>>}
            /\ UNCHANGED <<sess, aborts>>

\* A uuid that no device has used.
Fresh(e) ==
    /\ \A n \in Device : \A o \in log[n] : o.ent # e
    /\ \A n \in Device : \A r \in edits[n] : r.ent # e

\* What a playlist call reads before it opens its transaction.
EditAllowed(n, r) ==
    /\ r.act \in {"rename", "delete"} => table[n][r.ent] # NoVal
    /\ r.act \in {"add", "move", "remove"} => table[n][PlaylistOf[r.ent]] # NoVal
    /\ r.act = "remove" => table[n][r.ent] # NoVal

CheckEdit(n) ==
    \E r \in EditRequest :
        /\ edits[n] = {}
        /\ EditAllowed(n, r)
        /\ r.act = "add" => Fresh(r.ent)
        /\ edits' = [edits EXCEPT ![n] = {r}]
        /\ UNCHANGED <<data, sess, aborts>>

Commits(n, act, e) ==
    /\ [act |-> act, ent |-> e] \in edits[n]
    /\ edits' = [edits EXCEPT ![n] = @ \ {[act |-> act, ent |-> e]}]

\* The call's context ends, or its transaction fails.
CancelEdit(n) ==
    /\ edits[n] # {}
    /\ edits' = [edits EXCEPT ![n] = {}]
    /\ UNCHANGED <<data, sess, aborts>>

CreatePlaylist(n) ==
    \E p \in Playlist : /\ Fresh(p)
                        /\ AppendLocalOplog(n, p, "upsert", TRUE)
                        /\ UNCHANGED edits

\* UPDATE playlists SET name: a row deleted since the check stays deleted.
RenamePlaylist(n) ==
    \E p \in Playlist :
        Commits(n, "rename", p) /\ AppendLocalOplog(n, p, "upsert", FALSE)

DeletePlaylist(n) ==
    \E p \in Playlist :
        Commits(n, "delete", p) /\ AppendLocalOplog(n, p, "delete", FALSE)

AddPlaylistItem(n) ==
    \E i \in Item :
        Commits(n, "add", i) /\ AppendLocalOplog(n, i, "upsert", TRUE)

\* The item is looked up again inside the transaction.
MovePlaylistItem(n) ==
    \E i \in Item :
        /\ Commits(n, "move", i)
        /\ IF table[n][i] # NoVal
           THEN AppendLocalOplog(n, i, "upsert", FALSE)
           ELSE UNCHANGED <<data, sess, aborts>>

RemovePlaylistItem(n) ==
    \E i \in Item :
        Commits(n, "remove", i) /\ AppendLocalOplog(n, i, "delete", FALSE)

\* Scans, replicated assets, preferences and likes: what the transaction writes
\* does not depend on what was read before it.  Unlike looks the item up first,
\* so a remote delete may come in between.
MutatePlain(n) ==
    \E e \in Plain :
        /\ \/ AppendLocalOplog(n, e, "upsert", TRUE)
           \/ /\ table[n][e] # NoVal \/ \E o \in log[n] : o.ent = e
              /\ AppendLocalOplog(n, e, "delete", FALSE)
        /\ UNCHANGED edits

-----------------------------------------------------------------------------
(* Catch-up sessions *)

\* buildSyncRequest
BuildSyncRequest(n, round) ==
    [phase |-> "asked", clocks |-> clock[n], ops |-> {}, more |-> FALSE,
     empty |-> FALSE, round |-> round]

StartCatchup(n, m) ==
    /\ <<n, m>> \in Links
    /\ sess[n][m] = Idle
    /\ sess' = [sess EXCEPT ![n][m] = BuildSyncRequest(n, 1)]
    /\ UNCHANGED <<data, edits, aborts>>

\* Rows of m beyond the requested clocks, of the devices m knows more about.
Backlog(m, clocks) ==
    {o \in log[m] : clock[m][o.dev] > clocks[o.dev] /\ o.seq > clocks[o.dev]}

\* Rows the round-robin over the devices takes before row o.
TakenBefore(B, o) ==
    LET Turn(p) == Cardinality({q \in B : q.dev = p.dev /\ q.seq < p.seq})
    IN  {p \in B : Turn(p) < Turn(o) \/ (Turn(p) = Turn(o) /\ p.dev < o.dev)}

SelectSyncBatch(m, clocks) ==
    LET B == Backlog(m, clocks)
    IN  {o \in B : Cardinality(TakenBefore(B, o)) < BatchSize}

\* (device, seq) pairs m has seen and the request has not.
Missing(m, clocks) ==
    {ds \in Device \X Seqs : clocks[ds[1]] < ds[2] /\ ds[2] <= clock[m][ds[1]]}

\* buildSyncResponse at the peer m, and the start of the batch at n.
SyncResponse(m, clocks, round) ==
    LET ops == SelectSyncBatch(m, clocks)
    IN  [phase |-> "apply", clocks |-> NoClocks, ops |-> ops,
         more  |-> Cardinality(Missing(m, clocks)) > Cardinality(ops),
         empty |-> ops = {}, round |-> round]

BuildSyncResponse(n, m) ==
    /\ sess[n][m].phase = "asked"
    /\ sess' = [sess EXCEPT ![n][m] = SyncResponse(m, @.clocks, @.round)]
    /\ UNCHANGED <<data, edits, aborts>>

\* sortCheckpointEntries: tsns, device id, seq.
SortsBefore(o, p) ==
    \/ o.ts < p.ts
    \/ o.ts = p.ts /\ o.dev < p.dev
    \/ o.ts = p.ts /\ o.dev = p.dev /\ o.seq <= p.seq

NextOp(S, o) == o \in S /\ \A p \in S : SortsBefore(o, p)

\* Mutants: the rows that waited behind an applied row stay in the buffer; the
\* clock is set to the next row to come.
InsertOnlyItself(n, o) ==
    /\ log' = [log EXCEPT ![n] = @ \cup {o}]
    /\ IF o.seq = clock[n][o.dev] + 1
       THEN /\ clock' = [clock EXCEPT ![n][o.dev] = o.seq]
            /\ table' = [table EXCEPT ![n] = TableAfter(@, log[n] \cup {o}, {o})]
            /\ astray' = astray \ ({n} \X Settled(log[n] \cup {o}, {o}))
       ELSE UNCHANGED <<clock, table, astray>>

InsertOneAhead(n, o) ==
    /\ log' = [log EXCEPT ![n] = @ \cup {o}]
    /\ clock' = [clock EXCEPT ![n][o.dev] = o.seq + 1]
    /\ table' = [table EXCEPT ![n] = TableAfter(@, log[n] \cup {o}, {o})]
    /\ astray' = astray \ ({n} \X Settled(log[n] \cup {o}, {o}))

\* The transaction inserts o; when o is the next row of its device, it applies
\* the contiguous run o heads.  An error rolls all of it back.
InsertRemoteOp(n, o) ==
    LET L == log[n] \cup {o}
        c == clock[n][o.dev]
    IN  IF o.seq # c + 1
        THEN /\ log' = [log EXCEPT ![n] = L]
             /\ UNCHANGED <<clock, table, astray>>
        ELSE \E k \in (c + 1)..MaxSeq :
               /\ RunEnds(L, o.dev, c + 1, k)
               /\ ~ApplyFails(table[n], L, DeviceRun(L, o.dev, c + 1, k))
               /\ log' = [log EXCEPT ![n] = L]
               /\ clock' = [clock EXCEPT ![n][o.dev] = k]
               /\ table' = [table EXCEPT ![n] =
                              TableAfter(@, L, DeviceRun(L, o.dev, c + 1, k))]
               /\ astray' = astray \ ({n} \X Settled(L, DeviceRun(L, o.dev, c + 1, k)))

RemoteOpFails(n, o) ==
    LET L == log[n] \cup {o}
        c == clock[n][o.dev]
    IN  /\ o.seq = c + 1
        /\ \E k \in (c + 1)..MaxSeq :
              /\ RunEnds(L, o.dev, c + 1, k)
              /\ ApplyFails(table[n], L, DeviceRun(L, o.dev, c + 1, k))

BatchWithout(q, o) ==
    [phase |-> q.phase, clocks |-> q.clocks, ops |-> q.ops \ {o}, more |-> q.more,
     empty |-> q.empty, round |-> q.round]

\* applyRemoteOp for the next row of the batch; the first error ends the session.
ApplyRemoteOp(n, m) ==
    /\ sess[n][m].phase = "apply"
    /\ \E o \in sess[n][m].ops :
         /\ NextOp(sess[n][m].ops, o)
         /\ \/ /\ HasOp(log[n], o.dev, o.seq)
               /\ sess' = [sess EXCEPT ![n][m] = BatchWithout(@, o)]
               /\ UNCHANGED data
            \/ /\ ~HasOp(log[n], o.dev, o.seq)
               /\ InsertRemoteOp(n, o)
               /\ sess' = [sess EXCEPT ![n][m] = BatchWithout(@, o)]
            \/ /\ ~HasOp(log[n], o.dev, o.seq)
               /\ RemoteOpFails(n, o)
               /\ sess' = [sess EXCEPT ![n][m] = Idle]
               /\ UNCHANGED data
    /\ UNCHANGED <<edits, aborts>>

\* The end of a round: done, or another request while the budget lasts.
FinishRound(n, m) ==
    /\ sess[n][m].phase = "apply"
    /\ sess[n][m].ops = {}
    /\ LET again == /\ sess[n][m].more
                    /\ ~sess[n][m].empty
                    /\ sess[n][m].round < MaxRounds
       IN  sess' = [sess EXCEPT ![n][m] =
                      IF again THEN BuildSyncRequest(n, @.round + 1) ELSE Idle]
    /\ UNCHANGED <<data, edits, aborts>>

\* A transport error, a cancelled context, a crash of either process.
AbortCatchup(n, m) ==
    /\ sess[n][m] # Idle
    /\ aborts < MaxAborts
    /\ aborts' = aborts + 1
    /\ sess' = [sess EXCEPT ![n][m] = Idle]
    /\ UNCHANGED <<data, edits>>

-----------------------------------------------------------------------------
LocalEdit(n) ==
    \/ CheckEdit(n)
    \/ CancelEdit(n)
    \/ CreatePlaylist(n)
    \/ RenamePlaylist(n)
    \/ DeletePlaylist(n)
    \/ AddPlaylistItem(n)
    \/ MovePlaylistItem(n)
    \/ RemovePlaylistItem(n)
    \/ MutatePlain(n)

Catchup(n, m) ==
    \/ StartCatchup(n, m)
    \/ BuildSyncResponse(n, m)
    \/ ApplyRemoteOp(n, m)
    \/ FinishRound(n, m)

Next ==
    \/ \E n \in Device : LocalEdit(n)
    \/ \E n, m \in Device : Catchup(n, m) \/ AbortCatchup(n, m)

Spec == Init /\ [][Next]_vars

\* A started session runs to its end, and the runtime keeps starting sessions
\* with every reachable peer.
Fairness == \A n, m \in Device : WF_vars(Catchup(n, m))

FairSpec == Spec /\ Fairness

-----------------------------------------------------------------------------
(* Properties *)

\* Every row, clock and session has the shape the code gives it; in particular
\* a session of syncPeerCatchup never asks more than MaxRounds times.
TypeOK ==
    /\ log \in [Device -> SUBSET OplogEntry]
    /\ clock \in [Device -> Clocks]
    /\ table \in [Device -> [Entity -> Val]]
    /\ astray \in SUBSET (Device \X Entity)
    /\ edits \in [Device -> SUBSET EditRequest]
    /\ sess \in [Device -> [Device -> Session]]
    /\ aborts \in 0..MaxAborts

\* An op id names one op on every device: appendLocalOplogTx never hands out a
\* sequence number twice, and a batch never carries a row its origin has not.
OpIdsAgree ==
    \A n, m \in Device : \A o \in log[n], p \in log[m] :
        OpId(o) = OpId(p) => o = p

\* A clock is never ahead of the rows it stands for: whatever the order in
\* which rows arrive, and wherever a session stops, rows 1..clock are held.
PrefixHeld ==
    \A n, d \in Device : \A s \in 1..clock[n][d] : HasOp(log[n], d, s)

\* No row waits in the buffer once the gap before it is filled
\* (applyBufferedDeviceOplogTx drains the whole run).
BufferDrained ==
    \A n, d \in Device : ~HasOp(log[n], d, clock[n][d] + 1)

\* A clock stands for exactly the contiguous rows that are there, wherever a
\* session was cut off and over however many peers the rows came.
PrefixExact == PrefixHeld /\ BufferDrained

\* The table shows the latest mutation of every entity, as soon as that
\* mutation is no longer buffered, whatever the order of arrival; only what a
\* local edit left astray is wrong, until another mutation puts it right.
LatestMutationShown ==
    \A n \in Device : \A o \in log[n] :
        /\ o.seq <= clock[n][o.dev]
        /\ ShouldApplyLatestMutation(log[n], o)
        /\ <<n, o.ent>> \notin astray
        => table[n][o.ent] = Written(o)

Buffered(n) == {o \in log[n] : o.seq > clock[n][o.dev]}

\* Two devices with the same clocks and nothing buffered show the same of every
\* entity that neither has left astray.
SameClocksSameLibrary ==
    \A n, m \in Device : \A e \in Entity :
        /\ clock[n] = clock[m] /\ Buffered(n) = {} /\ Buffered(m) = {}
        /\ <<n, e>> \notin astray /\ <<m, e>> \notin astray
        => table[n][e] = table[m][e]

\* Last writer wins everywhere: each table is a function of the rows, and devices
\* that have exchanged everything agree, whatever the order of arrival.  An edit
\* that was overtaken between its check and its commit, or was stamped older than
\* a mutation the device has, spoils its own entity on its own device and nothing
\* else.
Converged == LatestMutationShown /\ SameClocksSameLibrary

\* Once edits and failures stop, catch-up brings every device to the same clocks.
DevicesCaughtUp == <>[](\A n, m \in Device : clock[n] = clock[m])

\* The clocks implement prefix replication: upsertDeviceClockTx moves a clock only
\* to a row its origin has issued, and the origin's own clock one row at a time.
PR == INSTANCE PrefixReplication WITH delivered <- clock
ClocksReplicatePrefixes == PR!Spec
=============================================================================
