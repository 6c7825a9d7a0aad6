--------------------------- MODULE CheckpointSync ---------------------------
(***************************************************************************)
(* Checkpoints on top of incremental synchronisation.  An admin publishes  *)
(* a checkpoint (every row of its log, and the clocks the rows stand for); *)
(* a peer whose clocks are behind it, or whose backlog is long, is told to *)
(* install it instead of asking for rows; once every member has            *)
(* acknowledged a checkpoint, its publisher deletes the rows it covers.    *)
(***************************************************************************)
EXTENDS OplogSync

CONSTANTS
    Founders,      \* members of the library when the log is still empty
    Admins,        \* devices whose role may manage the library
    Cutover,       \* incrementalSyncBacklogCutover
    MaxPublishes,  \* bound on the checkpoints published
    ByHand,        \* what an operator does besides the maintenance
    Races          \* which of the two may be overtaken between its reads and its commit

ASSUME CheckpointAssumption ==
    /\ Founders \subseteq Device /\ Admins \subseteq Device
    /\ Cutover \in Nat \ {0} /\ MaxPublishes \in Nat
    /\ ByHand \subseteq {"publish", "compact", "force"} /\ Races \subseteq {"publish", "compact"}

VARIABLES
    ckpt,     \* ckpt[n]: the one checkpoint device n keeps, or NoCheckpoint
    acks,     \* acks[n]: devices n knows to have acknowledged ckpt[n]
    draft,    \* draft[n]: entries read by a publish in progress, or NoCheckpoint
    plan,     \* plan[n]: checkpoint read by a compaction in progress, or NoCheckpoint
    named,    \* named[n][m]: InstalledCheckpointID of n's request to m
    offer,    \* offer[n][m]: checkpoint m told n to install
    members,  \* device ids of the memberships
    born,     \* entities whose uuid is taken
    published \* how many checkpoints have been published

ckptVars == <<ckpt, acks, draft, plan, named, offer, members, born, published>>
allVars  == <<vars, ckptVars>>

\* A checkpoint id is the hash of base clocks and entries: the two stand for it.
Checkpoint   == [made : BOOLEAN, base : Clocks, rows : SUBSET OplogEntry]
NoCheckpoint == [made |-> FALSE, base |-> NoClocks, rows |-> {}]

CInit ==
    /\ Init
    /\ ckpt  = [n \in Device |-> NoCheckpoint]
    /\ acks  = [n \in Device |-> {}]
    /\ draft = [n \in Device |-> NoCheckpoint]
    /\ plan  = [n \in Device |-> NoCheckpoint]
    /\ named = [n \in Device |-> [m \in Device |-> NoCheckpoint]]
    /\ offer = [n \in Device |-> [m \in Device |-> NoCheckpoint]]
    /\ members = Founders
    /\ born = {}
    /\ published = 0

-----------------------------------------------------------------------------
(* Members *)

JoinLibrary(n) ==
    /\ n \notin members
    /\ members' = members \cup {n}
    /\ UNCHANGED <<vars, ckpt, acks, draft, plan, named, offer, born, published>>

\* uuids are not reused, even when every row that names them was compacted.
NoUuidReuse(n) ==
    /\ \A o \in log'[n] \ log[n] : o.ent \in Playlist \cap born => ~Fresh(o.ent)
    /\ \A r \in edits'[n] \ edits[n] : r.act = "add" => r.ent \notin born

Edit(n) ==
    /\ n \in members
    /\ LocalEdit(n)
    /\ NoUuidReuse(n)
    /\ born' = born \cup {o.ent : o \in log'[n] \ log[n]}
    /\ UNCHANGED <<ckpt, acks, draft, plan, named, offer, members, published>>

-----------------------------------------------------------------------------
(* Publishing and compacting *)

\* savePublishedCheckpointTx keeps one checkpoint, and its acks if it was there.
AcksAfterSave(n, c) == IF ckpt[n] = c THEN acks[n] \cup {n} ELSE {n}

\* checkpointBaseClocks: clocks, raised to MAX(seq) of the rows.
CheckpointBaseClocks(n) ==
    [d \in Device |->
        CHOOSE s \in 0..MaxSeq :
            /\ clock[n][d] <= s
            /\ \A o \in log[n] : o.dev = d => o.seq <= s
            /\ clock[n][d] = s \/ HasOp(log[n], d, s)]

\* publishCheckpoint, first read: listCheckpointEntries.
ReadCheckpointEntries(n) ==
    /\ n \in members \cap Admins
    /\ draft[n] = NoCheckpoint
    /\ published < MaxPublishes
    /\ draft' = [draft EXCEPT ![n] = [made |-> TRUE, base |-> NoClocks, rows |-> log[n]]]
    /\ UNCHANGED <<vars, ckpt, acks, plan, named, offer, members, born, published>>

\* publishCheckpoint, second read (the clocks) and the transaction that saves.
SavePublishedCheckpoint(n) ==
    /\ draft[n] # NoCheckpoint
    /\ "publish" \in Races \/ draft[n].rows = log[n]
    /\ LET c == [made |-> TRUE, base |-> CheckpointBaseClocks(n), rows |-> draft[n].rows]
       IN  /\ ckpt' = [ckpt EXCEPT ![n] = c]
           /\ acks' = [acks EXCEPT ![n] = AcksAfterSave(n, c)]
    /\ draft' = [draft EXCEPT ![n] = NoCheckpoint]
    /\ published < MaxPublishes
    /\ published' = published + 1
    /\ UNCHANGED <<vars, plan, named, offer, members, born>>

\* The job's context ends between the reads.
CancelPublish(n) ==
    /\ draft[n] # NoCheckpoint
    /\ draft' = [draft EXCEPT ![n] = NoCheckpoint]
    /\ UNCHANGED <<vars, ckpt, acks, plan, named, offer, members, born, published>>

\* pendingCheckpointDevices: no member is pending.
Compactable(n) == ckpt[n] # NoCheckpoint /\ members \subseteq acks[n]

\* compactCheckpoint, before its transaction; `force' does without the acks.
CompactCheckpoint(n, force) ==
    /\ n \in members \cap Admins
    /\ plan[n] = NoCheckpoint
    /\ IF force THEN ckpt[n] # NoCheckpoint ELSE Compactable(n)
    /\ plan' = [plan EXCEPT ![n] = ckpt[n]]
    /\ UNCHANGED <<vars, ckpt, acks, draft, named, offer, members, born, published>>

\* A mutant: every applied row is deleted, not only those the checkpoint covers.
CoveredEverything(n) == {o \in log[n] : o.seq <= clock[n][o.dev]}

Covered(n) == {o \in log[n] : o.seq <= plan[n].base[o.dev]}

\* The transaction of compactCheckpoint: the rows the checkpoint covers go, and
\* so does every other checkpoint.
DeleteCovered(n) ==
    /\ plan[n] # NoCheckpoint
    /\ "compact" \in Races \/ plan[n] = ckpt[n]
    /\ log'  = [log EXCEPT ![n] = @ \ Covered(n)]
    /\ ckpt' = [ckpt EXCEPT ![n] = IF @ = plan[n] THEN @ ELSE NoCheckpoint]
    /\ acks' = [acks EXCEPT ![n] = IF ckpt[n] = plan[n] THEN @ \cap members ELSE {}]
    /\ plan' = [plan EXCEPT ![n] = NoCheckpoint]
    /\ UNCHANGED <<clock, table, astray, edits, sess, aborts, draft, named, offer, members, born,
                   published>>

CancelCompaction(n) ==
    /\ plan[n] # NoCheckpoint
    /\ plan' = [plan EXCEPT ![n] = NoCheckpoint]
    /\ UNCHANGED <<vars, ckpt, acks, draft, named, offer, members, born, published>>

\* checkpointBacklogCount
BacklogCount(n) ==
    Cardinality({ds \in Device \X Seqs :
                    ckpt[n].base[ds[1]] < ds[2] /\ ds[2] <= clock[n][ds[1]]})

\* backgroundCheckpointMaintenance: compacts, or else publishes.
CheckpointMaintenance(n) ==
    \/ CompactCheckpoint(n, FALSE)
    \/ /\ ~Compactable(n)
       /\ BacklogCount(n) >= Cutover
       /\ ReadCheckpointEntries(n)

-----------------------------------------------------------------------------
(* Catch-up sessions *)

\* checkpointAckForDevice
InstalledCheckpoint(n) == IF n \in acks[n] THEN ckpt[n] ELSE NoCheckpoint

StartSync(n, m) ==
    /\ n \in members /\ m \in members
    /\ StartCatchup(n, m)
    /\ named' = [named EXCEPT ![n][m] = InstalledCheckpoint(n)]
    /\ UNCHANGED <<ckpt, acks, draft, plan, offer, members, born, published>>

\* A mutant: clocks equal to the base do not count as covering it.
CoversStrictly(clocks, c) == \A d \in Device : clocks[d] > c.base[d]

\* clocksCoverCheckpoint; its negation is requesterNeedsCheckpoint
Covers(clocks, c) == \A d \in Device : clocks[d] >= c.base[d]

\* The acknowledgement buildSyncResponse records before it selects a batch.
AckOfRequest(n, m) ==
    IF /\ ckpt[m] # NoCheckpoint
       /\ named[n][m] = ckpt[m] \/ Covers(sess[n][m].clocks, ckpt[m])
    THEN [acks EXCEPT ![m] = @ \cup {n}]
    ELSE acks

NeedCheckpoint(n, m) ==
    /\ ckpt[m] # NoCheckpoint
    /\ \/ ~Covers(sess[n][m].clocks, ckpt[m])
       \/ Cardinality(Missing(m, sess[n][m].clocks)) >= Cutover

\* buildSyncResponse
Respond(n, m) ==
    /\ sess[n][m].phase = "asked"
    /\ offer[n][m] = NoCheckpoint
    /\ acks' = AckOfRequest(n, m)
    /\ \/ /\ NeedCheckpoint(n, m)
          /\ offer' = [offer EXCEPT ![n][m] = ckpt[m]]
          /\ UNCHANGED vars
       \/ /\ ~NeedCheckpoint(n, m)
          /\ BuildSyncResponse(n, m)
          /\ UNCHANGED offer
    /\ named' = [named EXCEPT ![n][m] = NoCheckpoint]
    /\ UNCHANGED <<ckpt, draft, plan, members, born, published>>

\* "checkpoint not found": the peer replaced it before it was fetched.
FetchCheckpointFails(n, m) ==
    /\ offer[n][m] # NoCheckpoint
    /\ ckpt[m] # offer[n][m]
    /\ offer' = [offer EXCEPT ![n][m] = NoCheckpoint]
    /\ sess' = [sess EXCEPT ![n][m] = Idle]
    /\ UNCHANGED <<data, edits, aborts, ckpt, acks, draft, plan, named, members, born, published>>

\* The last row of d's contiguous run from `from', from - 1 when there is none.
RunEnd(L, d, from) == CHOOSE k \in (from - 1)..MaxSeq : RunEnds(L, d, from, k)

\* A mutant: the tail is lost.
TailLost(n, c) == {}

\* selectCheckpointTailOpsTx
LogTail(n, c) == {o \in log[n] : o.seq > c.base[o.dev]}

\* What installCheckpointRecord replays: the checkpoint's rows, each device from
\* row 1, and then, with the tail back in the log, each device of the tail
\* from the row after its base clock.
Replayed(c) == {o \in c.rows : o.seq <= RunEnd(c.rows, o.dev, 1)}
ReplayedTail(n, c) ==
    {o \in c.rows \cup LogTail(n, c) :
        /\ \E p \in LogTail(n, c) : p.dev = o.dev
        /\ c.base[o.dev] < o.seq
        /\ o.seq <= RunEnd(c.rows \cup LogTail(n, c), o.dev, c.base[o.dev] + 1)}

NoTable == [e \in Entity |-> NoVal]
ReplayedTable(c) == TableAfter(NoTable, c.rows, Replayed(c))

\* A mutant: the tail is put back and not replayed.
ClocksWithoutTail(n, c) == [d \in Device |-> RunEnd(c.rows, d, 1)]

ClocksAfterInstall(n, c) ==
    [d \in Device |->
        LET R == {o \in ReplayedTail(n, c) : o.dev = d}
        IN  IF R # {} THEN RunEnd(c.rows \cup LogTail(n, c), d, c.base[d] + 1)
                      ELSE RunEnd(c.rows, d, 1)]

\* A row fails when the devices are replayed in the order of `turn'.
ReplayFails(T, L, R, turn) ==
    \E o \in R : ItemFails(T, L, {q \in R : \/ turn[q.dev] < turn[o.dev]
                                            \/ q.dev = o.dev /\ q.seq < o.seq}, o)

ByDeviceId == [d \in Device |-> d]
Turns == {t \in [Device -> Device] : \A a, b \in Device : a # b => t[a] # t[b]}

\* The installing transaction fails: an item without its playlist, or a tail
\* row with the op id of a checkpoint row.  The tail's devices come in the
\* order of a Go map.
InstallFails(n, c, turn) ==
    \/ ReplayFails(NoTable, c.rows, Replayed(c), ByDeviceId)
    \/ \E o \in LogTail(n, c), p \in c.rows : OpId(o) = OpId(p)
    \/ ReplayFails(ReplayedTable(c), c.rows \cup LogTail(n, c), ReplayedTail(n, c), turn)

\* An install ends a round that asks for another one.
RoundAfterInstall(q) ==
    [phase |-> "apply", clocks |-> NoClocks, ops |-> {}, more |-> TRUE,
     empty |-> FALSE, round |-> q.round]

InstallCheckpoint(n, m) ==
    /\ offer[n][m] # NoCheckpoint
    /\ \E turn \in Turns :
         LET c == offer[n][m]
         IN  \/ /\ ~InstallFails(n, c, turn)
                /\ log'   = [log EXCEPT ![n] = c.rows \cup LogTail(n, c)]
                /\ clock' = [clock EXCEPT ![n] = ClocksAfterInstall(n, c)]
                /\ table' = [table EXCEPT ![n] =
                               TableAfter(ReplayedTable(c), c.rows \cup LogTail(n, c),
                                          ReplayedTail(n, c))]
                /\ astray' = {a \in astray : a[1] # n}
                /\ ckpt'  = [ckpt EXCEPT ![n] = c]
                /\ acks'  = [acks EXCEPT ![n] = AcksAfterSave(n, c)]
                /\ sess'  = [sess EXCEPT ![n][m] = RoundAfterInstall(@)]
             \/ /\ InstallFails(n, c, turn)
                /\ sess'  = [sess EXCEPT ![n][m] = Idle]
                /\ UNCHANGED <<data, ckpt, acks>>
    /\ offer' = [offer EXCEPT ![n][m] = NoCheckpoint]
    /\ UNCHANGED <<edits, aborts, draft, plan, named, members, born, published>>

ApplyOp(n, m) ==
    /\ ApplyRemoteOp(n, m)
    /\ UNCHANGED ckptVars

EndRound(n, m) ==
    /\ FinishRound(n, m)
    /\ named' = [named EXCEPT ![n][m] = IF sess'[n][m] = Idle THEN NoCheckpoint
                                                            ELSE InstalledCheckpoint(n)]
    /\ UNCHANGED <<ckpt, acks, draft, plan, offer, members, born, published>>

AbortSync(n, m) ==
    /\ AbortCatchup(n, m)
    /\ offer' = [offer EXCEPT ![n][m] = NoCheckpoint]
    /\ named' = [named EXCEPT ![n][m] = NoCheckpoint]
    /\ UNCHANGED <<ckpt, acks, draft, plan, members, born, published>>

-----------------------------------------------------------------------------
Sync(n, m) ==
    \/ StartSync(n, m)
    \/ Respond(n, m)
    \/ FetchCheckpointFails(n, m)
    \/ InstallCheckpoint(n, m)
    \/ ApplyOp(n, m)
    \/ EndRound(n, m)

Publish(n) ==
    \/ "publish" \in ByHand /\ ReadCheckpointEntries(n)
    \/ "compact" \in ByHand /\ CompactCheckpoint(n, FALSE)
    \/ "force" \in ByHand /\ CompactCheckpoint(n, TRUE)
    \/ CheckpointMaintenance(n)
    \/ SavePublishedCheckpoint(n)
    \/ CancelPublish(n)
    \/ DeleteCovered(n)
    \/ CancelCompaction(n)

CNext ==
    \/ \E n \in Device : JoinLibrary(n) \/ Edit(n) \/ Publish(n)
    \/ \E n, m \in Device : Sync(n, m) \/ AbortSync(n, m)

CSpec == CInit /\ [][CNext]_allVars

\* Sessions end and are started again, maintenance runs after every change,
\* and a publish or a compaction that was started is carried out.
CFairness ==
    /\ \A n, m \in Device : WF_allVars(Sync(n, m))
    /\ \A n \in Device : /\ WF_allVars(CheckpointMaintenance(n))
                         /\ SF_allVars(SavePublishedCheckpoint(n))
                         /\ SF_allVars(DeleteCovered(n))

CFairSpec == CSpec /\ CFairness

-----------------------------------------------------------------------------
(* Properties *)

\* Checkpoints, acks and offers have the shape the code gives them, and an
\* install takes up one round of its session.
CTypeOK ==
    /\ TypeOK
    /\ ckpt \in [Device -> Checkpoint]
    /\ acks \in [Device -> SUBSET Device]
    /\ draft \in [Device -> Checkpoint]
    /\ plan \in [Device -> Checkpoint]
    /\ named \in [Device -> [Device -> Checkpoint]]
    /\ offer \in [Device -> [Device -> Checkpoint]]
    /\ members \in SUBSET Device
    /\ born \in SUBSET Entity
    /\ published \in 0..MaxPublishes

\* A checkpoint holds every row its base clocks stand for.
CheckpointComplete ==
    \A n, d \in Device : \A s \in 1..ckpt[n].base[d] : HasOp(ckpt[n].rows, d, s)

\* Compaction forgets nothing: a device still holds every row its clocks stand
\* for, in its log or in its checkpoint.
HistoryHeld ==
    \A n, d \in Device : \A s \in 1..clock[n][d] :
        HasOp(log[n], d, s) \/ HasOp(ckpt[n].rows, d, s)

\* So a newcomer can be given every row: publishing and compacting lose none,
\* and the state stays well formed.
HistoryKept == CTypeOK /\ CheckpointComplete /\ HistoryHeld

\* Installing a checkpoint never takes a device back behind ops it has issued
\* or applied.
ClocksNeverGoBack ==
    [][\A n, d \in Device : clock'[n][d] >= clock[n][d]]_allVars

\* Once edits and failures stop, every member reaches the same clocks, whether
\* by rows, by a checkpoint, or after it joined a compacted library.
MembersCaughtUp == <>[](\A n, m \in members : clock[n] = clock[m])
=============================================================================
