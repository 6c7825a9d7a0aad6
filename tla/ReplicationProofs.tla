------------------------- MODULE ReplicationProofs --------------------------
(***************************************************************************)
(* Theorems about OplogSync and CatchupLane, for every value of their      *)
(* constants.                                                              *)
(*                                                                         *)
(* First part (Spec): the clocks stand for prefixes that only grow, op ids *)
(* name one op, and an entity shows its latest mutation, the same on       *)
(* devices with equal logs, wherever no local edit went astray.            *)
(*                                                                         *)
(* The catch-up lane starts the sessions (second part, LaneSpec): for any  *)
(* number of peers and runtimes a lane has one worker at most, and no      *)
(* change signal is lost.                                                  *)
(***************************************************************************)
EXTENDS OplogSync, CatchupLane, FiniteSetTheorems, WellFoundedInduction, TLAPS

-----------------------------------------------------------------------------
(* Lemmas on the operators of Oplog *)

LEMMA WrittenType ==
    ASSUME NEW o \in OplogEntry
    PROVE  Written(o) \in Val /\ (o.kind = "upsert" => Written(o) # NoVal)
BY BoundAssumption DEF Written, Val, OpId, OplogEntry, NoVal, Seqs

\* A step changes the logs, clocks and tables in one of two ways, or not at all.
DataSame == UNCHANGED data
DataAppend(n) ==
    \E e \in Entity, kind \in {"upsert", "delete"}, revives \in BOOLEAN :
        AppendLocalOplog(n, e, kind, revives)
DataInsert(n) ==
    \E m \in Device : \E o \in sess[n][m].ops :
        /\ ~HasOp(log[n], o.dev, o.seq)
        /\ InsertRemoteOp(n, o)

LEMMA StepKinds ==
    ASSUME Next
    PROVE  DataSame \/ \E n \in Device : DataAppend(n) \/ DataInsert(n)
<1>1. ASSUME NEW n \in Device, LocalEdit(n)
      PROVE  DataSame \/ DataAppend(n)
  <2>1. CASE CheckEdit(n) \/ CancelEdit(n)
        BY <2>1 DEF CheckEdit, CancelEdit, DataSame
  <2>2. CASE CreatePlaylist(n)
        BY <2>2 DEF CreatePlaylist, DataAppend, Entity
  <2>3. CASE RenamePlaylist(n)
        BY <2>3 DEF RenamePlaylist, DataAppend, Entity
  <2>4. CASE DeletePlaylist(n)
        BY <2>4 DEF DeletePlaylist, DataAppend, Entity
  <2>5. CASE AddPlaylistItem(n)
        BY <2>5 DEF AddPlaylistItem, DataAppend, Entity
  <2>6. CASE MovePlaylistItem(n)
        BY <2>6 DEF MovePlaylistItem, DataAppend, DataSame, Entity
  <2>7. CASE RemovePlaylistItem(n)
        BY <2>7 DEF RemovePlaylistItem, DataAppend, Entity
  <2>8. CASE MutatePlain(n)
        BY <2>8 DEF MutatePlain, DataAppend, Entity
  <2>9. QED  BY <1>1, <2>1, <2>2, <2>3, <2>4, <2>5, <2>6, <2>7, <2>8 DEF LocalEdit
<1>2. ASSUME NEW n \in Device, NEW m \in Device, Catchup(n, m) \/ AbortCatchup(n, m)
      PROVE  DataSame \/ DataInsert(n)
      BY <1>2 DEF Catchup, AbortCatchup, StartCatchup, BuildSyncResponse, ApplyRemoteOp,
                  FinishRound, DataSame, DataInsert
<1>3. QED  BY <1>1, <1>2 DEF Next

-----------------------------------------------------------------------------
(* The type invariant *)

DataType ==
    /\ log \in [Device -> SUBSET OplogEntry]
    /\ clock \in [Device -> Clocks]
    /\ table \in [Device -> [Entity -> Val]]
    /\ astray \in SUBSET (Device \X Entity)

RestType ==
    /\ edits \in [Device -> SUBSET EditRequest]
    /\ sess \in [Device -> [Device -> Session]]
    /\ aborts \in 0..MaxAborts

LEMMA TableAfterType ==
    ASSUME NEW T \in [Entity -> Val], NEW L \in SUBSET OplogEntry,
           NEW R \in SUBSET L
    PROVE  TableAfter(T, L, R) \in [Entity -> Val]
<1>1. ASSUME NEW e \in Entity, \E o \in R : o.ent = e /\ ShouldApplyLatestMutation(L, o)
      PROVE  Written(CHOOSE o \in R : o.ent = e /\ ShouldApplyLatestMutation(L, o)) \in Val
  <2>1. (CHOOSE o \in R : o.ent = e /\ ShouldApplyLatestMutation(L, o)) \in R
        BY <1>1
  <2>2. QED  BY <2>1, WrittenType
<1>2. QED  BY <1>1 DEF TableAfter

LEMMA DataTypeStep ==
    ASSUME DataType, RestType, Next
    PROVE  DataType'
<1>1. CASE DataSame
      BY <1>1 DEF DataSame, data, DataType
<1>2. ASSUME NEW n \in Device, DataAppend(n)
      PROVE  DataType'
  <2>1. PICK e \in Entity, kind \in {"upsert", "delete"}, revives \in BOOLEAN :
          AppendLocalOplog(n, e, kind, revives)
        BY <1>2 DEF DataAppend
  <2>2. PICK s \in 1..Quota[n], ts \in Times :
          LET o == [dev |-> n, seq |-> s, ts |-> ts, ent |-> e, kind |-> kind]
          IN  /\ log' = [log EXCEPT ![n] = @ \cup {o}]
              /\ clock' = [clock EXCEPT ![n][n] = s]
              /\ table' = [table EXCEPT ![n][e] =
                             IF revives \/ @ # NoVal THEN Written(o) ELSE NoVal]
              /\ astray' \in {astray \ {<<n, e>>}, astray \cup {<<n, e>>}}
        BY <2>1, Zenon DEF AppendLocalOplog
  <2> DEFINE o == [dev |-> n, seq |-> s, ts |-> ts, ent |-> e, kind |-> kind]
  <2>3. o \in OplogEntry
        BY SyncAssumption, BoundAssumption DEF OplogEntry, Seqs
  <2>4. Written(o) \in Val /\ NoVal \in Val
        BY <2>3, WrittenType DEF Val
  <2>5. s \in 0..MaxSeq
        BY SyncAssumption, BoundAssumption
  <2>6. log' \in [Device -> SUBSET OplogEntry]
        BY <2>2, <2>3 DEF DataType
  <2>7. clock' \in [Device -> Clocks]
        BY <2>2, <2>5 DEF DataType, Clocks
  <2>8. table' \in [Device -> [Entity -> Val]]
        BY <2>2, <2>4 DEF DataType
  <2>9. astray' \in SUBSET (Device \X Entity)
        BY <2>2 DEF DataType
  <2>10. QED  BY <2>6, <2>7, <2>8, <2>9 DEF DataType
<1>3. ASSUME NEW n \in Device, DataInsert(n)
      PROVE  DataType'
  <2>0. PICK m \in Device : \E o \in sess[n][m].ops : InsertRemoteOp(n, o)
        BY <1>3 DEF DataInsert
  <2>1. PICK o \in sess[n][m].ops : InsertRemoteOp(n, o)
        BY <2>0
  <2> DEFINE L == log[n] \cup {o}
             c == clock[n][o.dev]
  <2>2. o \in OplogEntry /\ L \in SUBSET OplogEntry
        BY DEF DataType, RestType, Session
  <2>3. CASE o.seq # c + 1
        BY <2>1, <2>2, <2>3 DEF InsertRemoteOp, DataType
  <2>4. CASE o.seq = c + 1
    <3>1. PICK k \in (c + 1)..MaxSeq :
            /\ log' = [log EXCEPT ![n] = L]
            /\ clock' = [clock EXCEPT ![n][o.dev] = k]
            /\ table' = [table EXCEPT ![n] =
                           TableAfter(@, L, DeviceRun(L, o.dev, c + 1, k))]
            /\ astray' \subseteq astray
          BY <2>1, <2>4 DEF InsertRemoteOp
    <3>2. DeviceRun(L, o.dev, c + 1, k) \in SUBSET L
          BY DEF DeviceRun
    <3>3. TableAfter(table[n], L, DeviceRun(L, o.dev, c + 1, k)) \in [Entity -> Val]
          BY <2>2, <3>2, TableAfterType DEF DataType
    <3>4. k \in 0..MaxSeq
          BY <2>2, BoundAssumption DEF DataType, Clocks, OplogEntry
    <3>5. log' \in [Device -> SUBSET OplogEntry]
          BY <2>2, <3>1 DEF DataType
    <3>6. clock' \in [Device -> Clocks]
          BY <2>2, <3>1, <3>4 DEF DataType, Clocks, OplogEntry
    <3>7. table' \in [Device -> [Entity -> Val]]
          BY <3>1, <3>3 DEF DataType
    <3>8. QED  BY <3>1, <3>5, <3>6, <3>7 DEF DataType
  <2>5. QED  BY <2>3, <2>4
<1>4. QED  BY <1>1, <1>2, <1>3, StepKinds

LEMMA SessionTypes ==
    ASSUME DataType, NEW n \in Device, NEW m \in Device
    PROVE  /\ Idle \in Session
           /\ \A r \in 0..MaxRounds : BuildSyncRequest(n, r) \in Session
           /\ \A cs \in Clocks, r \in 0..MaxRounds : SyncResponse(m, cs, r) \in Session
           /\ \A q \in Session, o \in OplogEntry : BatchWithout(q, o) \in Session
<1>1. NoClocks \in Clocks
      BY BoundAssumption DEF NoClocks, Clocks
<1>2. Idle \in Session
      BY <1>1, SyncAssumption DEF Idle, Session
<1>3. ASSUME NEW r \in 0..MaxRounds
      PROVE  BuildSyncRequest(n, r) \in Session
      BY DEF BuildSyncRequest, Session, DataType
<1>4. ASSUME NEW cs \in Clocks, NEW r \in 0..MaxRounds
      PROVE  SyncResponse(m, cs, r) \in Session
  <2>1. SelectSyncBatch(m, cs) \in SUBSET OplogEntry
        BY DEF SelectSyncBatch, Backlog, DataType
  <2>2. /\ (Cardinality(Missing(m, cs)) > Cardinality(SelectSyncBatch(m, cs))) \in BOOLEAN
        /\ (SelectSyncBatch(m, cs) = {}) \in BOOLEAN
        OBVIOUS
  <2>3. QED  BY <1>1, <2>1, <2>2, Zenon DEF SyncResponse, Session
<1>5. ASSUME NEW q \in Session, NEW o \in OplogEntry
      PROVE  BatchWithout(q, o) \in Session
      BY DEF Session, BatchWithout
<1>6. QED  BY <1>2, <1>3, <1>4, <1>5

LEMMA RestTypeStep ==
    ASSUME DataType, RestType, Next
    PROVE  RestType'
<1>1. ASSUME NEW n \in Device, LocalEdit(n)
      PROVE  RestType'
  <2>1. CASE CheckEdit(n)
        BY <2>1 DEF CheckEdit, RestType
  <2>2. CASE CancelEdit(n)
        BY <2>2 DEF CancelEdit, RestType
  <2>3. ASSUME NEW act, NEW e, Commits(n, act, e)
        PROVE  edits' \in [Device -> SUBSET EditRequest]
        BY <2>3 DEF Commits, RestType
  <2>4. ASSUME ~CheckEdit(n), ~CancelEdit(n)
        PROVE  edits' \in [Device -> SUBSET EditRequest]
        BY <1>1, <2>3, <2>4 DEF LocalEdit, CreatePlaylist, RenamePlaylist, DeletePlaylist,
              AddPlaylistItem, MovePlaylistItem, RemovePlaylistItem, MutatePlain, RestType
  <2>5. ASSUME ~CheckEdit(n), ~CancelEdit(n)
        PROVE  UNCHANGED <<sess, aborts>>
        BY <1>1, <2>5 DEF LocalEdit, CreatePlaylist, RenamePlaylist, DeletePlaylist,
              AddPlaylistItem, MovePlaylistItem, RemovePlaylistItem, MutatePlain,
              AppendLocalOplog
  <2>6. QED  BY <2>1, <2>2, <2>4, <2>5 DEF RestType
<1>2. ASSUME NEW n \in Device, NEW m \in Device, Catchup(n, m)
      PROVE  RestType'
  <2> USE DEF RestType
  <2>1. CASE StartCatchup(n, m)
        BY <2>1, SessionTypes, SyncAssumption DEF StartCatchup
  <2>2. CASE BuildSyncResponse(n, m)
    <3>1. sess[n][m].clocks \in Clocks /\ sess[n][m].round \in 0..MaxRounds
          BY DEF Session
    <3>2. SyncResponse(m, sess[n][m].clocks, sess[n][m].round) \in Session
          BY <3>1, SessionTypes
    <3>3. QED  BY <2>2, <3>2 DEF BuildSyncResponse
  <2>3. CASE ApplyRemoteOp(n, m)
    <3>1. PICK o \in sess[n][m].ops :
            \/ sess' = [sess EXCEPT ![n][m] = BatchWithout(@, o)]
            \/ sess' = [sess EXCEPT ![n][m] = Idle]
          BY <2>3 DEF ApplyRemoteOp
    <3>2. o \in OplogEntry
          BY DEF Session
    <3>3. CASE sess' = [sess EXCEPT ![n][m] = Idle]
          BY <2>3, <3>3, SessionTypes DEF ApplyRemoteOp
    <3>4. CASE sess' = [sess EXCEPT ![n][m] = BatchWithout(@, o)]
      <4>1. BatchWithout(sess[n][m], o) \in Session
            BY <3>2, SessionTypes
      <4>2. QED  BY <2>3, <3>4, <4>1 DEF ApplyRemoteOp
    <3>5. QED  BY <3>1, <3>3, <3>4
  <2>4. CASE FinishRound(n, m)
    <3>1. \/ sess' = [sess EXCEPT ![n][m] = Idle]
          \/ /\ sess[n][m].round < MaxRounds
             /\ sess' = [sess EXCEPT ![n][m] = BuildSyncRequest(n, sess[n][m].round + 1)]
          BY <2>4 DEF FinishRound
    <3>2. sess[n][m].round \in 0..MaxRounds
          BY DEF Session
    <3>3. sess[n][m].round < MaxRounds => sess[n][m].round + 1 \in 0..MaxRounds
          BY <3>2, SyncAssumption
    <3>4. CASE sess' = [sess EXCEPT ![n][m] = Idle]
          BY <2>4, <3>4, SessionTypes DEF FinishRound
    <3>5. CASE /\ sess[n][m].round < MaxRounds
               /\ sess' = [sess EXCEPT ![n][m] = BuildSyncRequest(n, sess[n][m].round + 1)]
      <4>1. BuildSyncRequest(n, sess[n][m].round + 1) \in Session
            BY <3>3, <3>5, SessionTypes
      <4>2. QED  BY <2>4, <3>5, <4>1 DEF FinishRound
    <3>6. QED  BY <3>1, <3>4, <3>5
  <2>5. QED  BY <1>2, <2>1, <2>2, <2>3, <2>4 DEF Catchup
<1>3. ASSUME NEW n \in Device, NEW m \in Device, AbortCatchup(n, m)
      PROVE  RestType'
      BY <1>3, SessionTypes, SyncAssumption DEF AbortCatchup, RestType
<1>4. QED  BY <1>1, <1>2, <1>3 DEF Next

\* Every variable keeps its type.
THEOREM TypeCorrect == Spec => []TypeOK
<1>1. Init => DataType /\ RestType
  <2>1. Init => DataType
        BY BoundAssumption DEF Init, DataType, Clocks, NoClocks, Val
  <2>2. Init => RestType
        BY SyncAssumption, BoundAssumption DEF Init, RestType, Session, Idle, NoClocks, Clocks
  <2>3. QED  BY <2>1, <2>2
<1>2. DataType /\ RestType /\ [Next]_vars => (DataType /\ RestType)'
  <2>1. CASE UNCHANGED vars
        BY <2>1 DEF vars, data, DataType, RestType
  <2>2. QED  BY <2>1, DataTypeStep, RestTypeStep
<1>3. DataType /\ RestType => TypeOK
      BY DEF DataType, RestType, TypeOK
<1>4. QED  BY <1>1, <1>2, <1>3, PTL DEF Spec

-----------------------------------------------------------------------------
(* Clocks, prefixes and op ids *)

\* Rows and batches are copies of rows their origin still holds.
OriginHolds == \A n \in Device : \A o \in log[n] : o \in log[o.dev]
BatchFromOrigin ==
    \A n, m \in Device : \A o \in sess[n][m].ops : o \in log[o.dev]

\* A device numbers its own rows once, up to its own clock.
OwnRows ==
    \A n \in Device : \A o \in log[n] : o.dev = n => o.seq <= clock[n][n]
OwnUnique ==
    \A n \in Device : \A o, p \in log[n] :
        o.dev = n /\ p.dev = n /\ o.seq = p.seq => o = p

StructInv ==
    /\ OriginHolds
    /\ BatchFromOrigin
    /\ OwnRows
    /\ OwnUnique
    /\ PrefixHeld
    /\ BufferDrained

Types == DataType /\ RestType

\* What appending a local op does, with the sequence number resolved: the row it
\* writes shows the op, which is the latest mutation, or else is astray.
LEMMA AppendFacts ==
    ASSUME Types, OwnRows, NEW n \in Device, DataAppend(n)
    PROVE  \E o \in OplogEntry :
              /\ o.dev = n
              /\ o.seq = clock[n][n] + 1
              /\ log' = [log EXCEPT ![n] = @ \cup {o}]
              /\ clock' = [clock EXCEPT ![n][n] = o.seq]
              /\ \A k \in Device, x \in Entity :
                    k # n \/ x # o.ent =>
                        /\ table'[k][x] = table[k][x]
                        /\ <<k, x>> \in astray' <=> <<k, x>> \in astray
              /\ \/ <<n, o.ent>> \in astray'
                 \/ /\ ShouldApplyLatestMutation(log[n] \cup {o}, o)
                    /\ table'[n][o.ent] = Written(o)
              /\ UNCHANGED sess
<1>1. PICK e \in Entity, kind \in {"upsert", "delete"}, revives \in BOOLEAN :
        AppendLocalOplog(n, e, kind, revives)
      BY DEF DataAppend
<1>2. PICK s \in 1..Quota[n], ts \in Times :
        LET o == [dev |-> n, seq |-> s, ts |-> ts, ent |-> e, kind |-> kind]
        IN  /\ NextLibraryDeviceSeq(n, s)
            /\ log' = [log EXCEPT ![n] = @ \cup {o}]
            /\ clock' = [clock EXCEPT ![n][n] = s]
            /\ table' = [table EXCEPT ![n][e] =
                           IF revives \/ @ # NoVal THEN Written(o) ELSE NoVal]
            /\ astray' = IF EditStands(n, o, revives) THEN astray \ {<<n, e>>}
                                                     ELSE astray \cup {<<n, e>>}
            /\ UNCHANGED sess
      BY <1>1, Zenon DEF AppendLocalOplog
<1> DEFINE o == [dev |-> n, seq |-> s, ts |-> ts, ent |-> e, kind |-> kind]
<1>3. /\ o \in OplogEntry
      /\ o.dev = n /\ o.seq = s /\ o.ent = e /\ o.kind = kind
      BY SyncAssumption, BoundAssumption DEF OplogEntry, Seqs
<1>4. s = clock[n][n] + 1
  <2>1. clock[n][n] \in 0..MaxSeq /\ s \in Int
        BY BoundAssumption, SyncAssumption DEF Types, DataType, Clocks
  <2>2. clock[n][n] < s
        BY <1>2 DEF NextLibraryDeviceSeq
  <2>3. CASE clock[n][n] = s - 1
        BY <2>1, <2>3
  <2>4. CASE HasOp(log[n], n, s - 1)
        BY <2>1, <2>2, <2>4 DEF HasOp, OwnRows
  <2>5. QED  BY <1>2, <2>3, <2>4 DEF NextLibraryDeviceSeq
<1>5. /\ log' = [log EXCEPT ![n] = @ \cup {o}]
      /\ table' = [table EXCEPT ![n][e] =
                     IF revives \/ @ # NoVal THEN Written(o) ELSE NoVal]
      /\ astray' = IF EditStands(n, o, revives) THEN astray \ {<<n, e>>}
                                               ELSE astray \cup {<<n, e>>}
      BY <1>2
<1> HIDE DEF o
<1>6. ASSUME NEW k \in Device, NEW x \in Entity, k # n \/ x # o.ent
      PROVE  table'[k][x] = table[k][x] /\ (<<k, x>> \in astray' <=> <<k, x>> \in astray)
  <2>1. table'[k][x] = table[k][x]
        BY <1>3, <1>5, <1>6 DEF Types, DataType
  <2>2. <<k, x>> # <<n, e>>
        BY <1>3, <1>6
  <2>3. <<k, x>> \in astray' <=> <<k, x>> \in astray
        BY <1>5, <2>2
  <2>4. QED  BY <2>1, <2>3
<1>7. \/ <<n, o.ent>> \in astray'
      \/ /\ ShouldApplyLatestMutation(log[n] \cup {o}, o)
         /\ table'[n][o.ent] = Written(o)
  <2>1. CASE EditStands(n, o, revives)
    <3>1. table'[n][e] = IF revives \/ table[n][e] # NoVal THEN Written(o) ELSE NoVal
          BY <1>5 DEF Types, DataType
    <3>2. revives \/ table[n][e] # NoVal \/ Written(o) = NoVal
          BY <1>3, <2>1 DEF EditStands, Written
    <3>3. QED  BY <1>3, <2>1, <3>1, <3>2 DEF EditStands
  <2>2. CASE ~EditStands(n, o, revives)
        BY <1>3, <1>5, <2>2
  <2>3. QED  BY <2>1, <2>2
<1> USE <1>3
<1> WITNESS o \in OplogEntry
<1>8. QED  BY <1>2, <1>3, <1>4, <1>5, <1>6, <1>7

\* What inserting a row of a batch does.
LEMMA InsertFacts ==
    ASSUME Types, BatchFromOrigin, NEW n \in Device, DataInsert(n)
    PROVE  \E o \in OplogEntry :
              LET L == log[n] \cup {o}
                  c == clock[n][o.dev]
              IN  /\ o \in log[o.dev]
                  /\ o.dev # n
                  /\ ~HasOp(log[n], o.dev, o.seq)
                  /\ log' = [log EXCEPT ![n] = L]
                  /\ \/ o.seq # c + 1 /\ UNCHANGED <<clock, table, astray>>
                     \/ /\ o.seq = c + 1
                        /\ \E k \in (c + 1)..MaxSeq :
                             LET R == DeviceRun(L, o.dev, c + 1, k)
                             IN  /\ RunEnds(L, o.dev, c + 1, k)
                                 /\ clock' = [clock EXCEPT ![n][o.dev] = k]
                                 /\ table' = [table EXCEPT ![n] = TableAfter(@, L, R)]
                                 /\ astray' = astray \ ({n} \X Settled(L, R))
<1>1. PICK m \in Device : \E o \in sess[n][m].ops :
        ~HasOp(log[n], o.dev, o.seq) /\ InsertRemoteOp(n, o)
      BY DEF DataInsert
<1>2. PICK o \in sess[n][m].ops : ~HasOp(log[n], o.dev, o.seq) /\ InsertRemoteOp(n, o)
      BY <1>1
<1>3. o \in OplogEntry /\ o \in log[o.dev]
      BY DEF Types, RestType, Session, BatchFromOrigin
<1>4. o.dev # n
      BY <1>2, <1>3 DEF HasOp
<1>5. QED  BY <1>2, <1>3, <1>4 DEF InsertRemoteOp

LEMMA StructAppend ==
    ASSUME Types, StructInv, NEW n \in Device, DataAppend(n)
    PROVE  /\ OriginHolds' /\ OwnRows' /\ OwnUnique' /\ PrefixHeld' /\ BufferDrained'
           /\ \A k \in Device : log[k] \subseteq log'[k]
<1> USE DEF Types, DataType, Clocks
<1>1. PICK o \in OplogEntry :
        /\ o.dev = n
        /\ o.seq = clock[n][n] + 1
        /\ log' = [log EXCEPT ![n] = @ \cup {o}]
        /\ clock' = [clock EXCEPT ![n][n] = o.seq]
      BY AppendFacts DEF StructInv
<1>2. /\ \A k \in Device : log'[k] = IF k = n THEN log[k] \cup {o} ELSE log[k]
      /\ \A k, d \in Device : clock'[k][d] = IF k = n /\ d = n THEN o.seq ELSE clock[k][d]
      BY <1>1
<1>3. \A k \in Device, p \in OplogEntry : p \in log'[k] => p.dev \in Device /\ p.seq \in Int
      BY BoundAssumption DEF OplogEntry, Seqs
<1>4. \A k, d \in Device : clock[k][d] \in Int /\ clock[k][d] >= 0
      BY BoundAssumption
<1>5. OriginHolds'
      BY <1>1, <1>2, <1>3 DEF OriginHolds, StructInv, OplogEntry
<1>6. OwnRows'
      BY <1>1, <1>2, <1>3, <1>4 DEF OwnRows, StructInv
<1>7. OwnUnique'
  <2>1. \A p \in log[n] : p.dev = n => p.seq # o.seq
        BY <1>1, <1>3, <1>4 DEF OwnRows, StructInv
  <2>2. QED  BY <1>1, <1>2, <2>1 DEF OwnUnique, StructInv
<1>8. PrefixHeld'
  <2>1. SUFFICES ASSUME NEW k \in Device, NEW d \in Device, NEW t \in 1..(clock'[k][d])
                 PROVE  HasOp(log'[k], d, t)
        BY DEF PrefixHeld, HasOp
  <2>2. CASE t \in 1..clock[k][d]
    <3>1. HasOp(log[k], d, t)
          BY <2>2 DEF PrefixHeld, StructInv
    <3>2. log[k] \subseteq log'[k]
          BY <1>2
    <3>3. QED  BY <3>1, <3>2 DEF HasOp
  <2>3. CASE t \notin 1..clock[k][d]
    <3>0. clock'[k][d] = IF k = n /\ d = n THEN o.seq ELSE clock[k][d]
          BY <1>2
    <3>1. k = n /\ d = n /\ t = o.seq
          BY <1>1, <1>4, <2>3, <3>0
    <3>2. QED  BY <1>1, <1>2, <3>1 DEF HasOp
  <2>4. QED  BY <2>2, <2>3
<1>9. BufferDrained'
  <2>1. SUFFICES ASSUME NEW k \in Device, NEW d \in Device,
                        HasOp(log'[k], d, clock'[k][d] + 1)
                 PROVE  FALSE
        BY DEF BufferDrained, HasOp
  <2>2. CASE k = n /\ d = n
        BY <1>1, <1>2, <1>3, <1>4, <2>1, <2>2 DEF HasOp, OwnRows, StructInv
  <2>3. CASE ~(k = n /\ d = n)
        BY <1>1, <1>2, <2>1, <2>3 DEF HasOp, BufferDrained, StructInv
  <2>4. QED  BY <2>2, <2>3
<1>10. QED  BY <1>2, <1>5, <1>6, <1>7, <1>8, <1>9

LEMMA StructInsert ==
    ASSUME Types, StructInv, NEW n \in Device, DataInsert(n)
    PROVE  /\ OriginHolds' /\ OwnRows' /\ OwnUnique' /\ PrefixHeld' /\ BufferDrained'
           /\ \A k \in Device : log[k] \subseteq log'[k]
<1> USE DEF Types, DataType, Clocks
<1>1. PICK o \in OplogEntry :
        LET L == log[n] \cup {o}
            c == clock[n][o.dev]
        IN  /\ o \in log[o.dev]
            /\ o.dev # n
            /\ ~HasOp(log[n], o.dev, o.seq)
            /\ log' = [log EXCEPT ![n] = L]
            /\ \/ o.seq # c + 1 /\ UNCHANGED <<clock, table, astray>>
               \/ /\ o.seq = c + 1
                  /\ \E k \in (c + 1)..MaxSeq :
                       LET R == DeviceRun(L, o.dev, c + 1, k)
                       IN  /\ RunEnds(L, o.dev, c + 1, k)
                           /\ clock' = [clock EXCEPT ![n][o.dev] = k]
                           /\ table' = [table EXCEPT ![n] = TableAfter(@, L, R)]
                           /\ astray' = astray \ ({n} \X Settled(L, R))
      BY InsertFacts, Zenon DEF StructInv
<1> DEFINE L == log[n] \cup {o}
           d == o.dev
           c == clock[n][o.dev]
           Moves(j) == /\ j >= c
                       /\ \A k, e \in Device :
                             clock'[k][e] = IF k = n /\ e = d THEN j ELSE clock[k][e]
                       /\ \A t \in (c + 1)..j : HasOp(L, d, t)
                       /\ ~HasOp(L, d, j + 1)
<1>2. d \in Device /\ o.seq \in Int /\ c \in Int /\ c >= 0
      BY BoundAssumption DEF OplogEntry, Seqs
<1>3. \A k \in Device : log'[k] = IF k = n THEN L ELSE log[k]
      BY <1>1
<1>4. \A k, e \in Device : clock[k][e] \in Int /\ clock[k][e] >= 0
      BY BoundAssumption
<1>5. PICK j \in Int : Moves(j)
  <2>1. CASE o.seq # c + 1 /\ UNCHANGED clock
    <3>1. ~HasOp(L, d, c + 1)
          BY <1>2, <2>1 DEF HasOp, BufferDrained, StructInv
    <3>2. \A t \in (c + 1)..c : HasOp(L, d, t)
          BY <1>2
    <3>3. \A k, e \in Device : clock'[k][e] = IF k = n /\ e = d THEN c ELSE clock[k][e]
          BY <2>1
    <3>4. Moves(c)
          BY <1>2, <3>1, <3>2, <3>3
    <3>5. QED  BY <1>2, <3>4
  <2>2. ASSUME NEW k \in (c + 1)..MaxSeq,
               RunEnds(L, o.dev, c + 1, k),
               clock' = [clock EXCEPT ![n][o.dev] = k]
        PROVE  k \in Int /\ Moves(k)
    <3>1. k \in Int /\ k >= c
          BY <1>2, BoundAssumption
    <3>2. (\A t \in (c + 1)..k : HasOp(L, d, t)) /\ ~HasOp(L, d, k + 1)
          BY <2>2 DEF RunEnds
    <3>3. \A kk, e \in Device : clock'[kk][e] = IF kk = n /\ e = d THEN k ELSE clock[kk][e]
          BY <1>2, <2>2
    <3>4. QED  BY <3>1, <3>2, <3>3
  <2>3. QED  BY <1>1, <2>1, <2>2
<1> HIDE DEF L, d, c
<1>6. OriginHolds'
      BY <1>1, <1>2, <1>3 DEF OriginHolds, StructInv, OplogEntry, L, d
<1>7. OwnRows'
      BY <1>1, <1>2, <1>3, <1>5 DEF OwnRows, StructInv, L, d
<1>8. OwnUnique'
      BY <1>1, <1>3 DEF OwnUnique, StructInv, L
<1>9. PrefixHeld'
  <2>1. SUFFICES ASSUME NEW k \in Device, NEW e \in Device, NEW t \in 1..(clock'[k][e])
                 PROVE  HasOp(log'[k], e, t)
        BY DEF PrefixHeld, HasOp
  <2>2. CASE t \in 1..clock[k][e]
    <3>1. HasOp(log[k], e, t)
          BY <2>2 DEF PrefixHeld, StructInv
    <3>2. log[k] \subseteq log'[k]
          BY <1>3 DEF L
    <3>3. QED  BY <3>1, <3>2 DEF HasOp
  <2>3. CASE t \notin 1..clock[k][e]
    <3>1. k = n /\ e = d /\ t \in (c + 1)..j
          BY <1>2, <1>4, <1>5, <2>3 DEF c, d
    <3>2. QED  BY <1>3, <1>5, <3>1
  <2>4. QED  BY <2>2, <2>3
<1>10. BufferDrained'
  <2>1. SUFFICES ASSUME NEW k \in Device, NEW e \in Device,
                        HasOp(log'[k], e, clock'[k][e] + 1)
                 PROVE  FALSE
        BY DEF BufferDrained, HasOp
  <2>2. CASE k = n /\ e = d
        BY <1>3, <1>5, <2>1, <2>2
  <2>3. CASE ~(k = n /\ e = d)
        BY <1>1, <1>3, <1>5, <2>1, <2>3 DEF HasOp, BufferDrained, StructInv, L, d
  <2>4. QED  BY <2>2, <2>3
<1>11. QED  BY <1>3, <1>6, <1>7, <1>8, <1>9, <1>10 DEF L

\* A batch only loses rows, or is a fresh selection from the peer's log.
LEMMA BatchSources ==
    ASSUME Types, Next, NEW k \in Device, NEW j \in Device, NEW o \in sess'[k][j].ops
    PROVE  o \in sess[k][j].ops \/ o \in log[j]
<1> USE DEF Types, RestType
<1>1. ASSUME NEW n \in Device, LocalEdit(n)
      PROVE  UNCHANGED sess
      BY <1>1 DEF LocalEdit, CheckEdit, CancelEdit, CreatePlaylist, RenamePlaylist,
            DeletePlaylist, AddPlaylistItem, MovePlaylistItem, RemovePlaylistItem,
            MutatePlain, AppendLocalOplog
<1>2. ASSUME NEW n \in Device, NEW m \in Device, Catchup(n, m) \/ AbortCatchup(n, m)
      PROVE  o \in sess[k][j].ops \/ o \in log[j]
  <2>1. CASE StartCatchup(n, m)
        BY <2>1 DEF StartCatchup, BuildSyncRequest
  <2>2. CASE BuildSyncResponse(n, m)
        BY <2>2 DEF BuildSyncResponse, SyncResponse, SelectSyncBatch, Backlog
  <2>3. CASE ApplyRemoteOp(n, m)
    <3>1. PICK q \in sess[n][m].ops :
            \/ sess' = [sess EXCEPT ![n][m] = BatchWithout(@, q)]
            \/ sess' = [sess EXCEPT ![n][m] = Idle]
          BY <2>3 DEF ApplyRemoteOp
    <3>2. QED  BY <3>1 DEF BatchWithout, Idle
  <2>4. CASE FinishRound(n, m)
    <3>1. \/ sess' = [sess EXCEPT ![n][m] = Idle]
          \/ sess' = [sess EXCEPT ![n][m] = BuildSyncRequest(n, sess[n][m].round + 1)]
          BY <2>4 DEF FinishRound
    <3>2. QED  BY <3>1 DEF BuildSyncRequest, Idle
  <2>5. CASE AbortCatchup(n, m)
        BY <2>5 DEF AbortCatchup, Idle
  <2>6. QED  BY <1>2, <2>1, <2>2, <2>3, <2>4, <2>5 DEF Catchup
<1>3. QED  BY <1>1, <1>2 DEF Next

LEMMA StructStep ==
    ASSUME Types, Types', StructInv, Next
    PROVE  StructInv'
<1>1. /\ OriginHolds' /\ OwnRows' /\ OwnUnique' /\ PrefixHeld' /\ BufferDrained'
      /\ \A k \in Device : log[k] \subseteq log'[k]
  <2>1. CASE DataSame
        BY <2>1 DEF DataSame, data, StructInv, OriginHolds, OwnRows, OwnUnique,
                    PrefixHeld, BufferDrained
  <2>2. QED  BY <2>1, StepKinds, StructAppend, StructInsert
<1>2. BatchFromOrigin'
  <2>1. SUFFICES ASSUME NEW k \in Device, NEW j \in Device, NEW o \in sess'[k][j].ops
                 PROVE  o \in log'[o.dev]
        BY DEF BatchFromOrigin
  <2>2. o \in sess[k][j].ops \/ o \in log[j]
        BY BatchSources
  <2>3. o \in log[o.dev]
        BY <2>2 DEF StructInv, BatchFromOrigin, OriginHolds
  <2>4. o.dev \in Device
        BY DEF Types, RestType, Session, OplogEntry
  <2>5. QED  BY <1>1, <2>3, <2>4
<1>3. QED  BY <1>1, <1>2 DEF StructInv

LEMMA StructCorrect == Spec => [](Types /\ StructInv)
<1>1. Init => Types /\ StructInv
  <2>1. Init => Types
        BY SyncAssumption, BoundAssumption
           DEF Init, Types, DataType, RestType, Session, Idle, NoClocks, Clocks, Val
  <2>2. Init => OriginHolds /\ OwnRows /\ OwnUnique
        BY DEF Init, OriginHolds, OwnRows, OwnUnique
  <2>3. Init => BatchFromOrigin
        BY DEF Init, BatchFromOrigin, Idle
  <2>4. Init => PrefixHeld /\ BufferDrained
        BY DEF Init, PrefixHeld, BufferDrained, HasOp, NoClocks
  <2>5. QED  BY <2>1, <2>2, <2>3, <2>4 DEF StructInv
<1>2. Types /\ StructInv /\ [Next]_vars => (Types /\ StructInv)'
  <2>1. CASE UNCHANGED vars
        BY <2>1 DEF vars, data, Types, DataType, RestType, StructInv, OriginHolds,
                    BatchFromOrigin, OwnRows, OwnUnique, PrefixHeld, BufferDrained
  <2>2. CASE Types /\ StructInv /\ Next
    <3>1. Types'
          BY <2>2, DataTypeStep, RestTypeStep DEF Types
    <3>2. QED  BY <2>2, <3>1, StructStep
  <2>3. QED  BY <2>1, <2>2
<1>3. QED  BY <1>1, <1>2, PTL DEF Spec

\* Wherever a session stops and in whatever order rows arrive, a clock stands
\* only for rows the device holds, and no applicable row is left in the buffer.
THEOREM PrefixesHeld == Spec => []PrefixExact
<1>1. StructInv => PrefixExact
      BY DEF StructInv, PrefixExact
<1>2. QED  BY <1>1, StructCorrect, PTL

LEMMA IdsAgree ==
    ASSUME Types, StructInv
    PROVE  OpIdsAgree
<1>1. SUFFICES ASSUME NEW n \in Device, NEW m \in Device,
                      NEW o \in log[n], NEW p \in log[m], OpId(o) = OpId(p)
               PROVE  o = p
      BY DEF OpIdsAgree
<1>2. o.dev \in Device /\ o.dev = p.dev /\ o.seq = p.seq
      BY <1>1 DEF OpId, Types, DataType, OplogEntry
<1>3. o \in log[o.dev] /\ p \in log[o.dev]
      BY <1>2 DEF StructInv, OriginHolds
<1>4. QED  BY <1>2, <1>3 DEF StructInv, OwnUnique

\* An op id means the same op on every device.
THEOREM OpIdsNeverCollide == Spec => []OpIdsAgree
BY StructCorrect, IdsAgree, PTL

\* A clock for a device is never ahead of the device's own.
LEMMA ClocksWithinOrigin ==
    ASSUME Types, StructInv
    PROVE  \A n, d \in Device : clock[n][d] <= clock[d][d]
<1>1. SUFFICES ASSUME NEW n \in Device, NEW d \in Device
               PROVE  clock[n][d] <= clock[d][d]
      OBVIOUS
<1>2. clock[n][d] \in 0..MaxSeq /\ clock[d][d] \in 0..MaxSeq
      BY DEF Types, DataType, Clocks
<1>3. CASE clock[n][d] = 0
      BY <1>2, <1>3, BoundAssumption
<1>4. CASE clock[n][d] \in 1..clock[n][d]
  <2>1. PICK o \in log[n] : o.dev = d /\ o.seq = clock[n][d]
        BY <1>4 DEF StructInv, PrefixHeld, HasOp
  <2>2. o \in log[d]
        BY <2>1 DEF StructInv, OriginHolds
  <2>3. QED  BY <2>1, <2>2 DEF StructInv, OwnRows
<1>5. QED  BY <1>2, <1>3, <1>4, BoundAssumption

\* Clocks implement prefix replication: they start at zero, a device issues
\* its ops one by one, and delivers a longer prefix of what another issued.
THEOREM ClocksRefine == Spec => ClocksReplicatePrefixes
<1>1. Init => PR!Init
      BY DEF Init, PR!Init, NoClocks
<1>2. Types /\ StructInv /\ [Next]_vars => [PR!Next]_clock
  <2>1. SUFFICES ASSUME Types, StructInv, [Next]_vars
                 PROVE  [PR!Next]_clock
        OBVIOUS
  <2>2. CASE UNCHANGED vars
        BY <2>2 DEF vars, data
  <2>3. CASE DataSame
        BY <2>3 DEF DataSame, data
  <2>4. ASSUME NEW n \in Device, DataAppend(n)
        PROVE  PR!Issue(n)
    <3>1. PICK o \in OplogEntry : /\ o.seq = clock[n][n] + 1
                                 /\ clock' = [clock EXCEPT ![n][n] = o.seq]
          BY <2>1, <2>4, AppendFacts DEF StructInv
    <3>2. clock[n][n] < MaxSeq
          BY <2>1, <3>1, BoundAssumption DEF OplogEntry, Seqs, Types, DataType, Clocks
    <3>3. QED  BY <3>1, <3>2 DEF PR!Issue
  <2>5. ASSUME NEW n \in Device, DataInsert(n)
        PROVE  UNCHANGED clock \/ PR!Deliver(n)
    <3>1. PICK o \in OplogEntry :
            LET L == log[n] \cup {o}
                c == clock[n][o.dev]
            IN  /\ o \in log[o.dev]
                /\ o.dev # n
                /\ ~HasOp(log[n], o.dev, o.seq)
                /\ log' = [log EXCEPT ![n] = L]
                /\ \/ o.seq # c + 1 /\ UNCHANGED <<clock, table, astray>>
                   \/ /\ o.seq = c + 1
                      /\ \E k \in (c + 1)..MaxSeq :
                           LET R == DeviceRun(L, o.dev, c + 1, k)
                           IN  /\ RunEnds(L, o.dev, c + 1, k)
                               /\ clock' = [clock EXCEPT ![n][o.dev] = k]
                               /\ table' = [table EXCEPT ![n] = TableAfter(@, L, R)]
                               /\ astray' = astray \ ({n} \X Settled(L, R))
          BY <2>1, <2>5, InsertFacts, Zenon DEF StructInv
    <3>2. o.dev \in Device
          BY DEF OplogEntry
    <3>3. ASSUME NEW k \in (clock[n][o.dev] + 1)..MaxSeq,
                 RunEnds(log[n] \cup {o}, o.dev, clock[n][o.dev] + 1, k)
          PROVE  k <= clock[o.dev][o.dev]
      <4>1. k \in (clock[n][o.dev] + 1)..k
            BY <2>1, <3>2, BoundAssumption DEF Types, DataType, Clocks
      <4>2. HasOp(log[n] \cup {o}, o.dev, k)
            BY <3>3, <4>1 DEF RunEnds
      <4>3. PICK q \in log[n] \cup {o} : q.dev = o.dev /\ q.seq = k
            BY <4>2 DEF HasOp
      <4>4. q \in log[o.dev]
            BY <2>1, <3>1, <4>3 DEF StructInv, OriginHolds
      <4>5. QED  BY <2>1, <3>2, <4>3, <4>4 DEF StructInv, OwnRows
    <3>4. ASSUME NEW k \in (clock[n][o.dev] + 1)..MaxSeq,
                 k <= clock[o.dev][o.dev],
                 clock' = [clock EXCEPT ![n][o.dev] = k]
          PROVE  PR!Deliver(n)
      <4> DEFINE to == [clock[n] EXCEPT ![o.dev] = k]
      <4>1. clock[n] \in [Device -> 0..MaxSeq] /\ k \in 0..MaxSeq /\ clock[n][o.dev] <= k
            BY <2>1, <3>2, BoundAssumption DEF Types, DataType, Clocks
      <4>2. to \in [Device -> 0..MaxSeq] /\ clock' = [clock EXCEPT ![n] = to]
            BY <2>1, <3>2, <3>4, <4>1 DEF Types, DataType
      <4>3. \A d \in Device : clock[n][d] <= to[d] /\ to[d] <= clock[d][d]
        <5>1. SUFFICES ASSUME NEW d \in Device PROVE clock[n][d] <= to[d] /\ to[d] <= clock[d][d]
              OBVIOUS
        <5>2. CASE d = o.dev
              BY <3>4, <4>1, <5>2
        <5>3. CASE d # o.dev
          <6>1. clock[n][d] <= clock[d][d]
                BY <2>1, ClocksWithinOrigin
          <6>2. to[d] = clock[n][d] /\ clock[n][d] \in 0..MaxSeq
                BY <4>1, <5>3
          <6>3. QED  BY <6>1, <6>2
        <5>4. QED  BY <5>2, <5>3
      <4> HIDE DEF to
      <4>4. QED  BY <4>2, <4>3 DEF PR!Deliver
    <3>5. QED  BY <3>1, <3>2, <3>3, <3>4
  <2>6. QED  BY <2>1, <2>2, <2>3, <2>4, <2>5, StepKinds DEF PR!Next
<1>3. QED  BY <1>1, <1>2, StructCorrect, PTL DEF Spec, ClocksReplicatePrefixes, PR!Spec

-----------------------------------------------------------------------------
(* Convergence of the tables *)

LEMMA MutationOrder ==
    /\ \A o, p \in OplogEntry : OpId(o) = OpId(p) \/ MutationBefore(o, p) \/ MutationBefore(p, o)
    /\ \A o, p \in OplogEntry : ~(MutationBefore(o, p) /\ MutationBefore(p, o))
    /\ \A o, p, q \in OplogEntry :
          MutationBefore(o, p) /\ MutationBefore(p, q) => MutationBefore(o, q)
<1>1. \A o \in OplogEntry : OpId(o) \in Device \X Seqs /\ o.ts \in Int
      BY BoundAssumption DEF OplogEntry, OpId, Times
<1>2. \A o \in OplogEntry : OpRank[OpId(o)] \in Int
      BY <1>1, OpRankAssumption
<1>3. \A o, p \in OplogEntry : OpRank[OpId(o)] = OpRank[OpId(p)] => OpId(o) = OpId(p)
      BY <1>1, OpRankAssumption
<1>4. QED  BY <1>1, <1>2, <1>3 DEF MutationBefore

IdsUnique(L) == \A o, p \in L : OpId(o) = OpId(p) => o = p

\* An entity has at most one latest mutation.
LEMMA LatestUnique ==
    ASSUME NEW L \in SUBSET OplogEntry, IdsUnique(L),
           NEW o \in L, NEW p \in L, o.ent = p.ent,
           ShouldApplyLatestMutation(L, o), ShouldApplyLatestMutation(L, p)
    PROVE  o = p
BY MutationOrder DEF ShouldApplyLatestMutation, IdsUnique

EveryEntityHasLatest(L) ==
    \A o \in L : \E p \in L : p.ent = o.ent /\ ShouldApplyLatestMutation(L, p)

\* Adding one row keeps a latest mutation for every entity that has rows.
LEMMA LatestExtends ==
    ASSUME NEW L \in SUBSET OplogEntry, IdsUnique(L), NEW o \in OplogEntry,
           EveryEntityHasLatest(L)
    PROVE  EveryEntityHasLatest(L \cup {o})
<1> DEFINE M == L \cup {o}
<1>1. SUFFICES ASSUME NEW q \in M
               PROVE  \E p \in M : p.ent = q.ent /\ ShouldApplyLatestMutation(M, p)
      BY DEF EveryEntityHasLatest
<1>2. CASE \E p \in L : p.ent = q.ent
  <2>1. PICK p \in L : p.ent = q.ent /\ ShouldApplyLatestMutation(L, p)
        BY <1>2 DEF EveryEntityHasLatest
  <2>2. CASE o.ent # q.ent \/ OpId(o) = OpId(p) \/ MutationBefore(o, p)
        BY <2>1, <2>2 DEF ShouldApplyLatestMutation
  <2>3. CASE o.ent = q.ent /\ MutationBefore(p, o)
    <3>1. ASSUME NEW x \in L, x.ent = o.ent
          PROVE  MutationBefore(x, o)
      <4>1. CASE MutationBefore(x, p)
            BY <2>3, <4>1, MutationOrder
      <4>2. CASE OpId(x) = OpId(p)
            BY <2>3, <4>2 DEF IdsUnique
      <4>3. QED  BY <2>1, <2>3, <3>1, <4>1, <4>2 DEF ShouldApplyLatestMutation
    <3>2. ShouldApplyLatestMutation(M, o)
          BY <3>1 DEF ShouldApplyLatestMutation
    <3>3. QED  BY <2>3, <3>2
  <2>4. QED  BY <2>2, <2>3, MutationOrder
<1>3. CASE ~\E p \in L : p.ent = q.ent
      BY <1>3 DEF ShouldApplyLatestMutation
<1>4. QED  BY <1>2, <1>3

HasLatest == \A n \in Device : EveryEntityHasLatest(log[n])

\* An entity without rows was never written.
Untouched ==
    \A n \in Device, e \in Entity :
        (\A o \in log[n] : o.ent # e) => table[n][e] = NoVal

TableInv == LatestMutationShown /\ HasLatest /\ Untouched

LEMMA LogIdsUnique ==
    ASSUME OpIdsAgree, NEW n \in Device
    PROVE  IdsUnique(log[n])
BY DEF OpIdsAgree, IdsUnique

LEMMA TableAppend ==
    ASSUME Types, StructInv, OpIdsAgree, TableInv, NEW n \in Device, DataAppend(n)
    PROVE  TableInv'
<1>1. PICK o \in OplogEntry :
        /\ o.dev = n
        /\ o.seq = clock[n][n] + 1
        /\ log' = [log EXCEPT ![n] = @ \cup {o}]
        /\ clock' = [clock EXCEPT ![n][n] = o.seq]
        /\ \A k \in Device, x \in Entity :
              k # n \/ x # o.ent =>
                  /\ table'[k][x] = table[k][x]
                  /\ <<k, x>> \in astray' <=> <<k, x>> \in astray
        /\ \/ <<n, o.ent>> \in astray'
           \/ /\ ShouldApplyLatestMutation(log[n] \cup {o}, o)
              /\ table'[n][o.ent] = Written(o)
      BY AppendFacts, Zenon DEF StructInv
<1> DEFINE L == log[n] \cup {o}
<1>2. /\ \A k \in Device : log'[k] = IF k = n THEN L ELSE log[k]
      /\ \A k, d \in Device : clock'[k][d] = IF k = n /\ d = n THEN o.seq ELSE clock[k][d]
      BY <1>1 DEF Types, DataType, Clocks
<1>3. \A p \in log[n] : p \in OplogEntry /\ p.ent \in Entity /\ OpId(p) # OpId(o)
  <2>1. \A p \in log[n] : p \in OplogEntry /\ p.ent \in Entity /\ p.seq \in Int
        BY BoundAssumption DEF Types, DataType, OplogEntry, Seqs
  <2>2. clock[n][n] \in Int
        BY BoundAssumption DEF Types, DataType, Clocks
  <2>3. QED  BY <1>1, <2>1, <2>2 DEF StructInv, OwnRows, OpId
<1>4. LatestMutationShown'
  <2>1. SUFFICES ASSUME NEW k \in Device, NEW p \in log'[k],
                        p.seq <= clock'[k][p.dev], ShouldApplyLatestMutation(log'[k], p),
                        <<k, p.ent>> \notin astray'
                 PROVE  table'[k][p.ent] = Written(p)
        BY DEF LatestMutationShown, ShouldApplyLatestMutation
  <2>2. p \in OplogEntry /\ p.ent \in Entity /\ p.dev \in Device
        BY <1>2, <2>1 DEF Types, DataType, OplogEntry
  <2>3. CASE k # n
    <3>1. /\ p \in log[k] /\ p.seq <= clock[k][p.dev] /\ ShouldApplyLatestMutation(log[k], p)
          /\ <<k, p.ent>> \notin astray /\ table'[k][p.ent] = table[k][p.ent]
          BY <1>1, <1>2, <2>1, <2>2, <2>3
    <3>2. QED  BY <3>1 DEF TableInv, LatestMutationShown
  <2>4. CASE k = n /\ p = o
        BY <1>1, <2>1, <2>4
  <2>5. CASE k = n /\ p # o
    <3>1. p \in log[n]
          BY <1>2, <2>1, <2>5
    <3>2. CASE p.ent = o.ent
      <4>1. ShouldApplyLatestMutation(L, o)
            BY <1>1, <2>1, <2>5, <3>2
      <4>2. MutationBefore(p, o) /\ MutationBefore(o, p)
            BY <1>2, <1>3, <2>1, <2>5, <3>1, <3>2, <4>1 DEF ShouldApplyLatestMutation
      <4>3. QED  BY <2>2, <4>2, MutationOrder
    <3>3. CASE p.ent # o.ent
      <4>1. ShouldApplyLatestMutation(log[n], p)
            BY <1>2, <2>1, <2>5 DEF ShouldApplyLatestMutation
      <4>2. p.seq <= clock[n][p.dev]
        <5>1. CASE p.dev = n
              BY <3>1, <5>1 DEF StructInv, OwnRows
        <5>2. CASE p.dev # n
              BY <1>2, <2>1, <2>2, <2>5, <5>2
        <5>3. QED  BY <5>1, <5>2
      <4>3. <<n, p.ent>> \notin astray /\ table'[n][p.ent] = table[n][p.ent]
            BY <1>1, <2>1, <2>2, <2>5, <3>3
      <4>4. QED  BY <2>5, <3>1, <4>1, <4>2, <4>3 DEF TableInv, LatestMutationShown
    <3>4. QED  BY <3>2, <3>3
  <2>6. QED  BY <2>3, <2>4, <2>5
<1>5. HasLatest'
  <2>1. EveryEntityHasLatest(L)
        BY <1>3, LogIdsUnique, LatestExtends DEF TableInv, HasLatest
  <2>2. QED  BY <1>2, <2>1 DEF HasLatest, TableInv
<1>6. Untouched'
  <2>1. SUFFICES ASSUME NEW k \in Device, NEW e \in Entity, \A q \in log'[k] : q.ent # e
                 PROVE  table'[k][e] = NoVal
        BY DEF Untouched
  <2>2. k # n \/ e # o.ent
        BY <1>2, <2>1
  <2>3. table'[k][e] = table[k][e]
        BY <1>1, <2>2
  <2>4. \A q \in log[k] : q.ent # e
        BY <1>2, <2>1
  <2>5. Untouched
        BY DEF TableInv
  <2>6. QED  BY <2>3, <2>4, <2>5 DEF Untouched
<1>7. QED  BY <1>4, <1>5, <1>6 DEF TableInv

LEMMA TableInsert ==
    ASSUME Types, StructInv, OpIdsAgree, TableInv, NEW n \in Device, DataInsert(n)
    PROVE  TableInv'
<1>1. PICK o \in OplogEntry :
        LET L == log[n] \cup {o}
            c == clock[n][o.dev]
        IN  /\ o \in log[o.dev]
            /\ o.dev # n
            /\ ~HasOp(log[n], o.dev, o.seq)
            /\ log' = [log EXCEPT ![n] = L]
            /\ \/ o.seq # c + 1 /\ UNCHANGED <<clock, table, astray>>
               \/ /\ o.seq = c + 1
                  /\ \E k \in (c + 1)..MaxSeq :
                       LET R == DeviceRun(L, o.dev, c + 1, k)
                       IN  /\ RunEnds(L, o.dev, c + 1, k)
                           /\ clock' = [clock EXCEPT ![n][o.dev] = k]
                           /\ table' = [table EXCEPT ![n] = TableAfter(@, L, R)]
                           /\ astray' = astray \ ({n} \X Settled(L, R))
      BY InsertFacts, Zenon DEF StructInv
<1> DEFINE L == log[n] \cup {o}
           c == clock[n][o.dev]
<1>2. /\ o.dev \in Device /\ o.ent \in Entity
      /\ o.seq \in Int /\ o.seq >= 1 /\ c \in Int /\ c >= 0
      BY BoundAssumption DEF OplogEntry, Seqs, Types, DataType, Clocks
<1>3. \A k \in Device : log'[k] = IF k = n THEN L ELSE log[k]
      BY <1>1 DEF Types, DataType
<1>4. \A k \in Device : \A p \in log[k] :
        /\ p \in OplogEntry /\ p.dev \in Device /\ p.ent \in Entity
        /\ p.seq \in Int /\ clock[k][p.dev] \in Int
      BY BoundAssumption DEF Types, DataType, OplogEntry, Seqs, Clocks
<1>5. L \in SUBSET OplogEntry
      BY <1>4
<1>6. IdsUnique(L)
      BY <1>1, <1>2 DEF OpIdsAgree, IdsUnique
<1>7. HasLatest'
  <2>1. EveryEntityHasLatest(L)
        BY <1>4, LogIdsUnique, LatestExtends DEF TableInv, HasLatest
  <2>2. QED  BY <1>3, <2>1 DEF HasLatest, TableInv
\* the invariant for a row that was already applied before the step
<1>8. ASSUME NEW p \in log[n], p.seq <= clock[n][p.dev], ShouldApplyLatestMutation(L, p),
             <<n, p.ent>> \notin astray
      PROVE  table[n][p.ent] = Written(p)
  <2>1. ShouldApplyLatestMutation(log[n], p)
        BY <1>8 DEF ShouldApplyLatestMutation
  <2>2. QED  BY <1>8, <2>1 DEF TableInv, LatestMutationShown
<1>9. CASE o.seq # c + 1 /\ UNCHANGED <<clock, table, astray>>
  <2>1. ASSUME o.seq <= c
        PROVE  FALSE
    <3>1. o.seq \in 1..clock[n][o.dev]
          BY <1>2, <2>1
    <3>2. QED  BY <1>1, <1>2, <3>1 DEF StructInv, PrefixHeld
  <2>2. LatestMutationShown'
    <3>1. SUFFICES ASSUME NEW k \in Device, NEW p \in log'[k],
                          p.seq <= clock'[k][p.dev], ShouldApplyLatestMutation(log'[k], p),
                          <<k, p.ent>> \notin astray'
                   PROVE  table'[k][p.ent] = Written(p)
          BY DEF LatestMutationShown, ShouldApplyLatestMutation
    <3>2. CASE k # n
          BY <1>3, <1>9, <3>1, <3>2 DEF TableInv, LatestMutationShown
    <3>3. CASE k = n
          BY <1>3, <1>8, <1>9, <2>1, <3>1, <3>3
    <3>4. QED  BY <3>2, <3>3
  <2>3. Untouched'
        BY <1>3, <1>9 DEF TableInv, Untouched
  <2>4. QED  BY <1>7, <2>2, <2>3 DEF TableInv
<1>10. ASSUME o.seq = c + 1, NEW k \in (c + 1)..MaxSeq,
              clock' = [clock EXCEPT ![n][o.dev] = k],
              table' = [table EXCEPT ![n] = TableAfter(@, L, DeviceRun(L, o.dev, c + 1, k))],
              astray' = astray \ ({n} \X Settled(L, DeviceRun(L, o.dev, c + 1, k)))
       PROVE  TableInv'
  <2> DEFINE R == DeviceRun(L, o.dev, c + 1, k)
             Latest(e, q) == q.ent = e /\ ShouldApplyLatestMutation(L, q)
  <2>0. k \in Int /\ c + 1 <= k
        BY <1>2
  <2>1. o \in R /\ R \subseteq L
        BY <1>2, <1>10, <2>0 DEF DeviceRun
  <2>2. \A j \in Device : j # n => clock'[j] = clock[j] /\ table'[j] = table[j]
        BY <1>10 DEF Types, DataType
  <2>3. \A d \in Device : clock'[n][d] = IF d = o.dev THEN k ELSE clock[n][d]
        BY <1>2, <1>10 DEF Types, DataType, Clocks
  <2>4. table'[n] = TableAfter(table[n], L, R)
        BY <1>10 DEF Types, DataType
  <2>5. \A e \in Entity : (~\E q \in R : Latest(e, q)) => table'[n][e] = table[n][e]
        BY <2>4 DEF TableAfter
  <2>6. \A e \in Entity : (\E q \in R : Latest(e, q)) =>
            \E q \in R : Latest(e, q) /\ table'[n][e] = Written(q)
        BY <2>4 DEF TableAfter
  <2>7. LatestMutationShown'
    <3>1. SUFFICES ASSUME NEW j \in Device, NEW p \in log'[j],
                          p.seq <= clock'[j][p.dev], ShouldApplyLatestMutation(log'[j], p),
                          <<j, p.ent>> \notin astray'
                   PROVE  table'[j][p.ent] = Written(p)
          BY DEF LatestMutationShown, ShouldApplyLatestMutation
    <3>2. CASE j # n
      <4>1. <<j, p.ent>> \notin astray
            BY <1>10, <3>1, <3>2
      <4>2. QED  BY <1>3, <2>2, <3>1, <3>2, <4>1 DEF TableInv, LatestMutationShown
    <3>3. CASE j = n
      <4>1. p \in L /\ p.ent \in Entity /\ Latest(p.ent, p)
            BY <1>3, <1>4, <1>2, <3>1, <3>3
      <4>2. \A q \in R : Latest(p.ent, q) => q = p
            BY <1>5, <1>6, <2>1, <4>1, LatestUnique
      <4>3. CASE p \in R
            BY <2>6, <3>3, <4>1, <4>2, <4>3
      <4>4. CASE p \notin R
        <5>1. table'[n][p.ent] = table[n][p.ent]
              BY <2>5, <4>1, <4>2, <4>4
        <5>2. p \in log[n]
              BY <2>1, <4>1, <4>4
        <5>3. p.seq <= clock[n][p.dev]
              BY <1>2, <1>4, <2>0, <2>3, <3>1, <3>3, <4>1, <4>4, <5>2 DEF DeviceRun
        <5>4. p.ent \notin Settled(L, R)
              BY <2>1, <4>2, <4>4 DEF Settled
        <5>5. <<n, p.ent>> \notin astray
              BY <1>10, <3>1, <3>3, <5>4
        <5>6. QED  BY <1>8, <3>3, <4>1, <5>1, <5>2, <5>3, <5>5
      <4>5. QED  BY <4>3, <4>4
    <3>4. QED  BY <3>2, <3>3
  <2>8. Untouched'
    <3>1. SUFFICES ASSUME NEW j \in Device, NEW e \in Entity,
                          \A q \in log'[j] : q.ent # e
                   PROVE  table'[j][e] = NoVal
          BY DEF Untouched
    <3>2. CASE j # n
          BY <1>3, <2>2, <3>1, <3>2 DEF TableInv, Untouched
    <3>3. CASE j = n
          BY <1>3, <2>1, <2>5, <3>1, <3>3 DEF TableInv, Untouched
    <3>4. QED  BY <3>2, <3>3
  <2>9. QED  BY <1>7, <2>7, <2>8 DEF TableInv
<1>11. QED  BY <1>1, <1>9, <1>10

\* Devices with equal clocks and empty buffers hold the same rows.
LEMMA SameClocksSameLog ==
    ASSUME Types, StructInv, OpIdsAgree, NEW n \in Device, NEW m \in Device,
           clock[n] = clock[m], Buffered(n) = {}
    PROVE  log[n] \subseteq log[m]
<1>1. SUFFICES ASSUME NEW o \in log[n]
               PROVE  o \in log[m]
      OBVIOUS
<1>2. /\ o.dev \in Device /\ o.seq \in Int /\ o.seq >= 1
      /\ clock[n][o.dev] \in Int
      BY BoundAssumption DEF Types, DataType, OplogEntry, Seqs, Clocks
<1>3. o.seq \in 1..clock[m][o.dev]
      BY <1>2 DEF Buffered
<1>4. PICK p \in log[m] : p.dev = o.dev /\ p.seq = o.seq
      BY <1>2, <1>3 DEF StructInv, PrefixHeld, HasOp
<1>5. QED  BY <1>4 DEF OpIdsAgree, OpId

LEMMA LibraryAgrees ==
    ASSUME Types, StructInv, OpIdsAgree, TableInv
    PROVE  SameClocksSameLibrary
<1>1. SUFFICES ASSUME NEW n \in Device, NEW m \in Device, NEW e \in Entity,
                      clock[n] = clock[m], Buffered(n) = {}, Buffered(m) = {},
                      <<n, e>> \notin astray, <<m, e>> \notin astray
               PROVE  table[n][e] = table[m][e]
      BY DEF SameClocksSameLibrary
<1>2. log[n] = log[m]
  <2>1. log[n] \subseteq log[m]
        BY <1>1, SameClocksSameLog
  <2>2. log[m] \subseteq log[n]
        BY <1>1, SameClocksSameLog
  <2>3. QED  BY <2>1, <2>2
<1>3. CASE \A o \in log[n] : o.ent # e
  <2>1. Untouched
        BY DEF TableInv
  <2>2. QED  BY <1>2, <1>3, <2>1 DEF Untouched
<1>4. CASE \E o \in log[n] : o.ent = e
  <2>1. PICK p \in log[n] : p.ent = e /\ ShouldApplyLatestMutation(log[n], p)
        BY <1>4 DEF TableInv, HasLatest, EveryEntityHasLatest
  <2>2. p.seq <= clock[n][p.dev] /\ p.seq <= clock[m][p.dev]
    <3>1. p.dev \in Device /\ p.seq \in Int /\ clock[n][p.dev] \in Int
          BY BoundAssumption DEF Types, DataType, OplogEntry, Seqs, Clocks
    <3>2. QED  BY <1>1, <3>1 DEF Buffered
  <2>3. QED  BY <1>1, <1>2, <2>1, <2>2 DEF TableInv, LatestMutationShown
<1>5. QED  BY <1>3, <1>4

\* Every device shows the latest mutation it has applied of each entity, and equal
\* clocks mean equal entities: the order of arrival, batching, aborted sessions and
\* buffering do not matter.  Edits may be stamped by any clock, and remote ops may
\* come between an edit's check and its commit: what such an edit leaves astray is
\* its own entity on its own device, until a later mutation settles it.
THEOREM Convergence == Spec => []Converged
<1>1. Init => TableInv
      BY DEF Init, TableInv, LatestMutationShown, HasLatest, EveryEntityHasLatest, Untouched
<1>2. Types /\ StructInv /\ OpIdsAgree /\ TableInv /\ [Next]_vars => TableInv'
  <2>1. SUFFICES ASSUME Types, StructInv, OpIdsAgree, TableInv, [Next]_vars
                 PROVE  TableInv'
        OBVIOUS
  <2>2. CASE UNCHANGED vars
        BY <2>1, <2>2 DEF vars, TableInv, LatestMutationShown, HasLatest, Untouched
  <2>3. CASE Next
    <3>1. CASE DataSame
          BY <2>1, <3>1 DEF DataSame, data, TableInv, LatestMutationShown, HasLatest, Untouched
    <3>2. ASSUME NEW n \in Device, DataAppend(n) \/ DataInsert(n)
          PROVE  TableInv'
          BY <2>1, <3>2, TableAppend, TableInsert
    <3>3. QED  BY <2>3, <3>1, <3>2, StepKinds
  <2>4. QED  BY <2>1, <2>2, <2>3
<1>3. Types /\ StructInv /\ OpIdsAgree /\ TableInv => Converged
      BY LibraryAgrees DEF TableInv, Converged
<1>4. QED  BY <1>1, <1>2, <1>3, StructCorrect, OpIdsNeverCollide, PTL DEF Spec

-----------------------------------------------------------------------------
(* The catch-up lane: the theorems about CatchupLane.                       *)

-----------------------------------------------------------------------------
(* Least elements.                                                        *)

\* A set of numbers has a least element: among the intervals up to its elements
\* one contains no other, since strict inclusion of finite sets is well-founded.
LEMMA MinProperties ==
    ASSUME NEW T \in SUBSET Nat, T # {}
    PROVE  Min(T) \in T /\ \A y \in T : Min(T) <= y
<1> DEFINE below == {1..x : x \in T}
<1>1. below \subseteq FiniteSubsetsOf(Nat)
  <2>1. SUFFICES ASSUME NEW x \in T PROVE 1..x \in FiniteSubsetsOf(Nat)
        OBVIOUS
  <2>2. IsFiniteSet(1..x)
        BY FS_Interval
  <2>3. QED  BY <2>2 DEF FiniteSubsetsOf
<1>2. below # {}
      OBVIOUS
<1>3. \E X \in below : \A Y \in below : <<Y, X>> \notin StrictSubsetOrdering(Nat)
  <2> HIDE DEF below
  <2>1. QED  BY <1>1, <1>2, FS_StrictSubsetOrderingWellFounded, WFMin
<1>4. PICK x \in T : \A y \in T : <<1..y, 1..x>> \notin StrictSubsetOrdering(Nat)
      BY <1>3
<1>5. ASSUME NEW y \in T, y < x PROVE FALSE
  <2>1. 1..y \subseteq 1..x /\ x \in 1..x /\ x \notin 1..y
        BY <1>5
  <2>2. 1..y \in SUBSET Nat /\ 1..x \in SUBSET Nat /\ 1..y # 1..x
        BY <2>1
  <2>3. <<1..y, 1..x>> \in StrictSubsetOrdering(Nat)
        BY <2>1, <2>2, Zenon DEF StrictSubsetOrdering
  <2>4. QED  BY <1>4, <2>3
<1>6. \A y \in T : x <= y
      BY <1>5
<1>7. QED  BY <1>6 DEF Min

-----------------------------------------------------------------------------
(* The inductive invariant. *)

StopSteps == {<<>>, <<"clear">>, <<"cancel">>, <<"clear", "cancel">>, <<"cancel", "clear">>}

LaneState == [timer : {"nil", "armed", "fired"}, running : BOOLEAN,
              ready : RequestSets, scheduled : RequestSets]

WorkerState == [pc : {"spawned", "running", "ending"}, req : Peers \cup {All},
                covers : SUBSET Peers]

OneOrNone == {<<>>} \cup {<<w>> : w \in WorkerState}

\* The types, with one worker at most on each lane.
StateType ==
    /\ active \in 0..MaxRuntimes /\ attached \in 0..MaxRuntimes /\ active <= attached
    /\ cancelled \subseteq Runtimes
    /\ stopping \in [Runtimes -> StopSteps]
    /\ starting \subseteq Runtimes \X (Runtimes \cup {NoRuntime})
    /\ lane \in [Runtimes -> LaneState]
    /\ fired \in [Runtimes -> Nat]
    /\ workers \in [Runtimes -> OneOrNone]
    /\ handler \in [Peers -> Runtimes \cup {NoRuntime}]
    /\ owed \subseteq Peers /\ failed \subseteq owed
    /\ signals \in 0..MaxEvents /\ failures \in 0..MaxFailures

\* A runtime is stopped only after another one, or none, has become active.
ActiveAlive ==
    /\ \A r \in Runtimes : r > attached => stopping[r] = <<>> /\ r \notin cancelled
    /\ active # NoRuntime => stopping[active] = <<>> /\ active \notin cancelled

\* A lane with a worker is marked, also that of a cancelled runtime, and what a
\* worker covers its request asked for.
Marked(r) ==
    /\ workers[r] # <<>> => lane[r].running
    /\ lane[r].running => workers[r] # <<>> \/ r \in cancelled
    /\ workers[r] # <<>> => \A p \in workers[r][1].covers : Wants(workers[r][1].req, p)

WorkersSound == \A r \in Runtimes : Marked(r)

LaneIndInv == StateType /\ ActiveAlive /\ WorkersSound /\ SignalHeld

-----------------------------------------------------------------------------
(* Sequences of one worker at most, and what a lane holds. *)

LEMMA OneWorkerSeq ==
    ASSUME NEW ws \in OneOrNone
    PROVE  /\ ws = <<>> => Len(ws) = 0
           /\ ws # <<>> => Len(ws) = 1 /\ ws[1] \in WorkerState
           /\ \A i \in 1..Len(ws) :
                 /\ i = 1 /\ ws # <<>>
                 /\ RemoveAt(ws, i) = <<>>
                 /\ \A w : [ws EXCEPT ![i] = w] = <<w>>
           /\ \A w : ws = <<>> => Append(ws, w) = <<w>>
<1>1. CASE ws = <<>>
      BY <1>1
<1>2. ASSUME NEW w \in WorkerState, ws = <<w>>
      PROVE  /\ Len(ws) = 1 /\ ws[1] = w /\ ws # <<>>
             /\ RemoveAt(ws, 1) = <<>>
             /\ \A x : [ws EXCEPT ![1] = x] = <<x>>
  <2>1. Len(ws) = 1 /\ ws[1] = w /\ ws # <<>>
        BY <1>2
  <2>2. RemoveAt(ws, 1) = <<>>
        BY <1>2 DEF RemoveAt
  <2>3. ASSUME NEW x PROVE [ws EXCEPT ![1] = x] = <<x>>
        BY <1>2
  <2>4. QED  BY <2>1, <2>2, <2>3
<1>3. QED  BY <1>1, <1>2 DEF OneOrNone

Asks(set, p) == set.all \/ p \in set.peers
Works(w, p) ==
    \/ w.pc = "spawned" /\ Wants(w.req, p)
    \/ w.pc = "running" /\ p \in w.covers

\* LaneHolds of a lane l with f callbacks and the workers ws.
Holds(l, f, ws, p) ==
    \/ l.running /\ Asks(l.ready, p)
    \/ (l.timer = "armed" \/ f > 0) /\ Asks(l.scheduled, p)
    \/ ws # <<>> /\ Works(ws[1], p)

\* The worker of a lane is the first one of its sequence.
LEMMA OneWorks ==
    ASSUME NEW ws \in OneOrNone, NEW p
    PROVE  (\E i \in 1..Len(ws) : Works(ws[i], p)) <=> ws # <<>> /\ Works(ws[1], p)
<1>1. CASE ws = <<>>
  <2>1. Len(ws) = 0 /\ 1..0 = {}
        BY <1>1, OneWorkerSeq
  <2>2. QED  BY <1>1, <2>1
<1>2. CASE ws # <<>>
  <2>1. Len(ws) = 1 /\ 1..1 = {1}
        BY <1>2, OneWorkerSeq
  <2>2. QED  BY <1>2, <2>1
<1>3. QED  BY <1>1, <1>2

\* What SignalHeld says of the parts of the active lane.
LEMMA HeldNow ==
    ASSUME StateType, SignalHeld, active # NoRuntime, NEW p \in owed \ failed
    PROVE  \/ Starting(active) \/ handler[p] = active
           \/ Holds(lane[active], fired[active], workers[active], p)
<1>1. workers[active] \in OneOrNone
      BY DEF StateType, NoRuntime, Runtimes
<1>2. LaneHolds(active, p) => Holds(lane[active], fired[active], workers[active], p)
      BY <1>1, OneWorks DEF LaneHolds, Holds, Asks, Works
<1>3. QED  BY <1>2 DEF SignalHeld

\* What the parts of the lane must be for SignalHeld to hold in the next state.
LEMMA HeldNext ==
    ASSUME StateType',
           active' # NoRuntime => \A p \in owed' \ failed' :
              \/ Starting(active)' \/ handler'[p] = active'
              \/ Holds(lane'[active'], fired'[active'], workers'[active'], p)
    PROVE  SignalHeld'
<1>1. SUFFICES ASSUME active' # NoRuntime, NEW p \in owed' \ failed',
                      Holds(lane'[active'], fired'[active'], workers'[active'], p)
               PROVE  LaneHolds(active, p)'
      BY DEF SignalHeld
<1>2. workers'[active'] \in OneOrNone
      BY <1>1 DEF StateType, NoRuntime, Runtimes
<1>3. QED  BY <1>1, <1>2, OneWorks DEF LaneHolds, Holds, Asks, Works

\* The request that is popped and the rest are what was asked.
LEMMA PopFacts ==
    ASSUME NEW set \in RequestSets, HasRequests(set)
    PROVE  /\ PopRequest(set) \in Peers \cup {All}
           /\ PopRest(set) \in RequestSets
           /\ \A p : Asks(set, p) => Wants(PopRequest(set), p) \/ Asks(PopRest(set), p)
<1>1. CASE set.peers = {}
      BY <1>1 DEF PopRequest, PopRest, HasRequests, Asks, Wants, RequestSets, NoRequests
<1>2. CASE set.peers # {}
  <2>1. set.peers \in SUBSET Nat
        BY LaneAssumption DEF RequestSets, Peers
  <2>2. Min(set.peers) \in set.peers
        BY <1>2, <2>1, MinProperties
  <2>3. QED  BY <1>2, <2>2 DEF PopRequest, PopRest, Asks, Wants, RequestSets
<1>3. QED  BY <1>1, <1>2

-----------------------------------------------------------------------------
(* The tail shared by the three entry points. *)

LEMMA DispatchFacts ==
    ASSUME StateType, NEW r \in Runtimes, Marked(r),
           NEW l \in LaneState, l.running = lane[r].running, Dispatch(r, l)
    PROVE  \E m \in LaneState, ws \in OneOrNone :
              /\ lane' = [lane EXCEPT ![r] = m]
              /\ workers' = [workers EXCEPT ![r] = ws]
              /\ m.timer = l.timer /\ m.scheduled = l.scheduled
              /\ ws # <<>> => m.running
              /\ m.running => ws # <<>> \/ r \in cancelled
              /\ ws # <<>> => \A p \in ws[1].covers : Wants(ws[1].req, p)
              /\ workers[r] # <<>> => ws = workers[r]
              /\ \A p : Asks(l.ready, p) =>
                    \/ m.running /\ Asks(m.ready, p)
                    \/ ws # <<>> /\ Works(ws[1], p)
<1>0. workers[r] \in OneOrNone /\ workers = [workers EXCEPT ![r] = workers[r]]
      BY DEF StateType
<1>1. CASE l.running \/ ~HasRequests(l.ready)
  <2>1. lane' = [lane EXCEPT ![r] = l] /\ workers' = workers
        BY <1>1 DEF Dispatch
  <2>2. \A p : Asks(l.ready, p) => l.running
        BY <1>1 DEF Asks, HasRequests
  <2>3. QED  BY <1>0, <2>1, <2>2 DEF Marked
<1>2. CASE ~l.running /\ HasRequests(l.ready)
  <2> DEFINE m == [l EXCEPT !.running = TRUE, !.ready = PopRest(@)]
             w == Spawned(PopRequest(l.ready))
  <2>1. workers[r] = <<>>
        BY <1>2 DEF Marked
  <2>2. lane' = [lane EXCEPT ![r] = m] /\ workers' = [workers EXCEPT ![r] = <<w>>]
        BY <1>0, <1>2, <2>1, OneWorkerSeq DEF Dispatch
  <2>3. l.ready \in RequestSets
        BY DEF LaneState
  <2>4. m \in LaneState /\ m.running /\ m.ready = PopRest(l.ready)
        /\ m.timer = l.timer /\ m.scheduled = l.scheduled
        BY <1>2, <2>3, PopFacts DEF LaneState
  <2>5. w \in WorkerState /\ w.pc = "spawned" /\ w.req = PopRequest(l.ready) /\ w.covers = {}
        BY <1>2, <2>3, PopFacts DEF WorkerState, Spawned
  <2>6. <<w>> \in OneOrNone /\ <<w>> # <<>> /\ <<w>>[1] = w
        BY <2>5 DEF OneOrNone
  <2>7. \A p : Asks(l.ready, p) => Asks(m.ready, p) \/ Works(w, p)
        BY <1>2, <2>3, <2>4, <2>5, PopFacts DEF Works
  <2> HIDE DEF m, w
  <2>8. QED  BY <2>1, <2>2, <2>4, <2>5, <2>6, <2>7
<1>3. QED  BY <1>1, <1>2

-----------------------------------------------------------------------------
(* The actions, one lemma each. *)

\* The empty state.
LEMMA LaneFirst == LaneInit => LaneIndInv
<1> SUFFICES ASSUME LaneInit PROVE LaneIndInv
    OBVIOUS
<1>1. StateType
  <2>1. NoRequests \in RequestSets
        BY DEF NoRequests, RequestSets
  <2>2. EmptyLane \in LaneState
        BY <2>1 DEF EmptyLane, LaneState
  <2>3. QED  BY <2>2, LaneAssumption DEF LaneInit, StateType, NoRuntime, OneOrNone, StopSteps
<1>2. ActiveAlive /\ WorkersSound /\ SignalHeld
      BY DEF LaneInit, ActiveAlive, WorkersSound, Marked, SignalHeld, EmptyLane, NoRuntime
<1>3. QED  BY <1>1, <1>2 DEF LaneIndInv

\* syncRuntime: the startup pass of the new runtime is still to come.
LEMMA AttachKeeps == LaneIndInv /\ Attach => LaneIndInv'
<1> SUFFICES ASSUME LaneIndInv, Attach PROVE LaneIndInv'
    OBVIOUS
<1> USE DEF LaneIndInv
<1>1. attached + 1 \in Runtimes /\ active' = attached + 1 /\ active <= attached
      BY LaneAssumption DEF Attach, StateType, Runtimes
<1>2. stopping' \in [Runtimes -> StopSteps]
      BY DEF Attach, StateType, StopSteps
<1>3. StateType'
  <2>1. <<attached + 1, active>> \in Runtimes \X (Runtimes \cup {NoRuntime})
        BY <1>1 DEF StateType, Runtimes, NoRuntime
  <2>2. starting' \subseteq Runtimes \X (Runtimes \cup {NoRuntime})
        BY <2>1 DEF Attach, StateType
  <2>3. attached' \in 0..MaxRuntimes /\ active' \in 0..MaxRuntimes /\ active' <= attached'
        BY <1>1, LaneAssumption DEF Attach, StateType, Runtimes
  <2>4. QED  BY <1>2, <2>2, <2>3 DEF Attach, StateType
<1>4. ActiveAlive'
  <2>1. \A r \in Runtimes : r > attached => stopping'[r] = <<>>
        BY <1>1 DEF Attach, ActiveAlive, StateType
  <2>2. QED  BY <1>1, <2>1 DEF Attach, ActiveAlive, StateType, Runtimes
<1>5. WorkersSound'
      BY DEF Attach, WorkersSound, Marked
<1>6. Starting(active)'
  <2>1. <<attached + 1, active>> \in starting' /\ <<attached + 1, active>>[1] = active'
        BY DEF Attach
  <2>2. QED  BY <2>1 DEF Starting
<1>7. QED  BY <1>3, <1>4, <1>5, <1>6, HeldNext

\* Stop and clearActiveLibraryRuntime: no runtime is left to fetch anything.
LEMMA DetachKeeps == LaneIndInv /\ Detach => LaneIndInv'
<1> SUFFICES ASSUME LaneIndInv, Detach PROVE LaneIndInv'
    OBVIOUS
<1> USE DEF LaneIndInv
<1>1. active \in Runtimes /\ active <= attached /\ active' = NoRuntime
      BY DEF Detach, StateType, NoRuntime, Runtimes
<1>2. stopping' \in [Runtimes -> StopSteps]
      BY DEF Detach, StateType, StopSteps
<1>3. StateType'
      BY <1>1, <1>2, LaneAssumption DEF Detach, StateType, Runtimes, NoRuntime
<1>4. ActiveAlive'
      BY <1>1 DEF Detach, ActiveAlive, StateType, Runtimes
<1>5. WorkersSound'
      BY DEF Detach, WorkersSound, Marked
<1>6. QED  BY <1>1, <1>3, <1>4, <1>5, HeldNext

\* stopRuntime, stopLibraryRuntime: only runtimes that are not active.
LEMMA StopStepKeeps ==
    ASSUME LaneIndInv, NEW r \in Runtimes, StopStep(r)
    PROVE  LaneIndInv'
<1> USE DEF LaneIndInv
<1>1. r # active /\ r <= attached
      BY DEF StopStep, ActiveAlive, NoRuntime, Runtimes, StateType
<1>2. stopping' \in [Runtimes -> StopSteps]
  <2>1. stopping[r] \in StopSteps
        BY DEF StateType
  <2>2. Tail(stopping[r]) \in StopSteps
    <3>1. /\ Tail(<<"clear">>) = <<>> /\ Tail(<<"clear", "cancel">>) = <<"cancel">>
          /\ Tail(<<"cancel">>) = <<>> /\ Tail(<<"cancel", "clear">>) = <<"clear">>
          OBVIOUS
    <3>2. QED  BY <2>1, <3>1 DEF StopStep, StopSteps
  <2>3. QED  BY <2>2 DEF StopStep, StateType
<1>3. /\ lane' \in [Runtimes -> LaneState] /\ \A q \in Runtimes \ {r} : lane'[q] = lane[q]
      /\ lane'[r].running = lane[r].running
  <2>1. Cleared(lane[r]) \in LaneState /\ Cleared(lane[r]).running = lane[r].running
        BY DEF StateType, Cleared, LaneState, NoRequests, RequestSets
  <2>2. CASE lane' = lane
        BY <2>2 DEF StateType
  <2>3. CASE lane' = [lane EXCEPT ![r] = Cleared(@)]
        BY <2>1, <2>3 DEF StateType
  <2>4. QED  BY <2>2, <2>3 DEF StopStep
<1>4. StateType'
      BY <1>2, <1>3 DEF StopStep, StateType
<1>5. ActiveAlive'
      BY <1>1 DEF StopStep, ActiveAlive, StateType, Runtimes, NoRuntime
<1>6. WorkersSound'
      BY <1>3 DEF StopStep, WorkersSound, Marked
<1>7. SignalHeld'
  <2>1. SUFFICES ASSUME active # NoRuntime, NEW p \in owed \ failed
                 PROVE  \/ Starting(active) \/ handler[p] = active
                        \/ Holds(lane'[active], fired[active], workers[active], p)
        BY <1>4, HeldNext DEF StopStep, Starting
  <2>2. lane'[active] = lane[active]
        BY <1>1, <1>3, <2>1 DEF StateType, Runtimes, NoRuntime
  <2>3. QED  BY <2>1, <2>2, HeldNow
<1>8. QED  BY <1>4, <1>5, <1>6, <1>7

\* A critical section that ends in the shared tail keeps what is owed in the
\* lane, if nothing the lane held is left out of what is ready now.
LEMMA DispatchKeeps ==
    ASSUME LaneIndInv, NEW r \in Runtimes, NEW l \in LaneState,
           l.running = lane[r].running, Dispatch(r, l),
           UNCHANGED <<active, attached, cancelled, stopping, handler, owed, failed,
                       signals, failures>>,
           starting' \subseteq starting, fired' \in [Runtimes -> Nat],
           \A q \in Runtimes \ {r} : fired'[q] = fired[q],
           r # active => (Starting(active) => Starting(active)'),
           r = active => \A p : \/ Asks(l.ready, p)
                                \/ /\ Starting(active) => Starting(active)'
                                   /\ ~Asks(lane[r].ready, p) /\ ~Asks(lane[r].scheduled, p)
    PROVE  LaneIndInv'
<1> USE DEF LaneIndInv
<1>1. Marked(r)
      BY DEF WorkersSound
<1>2. PICK m \in LaneState, ws \in OneOrNone :
              /\ lane' = [lane EXCEPT ![r] = m]
              /\ workers' = [workers EXCEPT ![r] = ws]
              /\ m.timer = l.timer /\ m.scheduled = l.scheduled
              /\ ws # <<>> => m.running
              /\ m.running => ws # <<>> \/ r \in cancelled
              /\ ws # <<>> => \A p \in ws[1].covers : Wants(ws[1].req, p)
              /\ workers[r] # <<>> => ws = workers[r]
              /\ \A p : Asks(l.ready, p) =>
                    \/ m.running /\ Asks(m.ready, p)
                    \/ ws # <<>> /\ Works(ws[1], p)
      BY <1>1, DispatchFacts
<1>3. /\ lane \in [Runtimes -> LaneState] /\ workers \in [Runtimes -> OneOrNone]
      /\ lane'[r] = m /\ workers'[r] = ws
      /\ \A q \in Runtimes \ {r} : lane'[q] = lane[q] /\ workers'[q] = workers[q]
      BY <1>2 DEF StateType
<1>4. StateType'
      BY <1>2, <1>3 DEF StateType
<1>5. ActiveAlive'
      BY DEF ActiveAlive
<1>6. WorkersSound'
  <2>1. ASSUME NEW q \in Runtimes PROVE Marked(q)'
    <3>1. CASE q = r
          BY <1>2, <1>3, <3>1 DEF Marked
    <3>2. CASE q # r
          BY <1>3, <3>2 DEF Marked, WorkersSound
    <3>3. QED  BY <3>1, <3>2
  <2>2. QED  BY <2>1 DEF WorkersSound
<1>7. SignalHeld'
  <2>1. SUFFICES ASSUME active # NoRuntime, NEW p \in owed \ failed
                 PROVE  \/ Starting(active)' \/ handler[p] = active
                        \/ Holds(lane'[active], fired'[active], workers'[active], p)
        BY <1>4, HeldNext DEF Starting
  <2>2. \/ Starting(active) \/ handler[p] = active
        \/ Holds(lane[active], fired[active], workers[active], p)
        BY <2>1, HeldNow
  <2>3. CASE r # active
    <3>1. /\ active \in Runtimes \ {r}
          BY <2>1, <2>3 DEF StateType, Runtimes, NoRuntime
    <3>2. QED  BY <1>3, <2>2, <2>3, <3>1
  <2>4. CASE r = active /\ Asks(l.ready, p)
        BY <1>2, <1>3, <2>4 DEF Holds
  <2>5. CASE r = active /\ ~Asks(l.ready, p)
        BY <1>2, <1>3, <2>2, <2>5 DEF Holds
  <2>6. QED  BY <2>3, <2>4, <2>5
<1>8. QED  BY <1>4, <1>5, <1>6, <1>7

\* ImmediateAll asks for every peer.
LEMMA ImmediateAllFacts ==
    ASSUME NEW l \in LaneState
    PROVE  /\ ImmediateAll(l) \in LaneState
           /\ ImmediateAll(l).running = l.running
           /\ \A p : Asks(ImmediateAll(l).ready, p)
BY DEF ImmediateAll, LaneState, Merge, RequestSets, NoRequests, Asks

\* The end of syncRuntime.
LEMMA StartupKeeps ==
    ASSUME LaneIndInv, NEW r \in Runtimes, Startup(r)
    PROVE  LaneIndInv'
<1> USE DEF LaneIndInv
<1>1. lane[r] \in LaneState
      BY DEF StateType
<1>2. PICK call \in starting : call[1] = r /\ starting' = starting \ {call}
      BY DEF Startup
<1>3. r # active => (Starting(active) => Starting(active)')
      BY <1>2 DEF Starting, Startup
<1>4. fired' \in [Runtimes -> Nat]
      BY DEF Startup, StateType
<1> DEFINE l == ImmediateAll(lane[r])
<1>5. l \in LaneState /\ l.running = lane[r].running /\ \A p : Asks(l.ready, p)
      BY <1>1, ImmediateAllFacts
<1>6. Dispatch(r, l)
      BY DEF Startup
<1> HIDE DEF l
<1>7. QED  BY <1>2, <1>3, <1>4, <1>5, <1>6, DispatchKeeps DEF Startup

\* A tick of the background loop.
LEMMA TickKeeps ==
    ASSUME LaneIndInv, NEW r \in Runtimes, Tick(r)
    PROVE  LaneIndInv'
<1> USE DEF LaneIndInv
<1>1. lane[r] \in LaneState
      BY DEF StateType
<1>2. fired' \in [Runtimes -> Nat]
      BY DEF Tick, StateType
<1> DEFINE l == ImmediateAll(lane[r])
<1>3. l \in LaneState /\ l.running = lane[r].running /\ \A p : Asks(l.ready, p)
      BY <1>1, ImmediateAllFacts
<1>4. Dispatch(r, l)
      BY DEF Tick
<1> HIDE DEF l
<1>5. QED  BY <1>2, <1>3, <1>4, DispatchKeeps DEF Tick, laneVars

\* A timer callback: what was scheduled is ready now.
LEMMA TriggerKeeps ==
    ASSUME LaneIndInv, NEW r \in Runtimes, Trigger(r)
    PROVE  LaneIndInv'
<1> USE DEF LaneIndInv
<1>1. lane[r] \in LaneState /\ fired[r] \in Nat
      BY DEF StateType
<1>2. fired' \in [Runtimes -> Nat] /\ \A q \in Runtimes \ {r} : fired'[q] = fired[q]
      BY <1>1 DEF Trigger, StateType
<1> DEFINE l == Triggered(lane[r])
<1>3. /\ l \in LaneState /\ l.running = lane[r].running
      /\ \A p : Asks(lane[r].ready, p) \/ Asks(lane[r].scheduled, p) => Asks(l.ready, p)
  <2>1. MergeSets(lane[r].ready, lane[r].scheduled) \in RequestSets
        BY <1>1 DEF LaneState, MergeSets, Merge, RequestSets
  <2>2. \A p : Asks(lane[r].ready, p) \/ Asks(lane[r].scheduled, p)
                  => Asks(MergeSets(lane[r].ready, lane[r].scheduled), p)
        BY <1>1 DEF LaneState, MergeSets, Merge, RequestSets, Asks
  <2>3. QED  BY <1>1, <2>1, <2>2 DEF Triggered, LaneState, NoRequests, RequestSets
<1>4. Dispatch(r, l)
      BY DEF Trigger
<1> HIDE DEF l
<1>5. Starting(active)' <=> Starting(active)
      BY DEF Trigger, laneVars, Starting
<1>6. QED  BY <1>2, <1>3, <1>4, <1>5, DispatchKeeps DEF Trigger, laneVars

\* The timer expires: the callback takes over from it.
LEMMA FireKeeps ==
    ASSUME LaneIndInv, NEW r \in Runtimes, Fire(r)
    PROVE  LaneIndInv'
<1> USE DEF LaneIndInv
<1>1. /\ lane[r] \in LaneState /\ fired[r] \in Nat
      /\ lane' = [lane EXCEPT ![r] = [lane[r] EXCEPT !.timer = "fired"]]
      BY DEF Fire, StateType
<1>2. /\ lane' \in [Runtimes -> LaneState]
      /\ fired' \in [Runtimes -> Nat]
      /\ lane'[r] = [lane[r] EXCEPT !.timer = "fired"] /\ fired'[r] = fired[r] + 1
      /\ \A q \in Runtimes \ {r} : lane'[q] = lane[q] /\ fired'[q] = fired[q]
      BY <1>1 DEF Fire, StateType, LaneState
<1>3. StateType'
      BY <1>2 DEF Fire, StateType, laneVars
<1>4. ActiveAlive'
      BY DEF ActiveAlive, Fire, laneVars
<1>5. \A q \in Runtimes : lane'[q].running = lane[q].running
      BY <1>1, <1>2 DEF LaneState
<1>6. WorkersSound'
      BY <1>5 DEF Fire, WorkersSound, Marked, laneVars
<1>7. SignalHeld'
  <2>1. SUFFICES ASSUME active # NoRuntime, NEW p \in owed \ failed
                 PROVE  \/ Starting(active) \/ handler[p] = active
                        \/ Holds(lane'[active], fired'[active], workers[active], p)
        BY <1>3, HeldNext DEF Starting, Fire, laneVars
  <2>2. active \in Runtimes
        BY <2>1 DEF StateType, Runtimes, NoRuntime
  <2>3. \/ Starting(active) \/ handler[p] = active
        \/ Holds(lane[active], fired[active], workers[active], p)
        BY <2>1, HeldNow
  <2>4. CASE r = active
        BY <1>1, <1>2, <2>3, <2>4 DEF Holds, LaneState
  <2>5. CASE r # active
        BY <1>2, <2>2, <2>3, <2>5
  <2>6. QED  BY <2>4, <2>5
<1>8. QED  BY <1>3, <1>4, <1>6, <1>7

\* A delayed request arms the timer of its lane and drops nothing.
LEMMA DelayedFacts ==
    ASSUME NEW l \in LaneState, NEW req \in Peers \cup {All}
    PROVE  /\ Delayed(l, req) \in LaneState
           /\ Delayed(l, req).running = l.running /\ Delayed(l, req).ready = l.ready
           /\ Delayed(l, req).timer = "armed"
           /\ \A p : Asks(l.scheduled, p) => Asks(Delayed(l, req).scheduled, p)
           /\ \A p : Wants(req, p) => Asks(Delayed(l, req).scheduled, p)
BY DEF Delayed, LaneState, Merge, RequestSets, Asks, Wants

\* The handler queues its peer on the runtime it chose.
LEMMA QueueSignalKeeps ==
    ASSUME LaneIndInv, NEW p \in Peers, QueueSignal(p)
    PROVE  LaneIndInv'
<1> USE DEF LaneIndInv
<1> DEFINE r == handler[p]
<1>1. r \in Runtimes /\ lane[r] \in LaneState
      BY DEF QueueSignal, StateType
<1>2. PICK req \in {p, All} : lane' = [lane EXCEPT ![r] = Delayed(@, req)]
      BY DEF QueueSignal
<1>3. req \in Peers \cup {All} /\ Wants(req, p)
      BY DEF Wants
<1> DEFINE m == Delayed(lane[r], req)
<1>4. /\ m \in LaneState /\ m.running = lane[r].running /\ m.ready = lane[r].ready
      /\ m.timer = "armed"
      /\ \A q : Asks(lane[r].scheduled, q) => Asks(m.scheduled, q)
      /\ Asks(m.scheduled, p)
      BY <1>1, <1>3, DelayedFacts
<1>5. /\ lane' \in [Runtimes -> LaneState] /\ lane'[r] = m
      /\ \A q \in Runtimes \ {r} : lane'[q] = lane[q]
      BY <1>1, <1>2, <1>4 DEF StateType
<1>6. /\ handler' \in [Peers -> Runtimes \cup {NoRuntime}]
      /\ \A q \in Peers \ {p} : handler'[q] = handler[q]
      BY DEF QueueSignal, StateType
<1>7. UNCHANGED <<active, attached, cancelled, stopping, starting, fired, workers, owed,
                  failed, signals, failures>>
      BY DEF QueueSignal, laneVars
<1> HIDE DEF m
<1>8. StateType'
      BY <1>5, <1>6, <1>7 DEF StateType
<1>9. ActiveAlive'
      BY <1>7 DEF ActiveAlive
<1>10. WorkersSound'
  <2>1. \A q \in Runtimes : lane'[q].running = lane[q].running
        BY <1>4, <1>5
  <2>2. QED  BY <1>7, <2>1 DEF WorkersSound, Marked
<1>11. SignalHeld'
  <2>1. SUFFICES ASSUME active # NoRuntime, NEW q \in owed \ failed
                 PROVE  \/ Starting(active) \/ handler'[q] = active
                        \/ Holds(lane'[active], fired[active], workers[active], q)
        BY <1>7, <1>8, HeldNext DEF Starting
  <2>2. active \in Runtimes /\ q \in Peers
        BY <2>1 DEF StateType, Runtimes, NoRuntime
  <2>3. \/ Starting(active) \/ handler[q] = active
        \/ Holds(lane[active], fired[active], workers[active], q)
        BY <2>1, HeldNow
  <2>4. CASE handler[q] = active
    <3>1. CASE q = p
          BY <1>4, <1>5, <2>4, <3>1 DEF Holds
    <3>2. CASE q # p
          BY <1>6, <2>2, <2>4, <3>2
    <3>3. QED  BY <3>1, <3>2
  <2>5. CASE Holds(lane[active], fired[active], workers[active], q)
    <3>1. CASE r = active
          BY <1>4, <1>5, <2>5, <3>1 DEF Holds
    <3>2. CASE r # active
          BY <1>5, <2>2, <2>5, <3>2
    <3>3. QED  BY <3>1, <3>2
  <2>6. QED  BY <2>3, <2>4, <2>5
<1>12. QED  BY <1>8, <1>9, <1>10, <1>11

\* What a signal does to the worker of a lane: p is no longer covered.
Uncovered(ws, p) == [i \in 1..Len(ws) |-> [ws[i] EXCEPT !.covers = @ \ {p}]]

\* The worker stays, and asks for what it asked for.
LEMMA UncoverFacts ==
    ASSUME NEW ws \in OneOrNone, NEW p
    PROVE  /\ Uncovered(ws, p) \in OneOrNone
           /\ ws = <<>> => Uncovered(ws, p) = <<>>
           /\ ws # <<>> => /\ Uncovered(ws, p) # <<>>
                           /\ Uncovered(ws, p)[1] = [ws[1] EXCEPT !.covers = @ \ {p}]
<1> DEFINE new == Uncovered(ws, p)
<1>1. CASE ws = <<>>
      BY <1>1 DEF OneOrNone, Uncovered
<1>2. ASSUME NEW w \in WorkerState, ws = <<w>>
      PROVE  /\ new \in OneOrNone /\ new # <<>> /\ new[1] = [w EXCEPT !.covers = @ \ {p}]
             /\ ws[1] = w /\ ws # <<>>
  <2> DEFINE x == [w EXCEPT !.covers = @ \ {p}]
  <2>1. Len(ws) = 1 /\ ws[1] = w /\ 1..1 = {1} /\ ws # <<>>
        BY <1>2
  <2>2. x \in WorkerState
        BY DEF WorkerState
  <2>3. new = [i \in {1} |-> x]
        BY <2>1 DEF Uncovered
  <2> HIDE DEF x, new
  <2>4. [i \in {1} |-> x] = <<x>> /\ <<x>>[1] = x /\ <<x>> # <<>>
        OBVIOUS
  <2>5. new = <<x>>
        BY <2>3, <2>4
  <2>6. new \in OneOrNone /\ new # <<>> /\ new[1] = x
        BY <2>2, <2>4, <2>5 DEF OneOrNone
  <2>7. QED  BY <2>1, <2>6 DEF x, new
<1>3. QED  BY <1>1, <1>2 DEF OneOrNone

\* A change signal: its handler is about to queue it on the active runtime.
LEMMA ReceiveSignalKeeps ==
    ASSUME LaneIndInv, NEW p \in Peers, NEW r \in Runtimes, ReceiveSignal(p, r)
    PROVE  LaneIndInv'
<1> USE DEF LaneIndInv
<1> DEFINE target == IF active # NoRuntime /\ active \notin cancelled THEN active ELSE r
<1>1. target \in Runtimes /\ (active # NoRuntime => target = active)
      BY DEF StateType, ActiveAlive, Runtimes, NoRuntime
<1>2. handler' = [handler EXCEPT ![p] = target] /\ owed' = owed \cup {p} /\ failed' = failed \ {p}
      BY DEF ReceiveSignal
<1>3. UNCHANGED <<active, attached, cancelled, stopping, starting, lane, fired, failures>>
      BY DEF ReceiveSignal, laneVars
<1> HIDE DEF target
<1>4. ASSUME NEW q \in Runtimes
      PROVE  /\ workers'[q] \in OneOrNone
             /\ workers[q] = <<>> => workers'[q] = <<>>
             /\ workers[q] # <<>> =>
                   /\ workers'[q] # <<>>
                   /\ workers'[q][1] = [workers[q][1] EXCEPT !.covers = @ \ {p}]
                   /\ workers[q][1] \in WorkerState
  <2>1. workers[q] \in OneOrNone
        BY DEF StateType
  <2>2. workers'[q] = [i \in 1..Len(workers[q]) |-> [workers[q][i] EXCEPT !.covers = @ \ {p}]]
        BY DEF ReceiveSignal
  <2>3. workers'[q] = Uncovered(workers[q], p)
        BY <2>2 DEF Uncovered
  <2>4. workers[q] # <<>> => workers[q][1] \in WorkerState
        BY <2>1, OneWorkerSeq
  <2>5. QED  BY <2>1, <2>3, <2>4, UncoverFacts
<1>5. workers' \in [Runtimes -> OneOrNone]
  <2>1. workers' = [q \in Runtimes |-> workers'[q]]
        BY DEF ReceiveSignal
  <2>2. QED  BY <1>4, <2>1
<1>6. StateType'
  <2>1. signals' \in 0..MaxEvents
        BY LaneAssumption DEF ReceiveSignal, StateType
  <2>2. QED  BY <1>1, <1>2, <1>3, <1>5, <2>1 DEF StateType
<1>7. ActiveAlive'
      BY <1>3 DEF ActiveAlive
<1>8. WorkersSound'
  <2>1. ASSUME NEW q \in Runtimes PROVE Marked(q)'
        BY <1>3, <1>4 DEF WorkersSound, Marked, WorkerState
  <2>2. QED  BY <2>1 DEF WorkersSound
<1>9. SignalHeld'
  <2>1. SUFFICES ASSUME active # NoRuntime, NEW q \in owed' \ failed'
                 PROVE  \/ Starting(active) \/ handler'[q] = active
                        \/ Holds(lane[active], fired[active], workers'[active], q)
        BY <1>3, <1>6, HeldNext DEF Starting
  <2>2. active \in Runtimes
        BY <2>1 DEF StateType, Runtimes, NoRuntime
  <2>3. CASE q = p
        BY <1>1, <1>2, <2>1, <2>3 DEF StateType
  <2>4. CASE q # p
    <3>1. \/ Starting(active) \/ handler[q] = active
          \/ Holds(lane[active], fired[active], workers[active], q)
          BY <1>2, <2>1, <2>4, HeldNow
    <3>2. handler[q] = active => handler'[q] = active
          BY <1>2, <2>4, <2>1 DEF StateType
    <3>3. QED  BY <1>4, <2>2, <2>4, <3>1, <3>2 DEF Holds, Works, WorkerState
  <2>5. QED  BY <2>3, <2>4
<1>10. QED  BY <1>6, <1>7, <1>8, <1>9

-----------------------------------------------------------------------------
(* The worker's steps. *)

\* A step of the worker of lane r keeps the invariant if the lane stays marked
\* and every peer that is owed after it is held by the lane as before.
LEMMA WorkerKeeps ==
    ASSUME LaneIndInv, NEW r \in Runtimes, NEW m \in LaneState, NEW ws \in OneOrNone,
           lane' = [lane EXCEPT ![r] = m], workers' = [workers EXCEPT ![r] = ws],
           UNCHANGED <<laneVars, fired, handler, signals>>,
           failures' \in 0..MaxFailures, owed' \subseteq owed, failed' \subseteq owed',
           ws # <<>> => m.running,
           m.running => ws # <<>> \/ r \in cancelled,
           ws # <<>> => \A p \in ws[1].covers : Wants(ws[1].req, p),
           \A p \in owed' \ failed' :
              \/ r = active /\ Holds(m, fired[r], ws, p)
              \/ /\ p \in owed \ failed
                 /\ r = active /\ Holds(lane[r], fired[r], workers[r], p)
                       => Holds(m, fired[r], ws, p)
    PROVE  LaneIndInv'
<1> USE DEF LaneIndInv
<1>1. /\ lane \in [Runtimes -> LaneState] /\ workers \in [Runtimes -> OneOrNone]
      /\ lane'[r] = m /\ workers'[r] = ws
      /\ \A q \in Runtimes \ {r} : lane'[q] = lane[q] /\ workers'[q] = workers[q]
      BY DEF StateType
<1>2. StateType'
      BY <1>1 DEF StateType, laneVars
<1>3. ActiveAlive'
      BY DEF ActiveAlive, laneVars
<1>4. WorkersSound'
  <2>1. ASSUME NEW q \in Runtimes PROVE Marked(q)'
    <3>1. CASE q = r
          BY <1>1, <3>1 DEF Marked, laneVars
    <3>2. CASE q # r
          BY <1>1, <3>2 DEF Marked, WorkersSound, laneVars
    <3>3. QED  BY <3>1, <3>2
  <2>2. QED  BY <2>1 DEF WorkersSound
<1>5. SignalHeld'
  <2>1. SUFFICES ASSUME active # NoRuntime, NEW p \in owed' \ failed'
                 PROVE  \/ Starting(active) \/ handler[p] = active
                        \/ Holds(lane'[active], fired[active], workers'[active], p)
        BY <1>2, HeldNext DEF Starting, laneVars
  <2>2. active \in Runtimes
        BY <2>1 DEF StateType, Runtimes, NoRuntime
  <2>3. CASE r = active /\ Holds(m, fired[r], ws, p)
        BY <1>1, <2>3
  <2>4. CASE /\ p \in owed \ failed
             /\ r = active /\ Holds(lane[r], fired[r], workers[r], p)
                   => Holds(m, fired[r], ws, p)
    <3>1. \/ Starting(active) \/ handler[p] = active
          \/ Holds(lane[active], fired[active], workers[active], p)
          BY <2>1, <2>4, HeldNow
    <3>2. QED  BY <1>1, <2>2, <2>4, <3>1
  <2>5. QED  BY <2>3, <2>4
<1>6. QED  BY <1>2, <1>3, <1>4, <1>5

\* The worker a step is about: the lane's only one.
WithWorker(r, i, w) == [workers EXCEPT ![r] = [workers[r] EXCEPT ![i] = w]]
WithOnly(r, w) == [workers EXCEPT ![r] = <<w>>]

OnlyWorker(r, i) ==
    /\ i = 1 /\ workers[r] # <<>> /\ workers[r][1] \in WorkerState
    /\ RemoveAt(workers[r], i) = <<>>
    /\ \A w : WithWorker(r, i, w) = WithOnly(r, w)
    /\ lane[r] \in LaneState /\ lane = [lane EXCEPT ![r] = lane[r]] /\ lane[r].running
    /\ r = active => r \notin cancelled
    /\ \A p \in workers[r][1].covers : Wants(workers[r][1].req, p)

\* Every step of a worker is one of the lane's only worker.
LEMMA WorkerFacts ==
    ASSUME LaneIndInv, NEW r \in Runtimes, NEW i \in 1..Len(workers[r])
    PROVE  OnlyWorker(r, i)
<1> USE DEF LaneIndInv
<1>1. workers[r] \in OneOrNone
      BY DEF StateType
<1>2. /\ i = 1 /\ workers[r] # <<>> /\ workers[r][1] \in WorkerState
      /\ RemoveAt(workers[r], i) = <<>>
      /\ \A w : [workers[r] EXCEPT ![i] = w] = <<w>>
      BY <1>1, OneWorkerSeq
<1>3. Marked(r)
      BY DEF WorkersSound
<1>4. lane[r] \in LaneState /\ lane = [lane EXCEPT ![r] = lane[r]]
      BY DEF StateType
<1>5. r = active => r \notin cancelled
      BY DEF ActiveAlive, NoRuntime, Runtimes
<1>6. \A w : WithWorker(r, i, w) = WithOnly(r, w)
      BY <1>2 DEF WithWorker, WithOnly
<1>7. QED  BY <1>2, <1>3, <1>4, <1>5, <1>6 DEF Marked, OnlyWorker

\* A sequence of one worker.
LEMMA SingleFacts ==
    ASSUME NEW w \in WorkerState
    PROVE  /\ <<w>> \in OneOrNone /\ <<w>> # <<>> /\ <<w>>[1] = w
BY DEF OneOrNone

\* The worker looks at the active runtime and starts its pass.
LEMMA StartPassKeeps ==
    ASSUME LaneIndInv, NEW r \in Runtimes, NEW i \in 1..Len(workers[r]), StartPass(r, i)
    PROVE  LaneIndInv'
<1> DEFINE w == workers[r][1]
           covers == {p \in owed : Wants(w.req, p)}
<1>1. /\ i = 1 /\ workers[r] # <<>> /\ w \in WorkerState /\ w.pc = "spawned"
      /\ lane[r] \in LaneState /\ lane = [lane EXCEPT ![r] = lane[r]] /\ lane[r].running
      /\ r = active => r \notin cancelled
      /\ \A p \in w.covers : Wants(w.req, p)
      /\ \A y : WithWorker(r, i, y) = WithOnly(r, y)
  <2>1. OnlyWorker(r, i)
        BY WorkerFacts
  <2>2. w.pc = "spawned"
        BY <2>1 DEF StartPass, OnlyWorker
  <2>3. QED  BY <2>1, <2>2 DEF OnlyWorker
<1>2. owed \subseteq Peers /\ failed \subseteq owed /\ failures \in 0..MaxFailures
      BY DEF LaneIndInv, StateType
<1>3. UNCHANGED <<laneVars, fired, handler, signals, failures, owed, lane>>
      BY DEF StartPass
<1>4. CASE r = active /\ r \notin cancelled
  <2> DEFINE x == [w EXCEPT !.pc = "running", !.covers = covers]
  <2>1. workers' = [workers EXCEPT ![r] = <<x>>] /\ failed' = failed \ covers
    <3>1. workers' = WithWorker(r, i, x) /\ failed' = failed \ covers
          BY <1>1, <1>4 DEF StartPass, WithWorker
    <3>2. QED  BY <1>1, <3>1 DEF WithOnly
  <2>2. x \in WorkerState /\ x.pc = "running" /\ x.req = w.req /\ x.covers = covers
        BY <1>1, <1>2 DEF WorkerState
  <2> HIDE DEF x
  <2>3. <<x>> \in OneOrNone /\ <<x>> # <<>> /\ <<x>>[1] = x
        BY <2>2, SingleFacts
  <2>4. ASSUME NEW p \in owed \ (failed \ covers)
        PROVE  \/ Holds(lane[r], fired[r], <<x>>, p)
               \/ /\ p \in owed \ failed
                  /\ Holds(lane[r], fired[r], workers[r], p) => Holds(lane[r], fired[r], <<x>>, p)
    <3>1. CASE p \in covers
          BY <2>2, <2>3, <3>1 DEF Holds, Works
    <3>2. CASE p \notin covers
          BY <1>1, <2>3, <2>4, <3>2 DEF Holds, Works
    <3>3. QED  BY <3>1, <3>2
  <2>5. QED
        BY <1>1, <1>2, <1>3, <1>4, <2>1, <2>2, <2>3, <2>4, WorkerKeeps
<1>5. CASE ~(r = active /\ r \notin cancelled)
  <2> DEFINE x == [w EXCEPT !.pc = "ending"]
  <2>1. workers' = [workers EXCEPT ![r] = <<x>>] /\ failed' = failed
    <3>1. workers' = WithWorker(r, i, x) /\ failed' = failed
          BY <1>1, <1>5 DEF StartPass, WithWorker
    <3>2. QED  BY <1>1, <3>1 DEF WithOnly
  <2>2. x \in WorkerState /\ x.req = w.req /\ x.covers = w.covers
        BY <1>1 DEF WorkerState
  <2> HIDE DEF x
  <2>3. <<x>> \in OneOrNone /\ <<x>> # <<>> /\ <<x>>[1] = x
        BY <2>2, SingleFacts
  <2>4. r # active
        BY <1>1, <1>5
  <2>5. QED
        BY <1>1, <1>2, <1>3, <2>1, <2>2, <2>3, <2>4, WorkerKeeps
<1>6. QED  BY <1>4, <1>5

\* A pass that succeeds settles what it covered.
LEMMA PassSucceedsKeeps ==
    ASSUME LaneIndInv, NEW r \in Runtimes, NEW i \in 1..Len(workers[r]), PassSucceeds(r, i)
    PROVE  LaneIndInv'
<1> DEFINE w == workers[r][1]
           x == [w EXCEPT !.pc = "ending", !.covers = {}]
<1>1. /\ i = 1 /\ workers[r] # <<>> /\ w \in WorkerState /\ w.pc = "running"
      /\ lane[r] \in LaneState /\ lane = [lane EXCEPT ![r] = lane[r]] /\ lane[r].running
      /\ \A y : WithWorker(r, i, y) = WithOnly(r, y)
  <2>1. OnlyWorker(r, i)
        BY WorkerFacts
  <2>2. w.pc = "running"
        BY <2>1 DEF PassSucceeds, OnlyWorker
  <2>3. QED  BY <2>1, <2>2 DEF OnlyWorker
<1>2. owed \subseteq Peers /\ failed \subseteq owed /\ failures \in 0..MaxFailures
      BY DEF LaneIndInv, StateType
<1>3. UNCHANGED <<laneVars, fired, handler, signals, failures, lane>>
      BY DEF PassSucceeds
<1>4. /\ workers' = [workers EXCEPT ![r] = <<x>>]
      /\ owed' = owed \ w.covers /\ failed' = failed \ w.covers
  <2>1. workers' = WithWorker(r, i, x)
        BY <1>1 DEF PassSucceeds, WithWorker
  <2>2. QED  BY <1>1, <2>1 DEF WithOnly, PassSucceeds
<1>5. x \in WorkerState /\ x.covers = {}
      BY <1>1 DEF WorkerState
<1> HIDE DEF x
<1>6. <<x>> \in OneOrNone /\ <<x>> # <<>> /\ <<x>>[1] = x
      BY <1>5, SingleFacts
<1>7. ASSUME NEW p \in owed' \ failed'
      PROVE  /\ p \in owed \ failed
             /\ Holds(lane[r], fired[r], workers[r], p) => Holds(lane[r], fired[r], <<x>>, p)
      BY <1>1, <1>4, <1>7 DEF Holds, Works
<1>8. QED  BY <1>1, <1>2, <1>3, <1>4, <1>5, <1>6, <1>7, WorkerKeeps

\* A pass that fails leaves what it covered failed, or queues it again.
LEMMA PassFailsKeeps ==
    ASSUME LaneIndInv, NEW r \in Runtimes, NEW i \in 1..Len(workers[r]), PassFails(r, i)
    PROVE  LaneIndInv'
<1> DEFINE w == workers[r][1]
           x == [w EXCEPT !.pc = "ending", !.covers = {}]
<1>1. /\ i = 1 /\ workers[r] # <<>> /\ w \in WorkerState /\ w.pc = "running"
      /\ lane[r] \in LaneState /\ lane = [lane EXCEPT ![r] = lane[r]] /\ lane[r].running
      /\ \A p \in w.covers : Wants(w.req, p)
      /\ \A y : WithWorker(r, i, y) = WithOnly(r, y)
  <2>1. OnlyWorker(r, i)
        BY WorkerFacts
  <2>2. w.pc = "running"
        BY <2>1 DEF PassFails, OnlyWorker
  <2>3. QED  BY <2>1, <2>2 DEF OnlyWorker
<1>2. owed \subseteq Peers /\ failed \subseteq owed /\ failures \in 0..MaxFailures
      BY DEF LaneIndInv, StateType
<1>3. UNCHANGED <<laneVars, fired, handler, signals>> /\ failures' \in 0..MaxFailures
      BY <1>2, LaneAssumption DEF PassFails
<1>4. workers' = [workers EXCEPT ![r] = <<x>>]
  <2>1. workers' = WithWorker(r, i, x)
        BY <1>1 DEF PassFails, WithWorker
  <2>2. QED  BY <1>1, <2>1 DEF WithOnly
<1>5. x \in WorkerState /\ x.covers = {} /\ x.pc = "ending"
      BY <1>1 DEF WorkerState
<1>6. PICK served \in SUBSET w.covers :
         /\ w.req # All => served = {}
         /\ owed' = owed \ served
         /\ \/ /\ failed' = IF r = active THEN (failed \cup w.covers) \cap (owed \ served)
                                          ELSE failed \ served
               /\ UNCHANGED lane
            \/ /\ w.req # All /\ r \notin cancelled
               /\ lane' = [lane EXCEPT ![r] = Delayed(@, w.req)]
               /\ UNCHANGED failed
      BY <1>1 DEF PassFails
<1> HIDE DEF x
<1>7. <<x>> \in OneOrNone /\ <<x>> # <<>> /\ <<x>>[1] = x
      BY <1>5, SingleFacts
<1>8. CASE /\ failed' = IF r = active THEN (failed \cup w.covers) \cap (owed \ served)
                                      ELSE failed \ served
           /\ UNCHANGED lane
  <2>1. ASSUME NEW p \in owed' \ failed'
        PROVE  /\ p \in owed \ failed
               /\ r = active /\ Holds(lane[r], fired[r], workers[r], p)
                     => Holds(lane[r], fired[r], <<x>>, p)
        BY <1>1, <1>6, <1>8, <2>1 DEF Holds, Works
  <2>2. failed' \subseteq owed' /\ owed' \subseteq owed
        BY <1>2, <1>6, <1>8
  <2>3. QED  BY <1>1, <1>3, <1>4, <1>5, <1>7, <1>8, <2>1, <2>2, WorkerKeeps
<1>9. CASE /\ w.req # All /\ r \notin cancelled
           /\ lane' = [lane EXCEPT ![r] = Delayed(@, w.req)]
           /\ UNCHANGED failed
  <2> DEFINE m == Delayed(lane[r], w.req)
  <2>1. /\ m \in LaneState /\ m.running /\ m.ready = lane[r].ready /\ m.timer = "armed"
        /\ \A p : Asks(lane[r].scheduled, p) => Asks(m.scheduled, p)
        /\ \A p : Wants(w.req, p) => Asks(m.scheduled, p)
    <3>1. w.req \in Peers \cup {All}
          BY <1>1 DEF WorkerState
    <3>2. QED  BY <1>1, <3>1, DelayedFacts
  <2>2. lane' = [lane EXCEPT ![r] = m] /\ owed' = owed /\ failed' = failed
        BY <1>6, <1>9
  <2> HIDE DEF m
  <2>3. ASSUME NEW p \in owed' \ failed'
        PROVE  Holds(lane[r], fired[r], workers[r], p) => Holds(m, fired[r], <<x>>, p)
        BY <1>1, <2>1 DEF Holds, Works
  <2>4. QED  BY <1>1, <1>2, <1>3, <1>4, <1>5, <1>7, <2>1, <2>2, <2>3, WorkerKeeps
<1>10. QED  BY <1>6, <1>8, <1>9

\* The deferred function: what is ready goes to a new worker, or nothing is.
LEMMA NextRequestKeeps ==
    ASSUME LaneIndInv, NEW r \in Runtimes, NEW i \in 1..Len(workers[r]), NextRequest(r, i)
    PROVE  LaneIndInv'
<1> DEFINE w == workers[r][1]
           l == lane[r]
<1>1. /\ i = 1 /\ workers[r] # <<>> /\ w \in WorkerState /\ w.pc = "ending"
      /\ RemoveAt(workers[r], i) = <<>>
      /\ l \in LaneState /\ l.running
      /\ r = active => r \notin cancelled
      /\ \A y : WithWorker(r, i, y) = WithOnly(r, y)
  <2>1. OnlyWorker(r, i)
        BY WorkerFacts
  <2>2. w.pc = "ending"
        BY <2>1 DEF NextRequest, OnlyWorker
  <2>3. QED  BY <2>1, <2>2 DEF OnlyWorker
<1>2. owed \subseteq Peers /\ failed \subseteq owed /\ failures \in 0..MaxFailures
      BY DEF LaneIndInv, StateType
<1>3. UNCHANGED <<laneVars, fired, handler, signals, owed, failed, failures>>
      BY DEF NextRequest
<1>4. <<>> \in OneOrNone
      BY DEF OneOrNone
<1>5. CASE HasRequests(l.ready)
  <2> DEFINE m == [l EXCEPT !.running = TRUE, !.ready = PopRest(@)]
             x == Spawned(PopRequest(l.ready))
  <2>1. /\ PopRequest(l.ready) \in Peers \cup {All} /\ PopRest(l.ready) \in RequestSets
        /\ \A p : Asks(l.ready, p) => Wants(PopRequest(l.ready), p) \/ Asks(PopRest(l.ready), p)
    <3>1. l.ready \in RequestSets
          BY <1>1 DEF LaneState
    <3>2. QED  BY <1>5, <3>1, PopFacts
  <2>2. m \in LaneState /\ m.running /\ m.ready = PopRest(l.ready)
        /\ m.timer = l.timer /\ m.scheduled = l.scheduled
        BY <1>1, <2>1 DEF LaneState
  <2>3. lane' = [lane EXCEPT ![r] = m]
        BY <1>1, <1>5 DEF NextRequest, LaneIndInv, StateType
  <2>4. x \in WorkerState /\ x.pc = "spawned" /\ x.req = PopRequest(l.ready) /\ x.covers = {}
        BY <2>1 DEF WorkerState, Spawned
  <2>5. CASE r \in cancelled
    <3>1. workers' = [workers EXCEPT ![r] = <<>>]
          BY <1>1, <1>5, <2>5 DEF NextRequest
    <3> HIDE DEF m
    <3>2. QED  BY <1>1, <1>2, <1>3, <1>4, <2>2, <2>3, <2>5, <3>1, WorkerKeeps
  <2>6. CASE r \notin cancelled
    <3>1. workers' = WithWorker(r, i, x)
          BY <1>1, <1>5, <2>6 DEF NextRequest, WithWorker
    <3>2. workers' = [workers EXCEPT ![r] = <<x>>]
          BY <1>1, <3>1 DEF WithOnly
    <3> HIDE DEF m, x
    <3>3. <<x>> \in OneOrNone /\ <<x>> # <<>> /\ <<x>>[1] = x
          BY <2>4, SingleFacts
    <3>4. ASSUME NEW p \in owed' \ failed'
          PROVE  Holds(lane[r], fired[r], workers[r], p) => Holds(m, fired[r], <<x>>, p)
          BY <1>1, <2>1, <2>2, <2>4, <3>3 DEF Holds, Works
    <3>5. QED  BY <1>1, <1>2, <1>3, <2>2, <2>3, <2>4, <3>2, <3>3, <3>4, WorkerKeeps
  <2>7. QED  BY <2>5, <2>6
<1>6. CASE ~HasRequests(l.ready)
  <2> DEFINE m == [l EXCEPT !.running = FALSE]
  <2>1. m \in LaneState /\ ~m.running /\ m.timer = l.timer /\ m.scheduled = l.scheduled
        BY <1>1 DEF LaneState
  <2>2. lane' = [lane EXCEPT ![r] = m] /\ workers' = [workers EXCEPT ![r] = <<>>]
        BY <1>1, <1>6 DEF NextRequest
  <2>3. \A p : ~Asks(l.ready, p)
        BY <1>6 DEF Asks, HasRequests
  <2> HIDE DEF m
  <2>4. ASSUME NEW p \in owed' \ failed'
        PROVE  Holds(lane[r], fired[r], workers[r], p) => Holds(m, fired[r], <<>>, p)
        BY <1>1, <2>1, <2>3 DEF Holds, Works
  <2>5. QED  BY <1>2, <1>3, <1>4, <2>1, <2>2, <2>4, WorkerKeeps
<1>7. QED  BY <1>5, <1>6

-----------------------------------------------------------------------------
(* The theorems. *)

\* No action breaks the inductive invariant.
LEMMA LaneInductive == LaneIndInv /\ [LaneNext]_catchupVars => LaneIndInv'
<1>1. SUFFICES ASSUME LaneIndInv, [LaneNext]_catchupVars
               PROVE  LaneIndInv'
      OBVIOUS
<1>2. CASE UNCHANGED catchupVars
  <2>1. StateType'
        BY <1>1, <1>2 DEF LaneIndInv, StateType, catchupVars, laneVars
  <2>2. ActiveAlive' /\ WorkersSound'
        BY <1>1, <1>2 DEF LaneIndInv, ActiveAlive, WorkersSound, Marked, catchupVars, laneVars
  <2>3. SignalHeld'
        BY <1>1, <1>2 DEF LaneIndInv, SignalHeld, Starting, LaneHolds, catchupVars, laneVars
  <2>4. QED  BY <2>1, <2>2, <2>3 DEF LaneIndInv
<1>3. CASE Attach
      BY <1>1, <1>3, AttachKeeps
<1>4. CASE Detach
      BY <1>1, <1>4, DetachKeeps
<1>5. ASSUME NEW r \in Runtimes,
             StopStep(r) \/ Startup(r) \/ Tick(r) \/ Fire(r) \/ Trigger(r)
      PROVE  LaneIndInv'
      BY <1>1, <1>5, StopStepKeeps, StartupKeeps, TickKeeps, FireKeeps, TriggerKeeps
<1>6. ASSUME NEW r \in Runtimes, WorkerStep(r)
      PROVE  LaneIndInv'
  <2>1. PICK i \in 1..Len(workers[r]) :
           StartPass(r, i) \/ PassSucceeds(r, i) \/ PassFails(r, i) \/ NextRequest(r, i)
        BY <1>6 DEF WorkerStep
  <2>2. QED
        BY <1>1, <2>1, StartPassKeeps, PassSucceedsKeeps, PassFailsKeeps, NextRequestKeeps
<1>7. ASSUME NEW p \in Peers, QueueSignal(p)
      PROVE  LaneIndInv'
      BY <1>1, <1>7, QueueSignalKeeps
<1>8. ASSUME NEW p \in Peers, NEW r \in Runtimes, ReceiveSignal(p, r)
      PROVE  LaneIndInv'
      BY <1>1, <1>8, ReceiveSignalKeeps
<1>9. QED  BY <1>1, <1>2, <1>3, <1>4, <1>5, <1>6, <1>7, <1>8 DEF LaneNext

\* So it holds in every state.
LEMMA LaneIndCorrect == LaneSpec => []LaneIndInv
BY LaneFirst, LaneInductive, PTL DEF LaneSpec

\* Whichever of ticks, signals, timer callbacks, replacements and stops enter a
\* lane, and in whatever order, it has one worker at most and says so.
THEOREM OneWorkerPerLane == LaneSpec => []LaneInv
<1>1. LaneIndInv => LaneInv
  <2>1. SUFFICES ASSUME LaneIndInv PROVE LaneInv
        OBVIOUS
  <2>2. ASSUME NEW r \in Runtimes
        PROVE  /\ Len(workers[r]) <= 1
               /\ \A i \in 1..Len(workers[r]) : workers[r][i] \in WorkerState
    <3>1. workers[r] \in OneOrNone
          BY <2>1 DEF LaneIndInv, StateType
    <3>2. QED  BY <3>1, OneWorkerSeq
  <2>3. LaneTypeOK
        BY <2>1, <2>2 DEF LaneIndInv, StateType, LaneTypeOK, StopSteps, LaneState,
                          WorkerState, Runtimes, NoRuntime
  <2>4. OneWorker
        BY <2>1, <2>2 DEF LaneIndInv, WorkersSound, Marked, OneWorker
  <2>5. QED  BY <2>3, <2>4 DEF LaneInv
<1>2. QED  BY <1>1, LaneIndCorrect, PTL

\* No change signal is lost, for any number of runtimes replacing one another
\* between a handler's choice of a runtime and its scheduling there.
THEOREM NoSignalLost == LaneSpec => []SignalHeld
<1>1. LaneIndInv => SignalHeld
      BY DEF LaneIndInv
<1>2. QED  BY <1>1, LaneIndCorrect, PTL

=============================================================================
