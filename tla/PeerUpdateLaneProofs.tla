------------------------ MODULE PeerUpdateLaneProofs ------------------------
(***************************************************************************)
(* Theorems about PeerUpdateLane, for any set of peers and any limit of    *)
(* attempts: one goroutine notifies, no retry is kept past the limit, and  *)
(* no announcement is lost.                                                *)
(***************************************************************************)
EXTENDS PeerUpdateLane, SequenceTheorems, FiniteSetTheorems, TLAPS

-----------------------------------------------------------------------------
(* What is left of a queue after a worker was taken out of it or added.   *)

\* Taking out element i moves the later ones up by one.
LEMMA RemoveAtProperties ==
    ASSUME NEW S, NEW s \in Seq(S), NEW i \in 1..Len(s)
    PROVE  /\ RemoveAt(s, i) \in Seq(S)
           /\ Len(RemoveAt(s, i)) = Len(s) - 1
           /\ \A j \in 1..(Len(s) - 1) :
                 RemoveAt(s, i)[j] = IF j < i THEN s[j] ELSE s[j + 1]
<1> DEFINE a == SubSeq(s, 1, i - 1)
           b == SubSeq(s, i + 1, Len(s))
<1>1. Len(s) \in Nat /\ \A j \in 1..Len(s) : s[j] \in S
      BY LenProperties, ElementOfSeq
<1>2. a \in Seq(S) /\ Len(a) = i - 1 /\ \A j \in 1..(i - 1) : a[j] = s[j]
  <2>1. \A j \in 1..(i - 1) : s[j] \in S
        BY <1>1
  <2>2. QED  BY <1>1, <2>1, SubSeqProperties
<1>3. b \in Seq(S) /\ Len(b) = Len(s) - i /\ \A j \in 1..(Len(s) - i) : b[j] = s[j + i]
  <2>1. \A j \in (i + 1)..Len(s) : s[j] \in S
        BY <1>1
  <2>2. QED  BY <1>1, <2>1, SubSeqProperties
<1>4. RemoveAt(s, i) = a \o b
      BY DEF RemoveAt
<1> HIDE DEF a, b
<1>5. /\ a \o b \in Seq(S)
      /\ Len(a \o b) = Len(a) + Len(b)
      /\ \A k \in 1..(Len(a) + Len(b)) :
            (a \o b)[k] = IF k <= Len(a) THEN a[k] ELSE b[k - Len(a)]
      BY <1>2, <1>3, ConcatProperties
<1>6. QED  BY <1>1, <1>2, <1>3, <1>4, <1>5

\* The elements of new are those of s without i, each at an index of its own.
Leaves(s, i, new) ==
    \E f \in [DOMAIN new -> DOMAIN s \ {i}] :
        /\ \A j \in DOMAIN new : new[j] = s[f[j]]
        /\ \A j, k \in DOMAIN new : f[j] = f[k] => j = k
        /\ \A k \in DOMAIN s \ {i} : \E j \in DOMAIN new : f[j] = k

LEMMA RemoveAtMap ==
    ASSUME NEW S, NEW s \in Seq(S), NEW i \in DOMAIN s
    PROVE  RemoveAt(s, i) \in Seq(S) /\ Leaves(s, i, RemoveAt(s, i))
<1>1. PICK n \in Nat : n = Len(s) /\ DOMAIN s = 1..n
      BY LenProperties
<1>2. /\ RemoveAt(s, i) \in Seq(S)
      /\ Len(RemoveAt(s, i)) = n - 1
      /\ \A j \in 1..(n - 1) : RemoveAt(s, i)[j] = IF j < i THEN s[j] ELSE s[j + 1]
      BY <1>1, RemoveAtProperties
<1> DEFINE new == RemoveAt(s, i)
           f == [j \in 1..(n - 1) |-> IF j < i THEN j ELSE j + 1]
<1> HIDE DEF new
<1>3. DOMAIN new = 1..(n - 1)
      BY <1>2, LenProperties DEF new
<1>4. f \in [1..(n - 1) -> (1..n) \ {i}]
      BY <1>1
<1>5. \A j \in 1..(n - 1) : new[j] = s[f[j]]
      BY <1>2 DEF new
<1>6. \A j, k \in 1..(n - 1) : f[j] = f[k] => j = k
      BY <1>1
<1>7. ASSUME NEW k \in (1..n) \ {i} PROVE \E j \in 1..(n - 1) : f[j] = k
  <2>1. CASE k < i
    <3>1. k \in 1..(n - 1) /\ f[k] = k
          BY <1>1, <2>1
    <3>2. QED  BY <3>1
  <2>2. CASE k > i
    <3>1. k - 1 \in 1..(n - 1) /\ f[k - 1] = k
          BY <1>1, <2>2
    <3>2. QED  BY <3>1
  <2>3. QED  BY <1>1, <2>1, <2>2
<1> HIDE DEF f
<1>8. /\ f \in [DOMAIN new -> DOMAIN s \ {i}]
      /\ \A j \in DOMAIN new : new[j] = s[f[j]]
      /\ \A j, k \in DOMAIN new : f[j] = f[k] => j = k
      /\ \A k \in DOMAIN s \ {i} : \E j \in DOMAIN new : f[j] = k
      BY <1>1, <1>3, <1>4, <1>5, <1>6, <1>7
<1>9. Leaves(s, i, new)
      BY <1>8 DEF Leaves
<1>10. QED  BY <1>2, <1>9 DEF new

\* Appending adds one index.
LEMMA AppendMap ==
    ASSUME NEW S, NEW s \in Seq(S), NEW x \in S
    PROVE  /\ Append(s, x) \in Seq(S)
           /\ \E k : /\ k \notin DOMAIN s
                     /\ DOMAIN Append(s, x) = DOMAIN s \cup {k}
                     /\ Append(s, x)[k] = x
                     /\ \A j \in DOMAIN s : Append(s, x)[j] = s[j]
<1>1. PICK n \in Nat : n = Len(s) /\ DOMAIN s = 1..n
      BY LenProperties
<1>2. /\ Append(s, x) \in Seq(S) /\ Len(Append(s, x)) = n + 1
      /\ Append(s, x)[n + 1] = x /\ \A j \in 1..n : Append(s, x)[j] = s[j]
      BY <1>1, AppendProperties
<1>3. DOMAIN Append(s, x) = 1..(n + 1)
      BY <1>2, LenProperties
<1>4. 1..(n + 1) = (1..n) \cup {n + 1} /\ n + 1 \notin 1..n
      OBVIOUS
<1>5. QED  BY <1>1, <1>2, <1>3, <1>4

\* A set with one index at most.
LEMMA AtMostOne ==
    ASSUME NEW T, \A i, j \in T : i = j
    PROVE  Cardinality(T) <= 1
<1>1. CASE T = {}
  <2>1. Cardinality({}) = 0
        BY FS_EmptySet
  <2>2. QED  BY <1>1, <2>1
<1>2. ASSUME NEW x \in T PROVE Cardinality(T) <= 1
  <2>1. T = {x}
        OBVIOUS
  <2>2. Cardinality({x}) = 1
        BY FS_Singleton
  <2>3. QED  BY <2>1, <2>2
<1>3. QED  BY <1>1, <1>2

-----------------------------------------------------------------------------
(* The inductive invariant. *)

WorkerState ==
    [pc : {"spawned", "claimed", "notify", "fullretry", "retry", "ending", "rerun"},
     full : BOOLEAN, attempt : Attempts,
     claimed : [Peers -> 0..MaxAttempts], failures : [Peers -> 0..MaxAttempts]]

\* Peers are in a worker's hands from its claim to its last retry.
HandsSound(w) ==
    /\ w.pc \notin {"claimed", "notify"} => w.claimed = None
    /\ w.pc \notin {"notify", "retry"} => w.failures = None

Busy(w) == w.pc # "rerun"

OneBusy(ws) == \A i, j \in DOMAIN ws : Busy(ws[i]) /\ Busy(ws[j]) => i = j

SomeBusy(ws) == \E i \in DOMAIN ws : Busy(ws[i])

\* The workers ws of a lane whose running flag is run.
WorkersSound(ws, run) ==
    /\ ws \in Seq(WorkerState)
    /\ \A i \in DOMAIN ws : HandsSound(ws[i])
    /\ OneBusy(ws)
    /\ run <=> SomeBusy(ws)

WorkType ==
    /\ full \in BOOLEAN /\ attempt \in Attempts
    /\ retries \in [Peers -> Attempts] /\ retryTimer \in [Peers -> Attempts]
    /\ loose \in [Peers -> Seq(Attempts \ {0})]
    /\ due \subseteq Peers /\ givenUp \subseteq Peers /\ letGo \subseteq Peers
    /\ mutations \in 0..MaxMutations

TaskType ==
    /\ timer \in BOOLEAN /\ fired \in Nat /\ running \in BOOLEAN /\ rerun \in BOOLEAN
    /\ callers \in Nat

\* Whatever is asked for will be claimed.
Pending == full \/ \E p \in Peers : retries[p] > 0

AnyToClaim(ws) == \E i \in DOMAIN ws : ws[i].pc \in {"spawned", "fullretry", "rerun"}

InHands(w, p) == w.claimed[p] > 0 \/ w.failures[p] > 0

AnyInHands(ws, p) == \E i \in DOMAIN ws : InHands(ws[i], p)

\* Someone will notify p or give up on it.
Covered(p) ==
    \/ full \/ retries[p] > 0 \/ retryTimer[p] > 0 \/ loose[p] # <<>>
    \/ AnyInHands(workers, p)

UpdateIndInv ==
    /\ WorkType /\ TaskType /\ WorkersSound(workers, running)
    /\ Pending => ClaimToCome
    /\ \A p \in due \ (givenUp \cup letGo) : Covered(p)

-----------------------------------------------------------------------------
(* The sequence of workers. *)

\* What is known of old, but for its worker i, is known of new.
Keeps(old, i, new) ==
    /\ AnyToClaim(old) => old[i].pc \in {"spawned", "fullretry", "rerun"} \/ AnyToClaim(new)
    /\ \A p : AnyInHands(old, p) => InHands(old[i], p) \/ AnyInHands(new, p)

\* The worker w is one of new.
Shows(new, w) ==
    /\ w.pc \in {"spawned", "fullretry", "rerun"} => AnyToClaim(new)
    /\ \A p : InHands(w, p) => AnyInHands(new, p)

\* A worker that takes a step.
LEMMA PutFacts ==
    ASSUME NEW ws, NEW run \in BOOLEAN, WorkersSound(ws, run), NEW i \in DOMAIN ws,
           NEW w \in WorkerState, HandsSound(w), Busy(ws[i])
    PROVE  LET new == [ws EXCEPT ![i] = w]
           IN /\ Keeps(ws, i, new) /\ Shows(new, w)
              /\ WorkersSound(new, Busy(w))
              /\ run
<1> DEFINE new == [ws EXCEPT ![i] = w]
<1>1. ws \in Seq(WorkerState)
      BY DEF WorkersSound
<1>2. new \in Seq(WorkerState) /\ DOMAIN new = DOMAIN ws
      BY <1>1, ExceptSeq
<1>3. new[i] = w /\ \A j \in DOMAIN ws \ {i} : new[j] = ws[j]
      OBVIOUS
<1> HIDE DEF new
<1>4. run
      BY DEF WorkersSound, SomeBusy
<1>5. Keeps(ws, i, new) /\ Shows(new, w)
      BY <1>2, <1>3 DEF Keeps, Shows, AnyToClaim, AnyInHands
<1>6. \A j \in DOMAIN ws : HandsSound(new[j])
      BY <1>3 DEF WorkersSound
<1>7. OneBusy(new)
      BY <1>2, <1>3 DEF WorkersSound, OneBusy
<1>8. Busy(w) <=> SomeBusy(new)
      BY <1>2, <1>3 DEF WorkersSound, OneBusy, SomeBusy
<1>9. WorkersSound(new, Busy(w))
      BY <1>2, <1>6, <1>7, <1>8 DEF WorkersSound
<1>10. QED  BY <1>4, <1>5, <1>9 DEF new

\* A worker that leaves.
LEMMA RemoveFacts ==
    ASSUME NEW ws, NEW run \in BOOLEAN, WorkersSound(ws, run), NEW i \in DOMAIN ws
    PROVE  LET new == RemoveAt(ws, i)
           IN /\ Keeps(ws, i, new)
              /\ WorkersSound(new, run /\ ~Busy(ws[i]))
<1> DEFINE new == RemoveAt(ws, i)
<1>1. ws \in Seq(WorkerState)
      BY DEF WorkersSound
<1>2. new \in Seq(WorkerState) /\ Leaves(ws, i, new)
      BY <1>1, RemoveAtMap
<1> HIDE DEF new
<1>3. PICK g \in [DOMAIN new -> DOMAIN ws \ {i}] :
         /\ \A j \in DOMAIN new : new[j] = ws[g[j]]
         /\ \A j, k \in DOMAIN new : g[j] = g[k] => j = k
         /\ \A k \in DOMAIN ws \ {i} : \E j \in DOMAIN new : g[j] = k
      BY <1>2 DEF Leaves
<1>4. Keeps(ws, i, new)
  <2>1. \A k \in DOMAIN ws \ {i} : \E j \in DOMAIN new : new[j] = ws[k]
        BY <1>3
  <2>2. QED  BY <2>1 DEF Keeps, AnyToClaim, AnyInHands
<1>5. \A j \in DOMAIN new : g[j] \in DOMAIN ws /\ g[j] # i /\ new[j] = ws[g[j]]
      BY <1>3
<1>6. \A j \in DOMAIN new : HandsSound(new[j])
      BY <1>5 DEF WorkersSound
<1>7. OneBusy(new)
  <2>1. SUFFICES ASSUME NEW j \in DOMAIN new, NEW k \in DOMAIN new, Busy(new[j]), Busy(new[k])
                 PROVE  j = k
        BY DEF OneBusy
  <2>2. g[j] = g[k]
        BY <1>5, <2>1 DEF WorkersSound, OneBusy
  <2>3. QED  BY <1>3, <2>2
<1>8. run /\ ~Busy(ws[i]) <=> SomeBusy(new)
  <2>1. ASSUME run, ~Busy(ws[i]) PROVE SomeBusy(new)
    <3>1. PICK k \in DOMAIN ws : Busy(ws[k])
          BY <2>1 DEF WorkersSound, SomeBusy
    <3>2. PICK j \in DOMAIN new : g[j] = k
          BY <1>3, <2>1, <3>1
    <3>3. QED  BY <1>5, <3>1, <3>2 DEF SomeBusy
  <2>2. ASSUME SomeBusy(new) PROVE run /\ ~Busy(ws[i])
    <3>1. PICK j \in DOMAIN new : Busy(new[j])
          BY <2>2 DEF SomeBusy
    <3>2. g[j] \in DOMAIN ws /\ g[j] # i /\ Busy(ws[g[j]])
          BY <1>5, <3>1
    <3>3. QED  BY <3>2 DEF WorkersSound, SomeBusy, OneBusy
  <2>3. QED  BY <2>1, <2>2
<1>9. WorkersSound(new, run /\ ~Busy(ws[i]))
      BY <1>2, <1>6, <1>7, <1>8 DEF WorkersSound
<1>10. QED  BY <1>4, <1>9 DEF new

\* A worker that is started, on a lane that has none at work.
LEMMA StartFacts ==
    ASSUME NEW ws, WorkersSound(ws, FALSE)
    PROVE  LET new == Append(ws, Worker("spawned"))
           IN /\ AnyToClaim(new) /\ \A p : AnyInHands(ws, p) => AnyInHands(new, p)
              /\ WorkersSound(new, TRUE)
<1> DEFINE w == Worker("spawned")
           new == Append(ws, w)
<1>1. w \in WorkerState /\ w.pc = "spawned" /\ HandsSound(w) /\ Busy(w)
      BY UpdateAssumption DEF Worker, WorkerState, HandsSound, Busy, None, Attempts
<1>2. ws \in Seq(WorkerState)
      BY DEF WorkersSound
<1> HIDE DEF w
<1>3. new \in Seq(WorkerState)
      BY <1>1, <1>2, AppendMap
<1>4. PICK k : /\ k \notin DOMAIN ws /\ DOMAIN new = DOMAIN ws \cup {k} /\ new[k] = w
               /\ \A j \in DOMAIN ws : new[j] = ws[j]
      BY <1>1, <1>2, AppendMap
<1> HIDE DEF new
<1>5. AnyToClaim(new) /\ \A p : AnyInHands(ws, p) => AnyInHands(new, p)
      BY <1>1, <1>4 DEF AnyToClaim, AnyInHands
<1>6. \A j \in DOMAIN new : HandsSound(new[j])
      BY <1>1, <1>4 DEF WorkersSound
<1>7. OneBusy(new) /\ SomeBusy(new)
      BY <1>1, <1>4 DEF WorkersSound, OneBusy, SomeBusy
<1>8. WorkersSound(new, TRUE)
      BY <1>3, <1>6, <1>7 DEF WorkersSound
<1>9. QED  BY <1>5, <1>8 DEF new, w

\* scheduleRuntimeTask without a delay, and triggerRuntimeTask.
LEMMA RunNowFacts ==
    ASSUME running \in BOOLEAN, rerun \in BOOLEAN, NEW rest, WorkersSound(rest, running),
           RunNow(rest)
    PROVE  /\ timer' \in BOOLEAN /\ running' \in BOOLEAN /\ rerun' \in BOOLEAN
           /\ WorkersSound(workers', running')
           /\ (running' /\ rerun') \/ AnyToClaim(workers')
           /\ \A p : AnyInHands(rest, p) => AnyInHands(workers', p)
<1>1. CASE running
      BY <1>1 DEF RunNow
<1>2. CASE ~running
  <2>1. /\ running' = TRUE /\ workers' = Append(rest, Worker("spawned"))
        /\ timer' = FALSE /\ rerun' = rerun
        BY <1>2 DEF RunNow
  <2>2. running = FALSE
        BY <1>2
  <2>3. QED  BY <2>1, <2>2, StartFacts
<1>3. QED  BY <1>1, <1>2

-----------------------------------------------------------------------------
(* The actions of the callers and the timers. *)

\* The empty lane.
LEMMA UpdateInit == Init => UpdateIndInv
<1> SUFFICES ASSUME Init PROVE UpdateIndInv
    OBVIOUS
<1>1. WorkType /\ TaskType
  <2>1. 0 \in Attempts
        BY UpdateAssumption DEF Attempts
  <2>2. <<>> \in Seq(Attempts \ {0})
        BY EmptySeq
  <2>3. None \in [Peers -> Attempts] /\ [p \in Peers |-> <<>>] \in [Peers -> Seq(Attempts \ {0})]
        BY <2>1, <2>2 DEF None
  <2>4. WorkType
    <3>1. retries = None /\ retryTimer = None /\ loose = [p \in Peers |-> <<>>]
          BY DEF Init
    <3>2. 0 \in 0..MaxMutations
          BY UpdateAssumption
    <3>3. QED  BY <2>1, <2>3, <3>1, <3>2, Zenon DEF Init, WorkType
  <2>5. QED  BY <2>4 DEF Init, TaskType
<1>2. workers = <<>> /\ <<>> \in Seq(WorkerState) /\ DOMAIN <<>> = {}
      BY EmptySeq DEF Init
<1>3. WorkersSound(workers, running)
      BY <1>2 DEF Init, WorkersSound, OneBusy, SomeBusy
<1>4. ~Pending /\ due = {}
      BY DEF Init, Pending, None
<1>5. QED  BY <1>1, <1>3, <1>4 DEF UpdateIndInv

\* A mutation asks for a broadcast to everyone.
LEMMA MutateKeeps == UpdateIndInv /\ Mutate => UpdateIndInv'
<1> SUFFICES ASSUME UpdateIndInv, Mutate PROVE UpdateIndInv'
    OBVIOUS
<1>1. None \in [Peers -> Attempts] /\ 0 \in Attempts
      BY UpdateAssumption DEF None, Attempts
<1>2. WorkType' /\ TaskType'
      BY <1>1, UpdateAssumption DEF UpdateIndInv, WorkType, TaskType, Mutate, AskFull, task
<1>3. WorkersSound(workers, running)' /\ full' /\ ClaimToCome'
      BY DEF UpdateIndInv, TaskType, Mutate, AskFull, task, ClaimToCome
<1>4. QED  BY <1>2, <1>3 DEF UpdateIndInv, Covered

\* The caller arms the timer.
LEMMA ScheduleBroadcastKeeps == UpdateIndInv /\ ScheduleBroadcast => UpdateIndInv'
<1> SUFFICES ASSUME UpdateIndInv, ScheduleBroadcast PROVE UpdateIndInv'
    OBVIOUS
<1>1. WorkType' /\ TaskType'
  <2>1. WorkType'
        BY DEF UpdateIndInv, WorkType, ScheduleBroadcast, work
  <2>2. TaskType'
        BY DEF UpdateIndInv, TaskType, ScheduleBroadcast, RunLater
  <2>3. QED  BY <2>1, <2>2
<1>2. WorkersSound(workers, running)' /\ ClaimToCome'
      BY DEF UpdateIndInv, ScheduleBroadcast, RunLater, ClaimToCome
<1>3. \A p : Covered(p) => Covered(p)'
      BY DEF ScheduleBroadcast, work, Covered
<1>4. due' = due /\ givenUp' = givenUp /\ letGo' = letGo
      BY DEF ScheduleBroadcast
<1>5. QED  BY <1>1, <1>2, <1>3, <1>4 DEF UpdateIndInv

\* The timer expires.
LEMMA FireKeeps == UpdateIndInv /\ Fire => UpdateIndInv'
<1> SUFFICES ASSUME UpdateIndInv, Fire PROVE UpdateIndInv'
    OBVIOUS
<1>1. WorkType' /\ TaskType'
  <2>1. WorkType'
        BY DEF UpdateIndInv, WorkType, Fire, work
  <2>2. TaskType'
    <3>1. TaskType
          BY DEF UpdateIndInv
    <3>2. fired' \in Nat
          BY <3>1 DEF TaskType, Fire
    <3>3. QED  BY <3>1, <3>2 DEF TaskType, Fire
  <2>3. QED  BY <2>1, <2>2
<1>2. WorkersSound(workers, running)' /\ ClaimToCome'
      BY DEF UpdateIndInv, TaskType, Fire, ClaimToCome
<1>3. \A p : Covered(p) => Covered(p)'
      BY DEF Fire, work, Covered
<1>4. due' = due /\ givenUp' = givenUp /\ letGo' = letGo
      BY DEF Fire
<1>5. QED  BY <1>1, <1>2, <1>3, <1>4 DEF UpdateIndInv

\* Its callback starts a worker or makes the one at work run again.
LEMMA TriggerKeeps == UpdateIndInv /\ Trigger => UpdateIndInv'
<1> SUFFICES ASSUME UpdateIndInv, Trigger PROVE UpdateIndInv'
    OBVIOUS
<1>1. /\ timer' \in BOOLEAN /\ running' \in BOOLEAN /\ rerun' \in BOOLEAN
      /\ WorkersSound(workers', running')
      /\ (running' /\ rerun') \/ AnyToClaim(workers')
      /\ \A p : AnyInHands(workers, p) => AnyInHands(workers', p)
      BY RunNowFacts DEF UpdateIndInv, TaskType, Trigger
<1>2. fired' \in Nat /\ callers' = callers
      BY DEF UpdateIndInv, TaskType, Trigger
<1>3. WorkType' /\ TaskType'
      BY <1>1, <1>2 DEF UpdateIndInv, WorkType, TaskType, Trigger, work
<1>4. ClaimToCome'
      BY <1>1 DEF ClaimToCome, AnyToClaim
<1>5. \A p : Covered(p) => Covered(p)'
      BY <1>1 DEF Trigger, work, Covered
<1>6. due' = due /\ givenUp' = givenUp /\ letGo' = letGo
      BY DEF Trigger
<1>7. QED  BY <1>1, <1>3, <1>4, <1>5, <1>6 DEF UpdateIndInv

\* A retry timer expires: its callback can no longer be stopped.
LEMMA FireRetryKeeps ==
    ASSUME UpdateIndInv, NEW p \in Peers, FireRetry(p)
    PROVE  UpdateIndInv'
<1>1. /\ retryTimer[p] \in Attempts \ {0} /\ loose[p] \in Seq(Attempts \ {0})
      /\ retryTimer \in [Peers -> Attempts] /\ loose \in [Peers -> Seq(Attempts \ {0})]
      BY DEF UpdateIndInv, WorkType, FireRetry
<1>2. /\ Append(loose[p], retryTimer[p]) \in Seq(Attempts \ {0})
      /\ Append(loose[p], retryTimer[p]) # <<>>
      BY <1>1, AppendProperties
<1>3. /\ loose' \in [Peers -> Seq(Attempts \ {0})] /\ loose'[p] # <<>>
      /\ \A q \in Peers \ {p} : loose'[q] = loose[q] /\ retryTimer'[q] = retryTimer[q]
      BY <1>1, <1>2 DEF FireRetry
<1>4. retryTimer' \in [Peers -> Attempts]
      BY <1>1, UpdateAssumption DEF FireRetry, Attempts
<1>5. WorkType' /\ TaskType'
      BY <1>3, <1>4 DEF UpdateIndInv, WorkType, TaskType, FireRetry, task
<1>6. WorkersSound(workers, running)' /\ (Pending' => ClaimToCome')
      BY DEF UpdateIndInv, FireRetry, task, ClaimToCome, Pending
<1>7. \A q \in Peers : Covered(q) => Covered(q)'
      BY <1>3 DEF FireRetry, Covered
<1>8. due' = due /\ givenUp' = givenUp /\ letGo' = letGo /\ due \subseteq Peers
      BY DEF FireRetry, UpdateIndInv, WorkType
<1>9. QED  BY <1>5, <1>6, <1>7, <1>8 DEF UpdateIndInv

\* Its callback queues the retry, or leaves the peer to the broadcast.
LEMMA TriggerRetryKeeps ==
    ASSUME UpdateIndInv, NEW p \in Peers, TriggerRetry(p)
    PROVE  UpdateIndInv'
<1>1. PICK i \in DOMAIN loose[p] :
         LET a == loose[p][i]
             rest == RemoveAt(loose[p], i)
         IN /\ retryTimer' = [retryTimer EXCEPT ![p] = 0]
            /\ loose' = [loose EXCEPT ![p] = IF retryTimer[p] > 0
                                             THEN Append(rest, retryTimer[p]) ELSE rest]
            /\ IF full
               THEN UNCHANGED <<retries, task, workers>>
               ELSE /\ retries' = [retries EXCEPT ![p] = IF @ > a THEN @ ELSE a]
                    /\ IF running
                       THEN /\ rerun' = TRUE
                            /\ UNCHANGED <<timer, fired, running, workers>>
                       ELSE /\ running' = TRUE
                            /\ workers' = Append(workers, Worker("spawned"))
                            /\ UNCHANGED <<timer, fired, rerun>>
            /\ UNCHANGED <<full, attempt, callers, due, givenUp, letGo, mutations>>
      BY DEF TriggerRetry
<1> DEFINE a == loose[p][i]
           rest == RemoveAt(loose[p], i)
<1>2. /\ loose[p] \in Seq(Attempts \ {0}) /\ retryTimer \in [Peers -> Attempts]
      /\ retries \in [Peers -> Attempts] /\ loose \in [Peers -> Seq(Attempts \ {0})]
      BY DEF UpdateIndInv, WorkType
<1>3. a \in Attempts \ {0} /\ rest \in Seq(Attempts \ {0})
  <2>1. DOMAIN loose[p] = 1..Len(loose[p])
        BY <1>2, LenProperties
  <2>2. QED  BY <1>2, <2>1, ElementOfSeq, RemoveAtMap
<1>4. loose'[p] \in Seq(Attempts \ {0})
  <2>1. retryTimer[p] > 0 => Append(rest, retryTimer[p]) \in Seq(Attempts \ {0})
        BY <1>2, <1>3, AppendProperties
  <2>2. QED  BY <1>1, <1>2, <1>3, <2>1
<1>5. loose' \in [Peers -> Seq(Attempts \ {0})] /\ \A q \in Peers \ {p} : loose'[q] = loose[q]
      BY <1>1, <1>2, <1>4
<1>6. /\ retryTimer' \in [Peers -> Attempts]
      /\ \A q \in Peers \ {p} : retryTimer'[q] = retryTimer[q]
      BY <1>1, <1>2, UpdateAssumption DEF Attempts
<1> HIDE DEF rest
<1>7. CASE full
  <2>1. UNCHANGED <<retries, task, workers, full, attempt, callers, due, givenUp, letGo, mutations>>
        BY <1>1, <1>7
  <2>2. WorkType' /\ TaskType'
        BY <1>5, <1>6, <2>1 DEF UpdateIndInv, WorkType, TaskType, task
  <2>3. WorkersSound(workers, running)' /\ (Pending' => ClaimToCome')
        BY <2>1 DEF UpdateIndInv, task, ClaimToCome, Pending
  <2>4. QED  BY <1>7, <2>1, <2>2, <2>3 DEF UpdateIndInv, Covered
<1>8. CASE ~full
  <2>1. /\ retries' = [retries EXCEPT ![p] = IF @ > a THEN @ ELSE a]
        /\ UNCHANGED <<full, attempt, callers, due, givenUp, letGo, mutations, timer, fired>>
        BY <1>1, <1>8
  <2>2. /\ retries' \in [Peers -> Attempts] /\ retries'[p] > 0
        /\ \A q \in Peers \ {p} : retries'[q] = retries[q]
        BY <1>2, <1>3, <2>1, UpdateAssumption DEF Attempts
  <2>3. /\ running' \in BOOLEAN /\ rerun' \in BOOLEAN
        /\ WorkersSound(workers', running')
        /\ (running' /\ rerun') \/ AnyToClaim(workers')
        /\ \A q : AnyInHands(workers, q) => AnyInHands(workers', q)
    <3>1. CASE running
          BY <1>1, <1>8, <3>1 DEF UpdateIndInv, TaskType
    <3>2. CASE ~running
      <4>1. running' = TRUE /\ workers' = Append(workers, Worker("spawned")) /\ rerun' = rerun
            BY <1>1, <1>8, <3>2
      <4>2. running = FALSE /\ WorkersSound(workers, FALSE)
            BY <3>2 DEF UpdateIndInv, TaskType
      <4>3. QED  BY <4>1, <4>2, StartFacts DEF UpdateIndInv, TaskType
    <3>3. QED  BY <3>1, <3>2
  <2>4. WorkType' /\ TaskType'
        BY <1>5, <1>6, <2>1, <2>2, <2>3 DEF UpdateIndInv, WorkType, TaskType
  <2>5. ClaimToCome'
        BY <2>3 DEF ClaimToCome, AnyToClaim
  <2>6. \A q \in Peers : Covered(q) => Covered(q)'
        BY <1>5, <1>6, <2>1, <2>2, <2>3 DEF Covered
  <2>7. due' = due /\ givenUp' = givenUp /\ letGo' = letGo /\ due \subseteq Peers
        BY <2>1 DEF UpdateIndInv, WorkType
  <2>8. QED  BY <2>3, <2>4, <2>5, <2>6, <2>7 DEF UpdateIndInv
<1>9. QED  BY <1>7, <1>8

-----------------------------------------------------------------------------
(* The worker's steps. *)

LaterClaim(pc) == pc \in {"spawned", "fullretry", "rerun"}

\* A worker at work that becomes w keeps the invariant if what is pending then
\* is going to be claimed and each peer is left to someone.
LEMMA PutKeeps ==
    ASSUME UpdateIndInv, NEW i \in DOMAIN workers, NEW w \in WorkerState,
           HandsSound(w), Busy(workers[i]), Busy(w),
           workers' = [workers EXCEPT ![i] = w], running' = running,
           WorkType', TaskType',
           Pending' => \/ timer' \/ fired' > 0 \/ callers' > 0 \/ (running' /\ rerun')
                       \/ LaterClaim(w.pc)
                       \/ (AnyToClaim(workers) /\ ~LaterClaim(workers[i].pc)),
           \A p \in due' \ (givenUp' \cup letGo') :
              \/ full' \/ retries'[p] > 0 \/ retryTimer'[p] > 0 \/ loose'[p] # <<>>
              \/ InHands(w, p)
              \/ (AnyInHands(workers, p) /\ ~InHands(workers[i], p))
    PROVE  UpdateIndInv'
<1>1. /\ Keeps(workers, i, workers') /\ Shows(workers', w)
      /\ WorkersSound(workers', Busy(w)) /\ running
      BY PutFacts DEF UpdateIndInv, TaskType
<1>2. WorkersSound(workers', running')
      BY <1>1 DEF WorkersSound
<1>3. LaterClaim(w.pc) \/ (AnyToClaim(workers) /\ ~LaterClaim(workers[i].pc))
         => AnyToClaim(workers')
      BY <1>1 DEF Keeps, Shows, LaterClaim
<1>4. Pending' => ClaimToCome'
      BY <1>3 DEF ClaimToCome, AnyToClaim
<1>5. \A p : InHands(w, p) \/ (AnyInHands(workers, p) /\ ~InHands(workers[i], p))
                => AnyInHands(workers', p)
      BY <1>1 DEF Keeps, Shows
<1>6. \A p \in due' \ (givenUp' \cup letGo') : Covered(p)'
      BY <1>5 DEF Covered
<1>7. QED  BY <1>2, <1>4, <1>6 DEF UpdateIndInv

\* The worker that takes a step.
LEMMA AtFacts ==
    ASSUME UpdateIndInv, NEW i, NEW pc, At(pc, i)
    PROVE  /\ i \in DOMAIN workers /\ workers[i] \in WorkerState
           /\ workers[i].pc = pc /\ HandsSound(workers[i])
<1>1. i \in DOMAIN workers /\ workers[i].pc = pc
      BY DEF At
<1>2. workers \in Seq(WorkerState) /\ HandsSound(workers[i])
      BY <1>1 DEF UpdateIndInv, WorkersSound
<1>3. workers[i] \in WorkerState
      BY <1>1, <1>2, LenProperties, ElementOfSeq
<1>4. QED  BY <1>1, <1>2, <1>3

\* No peer is in the hands of a worker that claimed none and failed on none.
LEMMA NoneInHands ==
    ASSUME NEW w, w.claimed = None, w.failures = None, NEW p \in Peers
    PROVE  ~InHands(w, p)
BY DEF InHands, None

\* The claim takes over all that is asked for.
LEMMA ClaimKeeps ==
    ASSUME UpdateIndInv, NEW i, Claim(i)
    PROVE  UpdateIndInv'
<1> DEFINE old == workers[i]
           peers == IF full THEN [p \in Peers |-> attempt + 1]
                    ELSE [p \in Peers |-> IF retries[p] > 0 THEN retries[p] + 1 ELSE 0]
           w == [old EXCEPT !.pc = IF ~full /\ retries = None THEN "ending" ELSE "claimed",
                            !.full = full, !.attempt = attempt, !.claimed = peers]
<1>1. /\ i \in DOMAIN workers /\ old \in WorkerState
      /\ old.pc = "spawned" /\ HandsSound(old)
      BY AtFacts DEF Claim
<1>2. old.claimed = None /\ old.failures = None
      BY <1>1 DEF HandsSound
<1>3. workers' = [workers EXCEPT ![i] = w]
      BY DEF Claim
<1>4. /\ full \in BOOLEAN /\ attempt \in Attempts /\ retries \in [Peers -> Attempts]
      /\ due \subseteq Peers
      BY DEF UpdateIndInv, WorkType
<1>5. peers \in [Peers -> 0..MaxAttempts]
      BY <1>4, UpdateAssumption DEF Attempts
<1>6. \A p \in Peers : full \/ retries[p] > 0 => peers[p] > 0
      BY <1>4, UpdateAssumption DEF Attempts
<1>7. ~full /\ retries = None => peers = None
      BY DEF None
<1> HIDE DEF peers
<1>8. /\ w \in WorkerState /\ w.claimed = peers /\ w.failures = None
      /\ w.pc = IF ~full /\ retries = None THEN "ending" ELSE "claimed"
      BY <1>1, <1>2, <1>4, <1>5 DEF WorkerState
<1> HIDE DEF w
<1>9. HandsSound(w) /\ Busy(w) /\ Busy(old)
      BY <1>1, <1>7, <1>8 DEF HandsSound, Busy
<1>10. /\ full' = FALSE /\ attempt' = 0 /\ retries' = None
       /\ UNCHANGED <<retryTimer, loose, task, callers, due, givenUp, letGo, mutations>>
       BY DEF Claim
<1>11. None \in [Peers -> Attempts] /\ 0 \in Attempts /\ \A p \in Peers : None[p] = 0
       BY UpdateAssumption DEF None, Attempts
<1>12. WorkType' /\ TaskType' /\ running' = running
       BY <1>10, <1>11 DEF UpdateIndInv, WorkType, TaskType, task
<1>13. ~Pending'
       BY <1>10, <1>11 DEF Pending
<1>14. ASSUME NEW p \in due' \ (givenUp' \cup letGo')
       PROVE  \/ retryTimer'[p] > 0 \/ loose'[p] # <<>> \/ InHands(w, p)
              \/ (AnyInHands(workers, p) /\ ~InHands(old, p))
  <2>1. p \in Peers /\ Covered(p)
        BY <1>4, <1>10, <1>14 DEF UpdateIndInv
  <2>2. ~InHands(old, p)
        BY <1>2, <2>1, NoneInHands
  <2>3. full \/ retries[p] > 0 => InHands(w, p)
        BY <1>6, <1>8, <2>1 DEF InHands
  <2>4. QED  BY <1>10, <2>1, <2>2, <2>3 DEF Covered
<1>15. QED  BY <1>1, <1>3, <1>8, <1>9, <1>12, <1>13, <1>14, PutKeeps

\* A step of the worker that asks for nothing new: peers may leave its hands
\* only for a retry timer, for the broadcast that is asked for, or for good.
LEMMA PassesOn ==
    ASSUME UpdateIndInv, NEW i \in DOMAIN workers, NEW w \in WorkerState,
           HandsSound(w), Busy(workers[i]), Busy(w), ~LaterClaim(workers[i].pc),
           workers' = [workers EXCEPT ![i] = w],
           UNCHANGED <<full, attempt, retries, loose, task, callers, mutations>>,
           letGo \subseteq letGo', letGo' \subseteq Peers,
           retryTimer' \in [Peers -> Attempts],
           \A p \in Peers : retryTimer[p] > 0 => retryTimer'[p] > 0,
           due' \subseteq due, givenUp \subseteq givenUp', givenUp' \subseteq Peers,
           \A p \in due' \ (givenUp' \cup letGo') :
              InHands(workers[i], p) => InHands(w, p) \/ full \/ retryTimer'[p] > 0
    PROVE  UpdateIndInv'
<1>1. WorkType' /\ TaskType' /\ running' = running
      BY DEF UpdateIndInv, WorkType, TaskType, task
<1>2. Pending' => \/ timer' \/ fired' > 0 \/ callers' > 0 \/ (running' /\ rerun')
                  \/ (AnyToClaim(workers) /\ ~LaterClaim(workers[i].pc))
      BY DEF UpdateIndInv, Pending, ClaimToCome, AnyToClaim, task
<1>3. ASSUME NEW p \in due' \ (givenUp' \cup letGo')
      PROVE  \/ full' \/ retries'[p] > 0 \/ retryTimer'[p] > 0 \/ loose'[p] # <<>>
             \/ InHands(w, p) \/ (AnyInHands(workers, p) /\ ~InHands(workers[i], p))
  <2>1. p \in Peers /\ p \in due \ (givenUp \cup letGo)
        BY <1>3 DEF UpdateIndInv, WorkType
  <2>2. QED  BY <1>3, <2>1 DEF UpdateIndInv, Covered
<1>4. QED  BY <1>1, <1>2, <1>3, PutKeeps

\* The local context is not that of the runtime: what was claimed is let go.
LEMMA LocalContextFailsKeeps ==
    ASSUME UpdateIndInv, NEW i, LocalContextFails(i)
    PROVE  UpdateIndInv'
<1> DEFINE old == workers[i]
           w == [old EXCEPT !.pc = "ending", !.claimed = None]
<1>1. /\ i \in DOMAIN workers /\ old \in WorkerState
      /\ old.pc = "claimed" /\ HandsSound(old)
      BY AtFacts DEF LocalContextFails
<1>2. old.failures = None /\ Busy(old) /\ ~LaterClaim(old.pc)
      BY <1>1 DEF HandsSound, Busy, LaterClaim
<1>3. None \in [Peers -> 0..MaxAttempts]
      BY UpdateAssumption DEF None
<1>4. workers' = [workers EXCEPT ![i] = w]
      BY <1>1 DEF LocalContextFails
<1>5. w \in WorkerState /\ w.pc = "ending" /\ w.claimed = None /\ w.failures = None
      BY <1>1, <1>2, <1>3 DEF WorkerState
<1> HIDE DEF w
<1>6. HandsSound(w) /\ Busy(w)
      BY <1>5 DEF HandsSound, Busy
<1>7. /\ UNCHANGED <<full, attempt, retries, retryTimer, loose, task, callers, due, givenUp, mutations>>
      /\ letGo' = IF full THEN letGo ELSE letGo \cup {p \in Peers : old.claimed[p] > 0}
      /\ retryTimer \in [Peers -> Attempts] /\ givenUp \subseteq Peers /\ letGo \subseteq Peers
      BY DEF LocalContextFails, work, UpdateIndInv, WorkType
<1>8. letGo \subseteq letGo' /\ letGo' \subseteq Peers
      BY <1>7
<1>9. ASSUME NEW p \in Peers \ letGo', InHands(old, p) PROVE full
      BY <1>2, <1>7, <1>9 DEF InHands, None
<1>10. due' \subseteq due /\ due \subseteq Peers
      BY <1>7 DEF UpdateIndInv, WorkType
<1>11. QED  BY <1>1, <1>2, <1>4, <1>5, <1>6, <1>7, <1>8, <1>9, <1>10, PassesOn

\* The credentials are there.
LEMMA BeginKeeps ==
    ASSUME UpdateIndInv, NEW i, Begin(i)
    PROVE  UpdateIndInv'
<1> DEFINE old == workers[i]
           w == [old EXCEPT !.pc = "notify"]
<1>1. /\ i \in DOMAIN workers /\ old \in WorkerState
      /\ old.pc = "claimed" /\ HandsSound(old)
      BY AtFacts DEF Begin
<1>2. workers' = [workers EXCEPT ![i] = w]
      BY DEF Begin
<1>3. /\ w \in WorkerState /\ w.pc = "notify"
      /\ w.claimed = old.claimed /\ w.failures = old.failures
      BY <1>1 DEF WorkerState
<1> HIDE DEF w
<1>4. HandsSound(w) /\ Busy(w) /\ Busy(old) /\ ~LaterClaim(old.pc)
      BY <1>1, <1>3 DEF HandsSound, Busy, LaterClaim
<1>5. \A p : InHands(old, p) => InHands(w, p)
      BY <1>3 DEF InHands
<1>6. /\ UNCHANGED <<full, attempt, retries, retryTimer, loose, task, callers, due, givenUp, letGo, mutations>>
      /\ retryTimer \in [Peers -> Attempts] /\ givenUp \subseteq Peers /\ letGo \subseteq Peers
      BY DEF Begin, work, UpdateIndInv, WorkType
<1>7. QED  BY <1>1, <1>2, <1>3, <1>4, <1>5, <1>6, PassesOn

\* The announcement cannot start: it is retried as a whole, left to the
\* broadcast asked for meanwhile, or given up; claimed retries fail.
LEMMA CannotStartKeeps ==
    ASSUME UpdateIndInv, NEW i, CannotStart(i)
    PROVE  UpdateIndInv'
<1> DEFINE old == workers[i]
<1>1. /\ i \in DOMAIN workers /\ old \in WorkerState
      /\ old.pc = "claimed" /\ HandsSound(old)
      BY AtFacts DEF CannotStart
<1>2. old.failures = None /\ Busy(old) /\ ~LaterClaim(old.pc)
      BY <1>1 DEF HandsSound, Busy, LaterClaim
<1>3. None \in [Peers -> 0..MaxAttempts] /\ None \in [Peers -> Attempts]
      BY UpdateAssumption DEF None, Attempts
<1>4. /\ UNCHANGED <<loose, task, callers, due, letGo, mutations>>
      /\ retryTimer \in [Peers -> Attempts] /\ givenUp \subseteq Peers /\ letGo \subseteq Peers /\ due \subseteq Peers
      BY DEF CannotStart, UpdateIndInv, WorkType
<1>5. CASE ~old.full
  <2> DEFINE w == [old EXCEPT !.pc = "retry", !.claimed = None, !.failures = old.claimed]
  <2>1. workers' = [workers EXCEPT ![i] = w]
        BY <1>1, <1>5 DEF CannotStart
  <2>2. UNCHANGED <<full, attempt, retries, retryTimer, givenUp>>
        BY <1>5 DEF CannotStart, work
  <2>3. w \in WorkerState /\ w.pc = "retry" /\ w.claimed = None /\ w.failures = old.claimed
        BY <1>1, <1>3 DEF WorkerState
  <2> HIDE DEF w
  <2>4. HandsSound(w) /\ Busy(w)
        BY <2>3 DEF HandsSound, Busy
  <2>5. \A p \in Peers : InHands(old, p) => InHands(w, p)
        BY <1>2, <2>3 DEF InHands, None
  <2>6. QED  BY <1>1, <1>2, <1>4, <2>1, <2>2, <2>3, <2>4, <2>5, PassesOn
<1>6. CASE old.full
  <2>1. CASE old.attempt + 1 >= MaxAttempts \/ full
    <3> DEFINE w == [old EXCEPT !.pc = "ending", !.claimed = None]
    <3>1. workers' = [workers EXCEPT ![i] = w]
          BY <1>1, <1>6, <2>1 DEF CannotStart
    <3>2. /\ UNCHANGED <<full, attempt, retries, retryTimer>>
          /\ full \/ givenUp' = givenUp \cup due
          /\ givenUp' = givenUp \/ givenUp' = givenUp \cup due
          BY <1>6, <2>1 DEF CannotStart, work
    <3>3. w \in WorkerState /\ w.pc = "ending" /\ w.claimed = None /\ w.failures = None
          BY <1>1, <1>2, <1>3 DEF WorkerState
    <3> HIDE DEF w
    <3>4. HandsSound(w) /\ Busy(w)
          BY <3>3 DEF HandsSound, Busy
    <3>5. QED  BY <1>1, <1>2, <1>4, <3>1, <3>2, <3>3, <3>4, PassesOn
  <2>2. CASE ~(old.attempt + 1 >= MaxAttempts \/ full)
    <3> DEFINE w == [old EXCEPT !.pc = "fullretry", !.claimed = None]
    <3>1. workers' = [workers EXCEPT ![i] = w]
          BY <1>1, <1>6, <2>2 DEF CannotStart
    <3>2. AskFull(old.attempt + 1) /\ UNCHANGED givenUp
          BY <1>6, <2>2 DEF CannotStart
    <3>3. w \in WorkerState /\ w.pc = "fullretry" /\ w.claimed = None /\ w.failures = None
          BY <1>1, <1>2, <1>3 DEF WorkerState
    <3> HIDE DEF w
    <3>4. HandsSound(w) /\ Busy(w) /\ LaterClaim(w.pc)
          BY <3>3 DEF HandsSound, Busy, LaterClaim
    <3>5. old.attempt + 1 \in Attempts
          BY <1>1, <2>2, UpdateAssumption DEF WorkerState, Attempts
    <3>6. WorkType' /\ TaskType' /\ running' = running /\ full'
          BY <1>3, <1>4, <3>2, <3>5 DEF UpdateIndInv, WorkType, TaskType, AskFull, task
    <3>7. QED  BY <1>1, <1>2, <3>1, <3>3, <3>4, <3>6, PutKeeps
  <2>3. QED  BY <2>1, <2>2
<1>7. QED  BY <1>5, <1>6

\* The retry of the whole announcement is scheduled.
LEMMA ScheduleFullRetryKeeps ==
    ASSUME UpdateIndInv, NEW i, ScheduleFullRetry(i)
    PROVE  UpdateIndInv'
<1> DEFINE old == workers[i]
           w == [old EXCEPT !.pc = "ending"]
<1>1. /\ i \in DOMAIN workers /\ old \in WorkerState
      /\ old.pc = "fullretry" /\ HandsSound(old)
      BY AtFacts DEF ScheduleFullRetry
<1>2. workers' = [workers EXCEPT ![i] = w]
      BY DEF ScheduleFullRetry
<1>3. /\ w \in WorkerState /\ w.pc = "ending" /\ w.claimed = None /\ w.failures = None
      /\ old.claimed = None /\ old.failures = None
      BY <1>1 DEF WorkerState, HandsSound
<1> HIDE DEF w
<1>4. HandsSound(w) /\ Busy(w) /\ Busy(old)
      BY <1>1, <1>3 DEF HandsSound, Busy
<1>5. UNCHANGED <<work, loose, callers, due, givenUp, letGo, mutations>>
      BY DEF ScheduleFullRetry
<1>6. timer' = TRUE /\ UNCHANGED <<fired, running, rerun>>
      BY DEF ScheduleFullRetry, RunLater
<1>7. WorkType' /\ TaskType' /\ running' = running /\ timer'
  <2>1. WorkType'
        BY <1>5 DEF UpdateIndInv, WorkType, work
  <2>2. TaskType'
        BY <1>5, <1>6 DEF UpdateIndInv, TaskType
  <2>3. QED  BY <1>6, <2>1, <2>2
<1>8. ASSUME NEW p \in due' \ (givenUp' \cup letGo')
      PROVE  \/ full' \/ retries'[p] > 0 \/ retryTimer'[p] > 0 \/ loose'[p] # <<>>
             \/ (AnyInHands(workers, p) /\ ~InHands(old, p))
  <2>1. p \in Peers /\ p \in due \ (givenUp \cup letGo)
        BY <1>5, <1>8 DEF UpdateIndInv, WorkType
  <2>2. ~InHands(old, p)
        BY <1>3, <2>1, NoneInHands
  <2>3. QED  BY <1>5, <2>1, <2>2 DEF UpdateIndInv, Covered, work
<1>9. QED  BY <1>1, <1>2, <1>3, <1>4, <1>7, <1>8, PutKeeps

\* A claimed peer is notified: the announcement to it is done.
LEMMA NotifyPeerKeeps ==
    ASSUME UpdateIndInv, NEW i, NEW p \in Peers, NotifyPeer(i, p)
    PROVE  UpdateIndInv'
<1> DEFINE old == workers[i]
           w == [old EXCEPT !.claimed = [old.claimed EXCEPT ![p] = 0]]
<1>1. /\ i \in DOMAIN workers /\ old \in WorkerState
      /\ old.pc = "notify" /\ HandsSound(old)
      BY AtFacts DEF NotifyPeer
<1>2. workers' = [workers EXCEPT ![i] = w]
      BY DEF NotifyPeer
<1>3. /\ w \in WorkerState /\ w.pc = "notify" /\ w.failures = old.failures
      /\ \A q \in Peers \ {p} : w.claimed[q] = old.claimed[q]
      BY <1>1, UpdateAssumption DEF WorkerState
<1> HIDE DEF w
<1>4. HandsSound(w) /\ Busy(w) /\ Busy(old) /\ ~LaterClaim(old.pc)
      BY <1>1, <1>3 DEF HandsSound, Busy, LaterClaim
<1>5. \A q \in Peers \ {p} : InHands(old, q) => InHands(w, q)
      BY <1>3 DEF InHands
<1>6. /\ UNCHANGED <<full, attempt, retries, retryTimer, loose, task, callers, givenUp, letGo, mutations>>
      /\ due' = due \ {p}
      /\ retryTimer \in [Peers -> Attempts] /\ givenUp \subseteq Peers /\ letGo \subseteq Peers /\ due \subseteq Peers
      BY DEF NotifyPeer, work, UpdateIndInv, WorkType
<1>7. QED  BY <1>1, <1>2, <1>3, <1>4, <1>5, <1>6, PassesOn

\* A claimed peer answers for another library: the announcement to it is let go.
LEMMA NotifyMismatchKeeps ==
    ASSUME UpdateIndInv, NEW i, NEW p \in Peers, NotifyMismatch(i, p)
    PROVE  UpdateIndInv'
<1> DEFINE old == workers[i]
           w == [old EXCEPT !.claimed = [old.claimed EXCEPT ![p] = 0]]
<1>1. /\ i \in DOMAIN workers /\ old \in WorkerState
      /\ old.pc = "notify" /\ HandsSound(old)
      BY AtFacts DEF NotifyMismatch
<1>2. workers' = [workers EXCEPT ![i] = w]
      BY DEF NotifyMismatch
<1>3. /\ w \in WorkerState /\ w.pc = "notify" /\ w.failures = old.failures
      /\ \A q \in Peers \ {p} : w.claimed[q] = old.claimed[q]
      BY <1>1, UpdateAssumption DEF WorkerState
<1> HIDE DEF w
<1>4. HandsSound(w) /\ Busy(w) /\ Busy(old) /\ ~LaterClaim(old.pc)
      BY <1>1, <1>3 DEF HandsSound, Busy, LaterClaim
<1>5. \A q \in Peers \ {p} : InHands(old, q) => InHands(w, q)
      BY <1>3 DEF InHands
<1>6. /\ UNCHANGED <<full, attempt, retries, retryTimer, loose, task, callers, due, givenUp, mutations>>
      /\ letGo' = IF full THEN letGo ELSE letGo \cup {p}
      /\ retryTimer \in [Peers -> Attempts] /\ givenUp \subseteq Peers /\ letGo \subseteq Peers /\ due \subseteq Peers
      BY DEF NotifyMismatch, work, UpdateIndInv, WorkType
<1>7. QED  BY <1>1, <1>2, <1>3, <1>4, <1>5, <1>6, PassesOn

\* A claimed peer cannot be notified: it awaits its retry.
LEMMA NotifyFailsKeeps ==
    ASSUME UpdateIndInv, NEW i, NEW p \in Peers, NotifyFails(i, p)
    PROVE  UpdateIndInv'
<1> DEFINE old == workers[i]
           w == [old EXCEPT !.claimed = [old.claimed EXCEPT ![p] = 0],
                            !.failures = [old.failures EXCEPT ![p] = old.claimed[p]]]
<1>1. /\ i \in DOMAIN workers /\ old \in WorkerState
      /\ old.pc = "notify" /\ HandsSound(old) /\ old.claimed[p] > 0
  <2>1. At("notify", i) /\ old.claimed[p] > 0
        BY DEF NotifyFails
  <2>2. QED  BY <2>1, AtFacts
<1>2. workers' = [workers EXCEPT ![i] = w]
      BY <1>1 DEF NotifyFails
<1>3. /\ w \in WorkerState /\ w.pc = "notify" /\ w.failures[p] = old.claimed[p]
      /\ \A q \in Peers \ {p} : w.claimed[q] = old.claimed[q] /\ w.failures[q] = old.failures[q]
  <2> DEFINE c == [old.claimed EXCEPT ![p] = 0]
             f == [old.failures EXCEPT ![p] = old.claimed[p]]
  <2>1. /\ old.claimed \in [Peers -> 0..MaxAttempts] /\ old.failures \in [Peers -> 0..MaxAttempts]
        BY <1>1 DEF WorkerState
  <2>2. /\ c \in [Peers -> 0..MaxAttempts] /\ f \in [Peers -> 0..MaxAttempts]
        /\ f[p] = old.claimed[p]
        /\ \A q \in Peers \ {p} : c[q] = old.claimed[q] /\ f[q] = old.failures[q]
        BY <2>1, UpdateAssumption
  <2>3. w = [old EXCEPT !.claimed = c, !.failures = f]
        OBVIOUS
  <2> HIDE DEF c, f, w
  <2>4. w \in WorkerState /\ w.pc = "notify" /\ w.claimed = c /\ w.failures = f
        BY <1>1, <2>2, <2>3 DEF WorkerState
  <2>5. QED  BY <2>2, <2>4
<1> HIDE DEF w
<1>4. HandsSound(w) /\ Busy(w) /\ Busy(old) /\ ~LaterClaim(old.pc)
      BY <1>1, <1>3 DEF HandsSound, Busy, LaterClaim
<1>5. \A q \in Peers : InHands(old, q) => InHands(w, q)
      BY <1>1, <1>3 DEF InHands
<1>6. /\ UNCHANGED <<full, attempt, retries, retryTimer, loose, task, callers, due, givenUp, letGo, mutations>>
      /\ retryTimer \in [Peers -> Attempts] /\ givenUp \subseteq Peers /\ letGo \subseteq Peers /\ due \subseteq Peers
      BY DEF NotifyFails, work, UpdateIndInv, WorkType
<1>7. QED  BY <1>1, <1>2, <1>3, <1>4, <1>5, <1>6, PassesOn

\* Every claimed peer has been tried.
LEMMA NotifiedAllKeeps ==
    ASSUME UpdateIndInv, NEW i, NotifiedAll(i)
    PROVE  UpdateIndInv'
<1> DEFINE old == workers[i]
           w == [old EXCEPT !.pc = "retry"]
<1>1. /\ i \in DOMAIN workers /\ old \in WorkerState
      /\ old.pc = "notify" /\ HandsSound(old) /\ old.claimed = None
  <2>1. At("notify", i) /\ old.claimed = None
        BY DEF NotifiedAll
  <2>2. QED  BY <2>1, AtFacts
<1>2. workers' = [workers EXCEPT ![i] = w]
      BY DEF NotifiedAll
<1>3. /\ w \in WorkerState /\ w.pc = "retry" /\ w.claimed = None
      /\ w.claimed = old.claimed /\ w.failures = old.failures
      BY <1>1 DEF WorkerState
<1> HIDE DEF w
<1>4. HandsSound(w) /\ Busy(w) /\ Busy(old) /\ ~LaterClaim(old.pc)
      BY <1>1, <1>3 DEF HandsSound, Busy, LaterClaim
<1>5. \A q \in Peers : InHands(old, q) => InHands(w, q)
      BY <1>3 DEF InHands
<1>6. /\ UNCHANGED <<full, attempt, retries, retryTimer, loose, task, callers, due, givenUp, letGo, mutations>>
      /\ retryTimer \in [Peers -> Attempts] /\ givenUp \subseteq Peers /\ letGo \subseteq Peers /\ due \subseteq Peers
      BY DEF NotifiedAll, work, UpdateIndInv, WorkType
<1>7. QED  BY <1>1, <1>2, <1>3, <1>4, <1>5, <1>6, PassesOn

\* A peer that failed gets its retry timer, within the limit of attempts.
LEMMA RetryPeerKeeps ==
    ASSUME UpdateIndInv, NEW i, NEW p \in Peers, RetryPeer(i, p)
    PROVE  UpdateIndInv'
<1> DEFINE old == workers[i]
           a == old.failures[p]
           w == [old EXCEPT !.failures = [old.failures EXCEPT ![p] = 0]]
<1>1. /\ i \in DOMAIN workers /\ old \in WorkerState
      /\ old.pc = "retry" /\ HandsSound(old) /\ a > 0
  <2>1. At("retry", i) /\ a > 0
        BY DEF RetryPeer
  <2>2. QED  BY <2>1, AtFacts
<1>2. workers' = [workers EXCEPT ![i] = w]
      BY DEF RetryPeer
<1>3. /\ w \in WorkerState /\ w.pc = "retry" /\ w.claimed = old.claimed
      /\ \A q \in Peers \ {p} : w.failures[q] = old.failures[q]
      BY <1>1, UpdateAssumption DEF WorkerState
<1> HIDE DEF w
<1>4. HandsSound(w) /\ Busy(w) /\ Busy(old) /\ ~LaterClaim(old.pc)
      BY <1>1, <1>3 DEF HandsSound, Busy, LaterClaim
<1>5. \A q \in Peers \ {p} : InHands(old, q) => InHands(w, q)
      BY <1>3 DEF InHands
<1>6. /\ UNCHANGED <<full, attempt, retries, loose, task, callers, due, letGo, mutations>>
      /\ retryTimer \in [Peers -> Attempts] /\ givenUp \subseteq Peers /\ letGo \subseteq Peers /\ due \subseteq Peers
      BY DEF RetryPeer, UpdateIndInv, WorkType
<1>7. CASE a >= MaxAttempts
  <2>1. /\ (full /\ givenUp' = givenUp) \/ givenUp' = givenUp \cup {p}
        /\ retryTimer' = retryTimer
        BY <1>7 DEF RetryPeer
  <2>2. QED  BY <1>1, <1>2, <1>3, <1>4, <1>5, <1>6, <2>1, PassesOn
<1>8. CASE ~(a >= MaxAttempts)
  <2>1. /\ givenUp' = givenUp
        /\ retryTimer' = IF full THEN retryTimer ELSE [retryTimer EXCEPT ![p] = a]
        BY <1>8 DEF RetryPeer
  <2>2. a \in Attempts
        BY <1>1, <1>8, UpdateAssumption DEF WorkerState, Attempts
  <2>3. /\ retryTimer' \in [Peers -> Attempts] /\ (full \/ retryTimer'[p] > 0)
        /\ \A q \in Peers : retryTimer[q] > 0 => retryTimer'[q] > 0
        BY <1>1, <1>6, <2>1, <2>2
  <2>4. QED  BY <1>1, <1>2, <1>3, <1>4, <1>5, <1>6, <2>1, <2>3, PassesOn
<1>9. QED  BY <1>7, <1>8

\* Every retry is scheduled.
LEMMA RetriedAllKeeps ==
    ASSUME UpdateIndInv, NEW i, RetriedAll(i)
    PROVE  UpdateIndInv'
<1> DEFINE old == workers[i]
           w == [old EXCEPT !.pc = "ending"]
<1>1. /\ i \in DOMAIN workers /\ old \in WorkerState
      /\ old.pc = "retry" /\ HandsSound(old) /\ old.failures = None
  <2>1. At("retry", i) /\ old.failures = None
        BY DEF RetriedAll
  <2>2. QED  BY <2>1, AtFacts
<1>2. workers' = [workers EXCEPT ![i] = w]
      BY DEF RetriedAll
<1>3. /\ w \in WorkerState /\ w.pc = "ending" /\ w.failures = None /\ w.claimed = None
      /\ w.claimed = old.claimed /\ w.failures = old.failures
      BY <1>1 DEF WorkerState, HandsSound
<1> HIDE DEF w
<1>4. HandsSound(w) /\ Busy(w) /\ Busy(old) /\ ~LaterClaim(old.pc)
      BY <1>1, <1>3 DEF HandsSound, Busy, LaterClaim
<1>5. \A q \in Peers : InHands(old, q) => InHands(w, q)
      BY <1>3 DEF InHands
<1>6. /\ UNCHANGED <<full, attempt, retries, retryTimer, loose, task, callers, due, givenUp, letGo, mutations>>
      /\ retryTimer \in [Peers -> Attempts] /\ givenUp \subseteq Peers /\ letGo \subseteq Peers /\ due \subseteq Peers
      BY DEF RetriedAll, work, UpdateIndInv, WorkType
<1>7. QED  BY <1>1, <1>2, <1>3, <1>4, <1>5, <1>6, PassesOn

\* The lane is given up, by a worker that owes it a rerun or leaves.
LEMMA ReleaseKeeps ==
    ASSUME UpdateIndInv, NEW i, Release(i)
    PROVE  UpdateIndInv'
<1> DEFINE old == workers[i]
<1>1. /\ i \in DOMAIN workers /\ old \in WorkerState
      /\ old.pc = "ending" /\ HandsSound(old)
      BY AtFacts DEF Release
<1>2. old.claimed = None /\ old.failures = None /\ Busy(old)
      BY <1>1 DEF HandsSound, Busy
<1>3. /\ UNCHANGED <<work, loose, timer, fired, callers, due, givenUp, letGo, mutations>>
      /\ running' = FALSE /\ rerun' = FALSE
      BY DEF Release
<1>4. WorkType' /\ TaskType'
  <2>1. WorkType'
        BY <1>3 DEF UpdateIndInv, WorkType, work
  <2>2. TaskType'
        BY <1>3 DEF UpdateIndInv, TaskType
  <2>3. QED  BY <2>1, <2>2
<1>5. Keeps(workers, i, workers') /\ WorkersSound(workers', FALSE)
      /\ (rerun => AnyToClaim(workers'))
  <2>1. CASE rerun
    <3> DEFINE w == Worker("rerun")
    <3>1. workers' = [workers EXCEPT ![i] = w]
          BY <2>1 DEF Release
    <3>2. w \in WorkerState /\ w.pc = "rerun" /\ HandsSound(w) /\ ~Busy(w)
          BY UpdateAssumption DEF Worker, WorkerState, HandsSound, Busy, None, Attempts
    <3> HIDE DEF w
    <3>3. Keeps(workers, i, workers') /\ Shows(workers', w) /\ WorkersSound(workers', Busy(w))
          BY <1>1, <1>2, <3>1, <3>2, PutFacts DEF UpdateIndInv, TaskType
    <3>4. QED  BY <3>2, <3>3 DEF WorkersSound, Shows
  <2>2. CASE ~rerun
    <3>1. workers' = RemoveAt(workers, i)
          BY <2>2 DEF Release
    <3>2. Keeps(workers, i, workers') /\ WorkersSound(workers', running /\ ~Busy(old))
          BY <1>1, <3>1, RemoveFacts DEF UpdateIndInv, TaskType
    <3>3. QED  BY <1>2, <2>2, <3>2 DEF WorkersSound
  <2>3. QED  BY <2>1, <2>2
<1>6. Pending' => ClaimToCome'
      BY <1>1, <1>3, <1>5 DEF UpdateIndInv, Pending, ClaimToCome, AnyToClaim, Keeps, work
<1>7. ASSUME NEW p \in due' \ (givenUp' \cup letGo') PROVE Covered(p)'
  <2>1. p \in Peers /\ Covered(p)
        BY <1>3, <1>7 DEF UpdateIndInv, WorkType
  <2>2. ~InHands(old, p)
        BY <1>2, <2>1, NoneInHands
  <2>3. QED  BY <1>3, <1>5, <2>1, <2>2 DEF Covered, Keeps, work
<1>8. WorkersSound(workers', running')
      BY <1>3, <1>5
<1>9. QED  BY <1>4, <1>6, <1>7, <1>8 DEF UpdateIndInv

\* The rerun that is owed starts, unless another worker is there to do it.
LEMMA RerunKeeps ==
    ASSUME UpdateIndInv, NEW i, Rerun(i)
    PROVE  UpdateIndInv'
<1> DEFINE old == workers[i]
           rest == RemoveAt(workers, i)
<1>1. /\ i \in DOMAIN workers /\ old \in WorkerState
      /\ old.pc = "rerun" /\ HandsSound(old)
      BY AtFacts DEF Rerun
<1>2. old.claimed = None /\ old.failures = None /\ ~Busy(old)
      BY <1>1 DEF HandsSound, Busy
<1>3. Keeps(workers, i, rest) /\ WorkersSound(rest, running)
  <2>1. Keeps(workers, i, rest) /\ WorkersSound(rest, running /\ ~Busy(old))
        BY <1>1, RemoveFacts DEF UpdateIndInv, TaskType
  <2> HIDE DEF rest
  <2>2. QED  BY <1>2, <2>1 DEF WorkersSound
<1>4. RunNow(rest)
      BY DEF Rerun
<1> HIDE DEF rest
<1>5. /\ timer' \in BOOLEAN /\ running' \in BOOLEAN /\ rerun' \in BOOLEAN
      /\ WorkersSound(workers', running')
      /\ (running' /\ rerun') \/ AnyToClaim(workers')
      /\ \A p : AnyInHands(rest, p) => AnyInHands(workers', p)
      BY <1>3, <1>4, RunNowFacts DEF UpdateIndInv, TaskType
<1>6. UNCHANGED <<work, loose, fired, callers, due, givenUp, letGo, mutations>>
      BY DEF Rerun
<1>7. WorkType' /\ TaskType'
      BY <1>5, <1>6 DEF UpdateIndInv, WorkType, TaskType, work
<1>8. ClaimToCome'
      BY <1>5 DEF ClaimToCome, AnyToClaim
<1>9. ASSUME NEW p \in due' \ (givenUp' \cup letGo') PROVE Covered(p)'
  <2>1. p \in Peers /\ Covered(p)
        BY <1>6, <1>9 DEF UpdateIndInv, WorkType
  <2>2. ~InHands(old, p)
        BY <1>2, <2>1, NoneInHands
  <2>3. QED  BY <1>3, <1>5, <1>6, <2>1, <2>2 DEF Covered, Keeps, work
<1>10. QED  BY <1>5, <1>7, <1>8, <1>9 DEF UpdateIndInv

-----------------------------------------------------------------------------
(* The theorem. *)

\* No action breaks the inductive invariant.
LEMMA UpdateInductive == UpdateIndInv /\ [Next]_vars => UpdateIndInv'
<1>1. SUFFICES ASSUME UpdateIndInv, [Next]_vars
               PROVE  UpdateIndInv'
      OBVIOUS
<1>2. CASE UNCHANGED vars
  <2>1. WorkType' /\ TaskType'
        BY <1>1, <1>2 DEF UpdateIndInv, WorkType, TaskType, vars, work, task
  <2>2. WorkersSound(workers, running)'
        BY <1>1, <1>2 DEF UpdateIndInv, vars, task
  <2>3. (Pending => ClaimToCome)' /\ (\A p \in due \ (givenUp \cup letGo) : Covered(p))'
        BY <1>1, <1>2 DEF UpdateIndInv, Pending, ClaimToCome, Covered, vars, work, task
  <2>4. QED  BY <2>1, <2>2, <2>3 DEF UpdateIndInv
<1>3. CASE Mutate \/ ScheduleBroadcast \/ Fire \/ Trigger
      BY <1>1, <1>3, MutateKeeps, ScheduleBroadcastKeeps, FireKeeps, TriggerKeeps
<1>4. ASSUME NEW p \in Peers, FireRetry(p) \/ TriggerRetry(p)
      PROVE  UpdateIndInv'
      BY <1>1, <1>4, FireRetryKeeps, TriggerRetryKeeps
<1>5. ASSUME NEW i, WorkerStep(i)
      PROVE  UpdateIndInv'
  <2>1. CASE \E p \in Peers :
               NotifyPeer(i, p) \/ NotifyMismatch(i, p) \/ NotifyFails(i, p) \/ RetryPeer(i, p)
        BY <1>1, <2>1, NotifyPeerKeeps, NotifyMismatchKeeps, NotifyFailsKeeps, RetryPeerKeeps
  <2>2. CASE \/ Claim(i) \/ LocalContextFails(i) \/ Begin(i) \/ CannotStart(i) \/ ScheduleFullRetry(i)
             \/ NotifiedAll(i) \/ RetriedAll(i) \/ Release(i) \/ Rerun(i)
        BY <1>1, <2>2, ClaimKeeps, LocalContextFailsKeeps, BeginKeeps, CannotStartKeeps, ScheduleFullRetryKeeps,
           NotifiedAllKeeps, RetriedAllKeeps, ReleaseKeeps, RerunKeeps
  <2>3. QED  BY <1>5, <2>1, <2>2 DEF WorkerStep
<1>6. QED  BY <1>1, <1>2, <1>3, <1>4, <1>5 DEF Next

\* Debounces, retries, reruns and timers that can no longer be stopped neither
\* lose an announcement nor start a second notifier nor retry past the limit; only
\* an unreadable local context and a peer of another library end one unannounced.
THEOREM AnnouncementsKept == Spec => []UpdateInv
<1>1. UpdateIndInv => UpdateInv
  <2>1. SUFFICES ASSUME UpdateIndInv PROVE UpdateInv
        OBVIOUS
  <2>2. UpdateTypeOK
    <3>1. ASSUME NEW p \in Peers, NEW i \in DOMAIN loose[p]
          PROVE  loose[p][i] \in Attempts \ {0}
      <4>1. loose[p] \in Seq(Attempts \ {0})
            BY <2>1 DEF UpdateIndInv, WorkType
      <4>2. QED  BY <4>1, <3>1, LenProperties, ElementOfSeq
    <3>2. ASSUME NEW i \in DOMAIN workers PROVE workers[i] \in WorkerState
      <4>1. workers \in Seq(WorkerState)
            BY <2>1 DEF UpdateIndInv, WorkersSound
      <4>2. QED  BY <4>1, <3>2, LenProperties, ElementOfSeq
    <3>3. QED  BY <2>1, <3>1, <3>2
               DEF UpdateIndInv, WorkType, TaskType, UpdateTypeOK, WorkerState
  <2>3. OneNotifier
    <3> DEFINE notifying == {i \in DOMAIN workers : workers[i].pc # "rerun"}
    <3>1. \A i, j \in notifying : i = j
          BY <2>1 DEF UpdateIndInv, WorkersSound, OneBusy, Busy
    <3>2. running <=> notifying # {}
          BY <2>1 DEF UpdateIndInv, WorkersSound, SomeBusy, Busy
    <3>3. Cardinality(notifying) <= 1
      <4> HIDE DEF notifying
      <4>1. QED  BY <3>1, AtMostOne
    <3>4. QED  BY <3>2, <3>3 DEF OneNotifier
  <2>4. AnnouncementHeld
        BY <2>1 DEF UpdateIndInv, AnnouncementHeld, Pending, Covered, AnyInHands, InHands, WorkType
  <2>5. QED  BY <2>2, <2>3, <2>4 DEF UpdateInv
<1>2. QED  BY <1>1, UpdateInit, UpdateInductive, PTL DEF Spec
=============================================================================
