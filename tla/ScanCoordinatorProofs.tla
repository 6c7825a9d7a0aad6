----------------------- MODULE ScanCoordinatorProofs -----------------------
(***************************************************************************)
(* Theorems about ScanCoordinator, for any paths, scan roots and bounds:   *)
(* the queue keeps its worker and finishes a request once, and no change   *)
(* on disk is forgotten but by a request dropped for a pass under way.     *)
(***************************************************************************)
EXTENDS ScanCoordinator, SequenceTheorems, FiniteSetTheorems, WellFoundedInduction, TLAPS

-----------------------------------------------------------------------------
(* What is left of a queue after an element was taken out of it or added. *)

\* Taking out element i moves the later ones up by one.
LEMMA RemoveAtProperties ==
    ASSUME NEW S, NEW s \in Seq(S), NEW i \in 1..Len(s)
    PROVE  /\ RemoveAt(s, i) \in Seq(S)
           /\ Len(RemoveAt(s, i)) = Len(s) - 1
           /\ \A j \in 1..(Len(s) - 1) :
                 RemoveAt(s, i)[j] = IF j < i THEN s[j] ELSE s[j + 1]
<1> DEFINE a == SubSeq(s, 1, i - 1)
           b == SubSeq(s, i + 1, Len(s))
<1>1. Len(s) \in Nat /\ \A j \in 1..Len(s) : s[j] \in S
      BY LenProperties, ElementOfSeq
<1>2. a \in Seq(S) /\ Len(a) = i - 1 /\ \A j \in 1..(i - 1) : a[j] = s[j]
  <2>1. \A j \in 1..(i - 1) : s[j] \in S
        BY <1>1
  <2>2. QED  BY <1>1, <2>1, SubSeqProperties
<1>3. b \in Seq(S) /\ Len(b) = Len(s) - i /\ \A j \in 1..(Len(s) - i) : b[j] = s[j + i]
  <2>1. \A j \in (i + 1)..Len(s) : s[j] \in S
        BY <1>1
  <2>2. QED  BY <1>1, <2>1, SubSeqProperties
<1>4. RemoveAt(s, i) = a \o b
      BY DEF RemoveAt
<1> HIDE DEF a, b
<1>5. /\ a \o b \in Seq(S)
      /\ Len(a \o b) = Len(a) + Len(b)
      /\ \A k \in 1..(Len(a) + Len(b)) :
            (a \o b)[k] = IF k <= Len(a) THEN a[k] ELSE b[k - Len(a)]
      BY <1>2, <1>3, ConcatProperties
<1>6. QED  BY <1>1, <1>2, <1>3, <1>4, <1>5

\* The elements of new are those of s without i, each at an index of its own.
Leaves(s, i, new) ==
    \E f \in [DOMAIN new -> DOMAIN s \ {i}] :
        /\ \A j \in DOMAIN new : new[j] = s[f[j]]
        /\ \A j, k \in DOMAIN new : f[j] = f[k] => j = k
        /\ \A k \in DOMAIN s \ {i} : \E j \in DOMAIN new : f[j] = k

LEMMA RemoveAtMap ==
    ASSUME NEW S, NEW s \in Seq(S), NEW i \in DOMAIN s
    PROVE  RemoveAt(s, i) \in Seq(S) /\ Leaves(s, i, RemoveAt(s, i))
<1>1. PICK n \in Nat : n = Len(s) /\ DOMAIN s = 1..n
      BY LenProperties
<1>2. /\ RemoveAt(s, i) \in Seq(S)
      /\ Len(RemoveAt(s, i)) = n - 1
      /\ \A j \in 1..(n - 1) : RemoveAt(s, i)[j] = IF j < i THEN s[j] ELSE s[j + 1]
      BY <1>1, RemoveAtProperties
<1> DEFINE new == RemoveAt(s, i)
           f == [j \in 1..(n - 1) |-> IF j < i THEN j ELSE j + 1]
<1> HIDE DEF new
<1>3. DOMAIN new = 1..(n - 1)
      BY <1>2, LenProperties DEF new
<1>4. f \in [1..(n - 1) -> (1..n) \ {i}]
      BY <1>1
<1>5. \A j \in 1..(n - 1) : new[j] = s[f[j]]
      BY <1>2 DEF new
<1>6. \A j, k \in 1..(n - 1) : f[j] = f[k] => j = k
      BY <1>1
<1>7. ASSUME NEW k \in (1..n) \ {i} PROVE \E j \in 1..(n - 1) : f[j] = k
  <2>1. CASE k < i
    <3>1. k \in 1..(n - 1) /\ f[k] = k
          BY <1>1, <2>1
    <3>2. QED  BY <3>1
  <2>2. CASE k > i
    <3>1. k - 1 \in 1..(n - 1) /\ f[k - 1] = k
          BY <1>1, <2>2
    <3>2. QED  BY <3>1
  <2>3. QED  BY <1>1, <2>1, <2>2
<1> HIDE DEF f
<1>8. /\ f \in [DOMAIN new -> DOMAIN s \ {i}]
      /\ \A j \in DOMAIN new : new[j] = s[f[j]]
      /\ \A j, k \in DOMAIN new : f[j] = f[k] => j = k
      /\ \A k \in DOMAIN s \ {i} : \E j \in DOMAIN new : f[j] = k
      BY <1>1, <1>3, <1>4, <1>5, <1>6, <1>7
<1>9. Leaves(s, i, new)
      BY <1>8 DEF Leaves
<1>10. QED  BY <1>2, <1>9 DEF new

\* Appending adds one index.
LEMMA AppendMap ==
    ASSUME NEW S, NEW s \in Seq(S), NEW x \in S
    PROVE  /\ Append(s, x) \in Seq(S)
           /\ \E k : /\ k \notin DOMAIN s
                     /\ DOMAIN Append(s, x) = DOMAIN s \cup {k}
                     /\ Append(s, x)[k] = x
                     /\ \A j \in DOMAIN s : Append(s, x)[j] = s[j]
<1>1. PICK n \in Nat : n = Len(s) /\ DOMAIN s = 1..n
      BY LenProperties
<1>2. /\ Append(s, x) \in Seq(S) /\ Len(Append(s, x)) = n + 1
      /\ Append(s, x)[n + 1] = x /\ \A j \in 1..n : Append(s, x)[j] = s[j]
      BY <1>1, AppendProperties
<1>3. DOMAIN Append(s, x) = 1..(n + 1)
      BY <1>2, LenProperties
<1>4. 1..(n + 1) = (1..n) \cup {n + 1} /\ n + 1 \notin 1..n
      OBVIOUS
<1>5. QED  BY <1>1, <1>2, <1>3, <1>4

\* A set of numbers has a least element: among the intervals up to its elements
\* one contains no other, since strict inclusion of finite sets is well-founded.
LEMMA MinProperties ==
    ASSUME NEW T \in SUBSET Nat, T # {}
    PROVE  Min(T) \in T /\ \A y \in T : Min(T) <= y
<1> DEFINE below == {1..x : x \in T}
<1>1. below \subseteq FiniteSubsetsOf(Nat)
  <2>1. SUFFICES ASSUME NEW x \in T PROVE 1..x \in FiniteSubsetsOf(Nat)
        OBVIOUS
  <2>2. IsFiniteSet(1..x)
        BY FS_Interval
  <2>3. QED  BY <2>2 DEF FiniteSubsetsOf
<1>2. below # {}
      OBVIOUS
<1>3. \E X \in below : \A Y \in below : <<Y, X>> \notin StrictSubsetOrdering(Nat)
  <2> HIDE DEF below
  <2>1. QED  BY <1>1, <1>2, FS_StrictSubsetOrderingWellFounded, WFMin
<1>4. PICK x \in T : \A y \in T : <<1..y, 1..x>> \notin StrictSubsetOrdering(Nat)
      BY <1>3
<1>5. ASSUME NEW y \in T, y < x PROVE FALSE
  <2>1. 1..y \subseteq 1..x /\ x \in 1..x /\ x \notin 1..y
        BY <1>5
  <2>2. 1..y \in SUBSET Nat /\ 1..x \in SUBSET Nat /\ 1..y # 1..x
        BY <2>1
  <2>3. <<1..y, 1..x>> \in StrictSubsetOrdering(Nat)
        BY <2>1, <2>2, Zenon DEF StrictSubsetOrdering
  <2>4. QED  BY <1>4, <2>3
<1>6. \A y \in T : x <= y
      BY <1>5
<1>7. QED  BY <1>6 DEF Min

\* A set with one index at most.
LEMMA AtMostOne ==
    ASSUME NEW T, \A i, j \in T : i = j
    PROVE  Cardinality(T) <= 1
<1>1. CASE T = {}
  <2>1. Cardinality({}) = 0
        BY FS_EmptySet
  <2>2. QED  BY <1>1, <2>1
<1>2. ASSUME NEW x \in T PROVE Cardinality(T) <= 1
  <2>1. T = {x}
        OBVIOUS
  <2>2. Cardinality({x}) = 1
        BY FS_Singleton
  <2>3. QED  BY <2>1, <2>2
<1>3. QED  BY <1>1, <1>2

-----------------------------------------------------------------------------
(* What Select leaves of a queue.                                          *)

\* The elements of new are those of s at the indices in from, one index each.
Picks(s, from, new) ==
    \E f \in [DOMAIN new -> from] :
        /\ \A j \in DOMAIN new : new[j] = s[f[j]]
        /\ \A j, k \in DOMAIN new : f[j] = f[k] => j = k
        /\ \A k \in from : \E j \in DOMAIN new : f[j] = k

\* The recursive function of Select up to n.
Picked(s, keep, n, p) ==
    p = [m \in 0..n |-> IF m = 0 THEN <<>>
                        ELSE IF s[m] \in keep THEN Append(p[m - 1], s[m]) ELSE p[m - 1]]

\* There is such a function: the least n without one would extend that of n - 1.
LEMMA PickedExists ==
    ASSUME NEW s, NEW keep, NEW N \in Nat
    PROVE  \E p : Picked(s, keep, N, p)
<1> DEFINE bad == {n \in Nat : \A p : ~Picked(s, keep, n, p)}
<1>1. SUFFICES ASSUME bad # {} PROVE FALSE
      OBVIOUS
<1>2. PICK n \in bad : \A y \in bad : n <= y
      BY <1>1, MinProperties
<1>3. CASE n = 0
  <2> DEFINE p == [m \in 0..0 |-> <<>>]
  <2>1. p = [m \in 0..0 |-> IF m = 0 THEN <<>>
                            ELSE IF s[m] \in keep THEN Append(p[m - 1], s[m]) ELSE p[m - 1]]
        OBVIOUS
  <2>2. Picked(s, keep, 0, p)
        BY <2>1 DEF Picked
  <2>3. QED  BY <1>3, <2>2
<1>4. CASE n # 0
  <2>1. n \in Nat /\ n - 1 \in Nat /\ n - 1 \notin bad
        BY <1>2, <1>4
  <2>2. PICK p : Picked(s, keep, n - 1, p)
        BY <2>1
  <2> DEFINE x == IF s[n] \in keep THEN Append(p[n - 1], s[n]) ELSE p[n - 1]
             q == [m \in 0..n |-> IF m = n THEN x ELSE p[m]]
  <2>3. \A m \in 0..(n - 1) :
           p[m] = IF m = 0 THEN <<>>
                  ELSE IF s[m] \in keep THEN Append(p[m - 1], s[m]) ELSE p[m - 1]
        BY <2>1, <2>2 DEF Picked
  <2>4. \A m \in 0..n :
           q[m] = IF m = 0 THEN <<>>
                  ELSE IF s[m] \in keep THEN Append(q[m - 1], s[m]) ELSE q[m - 1]
    <3>1. ASSUME NEW m \in 0..n
          PROVE  q[m] = IF m = 0 THEN <<>>
                        ELSE IF s[m] \in keep THEN Append(q[m - 1], s[m]) ELSE q[m - 1]
      <4>1. CASE m = n
        <5>1. q[m] = x /\ q[m - 1] = p[m - 1]
              BY <1>4, <2>1, <4>1
        <5>2. QED  BY <1>4, <4>1, <5>1
      <4>2. CASE m # n
        <5>1. m \in 0..(n - 1) /\ q[m] = p[m] /\ (m # 0 => q[m - 1] = p[m - 1])
              BY <2>1, <4>2
        <5> HIDE DEF q, x
        <5>2. QED  BY <2>3, <5>1
      <4>3. QED  BY <4>1, <4>2
    <3>2. QED  BY <3>1
  <2>5. q = [m \in 0..n |-> q[m]]
        OBVIOUS
  <2> HIDE DEF q, x
  <2>6. q = [m \in 0..n |-> IF m = 0 THEN <<>>
                            ELSE IF s[m] \in keep THEN Append(q[m - 1], s[m]) ELSE q[m - 1]]
        BY <2>4, <2>5, Zenon
  <2>7. Picked(s, keep, n, q)
        BY <2>6 DEF Picked
  <2>8. QED  BY <2>7
<1>5. QED  BY <1>3, <1>4

\* Nothing is picked from nowhere.
LEMMA NothingPicked == ASSUME NEW s PROVE Picks(s, {}, <<>>)
<1>1. DOMAIN <<>> = {}
      OBVIOUS
<1>2. [j \in {} |-> j] \in [{} -> {}]
      OBVIOUS
<1>3. QED  BY <1>1, <1>2 DEF Picks

\* One more element: it is appended, or left out.
LEMMA PicksMore ==
    ASSUME NEW S, NEW s, NEW old \in Seq(S), NEW from, NEW n, n \notin from, s[n] \in S,
           Picks(s, from, old)
    PROVE  Append(old, s[n]) \in Seq(S) /\ Picks(s, from \cup {n}, Append(old, s[n]))
<1> DEFINE new == Append(old, s[n])
<1>1. PICK k : /\ k \notin DOMAIN old
               /\ DOMAIN new = DOMAIN old \cup {k}
               /\ new[k] = s[n]
               /\ \A j \in DOMAIN old : new[j] = old[j]
      BY AppendMap
<1>2. new \in Seq(S)
      BY AppendMap
<1> HIDE DEF new
<1>3. PICK f \in [DOMAIN old -> from] :
        /\ \A j \in DOMAIN old : old[j] = s[f[j]]
        /\ \A j, m \in DOMAIN old : f[j] = f[m] => j = m
        /\ \A m \in from : \E j \in DOMAIN old : f[j] = m
      BY DEF Picks
<1> DEFINE g == [j \in DOMAIN new |-> IF j = k THEN n ELSE f[j]]
<1>4. g \in [DOMAIN new -> from \cup {n}]
      BY <1>1
<1>5. \A j \in DOMAIN new : new[j] = s[g[j]]
      BY <1>1, <1>3
<1>6. \A j, m \in DOMAIN new : g[j] = g[m] => j = m
      BY <1>1, <1>3
<1>7. \A m \in from \cup {n} : \E j \in DOMAIN new : g[j] = m
      BY <1>1, <1>3
<1> HIDE DEF g
<1>8. Picks(s, from \cup {n}, new)
      BY <1>4, <1>5, <1>6, <1>7 DEF Picks
<1>9. QED  BY <1>2, <1>8 DEF new

\* Select keeps exactly the elements it is told to.
LEMMA SelectPicks ==
    ASSUME NEW S, NEW s \in Seq(S), NEW keep
    PROVE  /\ Select(s, keep) \in Seq(S)
           /\ Picks(s, {k \in DOMAIN s : s[k] \in keep}, Select(s, keep))
<1>1. PICK N \in Nat : N = Len(s) /\ DOMAIN s = 1..N /\ \A k \in 1..N : s[k] \in S
      BY LenProperties, ElementOfSeq
<1> DEFINE p == CHOOSE g : Picked(s, keep, N, g)
<1>2. Select(s, keep) = p[N]
      BY <1>1 DEF Select, Picked
<1>3. Picked(s, keep, N, p)
      BY PickedExists
<1> HIDE DEF p
<1>4. \A m \in 0..N : p[m] = IF m = 0 THEN <<>>
                             ELSE IF s[m] \in keep THEN Append(p[m - 1], s[m]) ELSE p[m - 1]
      BY <1>3, Zenon DEF Picked
<1> DEFINE from(m) == {k \in 1..m : s[k] \in keep}
           Right(m) == p[m] \in Seq(S) /\ Picks(s, from(m), p[m])
           bad == {m \in 0..N : ~Right(m)}
<1>5. ASSUME bad # {} PROVE FALSE
  <2>1. PICK n \in bad : \A y \in bad : n <= y
    <3>1. bad \in SUBSET Nat
          BY <1>1
    <3> HIDE DEF bad
    <3>2. QED  BY <1>5, <3>1, MinProperties
  <2>2. CASE n = 0
    <3>1. 0 \in 0..N /\ p[0] = <<>>
          BY <1>1, <1>4
    <3>2. from(0) = {}
          OBVIOUS
    <3>3. Picks(s, {}, <<>>)
          BY NothingPicked
    <3>4. <<>> \in Seq(S)
          OBVIOUS
    <3>5. Right(0)
          BY <3>1, <3>2, <3>3, <3>4
    <3>6. QED  BY <2>1, <2>2, <3>5
  <2>3. CASE n # 0
    <3>1. n \in 1..N /\ n - 1 \in 0..N /\ n - 1 \notin bad
      <4> HIDE DEF Right
      <4>1. n \in 0..N
            OBVIOUS
      <4> HIDE DEF bad
      <4>2. QED  BY <1>1, <2>1, <2>3, <4>1
    <3>2. Right(n - 1)
      <4> HIDE DEF Right
      <4>1. QED  BY <3>1
    <3>3. s[n] \in S /\ n \notin from(n - 1)
      <4>1. n \notin 1..(n - 1)
            BY <3>1
      <4>2. QED  BY <1>1, <3>1, <4>1
    <3>4. 1..n = (1..(n - 1)) \cup {n}
          BY <3>1
    <3>5. CASE s[n] \in keep
      <4>1. p[n] = Append(p[n - 1], s[n])
        <5>1. n \in 0..N /\ n # 0
              BY <1>1, <3>1
        <5>2. QED  BY <1>4, <3>5, <5>1, Zenon
      <4>2. from(n) = from(n - 1) \cup {n}
        <5> DEFINE all == 1..n
                   less == 1..(n - 1)
        <5>1. all = less \cup {n}
              BY <3>4, Zenon
        <5> HIDE DEF all, less
        <5>2. {k \in all : s[k] \in keep} = {k \in less : s[k] \in keep} \cup {n}
              BY <3>5, <5>1
        <5>3. QED  BY <5>2 DEF all, less
      <4> DEFINE o == p[n - 1]
                 fr == from(n - 1)
      <4>3. o \in Seq(S) /\ Picks(s, fr, o) /\ n \notin fr /\ s[n] \in S
            BY <3>2, <3>3
      <4>4. p[n] = Append(o, s[n]) /\ from(n) = fr \cup {n}
            BY <4>1, <4>2
      <4> HIDE DEF o, fr, from
      <4>5. Append(o, s[n]) \in Seq(S) /\ Picks(s, fr \cup {n}, Append(o, s[n]))
            BY <4>3, PicksMore
      <4>6. Right(n)
            BY <4>4, <4>5
      <4>7. QED  BY <2>1, <4>6
    <3>6. CASE s[n] \notin keep
      <4>1. p[n] = p[n - 1]
            BY <1>1, <1>4, <3>1, <3>6
      <4>2. from(n) = from(n - 1)
            BY <3>4, <3>6
      <4>3. Right(n)
            BY <3>2, <4>1, <4>2
      <4>4. QED  BY <2>1, <4>3
    <3>7. QED  BY <3>5, <3>6
  <2>4. QED  BY <2>2, <2>3
<1>6. Right(N)
  <2> HIDE DEF Right
  <2>1. N \in 0..N
        BY <1>1
  <2>2. QED  BY <1>5, <2>1, Zenon
<1>7. from(N) = {k \in DOMAIN s : s[k] \in keep}
      BY <1>1
<1>8. p[N] \in Seq(S) /\ Picks(s, from(N), p[N])
      BY <1>6, Zenon
<1>9. QED  BY <1>2, <1>7, <1>8

-----------------------------------------------------------------------------
(* The inductive invariant of the queue.                                   *)

Drafts == [class : Classes, paths : SUBSET Paths]
Admitted == [id : Nat, class : Classes, paths : SUBSET Paths]
Phases == {"queued", "running", "completed", "failed"}

Lists(S, T) == {<<a>> : a \in S} \cup {<<c[1], c[2]>> : c \in S \X T}

\* A submitter has one request or two; the first has an id once it is admitted.
SubmitterState ==
    [pc : {"admit"}, todo : Lists(Drafts, Drafts)]
        \cup [pc : {"submit", "enqueue"}, todo : Lists(Admitted, Drafts)]

WorkerState == [pc : {"loop", "filter", "start", "scan", "clear", "finish", "failing"},
                batch : SUBSET Admitted, keys : SUBSET (SUBSET Paths), ok : BOOLEAN,
                covers : SUBSET Paths]

ClientType ==
    /\ stopped \in BOOLEAN /\ startupPending \in BOOLEAN /\ watching \in BOOLEAN
    /\ watch \in [startup : SUBSET Paths, delta : SUBSET Paths]
    /\ watch.startup \subseteq watch.delta
    /\ dirty \subseteq Paths /\ failed \subseteq dirty /\ overlooked \subseteq dirty
    /\ scanned \in BOOLEAN /\ mistaken \in BOOLEAN

\* The requests numbered so far, with the jobs that end when they are finished.
JobsType(jobs, ends) ==
    /\ jobs \in Seq(Phases) /\ ends \in Seq({0, 1})
    /\ DOMAIN ends = DOMAIN jobs
    /\ \A k \in DOMAIN jobs : ends[k] = 1 <=> jobs[k] \in {"completed", "failed"}

Open(jobs, ends) == {k \in DOMAIN jobs : ends[k] = 0}

\* The request a submitter carries, if it was admitted.
Claims(sub) == IF sub.pc = "admit" THEN {} ELSE {sub.todo[1].id}

Submitting(subs) == UNION {Claims(subs[i]) : i \in DOMAIN subs}
Queued(reqs) == Ids(ToSet(reqs))
Taken(ws) == UNION {Ids(ws[i].batch) : i \in DOMAIN ws}

\* No two submitters, places of the queue or workers hold the same request.
Submitters(subs) ==
    /\ subs \in Seq(SubmitterState)
    /\ \A i, j \in DOMAIN subs : i # j => Claims(subs[i]) \cap Claims(subs[j]) = {}

Waiters(reqs) ==
    /\ reqs \in Seq(Admitted)
    /\ \A i, j \in DOMAIN reqs : reqs[i].id = reqs[j].id => i = j

Serves(w) == w.pc # "failing"

\* One worker serves the queue, and is marked; the others are in failPending.
Workers(ws, running) ==
    /\ ws \in Seq(WorkerState)
    /\ \A i, j \in DOMAIN ws : i # j => Ids(ws[i].batch) \cap Ids(ws[j].batch) = {}
    /\ \A i, j \in DOMAIN ws : Serves(ws[i]) /\ Serves(ws[j]) => i = j
    /\ running \in BOOLEAN
    /\ running <=> \E i \in DOMAIN ws : Serves(ws[i])
    /\ \A i \in DOMAIN ws : ws[i].pc # "scan" => ws[i].covers = {}

\* Nor do a submitter, the queue and a worker; so a request is finished once.
Apart(claimed, queued, taken, open) ==
    /\ claimed \cap queued = {} /\ claimed \cap taken = {} /\ queued \cap taken = {}
    /\ claimed \subseteq open /\ queued \subseteq open /\ taken \subseteq open

QueueIndInv ==
    /\ ClientType
    /\ JobsType(job, finished)
    /\ waiting \subseteq DOMAIN job /\ callerDone \subseteq DOMAIN job
    /\ Submitters(submitters) /\ Waiters(pending) /\ Workers(workers, workerRunning)
    /\ Apart(Submitting(submitters), Queued(pending), Taken(workers), Open(job, finished))
    /\ runningKeys \subseteq SUBSET Paths
    /\ \A i \in DOMAIN workers : workers[i].covers \subseteq dirty
    /\ pending # <<>> => workerRunning

-----------------------------------------------------------------------------
(* Submitters.                                                             *)

\* What the first request of a list and the rest are.
LEMMA ListFacts ==
    ASSUME NEW S, NEW T, NEW todo \in Lists(S, T)
    PROVE  /\ Head(todo) = todo[1] /\ todo[1] \in S
           /\ Len(Tail(todo)) = 0 => todo = <<todo[1]>> /\ Tail(todo) = <<>> /\ Len(todo) = 1
           /\ Len(Tail(todo)) # 0 =>
                 /\ todo = <<todo[1], todo[2]>> /\ todo[2] \in T /\ Tail(todo) = <<todo[2]>>
                 /\ Len(todo) = 2
<1>1. ASSUME NEW a \in S, todo = <<a>>
      PROVE  Head(todo) = todo[1] /\ todo[1] = a /\ Tail(todo) = <<>> /\ Len(Tail(todo)) = 0
             /\ Len(todo) = 1
  <2>1. Tail(<<a>>) = <<>> /\ Len(<<>>) = 0 /\ Head(<<a>>) = a /\ <<a>>[1] = a /\ Len(<<a>>) = 1
        OBVIOUS
  <2>2. QED  BY <1>1, <2>1
<1>2. ASSUME NEW c \in S \X T, todo = <<c[1], c[2]>>
      PROVE  /\ Head(todo) = todo[1] /\ todo[1] = c[1] /\ todo[2] = c[2]
             /\ Tail(todo) = <<c[2]>> /\ Len(Tail(todo)) = 1 /\ Len(todo) = 2
  <2> DEFINE a == c[1]
             b == c[2]
  <2> HIDE DEF a, b
  <2>1. /\ Tail(<<a, b>>) = <<b>> /\ Len(<<b>>) = 1 /\ Head(<<a, b>>) = a
        /\ <<a, b>>[1] = a /\ <<a, b>>[2] = b /\ Len(<<a, b>>) = 2
        OBVIOUS
  <2>2. QED  BY <1>2, <2>1 DEF a, b
<1>3. CASE \E a \in S : todo = <<a>>
      BY <1>1, <1>3
<1>4. CASE \E c \in S \X T : todo = <<c[1], c[2]>>
  <2>1. PICK c \in S \X T : todo = <<c[1], c[2]>>
        BY <1>4
  <2>2. c[1] \in S /\ c[2] \in T
        OBVIOUS
  <2>3. QED  BY <1>2, <2>1, <2>2
<1>5. QED  BY <1>3, <1>4 DEF Lists

\* A submitter that starts has no admitted request.
LEMMA SubmittersAppend ==
    ASSUME NEW subs, Submitters(subs), NEW sub \in SubmitterState, sub.pc = "admit"
    PROVE  Submitters(Append(subs, sub)) /\ Submitting(Append(subs, sub)) = Submitting(subs)
<1>1. Append(subs, sub) \in Seq(SubmitterState)
      BY AppendMap DEF Submitters
<1>2. PICK k : /\ k \notin DOMAIN subs
               /\ DOMAIN Append(subs, sub) = DOMAIN subs \cup {k}
               /\ Append(subs, sub)[k] = sub
               /\ \A j \in DOMAIN subs : Append(subs, sub)[j] = subs[j]
      BY AppendMap DEF Submitters
<1>3. Claims(sub) = {}
      BY DEF Claims
<1>4. QED  BY <1>1, <1>2, <1>3, Zenon DEF Submitters, Submitting

\* A submitter goes on with other requests.
LEMMA SubmittersReplace ==
    ASSUME NEW subs, Submitters(subs), NEW i \in DOMAIN subs, NEW sub \in SubmitterState,
           Claims(sub) \cap (Submitting(subs) \ Claims(subs[i])) = {}
    PROVE  /\ Submitters([subs EXCEPT ![i] = sub])
           /\ Submitting([subs EXCEPT ![i] = sub]) =
                 (Submitting(subs) \ Claims(subs[i])) \cup Claims(sub)
<1> DEFINE new == [subs EXCEPT ![i] = sub]
<1>1. subs \in Seq(SubmitterState) /\ i \in 1..Len(subs)
      BY LenProperties DEF Submitters
<1>2. new \in Seq(SubmitterState)
      BY <1>1, ExceptSeq
<1>3. DOMAIN new = DOMAIN subs /\ new[i] = sub /\ \A j \in DOMAIN subs \ {i} : new[j] = subs[j]
      OBVIOUS
<1> HIDE DEF new
<1>4. \A j \in DOMAIN subs \ {i} : Claims(subs[j]) \subseteq Submitting(subs) \ Claims(subs[i])
      BY DEF Submitters, Submitting
<1>5. \A x \in Submitting(subs) \ Claims(subs[i]) : \E j \in DOMAIN subs \ {i} : x \in Claims(subs[j])
      BY DEF Submitting
<1>6. Submitters(new)
  <2>1. \A j \in DOMAIN subs \ {i} : Claims(sub) \cap Claims(subs[j]) = {}
        BY <1>4
  <2>2. ASSUME NEW j \in DOMAIN new, NEW k \in DOMAIN new, j # k
        PROVE  Claims(new[j]) \cap Claims(new[k]) = {}
        BY <1>3, <2>1, <2>2 DEF Submitters
  <2>3. QED  BY <1>2, <2>2 DEF Submitters
<1>7. Submitting(new) = (Submitting(subs) \ Claims(subs[i])) \cup Claims(sub)
      BY <1>3, <1>4, <1>5 DEF Submitting
<1>8. QED  BY <1>6, <1>7 DEF new

\* A submitter ends.
LEMMA SubmittersRemove ==
    ASSUME NEW subs, Submitters(subs), NEW i \in DOMAIN subs
    PROVE  /\ Submitters(RemoveAt(subs, i))
           /\ Submitting(RemoveAt(subs, i)) = Submitting(subs) \ Claims(subs[i])
<1> DEFINE new == RemoveAt(subs, i)
<1>1. new \in Seq(SubmitterState) /\ Leaves(subs, i, new)
      BY RemoveAtMap DEF Submitters
<1> HIDE DEF new
<1>2. PICK f \in [DOMAIN new -> DOMAIN subs \ {i}] :
        /\ \A j \in DOMAIN new : new[j] = subs[f[j]]
        /\ \A j, k \in DOMAIN new : f[j] = f[k] => j = k
        /\ \A k \in DOMAIN subs \ {i} : \E j \in DOMAIN new : f[j] = k
      BY <1>1 DEF Leaves
<1>3. \A j \in DOMAIN subs \ {i} : Claims(subs[j]) \subseteq Submitting(subs) \ Claims(subs[i])
      BY DEF Submitters, Submitting
<1>4. \A x \in Submitting(subs) \ Claims(subs[i]) : \E j \in DOMAIN subs \ {i} : x \in Claims(subs[j])
      BY DEF Submitting
<1>5. \A j \in DOMAIN new : f[j] \in DOMAIN subs \ {i} /\ Claims(new[j]) = Claims(subs[f[j]])
      BY <1>2
<1>6. Submitters(new)
      BY <1>1, <1>2, <1>5 DEF Submitters
<1>7. Submitting(new) = Submitting(subs) \ Claims(subs[i])
  <2>1. ASSUME NEW x \in Submitting(new) PROVE x \in Submitting(subs) \ Claims(subs[i])
        BY <1>3, <1>5, <2>1 DEF Submitting
  <2>2. ASSUME NEW x \in Submitting(subs) \ Claims(subs[i]) PROVE x \in Submitting(new)
    <3>1. PICK k \in DOMAIN subs \ {i} : x \in Claims(subs[k])
          BY <1>4, <2>2
    <3>2. PICK j \in DOMAIN new : f[j] = k
          BY <1>2
    <3>3. x \in Claims(new[j])
          BY <1>5, <3>1, <3>2
    <3>4. QED  BY <3>3 DEF Submitting
  <2>3. QED  BY <2>1, <2>2
<1>8. QED  BY <1>6, <1>7 DEF new

\* A submitter is done with its first request.
LEMMA SubmittedFacts ==
    ASSUME Submitters(submitters), NEW i \in DOMAIN submitters,
           Submitted(i, Tail(submitters[i].todo))
    PROVE  /\ Submitters(submitters')
           /\ Submitting(submitters') = Submitting(submitters) \ Claims(submitters[i])
<1>1. submitters[i] \in SubmitterState
      BY ElementOfSeq, LenProperties DEF Submitters
<1>2. PICK S : submitters[i].todo \in Lists(S, Drafts)
      BY <1>1 DEF SubmitterState
<1> DEFINE todo == submitters[i].todo
<1> HIDE DEF todo
<1>3. CASE Len(Tail(todo)) = 0
  <2>1. submitters' = RemoveAt(submitters, i)
        BY <1>3 DEF Submitted, todo
  <2>2. QED  BY <2>1, SubmittersRemove
<1>4. CASE Len(Tail(todo)) # 0
  <2> DEFINE sub == [pc |-> "admit", todo |-> Tail(todo)]
  <2>1. submitters' = [submitters EXCEPT ![i] = sub]
        BY <1>4 DEF Submitted, todo
  <2>2. Tail(todo) = <<todo[2]>> /\ todo[2] \in Drafts
        BY <1>2, <1>4, ListFacts DEF todo
  <2>3. Tail(todo) \in Lists(Drafts, Drafts)
        BY <2>2 DEF Lists
  <2>4. sub \in SubmitterState /\ sub.pc = "admit"
        BY <2>3 DEF SubmitterState
  <2> HIDE DEF sub
  <2>5. Claims(sub) = {}
        BY <2>4 DEF Claims
  <2>6. Submitters([submitters EXCEPT ![i] = sub])
        /\ Submitting([submitters EXCEPT ![i] = sub]) =
              (Submitting(submitters) \ Claims(submitters[i])) \cup Claims(sub)
    <3>1. Claims(sub) \cap (Submitting(submitters) \ Claims(submitters[i])) = {}
          BY <2>5
    <3>2. QED  BY <2>4, <3>1, SubmittersReplace
  <2>7. QED  BY <2>1, <2>5, <2>6
<1>5. QED  BY <1>3, <1>4

-----------------------------------------------------------------------------
(* The queue of requests.                                                  *)

\* A request joins the queue.
LEMMA WaitersAppend ==
    ASSUME NEW reqs, Waiters(reqs), NEW req \in Admitted, req.id \notin Queued(reqs)
    PROVE  /\ Waiters(Append(reqs, req))
           /\ ToSet(Append(reqs, req)) = ToSet(reqs) \cup {req}
           /\ Queued(Append(reqs, req)) = Queued(reqs) \cup {req.id}
<1> DEFINE new == Append(reqs, req)
<1>1. new \in Seq(Admitted)
      BY AppendMap DEF Waiters
<1>2. PICK k : /\ k \notin DOMAIN reqs
               /\ DOMAIN new = DOMAIN reqs \cup {k}
               /\ new[k] = req
               /\ \A j \in DOMAIN reqs : new[j] = reqs[j]
      BY AppendMap DEF Waiters
<1> HIDE DEF new
<1>3. ToSet(new) = ToSet(reqs) \cup {req}
      BY <1>2 DEF ToSet
<1>4. Queued(new) = Queued(reqs) \cup {req.id}
      BY <1>3 DEF Queued, Ids
<1>5. \A j \in DOMAIN reqs : reqs[j].id \in Queued(reqs)
      BY DEF Queued, Ids, ToSet
<1>6. Waiters(new)
  <2>1. ASSUME NEW i \in DOMAIN new, NEW j \in DOMAIN new, new[i].id = new[j].id
        PROVE  i = j
    <3>1. CASE i = k /\ j = k
          BY <3>1
    <3>2. CASE i = k /\ j # k
          BY <1>2, <1>5, <2>1, <3>2
    <3>3. CASE i # k /\ j = k
          BY <1>2, <1>5, <2>1, <3>3
    <3>4. CASE i # k /\ j # k
          BY <1>2, <2>1, <3>4 DEF Waiters
    <3>5. QED  BY <3>1, <3>2, <3>3, <3>4
  <2>2. QED  BY <1>1, <2>1 DEF Waiters
<1>7. QED  BY <1>3, <1>4, <1>6 DEF new

\* Some requests of the queue are taken out; the others stay.
LEMMA WaitersPick ==
    ASSUME NEW reqs, Waiters(reqs), NEW from \in SUBSET (DOMAIN reqs), NEW new \in Seq(Admitted),
           Picks(reqs, from, new)
    PROVE  Waiters(new) /\ ToSet(new) = {reqs[k] : k \in from}
<1>1. PICK f \in [DOMAIN new -> from] :
        /\ \A j \in DOMAIN new : new[j] = reqs[f[j]]
        /\ \A j, k \in DOMAIN new : f[j] = f[k] => j = k
        /\ \A k \in from : \E j \in DOMAIN new : f[j] = k
      BY DEF Picks
<1>2. \A j \in DOMAIN new : f[j] \in from /\ f[j] \in DOMAIN reqs
      BY <1>1
<1>3. \A i, j \in DOMAIN new : new[i].id = new[j].id => i = j
      BY <1>1, <1>2 DEF Waiters
<1>4. ToSet(new) = {reqs[k] : k \in from}
  <2>1. ASSUME NEW k \in from PROVE reqs[k] \in ToSet(new)
    <3>1. PICK j \in DOMAIN new : f[j] = k
          BY <1>1
    <3>2. QED  BY <1>1, <3>1 DEF ToSet
  <2>2. ASSUME NEW j \in DOMAIN new PROVE new[j] \in {reqs[k] : k \in from}
        BY <1>1, <1>2
  <2>3. QED  BY <2>1, <2>2 DEF ToSet
<1>5. QED  BY <1>3, <1>4 DEF Waiters

\* Requests with the same id are the same.
LEMMA WaitersDiffer ==
    ASSUME NEW reqs, Waiters(reqs), NEW r \in ToSet(reqs), NEW q \in ToSet(reqs), r.id = q.id
    PROVE  r = q
BY DEF Waiters, ToSet

\* The sequence without its first element.
LEMMA TailPicks ==
    ASSUME NEW S, NEW s \in Seq(S), s # <<>>
    PROVE  /\ Head(s) \in S /\ Tail(s) \in Seq(S)
           /\ \E k \in DOMAIN s : Head(s) = s[k] /\ Picks(s, DOMAIN s \ {k}, Tail(s))
<1>1. PICK n \in Nat : n = Len(s) /\ DOMAIN s = 1..n /\ n # 0
  <2>1. Len(s) \in Nat /\ DOMAIN s = 1..Len(s)
        BY LenProperties
  <2>2. Len(s) # 0
        BY EmptySeq
  <2>3. QED  BY <2>1, <2>2
<1>2. /\ Head(s) \in S /\ Tail(s) \in Seq(S) /\ Len(Tail(s)) = n - 1
      /\ \A j \in 1..(n - 1) : Tail(s)[j] = s[j + 1]
      BY <1>1, HeadTailProperties
<1>3. Head(s) = s[1] /\ 1 \in DOMAIN s
  <2>1. 1 \in 1..n
        BY <1>1
  <2>2. QED  BY <1>1, <2>1
<1> DEFINE new == Tail(s)
           f == [j \in 1..(n - 1) |-> j + 1]
<1> HIDE DEF new
<1>4. DOMAIN new = 1..(n - 1)
      BY <1>2, LenProperties DEF new
<1>5. f \in [1..(n - 1) -> (1..n) \ {1}]
      BY <1>1
<1>6. \A j \in 1..(n - 1) : new[j] = s[f[j]]
      BY <1>2 DEF new
<1>7. \A j, k \in 1..(n - 1) : f[j] = f[k] => j = k
      BY <1>1
<1>8. ASSUME NEW k \in (1..n) \ {1} PROVE \E j \in 1..(n - 1) : f[j] = k
  <2>1. k - 1 \in 1..(n - 1) /\ f[k - 1] = k
        BY <1>1
  <2>2. QED  BY <2>1
<1> HIDE DEF f
<1> DEFINE from == (1..n) \ {1}
<1>9. /\ f \in [DOMAIN new -> from]
      /\ \A j \in DOMAIN new : new[j] = s[f[j]]
      /\ \A j, k \in DOMAIN new : f[j] = f[k] => j = k
      /\ \A k \in from : \E j \in DOMAIN new : f[j] = k
      BY <1>4, <1>5, <1>6, <1>7, <1>8
<1>10. Picks(s, DOMAIN s \ {1}, Tail(s))
  <2>1. from = DOMAIN s \ {1}
        BY <1>1
  <2> HIDE DEF from
  <2>2. Picks(s, from, new)
        BY <1>9, Zenon DEF Picks
  <2>3. QED  BY <2>1, <2>2 DEF new
<1>11. QED  BY <1>2, <1>3, <1>10

\* takeNextBatchLocked splits the queue in two.
LEMMA BatchFacts ==
    ASSUME Waiters(pending), pending # <<>>
    PROVE  /\ Waiters(AfterBatch) /\ NextBatch \subseteq Admitted
           /\ ToSet(AfterBatch) \cup NextBatch = ToSet(pending)
           /\ Queued(AfterBatch) \cup Ids(NextBatch) = Queued(pending)
           /\ Queued(AfterBatch) \cap Ids(NextBatch) = {}
<1>1. pending \in Seq(Admitted) /\ ToSet(pending) \subseteq Admitted
  <2>1. \A k \in DOMAIN pending : pending[k] \in Admitted
        BY LenProperties, ElementOfSeq DEF Waiters
  <2>2. QED  BY <2>1 DEF Waiters, ToSet
<1>2. /\ Waiters(AfterBatch) /\ NextBatch \subseteq ToSet(pending)
      /\ ToSet(AfterBatch) = ToSet(pending) \ NextBatch
  <2>1. CASE IsRepair(Head(pending))
    <3>1. PICK k \in DOMAIN pending :
             Head(pending) = pending[k] /\ Picks(pending, DOMAIN pending \ {k}, Tail(pending))
          BY <1>1, TailPicks
    <3>2. Tail(pending) \in Seq(Admitted)
          BY <1>1, TailPicks
    <3>3. /\ Waiters(Tail(pending))
          /\ ToSet(Tail(pending)) = {pending[j] : j \in DOMAIN pending \ {k}}
          BY <3>1, <3>2, WaitersPick
    <3>4. \A j \in DOMAIN pending \ {k} : pending[j] # pending[k]
          BY DEF Waiters
    <3>5. {pending[j] : j \in DOMAIN pending \ {k}} = ToSet(pending) \ {pending[k]}
          BY <3>4 DEF ToSet
    <3>6. pending[k] \in ToSet(pending)
          BY DEF ToSet
    <3>7. NextBatch = {pending[k]} /\ AfterBatch = Tail(pending)
          BY <2>1, <3>1 DEF NextBatch, AfterBatch
    <3>8. QED  BY <3>3, <3>5, <3>6, <3>7
  <2>2. CASE ~IsRepair(Head(pending))
    <3> DEFINE keep == {req \in ToSet(pending) : IsRepair(req)}
               from == {k \in DOMAIN pending : pending[k] \in keep}
    <3>1. Select(pending, keep) \in Seq(Admitted) /\ Picks(pending, from, Select(pending, keep))
          BY <1>1, SelectPicks
    <3>2. /\ Waiters(Select(pending, keep))
          /\ ToSet(Select(pending, keep)) = {pending[k] : k \in from}
          BY <3>1, WaitersPick
    <3>3. {pending[k] : k \in from} = keep
          BY DEF ToSet
    <3>4. /\ NextBatch = {req \in ToSet(pending) : ~IsRepair(req)}
          /\ AfterBatch = Select(pending, keep)
          BY <2>2 DEF NextBatch, AfterBatch
    <3>5. keep = ToSet(pending) \ {req \in ToSet(pending) : ~IsRepair(req)}
          OBVIOUS
    <3>6. {req \in ToSet(pending) : ~IsRepair(req)} \subseteq ToSet(pending)
          OBVIOUS
    <3>7. QED  BY <3>2, <3>3, <3>4, <3>5, <3>6
  <2>3. QED  BY <2>1, <2>2
<1>3. ToSet(AfterBatch) \cup NextBatch = ToSet(pending)
      BY <1>2
<1>4. Queued(AfterBatch) \cup Ids(NextBatch) = Queued(pending)
      BY <1>3 DEF Queued, Ids
<1>5. Queued(AfterBatch) \cap Ids(NextBatch) = {}
  <2>1. ASSUME NEW r \in ToSet(pending) \ NextBatch, NEW q \in NextBatch PROVE r.id # q.id
        BY <1>2, WaitersDiffer
  <2>2. QED  BY <1>2, <2>1 DEF Queued, Ids
<1>6. QED  BY <1>1, <1>2, <1>3, <1>4, <1>5

\* A request leaves the queue.
LEMMA WaitersWithout ==
    ASSUME NEW reqs, Waiters(reqs), NEW id
    PROVE  LET new == Select(reqs, {req \in ToSet(reqs) : req.id # id})
           IN /\ Waiters(new)
              /\ ToSet(new) = {req \in ToSet(reqs) : req.id # id}
              /\ Queued(new) = Queued(reqs) \ {id}
<1> DEFINE keep == {req \in ToSet(reqs) : req.id # id}
           from == {k \in DOMAIN reqs : reqs[k] \in keep}
<1>1. Select(reqs, keep) \in Seq(Admitted) /\ Picks(reqs, from, Select(reqs, keep))
      BY SelectPicks DEF Waiters
<1>2. Waiters(Select(reqs, keep)) /\ ToSet(Select(reqs, keep)) = {reqs[k] : k \in from}
      BY <1>1, WaitersPick
<1>3. {reqs[k] : k \in from} = keep
      BY DEF ToSet
<1>4. Queued(Select(reqs, keep)) = Queued(reqs) \ {id}
      BY <1>2, <1>3 DEF Queued, Ids
<1>5. QED  BY <1>2, <1>3, <1>4

-----------------------------------------------------------------------------
(* Jobs.                                                                   *)

\* A new request is open.
LEMMA JobsAppend ==
    ASSUME NEW jobs, NEW ends, JobsType(jobs, ends)
    PROVE  /\ JobsType(Append(jobs, "queued"), Append(ends, 0))
           /\ Len(jobs) + 1 \in Nat /\ Len(jobs) + 1 \notin DOMAIN jobs
           /\ DOMAIN Append(jobs, "queued") = DOMAIN jobs \cup {Len(jobs) + 1}
           /\ Open(Append(jobs, "queued"), Append(ends, 0)) = Open(jobs, ends) \cup {Len(jobs) + 1}
<1>1. PICK n \in Nat : n = Len(jobs) /\ DOMAIN jobs = 1..n
      BY LenProperties DEF JobsType
<1>2. n = Len(ends)
  <2>1. Len(ends) \in Nat /\ DOMAIN ends = 1..Len(ends)
        BY LenProperties DEF JobsType
  <2>2. 1..Len(ends) = 1..n
        BY <1>1, <2>1, Zenon DEF JobsType
  <2> DEFINE m == Len(ends)
  <2> HIDE DEF m
  <2>3. m \in Nat /\ 1..m = 1..n => m = n
        OBVIOUS
  <2>4. QED  BY <2>1, <2>2, <2>3 DEF m
<1> DEFINE js == Append(jobs, "queued")
           es == Append(ends, 0)
<1>3. /\ js \in Seq(Phases) /\ Len(js) = n + 1 /\ js[n + 1] = "queued"
      /\ \A k \in 1..n : js[k] = jobs[k]
  <2>1. jobs \in Seq(Phases) /\ "queued" \in Phases
        BY DEF JobsType, Phases
  <2>2. QED  BY <1>1, <2>1, AppendProperties
<1>4. /\ es \in Seq({0, 1}) /\ Len(es) = n + 1 /\ es[n + 1] = 0
      /\ \A k \in 1..n : es[k] = ends[k]
  <2>1. ends \in Seq({0, 1}) /\ 0 \in {0, 1}
        BY DEF JobsType
  <2>2. QED  BY <1>2, <2>1, AppendProperties
<1>5. DOMAIN js = 1..(n + 1) /\ DOMAIN es = 1..(n + 1)
      BY <1>3, <1>4, LenProperties
<1> HIDE DEF js, es
<1> DEFINE all == 1..(n + 1)
           old == 1..n
           new == n + 1
<1>6. all = old \cup {new} /\ new \notin old /\ new \in Nat
      OBVIOUS
<1>7. /\ js[new] = "queued" /\ es[new] = 0
      /\ \A k \in old : js[k] = jobs[k] /\ es[k] = ends[k]
      BY <1>3, <1>4
<1>8. DOMAIN jobs = old /\ DOMAIN js = all /\ DOMAIN es = all /\ Len(jobs) + 1 = new
      BY <1>1, <1>5
<1> HIDE DEF all, old, new
<1>9. \A k \in all : es[k] = 1 <=> js[k] \in {"completed", "failed"}
      BY <1>6, <1>7, <1>8 DEF JobsType
<1>10. JobsType(js, es)
      BY <1>3, <1>4, <1>8, <1>9 DEF JobsType
<1>11. Open(js, es) = Open(jobs, ends) \cup {new}
      BY <1>6, <1>7, <1>8 DEF Open
<1>12. QED  BY <1>6, <1>8, <1>10, <1>11 DEF js, es

\* A function on the domain of a sequence is one.
LEMMA SameDomain ==
    ASSUME NEW S, NEW T, NEW s \in Seq(S), NEW f \in [DOMAIN s -> T]
    PROVE  f \in Seq(T)
BY LenProperties, IsASeq

\* finishRequest on open requests.
LEMMA FinishFacts ==
    ASSUME JobsType(job, finished), NEW ids \in SUBSET Open(job, finished),
           NEW phase \in {"completed", "failed"}, Finish(ids, phase)
    PROVE  /\ JobsType(job', finished') /\ DOMAIN job' = DOMAIN job
           /\ Open(job', finished') = Open(job, finished) \ ids
<1>1. /\ \A k \in DOMAIN job : job[k] \in Phases /\ finished[k] \in {0, 1}
      /\ DOMAIN finished = DOMAIN job
      BY LenProperties, ElementOfSeq DEF JobsType
<1>2. \A k \in ids : k \in DOMAIN job /\ finished[k] = 0
      BY DEF Open
<1>3. job' \in [DOMAIN job -> Phases]
      BY <1>1 DEF Finish, Phases
<1>4. /\ finished' \in [DOMAIN job -> {0, 1}]
      /\ \A k \in DOMAIN job : finished'[k] = IF k \in ids THEN 1 ELSE finished[k]
  <2>1. \A k \in DOMAIN job : finished[k] + (IF k \in ids THEN 1 ELSE 0)
                                 = IF k \in ids THEN 1 ELSE finished[k]
        BY <1>1, <1>2
  <2>2. QED  BY <1>1, <2>1 DEF Finish
<1>5. job' \in Seq(Phases) /\ finished' \in Seq({0, 1})
      BY <1>3, <1>4, SameDomain DEF JobsType
<1>6. \A k \in DOMAIN job : job'[k] = IF k \in ids THEN phase ELSE job[k]
      BY DEF Finish
<1>7. DOMAIN job' = DOMAIN job /\ DOMAIN finished' = DOMAIN job
      BY <1>3, <1>4
<1>8. \A k \in DOMAIN job : finished'[k] = 1 <=> job'[k] \in {"completed", "failed"}
      BY <1>4, <1>6 DEF JobsType
<1>9. Open(job', finished') = Open(job, finished) \ ids
      BY <1>2, <1>4, <1>7 DEF Open
<1>10. QED  BY <1>5, <1>7, <1>8, <1>9 DEF JobsType

\* Jobs that are reported as running stay open.
LEMMA RunningFacts ==
    ASSUME NEW jobs, NEW ends, JobsType(jobs, ends), NEW ids \in SUBSET Open(jobs, ends),
           NEW new, new = [k \in DOMAIN jobs |-> IF k \in ids THEN "running" ELSE jobs[k]]
    PROVE  /\ JobsType(new, ends) /\ DOMAIN new = DOMAIN jobs
           /\ Open(new, ends) = Open(jobs, ends)
<1>1. \A k \in DOMAIN jobs : jobs[k] \in Phases
      BY LenProperties, ElementOfSeq DEF JobsType
<1>2. \A k \in ids : ends[k] = 0
      BY DEF Open
<1>3. new \in [DOMAIN jobs -> Phases]
      BY <1>1 DEF Phases
<1>4. new \in Seq(Phases)
      BY <1>3, SameDomain DEF JobsType
<1>5. \A k \in DOMAIN jobs : ends[k] = 1 <=> new[k] \in {"completed", "failed"}
      BY <1>2 DEF JobsType
<1>6. QED  BY <1>3, <1>4, <1>5 DEF JobsType, Open

-----------------------------------------------------------------------------
(* Workers.                                                                *)

\* A worker that was started because none served the queue.
LEMMA WorkersAppend ==
    ASSUME NEW ws, Workers(ws, FALSE)
    PROVE  /\ Workers(Append(ws, NewWorker), TRUE)
           /\ Taken(Append(ws, NewWorker)) = Taken(ws)
           /\ \E k : /\ DOMAIN Append(ws, NewWorker) = DOMAIN ws \cup {k}
                     /\ Append(ws, NewWorker)[k] = NewWorker
                     /\ \A j \in DOMAIN ws : Append(ws, NewWorker)[j] = ws[j]
<1>1. NewWorker \in WorkerState
      BY DEF NewWorker, WorkerState
<1> DEFINE new == Append(ws, NewWorker)
<1>2. new \in Seq(WorkerState)
      BY <1>1, AppendMap DEF Workers
<1>3. PICK k : /\ k \notin DOMAIN ws
               /\ DOMAIN new = DOMAIN ws \cup {k}
               /\ new[k] = NewWorker
               /\ \A j \in DOMAIN ws : new[j] = ws[j]
      BY <1>1, AppendMap DEF Workers
<1> HIDE DEF new
<1>4. Ids(NewWorker.batch) = {} /\ NewWorker.covers = {} /\ Serves(NewWorker)
      BY DEF NewWorker, Ids, Serves
<1>5. \A j \in DOMAIN ws : ~Serves(ws[j])
      BY DEF Workers
<1>6. Workers(new, TRUE)
  <2>1. \A i, j \in DOMAIN new : i # j => Ids(new[i].batch) \cap Ids(new[j].batch) = {}
        BY <1>3, <1>4 DEF Workers
  <2>2. \A i, j \in DOMAIN new : Serves(new[i]) /\ Serves(new[j]) => i = j
        BY <1>3, <1>5
  <2>3. \E i \in DOMAIN new : Serves(new[i])
        BY <1>3, <1>4
  <2>4. \A i \in DOMAIN new : new[i].pc # "scan" => new[i].covers = {}
        BY <1>3, <1>4 DEF Workers
  <2>5. QED  BY <1>2, <2>1, <2>2, <2>3, <2>4 DEF Workers
<1>7. Taken(new) = Taken(ws)
      BY <1>3, <1>4 DEF Taken
<1>8. QED  BY <1>3, <1>6, <1>7 DEF new

WithWorker(ws, i, w) == [ws EXCEPT ![i] = w]

\* The worker w may take the place of worker i, which serves.
MayFollow(ws, running, i, w) ==
    /\ Workers(ws, running) /\ i \in DOMAIN ws /\ Serves(ws[i]) /\ w \in WorkerState
    /\ w.pc # "scan" => w.covers = {}
    /\ Ids(w.batch) \cap (Taken(ws) \ Ids(ws[i].batch)) = {}

\* What the workers are then.
Followed(ws, running, i, w, new) ==
    /\ running = TRUE
    /\ Serves(w) => Workers(new, TRUE)
    /\ ~Serves(w) => Workers(new, FALSE)
    /\ Taken(new) = (Taken(ws) \ Ids(ws[i].batch)) \cup Ids(w.batch)
    /\ DOMAIN new = DOMAIN ws /\ new[i] = w
    /\ \A j \in DOMAIN ws \ {i} : new[j] = ws[j] /\ ~Serves(ws[j]) /\ ws[j].covers = {}

\* The worker that serves goes on, or starts to fail what was pending.
LEMMA WorkersReplace ==
    ASSUME NEW ws, NEW running, NEW i, NEW w, MayFollow(ws, running, i, w)
    PROVE  Followed(ws, running, i, w, WithWorker(ws, i, w))
<1>0. /\ Workers(ws, running) /\ i \in DOMAIN ws /\ Serves(ws[i]) /\ w \in WorkerState
      /\ w.pc # "scan" => w.covers = {}
      /\ Ids(w.batch) \cap (Taken(ws) \ Ids(ws[i].batch)) = {}
      BY DEF MayFollow
<1> DEFINE new == WithWorker(ws, i, w)
<1>1. new \in Seq(WorkerState)
  <2>1. ws \in Seq(WorkerState) /\ i \in 1..Len(ws)
        BY <1>0, LenProperties DEF Workers
  <2>2. QED  BY <1>0, <2>1, ExceptSeq DEF WithWorker
<1>2. DOMAIN new = DOMAIN ws /\ new[i] = w /\ \A j \in DOMAIN ws \ {i} : new[j] = ws[j]
      BY <1>0 DEF WithWorker
<1> HIDE DEF new
<1>3. running = TRUE
      BY <1>0 DEF Workers
<1>4. \A j \in DOMAIN ws \ {i} : ~Serves(ws[j]) /\ ws[j].covers = {}
      BY <1>0 DEF Workers, Serves
<1>5. \A j \in DOMAIN ws \ {i} : Ids(ws[j].batch) \subseteq Taken(ws) \ Ids(ws[i].batch)
      BY <1>0 DEF Workers, Taken
<1>6. \A x \in Taken(ws) \ Ids(ws[i].batch) : \E j \in DOMAIN ws \ {i} : x \in Ids(ws[j].batch)
      BY <1>0 DEF Taken
<1>7. (Serves(w) => Workers(new, TRUE)) /\ (~Serves(w) => Workers(new, FALSE))
  <2>1. ASSUME NEW j \in DOMAIN new, NEW k \in DOMAIN new, j # k
        PROVE  Ids(new[j].batch) \cap Ids(new[k].batch) = {}
    <3>1. \A n \in DOMAIN ws \ {i} : Ids(w.batch) \cap Ids(ws[n].batch) = {}
          BY <1>0, <1>5
    <3>2. QED  BY <1>0, <1>2, <2>1, <3>1 DEF Workers
  <2>2. \A j, k \in DOMAIN new : Serves(new[j]) /\ Serves(new[k]) => j = k
        BY <1>0, <1>2, <1>4
  <2>3. Serves(w) <=> \E j \in DOMAIN new : Serves(new[j])
        BY <1>0, <1>2, <1>4
  <2>4. \A j \in DOMAIN new : new[j].pc # "scan" => new[j].covers = {}
        BY <1>0, <1>2, <1>4
  <2>5. QED  BY <1>0, <1>1, <2>1, <2>2, <2>3, <2>4 DEF Workers
<1>8. Taken(new) = (Taken(ws) \ Ids(ws[i].batch)) \cup Ids(w.batch)
      BY <1>0, <1>2, <1>5, <1>6 DEF Taken
<1>9. Followed(ws, running, i, w, new)
      BY <1>2, <1>3, <1>4, <1>7, <1>8 DEF Followed
<1>10. QED  BY <1>9 DEF new

\* A worker ends.
LEMMA WorkersRemove ==
    ASSUME NEW ws, NEW running, Workers(ws, running), NEW i \in DOMAIN ws
    PROVE  /\ Workers(RemoveAt(ws, i), running /\ ~Serves(ws[i]))
           /\ Taken(RemoveAt(ws, i)) = Taken(ws) \ Ids(ws[i].batch)
           /\ \A j \in DOMAIN RemoveAt(ws, i) :
                 \E k \in DOMAIN ws \ {i} : RemoveAt(ws, i)[j] = ws[k]
           /\ \A k \in DOMAIN ws \ {i} :
                 \E j \in DOMAIN RemoveAt(ws, i) : RemoveAt(ws, i)[j] = ws[k]
<1> DEFINE new == RemoveAt(ws, i)
<1>1. new \in Seq(WorkerState) /\ Leaves(ws, i, new)
      BY RemoveAtMap DEF Workers
<1> HIDE DEF new
<1>2. PICK f \in [DOMAIN new -> DOMAIN ws \ {i}] :
        /\ \A j \in DOMAIN new : new[j] = ws[f[j]]
        /\ \A j, k \in DOMAIN new : f[j] = f[k] => j = k
        /\ \A k \in DOMAIN ws \ {i} : \E j \in DOMAIN new : f[j] = k
      BY <1>1 DEF Leaves
<1>3. \A j \in DOMAIN new : f[j] \in DOMAIN ws \ {i} /\ f[j] \in DOMAIN ws /\ f[j] # i
      BY <1>2
<1>4. \A k \in DOMAIN ws \ {i} : \E j \in DOMAIN new : new[j] = ws[k]
      BY <1>2
<1>5. Workers(new, running /\ ~Serves(ws[i]))
  <2>1. ASSUME NEW j \in DOMAIN new, NEW k \in DOMAIN new, j # k
        PROVE  Ids(new[j].batch) \cap Ids(new[k].batch) = {}
    <3>1. f[j] # f[k] /\ new[j] = ws[f[j]] /\ new[k] = ws[f[k]]
          BY <1>2, <2>1
    <3>2. QED  BY <1>3, <3>1 DEF Workers
  <2>2. \A j, k \in DOMAIN new : Serves(new[j]) /\ Serves(new[k]) => j = k
        BY <1>2, <1>3 DEF Workers
  <2>3. \A j \in DOMAIN new : new[j].pc # "scan" => new[j].covers = {}
        BY <1>2, <1>3 DEF Workers
  <2>4. running /\ ~Serves(ws[i]) => \E j \in DOMAIN new : Serves(new[j])
    <3>1. SUFFICES ASSUME running, ~Serves(ws[i]) PROVE \E j \in DOMAIN new : Serves(new[j])
          OBVIOUS
    <3>2. PICK k \in DOMAIN ws : Serves(ws[k])
          BY <3>1 DEF Workers
    <3>3. k \in DOMAIN ws \ {i}
          BY <3>1, <3>2
    <3>4. QED  BY <1>4, <3>2, <3>3
  <2>5. (\E j \in DOMAIN new : Serves(new[j])) => running /\ ~Serves(ws[i])
    <3>1. SUFFICES ASSUME NEW j \in DOMAIN new, Serves(new[j]) PROVE running /\ ~Serves(ws[i])
          OBVIOUS
    <3>2. Serves(ws[f[j]])
          BY <1>2, <3>1
    <3>3. QED  BY <1>3, <3>2 DEF Workers
  <2>6. QED  BY <1>1, <2>1, <2>2, <2>3, <2>4, <2>5 DEF Workers
<1>6. Taken(new) = Taken(ws) \ Ids(ws[i].batch)
  <2>1. ASSUME NEW x \in Taken(new) PROVE x \in Taken(ws) \ Ids(ws[i].batch)
    <3>1. PICK j \in DOMAIN new : x \in Ids(ws[f[j]].batch)
          BY <1>2, <2>1 DEF Taken
    <3>2. Ids(ws[f[j]].batch) \cap Ids(ws[i].batch) = {}
          BY <1>3 DEF Workers
    <3>3. QED  BY <1>3, <3>1, <3>2 DEF Taken
  <2>2. ASSUME NEW x \in Taken(ws) \ Ids(ws[i].batch) PROVE x \in Taken(new)
    <3>1. PICK k \in DOMAIN ws : x \in Ids(ws[k].batch)
          BY <2>2 DEF Taken
    <3>2. k \in DOMAIN ws \ {i}
          BY <2>2, <3>1
    <3>3. PICK j \in DOMAIN new : new[j] = ws[k]
          BY <1>4, <3>2
    <3>4. QED  BY <3>1, <3>3 DEF Taken
  <2>3. QED  BY <2>1, <2>2
<1>7. \A j \in DOMAIN new : \E k \in DOMAIN ws \ {i} : new[j] = ws[k]
      BY <1>2, <1>3
<1>8. QED  BY <1>4, <1>5, <1>6, <1>7 DEF new

\* The workers of a state.
LEMMA WorkerFacts ==
    ASSUME NEW ws, NEW running, Workers(ws, running), NEW i \in DOMAIN ws
    PROVE  ws[i] \in WorkerState /\ Ids(ws[i].batch) \subseteq Taken(ws)
BY LenProperties, ElementOfSeq DEF Workers, Taken

Uncovered(ws, x) == [i \in DOMAIN ws |-> [ws[i] EXCEPT !.covers = @ \ {x}]]

\* A change under a pass is not covered by it any more.
LEMMA WorkersUncover ==
    ASSUME NEW ws, NEW running, Workers(ws, running), NEW x
    PROVE  /\ Workers(Uncovered(ws, x), running) /\ Taken(Uncovered(ws, x)) = Taken(ws)
           /\ DOMAIN Uncovered(ws, x) = DOMAIN ws
           /\ \A i \in DOMAIN ws :
                 /\ Uncovered(ws, x)[i].pc = ws[i].pc /\ Uncovered(ws, x)[i].batch = ws[i].batch
                 /\ Uncovered(ws, x)[i].keys = ws[i].keys /\ Uncovered(ws, x)[i].ok = ws[i].ok
                 /\ Uncovered(ws, x)[i].covers = ws[i].covers \ {x}
<1> DEFINE new == Uncovered(ws, x)
<1>1. \A i \in DOMAIN ws : ws[i] \in WorkerState
      BY WorkerFacts
<1>2. \A i \in DOMAIN ws :
         /\ new[i] \in WorkerState
         /\ new[i].pc = ws[i].pc /\ new[i].batch = ws[i].batch
         /\ new[i].keys = ws[i].keys /\ new[i].ok = ws[i].ok
         /\ new[i].covers = ws[i].covers \ {x}
      BY <1>1 DEF WorkerState, Uncovered
<1>3. new \in [DOMAIN ws -> WorkerState]
      BY <1>2 DEF Uncovered
<1> HIDE DEF new
<1>4. new \in Seq(WorkerState)
      BY <1>3, SameDomain DEF Workers
<1>5. Taken(new) = Taken(ws)
      BY <1>2, <1>3 DEF Taken
<1>6. DOMAIN new = DOMAIN ws
      BY <1>3
<1>7. Workers(new, running)
  <2>1. \A i, j \in DOMAIN new : i # j => Ids(new[i].batch) \cap Ids(new[j].batch) = {}
        BY <1>2, <1>6 DEF Workers
  <2>2. \A i \in DOMAIN new : Serves(new[i]) <=> Serves(ws[i])
        BY <1>2, <1>6 DEF Serves
  <2>3. \A i, j \in DOMAIN new : Serves(new[i]) /\ Serves(new[j]) => i = j
        BY <1>6, <2>2 DEF Workers
  <2>4. running <=> \E i \in DOMAIN new : Serves(new[i])
        BY <1>6, <2>2 DEF Workers
  <2>5. \A i \in DOMAIN new : new[i].pc # "scan" => new[i].covers = {}
        BY <1>2, <1>6 DEF Workers
  <2>6. QED  BY <1>4, <2>1, <2>3, <2>4, <2>5 DEF Workers
<1>8. QED  BY <1>2, <1>5, <1>6, <1>7 DEF new

-----------------------------------------------------------------------------
(* The actions keep the invariant of the queue.                            *)

\* Nothing was asked yet, and the startup scan is due.
LEMMA QueueInit == Init => QueueIndInv
<1> SUFFICES ASSUME Init PROVE QueueIndInv
    OBVIOUS
<1>1. ClientType
      BY ScanAssumption DEF Init, ClientType
<1>2. DOMAIN <<>> = {} /\ \A S : <<>> \in Seq(S)
      OBVIOUS
<1>3. JobsType(job, finished) /\ Submitters(submitters) /\ Waiters(pending)
      BY <1>2 DEF Init, JobsType, Submitters, Waiters
<1>4. Workers(workers, workerRunning)
      BY <1>2 DEF Init, Workers
<1>5. Submitting(submitters) = {} /\ Queued(pending) = {} /\ Taken(workers) = {}
      BY <1>2 DEF Init, Submitting, Queued, Ids, ToSet, Taken
<1>6. Apart(Submitting(submitters), Queued(pending), Taken(workers), Open(job, finished))
      BY <1>5 DEF Apart
<1>7. QED  BY <1>1, <1>2, <1>3, <1>4, <1>6 DEF Init, QueueIndInv

\* A change: passes under way may have missed it.
LEMMA ChangeKeepsQueue ==
    ASSUME QueueIndInv, NEW x \in Paths, NEW asDir \in BOOLEAN, Change(x, asDir)
    PROVE  QueueIndInv'
<1> USE DEF QueueIndInv
<1>1. ClientType'
      BY DEF Change, ClientType
<1>2. /\ Workers(workers', workerRunning) /\ Taken(workers') = Taken(workers)
      /\ DOMAIN workers' = DOMAIN workers
      /\ \A i \in DOMAIN workers : workers'[i].covers = workers[i].covers \ {x}
  <2>1. /\ Workers(workers, workerRunning)
        /\ workers' = Uncovered(workers, x)
        BY DEF Change, Uncovered
  <2>2. QED  BY <2>1, WorkersUncover
<1>3. \A i \in DOMAIN workers' : workers'[i].covers \subseteq dirty'
      BY <1>2 DEF Change
<1>4. QED  BY <1>1, <1>2, <1>3 DEF Change, queue, requests

\* A goroutine is started with requests to submit.
LEMMA SubmitterStarts ==
    ASSUME QueueIndInv, NEW todo \in Lists(Drafts, Drafts), submitters' = NewSubmitter(todo),
           ClientType', UNCHANGED <<queue, workers, requests, dirty>>
    PROVE  QueueIndInv'
<1> USE DEF QueueIndInv
<1> DEFINE sub == [pc |-> "admit", todo |-> todo]
<1>1. sub \in SubmitterState /\ sub.pc = "admit"
      BY DEF SubmitterState
<1>2. submitters' = Append(submitters, sub)
      BY DEF NewSubmitter
<1> HIDE DEF sub
<1>3. Submitters(submitters') /\ Submitting(submitters') = Submitting(submitters)
      BY <1>1, <1>2, SubmittersAppend
<1>4. QED  BY <1>3 DEF queue, requests

\* Two requests in a list.
LEMMA ConcatTwo ==
    ASSUME NEW a, NEW b
    PROVE  /\ <<a>> \o <<b>> = <<a, b>> /\ Len(<<a, b>>) = 2
           /\ <<a, b>>[1] = a /\ <<a, b>>[2] = b
<1> DEFINE s == <<a>>
           t == <<b>>
           u == <<a, b>>
<1>1. s \in Seq({a, b}) /\ t \in Seq({a, b}) /\ u \in Seq({a, b})
      OBVIOUS
<1>2. Len(s) = 1 /\ Len(t) = 1 /\ Len(u) = 2 /\ s[1] = a /\ t[1] = b /\ u[1] = a /\ u[2] = b
      OBVIOUS
<1> HIDE DEF s, t, u
<1>3. /\ s \o t \in Seq({a, b}) /\ Len(s \o t) = 2
      /\ \A k \in 1..2 : (s \o t)[k] = IF k <= 1 THEN s[k] ELSE t[k - 1]
      BY <1>1, <1>2, ConcatProperties
<1>4. \A k \in 1..2 : (s \o t)[k] = u[k]
      BY <1>2, <1>3
<1>5. s \o t = u
      BY <1>1, <1>2, <1>3, <1>4, SeqEqual
<1>6. QED  BY <1>2, <1>5 DEF s, t, u

\* The requests a flush leads to.
LEMMA FlushRequests ==
    ASSUME ClientType, Flush
    PROVE  \E todo \in Lists(Drafts, Drafts) :
              /\ submitters' = NewSubmitter(todo)
              /\ watch.startup = {} =>
                    todo = <<[class |-> "delta", paths |-> PruneUnder(watch.delta, watch.startup)]>>
              /\ watch.startup # {} =>
                    /\ todo[1] = [class |-> "startup", paths |-> watch.startup]
                    /\ PruneUnder(watch.delta, watch.startup) # {} =>
                          /\ Len(todo) = 2
                          /\ todo[2] = [class |-> "delta",
                                        paths |-> PruneUnder(watch.delta, watch.startup)]
<1> DEFINE rest == PruneUnder(watch.delta, watch.startup)
           full == [class |-> "startup", paths |-> watch.startup]
           part == [class |-> "delta", paths |-> rest]
<1>1. full \in Drafts /\ part \in Drafts
      BY DEF ClientType, Drafts, Classes, PruneUnder
<1>2. submitters' = NewSubmitter((IF watch.startup = {} THEN <<>> ELSE <<full>>)
                                    \o (IF rest = {} THEN <<>> ELSE <<part>>))
      BY DEF Flush
<1>3. watch.startup = {} => rest # {}
  <2>1. \A y : ~Within(y, {})
        BY DEF Within
  <2>2. QED  BY <2>1 DEF Flush, PruneUnder
<1> HIDE DEF full, part, rest
<1>4. CASE watch.startup = {}
  <2>1. <<>> \o <<part>> = <<part>>
        OBVIOUS
  <2>2. <<part>> \in Lists(Drafts, Drafts)
        BY <1>1 DEF Lists
  <2>3. QED  BY <1>2, <1>3, <1>4, <2>1, <2>2 DEF part, rest
<1>5. CASE watch.startup # {} /\ rest = {}
  <2>1. <<full>> \o <<>> = <<full>> /\ <<full>>[1] = full
        OBVIOUS
  <2>2. <<full>> \in Lists(Drafts, Drafts)
        BY <1>1 DEF Lists
  <2>3. QED  BY <1>2, <1>5, <2>1, <2>2 DEF full, rest
<1>6. CASE watch.startup # {} /\ rest # {}
  <2>1. /\ <<full>> \o <<part>> = <<full, part>> /\ Len(<<full, part>>) = 2
        /\ <<full, part>>[1] = full /\ <<full, part>>[2] = part
        BY ConcatTwo
  <2>2. <<full, part>> \in Lists(Drafts, Drafts)
    <3>1. <<full, part>> \in Drafts \X Drafts
          BY <1>1
    <3>2. QED  BY <2>1, <3>1 DEF Lists
  <2>3. QED  BY <1>2, <1>6, <2>1, <2>2 DEF full, part, rest
<1>7. QED  BY <1>4, <1>5, <1>6

\* The watcher hands on what it collected.
LEMMA FlushKeepsQueue == QueueIndInv /\ Flush => QueueIndInv'
<1> SUFFICES ASSUME QueueIndInv, Flush PROVE QueueIndInv'
    OBVIOUS
<1>1. ClientType /\ ClientType'
      BY DEF Flush, QueueIndInv, ClientType, ghosts
<1>2. PICK todo \in Lists(Drafts, Drafts) : submitters' = NewSubmitter(todo)
      BY <1>1, FlushRequests
<1>3. QED  BY <1>1, <1>2, SubmitterStarts DEF Flush, ghosts

\* A synchronisation or a repair asks for a full scan.
LEMMA FullScanKeepsQueue == QueueIndInv /\ (SyncRuntime \/ Repair) => QueueIndInv'
<1> SUFFICES ASSUME QueueIndInv, SyncRuntime \/ Repair PROVE QueueIndInv'
    OBVIOUS
<1>1. PICK class \in {"startup", "repair"} :
         submitters' = NewSubmitter(<<[class |-> class, paths |-> ScanRoots]>>)
      BY DEF SyncRuntime, Repair
<1>2. [class |-> class, paths |-> ScanRoots] \in Drafts
      BY ScanAssumption DEF Drafts, Classes
<1>3. <<[class |-> class, paths |-> ScanRoots]>> \in Lists(Drafts, Drafts)
      BY <1>2 DEF Lists
<1>4. ClientType'
      BY DEF SyncRuntime, Repair, QueueIndInv, ClientType, ghosts
<1>5. UNCHANGED <<queue, workers, requests, dirty>>
      BY DEF SyncRuntime, Repair, ghosts
<1>6. QED  BY <1>1, <1>3, <1>4, <1>5, SubmitterStarts

\* The library stops, or the caller of a repair cancels it or has its answer.
LEMMA CallersKeepQueue ==
    ASSUME QueueIndInv, \/ Stop
                        \/ \E id \in waiting : CallerCancels(id) \/ CallerReturns(id)
    PROVE  QueueIndInv'
<1>1. CASE Stop
      BY <1>1 DEF Stop, QueueIndInv, ClientType, queue, requests, ghosts
<1>2. ASSUME NEW id \in waiting, CallerCancels(id) PROVE QueueIndInv'
      BY <1>2 DEF CallerCancels, QueueIndInv, ClientType, queue, ghosts
<1>3. ASSUME NEW id \in waiting, CallerReturns(id) PROVE QueueIndInv'
      BY <1>3 DEF CallerReturns, QueueIndInv, ClientType, queue, ghosts
<1>4. QED  BY <1>1, <1>2, <1>3

\* The caller takes its request out of the queue and finishes it.
LEMMA CallerLeavesKeepsQueue ==
    ASSUME QueueIndInv, NEW id \in waiting, CallerLeaves(id)
    PROVE  QueueIndInv'
<1> USE DEF QueueIndInv
<1>1. ClientType' /\ waiting' \subseteq DOMAIN job
      BY DEF CallerLeaves, ClientType, ghosts
<1>2. CASE id \in Queued(pending)
  <2> DEFINE new == Select(pending, {req \in ToSet(pending) : req.id # id})
  <2>1. pending' = new /\ Finish({id}, "failed")
        BY <1>2 DEF CallerLeaves, Queued
  <2>2. Waiters(new) /\ Queued(new) = Queued(pending) \ {id}
        BY WaitersWithout
  <2> HIDE DEF new
  <2>3. id \in Open(job, finished)
        BY <1>2 DEF Apart
  <2>4. /\ JobsType(job', finished') /\ DOMAIN job' = DOMAIN job
        /\ Open(job', finished') = Open(job, finished) \ {id}
        BY <2>1, <2>3, FinishFacts
  <2>5. Apart(Submitting(submitters), Queued(pending) \ {id}, Taken(workers),
              Open(job, finished) \ {id})
        BY <1>2 DEF Apart
  <2>6. pending' # <<>> => workerRunning
    <3>1. pending = <<>> => Queued(pending) = {}
          BY DEF Queued, Ids, ToSet
    <3>2. QED  BY <1>2, <3>1
  <2>7. QED  BY <1>1, <2>1, <2>2, <2>4, <2>5, <2>6 DEF CallerLeaves, ghosts
<1>3. CASE id \notin Queued(pending)
  <2>1. UNCHANGED <<pending, job, finished>>
        BY <1>3 DEF CallerLeaves, Queued
  <2>2. QED  BY <1>1, <2>1 DEF CallerLeaves, ghosts
<1>4. QED  BY <1>2, <1>3

\* A request gets a job and an id, unless the startup scan is known.
LEMMA AdmitKeepsQueue ==
    ASSUME QueueIndInv, NEW i \in DOMAIN submitters, Admit(i)
    PROVE  QueueIndInv'
<1> USE DEF QueueIndInv
<1>1. submitters[i] \in SubmitterState
      BY ElementOfSeq, LenProperties DEF Submitters
<1>2. submitters[i].todo \in Lists(Drafts, Drafts) /\ Claims(submitters[i]) = {}
      BY <1>1 DEF Admit, SubmitterState, Claims
<1>3. ClientType'
      BY DEF Admit, ClientType, Overlooks
<1> DEFINE req == Head(submitters[i].todo)
<1>4. CASE KnownStartup(req)
  <2>1. Submitted(i, Tail(submitters[i].todo)) /\ UNCHANGED <<job, finished>>
        BY <1>4 DEF Admit
  <2>2. Submitters(submitters') /\ Submitting(submitters') = Submitting(submitters)
        BY <1>2, <2>1, SubmittedFacts
  <2>3. QED  BY <1>3, <2>1, <2>2 DEF Admit, queue
<1>5. CASE ~KnownStartup(req)
  <2> DEFINE todo == submitters[i].todo
             first == Request(req.class, req.paths)
             sub == [pc |-> "submit", todo |-> <<first>> \o Tail(todo)]
             id == Len(job) + 1
  <2>1. /\ submitters' = [submitters EXCEPT ![i] = sub]
        /\ job' = Append(job, "queued") /\ finished' = Append(finished, 0)
        BY <1>5 DEF Admit
  <2>2. /\ JobsType(job', finished') /\ id \in Nat /\ id \notin DOMAIN job
        /\ DOMAIN job' = DOMAIN job \cup {id}
        /\ Open(job', finished') = Open(job, finished) \cup {id}
        BY <2>1, JobsAppend
  <2>3. req \in Drafts
        BY <1>2, ListFacts
  <2>4. first \in Admitted /\ first.id = id
        BY <2>2, <2>3 DEF Request, Admitted, Drafts
  <2> HIDE DEF first, id, req
  <2>5. <<first>> \o Tail(todo) \in Lists(Admitted, Drafts) /\ (<<first>> \o Tail(todo))[1] = first
    <3>1. CASE Len(Tail(todo)) = 0
      <4>1. <<first>> \o Tail(todo) = <<first>> /\ <<first>>[1] = first
        <5>1. Tail(todo) = <<>>
              BY <1>2, <3>1, ListFacts
        <5>2. <<first>> \o <<>> = <<first>> /\ <<first>>[1] = first
              OBVIOUS
        <5>3. QED  BY <5>1, <5>2
      <4>2. QED  BY <2>4, <4>1 DEF Lists
    <3>2. CASE Len(Tail(todo)) # 0
      <4> DEFINE second == todo[2]
      <4>1. Tail(todo) = <<second>> /\ second \in Drafts
            BY <1>2, <3>2, ListFacts
      <4> HIDE DEF second, todo
      <4>2. /\ <<first>> \o <<second>> = <<first, second>>
            /\ <<first, second>>[1] = first /\ <<first, second>>[2] = second
            BY ConcatTwo
      <4>3. <<first, second>> \in Admitted \X Drafts
            BY <2>4, <4>1
      <4>4. <<first, second>> \in Lists(Admitted, Drafts)
            BY <4>2, <4>3 DEF Lists
      <4>5. QED  BY <4>1, <4>2, <4>4
    <3>3. QED  BY <3>1, <3>2
  <2>6. sub \in SubmitterState /\ Claims(sub) = {id}
        BY <2>4, <2>5 DEF SubmitterState, Claims
  <2> HIDE DEF sub, todo
  <2>7. id \notin Open(job, finished)
        BY <2>2 DEF Open
  <2>8. /\ Submitters(submitters')
        /\ Submitting(submitters') = Submitting(submitters) \cup {id}
    <3>1. Claims(sub) \cap (Submitting(submitters) \ Claims(submitters[i])) = {}
          BY <2>6, <2>7 DEF Apart
    <3>2. /\ Submitters([submitters EXCEPT ![i] = sub])
          /\ Submitting([submitters EXCEPT ![i] = sub]) =
                (Submitting(submitters) \ Claims(submitters[i])) \cup Claims(sub)
          BY <2>6, <3>1, SubmittersReplace
    <3>3. QED  BY <1>2, <2>1, <2>6, <3>2
  <2>9. Apart(Submitting(submitters)', Queued(pending), Taken(workers), Open(job', finished'))
        BY <2>2, <2>7, <2>8 DEF Apart
  <2>10. UNCHANGED <<pending, workerRunning, runningKeys, workers, waiting, callerDone, dirty>>
        BY DEF Admit, queue
  <2>11. QED  BY <1>3, <2>2, <2>8, <2>9, <2>10
<1>6. QED  BY <1>4, <1>5

\* The check of the context: go on to the lock, or give the request up.
LEMMA SubmitCheckKeepsQueue ==
    ASSUME QueueIndInv, NEW i \in DOMAIN submitters, SubmitCheck(i)
    PROVE  QueueIndInv'
<1> USE DEF QueueIndInv
<1>1. submitters[i] \in SubmitterState
      BY ElementOfSeq, LenProperties DEF Submitters
<1>2. ClientType'
      BY DEF SubmitCheck, ClientType, ghosts
<1>3. CASE stopped
  <2>1. Submitted(i, Tail(submitters[i].todo))
        BY <1>3 DEF SubmitCheck
  <2>2. /\ Submitters(submitters')
        /\ Submitting(submitters') = Submitting(submitters) \ Claims(submitters[i])
        BY <2>1, SubmittedFacts
  <2>3. Apart(Submitting(submitters)', Queued(pending), Taken(workers), Open(job, finished))
        BY <2>2 DEF Apart
  <2>4. QED  BY <1>2, <2>2, <2>3 DEF SubmitCheck, queue, requests, ghosts
<1>4. CASE ~stopped
  <2> DEFINE sub == [submitters[i] EXCEPT !.pc = "enqueue"]
  <2>1. submitters' = [submitters EXCEPT ![i] = sub] /\ submitters[i].pc = "submit"
        BY <1>4 DEF SubmitCheck
  <2>2. sub \in SubmitterState /\ Claims(sub) = Claims(submitters[i])
        BY <1>1, <2>1 DEF SubmitterState, Claims
  <2> HIDE DEF sub
  <2>3. Claims(submitters[i]) \subseteq Submitting(submitters)
        BY DEF Submitting
  <2>4. Submitters(submitters') /\ Submitting(submitters') = Submitting(submitters)
    <3>1. Claims(sub) \cap (Submitting(submitters) \ Claims(submitters[i])) = {}
          BY <2>2
    <3>2. /\ Submitters([submitters EXCEPT ![i] = sub])
          /\ Submitting([submitters EXCEPT ![i] = sub]) =
                (Submitting(submitters) \ Claims(submitters[i])) \cup Claims(sub)
          BY <2>2, <3>1, SubmittersReplace
    <3>3. QED  BY <2>1, <2>2, <2>3, <3>2
  <2>5. QED  BY <1>2, <2>4 DEF SubmitCheck, queue, requests, ghosts
<1>5. QED  BY <1>3, <1>4

\* The request joins the queue, and a worker is started if none is marked.
LEMMA EnqueueKeepsQueue ==
    ASSUME QueueIndInv, NEW i \in DOMAIN submitters, Enqueue(i)
    PROVE  QueueIndInv'
<1> USE DEF QueueIndInv
<1> DEFINE req == Head(submitters[i].todo)
<1>1. submitters[i] \in SubmitterState
      BY ElementOfSeq, LenProperties DEF Submitters
<1>2. submitters[i].todo \in Lists(Admitted, Drafts)
      BY <1>1 DEF Enqueue, SubmitterState
<1>3. req \in Admitted /\ Claims(submitters[i]) = {req.id}
      BY <1>2, ListFacts DEF Enqueue, Claims
<1>4. /\ pending' = Append(pending, req) /\ workerRunning' = TRUE
      /\ workers' = IF workerRunning THEN workers ELSE Append(workers, NewWorker)
      /\ waiting' = IF IsRepair(req) THEN waiting \cup {req.id} ELSE waiting
      /\ Submitted(i, Tail(submitters[i].todo))
      /\ UNCHANGED <<stopped, startupPending, watching, watch, runningKeys, job, finished,
                     callerDone, counts, ghosts>>
      BY DEF Enqueue
<1> HIDE DEF req
<1>5. ClientType'
      BY <1>4 DEF ClientType, ghosts
<1>6. /\ Submitters(submitters')
      /\ Submitting(submitters') = Submitting(submitters) \ {req.id}
      BY <1>3, <1>4, SubmittedFacts
<1>7. req.id \in Submitting(submitters) /\ req.id \in Open(job, finished)
      BY <1>3 DEF Submitting, Apart
<1>8. Waiters(pending') /\ Queued(pending') = Queued(pending) \cup {req.id}
  <2>1. req.id \notin Queued(pending)
        BY <1>7 DEF Apart
  <2>2. QED  BY <1>3, <1>4, <2>1, WaitersAppend
<1>9. /\ Workers(workers', TRUE) /\ Taken(workers') = Taken(workers)
      /\ \A j \in DOMAIN workers' : workers'[j].covers \subseteq dirty
  <2>1. CASE workerRunning
        BY <1>4, <2>1 DEF Workers
  <2>2. CASE ~workerRunning
    <3>1. Workers(workers, FALSE) /\ workers' = Append(workers, NewWorker)
          BY <1>4, <2>2 DEF Workers
    <3>2. /\ Workers(workers', TRUE) /\ Taken(workers') = Taken(workers)
          /\ \E k : /\ DOMAIN workers' = DOMAIN workers \cup {k}
                    /\ workers'[k] = NewWorker
                    /\ \A j \in DOMAIN workers : workers'[j] = workers[j]
          BY <3>1, WorkersAppend
    <3>3. NewWorker.covers = {}
          BY DEF NewWorker
    <3>4. QED  BY <3>2, <3>3
  <2>3. QED  BY <2>1, <2>2 DEF Workers
<1>10. waiting' \subseteq DOMAIN job
      BY <1>4, <1>7 DEF Open
<1>11. Apart(Submitting(submitters)', Queued(pending)', Taken(workers)', Open(job, finished))
      BY <1>6, <1>7, <1>8, <1>9 DEF Apart
<1>12. Workers(workers', workerRunning')
      BY <1>4, <1>9
<1>13. QED
      BY <1>4, <1>5, <1>6, <1>8, <1>9, <1>10, <1>11, <1>12 DEF ghosts

\* The worker that serves becomes w, with the requests of its batch or without
\* those it has finished.
WorkerGoes(i, w) ==
    /\ i \in DOMAIN workers /\ Serves(workers[i])
    /\ w \in WorkerState /\ Serves(w) /\ (w.pc # "scan" => w.covers = {})
    /\ workers' = [workers EXCEPT ![i] = w] /\ w.covers \subseteq dirty'
    /\ Ids(w.batch) \subseteq Ids(workers[i].batch)
    /\ JobsType(job', finished') /\ DOMAIN job' = DOMAIN job
    /\ Open(job, finished) \ (Ids(workers[i].batch) \ Ids(w.batch)) \subseteq Open(job', finished')
    /\ runningKeys' \subseteq SUBSET Paths
    /\ UNCHANGED <<submitters, pending, workerRunning, waiting, callerDone>>

\* It keeps the invariant.
LEMMA WorkerMoves ==
    ASSUME QueueIndInv, NEW i, NEW w, WorkerGoes(i, w), ClientType'
    PROVE  QueueIndInv'
<1> USE DEF QueueIndInv
<1>0. /\ i \in DOMAIN workers /\ Serves(workers[i])
      /\ w \in WorkerState /\ Serves(w) /\ (w.pc # "scan" => w.covers = {})
      /\ workers' = [workers EXCEPT ![i] = w] /\ w.covers \subseteq dirty'
      /\ Ids(w.batch) \subseteq Ids(workers[i].batch)
      /\ JobsType(job', finished') /\ DOMAIN job' = DOMAIN job
      /\ Open(job, finished) \ (Ids(workers[i].batch) \ Ids(w.batch))
            \subseteq Open(job', finished')
      /\ runningKeys' \subseteq SUBSET Paths
      /\ UNCHANGED <<submitters, pending, workerRunning, waiting, callerDone>>
      BY DEF WorkerGoes
<1> USE <1>0
<1> DEFINE mine == Ids(workers[i].batch)
           kept == Ids(w.batch)
<1> HIDE DEF mine, kept
<1>1. mine \subseteq Taken(workers)
      BY WorkerFacts DEF mine
<1>2. /\ workerRunning = TRUE /\ Workers(workers', TRUE)
      /\ Taken(workers') = (Taken(workers) \ mine) \cup kept
      /\ DOMAIN workers' = DOMAIN workers /\ workers'[i] = w
      /\ \A j \in DOMAIN workers \ {i} : workers'[j] = workers[j] /\ workers[j].covers = {}
  <2>1. Ids(w.batch) \cap (Taken(workers) \ Ids(workers[i].batch)) = {}
        OBVIOUS
  <2> DEFINE new == WithWorker(workers, i, w)
  <2>2. /\ workerRunning = TRUE /\ Workers(new, TRUE)
        /\ Taken(new) = (Taken(workers) \ Ids(workers[i].batch)) \cup Ids(w.batch)
        /\ DOMAIN new = DOMAIN workers /\ new[i] = w
        /\ \A j \in DOMAIN workers \ {i} :
              new[j] = workers[j] /\ ~Serves(workers[j]) /\ workers[j].covers = {}
    <3>1. MayFollow(workers, workerRunning, i, w)
          BY <2>1 DEF MayFollow
    <3>2. Followed(workers, workerRunning, i, w, new)
          BY <3>1, WorkersReplace
    <3>3. QED  BY <3>2 DEF Followed
  <2> HIDE DEF new
  <2>3. workers' = new
        BY DEF new, WithWorker
  <2>4. QED  BY <2>2, <2>3 DEF mine, kept
<1>3. Workers(workers', workerRunning')
      BY <1>2
<1>4. \A j \in DOMAIN workers' : workers'[j].covers \subseteq dirty'
      BY <1>2
<1>5. Open(job, finished) \ (mine \ kept) \subseteq Open(job', finished') /\ kept \subseteq mine
      BY DEF mine, kept
<1>6. Apart(Submitting(submitters), Queued(pending), Taken(workers'), Open(job', finished'))
      BY <1>1, <1>2, <1>5 DEF Apart
<1>7. QED  BY <1>3, <1>4, <1>6

\* The worker finds nothing pending and leaves, or takes a batch.
LEMMA TakeBatchKeepsQueue ==
    ASSUME QueueIndInv, NEW i \in DOMAIN workers, TakeBatch(i)
    PROVE  QueueIndInv'
<1> USE DEF QueueIndInv
<1>1. Serves(workers[i]) /\ workers[i] \in WorkerState
      BY WorkerFacts DEF TakeBatch, At, Serves
<1>2. ClientType'
      BY DEF TakeBatch, ClientType, ghosts
<1>3. CASE pending = <<>>
  <2>1. /\ pending' = pending /\ workerRunning' = FALSE /\ runningKeys' = {}
        /\ workers' = RemoveAt(workers, i)
        BY <1>3 DEF TakeBatch
  <2> DEFINE new == RemoveAt(workers, i)
  <2>2. /\ Workers(new, workerRunning /\ ~Serves(workers[i]))
        /\ Taken(new) = Taken(workers) \ Ids(workers[i].batch)
        /\ \A j \in DOMAIN new : \E k \in DOMAIN workers \ {i} : new[j] = workers[k]
        BY WorkersRemove
  <2>3. (workerRunning /\ ~Serves(workers[i])) = FALSE
        BY <1>1
  <2> HIDE DEF new
  <2>4. Workers(new, FALSE)
        BY <2>2, <2>3
  <2>5. Apart(Submitting(submitters), Queued(pending), Taken(new), Open(job, finished))
        BY <2>2 DEF Apart
  <2>6. \A j \in DOMAIN new : new[j].covers \subseteq dirty
        BY <2>2
  <2>7. workers' = new
        BY <2>1 DEF new
  <2>8. QED  BY <1>2, <1>3, <2>1, <2>4, <2>5, <2>6, <2>7 DEF TakeBatch, requests, ghosts
<1>4. CASE pending # <<>>
  <2> DEFINE w == [NewWorker EXCEPT !.pc = "filter", !.batch = NextBatch,
                                    !.keys = StartupKeys(NextBatch)]
  <2>1. /\ pending' = AfterBatch /\ runningKeys' = StartupKeys(NextBatch)
        /\ workers' = [workers EXCEPT ![i] = w] /\ workerRunning' = workerRunning
        BY <1>4 DEF TakeBatch
  <2>2. /\ Waiters(AfterBatch) /\ NextBatch \subseteq Admitted
        /\ Queued(AfterBatch) \cup Ids(NextBatch) = Queued(pending)
        /\ Queued(AfterBatch) \cap Ids(NextBatch) = {}
        BY <1>4, BatchFacts
  <2>3. StartupKeys(NextBatch) \subseteq SUBSET Paths
        BY <2>2 DEF StartupKeys, Admitted
  <2>4. /\ w \in WorkerState /\ w.pc = "filter" /\ w.batch = NextBatch /\ w.covers = {}
        BY <2>2, <2>3 DEF NewWorker, WorkerState
  <2> HIDE DEF w
  <2>5. Serves(w) = TRUE
        BY <2>4 DEF Serves
  <2>6. Ids(w.batch) \cap (Taken(workers) \ Ids(workers[i].batch)) = {}
        BY <2>2, <2>4 DEF Apart
  <2> DEFINE new == WithWorker(workers, i, w)
  <2>7. /\ workerRunning = TRUE /\ Workers(new, TRUE)
        /\ Taken(new) = (Taken(workers) \ Ids(workers[i].batch)) \cup Ids(w.batch)
        /\ DOMAIN new = DOMAIN workers /\ new[i] = w
        /\ \A j \in DOMAIN workers \ {i} :
              new[j] = workers[j] /\ ~Serves(workers[j]) /\ workers[j].covers = {}
    <3>1. MayFollow(workers, workerRunning, i, w)
          BY <1>1, <2>4, <2>6 DEF MayFollow
    <3>2. Followed(workers, workerRunning, i, w, new)
          BY <3>1, WorkersReplace
    <3>3. QED  BY <2>5, <3>2 DEF Followed
  <2> HIDE DEF new
  <2>8. Workers(new, TRUE)
        BY <2>5, <2>7
  <2>9. \A j \in DOMAIN new : new[j].covers \subseteq dirty
        BY <2>4, <2>7
  <2>10. Ids(w.batch) = Ids(NextBatch)
        BY <2>4
  <2>11. Apart(Submitting(submitters), Queued(AfterBatch), Taken(new), Open(job, finished))
    <3> DEFINE A == Submitting(submitters)
               B == Queued(AfterBatch)
               C == Ids(NextBatch)
               T == Taken(workers)
               M == Ids(workers[i].batch)
               O == Open(job, finished)
    <3>1. /\ A \cap (B \cup C) = {} /\ A \cap T = {} /\ (B \cup C) \cap T = {} /\ B \cap C = {}
          /\ A \subseteq O /\ B \cup C \subseteq O /\ T \subseteq O
          BY <2>2 DEF Apart
    <3>2. Taken(new) = (T \ M) \cup C
          BY <2>7, <2>10
    <3> HIDE DEF A, B, C, T, M, O
    <3>3. Apart(A, B, (T \ M) \cup C, O)
          BY <3>1 DEF Apart
    <3>4. QED  BY <3>2, <3>3 DEF A, B, O
  <2>12. workers' = new
        BY <2>1 DEF new, WithWorker
  <2>13. QED  BY <1>2, <2>1, <2>2, <2>3, <2>7, <2>8, <2>9, <2>11, <2>12
                 DEF TakeBatch, requests, ghosts
<1>5. QED  BY <1>3, <1>4

\* The library has stopped: the worker gives up its mark with everything pending.
LEMMA FailPendingKeepsQueue ==
    ASSUME QueueIndInv, NEW i \in DOMAIN workers, FailPending(i)
    PROVE  QueueIndInv'
<1> USE DEF QueueIndInv
<1>1. Serves(workers[i]) /\ workers[i] \in WorkerState /\ workers[i].pc = "loop"
      BY WorkerFacts DEF FailPending, At, Serves
<1>2. ClientType'
      BY DEF FailPending, ClientType, ghosts
<1> DEFINE w == [workers[i] EXCEPT !.pc = "failing", !.batch = ToSet(pending)]
<1>3. workers' = [workers EXCEPT ![i] = w]
      BY DEF FailPending
<1>4. ToSet(pending) \subseteq Admitted
  <2>1. \A k \in DOMAIN pending : pending[k] \in Admitted
        BY LenProperties, ElementOfSeq DEF Waiters
  <2>2. QED  BY <2>1 DEF ToSet
<1>5. workers[i].covers = {}
      BY <1>1 DEF Workers
<1>6. w \in WorkerState /\ w.pc = "failing" /\ w.batch = ToSet(pending) /\ w.covers = {}
      BY <1>1, <1>4, <1>5 DEF WorkerState
<1> HIDE DEF w
<1>7. Serves(w) = FALSE
      BY <1>6 DEF Serves
<1>8. Ids(w.batch) = Queued(pending)
      BY <1>6 DEF Queued
<1>9. Ids(w.batch) \cap (Taken(workers) \ Ids(workers[i].batch)) = {}
      BY <1>8 DEF Apart
<1> DEFINE new == WithWorker(workers, i, w)
<1>10. /\ Workers(new, FALSE)
       /\ Taken(new) = (Taken(workers) \ Ids(workers[i].batch)) \cup Ids(w.batch)
       /\ DOMAIN new = DOMAIN workers /\ new[i] = w
       /\ \A j \in DOMAIN workers \ {i} :
             new[j] = workers[j] /\ ~Serves(workers[j]) /\ workers[j].covers = {}
  <2>1. MayFollow(workers, workerRunning, i, w)
        BY <1>1, <1>6, <1>9 DEF MayFollow
  <2>2. Followed(workers, workerRunning, i, w, new)
        BY <2>1, WorkersReplace
  <2>3. QED  BY <1>7, <2>2 DEF Followed
<1> HIDE DEF new
<1>11. Workers(new, FALSE)
      BY <1>7, <1>10
<1>12. \A j \in DOMAIN new : new[j].covers \subseteq dirty
      BY <1>6, <1>10
<1>13. /\ pending' = <<>> /\ workerRunning' = FALSE /\ runningKeys' = {} /\ workers' = new
      BY <1>3 DEF FailPending, new, WithWorker
<1>14. Waiters(<<>>) /\ Queued(<<>>) = {}
  <2>1. DOMAIN <<>> = {} /\ <<>> \in Seq(Admitted)
        OBVIOUS
  <2>2. QED  BY <2>1 DEF Waiters, Queued, Ids, ToSet
<1>15. Apart(Submitting(submitters), {}, Taken(new), Open(job, finished))
      BY <1>8, <1>10 DEF Apart
<1>16. QED  BY <1>2, <1>11, <1>12, <1>13, <1>14, <1>15 DEF FailPending, requests, ghosts

\* The batch is dropped as cancelled, or its jobs are reported as running.
LEMMA FilterBatchKeepsQueue ==
    ASSUME QueueIndInv, NEW i \in DOMAIN workers, FilterBatch(i)
    PROVE  QueueIndInv'
<1> USE DEF QueueIndInv
<1> DEFINE ids == Ids(workers[i].batch)
<1>1. /\ Serves(workers[i]) /\ workers[i] \in WorkerState /\ workers[i].pc = "filter"
      /\ ids \subseteq Taken(workers)
      BY WorkerFacts DEF FilterBatch, At, Serves
<1>2. ids \in SUBSET Open(job, finished)
      BY <1>1 DEF Apart
<1>3. ClientType'
      BY DEF FilterBatch, ClientType, ghosts
<1>4. UNCHANGED <<submitters, pending, workerRunning, runningKeys, waiting, callerDone, dirty>>
      BY DEF FilterBatch, queue, ghosts
<1>5. CASE ids \subseteq callerDone
  <2>1. Finish(ids, "failed") /\ workers' = [workers EXCEPT ![i] = NewWorker]
        BY <1>5 DEF FilterBatch
  <2>2. /\ JobsType(job', finished') /\ DOMAIN job' = DOMAIN job
        /\ Open(job', finished') = Open(job, finished) \ ids
        BY <1>2, <2>1, FinishFacts
  <2>3. /\ NewWorker \in WorkerState /\ Serves(NewWorker) /\ NewWorker.covers = {}
        /\ Ids(NewWorker.batch) = {}
        BY DEF NewWorker, WorkerState, Serves, Ids
  <2>4. WorkerGoes(i, NewWorker)
        BY <1>1, <1>4, <2>1, <2>2, <2>3 DEF WorkerGoes
  <2>5. QED  BY <1>3, <2>4, WorkerMoves
<1>6. CASE ~(ids \subseteq callerDone)
  <2> DEFINE w == [workers[i] EXCEPT !.pc = "start"]
  <2>1. /\ job' = [k \in DOMAIN job |-> IF k \in ids THEN "running" ELSE job[k]]
        /\ finished' = finished
        /\ workers' = [workers EXCEPT ![i] = w]
        BY <1>6 DEF FilterBatch
  <2>2. /\ JobsType(job', finished) /\ DOMAIN job' = DOMAIN job
        /\ Open(job', finished) = Open(job, finished)
        BY <1>2, <2>1, RunningFacts
  <2>3. workers[i].covers = {}
        BY <1>1 DEF Workers
  <2>4. w \in WorkerState /\ Serves(w) /\ w.covers = {} /\ w.batch = workers[i].batch
        BY <1>1, <2>3 DEF WorkerState, Serves
  <2> HIDE DEF w
  <2>5. WorkerGoes(i, w)
        BY <1>1, <1>4, <2>1, <2>2, <2>4 DEF WorkerGoes
  <2>6. QED  BY <1>3, <2>5, WorkerMoves
<1>7. QED  BY <1>5, <1>6

\* A pass begins: it covers what has changed under its paths so far.
LEMMA StartPassKeepsQueue ==
    ASSUME QueueIndInv, NEW i \in DOMAIN workers, StartPass(i)
    PROVE  QueueIndInv'
<1> USE DEF QueueIndInv
<1> DEFINE covers == {x \in dirty : Covers(workers[i].batch, x)}
           w == [workers[i] EXCEPT !.pc = "scan", !.covers = covers]
<1>1. Serves(workers[i]) /\ workers[i] \in WorkerState
      BY WorkerFacts DEF StartPass, At, Serves
<1>2. ClientType'
      BY DEF StartPass, ClientType
<1>3. workers' = [workers EXCEPT ![i] = w]
      BY DEF StartPass
<1>4. covers \subseteq Paths
      BY DEF ClientType
<1>5. /\ w \in WorkerState /\ Serves(w) /\ w.pc = "scan" /\ w.covers = covers
      /\ w.batch = workers[i].batch
      BY <1>1, <1>4 DEF WorkerState, Serves
<1>6. covers \subseteq dirty
      OBVIOUS
<1>7. UNCHANGED <<submitters, queue, requests, dirty>>
      BY DEF StartPass
<1> HIDE DEF w, covers
<1>8. WorkerGoes(i, w)
      BY <1>1, <1>3, <1>5, <1>6, <1>7 DEF WorkerGoes, queue, requests
<1>9. QED  BY <1>2, <1>8, WorkerMoves

\* A pass ends: it covered everything it set out to, or failed.
LEMMA PassEndsKeepsQueue ==
    ASSUME QueueIndInv, NEW i \in DOMAIN workers, PassSucceeds(i) \/ PassFails(i)
    PROVE  QueueIndInv'
<1> USE DEF QueueIndInv
<1>1. Serves(workers[i]) /\ workers[i] \in WorkerState
      BY WorkerFacts DEF PassSucceeds, PassFails, At, Serves
<1>2. workers[i].covers \subseteq dirty
      OBVIOUS
<1>3. ClientType'
  <2>1. CASE PassSucceeds(i)
        BY <1>2, <2>1 DEF PassSucceeds, ClientType
  <2>2. CASE PassFails(i)
        BY <1>2, <2>2 DEF PassFails, ClientType
  <2>3. QED  BY <2>1, <2>2
<1>4. \E w \in WorkerState :
         /\ workers' = [workers EXCEPT ![i] = w] /\ w.pc = "clear" /\ w.covers = {}
         /\ w.batch = workers[i].batch
  <2>1. CASE PassSucceeds(i)
    <3> DEFINE w == [workers[i] EXCEPT !.pc = "clear", !.covers = {}]
    <3>1. workers' = [workers EXCEPT ![i] = w]
          BY <2>1 DEF PassSucceeds
    <3>2. w \in WorkerState /\ w.pc = "clear" /\ w.covers = {} /\ w.batch = workers[i].batch
          BY <1>1 DEF WorkerState
    <3>3. QED  BY <3>1, <3>2
  <2>2. CASE PassFails(i)
    <3> DEFINE w == [workers[i] EXCEPT !.pc = "clear", !.covers = {}, !.ok = FALSE]
    <3>1. workers' = [workers EXCEPT ![i] = w]
          BY <2>2 DEF PassFails
    <3>2. w \in WorkerState /\ w.pc = "clear" /\ w.covers = {} /\ w.batch = workers[i].batch
          BY <1>1 DEF WorkerState
    <3>3. QED  BY <3>1, <3>2
  <2>3. QED  BY <2>1, <2>2
<1>5. PICK w \in WorkerState :
         /\ workers' = [workers EXCEPT ![i] = w] /\ w.pc = "clear" /\ w.covers = {}
         /\ w.batch = workers[i].batch
      BY <1>4
<1>6. UNCHANGED <<submitters, queue, requests>>
      BY DEF PassSucceeds, PassFails
<1>7. WorkerGoes(i, w)
      BY <1>1, <1>5, <1>6 DEF WorkerGoes, queue, requests, Serves
<1>8. QED  BY <1>3, <1>7, WorkerMoves

\* The keys of the batch are given up, and the startup scan may be satisfied.
LEMMA ClearKeysKeepsQueue ==
    ASSUME QueueIndInv, NEW i \in DOMAIN workers, ClearKeys(i)
    PROVE  QueueIndInv'
<1> USE DEF QueueIndInv
<1> DEFINE w == [workers[i] EXCEPT !.pc = "finish"]
<1>1. Serves(workers[i]) /\ workers[i] \in WorkerState /\ workers[i].pc = "clear"
      BY WorkerFacts DEF ClearKeys, At, Serves
<1>2. ClientType'
      BY <1>1 DEF ClearKeys, ClientType, WorkerState
<1>3. workers' = [workers EXCEPT ![i] = w]
      BY DEF ClearKeys
<1>4. workers[i].covers = {}
      BY <1>1 DEF Workers
<1>5. w \in WorkerState /\ Serves(w) /\ w.covers = {} /\ w.batch = workers[i].batch
      BY <1>1, <1>4 DEF WorkerState, Serves
<1>6. /\ UNCHANGED <<submitters, pending, workerRunning, requests, dirty>>
      /\ runningKeys' \subseteq runningKeys
      BY DEF ClearKeys
<1> HIDE DEF w
<1>7. WorkerGoes(i, w)
      BY <1>1, <1>3, <1>5, <1>6 DEF WorkerGoes, requests
<1>8. QED  BY <1>2, <1>7, WorkerMoves

\* The batch is finished and the worker looks for the next one.
LEMMA FinishBatchKeepsQueue ==
    ASSUME QueueIndInv, NEW i \in DOMAIN workers, FinishBatch(i)
    PROVE  QueueIndInv'
<1> USE DEF QueueIndInv
<1> DEFINE ids == Ids(workers[i].batch)
<1>1. Serves(workers[i]) /\ ids \subseteq Taken(workers)
      BY WorkerFacts DEF FinishBatch, At, Serves
<1>2. ids \in SUBSET Open(job, finished)
      BY <1>1 DEF Apart
<1>3. ClientType'
      BY DEF FinishBatch, ClientType, ghosts
<1>4. PICK phase \in {"completed", "failed"} : Finish(ids, phase)
      BY DEF FinishBatch
<1>5. /\ JobsType(job', finished') /\ DOMAIN job' = DOMAIN job
      /\ Open(job', finished') = Open(job, finished) \ ids
      BY <1>2, <1>4, FinishFacts
<1>6. /\ NewWorker \in WorkerState /\ Serves(NewWorker) /\ NewWorker.covers = {}
      /\ Ids(NewWorker.batch) = {}
      BY DEF NewWorker, WorkerState, Serves, Ids
<1>7. WorkerGoes(i, NewWorker)
      BY <1>1, <1>5, <1>6 DEF WorkerGoes, FinishBatch, queue, ghosts
<1>8. QED  BY <1>3, <1>7, WorkerMoves

\* failPending ends; another worker may serve the queue by now.
LEMMA FinishFailedKeepsQueue ==
    ASSUME QueueIndInv, NEW i \in DOMAIN workers, FinishFailed(i)
    PROVE  QueueIndInv'
<1> USE DEF QueueIndInv
<1> DEFINE ids == Ids(workers[i].batch)
           new == RemoveAt(workers, i)
<1>1. ~Serves(workers[i]) /\ ids \subseteq Taken(workers)
      BY WorkerFacts DEF FinishFailed, At, Serves
<1>2. ids \in SUBSET Open(job, finished)
      BY <1>1 DEF Apart
<1>3. ClientType'
      BY DEF FinishFailed, ClientType, ghosts
<1>4. Finish(ids, "failed")
      BY DEF FinishFailed
<1>5. /\ JobsType(job', finished') /\ DOMAIN job' = DOMAIN job
      /\ Open(job', finished') = Open(job, finished) \ ids
      BY <1>2, <1>4, FinishFacts
<1>6. /\ Workers(new, workerRunning /\ ~Serves(workers[i]))
      /\ Taken(new) = Taken(workers) \ ids
      /\ \A j \in DOMAIN new : \E k \in DOMAIN workers \ {i} : new[j] = workers[k]
      BY WorkersRemove
<1>7. (workerRunning /\ ~Serves(workers[i])) = workerRunning
      BY <1>1 DEF Workers
<1> HIDE DEF new, ids
<1>8. Workers(new, workerRunning)
      BY <1>6, <1>7
<1>9. \A j \in DOMAIN new : new[j].covers \subseteq dirty
      BY <1>6
<1>10. Apart(Submitting(submitters), Queued(pending), Taken(new), Open(job', finished'))
  <2>1. ids \subseteq Taken(workers)
        BY <1>1
  <2>2. QED  BY <1>5, <1>6, <2>1 DEF Apart
<1>11. workers' = new
      BY DEF FinishFailed, new
<1>12. QED  BY <1>3, <1>5, <1>8, <1>9, <1>10, <1>11 DEF FinishFailed, queue, ghosts

\* A step of a worker.
LEMMA WorkerKeepsQueue ==
    ASSUME QueueIndInv, NEW i \in DOMAIN workers, WorkerStep(i)
    PROVE  QueueIndInv'
BY FailPendingKeepsQueue, TakeBatchKeepsQueue, FilterBatchKeepsQueue, StartPassKeepsQueue,
   PassEndsKeepsQueue, ClearKeysKeepsQueue, FinishBatchKeepsQueue, FinishFailedKeepsQueue
   DEF WorkerStep

\* No action breaks the invariant of the queue.
LEMMA QueueInductive == QueueIndInv /\ [Next]_vars => QueueIndInv'
<1> SUFFICES ASSUME QueueIndInv, [Next]_vars PROVE QueueIndInv'
    OBVIOUS
<1>1. CASE UNCHANGED vars
      BY <1>1 DEF QueueIndInv, ClientType, vars, queue, requests, ghosts
<1>2. ASSUME NEW x \in Paths, NEW asDir \in BOOLEAN, Change(x, asDir) PROVE QueueIndInv'
      BY <1>2, ChangeKeepsQueue
<1>3. CASE Flush \/ SyncRuntime \/ Repair
      BY <1>3, FlushKeepsQueue, FullScanKeepsQueue
<1>4. CASE Stop
      BY <1>4, CallersKeepQueue
<1>5. ASSUME NEW i \in DOMAIN submitters, SubmitterStep(i) PROVE QueueIndInv'
      BY <1>5, AdmitKeepsQueue, SubmitCheckKeepsQueue, EnqueueKeepsQueue DEF SubmitterStep
<1>6. ASSUME NEW i \in DOMAIN workers, WorkerStep(i) PROVE QueueIndInv'
      BY <1>6, WorkerKeepsQueue
<1>7. ASSUME NEW id \in waiting, CallerCancels(id) \/ CallerLeaves(id) \/ CallerReturns(id)
      PROVE  QueueIndInv'
      BY <1>7, CallersKeepQueue, CallerLeavesKeepsQueue
<1>8. QED  BY <1>1, <1>2, <1>3, <1>4, <1>5, <1>6, <1>7 DEF Next

\* So it holds in every state.
LEMMA QueueIndCorrect == Spec => []QueueIndInv
BY QueueInit, QueueInductive, PTL DEF Spec

\* However submit, cancellation, failPending and the end of the worker interleave,
\* requests are finished once and the queue has the one worker its mark says.
THEOREM QueueKeepsWorker == Spec => []QueueSound
<1>1. QueueIndInv => QueueSound
  <2> SUFFICES ASSUME QueueIndInv PROVE QueueSound
      OBVIOUS
  <2> USE DEF QueueIndInv
  <2>1. \A i \in DOMAIN submitters : submitters[i] \in SubmitterState
        BY ElementOfSeq, LenProperties DEF Submitters
  <2>2. \A i \in DOMAIN submitters : submitters[i].pc \in {"admit", "submit", "enqueue"}
        BY <2>1 DEF SubmitterState
  <2>3. \A i \in DOMAIN pending : pending[i] \in Requests
    <3>1. ASSUME NEW i \in DOMAIN pending PROVE pending[i] \in Requests
      <4>1. pending[i] \in Admitted
            BY ElementOfSeq, LenProperties DEF Waiters
      <4>2. pending[i].id \in DOMAIN job
            BY DEF Apart, Queued, Ids, ToSet, Open
      <4>3. QED  BY <4>1, <4>2 DEF Admitted, Requests
    <3>2. QED  BY <3>1
  <2>4. \A i \in DOMAIN workers : workers[i] \in WorkerState
        BY WorkerFacts
  <2>5. \A i \in DOMAIN workers :
           workers[i].pc \in {"loop", "filter", "start", "scan", "clear", "finish", "failing"}
        BY <2>4 DEF WorkerState
  <2>6. \A k \in DOMAIN job : job[k] \in Phases /\ finished[k] \in {0, 1}
        BY ElementOfSeq, LenProperties DEF JobsType
  <2>7. ScanTypeOK
        BY <2>2, <2>3, <2>5, <2>6 DEF ScanTypeOK, ClientType, JobsType, Workers, Phases
  <2>8. FinishedOnce
    <3>1. \A k \in DOMAIN job : finished[k] = 1 <=> job[k] \in {"completed", "failed"}
          BY DEF JobsType
    <3>2. \A k \in DOMAIN job : finished[k] <= 1
          BY <2>6
    <3>3. QED  BY <3>1, <3>2 DEF FinishedOnce
  <2>9. QueueServed
    <3> DEFINE serving == {i \in DOMAIN workers : workers[i].pc # "failing"}
    <3>1. \A i, j \in serving : i = j
          BY DEF Workers, Serves
    <3>2. workerRunning <=> serving # {}
          BY DEF Workers, Serves
    <3> HIDE DEF serving
    <3>3. Cardinality(serving) <= 1
          BY <3>1, AtMostOne
    <3>4. QED  BY <3>2, <3>3 DEF QueueServed, serving
  <2>10. QED  BY <2>7, <2>8, <2>9 DEF QueueSound
<1>2. QED  BY <1>1, QueueIndCorrect, PTL

-----------------------------------------------------------------------------
(* What a pass covers.                                                     *)

\* A pass covers what its requests hold.
LEMMA BatchCovers ==
    ASSUME NEW batch \in SUBSET Admitted, NEW req \in batch, NEW x, Holds(req, x)
    PROVE  Covers(batch, x)
<1> DEFINE deltas == UNION {r.paths : r \in {q \in batch : q.class = "delta"}}
<1>1. DeltaPaths(batch) = PruneUnder(deltas, FullRoots(batch))
      BY DEF DeltaPaths
<1>2. CASE req.class = "delta"
  <2>1. x \in deltas
        BY <1>2 DEF Holds
  <2> HIDE DEF deltas
  <2>2. QED  BY <1>1, <2>1 DEF PruneUnder, Covers
<1>3. CASE req.class # "delta"
  <2>1. Within(x, req.paths) /\ req.paths \subseteq FullRoots(batch)
        BY <1>3 DEF Holds, FullRoots
  <2>2. QED  BY <2>1 DEF Within, Covers
<1>4. QED  BY <1>2, <1>3

-----------------------------------------------------------------------------
(* The elements of sequences that change in one place.                     *)

Others(s, i) == {s[j] : j \in DOMAIN s \ {i}}

\* An element more.
LEMMA AppendElements ==
    ASSUME NEW S, NEW s \in Seq(S), NEW e \in S
    PROVE  ToSet(Append(s, e)) = ToSet(s) \cup {e}
<1>1. PICK k : /\ DOMAIN Append(s, e) = DOMAIN s \cup {k}
               /\ Append(s, e)[k] = e /\ k \notin DOMAIN s
               /\ \A j \in DOMAIN s : Append(s, e)[j] = s[j]
      BY AppendMap
<1>2. QED  BY <1>1 DEF ToSet

\* An element less.
LEMMA RemoveElements ==
    ASSUME NEW S, NEW s \in Seq(S), NEW i \in DOMAIN s
    PROVE  ToSet(RemoveAt(s, i)) = Others(s, i)
<1>1. Leaves(s, i, RemoveAt(s, i))
      BY RemoveAtMap
<1>2. QED  BY <1>1 DEF Leaves, ToSet, Others

\* Another element.
LEMMA ReplaceElements ==
    ASSUME NEW s, NEW i \in DOMAIN s, NEW e
    PROVE  ToSet([s EXCEPT ![i] = e]) = Others(s, i) \cup {e}
BY DEF ToSet, Others

\* The elements besides the one at i.
LEMMA OtherElements ==
    ASSUME NEW s, NEW i \in DOMAIN s
    PROVE  ToSet(s) = Others(s, i) \cup {s[i]}
BY DEF ToSet, Others

\* What is left of a submitter that is done with its first request.
Rest(sub) ==
    IF Len(sub.todo) = 2 THEN {[pc |-> "admit", todo |-> <<sub.todo[2]>>]} ELSE {}

\* The others go on.
LEMMA SubmittedElements ==
    ASSUME Submitters(submitters), NEW i \in DOMAIN submitters,
           Submitted(i, Tail(submitters[i].todo))
    PROVE  ToSet(submitters') = Others(submitters, i) \cup Rest(submitters[i])
<1>1. submitters[i] \in SubmitterState /\ submitters \in Seq(SubmitterState)
      BY ElementOfSeq, LenProperties DEF Submitters
<1>2. PICK S : submitters[i].todo \in Lists(S, Drafts)
      BY <1>1 DEF SubmitterState
<1> DEFINE todo == submitters[i].todo
<1> HIDE DEF todo
<1>3. CASE Len(Tail(todo)) = 0
  <2>1. submitters' = RemoveAt(submitters, i)
        BY <1>3 DEF Submitted, todo
  <2>2. Len(todo) = 1
        BY <1>2, <1>3, ListFacts DEF todo
  <2>3. Rest(submitters[i]) = {}
        BY <2>2 DEF Rest, todo
  <2>4. QED  BY <1>1, <2>1, <2>3, RemoveElements
<1>4. CASE Len(Tail(todo)) # 0
  <2> DEFINE sub == [pc |-> "admit", todo |-> Tail(todo)]
  <2>1. submitters' = [submitters EXCEPT ![i] = sub]
        BY <1>4 DEF Submitted, todo
  <2>2. Tail(todo) = <<todo[2]>> /\ Len(todo) = 2
        BY <1>2, <1>4, ListFacts DEF todo
  <2>3. Rest(submitters[i]) = {sub}
        BY <2>2 DEF Rest, todo
  <2> HIDE DEF sub
  <2>4. ToSet([submitters EXCEPT ![i] = sub]) = Others(submitters, i) \cup {sub}
        BY ReplaceElements
  <2>5. QED  BY <2>1, <2>3, <2>4
<1>5. QED  BY <1>3, <1>4

-----------------------------------------------------------------------------
(* The inductive invariant of the changes.  What a caller may cancel does  *)
(* not count.                                                              *)

ByRequests(reqs, x) == \E req \in reqs : ~IsRepair(req) /\ Holds(req, x)

Todo(sub) == IF Len(sub.todo) = 2 THEN {sub.todo[1], sub.todo[2]} ELSE {sub.todo[1]}

BySubmitters(subs, x) == \E sub \in subs : ByRequests(Todo(sub), x)

ByWorker(w, x) ==
    \/ w.pc \in {"filter", "start"} /\ ByRequests(w.batch, x)
    \/ w.pc = "scan" /\ x \in w.covers

ByWorkers(ws, x) == \E w \in ws : ByWorker(w, x)

HeldBy(w, subs, reqs, ws, x) ==
    x \in w.delta \/ BySubmitters(subs, x) \/ ByRequests(reqs, x) \/ ByWorkers(ws, x)

\* What the keys of a worker say, and what the end of its pass does.
KeysSay(w, done) ==
    /\ w.pc \in {"filter", "start", "scan"} => w.keys = StartupKeys(w.batch)
    /\ w.pc = "clear" /\ w.ok /\ ScanRoots \subseteq FullRoots(w.batch) => done

KeysKnown(ws, done) == \A w \in ws : KeysSay(w, done)

\* Only repairs have a caller that may cancel.
OnlyRepairs(callers, reqs) == \A req \in reqs : req.id \in callers => IsRepair(req)

CallersRepair(callers, claimed, reqs, ws) ==
    /\ claimed \cap callers = {}
    /\ OnlyRepairs(callers, reqs)
    /\ \A w \in ws : OnlyRepairs(callers, w.batch)

\* The changes that somebody still has to scan.
Owed == dirty \ (failed \cup overlooked)

ChangesInd ==
    /\ KeysKnown(ToSet(workers), scanned)
    /\ CallersRepair(waiting \cup callerDone, Submitting(submitters), ToSet(pending),
                     ToSet(workers))
    /\ PendingUntilScanned
    /\ watching /\ ~stopped => \A x \in Owed :
          HeldBy(watch, ToSet(submitters), ToSet(pending), ToSet(workers), x)

\* What is held is in a request still to be scanned, or with the watcher.
LEMMA ChangesIndHolds == QueueIndInv /\ ChangesInd => ChangesHeld
<1> SUFFICES ASSUME QueueIndInv, ChangesInd, watching, ~stopped, NEW x \in Owed
             PROVE  x \in watch.delta \/ RequestHolds(x)
    BY DEF ChangesHeld, ChangeHeld, ChangesInd, Owed
<1>1. CASE BySubmitters(ToSet(submitters), x)
  <2>1. PICK i \in DOMAIN submitters : ByRequests(Todo(submitters[i]), x)
        BY <1>1 DEF BySubmitters, ToSet
  <2>2. submitters[i] \in SubmitterState
        BY ElementOfSeq, LenProperties DEF QueueIndInv, Submitters
  <2>3. PICK S : submitters[i].todo \in Lists(S, Drafts)
        BY <2>2 DEF SubmitterState
  <2> DEFINE todo == submitters[i].todo
  <2>4. \E req \in Todo(submitters[i]) : Holds(req, x)
        BY <2>1 DEF ByRequests
  <2> HIDE DEF todo
  <2>5. Len(todo) = 1 \/ Len(todo) = 2
        BY <2>3, ListFacts DEF todo
  <2>6. \E k \in 1..Len(todo) : Holds(todo[k], x)
        BY <2>4, <2>5 DEF Todo, todo
  <2>7. todo = <<todo[1]>> \/ todo = <<todo[1], todo[2]>>
        BY <2>3, ListFacts DEF todo
  <2>8. DOMAIN todo = 1..Len(todo)
    <3>1. ASSUME NEW a, NEW b
          PROVE  DOMAIN <<a>> = 1..Len(<<a>>) /\ DOMAIN <<a, b>> = 1..Len(<<a, b>>)
          OBVIOUS
    <3>2. QED  BY <2>7, <3>1
  <2>9. QED  BY <2>6, <2>8 DEF RequestHolds, todo
<1>2. CASE ByRequests(ToSet(pending), x)
      BY <1>2 DEF ByRequests, RequestHolds, ToSet
<1>3. CASE ByWorkers(ToSet(workers), x)
  <2>1. PICK i \in DOMAIN workers : ByWorker(workers[i], x)
        BY <1>3 DEF ByWorkers, ToSet
  <2>2. CASE workers[i].pc = "scan" /\ x \in workers[i].covers
        BY <2>2 DEF RequestHolds, At
  <2>3. CASE workers[i].pc \in {"filter", "start"} /\ ByRequests(workers[i].batch, x)
    <3>1. workers[i].batch \in SUBSET Admitted
          BY WorkerFacts DEF QueueIndInv, WorkerState
    <3>2. PICK req \in workers[i].batch : Holds(req, x)
          BY <2>3 DEF ByRequests
    <3>3. Covers(workers[i].batch, x)
          BY <3>1, <3>2, BatchCovers
    <3>4. QED  BY <2>3, <3>3 DEF RequestHolds
  <2>4. QED  BY <2>1, <2>2, <2>3 DEF ByWorker
<1>4. QED  BY <1>1, <1>2, <1>3 DEF ChangesInd, HeldBy

\* At first the startup scan is due and nothing is watched.
LEMMA ChangesInit == Init => ChangesInd
<1> SUFFICES ASSUME Init PROVE ChangesInd
    OBVIOUS
<1>1. /\ ToSet(submitters) = {} /\ ToSet(pending) = {} /\ ToSet(workers) = {}
      /\ Submitting(submitters) = {}
  <2>1. ToSet(<<>>) = {} /\ Submitting(<<>>) = {}
        BY DEF ToSet, Submitting
  <2>2. QED  BY <2>1 DEF Init
<1>2. startupPending /\ watching = FALSE /\ waiting = {} /\ callerDone = {}
      BY DEF Init
<1>3. QED  BY <1>1, <1>2 DEF ChangesInd, KeysKnown, CallersRepair, OnlyRepairs,
              PendingUntilScanned

-----------------------------------------------------------------------------
(* The actions keep the invariant of the changes.                          *)

\* The elements of the sequences have their types.
LEMMA ElementTypes ==
    ASSUME QueueIndInv
    PROVE  /\ \A sub \in ToSet(submitters) : sub \in SubmitterState
           /\ \A req \in ToSet(pending) : req \in Admitted
           /\ \A w \in ToSet(workers) : w \in WorkerState
<1>1. /\ submitters \in Seq(SubmitterState) /\ pending \in Seq(Admitted)
      /\ workers \in Seq(WorkerState)
      BY DEF QueueIndInv, Submitters, Waiters, Workers
<1>2. ASSUME NEW S, NEW s \in Seq(S) PROVE \A e \in ToSet(s) : e \in S
      BY ElementOfSeq, LenProperties DEF ToSet
<1>3. QED  BY <1>1, <1>2

\* A change is with the watcher.
LEMMA ChangeKeepsChanges ==
    ASSUME QueueIndInv, ChangesInd, NEW x \in Paths, NEW asDir \in BOOLEAN, Change(x, asDir)
    PROVE  ChangesInd'
<1> DEFINE Missed(w) == [w EXCEPT !.covers = @ \ {x}]
           ws == ToSet(workers)
<1>1. ToSet(workers') = {Missed(w) : w \in ws}
  <2>1. workers' = [i \in DOMAIN workers |-> Missed(workers[i])]
        BY DEF Change
  <2>2. QED  BY <2>1 DEF ToSet
<1>2. \A w \in ws : /\ Missed(w).pc = w.pc /\ Missed(w).batch = w.batch
                    /\ Missed(w).keys = w.keys /\ Missed(w).ok = w.ok
                    /\ Missed(w).covers = w.covers \ {x}
      BY ElementTypes DEF WorkerState
<1>3. UNCHANGED <<stopped, startupPending, watching, submitters, pending, waiting, callerDone,
                  scanned, mistaken>>
      BY DEF Change, queue, requests
<1>4. /\ watch'.delta = watch.delta \cup {x}
      /\ dirty' = dirty \cup {x} /\ failed' = failed \ {x} /\ overlooked' = overlooked \ {x}
      BY DEF Change
<1> HIDE DEF Missed, ws
<1>5. KeysKnown(ToSet(workers'), scanned')
  <2>1. \A w \in ws : KeysSay(Missed(w), scanned)
        BY <1>2 DEF ChangesInd, KeysKnown, ws, KeysSay
  <2>2. QED  BY <1>1, <1>3, <2>1 DEF KeysKnown
<1>6. CallersRepair(waiting' \cup callerDone', Submitting(submitters'), ToSet(pending'),
                    ToSet(workers'))
      BY <1>1, <1>2, <1>3 DEF ChangesInd, CallersRepair, ws
<1>7. ASSUME watching, ~stopped, NEW y \in Owed'
      PROVE  HeldBy(watch', ToSet(submitters), ToSet(pending), ToSet(workers'), y)
  <2>1. CASE y = x
        BY <1>4, <2>1 DEF HeldBy
  <2>2. CASE y # x
    <3>1. HeldBy(watch, ToSet(submitters), ToSet(pending), ws, y)
          BY <1>4, <1>7, <2>2 DEF ChangesInd, Owed, ws
    <3>2. ByWorkers(ws, y) => ByWorkers(ToSet(workers'), y)
          BY <1>1, <1>2, <2>2 DEF ByWorkers, ByWorker
    <3>3. QED  BY <1>4, <3>1, <3>2 DEF HeldBy
  <2>3. QED  BY <2>1, <2>2
<1>8. QED  BY <1>3, <1>5, <1>6, <1>7 DEF ChangesInd, PendingUntilScanned

\* A goroutine that starts holds what the watcher gave it, and all that is owed
\* if the watcher starts with it.
LEMMA StarterKeepsChanges ==
    ASSUME QueueIndInv, ChangesInd, NEW todo \in Lists(Drafts, Drafts),
           submitters' = NewSubmitter(todo),
           UNCHANGED <<stopped, startupPending, queue, workers, requests, ghosts>>,
           \A x \in Paths : watching /\ x \in watch.delta =>
               x \in watch'.delta \/ ByRequests(Todo([pc |-> "admit", todo |-> todo]), x),
           watching' # watching =>
               \A x \in Paths : ByRequests(Todo([pc |-> "admit", todo |-> todo]), x)
    PROVE  ChangesInd'
<1> DEFINE sub == [pc |-> "admit", todo |-> todo]
<1>1. sub \in SubmitterState
      BY DEF SubmitterState
<1>2. submitters' = Append(submitters, sub)
      BY DEF NewSubmitter
<1>3. sub.pc = "admit"
      OBVIOUS
<1> HIDE DEF sub
<1>4. ToSet(submitters') = ToSet(submitters) \cup {sub}
      BY <1>1, <1>2, AppendElements DEF QueueIndInv, Submitters
<1>5. Submitting(submitters') = Submitting(submitters)
      BY <1>1, <1>2, <1>3, SubmittersAppend DEF QueueIndInv
<1>6. UNCHANGED <<stopped, startupPending, pending, workers, waiting, callerDone,
                  dirty, failed, overlooked, scanned, mistaken>>
      BY DEF queue, requests, ghosts
<1>7. Owed' = Owed /\ Owed \subseteq Paths
      BY <1>6 DEF Owed, QueueIndInv, ClientType
<1>8. ASSUME watching', ~stopped, NEW x \in Owed
      PROVE  HeldBy(watch', ToSet(submitters'), ToSet(pending), ToSet(workers), x)
  <2>1. CASE watching' # watching
    <3>1. ByRequests(Todo(sub), x)
          BY <1>7, <2>1 DEF sub
    <3>2. QED  BY <1>4, <3>1 DEF HeldBy, BySubmitters
  <2>2. CASE watching' = watching
    <3>1. HeldBy(watch, ToSet(submitters), ToSet(pending), ToSet(workers), x)
          BY <1>8, <2>2 DEF ChangesInd
    <3>2. x \in watch.delta => x \in watch'.delta \/ ByRequests(Todo(sub), x)
          BY <1>7, <1>8, <2>2 DEF sub
    <3>3. QED  BY <1>4, <3>1, <3>2 DEF HeldBy, BySubmitters
  <2>3. QED  BY <2>1, <2>2
<1>9. QED  BY <1>5, <1>6, <1>7, <1>8 DEF ChangesInd, PendingUntilScanned

\* What the watcher holds goes to the requests of the flush: the paths inside the
\* new directories to their scan, the others to the delta scan.
LEMMA FlushKeepsChanges == QueueIndInv /\ ChangesInd /\ Flush => ChangesInd'
<1> SUFFICES ASSUME QueueIndInv, ChangesInd, Flush PROVE ChangesInd'
    OBVIOUS
<1> DEFINE rest == PruneUnder(watch.delta, watch.startup)
           full == [class |-> "startup", paths |-> watch.startup]
           part == [class |-> "delta", paths |-> rest]
<1>1. PICK todo \in Lists(Drafts, Drafts) :
              /\ submitters' = NewSubmitter(todo)
              /\ watch.startup = {} => todo = <<part>>
              /\ watch.startup # {} =>
                    /\ todo[1] = full
                    /\ rest # {} => Len(todo) = 2 /\ todo[2] = part
      BY FlushRequests DEF QueueIndInv
<1>2. UNCHANGED <<stopped, startupPending, watching, queue, workers, requests, ghosts>>
      BY DEF Flush
<1> DEFINE sub == [pc |-> "admit", todo |-> todo]
<1>3. /\ \A x : Holds(full, x) <=> Within(x, watch.startup)
      /\ \A x : Holds(part, x) <=> x \in rest
      /\ ~IsRepair(full) /\ ~IsRepair(part)
      BY DEF Holds, IsRepair
<1> HIDE DEF full, part
<1>4. watch.startup = {} => Len(todo) = 1 /\ todo[1] = part
  <2>1. Len(<<part>>) = 1 /\ <<part>>[1] = part
        OBVIOUS
  <2>2. QED  BY <1>1, <2>1
<1>5. ASSUME NEW x \in watch.delta PROVE ByRequests(Todo(sub), x)
  <2>1. CASE Within(x, watch.startup)
    <3>1. watch.startup # {}
          BY <2>1 DEF Within
    <3>2. full \in Todo(sub)
          BY <1>1, <3>1 DEF Todo
    <3>3. QED  BY <1>3, <2>1, <3>2 DEF ByRequests
  <2>2. CASE ~Within(x, watch.startup)
    <3>1. x \in rest
          BY <2>2 DEF PruneUnder
    <3> HIDE DEF rest
    <3>2. part \in Todo(sub)
          BY <1>1, <1>4, <3>1 DEF Todo
    <3>3. QED  BY <1>3, <3>1, <3>2 DEF ByRequests
  <2>3. QED  BY <2>1, <2>2
<1> HIDE DEF rest
<1>6. QED  BY <1>1, <1>2, <1>5, StarterKeepsChanges

\* A synchronisation or a repair asks for all the roots.
LEMMA FullScanKeepsChanges == QueueIndInv /\ ChangesInd /\ (SyncRuntime \/ Repair) => ChangesInd'
<1> SUFFICES ASSUME QueueIndInv, ChangesInd, SyncRuntime \/ Repair PROVE ChangesInd'
    OBVIOUS
<1>1. PICK class \in {"startup", "repair"} :
         /\ submitters' = NewSubmitter(<<[class |-> class, paths |-> ScanRoots]>>)
         /\ watching' # watching => class = "startup"
      BY DEF SyncRuntime, Repair
<1> DEFINE req == [class |-> class, paths |-> ScanRoots]
           todo == <<req>>
           sub == [pc |-> "admit", todo |-> todo]
<1>2. req \in Drafts /\ req.paths = ScanRoots /\ req.class = class
      BY ScanAssumption DEF Drafts, Classes
<1> HIDE DEF req
<1>3. todo \in Lists(Drafts, Drafts) /\ Len(todo) = 1 /\ todo[1] = req
      BY <1>2 DEF Lists
<1>4. submitters' = NewSubmitter(todo)
      BY <1>1 DEF req
<1> HIDE DEF todo
<1>5. Todo(sub) = {req}
      BY <1>3 DEF Todo
<1>6. /\ UNCHANGED <<stopped, startupPending, queue, workers, requests, ghosts>>
      /\ watch' = watch
      BY DEF SyncRuntime, Repair
<1>7. watching' # watching => \A x \in Paths : ByRequests(Todo(sub), x)
      BY <1>1, <1>2, <1>5, ScanAssumption DEF ByRequests, Holds, IsRepair
<1>8. QED  BY <1>3, <1>4, <1>6, <1>7, StarterKeepsChanges

\* A library that stops has nothing to hold; a caller cancels a repair.
LEMMA CallersKeepChanges ==
    ASSUME QueueIndInv, ChangesInd,
           Stop \/ \E id \in waiting : CallerCancels(id) \/ CallerReturns(id)
    PROVE  ChangesInd'
<1>1. UNCHANGED <<startupPending, watching, watch, submitters, pending, workers, ghosts>>
      BY DEF Stop, CallerCancels, CallerReturns, queue
<1>2. (waiting \cup callerDone)' \subseteq waiting \cup callerDone
      BY DEF Stop, CallerCancels, CallerReturns, requests
<1>3. stopped' \/ stopped' = stopped
      BY DEF Stop, CallerCancels, CallerReturns
<1>4. CallersRepair((waiting \cup callerDone)', Submitting(submitters), ToSet(pending),
                    ToSet(workers))
      BY <1>2 DEF ChangesInd, CallersRepair, OnlyRepairs
<1>5. QED  BY <1>1, <1>3, <1>4 DEF ChangesInd, PendingUntilScanned, Owed, ghosts

\* A caller that leaves takes a repair with it, on which nothing depends.
LEMMA CallerLeavesKeepsChanges ==
    ASSUME QueueIndInv, ChangesInd, NEW id \in waiting, CallerLeaves(id)
    PROVE  ChangesInd'
<1>1. UNCHANGED <<stopped, startupPending, watching, watch, submitters, workers, callerDone,
                  ghosts>>
      BY DEF CallerLeaves
<1>2. waiting' \cup callerDone' \subseteq waiting \cup callerDone
      BY <1>1 DEF CallerLeaves
<1>3. /\ ToSet(pending') \subseteq ToSet(pending)
      /\ \A req \in ToSet(pending) : req \in ToSet(pending') \/ IsRepair(req)
  <2>1. CASE pending' = pending
        BY <2>1
  <2>2. CASE pending' # pending
    <3>1. pending' = Select(pending, {req \in ToSet(pending) : req.id # id})
          BY <2>2 DEF CallerLeaves
    <3>2. ToSet(pending') = {req \in ToSet(pending) : req.id # id}
          BY <3>1, WaitersWithout DEF QueueIndInv
    <3>3. \A req \in ToSet(pending) : req.id = id => IsRepair(req)
          BY DEF ChangesInd, CallersRepair, OnlyRepairs
    <3>4. QED  BY <3>2, <3>3
  <2>3. QED  BY <2>1, <2>2
<1>4. CallersRepair(waiting' \cup callerDone', Submitting(submitters), ToSet(pending'),
                    ToSet(workers))
      BY <1>2, <1>3 DEF ChangesInd, CallersRepair, OnlyRepairs
<1>5. \A x : ByRequests(ToSet(pending), x) => ByRequests(ToSet(pending'), x)
      BY <1>3 DEF ByRequests
<1>6. QED  BY <1>1, <1>4, <1>5 DEF ChangesInd, PendingUntilScanned, HeldBy, Owed, ghosts

-----------------------------------------------------------------------------
(* Submitters keep what they hold until it is in the queue.                *)

\* The lists of a submitter.
LEMMA SubmitterLists ==
    ASSUME NEW sub \in SubmitterState
    PROVE  /\ Head(sub.todo) = sub.todo[1]
           /\ \/ Len(sub.todo) = 1 /\ Tail(sub.todo) = <<>>
              \/ Len(sub.todo) = 2 /\ Tail(sub.todo) = <<sub.todo[2]>>
           /\ sub.pc = "admit" => sub.todo[1] \in Drafts
           /\ sub.pc # "admit" => sub.todo[1] \in Admitted /\ Claims(sub) = {sub.todo[1].id}
<1>1. CASE sub.pc = "admit"
  <2>1. sub.todo \in Lists(Drafts, Drafts)
        BY <1>1 DEF SubmitterState
  <2>2. QED  BY <1>1, <2>1, ListFacts
<1>2. CASE sub.pc # "admit"
  <2>1. sub.todo \in Lists(Admitted, Drafts)
        BY <1>2 DEF SubmitterState
  <2>2. QED  BY <1>2, <2>1, ListFacts DEF Claims
<1>3. QED  BY <1>1, <1>2

\* The rest holds what the second request does.
LEMMA RestFacts ==
    ASSUME NEW sub
    PROVE  /\ \A r \in Rest(sub) : Claims(r) = {}
           /\ \A x : ByRequests(Todo(sub), x) =>
                 ByRequests({sub.todo[1]}, x) \/ BySubmitters(Rest(sub), x)
<1>1. CASE Len(sub.todo) = 2
  <2> DEFINE d == sub.todo[2]
             r == [pc |-> "admit", todo |-> <<d>>]
  <2>1. Rest(sub) = {r} /\ Todo(sub) = {sub.todo[1], d}
        BY <1>1 DEF Rest, Todo
  <2>2. r.pc = "admit" /\ r.todo[1] = d /\ Len(r.todo) = 1
        OBVIOUS
  <2> HIDE DEF r
  <2>3. Claims(r) = {} /\ Todo(r) = {d}
        BY <2>2 DEF Claims, Todo
  <2>4. QED  BY <2>1, <2>3 DEF BySubmitters, ByRequests
<1>2. CASE Len(sub.todo) # 2
      BY <1>2 DEF Rest, Todo
<1>3. QED  BY <1>1, <1>2

\* Submitter i becomes more; what it held is there, in the queue, with a pass or
\* overlooked, unless the library stopped.
SubmitterGoes(i, more) ==
    /\ i \in DOMAIN submitters
    /\ ToSet(submitters') = Others(submitters, i) \cup more
    /\ ToSet(pending) \subseteq ToSet(pending')
    /\ ToSet(workers) \subseteq ToSet(workers')
    /\ ToSet(workers') \subseteq ToSet(workers) \cup {NewWorker}
    /\ overlooked \subseteq overlooked'
    /\ ~stopped => \A x \in Owed' : ByRequests(Todo(submitters[i]), x) =>
          \/ BySubmitters(more, x) \/ ByRequests(ToSet(pending'), x)
          \/ ByWorkers(ToSet(workers), x)
    /\ CallersRepair(waiting' \cup callerDone', Submitting(submitters'), ToSet(pending'),
                     ToSet(workers))
    /\ UNCHANGED <<stopped, startupPending, watching, watch, dirty, failed, scanned, mistaken>>

\* The invariant goes with it.
LEMMA SubmitterMoves ==
    ASSUME ChangesInd, NEW i, NEW more, SubmitterGoes(i, more)
    PROVE  ChangesInd'
<1> USE DEF SubmitterGoes
<1>1. NewWorker.pc = "loop" /\ NewWorker.batch = {}
      BY DEF NewWorker
<1>2. \A w \in ToSet(workers') : w \in ToSet(workers) \/ w = NewWorker
      OBVIOUS
<1>3. ToSet(submitters) = Others(submitters, i) \cup {submitters[i]}
      BY OtherElements
<1>4. KeysKnown(ToSet(workers'), scanned')
  <2>1. KeysSay(NewWorker, scanned)
        BY <1>1 DEF KeysSay
  <2>2. QED  BY <1>2, <2>1 DEF ChangesInd, KeysKnown
<1>5. CallersRepair(waiting' \cup callerDone', Submitting(submitters'), ToSet(pending'),
                    ToSet(workers'))
      BY <1>1, <1>2 DEF CallersRepair, OnlyRepairs
<1>6. ASSUME watching, ~stopped, NEW x \in Owed'
      PROVE  HeldBy(watch, ToSet(submitters'), ToSet(pending'), ToSet(workers'), x)
  <2>1. HeldBy(watch, ToSet(submitters), ToSet(pending), ToSet(workers), x)
        BY <1>6 DEF ChangesInd, Owed
  <2>2. BySubmitters(ToSet(submitters), x) =>
           \/ BySubmitters(ToSet(submitters'), x) \/ ByRequests(ToSet(pending'), x)
           \/ ByWorkers(ToSet(workers), x)
        BY <1>3, <1>6 DEF BySubmitters
  <2>3. ByRequests(ToSet(pending), x) => ByRequests(ToSet(pending'), x)
        BY DEF ByRequests
  <2>4. ByWorkers(ToSet(workers), x) => ByWorkers(ToSet(workers'), x)
        BY DEF ByWorkers
  <2>5. QED  BY <2>1, <2>2, <2>3, <2>4 DEF HeldBy
<1>7. QED  BY <1>4, <1>5, <1>6 DEF ChangesInd, PendingUntilScanned

\* The requests claimed after submitter i became more.
LEMMA SubmittingElements ==
    ASSUME NEW i \in DOMAIN submitters, NEW more,
           ToSet(submitters') = Others(submitters, i) \cup more
    PROVE  Submitting(submitters') \subseteq Submitting(submitters) \cup UNION {Claims(s) : s \in more}
<1>1. \A subs : Submitting(subs) = UNION {Claims(s) : s \in ToSet(subs)}
      BY DEF Submitting, ToSet
<1>2. ToSet(submitters) = Others(submitters, i) \cup {submitters[i]}
      BY OtherElements
<1>3. QED  BY <1>1, <1>2

\* What a startup scan would cover that is dropped as known is with the one that
\* waits, with the pass under way, or overlooked.
LEMMA DroppedIsHeld ==
    ASSUME QueueIndInv, ChangesInd, NEW req, KnownStartup(req), NEW x \in dirty,
           Holds(req, x), x \notin Overlooks(req)
    PROVE  ByRequests(ToSet(pending), x) \/ ByWorkers(ToSet(workers), x)
<1>1. req.class = "startup" /\ Within(x, req.paths)
      BY DEF KnownStartup, Holds
<1>2. ASSUME NEW reqs, req.paths \in StartupKeys(reqs) PROVE ByRequests(reqs, x)
      BY <1>1, <1>2 DEF StartupKeys, ByRequests, IsRepair, Holds
<1>3. CASE req.paths \in StartupKeys(ToSet(pending))
      BY <1>2, <1>3
<1>4. CASE req.paths \notin StartupKeys(ToSet(pending))
  <2>1. WillRead(req.paths, x)
        BY <1>1, <1>4 DEF Overlooks
  <2>2. PICK i \in DOMAIN workers :
           /\ req.paths \in workers[i].keys
           /\ \/ workers[i].pc \in {"filter", "start"}
              \/ workers[i].pc = "scan" /\ x \in workers[i].covers
        BY <2>1 DEF WillRead, At
  <2>3. workers[i] \in ToSet(workers)
        BY DEF ToSet
  <2>4. workers[i].keys = StartupKeys(workers[i].batch)
        BY <2>2, <2>3 DEF ChangesInd, KeysKnown, KeysSay
  <2>5. ByRequests(workers[i].batch, x)
        BY <1>2, <2>2, <2>4
  <2>6. QED  BY <2>2, <2>3, <2>5 DEF ByWorkers, ByWorker
<1>5. QED  BY <1>3, <1>4

\* A request that is admitted is held on; one that is dropped has another for it.
LEMMA AdmitKeepsChanges ==
    ASSUME QueueIndInv, ChangesInd, NEW i \in DOMAIN submitters, Admit(i)
    PROVE  ChangesInd'
<1> DEFINE sub == submitters[i]
           req == sub.todo[1]
<1>1. sub \in SubmitterState /\ submitters \in Seq(SubmitterState)
      BY ElementTypes, ElementOfSeq, LenProperties DEF QueueIndInv, Submitters
<1>2. sub.pc = "admit" /\ Head(sub.todo) = req
      BY <1>1, SubmitterLists DEF Admit
<1>3. UNCHANGED <<stopped, startupPending, watching, watch, pending, workers, waiting,
                  callerDone, dirty, failed, scanned, mistaken>>
      BY DEF Admit, queue
<1>4. CallersRepair(waiting \cup callerDone, Submitting(submitters), ToSet(pending), ToSet(workers))
      BY DEF ChangesInd
<1>5. CASE KnownStartup(req)
  <2>1. Submitted(i, Tail(sub.todo)) /\ overlooked' = overlooked \cup Overlooks(req)
        BY <1>2, <1>5 DEF Admit
  <2>2. ToSet(submitters') = Others(submitters, i) \cup Rest(sub)
        BY <2>1, SubmittedElements DEF QueueIndInv
  <2>3. Submitting(submitters') \subseteq Submitting(submitters)
    <3>1. \A r \in Rest(sub) : Claims(r) = {}
          BY RestFacts
    <3>2. QED  BY <2>2, <3>1, SubmittingElements
  <2>4. CallersRepair(waiting \cup callerDone, Submitting(submitters'), ToSet(pending),
                      ToSet(workers))
        BY <1>4, <2>3 DEF CallersRepair
  <2>5. ASSUME NEW x \in Owed', ByRequests(Todo(sub), x)
        PROVE  \/ BySubmitters(Rest(sub), x) \/ ByRequests(ToSet(pending), x)
               \/ ByWorkers(ToSet(workers), x)
    <3>1. CASE ByRequests({req}, x)
      <4>1. Holds(req, x)
            BY <3>1 DEF ByRequests
      <4>2. x \in dirty /\ x \notin Overlooks(req)
            BY <1>3, <2>1, <2>5 DEF Owed
      <4>3. QED  BY <1>5, <4>1, <4>2, DroppedIsHeld
    <3>2. CASE BySubmitters(Rest(sub), x)
          BY <3>2
    <3>3. QED  BY <2>5, <3>1, <3>2, RestFacts
  <2>6. SubmitterGoes(i, Rest(sub))
        BY <1>3, <2>1, <2>2, <2>4, <2>5 DEF SubmitterGoes
  <2>7. QED  BY <2>6, SubmitterMoves
<1>6. CASE ~KnownStartup(req)
  <2> DEFINE first == Request(req.class, req.paths)
             todo == <<first>> \o Tail(sub.todo)
             new == [pc |-> "submit", todo |-> todo]
  <2>1. submitters' = [submitters EXCEPT ![i] = new] /\ overlooked' = overlooked
        BY <1>2, <1>6 DEF Admit
  <2>2. first.class = req.class /\ first.paths = req.paths /\ first.id = Len(job) + 1
        BY DEF Request
  <2> HIDE DEF first
  <2>3. /\ todo[1] = first
        /\ Len(todo) = Len(sub.todo)
        /\ Len(todo) = 2 => todo[2] = sub.todo[2]
    <3>1. CASE Len(sub.todo) = 1 /\ Tail(sub.todo) = <<>>
      <4>1. <<first>> \o <<>> = <<first>> /\ <<first>>[1] = first /\ Len(<<first>>) = 1
            OBVIOUS
      <4>2. QED  BY <3>1, <4>1
    <3>2. CASE Len(sub.todo) = 2 /\ Tail(sub.todo) = <<sub.todo[2]>>
      <4> DEFINE second == sub.todo[2]
      <4> HIDE DEF second
      <4>1. /\ <<first>> \o <<second>> = <<first, second>> /\ Len(<<first, second>>) = 2
            /\ <<first, second>>[1] = first /\ <<first, second>>[2] = second
            BY ConcatTwo
      <4>2. QED  BY <3>2, <4>1 DEF second
    <3>3. QED  BY <1>1, <3>1, <3>2, SubmitterLists
  <2>4. new.pc = "submit" /\ new.todo = todo
        OBVIOUS
  <2> HIDE DEF todo, new
  <2>5. ToSet(submitters') = Others(submitters, i) \cup {new}
    <3>1. ToSet([submitters EXCEPT ![i] = new]) = Others(submitters, i) \cup {new}
          BY ReplaceElements
    <3>2. QED  BY <2>1, <3>1
  <2>6. Claims(new) = {Len(job) + 1}
        BY <2>2, <2>3, <2>4 DEF Claims
  <2>7. Len(job) + 1 \notin waiting \cup callerDone
        BY JobsAppend DEF QueueIndInv
  <2>8. CallersRepair(waiting \cup callerDone, Submitting(submitters'), ToSet(pending),
                      ToSet(workers))
    <3>1. Submitting(submitters') \subseteq Submitting(submitters) \cup UNION {Claims(s) : s \in {new}}
          BY <2>5, SubmittingElements
    <3>2. UNION {Claims(s) : s \in {new}} = Claims(new)
          OBVIOUS
    <3>3. QED  BY <1>4, <2>6, <2>7, <3>1, <3>2 DEF CallersRepair
  <2>9. \A x : (Holds(first, x) <=> Holds(req, x)) /\ (IsRepair(first) <=> IsRepair(req))
        BY <2>2 DEF Holds, IsRepair
  <2>10. \A x : ByRequests(Todo(sub), x) => ByRequests(Todo(new), x)
        BY <2>3, <2>4, <2>9 DEF ByRequests, Todo
  <2>11. \A x : ByRequests(Todo(sub), x) => BySubmitters({new}, x)
        BY <2>10 DEF BySubmitters
  <2>12. SubmitterGoes(i, {new})
        BY <1>3, <2>1, <2>5, <2>8, <2>11 DEF SubmitterGoes
  <2>13. QED  BY <2>12, SubmitterMoves
<1>7. QED  BY <1>5, <1>6

\* A request is dropped only when the library has stopped.
LEMMA SubmitCheckKeepsChanges ==
    ASSUME QueueIndInv, ChangesInd, NEW i \in DOMAIN submitters, SubmitCheck(i)
    PROVE  ChangesInd'
<1> DEFINE sub == submitters[i]
<1>1. sub \in SubmitterState
      BY ElementTypes DEF ToSet
<1>2. sub.pc = "submit"
      BY DEF SubmitCheck
<1>3. UNCHANGED <<stopped, startupPending, watching, watch, pending, workers, waiting,
                  callerDone, dirty, failed, overlooked, scanned, mistaken>>
      BY DEF SubmitCheck, queue, requests, ghosts
<1>4. CallersRepair(waiting \cup callerDone, Submitting(submitters), ToSet(pending), ToSet(workers))
      BY DEF ChangesInd
<1>5. CASE stopped
  <2>1. Submitted(i, Tail(sub.todo))
        BY <1>5 DEF SubmitCheck
  <2>2. ToSet(submitters') = Others(submitters, i) \cup Rest(sub)
        BY <2>1, SubmittedElements DEF QueueIndInv
  <2>3. Submitting(submitters') \subseteq Submitting(submitters)
    <3>1. \A r \in Rest(sub) : Claims(r) = {}
          BY RestFacts
    <3>2. QED  BY <2>2, <3>1, SubmittingElements
  <2>4. CallersRepair(waiting \cup callerDone, Submitting(submitters'), ToSet(pending),
                      ToSet(workers))
        BY <1>4, <2>3 DEF CallersRepair
  <2>5. SubmitterGoes(i, Rest(sub))
        BY <1>3, <1>5, <2>2, <2>4 DEF SubmitterGoes
  <2>6. QED  BY <2>5, SubmitterMoves
<1>6. CASE ~stopped
  <2> DEFINE new == [sub EXCEPT !.pc = "enqueue"]
  <2>1. submitters' = [submitters EXCEPT ![i] = new]
        BY <1>6 DEF SubmitCheck
  <2>2. new.pc = "enqueue" /\ new.todo = sub.todo
        BY <1>1 DEF SubmitterState
  <2> HIDE DEF new
  <2>3. ToSet(submitters') = Others(submitters, i) \cup {new}
    <3>1. ToSet([submitters EXCEPT ![i] = new]) = Others(submitters, i) \cup {new}
          BY ReplaceElements
    <3>2. QED  BY <2>1, <3>1
  <2>4. Claims(new) = Claims(sub) /\ Todo(new) = Todo(sub)
        BY <1>2, <2>2 DEF Claims, Todo
  <2>5. CallersRepair(waiting \cup callerDone, Submitting(submitters'), ToSet(pending),
                      ToSet(workers))
    <3>1. Submitting(submitters') \subseteq Submitting(submitters) \cup UNION {Claims(s) : s \in {new}}
          BY <2>3, SubmittingElements
    <3>2. UNION {Claims(s) : s \in {new}} = Claims(new) /\ Claims(sub) \subseteq Submitting(submitters)
          BY DEF Submitting
    <3>3. QED  BY <1>4, <2>4, <3>1, <3>2 DEF CallersRepair
  <2>6. \A x : ByRequests(Todo(sub), x) => BySubmitters({new}, x)
        BY <2>4 DEF BySubmitters
  <2>7. SubmitterGoes(i, {new})
        BY <1>3, <2>3, <2>5, <2>6 DEF SubmitterGoes
  <2>8. QED  BY <2>7, SubmitterMoves
<1>7. QED  BY <1>5, <1>6

\* The request is in the queue now; it has a caller if it is a repair.
LEMMA EnqueueKeepsChanges ==
    ASSUME QueueIndInv, ChangesInd, NEW i \in DOMAIN submitters, Enqueue(i)
    PROVE  ChangesInd'
<1> DEFINE sub == submitters[i]
           req == sub.todo[1]
<1>1. sub \in SubmitterState
      BY ElementTypes DEF ToSet
<1>2. /\ sub.pc = "enqueue" /\ Head(sub.todo) = req /\ req \in Admitted
      /\ Claims(sub) = {req.id}
  <2>1. sub.pc = "enqueue"
        BY DEF Enqueue
  <2>2. QED  BY <1>1, <2>1, SubmitterLists
<1>3. UNCHANGED <<stopped, startupPending, watching, watch, callerDone, dirty, failed,
                  overlooked, scanned, mistaken>>
      BY DEF Enqueue, ghosts
<1>4. CallersRepair(waiting \cup callerDone, Submitting(submitters), ToSet(pending), ToSet(workers))
      BY DEF ChangesInd
<1>5. /\ Submitted(i, Tail(sub.todo))
      /\ pending' = Append(pending, req)
      /\ workers' = IF workerRunning THEN workers ELSE Append(workers, NewWorker)
      /\ waiting' = IF IsRepair(req) THEN waiting \cup {req.id} ELSE waiting
      BY <1>2 DEF Enqueue
<1>6. ToSet(submitters') = Others(submitters, i) \cup Rest(sub)
      BY <1>5, SubmittedElements DEF QueueIndInv
<1>7. Submitting(submitters') = Submitting(submitters) \ {req.id}
      BY <1>2, <1>5, SubmittedFacts DEF QueueIndInv
<1>8. ToSet(pending') = ToSet(pending) \cup {req}
      BY <1>2, <1>5, AppendElements DEF QueueIndInv, Waiters
<1>9. /\ ToSet(workers) \subseteq ToSet(workers')
      /\ ToSet(workers') \subseteq ToSet(workers) \cup {NewWorker}
  <2>1. NewWorker \in WorkerState /\ workers \in Seq(WorkerState)
        BY DEF NewWorker, WorkerState, QueueIndInv, Workers
  <2>2. QED  BY <1>5, <2>1, AppendElements
<1>10. req.id \in Submitting(submitters)
      BY <1>2 DEF Submitting
<1>11. /\ \A r \in ToSet(pending) : r.id # req.id
       /\ \A w \in ToSet(workers) : \A r \in w.batch : r.id # req.id
  <2>1. /\ \A r \in ToSet(pending) : r.id \in Queued(pending)
        /\ \A w \in ToSet(workers) : \A r \in w.batch : r.id \in Taken(workers)
        BY DEF Queued, Taken, Ids, ToSet
  <2>2. QED  BY <1>10, <2>1 DEF QueueIndInv, Apart
<1> HIDE DEF req
<1>12. CallersRepair(waiting' \cup callerDone', Submitting(submitters'), ToSet(pending'),
                     ToSet(workers))
  <2>1. waiting' \cup callerDone' \subseteq waiting \cup callerDone \cup {req.id}
        BY <1>3, <1>5
  <2>2. Submitting(submitters') \cap (waiting' \cup callerDone') = {}
        BY <1>4, <1>7, <2>1 DEF CallersRepair
  <2>3. ~IsRepair(req) => req.id \notin waiting' \cup callerDone'
        BY <1>3, <1>4, <1>5, <1>10 DEF CallersRepair
  <2>4. OnlyRepairs(waiting' \cup callerDone', ToSet(pending'))
        BY <1>4, <1>8, <1>11, <2>1, <2>3 DEF CallersRepair, OnlyRepairs
  <2>5. \A w \in ToSet(workers) : OnlyRepairs(waiting' \cup callerDone', w.batch)
        BY <1>4, <1>11, <2>1 DEF CallersRepair, OnlyRepairs
  <2>6. QED  BY <2>2, <2>4, <2>5 DEF CallersRepair
<1>13. ASSUME NEW x, ByRequests(Todo(sub), x)
       PROVE  BySubmitters(Rest(sub), x) \/ ByRequests(ToSet(pending'), x)
  <2>1. ByRequests({req}, x) => ByRequests(ToSet(pending'), x)
        BY <1>8 DEF ByRequests
  <2>2. QED  BY <1>13, <2>1, RestFacts DEF req
<1>14. ToSet(pending) \subseteq ToSet(pending')
      BY <1>8
<1>15. SubmitterGoes(i, Rest(sub))
      BY <1>3, <1>6, <1>9, <1>12, <1>13, <1>14 DEF SubmitterGoes
<1>16. QED  BY <1>15, SubmitterMoves

-----------------------------------------------------------------------------
(* A worker holds what it took until a pass has covered it.                *)

\* Worker i becomes more; what it held it holds, or was covered or is given up.
WorkerTurns(i, more) ==
    /\ i \in DOMAIN workers
    /\ ToSet(workers') = Others(workers, i) \cup more
    /\ UNCHANGED <<stopped, watching, watch, submitters, pending, waiting, callerDone>>
    /\ scanned => scanned'
    /\ PendingUntilScanned'
    /\ \A w \in more : w.batch \subseteq workers[i].batch /\ KeysSay(w, scanned')
    /\ ~stopped => \A x \in Owed' :
          ByWorkers(more, x) \/ (x \in Owed /\ ~ByWorker(workers[i], x))

\* The invariant goes with it.
LEMMA WorkerTurnsSound ==
    ASSUME ChangesInd, NEW i, NEW more, WorkerTurns(i, more)
    PROVE  ChangesInd'
<1> USE DEF WorkerTurns
<1> DEFINE others == Others(workers, i)
<1>1. ToSet(workers) = others \cup {workers[i]}
      BY OtherElements
<1> HIDE DEF others
<1>2. ToSet(workers') = others \cup more
      BY DEF others
<1>3. KeysKnown(ToSet(workers'), scanned')
  <2>1. \A w : KeysSay(w, scanned) => KeysSay(w, scanned')
        BY DEF KeysSay
  <2>2. QED  BY <1>1, <1>2, <2>1 DEF ChangesInd, KeysKnown
<1>4. CallersRepair(waiting' \cup callerDone', Submitting(submitters'), ToSet(pending'),
                    ToSet(workers'))
      BY <1>1, <1>2 DEF ChangesInd, CallersRepair, OnlyRepairs
<1>5. ASSUME watching, ~stopped, NEW x \in Owed'
      PROVE  HeldBy(watch, ToSet(submitters), ToSet(pending), ToSet(workers'), x)
  <2>1. CASE ByWorkers(more, x)
        BY <1>2, <2>1 DEF HeldBy, ByWorkers
  <2>2. CASE x \in Owed /\ ~ByWorker(workers[i], x)
    <3>1. HeldBy(watch, ToSet(submitters), ToSet(pending), ToSet(workers), x)
          BY <1>5, <2>2 DEF ChangesInd
    <3>2. ByWorkers(ToSet(workers), x) => ByWorkers(ToSet(workers'), x)
          BY <1>1, <1>2, <2>2 DEF ByWorkers
    <3>3. QED  BY <3>1, <3>2 DEF HeldBy
  <2>3. QED  BY <1>5, <2>1, <2>2
<1>6. QED  BY <1>3, <1>4, <1>5 DEF ChangesInd

\* What a worker that serves or ends is about.
LEMMA TurningWorker ==
    ASSUME QueueIndInv, ChangesInd, NEW i \in DOMAIN workers
    PROVE  /\ workers[i] \in ToSet(workers) /\ workers[i] \in WorkerState
           /\ KeysSay(workers[i], scanned)
           /\ OnlyRepairs(waiting \cup callerDone, workers[i].batch)
           /\ \A w : ToSet([workers EXCEPT ![i] = w]) = Others(workers, i) \cup {w}
           /\ ToSet(RemoveAt(workers, i)) = Others(workers, i)
<1>1. workers[i] \in ToSet(workers)
      BY DEF ToSet
<1>2. workers[i] \in WorkerState
      BY <1>1, ElementTypes
<1>3. workers \in Seq(WorkerState)
      BY DEF QueueIndInv, Workers
<1>4. \A w : ToSet([workers EXCEPT ![i] = w]) = Others(workers, i) \cup {w}
      BY ReplaceElements
<1>5. ToSet(RemoveAt(workers, i)) = Others(workers, i)
      BY <1>3, RemoveElements
<1>6. QED  BY <1>1, <1>2, <1>4, <1>5 DEF ChangesInd, KeysKnown, CallersRepair

\* A worker without a batch.
LEMMA NewWorkerFacts == NewWorker.batch = {} /\ \A done : KeysSay(NewWorker, done)
BY DEF NewWorker, KeysSay

\* A batch that is dropped was of repairs only.
LEMMA FilterBatchKeepsChanges ==
    ASSUME QueueIndInv, ChangesInd, NEW i \in DOMAIN workers, FilterBatch(i)
    PROVE  ChangesInd'
<1> DEFINE v == workers[i]
<1>1. v.pc = "filter"
      BY DEF FilterBatch, At
<1>2. UNCHANGED <<stopped, startupPending, watching, watch, submitters, pending, waiting,
                  callerDone, dirty, failed, overlooked, scanned, mistaken>>
      BY DEF FilterBatch, queue, ghosts
<1>3. PendingUntilScanned' /\ Owed' = Owed
      BY <1>2 DEF ChangesInd, PendingUntilScanned, Owed
<1>4. CASE Ids(v.batch) \subseteq callerDone
  <2>1. workers' = [workers EXCEPT ![i] = NewWorker]
        BY <1>4 DEF FilterBatch
  <2>2. ToSet(workers') = Others(workers, i) \cup {NewWorker}
        BY <2>1, TurningWorker
  <2>3. \A req \in v.batch : IsRepair(req)
        BY <1>4, TurningWorker DEF OnlyRepairs, Ids
  <2>4. \A x : ~ByWorker(v, x)
        BY <1>1, <2>3 DEF ByWorker, ByRequests
  <2>5. WorkerTurns(i, {NewWorker})
        BY <1>2, <1>3, <2>2, <2>4, NewWorkerFacts DEF WorkerTurns
  <2>6. QED  BY <2>5, WorkerTurnsSound
<1>5. CASE ~(Ids(v.batch) \subseteq callerDone)
  <2> DEFINE w == [v EXCEPT !.pc = "start"]
  <2>1. workers' = [workers EXCEPT ![i] = w]
        BY <1>5 DEF FilterBatch
  <2>2. w.pc = "start" /\ w.batch = v.batch /\ w.keys = v.keys
        BY TurningWorker DEF WorkerState
  <2> HIDE DEF w
  <2>3. ToSet(workers') = Others(workers, i) \cup {w}
        BY <2>1, TurningWorker
  <2>4. KeysSay(w, scanned)
        BY <1>1, <2>2, TurningWorker DEF KeysSay
  <2>5. \A x : ByWorker(v, x) => ByWorkers({w}, x)
        BY <1>1, <2>2 DEF ByWorkers, ByWorker
  <2>6. WorkerTurns(i, {w})
        BY <1>2, <1>3, <2>2, <2>3, <2>4, <2>5 DEF WorkerTurns
  <2>7. QED  BY <2>6, WorkerTurnsSound
<1>6. QED  BY <1>4, <1>5

\* A pass covers what its requests hold.
LEMMA StartPassKeepsChanges ==
    ASSUME QueueIndInv, ChangesInd, NEW i \in DOMAIN workers, StartPass(i)
    PROVE  ChangesInd'
<1> DEFINE v == workers[i]
           covers == {x \in dirty : Covers(v.batch, x)}
           w == [v EXCEPT !.pc = "scan", !.covers = covers]
<1>1. v.pc = "start" /\ v \in WorkerState /\ KeysSay(v, scanned)
      BY TurningWorker DEF StartPass, At
<1>2. /\ UNCHANGED <<stopped, startupPending, watching, watch, submitters, pending, waiting,
                     callerDone, dirty, scanned, mistaken>>
      /\ failed' = failed \ covers /\ overlooked' = overlooked \ covers
      BY DEF StartPass, queue, requests
<1>3. PendingUntilScanned'
      BY <1>2 DEF ChangesInd, PendingUntilScanned
<1>4. workers' = [workers EXCEPT ![i] = w]
      BY DEF StartPass
<1>5. w.pc = "scan" /\ w.batch = v.batch /\ w.keys = v.keys /\ w.covers = covers
      BY <1>1 DEF WorkerState
<1> HIDE DEF w
<1>6. ToSet(workers') = Others(workers, i) \cup {w}
      BY <1>4, TurningWorker
<1>7. KeysSay(w, scanned)
      BY <1>1, <1>5 DEF KeysSay
<1>8. v.batch \in SUBSET Admitted
      BY <1>1 DEF WorkerState
<1>9. ASSUME NEW x \in dirty, ByRequests(v.batch, x) PROVE x \in covers
      BY <1>8, <1>9, BatchCovers DEF ByRequests
<1> HIDE DEF covers
<1>10. ASSUME NEW x \in Owed'
       PROVE  ByWorkers({w}, x) \/ (x \in Owed /\ ~ByWorker(v, x))
  <2>1. CASE x \in covers
        BY <1>5, <2>1 DEF ByWorkers, ByWorker
  <2>2. CASE x \notin covers
    <3>1. x \in Owed /\ x \in dirty
          BY <1>2, <1>10, <2>2 DEF Owed
    <3>2. ~ByWorker(v, x)
          BY <1>1, <1>9, <2>2, <3>1 DEF ByWorker
    <3>3. QED  BY <3>1, <3>2
  <2>3. QED  BY <2>1, <2>2
<1>11. WorkerTurns(i, {w})
       BY <1>2, <1>3, <1>5, <1>6, <1>7, <1>10 DEF WorkerTurns
<1>12. QED  BY <1>11, WorkerTurnsSound

\* What a pass covered is settled when it succeeds and given up when it fails.
LEMMA PassEndsKeepsChanges ==
    ASSUME QueueIndInv, ChangesInd, NEW i \in DOMAIN workers, PassSucceeds(i) \/ PassFails(i)
    PROVE  ChangesInd'
<1> DEFINE v == workers[i]
<1>1. v.pc = "scan" /\ v \in WorkerState
      BY TurningWorker DEF PassSucceeds, PassFails, At
<1>2. UNCHANGED <<stopped, startupPending, watching, watch, submitters, pending, waiting,
                  callerDone, mistaken>>
      BY DEF PassSucceeds, PassFails, queue, requests
<1>3. CASE PassSucceeds(i)
  <2> DEFINE w == [v EXCEPT !.pc = "clear", !.covers = {}]
  <2>1. /\ workers' = [workers EXCEPT ![i] = w]
        /\ dirty' = dirty \ v.covers /\ failed' = failed \ v.covers
        /\ overlooked' = overlooked \ v.covers
        /\ scanned' = (scanned \/ ScanRoots \subseteq FullRoots(v.batch))
        BY <1>3 DEF PassSucceeds
  <2>2. w.pc = "clear" /\ w.batch = v.batch
        BY <1>1 DEF WorkerState
  <2> HIDE DEF w
  <2>3. ToSet(workers') = Others(workers, i) \cup {w}
        BY <2>1, TurningWorker
  <2>4. KeysSay(w, scanned')
        BY <2>1, <2>2 DEF KeysSay
  <2>5. \A x \in Owed' : x \in Owed /\ ~ByWorker(v, x)
        BY <1>1, <2>1 DEF ByWorker, Owed
  <2>6. (scanned => scanned') /\ PendingUntilScanned'
        BY <1>2, <2>1 DEF ChangesInd, PendingUntilScanned
  <2>7. WorkerTurns(i, {w})
        BY <1>2, <2>2, <2>3, <2>4, <2>5, <2>6 DEF WorkerTurns
  <2>8. QED  BY <2>7, WorkerTurnsSound
<1>4. CASE PassFails(i)
  <2> DEFINE w == [v EXCEPT !.pc = "clear", !.covers = {}, !.ok = FALSE]
  <2>1. /\ workers' = [workers EXCEPT ![i] = w]
        /\ failed' = failed \cup (v.covers \cap dirty)
        /\ UNCHANGED <<dirty, overlooked, scanned>>
        BY <1>4 DEF PassFails
  <2>2. w.pc = "clear" /\ w.batch = v.batch /\ w.ok = FALSE
        BY <1>1 DEF WorkerState
  <2> HIDE DEF w
  <2>3. ToSet(workers') = Others(workers, i) \cup {w}
        BY <2>1, TurningWorker
  <2>4. KeysSay(w, scanned)
        BY <2>2 DEF KeysSay
  <2>5. \A x \in Owed' : x \in Owed /\ ~ByWorker(v, x)
        BY <1>1, <2>1 DEF ByWorker, Owed
  <2>6. PendingUntilScanned'
        BY <1>2, <2>1 DEF ChangesInd, PendingUntilScanned
  <2>7. WorkerTurns(i, {w})
        BY <1>2, <2>1, <2>2, <2>3, <2>4, <2>5, <2>6 DEF WorkerTurns
  <2>8. QED  BY <2>7, WorkerTurnsSound
<1>5. QED  BY <1>3, <1>4

\* The startup scan is satisfied by one that scanned everything, or by mistake.
LEMMA ClearKeysKeepsChanges ==
    ASSUME QueueIndInv, ChangesInd, NEW i \in DOMAIN workers, ClearKeys(i)
    PROVE  ChangesInd'
<1> DEFINE v == workers[i]
           w == [v EXCEPT !.pc = "finish"]
           satisfied == startupPending /\ v.ok /\ v.keys # {}
<1>1. v.pc = "clear" /\ v \in WorkerState /\ KeysSay(v, scanned)
      BY TurningWorker DEF ClearKeys, At
<1>2. /\ UNCHANGED <<stopped, watching, watch, submitters, pending, waiting, callerDone, dirty,
                     failed, overlooked, scanned>>
      /\ startupPending' = (startupPending /\ ~satisfied)
      /\ mistaken' = (mistaken \/ (satisfied /\ ~(ScanRoots \subseteq FullRoots(v.batch))))
      BY DEF ClearKeys, requests
<1>3. workers' = [workers EXCEPT ![i] = w]
      BY DEF ClearKeys
<1>4. w.pc = "finish" /\ w.batch = v.batch
      BY <1>1 DEF WorkerState
<1> HIDE DEF w
<1>5. ToSet(workers') = Others(workers, i) \cup {w}
      BY <1>3, TurningWorker
<1>6. KeysSay(w, scanned)
      BY <1>4 DEF KeysSay
<1>7. \A x : ~ByWorker(v, x)
      BY <1>1 DEF ByWorker
<1>8. PendingUntilScanned'
      BY <1>1, <1>2 DEF ChangesInd, PendingUntilScanned, KeysSay
<1>9. Owed' = Owed
      BY <1>2 DEF Owed
<1>10. WorkerTurns(i, {w})
       BY <1>2, <1>4, <1>5, <1>6, <1>7, <1>8, <1>9 DEF WorkerTurns
<1>11. QED  BY <1>10, WorkerTurnsSound

\* A worker that finishes holds nothing any more.
LEMMA FinishKeepsChanges ==
    ASSUME QueueIndInv, ChangesInd, NEW i \in DOMAIN workers, FinishBatch(i) \/ FinishFailed(i)
    PROVE  ChangesInd'
<1> DEFINE v == workers[i]
<1>1. \A x : ~ByWorker(v, x)
      BY DEF FinishBatch, FinishFailed, At, ByWorker
<1>2. UNCHANGED <<stopped, startupPending, watching, watch, submitters, pending, waiting,
                  callerDone, dirty, failed, overlooked, scanned, mistaken>>
      BY DEF FinishBatch, FinishFailed, queue, ghosts
<1>3. PendingUntilScanned' /\ Owed' = Owed
      BY <1>2 DEF ChangesInd, PendingUntilScanned, Owed
<1>4. CASE FinishBatch(i)
  <2>1. ToSet(workers') = Others(workers, i) \cup {NewWorker}
        BY <1>4, TurningWorker DEF FinishBatch
  <2>2. WorkerTurns(i, {NewWorker})
        BY <1>1, <1>2, <1>3, <2>1, NewWorkerFacts DEF WorkerTurns
  <2>3. QED  BY <2>2, WorkerTurnsSound
<1>5. CASE FinishFailed(i)
  <2>1. ToSet(workers') = Others(workers, i) \cup {}
        BY <1>5, TurningWorker DEF FinishFailed
  <2>2. WorkerTurns(i, {})
        BY <1>1, <1>2, <1>3, <2>1 DEF WorkerTurns
  <2>3. QED  BY <2>2, WorkerTurnsSound
<1>6. QED  BY <1>4, <1>5

\* A worker that takes a batch holds what was pending; one that leaves had nothing.
LEMMA TakeBatchKeepsChanges ==
    ASSUME QueueIndInv, ChangesInd, NEW i \in DOMAIN workers, TakeBatch(i)
    PROVE  ChangesInd'
<1> DEFINE v == workers[i]
<1>1. v.pc = "loop" /\ \A x : ~ByWorker(v, x)
      BY DEF TakeBatch, At, ByWorker
<1>2. UNCHANGED <<stopped, startupPending, watching, watch, submitters, waiting, callerDone, dirty,
                  failed, overlooked, scanned, mistaken>>
      BY DEF TakeBatch, requests, ghosts
<1>3. PendingUntilScanned' /\ Owed' = Owed
      BY <1>2 DEF ChangesInd, PendingUntilScanned, Owed
<1>4. CASE pending = <<>>
  <2>1. ToSet(workers') = Others(workers, i) \cup {} /\ pending' = pending
        BY <1>4, TurningWorker DEF TakeBatch
  <2>2. WorkerTurns(i, {})
        BY <1>1, <1>2, <1>3, <2>1 DEF WorkerTurns
  <2>3. QED  BY <2>2, WorkerTurnsSound
<1>5. CASE pending # <<>>
  <2> DEFINE w == [NewWorker EXCEPT !.pc = "filter", !.batch = NextBatch,
                                    !.keys = StartupKeys(NextBatch)]
             others == Others(workers, i)
             all == ToSet(pending)
  <2>1. workers' = [workers EXCEPT ![i] = w] /\ pending' = AfterBatch
        BY <1>5 DEF TakeBatch
  <2>2. w.pc = "filter" /\ w.batch = NextBatch /\ w.keys = StartupKeys(NextBatch)
        BY DEF NewWorker
  <2> HIDE DEF w
  <2>3. ToSet(workers') = others \cup {w}
        BY <2>1, TurningWorker
  <2>4. ToSet(workers) = others \cup {v}
        BY OtherElements
  <2>5. ToSet(pending') \cup NextBatch = all
        BY <1>5, <2>1, BatchFacts DEF QueueIndInv
  <2> HIDE DEF others, all
  <2>6. KeysKnown(ToSet(workers'), scanned')
    <3>1. KeysSay(w, scanned)
          BY <2>2 DEF KeysSay
    <3>2. QED  BY <1>2, <2>3, <2>4, <3>1 DEF ChangesInd, KeysKnown
  <2>7. CallersRepair(waiting' \cup callerDone', Submitting(submitters'), ToSet(pending'),
                      ToSet(workers'))
        BY <1>2, <2>2, <2>3, <2>4, <2>5 DEF ChangesInd, CallersRepair, OnlyRepairs, all
  <2>8. ASSUME NEW x, ByRequests(all, x)
        PROVE  ByRequests(ToSet(pending'), x) \/ ByWorker(w, x)
        BY <2>2, <2>5, <2>8 DEF ByRequests, ByWorker
  <2>9. ASSUME watching, ~stopped, NEW x \in Owed
        PROVE  HeldBy(watch, ToSet(submitters), ToSet(pending'), ToSet(workers'), x)
    <3>1. HeldBy(watch, ToSet(submitters), all, ToSet(workers), x)
          BY <2>9 DEF ChangesInd, all
    <3>2. ByWorkers(ToSet(workers), x) \/ ByWorker(w, x) => ByWorkers(ToSet(workers'), x)
          BY <1>1, <2>3, <2>4 DEF ByWorkers
    <3>3. QED  BY <2>8, <3>1, <3>2 DEF HeldBy
  <2>10. QED  BY <1>2, <1>3, <2>6, <2>7, <2>9 DEF ChangesInd
<1>6. QED  BY <1>4, <1>5

\* Nothing is held for a library that has stopped.
LEMMA FailPendingKeepsChanges ==
    ASSUME QueueIndInv, ChangesInd, NEW i \in DOMAIN workers, FailPending(i)
    PROVE  ChangesInd'
<1> DEFINE v == workers[i]
           w == [v EXCEPT !.pc = "failing", !.batch = ToSet(pending)]
<1>1. /\ UNCHANGED <<stopped, startupPending, submitters, waiting, callerDone, scanned, mistaken>>
      /\ stopped /\ pending' = <<>>
      BY DEF FailPending, requests, ghosts
<1>2. workers' = [workers EXCEPT ![i] = w]
      BY DEF FailPending
<1>3. w.pc = "failing" /\ w.batch = ToSet(pending)
      BY TurningWorker DEF WorkerState
<1> HIDE DEF w
<1>4. ToSet(workers') = Others(workers, i) \cup {w}
      BY <1>2, TurningWorker
<1>5. ToSet(workers) = Others(workers, i) \cup {v}
      BY OtherElements
<1>6. ToSet(pending') = {}
  <2>1. ToSet(<<>>) = {}
        BY DEF ToSet
  <2>2. QED  BY <1>1, <2>1
<1>7. KeysKnown(ToSet(workers'), scanned')
  <2>1. KeysSay(w, scanned)
        BY <1>3 DEF KeysSay
  <2>2. QED  BY <1>1, <1>4, <1>5, <2>1 DEF ChangesInd, KeysKnown
<1>8. CallersRepair(waiting' \cup callerDone', Submitting(submitters'), ToSet(pending'),
                    ToSet(workers'))
      BY <1>1, <1>3, <1>4, <1>5, <1>6 DEF ChangesInd, CallersRepair, OnlyRepairs
<1>9. QED  BY <1>1, <1>7, <1>8 DEF ChangesInd, PendingUntilScanned

\* No action breaks the invariant of the changes.
LEMMA ChangesInductive ==
    ASSUME QueueIndInv, ChangesInd, [Next]_vars
    PROVE  ChangesInd'
<1>1. CASE UNCHANGED vars
      BY <1>1 DEF ChangesInd, PendingUntilScanned, Owed, vars, queue, requests, ghosts
<1>2. ASSUME NEW x \in Paths, NEW asDir \in BOOLEAN, Change(x, asDir) PROVE ChangesInd'
      BY <1>2, ChangeKeepsChanges
<1>3. CASE Flush \/ SyncRuntime \/ Repair
      BY <1>3, FlushKeepsChanges, FullScanKeepsChanges
<1>4. CASE Stop
      BY <1>4, CallersKeepChanges
<1>5. ASSUME NEW i \in DOMAIN submitters, SubmitterStep(i) PROVE ChangesInd'
      BY <1>5, AdmitKeepsChanges, SubmitCheckKeepsChanges, EnqueueKeepsChanges DEF SubmitterStep
<1>6. ASSUME NEW i \in DOMAIN workers, WorkerStep(i) PROVE ChangesInd'
      BY <1>6, FailPendingKeepsChanges, TakeBatchKeepsChanges, FilterBatchKeepsChanges,
         StartPassKeepsChanges, PassEndsKeepsChanges, ClearKeysKeepsChanges,
         FinishKeepsChanges DEF WorkerStep
<1>7. ASSUME NEW id \in waiting, CallerCancels(id) \/ CallerLeaves(id) \/ CallerReturns(id)
      PROVE  ChangesInd'
      BY <1>7, CallersKeepChanges, CallerLeavesKeepsChanges
<1>8. QED  BY <1>1, <1>2, <1>3, <1>4, <1>5, <1>6, <1>7 DEF Next

\* However flushes, admissions, batches, failing passes and cancelled repairs
\* interleave, a change stays due until a pass that began after it succeeded or
\* failed, or its request was dropped for a pass under way that had read it.
THEOREM ChangesKept == Spec => []ChangesHeld
<1>1. Init => ChangesInd
      BY ChangesInit
<1>2. QueueIndInv /\ ChangesInd /\ [Next]_vars => ChangesInd'
      BY ChangesInductive
<1>3. QueueIndInv /\ ChangesInd => ChangesHeld
      BY ChangesIndHolds
<1>4. QED  BY <1>1, <1>2, <1>3, QueueIndCorrect, PTL DEF Spec
=============================================================================
