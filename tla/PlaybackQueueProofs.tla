------------------------ MODULE PlaybackQueueProofs ------------------------
(***************************************************************************)
(* Theorems about PlaybackQueue, for any tracks, entry ids, lengths of the *)
(* live source and number of commands: the session keeps its place in a    *)
(* context that is rebuilt under it, its four answers to "what comes next" *)
(* agree, a live context ends up showing the catalog, and a late source    *)
(* never replaces what a later command set.                                *)
(***************************************************************************)
EXTENDS PlaybackQueue, SequenceTheorems, FiniteSetTheorems, TLAPS

-----------------------------------------------------------------------------
(* Lemmas about places in a sequence                                        *)

LEMMA FunctionIsSeq ==
    ASSUME NEW S, NEW n \in Nat, NEW f \in [1..n -> S]
    PROVE  f \in Seq(S) /\ Len(f) = n
<1>1. f \in Seq(S)
      BY SeqDef
<1>2. QED  BY <1>1, LenProperties

LEMMA IndexInProperties ==
    ASSUME NEW S, NEW q \in Seq(S), NEW x
    PROVE  /\ IndexIn(q, x) \in 0..Len(q)
           /\ x \in Range(q) => /\ IndexIn(q, x) \in 1..Len(q)
                                /\ q[IndexIn(q, x)] = x
           /\ x \notin Range(q) => IndexIn(q, x) = 0
<1>1. Len(q) \in Nat /\ DOMAIN q = 1..Len(q)
      BY LenProperties
<1>2. CASE x \in Range(q)
  <2>1. \E i \in DOMAIN q : q[i] = x
        BY <1>2 DEF Range
  <2>2. IndexIn(q, x) \in DOMAIN q /\ q[IndexIn(q, x)] = x
        BY <1>2, <2>1 DEF IndexIn
  <2>3. QED  BY <1>1, <1>2, <2>2
<1>3. CASE x \notin Range(q)
      BY <1>1, <1>3 DEF IndexIn
<1>4. QED  BY <1>2, <1>3

\* What a context is walked along: every place of it once.
IsOrder(o, n) == o \in Seq(1..n) /\ Len(o) = n /\ \A i \in 1..n : i \in Range(o)

\* An injection of the places into themselves misses none of them.
LEMMA CyclesCover ==
    ASSUME NEW n \in Nat, NEW anchor, NEW b \in Cycles(n, anchor)
    PROVE  b \in Seq(Nat) /\ IsCycle(b, n)
<1>1. b \in [1..n -> 1..n] /\ \A i, j \in 1..n : b[i] = b[j] => i = j
      BY DEF Cycles, IsInjective
<1>2. IsFiniteSet(1..n) /\ Cardinality(1..n) = n
      BY FS_Interval
<1>3. IsInjective(b)
      BY DEF Cycles
<1>4. b \in Seq(1..n) /\ Len(b) = n /\ DOMAIN b = 1..n
      BY <1>1, SeqDef, LenProperties
<1>5. ASSUME NEW i \in 1..n, \A k \in 1..n : b[k] # i PROVE FALSE
  <2>1. b \in [1..n -> (1..n) \ {i}]
        BY <1>1, <1>5
  <2>2. IsFiniteSet((1..n) \ {i}) /\ Cardinality((1..n) \ {i}) = n - 1
        BY <1>2, FS_RemoveElement
  <2>3. Cardinality((1..n) \ {i}) < Cardinality(1..n)
        BY <1>2, <2>2
  <2>4. \E x, y \in 1..n : x # y /\ b[x] = b[y]
        BY <1>2, <2>1, <2>2, <2>3, FS_PigeonHole
  <2>5. QED  BY <1>1, <2>4
<1>6. Range(b) = 1..n
      BY <1>1, <1>4, <1>5 DEF Range
<1>7. b \in Seq(Nat)
  <2>1. 1..n \subseteq Nat
        OBVIOUS
  <2>2. QED  BY <1>4, <2>1, SeqMonotonic
<1>8. QED  BY <1>4, <1>6, <1>7 DEF IsCycle

LEMMA BagsCover ==
    ASSUME NEW shuffle \in BOOLEAN, NEW n \in Nat, NEW anchor, NEW b \in Bags_(shuffle, n, anchor)
    PROVE  b \in Seq(Nat) /\ (shuffle => IsCycle(b, n))
<1>1. CASE shuffle
      BY <1>1, CyclesCover DEF Bags_
<1>2. CASE ~shuffle
      BY <1>2, EmptySeq DEF Bags_
<1>3. QED  BY <1>1, <1>2

-----------------------------------------------------------------------------
(* Lemmas about snapshots                                                   *)

\* A snapshot as the session keeps it.
Whole(t) ==
    /\ t \in Snapshot
    /\ t.shuffle => IsCycle(t.bag, Len_(t))
    /\ t.kind = "none" => t.ctx = <<>>

LEMMA Fields ==
    ASSUME NEW t \in Snapshot
    PROVE  /\ Len_(t) \in Nat /\ t.ctx \in Seq(Tracks \cup Plain)
           /\ DOMAIN t.ctx = 1..Len_(t)
           /\ \A i \in 1..Len_(t) : t.ctx[i] \in Tracks \cup Plain
           /\ t.ci \in Nat /\ t.ri \in Nat /\ t.bag \in Seq(Nat) /\ t.user \in Seq(Queued)
           /\ t.cur \in OrNone(Entry) /\ t.repeat \in Modes /\ t.shuffle \in BOOLEAN
           /\ t.cur # None => t.cur \in Entry
           /\ t.kind \in {"none", "plain", "live"}
           /\ t.anchor \in OrNone(Tracks \cup Plain)
<1>1. t.ctx \in Seq(Tracks \cup Plain)
      BY DEF Snapshot
<1>2. /\ Len_(t) \in Nat /\ DOMAIN t.ctx = 1..Len_(t)
      /\ \A i \in 1..Len_(t) : t.ctx[i] \in Tracks \cup Plain
      BY <1>1, LenProperties, ElementOfSeq DEF Len_
<1>3. QED  BY <1>1, <1>2 DEF Snapshot, OrNone

LEMMA OrderIsOrder ==
    ASSUME NEW t, Whole(t)
    PROVE  IsOrder(Order(t), Len_(t)) /\ (t.shuffle => EffectiveCycle(t) = Order(t))
<1>1. Len_(t) \in Nat /\ t.bag \in Seq(Nat)
      BY Fields DEF Whole
<1>2. CASE t.shuffle
  <2>1. Order(t) = t.bag /\ EffectiveCycle(t) = Order(t)
        BY <1>2 DEF Order, EffectiveCycle, Whole
  <2>2. Len(t.bag) = Len_(t) /\ Range(t.bag) = 1..Len_(t)
        BY <1>2 DEF Whole, IsCycle
  <2>3. t.bag \in Seq(1..Len_(t))
    <3>1. t.bag \in [1..Len_(t) -> Nat]
          BY <1>1, <2>2, LenProperties
    <3>2. t.bag \in [1..Len_(t) -> 1..Len_(t)]
          BY <2>2, <3>1 DEF Range
    <3>3. QED  BY <1>1, <3>2, FunctionIsSeq
  <2>4. QED  BY <2>1, <2>2, <2>3 DEF IsOrder
<1>3. CASE ~t.shuffle
  <2>1. Order(t) = [k \in 1..Len_(t) |-> k]
        BY <1>3 DEF Order
  <2>2. Order(t) \in [1..Len_(t) -> 1..Len_(t)] /\ Order(t) \in Seq(1..Len_(t))
        BY <1>1, <2>1, SeqDef
  <2>3. Len(Order(t)) = Len_(t)
        BY <1>1, <2>2, LenProperties
  <2>4. \A i \in 1..Len_(t) : i \in Range(Order(t))
        BY <2>1 DEF Range
  <2>5. QED  BY <1>3, <2>2, <2>3, <2>4 DEF IsOrder
<1>4. t.shuffle \in BOOLEAN
      BY Fields DEF Whole
<1>5. QED  BY <1>2, <1>3, <1>4

\* Every place of the context has one in the order, and every step of the order
\* is a place of the context.
LEMMA OrderPlaces ==
    ASSUME NEW t, Whole(t)
    PROVE  /\ Order(t) \in Seq(1..Len_(t)) /\ Len(Order(t)) = Len_(t)
           /\ \A k \in 1..Len_(t) : Order(t)[k] \in 1..Len_(t)
           /\ \A i \in 1..Len_(t) : /\ IndexIn(Order(t), i) \in 1..Len_(t)
                                    /\ Order(t)[IndexIn(Order(t), i)] = i
           /\ \A i : i \notin 1..Len_(t) => IndexIn(Order(t), i) = 0
           /\ ~t.shuffle => \A k \in 1..Len_(t) : Order(t)[k] = k /\ IndexIn(Order(t), k) = k
<1>1. Len_(t) \in Nat
      BY Fields DEF Whole
<1>2. /\ Order(t) \in Seq(1..Len_(t)) /\ Len(Order(t)) = Len_(t)
      /\ \A i \in 1..Len_(t) : i \in Range(Order(t))
      BY OrderIsOrder DEF IsOrder
<1>3. \A k \in 1..Len_(t) : Order(t)[k] \in 1..Len_(t)
      BY <1>2, ElementOfSeq
<1>4. \A i \in 1..Len_(t) : /\ IndexIn(Order(t), i) \in 1..Len_(t)
                            /\ Order(t)[IndexIn(Order(t), i)] = i
      BY <1>2, IndexInProperties
<1>5. \A i : i \notin 1..Len_(t) => IndexIn(Order(t), i) = 0
  <2>1. DOMAIN Order(t) = 1..Len_(t)
        BY <1>2, LenProperties
  <2>2. \A i : i \notin 1..Len_(t) => i \notin Range(Order(t))
        BY <1>3, <2>1 DEF Range
  <2>3. QED  BY <1>2, <2>2, IndexInProperties
<1>6. ASSUME ~t.shuffle
      PROVE  \A k \in 1..Len_(t) : Order(t)[k] = k /\ IndexIn(Order(t), k) = k
  <2>1. \A k \in 1..Len_(t) : Order(t)[k] = k
        BY <1>6 DEF Order
  <2>2. QED  BY <1>4, <2>1
<1>7. QED  BY <1>2, <1>3, <1>4, <1>5, <1>6

-----------------------------------------------------------------------------
(* Where a walk starts and where it wraps                                   *)

\* From a start to the end of the order and again from its beginning up to a limit.
Laps(o, start, wrap) == SubSeq(o, start, Len(o)) \o SubSeq(o, 1, wrap)

LEMMA LapsProperties ==
    ASSUME NEW S, NEW o \in Seq(S), NEW start \in 1..(Len(o) + 1), NEW wrap \in 0..Len(o)
    PROVE  /\ Laps(o, start, wrap) \in Seq(S)
           /\ Len(Laps(o, start, wrap)) = Len(o) - start + 1 + wrap
           /\ start <= Len(o) => Laps(o, start, wrap)[1] = o[start]
           /\ start = Len(o) + 1 /\ wrap > 0 => Laps(o, start, wrap)[1] = o[1]
<1>1. Len(o) \in Nat /\ \A i \in 1..Len(o) : o[i] \in S
      BY LenProperties, ElementOfSeq
<1> DEFINE a == SubSeq(o, start, Len(o))
           b == SubSeq(o, 1, wrap)
<1>2. /\ a \in Seq(S) /\ Len(a) = Len(o) - start + 1
      /\ \A i \in 1..(Len(o) - start + 1) : a[i] = o[start + i - 1]
  <2>1. \A i \in start..Len(o) : o[i] \in S
        BY <1>1
  <2>2. QED  BY <1>1, <2>1, SubSeqProperties
<1>3. /\ b \in Seq(S) /\ Len(b) = wrap
      /\ \A i \in 1..wrap : b[i] = o[i]
  <2>1. \A i \in 1..wrap : o[i] \in S
        BY <1>1
  <2>2. QED  BY <1>1, <2>1, SubSeqProperties
<1> HIDE DEF a, b
<1>4. /\ a \o b \in Seq(S) /\ Len(a \o b) = Len(a) + Len(b)
      /\ \A i \in 1..(Len(a) + Len(b)) :
            (a \o b)[i] = IF i <= Len(a) THEN a[i] ELSE b[i - Len(a)]
      BY <1>2, <1>3, ConcatProperties
<1>5. Laps(o, start, wrap) = a \o b
      BY DEF Laps, a, b
<1>6. ASSUME start <= Len(o) PROVE (a \o b)[1] = o[start]
  <2>1. 1 \in 1..(Len(a) + Len(b)) /\ 1 <= Len(a)
        BY <1>1, <1>2, <1>3, <1>6
  <2>2. (a \o b)[1] = a[1] /\ a[1] = o[start]
        BY <1>1, <1>2, <1>4, <1>6, <2>1
  <2>3. QED  BY <2>2
<1>7. ASSUME start = Len(o) + 1, wrap > 0 PROVE (a \o b)[1] = o[1]
  <2>1. 1 \in 1..(Len(a) + Len(b)) /\ Len(a) = 0
        BY <1>1, <1>2, <1>3, <1>7
  <2>2. (a \o b)[1] = b[1] /\ b[1] = o[1]
        BY <1>1, <1>3, <1>4, <1>7, <2>1
  <2>3. QED  BY <2>2
<1>8. Len(a \o b) = Len(o) - start + 1 + wrap
      BY <1>2, <1>3, <1>4
<1>9. QED  BY <1>4, <1>5, <1>6, <1>7, <1>8

\* A span of places is a stretch of the order of a context that is not shuffled.
LEMMA SpanOfOrder ==
    ASSUME NEW t, Whole(t), ~t.shuffle, NEW from \in Nat \ {0}, NEW to \in 0..Len_(t)
    PROVE  Span(from, to) = SubSeq(Order(t), from, to)
<1>1. Len_(t) \in Nat /\ Order(t) = [k \in 1..Len_(t) |-> k]
      BY Fields DEF Whole, Order
<1> DEFINE n == IF to < from THEN 0 ELSE to - from + 1
<1>2. n \in Nat /\ Span(from, to) = [k \in 1..n |-> from + k - 1]
      BY <1>1 DEF Span
<1>3. Span(from, to) \in [1..n -> Nat]
      BY <1>1, <1>2
<1>4. /\ Span(from, to) \in Seq(Nat) /\ Len(Span(from, to)) = n
      /\ \A k \in 1..n : Span(from, to)[k] = from + k - 1
  <2>1. Span(from, to) \in Seq(Nat)
        BY <1>2, <1>3, SeqDef
  <2>2. QED  BY <1>2, <1>3, <2>1, LenProperties
<1>5. /\ SubSeq(Order(t), from, to) \in Seq(Nat) /\ Len(SubSeq(Order(t), from, to)) = n
      /\ \A k \in 1..n : SubSeq(Order(t), from, to)[k] = from + k - 1
  <2>1. \A i \in from..to : Order(t)[i] \in Nat /\ Order(t)[i] = i
        BY <1>1
  <2>2. /\ SubSeq(Order(t), from, to) \in Seq(Nat)
        /\ Len(SubSeq(Order(t), from, to)) = IF from <= to THEN to - from + 1 ELSE 0
        /\ \A k \in 1..(to - from + 1) : SubSeq(Order(t), from, to)[k] = Order(t)[from + k - 1]
        BY <1>1, <2>1, SubSeqProperties
  <2>3. ASSUME NEW k \in 1..n PROVE SubSeq(Order(t), from, to)[k] = from + k - 1
    <3>1. k \in 1..(to - from + 1) /\ from + k - 1 \in from..to
          BY <1>1, <2>3
    <3>2. QED  BY <2>1, <2>2, <3>1
  <2>4. QED  BY <1>1, <2>2, <2>3
<1> HIDE DEF n
<1>6. QED  BY <1>2, <1>4, <1>5, SeqEqual

\* The place in the order where the walk starts, and the one up to which it goes
\* again from the beginning.
WalkStart(t) ==
    IF CurrentMatches(t) THEN IndexIn(Order(t), t.ci) + 1
    ELSE IF ~t.shuffle THEN FirstUpcomingIndex(t)
    ELSE IF IsValidIndex(t, t.ri) THEN IndexIn(Order(t), t.ri) ELSE 1
WalkWrap(t) ==
    IF t.repeat # "all" THEN 0
    ELSE IF ~CurrentMatches(t) THEN WalkStart(t) - 1
    ELSE IF Len_(t) = 1 THEN 1 ELSE WalkStart(t) - 2

LEMMA DetachedIsNat ==
    ASSUME NEW t \in Snapshot
    PROVE  DetachedIndex(t) \in Nat
<1>1. t.cur # None => t.cur.index \in Nat
      BY Fields DEF Entry
<1>2. QED  BY <1>1 DEF DetachedIndex

\* Without shuffle the walk of a context begins at one of its places or after the last.
LEMMA FirstUpcomingBounds ==
    ASSUME NEW t, Whole(t), Len_(t) # 0, ~t.shuffle
    PROVE  FirstUpcomingIndex(t) \in 1..(Len_(t) + 1)
<1>1. Len_(t) \in Nat \ {0} /\ t.ri \in Nat /\ t.ci \in Nat /\ DetachedIndex(t) \in Nat
      BY Fields, DetachedIsNat DEF Whole
<1>2. CASE CurrentMatches(t)
      BY <1>1, <1>2 DEF FirstUpcomingIndex, CurrentMatches, IsValidIndex
<1>3. CASE ~CurrentMatches(t)
  <2>1. DetachedIndex(t) # 0 => NextDetached(t, DetachedIndex(t)) \in 0..Len_(t)
        BY <1>1 DEF NextDetached
  <2>2. QED  BY <1>1, <1>3, <2>1 DEF FirstUpcomingIndex, IsValidIndex
<1>4. QED  BY <1>2, <1>3

LEMMA WalkBounds ==
    ASSUME NEW t, Whole(t), Len_(t) # 0
    PROVE  WalkStart(t) \in 1..(Len_(t) + 1) /\ WalkWrap(t) \in 0..Len_(t)
<1>1. Len_(t) \in Nat \ {0}
      BY Fields DEF Whole
<1>2. \A i \in 1..Len_(t) : IndexIn(Order(t), i) \in 1..Len_(t)
      BY OrderPlaces
<1>3. CASE CurrentMatches(t)
  <2>1. IndexIn(Order(t), t.ci) \in 1..Len_(t)
        BY <1>2, <1>3 DEF CurrentMatches, IsValidIndex
  <2>2. QED  BY <1>1, <1>3, <2>1 DEF WalkStart, WalkWrap
<1>4. CASE ~CurrentMatches(t) /\ ~t.shuffle
  <2>1. FirstUpcomingIndex(t) \in 1..(Len_(t) + 1)
        BY <1>4, FirstUpcomingBounds
  <2>2. QED  BY <1>1, <1>4, <2>1 DEF WalkStart, WalkWrap
<1>5. CASE ~CurrentMatches(t) /\ t.shuffle
  <2>1. IsValidIndex(t, t.ri) => IndexIn(Order(t), t.ri) \in 1..Len_(t)
        BY <1>2 DEF IsValidIndex
  <2>2. QED  BY <1>1, <1>5, <2>1 DEF WalkStart, WalkWrap
<1>6. t.shuffle \in BOOLEAN
      BY Fields DEF Whole
<1>7. QED  BY <1>3, <1>4, <1>5, <1>6

\* What Next and the preload follow is those laps of the order...
LEMMA WalkIsLaps ==
    ASSUME NEW t, Whole(t), Len_(t) # 0
    PROVE  WalkIndices(t) = Laps(Order(t), WalkStart(t), WalkWrap(t))
<1>1. Len_(t) \in Nat \ {0} /\ Len(Order(t)) = Len_(t)
      BY Fields, OrderPlaces DEF Whole
<1>2. WalkStart(t) \in 1..(Len_(t) + 1) /\ WalkWrap(t) \in 0..Len_(t)
      BY WalkBounds
<1>3. CASE t.shuffle
  <2> DEFINE here == IF CurrentMatches(t) THEN IndexIn(Order(t), t.ci) ELSE 0
             back == IF ~CurrentMatches(t) /\ IsValidIndex(t, t.ri)
                     THEN IndexIn(Order(t), t.ri) ELSE 0
             start == IF here # 0 THEN here + 1 ELSE IF back # 0 THEN back ELSE 1
             wrap == IF t.repeat # "all" THEN 0
                     ELSE IF here # 0 THEN IF Len(Order(t)) = 1 THEN 1 ELSE here - 1
                     ELSE IF back # 0 THEN back - 1 ELSE 0
  <2>1. EffectiveCycle(t) = Order(t)
        BY <1>3, OrderIsOrder
  <2>2. WalkIndices(t) = SubSeq(Order(t), start, Len(Order(t))) \o SubSeq(Order(t), 1, wrap)
        BY <1>3, <2>1 DEF WalkIndices
  <2>3. CurrentMatches(t) => IndexIn(Order(t), t.ci) \in 1..Len_(t)
        BY OrderPlaces DEF CurrentMatches, IsValidIndex
  <2>4. IsValidIndex(t, t.ri) => IndexIn(Order(t), t.ri) \in 1..Len_(t)
        BY OrderPlaces DEF IsValidIndex
  <2>5. start = WalkStart(t)
        BY <1>1, <1>3, <2>3, <2>4 DEF WalkStart
  <2>6. wrap = WalkWrap(t)
        BY <1>1, <1>3, <2>3, <2>4 DEF WalkStart, WalkWrap
  <2> HIDE DEF start, wrap
  <2>7. QED  BY <2>2, <2>5, <2>6 DEF Laps
<1>4. CASE ~t.shuffle
  <2> DEFINE start == FirstUpcomingIndex(t)
             wrap == IF t.repeat # "all" THEN 0
                     ELSE IF CurrentMatches(t) THEN IF Len_(t) = 1 THEN 1 ELSE t.ci - 1
                     ELSE start - 1
  <2>1. WalkIndices(t) = Span(start, Len_(t)) \o Span(1, wrap)
        BY <1>4 DEF WalkIndices
  <2>2. CurrentMatches(t) => IndexIn(Order(t), t.ci) = t.ci /\ t.ci \in 1..Len_(t)
        BY <1>4, OrderPlaces DEF CurrentMatches, IsValidIndex
  <2>3. CurrentMatches(t) => FirstUpcomingIndex(t) = t.ci + 1
        BY <1>1 DEF FirstUpcomingIndex
  <2>4. start = WalkStart(t)
        BY <1>4, <2>2, <2>3 DEF WalkStart
  <2>5. wrap = WalkWrap(t)
        BY <1>4, <2>2, <2>3, <2>4 DEF WalkStart, WalkWrap
  <2> HIDE DEF start, wrap
  <2>6. Span(start, Len_(t)) = SubSeq(Order(t), start, Len_(t))
    <3>1. start \in Nat \ {0} /\ Len_(t) \in 0..Len_(t)
          BY <1>1, <1>2, <2>4
    <3>2. QED  BY <1>4, <3>1, SpanOfOrder
  <2>7. Span(1, wrap) = SubSeq(Order(t), 1, wrap)
    <3>1. 1 \in Nat \ {0} /\ wrap \in 0..Len_(t)
          BY <1>2, <2>5
    <3>2. QED  BY <1>4, <3>1, SpanOfOrder
  <2>8. QED  BY <1>1, <2>1, <2>4, <2>5, <2>6, <2>7 DEF Laps
<1>5. t.shuffle \in BOOLEAN
      BY Fields DEF Whole
<1>6. QED  BY <1>3, <1>4, <1>5

\* ... and so is the list that is shown.
LEMMA UpcomingIsLaps ==
    ASSUME NEW t, Whole(t), Len_(t) # 0
    PROVE  UpcomingIndices(t) = Laps(Order(t), WalkStart(t), WalkWrap(t))
<1>1. /\ Len_(t) \in Nat \ {0} /\ Order(t) \in Seq(1..Len_(t)) /\ Len(Order(t)) = Len_(t)
      /\ \A i \in 1..Len_(t) : Order(t)[i] \in 1..Len_(t)
      BY Fields, OrderPlaces DEF Whole
<1>2. WalkStart(t) \in 1..(Len_(t) + 1) /\ WalkWrap(t) \in 0..Len_(t)
      BY WalkBounds
<1> DEFINE o == Order(t)
           n == Len_(t)
           tail == SubSeq(o, WalkStart(t), n)
<1>3. tail \in Seq(1..n)
  <2>1. \A i \in WalkStart(t)..n : o[i] \in 1..n
        BY <1>1, <1>2
  <2>2. QED  BY <1>1, <1>2, <2>1, SubSeqProperties
<1>4. SubSeq(o, 1, 0) = <<>>
      BY SubSeqEmpty
<1>5. tail \o <<>> = tail
      BY <1>3, ConcatEmptySeq
<1>6. \A k \in 0..n : SubSeq(o, 1, k) \in Seq(1..n)
  <2>1. SUFFICES ASSUME NEW k \in 0..n PROVE SubSeq(o, 1, k) \in Seq(1..n)
        OBVIOUS
  <2>2. \A i \in 1..k : o[i] \in 1..n
        BY <1>1
  <2>3. QED  BY <1>1, <2>2, SubSeqProperties
<1>7. Laps(o, WalkStart(t), WalkWrap(t)) = tail \o SubSeq(o, 1, WalkWrap(t))
      BY <1>1 DEF Laps
<1>8. CASE t.shuffle
  <2> DEFINE here == IF CurrentMatches(t) THEN IndexIn(o, t.ci) ELSE 0
             back == IF IsValidIndex(t, t.ri) THEN IndexIn(o, t.ri) ELSE 0
  <2>1. EffectiveCycle(t) = o
        BY <1>8, OrderIsOrder
  <2>2. CurrentMatches(t) => IndexIn(o, t.ci) \in 1..n
        BY OrderPlaces DEF CurrentMatches, IsValidIndex
  <2>3. IsValidIndex(t, t.ri) => IndexIn(o, t.ri) \in 1..n
        BY OrderPlaces DEF IsValidIndex
  <2>4. CASE CurrentMatches(t)
    <3>1. here \in 1..n /\ WalkStart(t) = here + 1
          BY <2>2, <2>4 DEF WalkStart
    <3>2. UpcomingIndices(t) =
             SubSeq(o, here + 1, Len(o))
               \o (IF t.repeat = "all" THEN SubSeq(o, 1, here - 1) ELSE <<>>)
               \o (IF t.repeat = "all" /\ Len(o) = 1 THEN o ELSE <<>>)
      <4>1. t.shuffle /\ here # 0 /\ ~(here = 0)
            BY <1>8, <3>1
      <4>2. QED  BY <2>1, <4>1 DEF UpcomingIndices
    <3>3. UpcomingIndices(t) =
             tail \o (IF t.repeat = "all" THEN SubSeq(o, 1, here - 1) ELSE <<>>)
                  \o (IF t.repeat = "all" /\ n = 1 THEN o ELSE <<>>)
          BY <1>1, <3>1, <3>2
    <3>4. CASE t.repeat # "all"
      <4>1. WalkWrap(t) = 0 /\ UpcomingIndices(t) = tail \o <<>> \o <<>>
            BY <3>3, <3>4 DEF WalkWrap
      <4>2. QED  BY <1>4, <1>5, <1>7, <4>1
    <3>5. CASE t.repeat = "all" /\ n = 1
      <4>1. here = 1 /\ WalkWrap(t) = 1
            BY <2>4, <3>1, <3>5 DEF WalkWrap
      <4>2. SubSeq(o, 1, here - 1) = <<>>
            BY <1>4, <4>1
      <4>3. UpcomingIndices(t) = tail \o <<>> \o o
            BY <3>3, <3>5, <4>2
      <4>4. SubSeq(o, 1, 1) = o
        <5>1. SubSeq(o, 1, Len(o)) = o
              BY <1>1, SubSeqFull
        <5>2. QED  BY <1>1, <3>5, <5>1
      <4>5. QED  BY <1>5, <1>7, <4>1, <4>3, <4>4
    <3>6. CASE t.repeat = "all" /\ n # 1
      <4>1. WalkWrap(t) = here - 1
            BY <1>1, <2>4, <3>1, <3>6 DEF WalkWrap
      <4>2. UpcomingIndices(t) = (tail \o SubSeq(o, 1, here - 1)) \o <<>>
            BY <3>3, <3>6
      <4>3. tail \o SubSeq(o, 1, here - 1) \in Seq(1..n)
        <5>1. here - 1 \in 0..n
              BY <1>1, <3>1
        <5>2. QED  BY <1>3, <1>6, <5>1, ConcatProperties
      <4>4. UpcomingIndices(t) = tail \o SubSeq(o, 1, here - 1)
            BY <4>2, <4>3, ConcatEmptySeq
      <4>5. QED  BY <1>7, <4>1, <4>4
    <3>7. QED  BY <3>4, <3>5, <3>6
  <2>5. CASE ~CurrentMatches(t) /\ IsValidIndex(t, t.ri)
    <3>1. here = 0 /\ back \in 1..n /\ WalkStart(t) = back
          BY <1>8, <2>3, <2>5 DEF WalkStart
    <3>2. UpcomingIndices(t) =
             SubSeq(o, back, Len(o)) \o (IF t.repeat = "all" THEN SubSeq(o, 1, back - 1) ELSE <<>>)
      <4>1. t.shuffle /\ here = 0 /\ back # 0
            BY <1>8, <3>1
      <4>2. QED  BY <2>1, <4>1 DEF UpcomingIndices
    <3>3. CASE t.repeat = "all"
          BY <1>1, <1>7, <2>5, <3>1, <3>2, <3>3 DEF WalkWrap
    <3>4. CASE t.repeat # "all"
          BY <1>1, <1>4, <1>7, <3>1, <3>2, <3>4 DEF WalkWrap
    <3>5. QED  BY <3>3, <3>4
  <2>6. CASE ~CurrentMatches(t) /\ ~IsValidIndex(t, t.ri)
    <3>1. here = 0 /\ back = 0 /\ WalkStart(t) = 1
          BY <1>8, <2>6 DEF WalkStart
    <3>2. UpcomingIndices(t) = o
          BY <1>8, <2>1, <3>1 DEF UpcomingIndices
    <3>3. WalkWrap(t) = 0
          BY <2>6, <3>1 DEF WalkWrap
    <3>4. tail = o
          BY <1>1, <3>1, SubSeqFull
    <3>5. QED  BY <1>4, <1>5, <1>7, <3>2, <3>3, <3>4
  <2>7. QED  BY <2>4, <2>5, <2>6
<1>9. CASE ~t.shuffle
  <2>1. WalkStart(t) = FirstUpcomingIndex(t)
    <3>1. CurrentMatches(t) => IndexIn(o, t.ci) = t.ci
          BY <1>9, OrderPlaces DEF CurrentMatches, IsValidIndex
    <3>2. CurrentMatches(t) => FirstUpcomingIndex(t) = t.ci + 1
          BY <1>1 DEF FirstUpcomingIndex
    <3>3. QED  BY <1>9, <3>1, <3>2 DEF WalkStart
  <2>2. UpcomingIndices(t) =
           Span(WalkStart(t), n)
             \o (IF t.repeat # "all" THEN <<>>
                 ELSE IF CurrentMatches(t)
                 THEN Span(1, t.ci - 1) \o (IF n = 1 THEN <<1>> ELSE <<>>)
                 ELSE Span(1, WalkStart(t) - 1))
        BY <1>1, <1>9, <2>1 DEF UpcomingIndices, FirstUpcomingIndex
  <2>3. Span(WalkStart(t), n) = tail
    <3>1. WalkStart(t) \in Nat \ {0} /\ n \in 0..n
          BY <1>1, <1>2
    <3>2. QED  BY <1>9, <3>1, SpanOfOrder
  <2>4. \A k \in 0..n : Span(1, k) = SubSeq(o, 1, k)
        BY <1>9, SpanOfOrder
  <2>5. CASE t.repeat # "all"
        BY <1>4, <1>7, <2>2, <2>3, <2>5 DEF WalkWrap
  <2>6. CASE t.repeat = "all" /\ ~CurrentMatches(t)
    <3>1. WalkWrap(t) = WalkStart(t) - 1
          BY <2>6 DEF WalkWrap
    <3>2. QED  BY <1>2, <1>7, <2>2, <2>3, <2>4, <2>6, <3>1
  <2>7. CASE t.repeat = "all" /\ CurrentMatches(t)
    <3>1. t.ci \in 1..n /\ IndexIn(o, t.ci) = t.ci /\ WalkStart(t) = t.ci + 1
          BY <1>9, <2>7, OrderPlaces DEF CurrentMatches, IsValidIndex, WalkStart
    <3>2. Span(1, t.ci - 1) = SubSeq(o, 1, t.ci - 1) /\ SubSeq(o, 1, t.ci - 1) \in Seq(1..n)
      <4>1. t.ci - 1 \in 0..n
            BY <1>1, <3>1
      <4>2. QED  BY <1>6, <2>4, <4>1
    <3>3. CASE n = 1
      <4>1. WalkWrap(t) = 1 /\ t.ci = 1
            BY <2>7, <3>1, <3>3 DEF WalkWrap
      <4>2. SubSeq(o, 1, 1) = <<1>>
        <5>1. o = [k \in 1..1 |-> k]
              BY <1>9, <3>3 DEF Order
        <5>2. SubSeq(o, 1, Len(o)) = o
              BY <1>1, SubSeqFull
        <5>3. <<1>> = [k \in 1..1 |-> k]
              OBVIOUS
        <5>4. QED  BY <1>1, <3>3, <5>1, <5>2, <5>3
      <4>3. UpcomingIndices(t) = tail \o (<<>> \o <<1>>)
        <5>1. Span(1, t.ci - 1) = <<>>
          <6>1. t.ci - 1 = 0
                BY <4>1
          <6>2. QED  BY <1>4, <3>2, <6>1
        <5>2. QED  BY <2>2, <2>3, <2>7, <3>3, <5>1
      <4>4. <<>> \o <<1>> = <<1>>
        <5>1. <<1>> \in Seq(Nat)
              OBVIOUS
        <5>2. QED  BY <5>1, ConcatEmptySeq
      <4>5. QED  BY <1>7, <4>1, <4>2, <4>3, <4>4
    <3>4. CASE n # 1
      <4>1. WalkWrap(t) = t.ci - 1
            BY <2>7, <3>1, <3>4 DEF WalkWrap
      <4>2. UpcomingIndices(t) = tail \o (SubSeq(o, 1, t.ci - 1) \o <<>>)
            BY <2>2, <2>3, <2>7, <3>2, <3>4
      <4>3. SubSeq(o, 1, t.ci - 1) \o <<>> = SubSeq(o, 1, t.ci - 1)
            BY <3>2, ConcatEmptySeq
      <4>4. QED  BY <1>7, <4>1, <4>2, <4>3
    <3>5. QED  BY <3>3, <3>4
  <2>8. QED  BY <2>5, <2>6, <2>7
<1>10. t.shuffle \in BOOLEAN
      BY Fields DEF Whole
<1>11. QED  BY <1>8, <1>9, <1>10

-----------------------------------------------------------------------------
(* The four answers agree                                                   *)

LEMMA DropPrefix ==
    ASSUME NEW S, NEW r \in Seq(S), NEW x \in Seq(S)
    PROVE  SubSeq(r \o x, Len(r) + 1, Len(r \o x)) = x
<1>1. /\ Len(r) \in Nat /\ Len(x) \in Nat
      /\ \A i \in 1..Len(x) : x[i] \in S
      BY LenProperties, ElementOfSeq
<1>2. /\ r \o x \in Seq(S) /\ Len(r \o x) = Len(r) + Len(x)
      /\ \A i \in 1..(Len(r) + Len(x)) :
            (r \o x)[i] = IF i <= Len(r) THEN r[i] ELSE x[i - Len(r)]
      BY ConcatProperties
<1> DEFINE w == r \o x
           y == SubSeq(w, Len(r) + 1, Len(w))
<1> HIDE DEF w
<1>3. \A i \in 1..Len(x) : w[Len(r) + i] = x[i]
  <2>1. SUFFICES ASSUME NEW i \in 1..Len(x) PROVE w[Len(r) + i] = x[i]
        OBVIOUS
  <2>2. Len(r) + i \in 1..(Len(r) + Len(x)) /\ ~(Len(r) + i <= Len(r)) /\ Len(r) + i - Len(r) = i
        BY <1>1
  <2>3. QED  BY <1>2, <2>2 DEF w
<1>4. \A k \in (Len(r) + 1)..Len(w) : w[k] \in S
      BY <1>2, ElementOfSeq, LenProperties DEF w
<1>5. Len(w) = Len(r) + Len(x)
      BY <1>2 DEF w
<1>6. /\ y \in Seq(S)
      /\ Len(y) = IF Len(r) + 1 <= Len(w) THEN Len(w) - (Len(r) + 1) + 1 ELSE 0
      /\ \A i \in 1..(Len(w) - (Len(r) + 1) + 1) : y[i] = w[Len(r) + 1 + i - 1]
  <2>1. Len(r) + 1 \in Int /\ Len(w) \in Int
        BY <1>1, <1>5
  <2>2. QED  BY <1>4, <2>1, SubSeqProperties
<1> HIDE DEF y
<1>7. Len(y) = Len(x)
      BY <1>1, <1>5, <1>6
<1>8. \A i \in 1..Len(x) : y[i] = x[i]
  <2>1. SUFFICES ASSUME NEW i \in 1..Len(x) PROVE y[i] = x[i]
        OBVIOUS
  <2>2. i \in 1..(Len(w) - (Len(r) + 1) + 1) /\ Len(r) + 1 + i - 1 = Len(r) + i
        BY <1>1, <1>5
  <2>3. QED  BY <1>3, <1>6, <2>2
<1>9. y = x
      BY <1>6, <1>7, <1>8, SeqEqual
<1>10. QED  BY <1>9 DEF y, w

LEMMA EntryAtType ==
    ASSUME NEW t \in Snapshot, NEW i \in 1..Len_(t)
    PROVE  EntryAt(t, i) \in Entry
BY Fields DEF EntryAt, Entry

LEMMA QueuedEntriesType ==
    ASSUME NEW t \in Snapshot
    PROVE  /\ QueuedEntries(t) \in Seq(Entry) /\ Len(QueuedEntries(t)) = Len(t.user)
           /\ Len(t.user) \in Nat
           /\ \A i \in 1..Len(t.user) : QueuedEntries(t)[i] = QueuedEntry(t.user[i])
           /\ \A i \in 1..Len(t.user) : t.user[i] \in Queued /\ QueuedEntry(t.user[i]) \in Entry
<1>1. t.user \in Seq(Queued)
      BY Fields
<1>2. /\ Len(t.user) \in Nat /\ DOMAIN t.user = 1..Len(t.user)
      /\ \A i \in 1..Len(t.user) : t.user[i] \in Queued
      BY <1>1, LenProperties, ElementOfSeq
<1>3. \A i \in 1..Len(t.user) : QueuedEntry(t.user[i]) \in Entry
      BY <1>2 DEF QueuedEntry, Entry
<1>4. /\ QueuedEntries(t) \in [1..Len(t.user) -> Entry]
      /\ \A i \in 1..Len(t.user) : QueuedEntries(t)[i] = QueuedEntry(t.user[i])
      BY <1>2, <1>3 DEF QueuedEntries
<1>5. QED  BY <1>2, <1>3, <1>4, FunctionIsSeq

LEMMA EntriesType ==
    ASSUME NEW t \in Snapshot, NEW q \in Seq(1..Len_(t))
    PROVE  /\ Entries(t, q) \in Seq(Entry) /\ Len(Entries(t, q)) = Len(q)
           /\ \A i \in 1..Len(q) : Entries(t, q)[i] = EntryAt(t, q[i])
<1>1. /\ Len(q) \in Nat /\ DOMAIN q = 1..Len(q)
      /\ \A i \in 1..Len(q) : q[i] \in 1..Len_(t)
      BY LenProperties, ElementOfSeq
<1>2. \A i \in 1..Len(q) : EntryAt(t, q[i]) \in Entry
      BY <1>1, EntryAtType
<1>3. /\ Entries(t, q) \in [1..Len(q) -> Entry]
      /\ \A i \in 1..Len(q) : Entries(t, q)[i] = EntryAt(t, q[i])
      BY <1>1, <1>2 DEF Entries
<1>4. QED  BY <1>1, <1>3, FunctionIsSeq

\* How many places are left, and the first of them.
LEMMA WalkLength ==
    ASSUME NEW t, Whole(t), Len_(t) # 0
    PROVE  /\ WalkIndices(t) \in Seq(1..Len_(t))
           /\ Len(WalkIndices(t)) = Len_(t) - WalkStart(t) + 1 + WalkWrap(t)
           /\ WalkStart(t) <= Len_(t) => WalkIndices(t)[1] = Order(t)[WalkStart(t)]
           /\ WalkStart(t) = Len_(t) + 1 /\ WalkWrap(t) > 0 => WalkIndices(t)[1] = Order(t)[1]
<1>1. Order(t) \in Seq(1..Len_(t)) /\ Len(Order(t)) = Len_(t)
      BY OrderPlaces
<1>2. WalkStart(t) \in 1..(Len(Order(t)) + 1) /\ WalkWrap(t) \in 0..Len(Order(t))
      BY <1>1, WalkBounds
<1>3. WalkIndices(t) = Laps(Order(t), WalkStart(t), WalkWrap(t))
      BY WalkIsLaps
<1> DEFINE S == 1..Len_(t)
           o == Order(t)
           a == WalkStart(t)
           b == WalkWrap(t)
<1>4. o \in Seq(S) /\ a \in 1..(Len(o) + 1) /\ b \in 0..Len(o)
      BY <1>1, <1>2
<1> HIDE DEF S, o, a, b
<1>5. /\ Laps(o, a, b) \in Seq(S)
      /\ Len(Laps(o, a, b)) = Len(o) - a + 1 + b
      /\ a <= Len(o) => Laps(o, a, b)[1] = o[a]
      /\ a = Len(o) + 1 /\ b > 0 => Laps(o, a, b)[1] = o[1]
      BY <1>4, LapsProperties
<1>6. QED  BY <1>1, <1>3, <1>5 DEF S, o, a, b

LEMMA FirstUpcomingShape ==
    ASSUME NEW t, Whole(t), Len_(t) # 0, t.user = <<>>
    PROVE  FirstUpcoming(t) =
              IF WalkStart(t) <= Len_(t) THEN <<EntryAt(t, Order(t)[WalkStart(t)])>>
              ELSE IF WalkWrap(t) > 0 THEN <<EntryAt(t, Order(t)[1])>>
              ELSE <<>>
<1>1. /\ Len_(t) \in Nat \ {0} /\ t.ci \in Nat /\ t.ri \in Nat
      /\ Len(Order(t)) = Len_(t) /\ t.shuffle \in BOOLEAN
      BY Fields, OrderPlaces DEF Whole
<1>2. WalkStart(t) \in 1..(Len_(t) + 1) /\ WalkWrap(t) \in 0..Len_(t)
      BY WalkBounds
<1>3. CASE t.shuffle
  <2>1. EffectiveCycle(t) = Order(t)
        BY <1>3, OrderIsOrder
  <2>2. CASE CurrentMatches(t)
    <3>1. IndexIn(Order(t), t.ci) \in 1..Len_(t) /\ WalkStart(t) = IndexIn(Order(t), t.ci) + 1
          BY <2>2, OrderPlaces DEF CurrentMatches, IsValidIndex, WalkStart
    <3>2. FirstUpcoming(t) =
             IF IndexIn(Order(t), t.ci) < Len_(t)
             THEN <<EntryAt(t, Order(t)[IndexIn(Order(t), t.ci) + 1])>>
             ELSE IF t.repeat = "all" THEN <<EntryAt(t, Order(t)[1])>> ELSE <<>>
          BY <1>1, <1>3, <2>1, <2>2 DEF FirstUpcoming
    <3>3. ~(WalkStart(t) <= Len_(t)) => (WalkWrap(t) > 0 <=> t.repeat = "all")
          BY <1>1, <2>2, <3>1 DEF WalkWrap
    <3>4. QED  BY <1>1, <3>1, <3>2, <3>3
  <2>3. CASE ~CurrentMatches(t)
    <3>1. FirstUpcoming(t) = IF IsValidIndex(t, t.ri) THEN <<EntryAt(t, t.ri)>>
                             ELSE <<EntryAt(t, Order(t)[1])>>
          BY <1>1, <1>3, <2>1, <2>3 DEF FirstUpcoming
    <3>2. IsValidIndex(t, t.ri) => /\ WalkStart(t) \in 1..Len_(t)
                                   /\ Order(t)[WalkStart(t)] = t.ri
          BY <1>3, <2>3, OrderPlaces DEF IsValidIndex, WalkStart
    <3>3. ~IsValidIndex(t, t.ri) => WalkStart(t) = 1
          BY <1>3, <2>3 DEF WalkStart
    <3>4. QED  BY <1>1, <3>1, <3>2, <3>3
  <2>4. QED  BY <2>2, <2>3
<1>4. CASE ~t.shuffle
  <2>1. WalkStart(t) = FirstUpcomingIndex(t)
    <3>1. CurrentMatches(t) => IndexIn(Order(t), t.ci) = t.ci
          BY <1>4, OrderPlaces DEF CurrentMatches, IsValidIndex
    <3>2. CurrentMatches(t) => FirstUpcomingIndex(t) = t.ci + 1
          BY <1>1 DEF FirstUpcomingIndex
    <3>3. QED  BY <1>4, <3>1, <3>2 DEF WalkStart
  <2>2. \A k \in 1..Len_(t) : Order(t)[k] = k
        BY <1>4, OrderPlaces
  <2>3. FirstUpcoming(t) =
           IF WalkStart(t) <= Len_(t) THEN <<EntryAt(t, WalkStart(t))>>
           ELSE IF /\ t.repeat = "all"
                   /\ IF CurrentMatches(t) THEN t.ci > 1 \/ Len_(t) = 1 ELSE WalkStart(t) > 1
                THEN <<EntryAt(t, 1)>>
           ELSE <<>>
        BY <1>1, <1>4, <2>1 DEF FirstUpcoming
  <2>4. ASSUME ~(WalkStart(t) <= Len_(t))
        PROVE  WalkWrap(t) > 0 <=>
                  /\ t.repeat = "all"
                  /\ IF CurrentMatches(t) THEN t.ci > 1 \/ Len_(t) = 1 ELSE WalkStart(t) > 1
    <3>1. WalkStart(t) = Len_(t) + 1
          BY <1>1, <1>2, <2>4
    <3>2. CurrentMatches(t) => t.ci = Len_(t)
          BY <1>1, <2>1, <3>1 DEF FirstUpcomingIndex
    <3>3. QED  BY <1>1, <3>1, <3>2 DEF WalkWrap
  <2>5. 1 \in 1..Len_(t)
        BY <1>1
  <2>6. QED  BY <1>1, <1>2, <2>2, <2>3, <2>4, <2>5
<1>5. QED  BY <1>1, <1>3, <1>4

LEMMA CountShape ==
    ASSUME NEW t, Whole(t), Len_(t) # 0
    PROVE  UpcomingCount(t) = Len(t.user) + (Len_(t) - WalkStart(t) + 1 + WalkWrap(t))
<1>1. /\ Len_(t) \in Nat \ {0} /\ t.ci \in Nat /\ t.ri \in Nat /\ Len(t.user) \in Nat
      /\ Len(Order(t)) = Len_(t) /\ t.shuffle \in BOOLEAN
      BY Fields, OrderPlaces, QueuedEntriesType DEF Whole
<1>2. WalkStart(t) \in 1..(Len_(t) + 1) /\ WalkWrap(t) \in 0..Len_(t)
      BY WalkBounds
<1>3. CASE t.shuffle
  <2>1. EffectiveCycle(t) = Order(t)
        BY <1>3, OrderIsOrder
  <2>2. CASE CurrentMatches(t)
    <3>1. IndexIn(Order(t), t.ci) \in 1..Len_(t) /\ WalkStart(t) = IndexIn(Order(t), t.ci) + 1
          BY <2>2, OrderPlaces DEF CurrentMatches, IsValidIndex, WalkStart
    <3>2. UpcomingCount(t) = Len(t.user) +
             (Len_(t) - IndexIn(Order(t), t.ci) +
                (IF t.repeat = "all"
                 THEN IndexIn(Order(t), t.ci) - 1 + (IF Len_(t) = 1 THEN 1 ELSE 0) ELSE 0))
          BY <1>1, <1>3, <2>1, <2>2 DEF UpcomingCount
    <3>3. QED  BY <1>1, <2>2, <3>1, <3>2 DEF WalkWrap
  <2>3. CASE ~CurrentMatches(t)
    <3>1. UpcomingCount(t) = Len(t.user) +
             (IF IndexIn(Order(t), t.ri) # 0
              THEN Len_(t) - IndexIn(Order(t), t.ri) + 1 +
                     (IF t.repeat = "all" THEN IndexIn(Order(t), t.ri) - 1 ELSE 0)
              ELSE Len_(t))
          BY <1>1, <1>3, <2>1, <2>3 DEF UpcomingCount
    <3>2. IsValidIndex(t, t.ri) => /\ IndexIn(Order(t), t.ri) \in 1..Len_(t)
                                   /\ WalkStart(t) = IndexIn(Order(t), t.ri)
          BY <1>3, <2>3, OrderPlaces DEF IsValidIndex, WalkStart
    <3>3. ~IsValidIndex(t, t.ri) => IndexIn(Order(t), t.ri) = 0 /\ WalkStart(t) = 1
          BY <1>3, <2>3, OrderPlaces DEF IsValidIndex, WalkStart
    <3>4. QED  BY <1>1, <2>3, <3>1, <3>2, <3>3 DEF WalkWrap
  <2>4. QED  BY <2>2, <2>3
<1>4. CASE ~t.shuffle
  <2>1. WalkStart(t) = FirstUpcomingIndex(t) /\ (CurrentMatches(t) => WalkStart(t) = t.ci + 1)
    <3>1. CurrentMatches(t) => IndexIn(Order(t), t.ci) = t.ci
          BY <1>4, OrderPlaces DEF CurrentMatches, IsValidIndex
    <3>2. CurrentMatches(t) => FirstUpcomingIndex(t) = t.ci + 1
          BY <1>1 DEF FirstUpcomingIndex
    <3>3. QED  BY <1>4, <3>1, <3>2 DEF WalkStart
  <2>2. UpcomingCount(t) = Len(t.user) +
           ((IF WalkStart(t) <= Len_(t) THEN Len_(t) - WalkStart(t) + 1 ELSE 0) +
              (IF t.repeat = "all"
               THEN IF CurrentMatches(t) THEN t.ci - 1 + (IF Len_(t) = 1 THEN 1 ELSE 0)
                    ELSE WalkStart(t) - 1
               ELSE 0))
        BY <1>1, <1>4, <2>1 DEF UpcomingCount
  <2>3. Len_(t) = 1 /\ CurrentMatches(t) => t.ci = 1
        BY <1>1 DEF CurrentMatches, IsValidIndex
  <2>4. (IF WalkStart(t) <= Len_(t) THEN Len_(t) - WalkStart(t) + 1 ELSE 0) =
           Len_(t) - WalkStart(t) + 1
        BY <1>1, <1>2
  <2>5. (IF t.repeat = "all"
         THEN IF CurrentMatches(t) THEN t.ci - 1 + (IF Len_(t) = 1 THEN 1 ELSE 0)
              ELSE WalkStart(t) - 1
         ELSE 0) = WalkWrap(t)
        BY <1>1, <2>1, <2>3 DEF WalkWrap
  <2>6. QED  BY <2>2, <2>4, <2>5
<1>5. QED  BY <1>1, <1>3, <1>4

LEMMA PlansOfWhole ==
    ASSUME Whole(s)
    PROVE  PlansAgree
<1> DEFINE n == Len_(s)
           r == IF s.repeat = "one" /\ s.cur # None THEN <<s.cur>> ELSE <<>>
           q == QueuedEntries(s)
           e == IF n = 0 THEN <<>> ELSE Entries(s, WalkIndices(s))
<1>1. s \in Snapshot /\ n \in Nat
      BY Fields DEF Whole
<1>2. /\ q \in Seq(Entry) /\ Len(q) = Len(s.user) /\ Len(s.user) \in Nat
      /\ \A i \in 1..Len(s.user) : q[i] = QueuedEntry(s.user[i])
      BY <1>1, QueuedEntriesType
<1>3. r \in Seq(Entry) /\ Len(r) = (IF s.repeat = "one" /\ s.cur # None THEN 1 ELSE 0)
  <2>1. CASE s.repeat = "one" /\ s.cur # None
    <3>1. s.cur \in Entry
          BY <1>1, <2>1, Fields
    <3>2. <<s.cur>> \in Seq(Entry) /\ Len(<<s.cur>>) = 1
          BY <3>1
    <3>3. QED  BY <2>1, <3>2
  <2>2. CASE ~(s.repeat = "one" /\ s.cur # None)
        BY <2>2, EmptySeq
  <2>3. QED  BY <2>1, <2>2
<1>4. /\ e \in Seq(Entry)
      /\ Len(e) = IF n = 0 THEN 0 ELSE n - WalkStart(s) + 1 + WalkWrap(s)
      /\ n # 0 /\ Len(e) > 0 => e[1] = EntryAt(s, WalkIndices(s)[1])
  <2>1. CASE n = 0
        BY <2>1, EmptySeq
  <2>2. CASE n # 0
    <3>1. /\ WalkIndices(s) \in Seq(1..n)
          /\ Len(WalkIndices(s)) = n - WalkStart(s) + 1 + WalkWrap(s)
          BY <2>2, WalkLength
    <3>2. /\ Entries(s, WalkIndices(s)) \in Seq(Entry)
          /\ Len(Entries(s, WalkIndices(s))) = Len(WalkIndices(s))
          /\ \A i \in 1..Len(WalkIndices(s)) :
                Entries(s, WalkIndices(s))[i] = EntryAt(s, WalkIndices(s)[i])
          BY <1>1, <3>1, EntriesType
    <3>3. e = Entries(s, WalkIndices(s))
          BY <2>2
    <3>4. Len(e) > 0 => 1 \in 1..Len(WalkIndices(s))
          BY <3>1, <3>2, <3>3, LenProperties
    <3>5. QED  BY <2>2, <3>1, <3>2, <3>3, <3>4
  <2>3. QED  BY <2>1, <2>2
<1>5. Upcoming(s) = q \o e
  <2>1. n # 0 => UpcomingIndices(s) = WalkIndices(s)
        BY WalkIsLaps, UpcomingIsLaps
  <2>2. QED  BY <2>1 DEF Upcoming
<1>6. NextWalk(s) = (r \o q) \o e
      BY DEF NextWalk
<1> HIDE DEF r, q, e
<1>7. /\ q \o e \in Seq(Entry) /\ Len(q \o e) = Len(q) + Len(e)
      /\ \A i \in 1..(Len(q) + Len(e)) :
            (q \o e)[i] = IF i <= Len(q) THEN q[i] ELSE e[i - Len(q)]
      BY <1>2, <1>4, ConcatProperties
<1>8. SubSeq(NextWalk(s), Len(r) + 1, Len(NextWalk(s))) = Upcoming(s)
  <2>1. (r \o q) \o e = r \o (q \o e)
        BY <1>2, <1>3, <1>4, ConcatAssociative
  <2>2. SubSeq(r \o (q \o e), Len(r) + 1, Len(r \o (q \o e))) = q \o e
        BY <1>3, <1>7, DropPrefix
  <2>3. QED  BY <1>5, <1>6, <2>1, <2>2
<1>9. Len(e) \in Nat
      BY <1>4, LenProperties
<1>10. FirstUpcoming(s) = (IF Upcoming(s) = <<>> THEN <<>> ELSE <<Upcoming(s)[1]>>)
  <2>1. Len(q \o e) = 0 <=> q \o e = <<>>
        BY <1>7, EmptySeq
  <2>2. Len(s.user) = 0 <=> s.user = <<>>
        BY <1>1, Fields, EmptySeq
  <2>3. CASE s.user # <<>>
    <3>1. FirstUpcoming(s) = <<QueuedEntry(s.user[1])>>
          BY <2>3 DEF FirstUpcoming
    <3>2. 1 \in 1..Len(s.user) /\ 1 \in 1..(Len(q) + Len(e)) /\ 1 <= Len(q)
          BY <1>2, <1>9, <2>2, <2>3
    <3>3. (q \o e)[1] = QueuedEntry(s.user[1])
          BY <1>2, <1>7, <3>2
    <3>4. q \o e # <<>>
          BY <1>2, <1>7, <1>9, <2>1, <3>2
    <3>5. QED  BY <1>5, <3>1, <3>3, <3>4
  <2>4. CASE s.user = <<>> /\ n = 0
    <3>1. FirstUpcoming(s) = <<>>
          BY <2>4 DEF FirstUpcoming
    <3>2. Len(q \o e) = 0
          BY <1>2, <1>4, <1>7, <2>2, <2>4
    <3>3. QED  BY <1>5, <2>1, <3>1, <3>2
  <2>5. CASE s.user = <<>> /\ n # 0
    <3>1. WalkStart(s) \in 1..(n + 1) /\ WalkWrap(s) \in 0..n
          BY <2>5, WalkBounds
    <3>2. Len(q) = 0 /\ Len(q \o e) = n - WalkStart(s) + 1 + WalkWrap(s)
          BY <1>2, <1>4, <1>7, <2>2, <2>5
    <3>3. ASSUME Len(e) > 0 PROVE (q \o e)[1] = EntryAt(s, WalkIndices(s)[1])
      <4>1. 1 \in 1..(Len(q) + Len(e)) /\ ~(1 <= Len(q)) /\ 1 - Len(q) = 1
            BY <1>9, <3>2, <3>3
      <4>2. (q \o e)[1] = e[1]
            BY <1>7, <4>1
      <4>3. QED  BY <1>4, <2>5, <3>3, <4>2
    <3>4. /\ WalkStart(s) <= n => WalkIndices(s)[1] = Order(s)[WalkStart(s)]
          /\ WalkStart(s) = n + 1 /\ WalkWrap(s) > 0 => WalkIndices(s)[1] = Order(s)[1]
          BY <2>5, WalkLength
    <3>5. FirstUpcoming(s) =
              IF WalkStart(s) <= n THEN <<EntryAt(s, Order(s)[WalkStart(s)])>>
              ELSE IF WalkWrap(s) > 0 THEN <<EntryAt(s, Order(s)[1])>>
              ELSE <<>>
          BY <2>5, FirstUpcomingShape
    <3>6. CASE WalkStart(s) <= n
      <4>1. Len(e) > 0 /\ Len(q \o e) # 0
            BY <1>1, <1>7, <3>1, <3>2, <3>6
      <4>2. QED  BY <1>5, <2>1, <3>3, <3>4, <3>5, <3>6, <4>1
    <3>7. CASE WalkStart(s) = n + 1 /\ WalkWrap(s) > 0
      <4>1. Len(e) > 0 /\ Len(q \o e) # 0 /\ ~(WalkStart(s) <= n)
            BY <1>1, <1>7, <3>1, <3>2, <3>7
      <4>2. QED  BY <1>5, <2>1, <3>3, <3>4, <3>5, <3>7, <4>1
    <3>8. CASE WalkStart(s) = n + 1 /\ WalkWrap(s) = 0
      <4>1. Len(q \o e) = 0 /\ ~(WalkStart(s) <= n) /\ ~(WalkWrap(s) > 0)
            BY <1>1, <3>1, <3>2, <3>8
      <4>2. QED  BY <1>5, <2>1, <3>5, <4>1
    <3>9. QED  BY <1>1, <3>1, <3>6, <3>7, <3>8
  <2>6. QED  BY <2>3, <2>4, <2>5
<1>11. UpcomingCount(s) = Len(Upcoming(s))
  <2>1. CASE n = 0
    <3>1. UpcomingCount(s) = Len(s.user) + 0
          BY <2>1 DEF UpcomingCount
    <3>2. QED  BY <1>2, <1>4, <1>5, <1>7, <2>1, <3>1
  <2>2. CASE n # 0
    <3>1. UpcomingCount(s) = Len(s.user) + (n - WalkStart(s) + 1 + WalkWrap(s))
          BY <2>2, CountShape
    <3>2. QED  BY <1>2, <1>4, <1>5, <1>7, <2>2, <3>1
  <2>3. QED  BY <2>1, <2>2
<1>12. QED  BY <1>3, <1>8, <1>10, <1>11 DEF PlansAgree

-----------------------------------------------------------------------------
(* Where a context is resumed, and what lies before and after               *)

LEMMA DefaultFirstBounds ==
    ASSUME NEW t, Whole(t)
    PROVE  /\ DefaultFirst(t) \in 0..Len_(t)
           /\ Len_(t) # 0 => DefaultFirst(t) = Order(t)[1] /\ DefaultFirst(t) \in 1..Len_(t)
<1>1. Len_(t) \in Nat /\ t.shuffle \in BOOLEAN
      BY Fields DEF Whole
<1>2. CASE Len_(t) = 0
      BY <1>1, <1>2 DEF DefaultFirst
<1>3. CASE Len_(t) # 0
  <2>1. 1 \in 1..Len_(t)
        BY <1>1, <1>3
  <2>2. Order(t)[1] \in 1..Len_(t)
        BY <2>1, OrderPlaces
  <2>3. ~t.shuffle => Order(t)[1] = 1
        BY <2>1, OrderPlaces
  <2>4. t.shuffle => EffectiveCycle(t) = Order(t)
        BY OrderIsOrder
  <2>5. DefaultFirst(t) = Order(t)[1]
        BY <1>3, <2>3, <2>4 DEF DefaultFirst
  <2>6. QED  BY <1>1, <1>3, <2>2, <2>5
<1>4. QED  BY <1>2, <1>3

LEMMA NextFromBounds ==
    ASSUME NEW t, Whole(t), NEW i \in 1..Len_(t)
    PROVE  NextFrom(t, i, FALSE) \in 0..Len_(t)
<1>1. Len_(t) \in Nat \ {0}
      BY Fields DEF Whole
<1>2. /\ IndexIn(Order(t), i) \in 1..Len_(t)
      /\ \A k \in 1..Len_(t) : Order(t)[k] \in 1..Len_(t)
      BY OrderPlaces
<1>3. IsValidIndex(t, i)
      BY DEF IsValidIndex
<1>4. QED  BY <1>1, <1>2, <1>3 DEF NextFrom

LEMMA NextDetachedBounds ==
    ASSUME NEW t, Whole(t), NEW d \in Nat
    PROVE  NextDetached(t, d) \in 0..Len_(t)
<1>1. Len_(t) \in Nat /\ t.ri \in Nat /\ DefaultFirst(t) \in 0..Len_(t)
      BY Fields, DefaultFirstBounds DEF Whole
<1>2. QED  BY <1>1 DEF NextDetached, IsValidIndex

LEMMA ResumeBounds ==
    ASSUME NEW t, Whole(t)
    PROVE  ResumeIndex(t) \in 0..Len_(t)
<1>1. /\ Len_(t) \in Nat /\ t.ri \in Nat /\ t.ci \in Nat
      /\ DefaultFirst(t) \in 0..Len_(t)
      BY Fields, DefaultFirstBounds DEF Whole
<1>2. IsValidIndex(t, t.ci) => NextFrom(t, t.ci, FALSE) \in 0..Len_(t)
      BY NextFromBounds DEF IsValidIndex
<1>3. NextDetached(t, DetachedIndex(t)) \in 0..Len_(t)
      BY DetachedIsNat, NextDetachedBounds DEF Whole
<1>4. CurrentMatches(t) => IsValidIndex(t, t.ci)
      BY DEF CurrentMatches
<1>5. IsValidIndex(t, t.ri) => t.ri \in 0..Len_(t)
      BY <1>1 DEF IsValidIndex
<1>6. IsValidIndex(t, t.ci) => t.ci \in 0..Len_(t)
      BY <1>1 DEF IsValidIndex
<1>7. 0 \in 0..Len_(t)
      BY <1>1
<1> DEFINE n == 0..Len_(t)
<1> HIDE DEF n
<1>8. /\ 0 \in n /\ DefaultFirst(t) \in n /\ NextDetached(t, DetachedIndex(t)) \in n
      /\ IsValidIndex(t, t.ci) => NextFrom(t, t.ci, FALSE) \in n /\ t.ci \in n
      /\ IsValidIndex(t, t.ri) => t.ri \in n
      BY <1>1, <1>2, <1>3, <1>5, <1>6, <1>7 DEF n
<1>9. ResumeIndex(t) \in n
      BY <1>4, <1>8, Zenon DEF ResumeIndex
<1>10. QED  BY <1>9 DEF n

\* The place a walk enters the context at, 0 when nothing is left.
WalkFirst(t) ==
    IF WalkStart(t) <= Len_(t) THEN Order(t)[WalkStart(t)]
    ELSE IF WalkWrap(t) > 0 THEN Order(t)[1] ELSE 0

LEMMA WalkEnters ==
    ASSUME NEW t, Whole(t), Len_(t) # 0
    PROVE  (IF WalkIndices(t) = <<>> THEN 0 ELSE WalkIndices(t)[1]) = WalkFirst(t)
<1>1. Len_(t) \in Nat \ {0}
      BY Fields DEF Whole
<1>2. WalkStart(t) \in 1..(Len_(t) + 1) /\ WalkWrap(t) \in 0..Len_(t)
      BY WalkBounds
<1>3. /\ WalkIndices(t) \in Seq(1..Len_(t))
      /\ Len(WalkIndices(t)) = Len_(t) - WalkStart(t) + 1 + WalkWrap(t)
      /\ WalkStart(t) <= Len_(t) => WalkIndices(t)[1] = Order(t)[WalkStart(t)]
      /\ WalkStart(t) = Len_(t) + 1 /\ WalkWrap(t) > 0 => WalkIndices(t)[1] = Order(t)[1]
      BY WalkLength
<1>4. WalkIndices(t) = <<>> <=> Len(WalkIndices(t)) = 0
      BY <1>3, EmptySeq
<1>5. Len(WalkIndices(t)) = 0 <=> ~(WalkStart(t) <= Len_(t)) /\ ~(WalkWrap(t) > 0)
      BY <1>1, <1>2, <1>3
<1>6. ~(WalkStart(t) <= Len_(t)) => WalkStart(t) = Len_(t) + 1
      BY <1>1, <1>2
<1>7. QED  BY <1>3, <1>4, <1>5, <1>6 DEF WalkFirst

\* Storing another place to resume at leaves the rest of the snapshot as it is.
Stored(t, r) == [t EXCEPT !.ri = r]

LEMMA StoredSame ==
    ASSUME NEW t, Whole(t), NEW r \in Nat
    PROVE  /\ Whole(Stored(t, r)) /\ Stored(t, r).ri = r
           /\ Stored(t, r).kind = t.kind /\ Stored(t, r).ctx = t.ctx
           /\ Stored(t, r).ci = t.ci /\ Stored(t, r).cur = t.cur /\ Stored(t, r).bag = t.bag
           /\ Stored(t, r).user = t.user /\ Stored(t, r).repeat = t.repeat
           /\ Stored(t, r).shuffle = t.shuffle /\ Stored(t, r).anchor = t.anchor
           /\ Len_(Stored(t, r)) = Len_(t) /\ Order(Stored(t, r)) = Order(t)
           /\ CurrentMatches(Stored(t, r)) <=> CurrentMatches(t)
           /\ DetachedIndex(Stored(t, r)) = DetachedIndex(t)
<1> DEFINE u == Stored(t, r)
<1>1. /\ u \in Snapshot /\ u.ri = r
      /\ u.kind = t.kind /\ u.ctx = t.ctx /\ u.ci = t.ci /\ u.cur = t.cur /\ u.bag = t.bag
      /\ u.user = t.user /\ u.repeat = t.repeat /\ u.shuffle = t.shuffle
      /\ u.anchor = t.anchor
      BY DEF Stored, Whole, Snapshot
<1> HIDE DEF u
<1>2. Len_(u) = Len_(t)
      BY <1>1 DEF Len_
<1>3. Whole(u)
      BY <1>1, <1>2 DEF Whole
<1>4. CurrentMatches(u) <=> CurrentMatches(t)
      BY <1>1, <1>2 DEF CurrentMatches, IsValidIndex
<1>5. DetachedIndex(u) = DetachedIndex(t)
      BY <1>1, <1>4 DEF DetachedIndex
<1>6. Order(u) = Order(t)
  <2>1. CASE t.shuffle
    <3>1. EffectiveCycle(u) = u.bag /\ EffectiveCycle(t) = t.bag
          BY <1>1, <1>2, <1>3, <2>1 DEF Whole, EffectiveCycle
    <3>2. QED  BY <1>1, <2>1, <3>1 DEF Order
  <2>2. CASE ~t.shuffle
        BY <1>1, <1>2, <2>2 DEF Order
  <2>3. QED  BY <2>1, <2>2
<1>7. QED  BY <1>1, <1>2, <1>3, <1>4, <1>5, <1>6 DEF u

LEMMA NextFromIsFirst ==
    ASSUME NEW t, Whole(t), CurrentMatches(t), t.repeat # "one"
    PROVE  NextFrom(t, t.ci, FALSE) = WalkFirst(t)
<1>1. t.ci \in 1..Len_(t) /\ IsValidIndex(t, t.ci) /\ Len_(t) \in Nat \ {0}
      BY Fields DEF CurrentMatches, IsValidIndex, Whole
<1>2. IndexIn(Order(t), t.ci) \in 1..Len_(t)
      BY <1>1, OrderPlaces
<1>3. WalkStart(t) = IndexIn(Order(t), t.ci) + 1
      BY DEF WalkStart
<1>4. NextFrom(t, t.ci, FALSE) =
         IF IndexIn(Order(t), t.ci) < Len_(t) THEN Order(t)[IndexIn(Order(t), t.ci) + 1]
         ELSE IF t.repeat = "all" THEN Order(t)[1] ELSE 0
      BY <1>1 DEF NextFrom
<1>5. ~(WalkStart(t) <= Len_(t)) => (WalkWrap(t) > 0 <=> t.repeat = "all")
      BY <1>1, <1>2, <1>3 DEF WalkWrap
<1>6. WalkStart(t) <= Len_(t) <=> IndexIn(Order(t), t.ci) < Len_(t)
      BY <1>1, <1>2, <1>3
<1>7. CASE WalkStart(t) <= Len_(t)
      BY <1>3, <1>4, <1>6, <1>7 DEF WalkFirst
<1>8. CASE ~(WalkStart(t) <= Len_(t))
      BY <1>4, <1>5, <1>6, <1>8 DEF WalkFirst
<1>9. QED  BY <1>7, <1>8

\* A place to resume at that is one of the context is where the walk enters it.
LEMMA ValidResumeIsFirst ==
    ASSUME NEW t, Whole(t), ~CurrentMatches(t), IsValidIndex(t, t.ri),
           t.shuffle \/ DetachedIndex(t) = 0
    PROVE  WalkFirst(t) = t.ri
<1>1. t.ri \in 1..Len_(t) /\ Len_(t) \in Nat \ {0}
      BY Fields DEF IsValidIndex, Whole
<1>2. CASE t.shuffle
  <2>1. WalkStart(t) = IndexIn(Order(t), t.ri)
        BY <1>2 DEF WalkStart
  <2>2. QED  BY <1>1, <2>1, OrderPlaces DEF WalkFirst
<1>3. CASE ~t.shuffle
  <2>1. WalkStart(t) = t.ri
        BY <1>1, <1>3 DEF WalkStart, FirstUpcomingIndex
  <2>2. QED  BY <1>1, <1>3, <2>1, OrderPlaces DEF WalkFirst
<1>4. QED  BY <1>2, <1>3

\* What is stored as the place to resume is where the walk enters the context,
\* but for repeat-one, an entry left behind, and a queued entry with nothing after it.
Resumes(t) ==
    IF t.repeat # "one" /\ Len_(t) > 0
       /\ ~(t.cur # None /\ t.cur.origin = "queued" /\ t.ri = 0)
       /\ ~(t.cur # None /\ t.cur.origin = "context" /\ t.cur.index = 0)
    THEN t.ri = WalkFirst(t) ELSE TRUE

LEMMA StoredResumes ==
    ASSUME NEW t, Whole(t)
    PROVE  Resumes(Stored(t, ResumeIndex(t)))
<1> DEFINE r == ResumeIndex(t)
           u == Stored(t, r)
<1>1. r \in 0..Len_(t) /\ Len_(t) \in Nat
      BY ResumeBounds, Fields DEF Whole
<1>2. r \in Nat
      BY <1>1
<1>3. /\ Whole(u) /\ u.ri = r /\ u.kind = t.kind /\ u.ctx = t.ctx /\ u.ci = t.ci
      /\ u.cur = t.cur /\ u.repeat = t.repeat /\ u.shuffle = t.shuffle
      /\ Len_(u) = Len_(t) /\ Order(u) = Order(t)
      /\ CurrentMatches(u) <=> CurrentMatches(t)
      /\ DetachedIndex(u) = DetachedIndex(t)
      BY <1>2, StoredSame
<1> HIDE DEF u
<1>4. SUFFICES ASSUME t.repeat # "one", Len_(t) > 0,
                      ~(t.cur # None /\ t.cur.origin = "queued" /\ r = 0),
                      ~(t.cur # None /\ t.cur.origin = "context" /\ t.cur.index = 0)
               PROVE  r = WalkFirst(u)
  <2>1. QED  BY <1>3 DEF Resumes, u
<1>5. Len_(t) # 0 /\ t.shuffle \in BOOLEAN /\ 1 \in 1..Len_(t)
      BY <1>1, <1>4, Fields DEF Whole
<1>6. CASE CurrentMatches(t)
  <2>1. r = NextFrom(t, t.ci, FALSE)
        BY <1>5, <1>6 DEF ResumeIndex
  <2>2. NextFrom(t, t.ci, FALSE) = WalkFirst(t)
        BY <1>4, <1>6, NextFromIsFirst
  <2>3. WalkStart(u) = WalkStart(t)
        BY <1>3, <1>6 DEF WalkStart
  <2>4. WalkWrap(u) = WalkWrap(t)
        BY <1>3, <2>3 DEF WalkWrap
  <2>5. WalkFirst(u) = WalkFirst(t)
        BY <1>3, <2>3, <2>4 DEF WalkFirst
  <2>6. QED  BY <2>1, <2>2, <2>5
<1>7. CASE ~CurrentMatches(t) /\ DetachedIndex(t) # 0
  <2>1. r = NextDetached(t, DetachedIndex(t)) /\ DetachedIndex(t) \in Nat
        BY <1>5, <1>7, DetachedIsNat DEF ResumeIndex, Whole
  <2>2. CASE t.shuffle
    <3>1. r = IF IsValidIndex(t, t.ri) THEN t.ri ELSE DefaultFirst(t)
          BY <1>5, <2>1, <2>2 DEF NextDetached
    <3>2. r \in 1..Len_(t)
          BY <1>5, <3>1, DefaultFirstBounds DEF IsValidIndex
    <3>3. IsValidIndex(u, u.ri)
          BY <1>3, <3>2 DEF IsValidIndex
    <3>4. QED  BY <1>3, <1>7, <2>2, <3>3, ValidResumeIsFirst
  <2>3. CASE ~t.shuffle
    <3> DEFINE d == DetachedIndex(t)
    <3>1. r = IF d <= Len_(t) THEN d ELSE IF t.repeat = "all" THEN 1 ELSE 0
          BY <1>5, <1>7, <2>1, <2>3 DEF NextDetached
    <3>2. NextDetached(u, d) = r
          BY <1>3, <1>5, <1>7, <2>3, <3>1 DEF NextDetached
    <3>3. WalkStart(u) = IF r = 0 THEN Len_(t) + 1 ELSE r
          BY <1>3, <1>5, <1>7, <2>3, <3>2 DEF WalkStart, FirstUpcomingIndex
    <3>4. \A k \in 1..Len_(t) : Order(t)[k] = k
          BY <2>3, OrderPlaces
    <3>5. CASE r = 0
      <4>1. t.repeat # "all"
            BY <1>7, <2>1, <3>1, <3>5
      <4>2. WalkWrap(u) = 0
            BY <1>3, <4>1 DEF WalkWrap
      <4>3. QED  BY <1>1, <1>3, <3>3, <3>5, <4>2 DEF WalkFirst
    <3>6. CASE r # 0
      <4>1. r \in 1..Len_(t)
            BY <1>1, <3>6
      <4>2. WalkStart(u) <= Len_(u) /\ Order(u)[WalkStart(u)] = r
            BY <1>1, <1>3, <3>3, <3>4, <3>6, <4>1
      <4>3. QED  BY <4>2 DEF WalkFirst
    <3>7. QED  BY <3>5, <3>6
  <2>4. QED  BY <1>5, <2>2, <2>3
<1>8. CASE ~CurrentMatches(t) /\ DetachedIndex(t) = 0
  <2>1. r \in 1..Len_(t)
    <3>1. CASE t.cur # None /\ t.cur.origin # "context" /\ IsValidIndex(t, t.ci)
      <4>1. t.cur \in Entry
            BY <3>1, Fields DEF Whole
      <4>2. t.cur.origin = "queued"
            BY <3>1, <4>1 DEF Entry
      <4>3. QED  BY <1>1, <1>4, <3>1, <4>2
    <3>2. CASE ~(t.cur # None /\ t.cur.origin # "context" /\ IsValidIndex(t, t.ci))
      <4>1. r = IF IsValidIndex(t, t.ri) THEN t.ri
                ELSE IF t.cur = None /\ IsValidIndex(t, t.ci) THEN t.ci
                ELSE DefaultFirst(t)
            BY <1>5, <1>8, <3>2 DEF ResumeIndex
      <4>2. QED  BY <1>5, <4>1, DefaultFirstBounds DEF IsValidIndex
    <3>3. QED  BY <3>1, <3>2
  <2>2. IsValidIndex(u, u.ri)
        BY <1>3, <2>1 DEF IsValidIndex
  <2>3. QED  BY <1>3, <1>8, <2>2, ValidResumeIsFirst
<1>9. QED  BY <1>6, <1>7, <1>8

\* A new context begins where it is resumed, unless the current entry was of the old one.
LEMMA FreshResumes ==
    ASSUME NEW t, Whole(t), IsValidIndex(t, t.ri),
           t.cur = None \/ t.cur.origin = "queued" \/ t.cur.index = 0
    PROVE  Resumes(t)
<1>1. SUFFICES ASSUME ~(t.cur # None /\ t.cur.origin = "context" /\ t.cur.index = 0)
               PROVE  t.ri = WalkFirst(t)
      BY DEF Resumes
<1>2. t.cur = None \/ t.cur.origin # "context"
  <2>1. t.cur # None => t.cur.origin \in {"context", "queued"}
        BY Fields DEF Whole, Entry
  <2>2. QED  BY <1>1, <2>1
<1>3. ~CurrentMatches(t) /\ DetachedIndex(t) = 0
      BY <1>2 DEF CurrentMatches, DetachedIndex
<1>4. QED  BY <1>3, ValidResumeIsFirst

\* Between the entry before and the one after lies at most the current one.
LEMMA GapOfWhole ==
    ASSUME Whole(s)
    PROVE  NoGap
<1>1. SUFFICES ASSUME ~s.shuffle, s.repeat = "off", PreviousIndex(s) # 0,
                      s.cur.origin = "context"
               PROVE  FirstUpcomingIndex(s) =
                         PreviousIndex(s) + (IF CurrentMatches(s) THEN 2 ELSE 1)
      BY DEF NoGap
<1>2. /\ Len_(s) \in Nat /\ s.ci \in Nat /\ DetachedIndex(s) \in Nat
      BY Fields, DetachedIsNat DEF Whole
<1>3. Len_(s) # 0 /\ s.cur # None
      BY <1>1 DEF PreviousIndex
<1>4. CASE CurrentMatches(s)
  <2>1. PreviousIndex(s) = PreviousFrom(s, s.ci)
        BY <1>1, <1>3, <1>4 DEF PreviousIndex
  <2>2. s.ci \in 1..Len_(s) /\ IsValidIndex(s, s.ci) /\ IndexIn(Order(s), s.ci) = s.ci
        BY <1>1, <1>4, OrderPlaces DEF CurrentMatches, IsValidIndex
  <2>3. s.ci > 1 /\ PreviousFrom(s, s.ci) = Order(s)[s.ci - 1]
        BY <1>1, <2>1, <2>2 DEF PreviousFrom
  <2>4. s.ci - 1 \in 1..Len_(s)
        BY <1>2, <2>2, <2>3
  <2>5. Order(s)[s.ci - 1] = s.ci - 1
        BY <1>1, <2>4, OrderPlaces
  <2>6. FirstUpcomingIndex(s) = s.ci + 1
        BY <1>3, <1>4 DEF FirstUpcomingIndex
  <2>7. QED  BY <1>2, <1>4, <2>1, <2>3, <2>5, <2>6
<1>5. CASE ~CurrentMatches(s)
  <2> DEFINE d == DetachedIndex(s)
             n == Len_(s)
  <2>1. d # 0 /\ PreviousIndex(s) = PreviousDetached(s, d)
        BY <1>1, <1>3, <1>5 DEF PreviousIndex
  <2>2. PreviousDetached(s, d) =
           IF d <= 1 THEN 0 ELSE IF d > n + 1 THEN n ELSE d - 1
        BY <1>1, <1>3 DEF PreviousDetached
  <2>3. NextDetached(s, d) = IF d <= n THEN d ELSE 0
        BY <1>1, <1>2, <1>3, <2>1 DEF NextDetached
  <2>4. FirstUpcomingIndex(s) =
           IF NextDetached(s, d) = 0 THEN n + 1 ELSE NextDetached(s, d)
        BY <1>3, <1>5, <2>1 DEF FirstUpcomingIndex
  <2>5. PreviousIndex(s) = IF d > n + 1 THEN n ELSE d - 1
        BY <1>1, <2>1, <2>2
  <2>6. FirstUpcomingIndex(s) = IF d <= n THEN d ELSE n + 1
        BY <2>1, <2>3, <2>4
  <2>7. d > 1
        BY <1>1, <1>2, <2>1, <2>2
  <2>8. QED  BY <1>2, <1>5, <2>5, <2>6, <2>7
<1>6. QED  BY <1>4, <1>5

-----------------------------------------------------------------------------
(* Lemmas about the changes of a snapshot                                   *)

\* The entry, where it says it is of the context and still is in it, is at its index.
Fits(entry, ctx) ==
    IF entry.origin = "context" /\ entry.index # 0 /\ entry.id \in Range(ctx)
    THEN entry.index \in 1..Len(ctx) /\ ctx[entry.index] = entry.id ELSE TRUE

\* The current entry is at its index, and the session is at that place.
Tracked(t) ==
    IF t.cur # None /\ t.cur.origin = "context" /\ t.cur.index # 0 /\ t.cur.id \in Range(t.ctx)
    THEN t.ci = t.cur.index /\ t.ci \in 1..Len(t.ctx) /\ t.ctx[t.ci] = t.cur.id ELSE TRUE

LEMMA RemoveAtType ==
    ASSUME NEW S, NEW q \in Seq(S), NEW i \in DOMAIN q
    PROVE  RemoveAt(q, i) \in Seq(S)
<1>1. Len(q) \in Nat /\ i \in 1..Len(q) /\ \A j \in 1..Len(q) : q[j] \in S
      BY LenProperties, ElementOfSeq
<1>2. SubSeq(q, 1, i - 1) \in Seq(S)
  <2>1. \A j \in 1..(i - 1) : q[j] \in S
        BY <1>1
  <2>2. QED  BY <1>1, <2>1, SubSeqProperties
<1>3. SubSeq(q, i + 1, Len(q)) \in Seq(S)
  <2>1. \A j \in (i + 1)..Len(q) : q[j] \in S
        BY <1>1
  <2>2. QED  BY <1>1, <2>1, SubSeqProperties
<1>4. QED  BY <1>2, <1>3, ConcatProperties DEF RemoveAt

LEMMA AnswerProperties ==
    ASSUME NEW f \in Answer
    PROVE  /\ f.list \in Seq(Tracks) /\ f.list \in Seq(Tracks \cup Plain)
           /\ f.start \in Nat /\ f.start \in 1..Len(f.list)
           /\ Len(f.list) \in Nat /\ f.list # <<>> /\ f # NoSource
           /\ f.list[f.start] \in Tracks
<1>1. f.list \in Seq(Tracks) /\ f.start \in Nat /\ f.start \in 1..Len(f.list)
      BY DEF Answer
<1>2. Tracks \subseteq Tracks \cup Plain
      OBVIOUS
<1>3. f.list \in Seq(Tracks \cup Plain)
      BY <1>1, <1>2, SeqMonotonic
<1>4. Len(f.list) \in Nat
      BY <1>1, LenProperties
<1>5. f.list # <<>>
  <2>1. Len(<<>>) = 0
        BY EmptySeq
  <2>2. QED  BY <1>1, <2>1
<1>6. f # NoSource
      BY <1>5 DEF NoSource
<1>7. QED  BY <1>1, <1>3, <1>4, <1>5, <1>6, ElementOfSeq

\* An enumeration answers with the list it was given, or with an error.
LEMMA EnumeratedAnswers ==
    ASSUME NEW list \in Seq(Tracks), NEW anchor, Enumerated(list, anchor) # NoSource
    PROVE  Enumerated(list, anchor) \in Answer /\ Enumerated(list, anchor).list = list
<1>1. list # <<>>
      BY DEF Enumerated
<1>2. Len(list) \in Nat \ {0}
      BY <1>1, EmptySeq
<1>3. CASE anchor = None
  <2>1. Enumerated(list, anchor) = [list |-> list, start |-> 1]
        BY <1>1, <1>3 DEF Enumerated
  <2>2. 1 \in 1..Len(list)
        BY <1>2
  <2>3. QED  BY <2>1, <2>2 DEF Answer
<1>4. CASE anchor # None /\ anchor \in Range(list)
  <2>1. Enumerated(list, anchor) = [list |-> list, start |-> IndexIn(list, anchor)]
        BY <1>1, <1>4 DEF Enumerated
  <2>2. IndexIn(list, anchor) \in 1..Len(list)
        BY <1>4, IndexInProperties
  <2>3. IndexIn(list, anchor) \in Nat
        BY <1>2, <2>2
  <2>4. QED  BY <2>1, <2>2, <2>3 DEF Answer
<1>5. CASE anchor # None /\ anchor \notin Range(list)
      BY <1>1, <1>5 DEF Enumerated
<1>6. QED  BY <1>3, <1>4, <1>5

LEMMA RebuildAnswers ==
    ASSUME NEW list \in Seq(Tracks), NEW cur, NEW anchor,
           RebuildEnumerated(list, cur, anchor) # NoSource
    PROVE  /\ RebuildEnumerated(list, cur, anchor) \in Answer
           /\ RebuildEnumerated(list, cur, anchor).list = list
BY EnumeratedAnswers DEF RebuildEnumerated

\* A new context with its start.
NewContext(kind, list, start, shuffle, bag) ==
    /\ kind \in {"plain", "live"} /\ shuffle \in BOOLEAN
    /\ list \in Seq(Tracks \cup Plain) /\ start \in Nat
    /\ list # <<>> => start \in 1..Len(list)
    /\ kind = "live" => list # <<>>
    /\ bag \in Seq(Nat) /\ (shuffle => IsCycle(bag, Len(list)))

LEMMA ReplacedWhole ==
    ASSUME NEW t, Whole(t), NEW kind, NEW list, NEW start, NEW shuffle, NEW bag,
           NewContext(kind, list, start, shuffle, bag)
    PROVE  LET r == Replaced(t, kind, list, start, shuffle, bag)
           IN  /\ Whole(r) /\ r.kind = kind /\ r.ctx = list /\ r.cur = t.cur
               /\ r.ci = start /\ r.repeat = t.repeat
               /\ list # <<>> => IsValidIndex(r, r.ri)
<1> DEFINE r == Replaced(t, kind, list, start, shuffle, bag)
<1>1. list \in Seq(Tracks \cup Plain) /\ start \in Nat /\ bag \in Seq(Nat)
      BY DEF NewContext
<1>2. (IF kind = "live" THEN list[start] ELSE None) \in OrNone(Tracks \cup Plain)
      BY ElementOfSeq DEF NewContext, OrNone
<1>3. <<>> \in Seq(Queued)
      BY EmptySeq
<1>4. /\ r \in Snapshot /\ r.kind = kind /\ r.ctx = list /\ r.cur = t.cur /\ r.ci = start
      /\ r.bag = bag /\ r.shuffle = shuffle /\ r.repeat = t.repeat
      /\ r.ri = IF list = <<>> THEN 0 ELSE start
      BY <1>1, <1>2, <1>3 DEF NewContext, Whole, Snapshot, Replaced
<1> HIDE DEF r
<1>5. Len_(r) = Len(list)
      BY <1>4 DEF Len_
<1>6. Whole(r)
      BY <1>4, <1>5 DEF Whole, NewContext
<1>7. list # <<>> => IsValidIndex(r, r.ri)
      BY <1>4, <1>5 DEF NewContext, IsValidIndex
<1>8. QED  BY <1>4, <1>6, <1>7 DEF r

LEMMA DetachedWhole ==
    ASSUME NEW t, Whole(t)
    PROVE  /\ Whole(Detached(t))
           /\ \/ Detached(t).cur = None
              \/ Detached(t).cur.origin = "queued"
              \/ Detached(t).cur.index = 0
<1>1. t.cur # None => t.cur \in Entry
      BY Fields DEF Whole
<1>2. CASE t.cur = None \/ t.cur.origin # "context"
      BY <1>1, <1>2 DEF Detached, Entry
<1>3. CASE ~(t.cur = None \/ t.cur.origin # "context")
  <2> DEFINE c == [t.cur EXCEPT !.index = 0]
  <2>1. c \in Entry /\ c.index = 0
        BY <1>1, <1>3 DEF Entry
  <2>2. Detached(t) = [t EXCEPT !.cur = c]
        BY <1>3 DEF Detached
  <2> HIDE DEF c
  <2>3. [t EXCEPT !.cur = c] \in Snapshot /\ [t EXCEPT !.cur = c].cur = c
        BY <2>1 DEF Whole, Snapshot, OrNone
  <2>4. /\ [t EXCEPT !.cur = c].bag = t.bag /\ [t EXCEPT !.cur = c].ctx = t.ctx
        /\ [t EXCEPT !.cur = c].kind = t.kind /\ [t EXCEPT !.cur = c].shuffle = t.shuffle
        BY DEF Whole, Snapshot
  <2>5. Whole([t EXCEPT !.cur = c])
        BY <2>3, <2>4 DEF Whole, Len_
  <2>6. QED  BY <2>1, <2>2, <2>3, <2>5
<1>4. QED  BY <1>2, <1>3

LEMMA SwitchedWhole ==
    ASSUME NEW t, Whole(t), NEW entry \in Entry, NEW q \in Nat
    PROVE  LET u == SwitchCurrent(t, entry, q)
           IN  /\ Whole(u) /\ Resumes(u)
               /\ u.kind = t.kind /\ u.ctx = t.ctx /\ u.cur = entry
               /\ entry.origin = "context" /\ t.kind # "none" => u.ci = entry.index
<1> DEFINE user == IF entry.origin = "queued" /\ q \in DOMAIN t.user THEN RemoveAt(t.user, q)
                   ELSE t.user
           ci == IF entry.origin = "context" /\ t.kind # "none" THEN entry.index ELSE t.ci
           taken == [t EXCEPT !.user = user, !.cur = entry, !.ci = ci]
<1>1. SwitchCurrent(t, entry, q) = Stored(taken, ResumeIndex(taken))
      BY DEF SwitchCurrent, Stored
<1>2. user \in Seq(Queued)
      BY RemoveAtType, Fields DEF Whole
<1>3. ci \in Nat
      BY Fields DEF Whole, Entry
<1>4. ci = IF entry.origin = "context" /\ t.kind # "none" THEN entry.index ELSE t.ci
      OBVIOUS
<1> HIDE DEF user, ci
<1>5. /\ taken \in Snapshot /\ taken.kind = t.kind /\ taken.ctx = t.ctx /\ taken.cur = entry
      /\ taken.ci = ci /\ taken.bag = t.bag /\ taken.shuffle = t.shuffle
      BY <1>2, <1>3 DEF Whole, Snapshot, OrNone
<1> HIDE DEF taken
<1>6. Whole(taken)
      BY <1>5 DEF Whole, Len_
<1>7. ResumeIndex(taken) \in Nat
  <2>1. ResumeIndex(taken) \in 0..Len_(taken) /\ Len_(taken) \in Nat
        BY <1>6, ResumeBounds, Fields DEF Whole
  <2>2. QED  BY <2>1
<1>8. Resumes(Stored(taken, ResumeIndex(taken)))
      BY <1>6, StoredResumes
<1>9. QED  BY <1>1, <1>4, <1>5, <1>6, <1>7, <1>8, StoredSame

\* A rebuilt context is the one that was enumerated, and the session is at its
\* current entry or goes on from where it would have resumed.
LEMMA RebuiltWhole ==
    ASSUME NEW t, Whole(t), t.kind = "live", NEW found \in Answer,
           NEW bag \in Seq(Nat), t.shuffle => IsCycle(bag, Len(found.list))
    PROVE  LET u == Rebuilt(t, found, bag)
           IN  Whole(u) /\ Resumes(u) /\ Tracked(u) /\ u.kind = "live" /\ u.ctx = found.list
<1>1. /\ found.list \in Seq(Tracks \cup Plain) /\ found.start \in Nat
      /\ found.start \in 1..Len(found.list) /\ Len(found.list) \in Nat
      /\ found.list[found.start] \in Tracks
      BY AnswerProperties
<1> DEFINE n == Len(found.list)
           isContext == t.cur # None /\ t.cur.origin = "context"
           at == IF isContext THEN IndexIn(found.list, t.cur.id) ELSE 0
           t1 == [t EXCEPT !.ctx = found.list, !.anchor = found.list[found.start],
                           !.bag = bag, !.ci = found.start, !.ri = found.start]
           ci == CASE at # 0 -> at
                   [] at = 0 /\ t.ri \in 1..n -> t.ri
                   [] OTHER -> found.start
           cur == IF at = 0 THEN t.cur ELSE EntryAt(t1, at)
           t2 == [t1 EXCEPT !.ci = ci, !.cur = cur]
<1>2. Rebuilt(t, found, bag) = Stored(t2, ResumeIndex(t2))
  <2>1. /\ t1.ci = found.start /\ t1.cur = t.cur
        BY DEF Whole, Snapshot
  <2>2. QED  BY <2>1 DEF Rebuilt, Stored
<1>3. /\ t1 \in Snapshot /\ t1.kind = "live" /\ t1.ctx = found.list /\ t1.cur = t.cur
      /\ t1.bag = bag /\ t1.shuffle = t.shuffle
      BY <1>1 DEF Whole, Snapshot, OrNone
<1>4. /\ at \in 0..n /\ at \in Nat
      /\ at # 0 => at \in 1..n /\ isContext /\ found.list[at] = t.cur.id
      /\ isContext /\ at = 0 => t.cur.id \notin Range(found.list)
  <2>1. CASE isContext
    <3>1. /\ IndexIn(found.list, t.cur.id) \in 0..n
          /\ t.cur.id \in Range(found.list) =>
                /\ IndexIn(found.list, t.cur.id) \in 1..n
                /\ found.list[IndexIn(found.list, t.cur.id)] = t.cur.id
          /\ t.cur.id \notin Range(found.list) => IndexIn(found.list, t.cur.id) = 0
          BY <1>1, IndexInProperties
    <3>2. QED  BY <1>1, <2>1, <3>1
  <2>2. CASE ~isContext
        BY <1>1, <2>2
  <2>3. QED  BY <2>1, <2>2
<1>5. ci \in Nat /\ (at # 0 => ci = at)
      BY <1>1, <1>4
<1>6. cur \in OrNone(Entry) /\ (at # 0 => cur = EntryAt(t1, at)) /\ (at = 0 => cur = t.cur)
  <2>1. CASE at = 0
        BY <2>1, Fields DEF Whole
  <2>2. CASE at # 0
    <3>1. Len_(t1) = n
          BY <1>3 DEF Len_
    <3>2. EntryAt(t1, at) \in Entry
          BY <1>3, <1>4, <2>2, <3>1, EntryAtType
    <3>3. QED  BY <2>2, <3>2 DEF OrNone
  <2>3. QED  BY <2>1, <2>2
<1> HIDE DEF t1, ci, cur
<1>7. /\ t2 \in Snapshot /\ t2.kind = "live" /\ t2.ctx = found.list /\ t2.cur = cur
      /\ t2.ci = ci /\ t2.bag = bag /\ t2.shuffle = t.shuffle
      BY <1>3, <1>5, <1>6 DEF Snapshot
<1> HIDE DEF t2
<1>8. Whole(t2)
      BY <1>7 DEF Whole, Len_
<1>9. ResumeIndex(t2) \in Nat
  <2>1. ResumeIndex(t2) \in 0..Len_(t2) /\ Len_(t2) \in Nat
        BY <1>8, ResumeBounds, Fields DEF Whole
  <2>2. QED  BY <2>1
<1> DEFINE u == Stored(t2, ResumeIndex(t2))
<1>10. /\ Whole(u) /\ Resumes(u) /\ u.kind = "live" /\ u.ctx = found.list
       /\ u.cur = cur /\ u.ci = ci
      BY <1>7, <1>8, <1>9, StoredSame, StoredResumes
<1> HIDE DEF u
<1>11. Tracked(u)
  <2>1. CASE at # 0
    <3>1. cur.index = at /\ cur.id = found.list[at]
          BY <1>3, <1>6, <2>1 DEF EntryAt
    <3>2. QED  BY <1>4, <1>5, <1>10, <2>1, <3>1 DEF Tracked
  <2>2. CASE at = 0
    <3>1. u.cur = t.cur
          BY <1>6, <1>10, <2>2
    <3>2. isContext => t.cur.id \notin Range(u.ctx)
          BY <1>4, <1>10, <2>2
    <3>3. QED  BY <3>1, <3>2 DEF Tracked
  <2>3. QED  BY <2>1, <2>2
<1>12. QED  BY <1>2, <1>10, <1>11 DEF u

\* What is persisted is a snapshot that resumes where the session was.
LEMMA PersistedWhole ==
    ASSUME NEW t, Whole(t)
    PROVE  LET u == Persisted(t)
           IN  /\ Whole(u) /\ Resumes(u) /\ u.cur = t.cur
               /\ u.kind = "live" <=> t.kind = "live"
               /\ u.kind # "live" => u.ctx = t.ctx /\ (u.ctx = <<>> \/ u.ci = t.ci)
               /\ u.kind = "live" => u.ctx = <<>>
<1> DEFINE ri == IF Len_(t) = 0 THEN t.ri ELSE ResumeIndex(t)
           kept == [t EXCEPT !.ri = ri]
<1>1. t.kind \in {"none", "plain", "live"} /\ Len_(t) \in Nat /\ t.ri \in Nat
      BY Fields DEF Whole
<1>2. ri \in Nat
  <2>1. ResumeIndex(t) \in 0..Len_(t)
        BY ResumeBounds
  <2>2. QED  BY <1>1, <2>1
<1>3. kept = Stored(t, ri)
      BY DEF Stored
<1>4. /\ Whole(kept) /\ kept.kind = t.kind /\ kept.ctx = t.ctx /\ kept.ci = t.ci
      /\ kept.cur = t.cur /\ kept.shuffle = t.shuffle /\ Len_(kept) = Len_(t)
      BY <1>2, <1>3, StoredSame
<1>5. Len_(t) # 0 => Resumes(kept)
  <2>1. Len_(t) # 0 => kept = Stored(t, ResumeIndex(t))
        BY <1>3
  <2>2. QED  BY <2>1, StoredResumes
<1>6. Persisted(t) =
         CASE t.kind = "live" -> [kept EXCEPT !.ctx = <<>>, !.bag = <<>>]
           [] t.kind = "plain" /\ Len_(t) = 0 ->
                 [kept EXCEPT !.kind = "none", !.ci = 0, !.ri = 0, !.bag = <<>>]
           [] OTHER -> kept
      BY DEF Persisted
<1>7. Len_(t) = 0 <=> t.ctx = <<>>
      BY Fields, EmptySeq DEF Len_, Whole
<1>8. /\ <<>> \in Seq(Tracks \cup Plain) /\ <<>> \in Seq(Nat)
      /\ IsCycle(<<>>, 0) /\ Len(<<>>) = 0
  <2>1. Range(<<>>) = 1..0
        BY DEF Range
  <2>2. QED  BY <2>1, EmptySeq DEF IsCycle
<1> HIDE DEF kept
<1>9. CASE t.kind = "live"
  <2> DEFINE u == [kept EXCEPT !.ctx = <<>>, !.bag = <<>>]
  <2>1. Persisted(t) = u
        BY <1>6, <1>9
  <2>2. /\ u \in Snapshot /\ u.kind = "live" /\ u.ctx = <<>> /\ u.bag = <<>> /\ u.cur = t.cur
        BY <1>4, <1>8, <1>9 DEF Whole, Snapshot
  <2> HIDE DEF u
  <2>3. Len_(u) = 0
        BY <1>8, <2>2 DEF Len_
  <2>4. Whole(u)
        BY <1>8, <2>2, <2>3 DEF Whole
  <2>5. Resumes(u)
        BY <2>3 DEF Resumes
  <2>6. QED  BY <1>9, <2>1, <2>2, <2>4, <2>5
<1>10. CASE t.kind = "plain" /\ Len_(t) = 0
  <2> DEFINE u == [kept EXCEPT !.kind = "none", !.ci = 0, !.ri = 0, !.bag = <<>>]
  <2>1. Persisted(t) = u
        BY <1>6, <1>10
  <2>2. /\ u \in Snapshot /\ u.kind = "none" /\ u.ctx = t.ctx /\ u.bag = <<>> /\ u.cur = t.cur
        BY <1>4, <1>8 DEF Whole, Snapshot
  <2> HIDE DEF u
  <2>3. Len_(u) = 0 /\ u.ctx = <<>>
        BY <1>7, <1>10, <2>2 DEF Len_
  <2>4. Whole(u)
        BY <1>8, <2>2, <2>3 DEF Whole
  <2>5. Resumes(u)
        BY <2>3 DEF Resumes
  <2>6. QED  BY <1>10, <2>1, <2>2, <2>3, <2>4, <2>5
<1>11. CASE ~(t.kind = "live") /\ ~(t.kind = "plain" /\ Len_(t) = 0)
  <2>1. Persisted(t) = kept
        BY <1>6, <1>11
  <2>2. Len_(t) = 0 => Resumes(kept)
        BY <1>4 DEF Resumes
  <2>3. QED  BY <1>4, <1>5, <1>11, <2>1, <2>2
<1>12. QED  BY <1>9, <1>10, <1>11

-----------------------------------------------------------------------------
(* What the commands choose                                                 *)

LEMMA TypeWhole ==
    ASSUME QueueTypeOK
    PROVE  Whole(s) /\ s \in Snapshot
BY DEF QueueTypeOK, Whole

\* A plain context of new ids does not hold the entry that is current.
LEMMA FreshPlainProperties ==
    ASSUME NEW n \in Nat, NEW list \in FreshPlain(n)
    PROVE  /\ list \in Seq(Tracks \cup Plain) /\ Len(list) = n
           /\ IdOf(s.cur) \notin Range(list)
<1> DEFINE free == Plain \ (Range(s.ctx) \cup {IdOf(s.cur), IF play = None THEN None ELSE play.entry.id})
<1>1. n <= Cardinality(free) /\ list = CHOOSE l \in [1 .. n -> free] : IsInjective(l)
      BY DEF FreshPlain
<1>2. IsFiniteSet(free)
      BY QueueConstants, FS_Subset
<1>3. free \subseteq Plain /\ IdOf(s.cur) \notin free
      OBVIOUS
<1> HIDE DEF free
<1>4. PICK m \in Nat : ExistsBijection(1..m, free)
      BY <1>2, FS_NatBijection
<1>5. PICK f \in Bijection(1..m, free) : TRUE
      BY <1>4 DEF ExistsBijection
<1>6. f \in [1..m -> free] /\ \A i, j \in 1..m : f[i] = f[j] => i = j
      BY <1>5 DEF Bijection, Injection, IsInjective
<1>7. Cardinality(free) = m
      BY <1>2, <1>4, FS_CountingElements
<1>8. \E l \in [1..n -> free] : IsInjective(l)
  <2> DEFINE l == [i \in 1..n |-> f[i]]
  <2>1. \A i \in 1..n : i \in 1..m
        BY <1>1, <1>7
  <2>2. l \in [1..n -> free]
        BY <1>6, <2>1
  <2>3. IsInjective(l)
        BY <1>6, <2>1 DEF IsInjective
  <2>4. QED  BY <2>2, <2>3
<1>9. list \in [1..n -> free]
      BY <1>1, <1>8
<1>10. list \in [1..n -> Tracks \cup Plain]
      BY <1>3, <1>9
<1>11. list \in Seq(Tracks \cup Plain) /\ Len(list) = n
      BY <1>10, FunctionIsSeq
<1>12. IdOf(s.cur) \notin Range(list)
      BY <1>3, <1>9 DEF Range
<1>13. QED  BY <1>11, <1>12

\* An entry that a command may choose.
Choosable(e) ==
    /\ e \in Entry
    /\ e = s.cur \/ e.origin = "queued" \/ \E i \in 1..Len_(s) : e = EntryAt(s, i)

LEMMA ContextChoosable ==
    ASSUME QueueTypeOK, NEW i \in 1..Len_(s)
    PROVE  Choosable(EntryAt(s, i))
BY TypeWhole, EntryAtType DEF Choosable

LEMMA QueuedChoosable ==
    ASSUME QueueTypeOK, NEW i \in DOMAIN s.user
    PROVE  Choosable(QueuedEntry(s.user[i])) /\ i \in Nat
<1>1. s.user \in Seq(Queued)
      BY TypeWhole, Fields
<1>2. i \in 1..Len(s.user) /\ i \in Nat
      BY <1>1, LenProperties
<1>3. QueuedEntry(s.user[i]) \in Entry
      BY <1>2, TypeWhole, QueuedEntriesType
<1>4. QED  BY <1>2, <1>3 DEF Choosable, QueuedEntry

LEMMA NextWalkChoosable ==
    ASSUME QueueTypeOK, NextWalk(s) # <<>>
    PROVE  Choosable(NextWalk(s)[1])
<1> DEFINE G == {e \in Entry : Choosable(e)}
           r == IF s.repeat = "one" /\ s.cur # None THEN <<s.cur>> ELSE <<>>
           q == QueuedEntries(s)
           e == IF Len_(s) = 0 THEN <<>> ELSE Entries(s, WalkIndices(s))
<1>1. Whole(s) /\ s \in Snapshot
      BY TypeWhole
<1>2. r \in Seq(G)
  <2>1. CASE s.repeat = "one" /\ s.cur # None
    <3>1. s.cur \in G
          BY <1>1, <2>1, Fields DEF Choosable
    <3> HIDE DEF G
    <3>2. <<s.cur>> \in Seq(G)
          BY <3>1
    <3>3. QED  BY <2>1, <3>2
  <2>2. CASE ~(s.repeat = "one" /\ s.cur # None)
        BY <2>2, EmptySeq
  <2>3. QED  BY <2>1, <2>2
<1>3. q \in Seq(G)
  <2>1. /\ Len(s.user) \in Nat /\ DOMAIN s.user = 1..Len(s.user)
        BY <1>1, Fields, LenProperties
  <2>2. \A i \in 1..Len(s.user) : QueuedEntry(s.user[i]) \in G
        BY <2>1, QueuedChoosable DEF Choosable
  <2> HIDE DEF G
  <2>3. q \in [1..Len(s.user) -> G]
        BY <2>1, <2>2 DEF QueuedEntries
  <2>4. QED  BY <2>1, <2>3, FunctionIsSeq
<1>4. e \in Seq(G)
  <2>1. CASE Len_(s) = 0
        BY <2>1, EmptySeq
  <2>2. CASE Len_(s) # 0
    <3>1. WalkIndices(s) \in Seq(1..Len_(s))
          BY <1>1, <2>2, WalkLength
    <3>2. /\ Len(WalkIndices(s)) \in Nat /\ DOMAIN WalkIndices(s) = 1..Len(WalkIndices(s))
          /\ \A i \in 1..Len(WalkIndices(s)) : WalkIndices(s)[i] \in 1..Len_(s)
          BY <3>1, LenProperties, ElementOfSeq
    <3>3. \A i \in 1..Len(WalkIndices(s)) : EntryAt(s, WalkIndices(s)[i]) \in G
          BY <3>2, ContextChoosable DEF Choosable
    <3> HIDE DEF G
    <3>4. e \in [1..Len(WalkIndices(s)) -> G]
          BY <2>2, <3>2, <3>3 DEF Entries
    <3>5. QED  BY <3>2, <3>4, FunctionIsSeq
  <2>3. QED  BY <2>1, <2>2
<1>5. NextWalk(s) = (r \o q) \o e
      BY DEF NextWalk
<1> HIDE DEF G, r, q, e
<1>6. NextWalk(s) \in Seq(G)
      BY <1>2, <1>3, <1>4, <1>5, ConcatProperties
<1>7. 1 \in 1..Len(NextWalk(s))
  <2>1. Len(NextWalk(s)) \in Nat \ {0}
        BY <1>6, EmptySeq
  <2>2. QED  BY <2>1
<1>8. NextWalk(s)[1] \in G
      BY <1>6, <1>7, ElementOfSeq
<1>9. QED  BY <1>8 DEF G

LEMMA PlayTargetChoosable ==
    ASSUME QueueTypeOK, PlayTarget(s) # <<>>
    PROVE  Choosable(PlayTarget(s)[1])
<1>1. Whole(s) /\ s \in Snapshot /\ Len_(s) \in Nat
      BY TypeWhole, Fields
<1>2. CASE s.user # <<>>
  <2>1. PlayTarget(s) = QueuedEntries(s)
        BY <1>2 DEF PlayTarget
  <2>2. 1 \in DOMAIN s.user
    <3>1. s.user \in Seq(Queued)
          BY <1>1, Fields
    <3>2. Len(s.user) \in Nat \ {0} /\ DOMAIN s.user = 1..Len(s.user)
          BY <1>2, <3>1, EmptySeq, LenProperties
    <3>3. QED  BY <3>2
  <2>3. QueuedEntries(s)[1] = QueuedEntry(s.user[1])
        BY <2>2 DEF QueuedEntries
  <2>4. QED  BY <2>1, <2>2, <2>3, QueuedChoosable
<1>3. CASE s.user = <<>> /\ IsValidIndex(s, s.ri)
  <2>1. PlayTarget(s) = <<EntryAt(s, s.ri)>>
        BY <1>3 DEF PlayTarget
  <2>2. PlayTarget(s)[1] = EntryAt(s, s.ri)
        BY <2>1
  <2>3. QED  BY <1>3, <2>2, ContextChoosable DEF IsValidIndex
<1>4. CASE s.user = <<>> /\ ~IsValidIndex(s, s.ri) /\ Len_(s) > 0
  <2>1. PlayTarget(s) = <<EntryAt(s, DefaultFirst(s))>>
        BY <1>4 DEF PlayTarget
  <2>2. PlayTarget(s)[1] = EntryAt(s, DefaultFirst(s))
        BY <2>1
  <2>3. DefaultFirst(s) \in 1..Len_(s)
        BY <1>1, <1>4, DefaultFirstBounds
  <2>4. QED  BY <2>2, <2>3, ContextChoosable
<1>5. CASE s.user = <<>> /\ ~IsValidIndex(s, s.ri) /\ ~(Len_(s) > 0)
      BY <1>5 DEF PlayTarget
<1>6. QED  BY <1>2, <1>3, <1>4, <1>5

LEMMA PreviousChoosable ==
    ASSUME QueueTypeOK, PreviousIndex(s) # 0
    PROVE  Choosable(EntryAt(s, PreviousIndex(s)))
<1>1. Whole(s) /\ s \in Snapshot /\ Len_(s) \in Nat /\ DetachedIndex(s) \in Nat
      BY TypeWhole, Fields, DetachedIsNat
<1>2. Len_(s) # 0
      BY DEF PreviousIndex
<1>3. ASSUME NEW i \in 1..Len_(s) PROVE PreviousFrom(s, i) \in 0..Len_(s)
  <2>1. IsValidIndex(s, i) /\ IndexIn(Order(s), i) \in 1..Len_(s)
        BY <1>1, OrderPlaces DEF IsValidIndex
  <2>2. \A k \in 1..Len_(s) : Order(s)[k] \in 1..Len_(s)
        BY <1>1, OrderPlaces
  <2>3. QED  BY <1>1, <1>2, <2>1, <2>2 DEF PreviousFrom
<1>4. PreviousDetached(s, DetachedIndex(s)) \in 0..Len_(s)
  <2>1. IsValidIndex(s, s.ci) => PreviousFrom(s, s.ci) \in 0..Len_(s)
        BY <1>3 DEF IsValidIndex
  <2>2. QED  BY <1>1, <2>1 DEF PreviousDetached
<1>5. PreviousIndex(s) \in 1..Len_(s)
  <2>1. CurrentMatches(s) => PreviousFrom(s, s.ci) \in 0..Len_(s)
        BY <1>3 DEF CurrentMatches, IsValidIndex
  <2>2. IsValidIndex(s, s.ci) => s.ci \in 0..Len_(s)
        BY <1>1 DEF IsValidIndex
  <2>3. 0 \in 0..Len_(s)
        BY <1>1
  <2> DEFINE n == 0..Len_(s)
  <2> HIDE DEF n
  <2>4. /\ 0 \in n /\ PreviousDetached(s, DetachedIndex(s)) \in n
        /\ CurrentMatches(s) => PreviousFrom(s, s.ci) \in n
        /\ IsValidIndex(s, s.ci) => s.ci \in n
        BY <1>4, <2>1, <2>2, <2>3 DEF n
  <2>5. PreviousIndex(s) \in n
        BY <2>4, Zenon DEF PreviousIndex
  <2>6. QED  BY <1>1, <2>5 DEF n
<1>6. QED  BY <1>5, ContextChoosable

-----------------------------------------------------------------------------
(* The session keeps its place: types and the place, action by action       *)

\* As long as no play was overtaken, the current entry and the one that is about
\* to be played are where they say they are, and the place to resume is where
\* the walk goes on.  While a play is in progress the entry that is still shown as
\* current may be of the context before a new live one.
PlaceInv ==
    /\ ~raced /\ (play = None \/ s.kind # "live") => Tracked(s)
    /\ ~raced /\ play # None => Fits(play.entry, s.ctx)
    /\ ~raced /\ play = None => Resumes(s)

Kept == QueueTypeOK /\ PlaceInv

LEMMA OutdateType ==
    ASSUME QueueTypeOK
    PROVE  Outdate(fetch) \in OrNone(SourceCall) /\ Outdate(worker) \in OrNone(RebaseCall)
<1>1. fetch # None => [fetch EXCEPT !.fresh = FALSE] \in SourceCall
      BY DEF QueueTypeOK, OrNone, SourceCall
<1>2. worker # None => [worker EXCEPT !.fresh = FALSE] \in RebaseCall
      BY DEF QueueTypeOK, OrNone, RebaseCall
<1>3. QED  BY <1>1, <1>2 DEF Outdate, OrNone

LEMMA EventType ==
    ASSUME QueueTypeOK, Event
    PROVE  events' \in Nat
BY DEF QueueTypeOK, Event

LEMMA ShownType ==
    ASSUME QueueTypeOK
    PROVE  shown[1] \in Nat /\ shown[2] \in Nat
BY DEF QueueTypeOK

LEMMA NewPlainContext ==
    ASSUME QueueTypeOK, NEW n \in 0..2, NEW start \in 1..2, start <= n \/ start = 1,
           NEW list \in FreshPlain(n), NEW bag \in Bags_(s.shuffle, n, start)
    PROVE  NewContext("plain", list, start, s.shuffle, bag) /\ (list = <<>> <=> n = 0)
<1>1. n \in Nat /\ s.shuffle \in BOOLEAN
      BY TypeWhole, Fields
<1>2. list \in Seq(Tracks \cup Plain) /\ Len(list) = n
      BY <1>1, FreshPlainProperties
<1>3. bag \in Seq(Nat) /\ (s.shuffle => IsCycle(bag, n))
      BY <1>1, BagsCover
<1>4. list = <<>> <=> n = 0
      BY <1>2, EmptySeq
<1>5. list # <<>> => start \in 1..Len(list)
      BY <1>1, <1>2, <1>4
<1>6. QED  BY <1>1, <1>2, <1>3, <1>4, <1>5 DEF NewContext

LEMMA EmptyResumes ==
    ASSUME NEW t, t.ctx = <<>>
    PROVE  Resumes(t) /\ Tracked(t)
<1>1. Len_(t) = 0 /\ Range(t.ctx) = {}
      BY EmptySeq DEF Len_, Range
<1>2. QED  BY <1>1 DEF Resumes, Tracked

LEMMA SetContextKeeps ==
    ASSUME Kept, NEW n \in 0..2, NEW start \in 1..2, start <= n \/ start = 1,
           SetContext(n, start)
    PROVE  Kept'
<1>1. QueueTypeOK /\ Whole(s)
      BY TypeWhole DEF Kept
<1>2. PICK list \in FreshPlain(n), bag \in Bags_(s.shuffle, n, start) :
         s' = Replaced(Detached(s), "plain", list, start, s.shuffle, bag)
      BY DEF SetContext
<1>3. NewContext("plain", list, start, s.shuffle, bag) /\ (list = <<>> <=> n = 0)
      BY <1>1, NewPlainContext
<1>4. /\ Whole(Detached(s))
      /\ \/ Detached(s).cur = None
         \/ Detached(s).cur.origin = "queued"
         \/ Detached(s).cur.index = 0
      BY <1>1, DetachedWhole
<1>5. /\ Whole(s') /\ s'.ctx = list /\ s'.cur = Detached(s).cur
      /\ list # <<>> => IsValidIndex(s', s'.ri)
      BY <1>2, <1>3, <1>4, ReplacedWhole
<1>6. Tracked(s')
      BY <1>4, <1>5 DEF Tracked
<1>7. Resumes(s')
  <2>1. CASE list = <<>>
        BY <1>5, <2>1, EmptyResumes
  <2>2. CASE list # <<>>
        BY <1>4, <1>5, <2>2, FreshResumes
  <2>3. QED  BY <2>1, <2>2
<1>8. QueueTypeOK'
  <2>1. /\ events' \in Nat /\ worker' \in OrNone(RebaseCall) /\ fetch' \in OrNone(SourceCall)
        BY <1>1, EventType, OutdateType DEF SetContext, AdvanceIntentEpoch
  <2>2. shown' \in Nat \X Nat
        BY <1>1, ShownType DEF SetContext, Shown
  <2>3. /\ catalog' = catalog /\ signal' = signal /\ play' = play /\ missed' = missed
        /\ raced' \in BOOLEAN
        BY DEF SetContext
  <2>4. QED  BY <1>1, <1>5, <2>1, <2>2, <2>3 DEF QueueTypeOK, Whole
<1>9. PlaceInv'
  <2>1. ~raced' => play' = None
        BY DEF SetContext
  <2>2. QED  BY <1>6, <1>7, <2>1 DEF PlaceInv
<1>10. QED  BY <1>8, <1>9 DEF Kept

LEMMA ReplaceContextAndPlayKeeps ==
    ASSUME Kept, NEW n \in 0..2, NEW start \in 1..2, start <= n \/ start = 1,
           ReplaceContextAndPlay(n, start)
    PROVE  Kept'
<1>1. QueueTypeOK /\ Whole(s) /\ play = None
      BY TypeWhole DEF Kept, ReplaceContextAndPlay
<1>2. PICK list \in FreshPlain(n), bag \in Bags_(s.shuffle, n, start) :
         /\ s' = Replaced(s, "plain", list, start, s.shuffle, bag)
         /\ play' = IF n = 0 THEN None ELSE [entry |-> EntryAt(s', start), at |-> 0]
      BY DEF ReplaceContextAndPlay
<1>3. NewContext("plain", list, start, s.shuffle, bag) /\ (list = <<>> <=> n = 0)
      BY <1>1, NewPlainContext
<1>4. Whole(s') /\ s'.ctx = list /\ s'.cur = s.cur
      BY <1>1, <1>2, <1>3, ReplacedWhole
<1>5. Tracked(s')
  <2>1. IdOf(s.cur) \notin Range(list)
        BY FreshPlainProperties
  <2>2. s.cur # None => s.cur.id \notin Range(list)
        BY <2>1 DEF IdOf
  <2>3. QED  BY <1>4, <2>2 DEF Tracked
<1>6. CASE n = 0
  <2>1. play' = None /\ Resumes(s')
        BY <1>2, <1>3, <1>4, <1>6, EmptyResumes
  <2>2. QED
    <3>1. QueueTypeOK'
      <4>1. /\ events' \in Nat /\ worker' \in OrNone(RebaseCall) /\ fetch' \in OrNone(SourceCall)
            BY <1>1, EventType, OutdateType DEF ReplaceContextAndPlay, AdvanceIntentEpoch
      <4>2. shown' \in Nat \X Nat
            BY <1>1, ShownType DEF ReplaceContextAndPlay, Shown
      <4>3. catalog' = catalog /\ signal' = signal /\ missed' = missed /\ raced' = raced
            BY DEF ReplaceContextAndPlay
      <4>4. QED  BY <1>1, <1>4, <2>1, <4>1, <4>2, <4>3 DEF QueueTypeOK, Whole, OrNone
    <3>2. QED  BY <1>5, <2>1, <3>1 DEF Kept, PlaceInv
<1>7. CASE n # 0
  <2> DEFINE e == EntryAt(s', start)
  <2>1. start \in 1..Len_(s') /\ s' \in Snapshot
        BY <1>3, <1>4, <1>7 DEF NewContext, Len_, Whole
  <2>2. e \in Entry /\ e.index = start /\ e.id = s'.ctx[start]
        BY <2>1, EntryAtType DEF EntryAt
  <2> HIDE DEF e
  <2>3. play' = [entry |-> e, at |-> 0]
        BY <1>2, <1>7 DEF e
  <2>4. play' \in PlayCall /\ play' # None
        BY <2>2, <2>3, NoneApart DEF PlayCall
  <2>5. Fits(play'.entry, s'.ctx)
        BY <2>1, <2>2, <2>3 DEF Fits, Len_
  <2>6. QueueTypeOK'
    <3>1. /\ events' \in Nat /\ worker' \in OrNone(RebaseCall) /\ fetch' \in OrNone(SourceCall)
          BY <1>1, EventType, OutdateType DEF ReplaceContextAndPlay, AdvanceIntentEpoch
    <3>2. shown' \in Nat \X Nat
          BY <1>1, ShownType DEF ReplaceContextAndPlay, Shown
    <3>3. catalog' = catalog /\ signal' = signal /\ missed' = missed /\ raced' = raced
          BY DEF ReplaceContextAndPlay
    <3>4. QED  BY <1>1, <1>4, <2>4, <3>1, <3>2, <3>3 DEF QueueTypeOK, Whole, OrNone
  <2>7. QED  BY <1>5, <2>4, <2>5, <2>6 DEF Kept, PlaceInv
<1>8. QED  BY <1>6, <1>7

LEMMA ClearQueueKeeps ==
    ASSUME Kept, ClearQueue
    PROVE  Kept'
<1>1. QueueTypeOK /\ Whole(s) /\ s \in Snapshot
      BY TypeWhole DEF Kept
<1>2. s' = [EmptySession EXCEPT !.cur = s.cur, !.repeat = s.repeat, !.shuffle = s.shuffle]
      BY DEF ClearQueue
<1>3. /\ <<>> \in Seq(Tracks \cup Plain) /\ <<>> \in Seq(Nat) /\ <<>> \in Seq(Queued)
      /\ IsCycle(<<>>, 0) /\ Len(<<>>) = 0
  <2>1. Range(<<>>) = 1..0
        BY DEF Range
  <2>2. QED  BY <2>1, EmptySeq DEF IsCycle
<1>4. s' \in Snapshot /\ s'.ctx = <<>> /\ s'.bag = <<>> /\ s'.kind = "none"
      BY <1>1, <1>2, <1>3 DEF EmptySession, Snapshot, OrNone
<1>5. Whole(s')
      BY <1>3, <1>4 DEF Whole, Len_
<1>6. Tracked(s') /\ Resumes(s')
      BY <1>4, EmptyResumes
<1>7. QueueTypeOK'
  <2>1. /\ events' \in Nat /\ worker' \in OrNone(RebaseCall) /\ fetch' \in OrNone(SourceCall)
        BY <1>1, EventType, OutdateType DEF ClearQueue, AdvanceIntentEpoch
  <2>2. shown' \in Nat \X Nat
        BY <1>1, ShownType DEF ClearQueue, Shown
  <2>3. /\ catalog' = catalog /\ signal' = signal /\ play' = play /\ missed' = missed
        /\ raced' \in BOOLEAN
        BY DEF ClearQueue
  <2>4. QED  BY <1>1, <1>5, <2>1, <2>2, <2>3 DEF QueueTypeOK, Whole
<1>8. ~raced' => play' = None
      BY DEF ClearQueue
<1>9. QED  BY <1>6, <1>7, <1>8 DEF Kept, PlaceInv

\* A step that leaves the snapshot, the play and what came of it alone.
LEMMA SameKeeps ==
    ASSUME Kept, UNCHANGED <<s, play, raced>>,
           events' \in Nat, catalog' \in Seq(Tracks), shown' \in Nat \X Nat,
           signal' \in BOOLEAN, missed' \in BOOLEAN,
           worker' \in OrNone(RebaseCall), fetch' \in OrNone(SourceCall)
    PROVE  Kept'
<1>1. QueueTypeOK'
      BY DEF Kept, QueueTypeOK, Len_
<1>2. PlaceInv'
      BY DEF Kept, PlaceInv
<1>3. QED  BY <1>1, <1>2 DEF Kept

LEMMA SourceKeeps ==
    ASSUME Kept,
           \/ \E anchor \in Tracks \cup {None}, shuffle, andPlay \in BOOLEAN :
                 SetSource(anchor, shuffle, andPlay)
           \/ EnumerateSource
           \/ DropSource
    PROVE  Kept'
<1>1. QueueTypeOK
      BY DEF Kept
<1>2. ASSUME NEW anchor \in Tracks \cup {None}, NEW shuffle \in BOOLEAN, NEW andPlay \in BOOLEAN,
             SetSource(anchor, shuffle, andPlay)
      PROVE  Kept'
  <2>1. fetch' = [fresh |-> TRUE, anchor |-> anchor, shuffle |-> shuffle, andPlay |-> andPlay,
                  found |-> None, late |-> FALSE, number |-> shown[1] + 1]
        BY <1>2 DEF SetSource
  <2>2. fetch' \in SourceCall
        BY <1>1, <2>1, ShownType DEF SourceCall, OrNone
  <2>3. /\ events' \in Nat /\ worker' \in OrNone(RebaseCall) /\ shown' \in Nat \X Nat
        BY <1>1, <1>2, EventType, OutdateType, ShownType DEF SetSource, AdvanceIntentEpoch
  <2>4. UNCHANGED <<s, catalog, signal, play, missed, raced>>
        BY <1>2 DEF SetSource
  <2>5. QED  BY <1>1, <2>2, <2>3, <2>4, SameKeeps DEF QueueTypeOK, OrNone
<1>3. CASE EnumerateSource
  <2>1. /\ UNCHANGED <<s, catalog, signal, worker, play, events, missed, raced, shown>>
        /\ fetch # None
        BY <1>3 DEF EnumerateSource
  <2>2. fetch' \in OrNone(SourceCall)
    <3>1. fetch \in SourceCall /\ catalog \in Seq(Tracks)
          BY <1>1, <2>1 DEF QueueTypeOK, OrNone
    <3>2. CASE Enumerated(catalog, fetch.anchor) = NoSource
          BY <1>3, <3>2 DEF EnumerateSource, OrNone
    <3>3. CASE Enumerated(catalog, fetch.anchor) # NoSource
      <4>1. PICK found \in Answer : found = Enumerated(catalog, fetch.anchor)
            BY <3>1, <3>3, EnumeratedAnswers
      <4>2. fetch' = [fetch EXCEPT !.found = found]
            BY <1>3, <3>3, <4>1 DEF EnumerateSource
      <4>3. QED  BY <3>1, <4>2 DEF SourceCall, OrNone
    <3>4. QED  BY <3>2, <3>3
  <2>3. QED  BY <1>1, <2>1, <2>2, SameKeeps DEF QueueTypeOK
<1>4. CASE DropSource
  <2>1. UNCHANGED <<s, catalog, signal, worker, play, events, missed, raced, shown>> /\ fetch' = None
        BY <1>4 DEF DropSource
  <2>2. QED  BY <1>1, <2>1, SameKeeps DEF QueueTypeOK, OrNone
<1>5. QED  BY <1>2, <1>3, <1>4

\* The context a source gives.
LEMMA SourceContext ==
    ASSUME QueueTypeOK, fetch # None, fetch.found # None, NEW bag \in SourceBags(fetch)
    PROVE  /\ NewContext("live", fetch.found.list, fetch.found.start, fetch.shuffle, bag)
           /\ fetch.found \in Answer /\ fetch.late \in BOOLEAN /\ fetch.number \in Nat
<1>1. /\ fetch.found \in Answer /\ fetch.late \in BOOLEAN /\ fetch.number \in Nat
      /\ fetch.shuffle \in BOOLEAN
      BY DEF QueueTypeOK, OrNone, SourceCall
<1> DEFINE f == fetch.found
<1>2. /\ f.list \in Seq(Tracks \cup Plain) /\ f.start \in Nat /\ f.start \in 1..Len(f.list)
      /\ Len(f.list) \in Nat /\ f.list # <<>>
      BY <1>1, AnswerProperties
<1>3. bag \in Seq(Nat) /\ (fetch.shuffle => IsCycle(bag, Len(f.list)))
      BY <1>1, <1>2, BagsCover DEF SourceBags
<1>4. QED  BY <1>1, <1>2, <1>3 DEF NewContext

LEMMA ApplySourceKeeps ==
    ASSUME Kept, ApplySource
    PROVE  Kept'
<1>1. QueueTypeOK /\ Whole(s) /\ fetch # None /\ fetch.found # None
      BY TypeWhole DEF Kept, ApplySource
<1>2. PICK bag \in SourceBags(fetch) :
         s' = Replaced(Detached(s), "live", fetch.found.list, fetch.found.start, fetch.shuffle, bag)
      BY DEF ApplySource
<1>3. /\ NewContext("live", fetch.found.list, fetch.found.start, fetch.shuffle, bag)
      /\ fetch.found \in Answer /\ fetch.late \in BOOLEAN /\ fetch.number \in Nat
      BY <1>1, SourceContext
<1>4. /\ Whole(Detached(s))
      /\ \/ Detached(s).cur = None
         \/ Detached(s).cur.origin = "queued"
         \/ Detached(s).cur.index = 0
      BY <1>1, DetachedWhole
<1>5. fetch.found.list # <<>>
      BY <1>3, AnswerProperties
<1>6. Whole(s') /\ s'.cur = Detached(s).cur /\ IsValidIndex(s', s'.ri)
      BY <1>2, <1>3, <1>4, <1>5, ReplacedWhole
<1>7. Tracked(s')
      BY <1>4, <1>6 DEF Tracked
<1>8. Resumes(s')
      BY <1>4, <1>6, FreshResumes
<1>9. QueueTypeOK'
  <2>1. /\ fetch' = None /\ missed' = fetch.late /\ shown' = <<shown[1], fetch.number>>
        /\ UNCHANGED <<catalog, signal, worker, play, events>> /\ raced' \in BOOLEAN
        BY DEF ApplySource, SourceShown
  <2>2. shown' \in Nat \X Nat
        BY <1>1, <1>3, <2>1, ShownType
  <2>3. QED  BY <1>1, <1>3, <1>6, <2>1, <2>2 DEF QueueTypeOK, Whole, OrNone
<1>10. ~raced' => play' = None
      BY DEF ApplySource
<1>11. QED  BY <1>7, <1>8, <1>9, <1>10 DEF Kept, PlaceInv

LEMMA ApplySourceAndPlayKeeps ==
    ASSUME Kept, ApplySourceAndPlay
    PROVE  Kept'
<1>1. QueueTypeOK /\ Whole(s) /\ fetch # None /\ fetch.found # None
      BY TypeWhole DEF Kept, ApplySourceAndPlay
<1>2. PICK bag \in SourceBags(fetch) :
         s' = Replaced(s, "live", fetch.found.list, fetch.found.start, fetch.shuffle, bag)
      BY DEF ApplySourceAndPlay
<1>3. /\ NewContext("live", fetch.found.list, fetch.found.start, fetch.shuffle, bag)
      /\ fetch.found \in Answer /\ fetch.late \in BOOLEAN /\ fetch.number \in Nat
      BY <1>1, SourceContext
<1>4. Whole(s') /\ s'.ctx = fetch.found.list /\ s'.kind = "live"
      BY <1>1, <1>2, <1>3, ReplacedWhole
<1> DEFINE e == EntryAt(s', fetch.found.start)
<1>5. fetch.found.start \in 1..Len_(s') /\ s' \in Snapshot
      BY <1>3, <1>4, AnswerProperties DEF Len_, Whole
<1>6. e \in Entry /\ e.index = fetch.found.start /\ e.id = s'.ctx[fetch.found.start]
      BY <1>5, EntryAtType DEF EntryAt
<1>7. play' = [entry |-> e, at |-> 0]
      BY DEF ApplySourceAndPlay
<1> HIDE DEF e
<1>8. play' \in PlayCall /\ play' # None
      BY <1>6, <1>7, NoneApart DEF PlayCall
<1>9. Fits(play'.entry, s'.ctx)
      BY <1>5, <1>6, <1>7 DEF Fits, Len_
<1>10. QueueTypeOK'
  <2>1. /\ fetch' = None /\ missed' = fetch.late /\ shown' = <<shown[1], fetch.number>>
        /\ UNCHANGED <<catalog, signal, raced, events>> /\ worker' = Outdate(worker)
        BY DEF ApplySourceAndPlay, SourceShown, AdvanceIntentEpoch
  <2>2. shown' \in Nat \X Nat /\ worker' \in OrNone(RebaseCall)
        BY <1>1, <1>3, <2>1, ShownType, OutdateType
  <2>3. QED  BY <1>1, <1>3, <1>4, <1>8, <2>1, <2>2 DEF QueueTypeOK, Whole, OrNone
<1>11. QED  BY <1>4, <1>8, <1>9, <1>10 DEF Kept, PlaceInv

-----------------------------------------------------------------------------
(* The queue of the user and the modes                                      *)

\* Two snapshots that differ at most in the queue of the user.
LEMMA QueueApart ==
    ASSUME NEW t, Whole(t), NEW q \in Seq(Queued)
    PROVE  LET u == [t EXCEPT !.user = q]
           IN  /\ Whole(u) /\ (Resumes(t) => Resumes(u)) /\ (Tracked(t) => Tracked(u))
               /\ u.ctx = t.ctx /\ u.kind = t.kind
<1> DEFINE u == [t EXCEPT !.user = q]
<1>1. /\ u \in Snapshot /\ u.ri = t.ri
      /\ u.kind = t.kind /\ u.ctx = t.ctx /\ u.ci = t.ci /\ u.cur = t.cur /\ u.bag = t.bag
      /\ u.repeat = t.repeat /\ u.shuffle = t.shuffle
      BY DEF Whole, Snapshot
<1> HIDE DEF u
<1>2. Len_(u) = Len_(t)
      BY <1>1 DEF Len_
<1>3. Whole(u)
      BY <1>1, <1>2 DEF Whole
<1>4. CurrentMatches(u) <=> CurrentMatches(t)
      BY <1>1, <1>2 DEF CurrentMatches, IsValidIndex
<1>5. DetachedIndex(u) = DetachedIndex(t)
      BY <1>1, <1>4 DEF DetachedIndex
<1>6. Order(u) = Order(t) /\ DefaultFirst(u) = DefaultFirst(t)
  <2>1. CASE t.shuffle
    <3>1. EffectiveCycle(u) = u.bag /\ EffectiveCycle(t) = t.bag
          BY <1>1, <1>2, <1>3, <2>1 DEF Whole, EffectiveCycle
    <3>2. QED  BY <1>1, <1>2, <2>1, <3>1 DEF Order, DefaultFirst
  <2>2. CASE ~t.shuffle
        BY <1>1, <1>2, <2>2 DEF Order, DefaultFirst
  <2>3. QED  BY <2>1, <2>2
<1>7. NextDetached(u, DetachedIndex(u)) = NextDetached(t, DetachedIndex(t))
      BY <1>1, <1>2, <1>5, <1>6 DEF NextDetached, IsValidIndex
<1>8. FirstUpcomingIndex(u) = FirstUpcomingIndex(t)
      BY <1>1, <1>2, <1>4, <1>5, <1>7 DEF FirstUpcomingIndex, IsValidIndex
<1>9. WalkStart(u) = WalkStart(t)
      BY <1>1, <1>2, <1>4, <1>6, <1>8 DEF WalkStart, IsValidIndex
<1>10. WalkWrap(u) = WalkWrap(t)
      BY <1>1, <1>2, <1>4, <1>9 DEF WalkWrap, IsValidIndex
<1>11. WalkFirst(u) = WalkFirst(t)
      BY <1>2, <1>6, <1>9, <1>10 DEF WalkFirst
<1>12. Resumes(t) => Resumes(u)
      BY <1>1, <1>2, <1>11 DEF Resumes
<1>13. Tracked(t) => Tracked(u)
      BY <1>1 DEF Tracked
<1>14. QED  BY <1>1, <1>3, <1>12, <1>13 DEF u

\* A command that changes only the queue of the user.
LEMMA QueueChangeKeeps ==
    ASSUME Kept, Event, NEW q \in Seq(Queued), s' = [s EXCEPT !.user = q],
           AdvanceIntentEpoch, fetch' = Outdate(fetch),
           UNCHANGED <<catalog, signal, play, missed, raced, shown>>
    PROVE  Kept'
<1>1. QueueTypeOK /\ PlaceInv /\ Whole(s)
      BY TypeWhole DEF Kept
<1>2. /\ Whole(s') /\ (Resumes(s) => Resumes(s')) /\ (Tracked(s) => Tracked(s'))
      /\ s'.ctx = s.ctx /\ s'.kind = s.kind
      BY <1>1, QueueApart
<1>3. QueueTypeOK'
  <2>1. /\ events' \in Nat /\ worker' \in OrNone(RebaseCall) /\ fetch' \in OrNone(SourceCall)
        BY <1>1, EventType, OutdateType DEF AdvanceIntentEpoch
  <2>2. QED  BY <1>1, <1>2, <2>1 DEF QueueTypeOK, Whole
<1>4. PlaceInv'
      BY <1>1, <1>2 DEF PlaceInv
<1>5. QED  BY <1>3, <1>4 DEF Kept

LEMMA QueueItemsKeeps ==
    ASSUME Kept, NEW atFront \in BOOLEAN, QueueItems(atFront)
    PROVE  Kept'
<1> DEFINE q == CHOOSE x \in Unused : TRUE
           user == IF atFront THEN <<q>> \o s.user ELSE Append(s.user, q)
<1>1. q \in Queued
      BY DEF QueueItems, Unused
<1>2. s \in Snapshot /\ s.user \in Seq(Queued)
      BY TypeWhole, Fields DEF Kept
<1>3. s' = [s EXCEPT !.user = user]
      BY DEF QueueItems
<1> HIDE DEF q
<1>4. user \in Seq(Queued)
  <2>1. <<q>> \in Seq(Queued)
        BY <1>1
  <2>2. QED  BY <1>1, <1>2, <2>1, ConcatProperties, AppendProperties
<1> HIDE DEF user
<1>5. QED  BY <1>3, <1>4, QueueChangeKeeps DEF QueueItems

LEMMA RemoveQueuedEntryKeeps ==
    ASSUME Kept, NEW i \in DOMAIN s.user, RemoveQueuedEntry(i)
    PROVE  Kept'
<1>1. s \in Snapshot /\ s.user \in Seq(Queued)
      BY TypeWhole, Fields DEF Kept
<1>2. RemoveAt(s.user, i) \in Seq(Queued)
      BY <1>1, RemoveAtType
<1>3. s' = [s EXCEPT !.user = RemoveAt(s.user, i)]
      BY DEF RemoveQueuedEntry
<1>4. QED  BY <1>2, <1>3, QueueChangeKeeps DEF RemoveQueuedEntry

\* A change of mode stores where the session resumes under the new one.
LEMMA ModeKeeps ==
    ASSUME Kept, NEW t, Whole(t), t.ctx = s.ctx, t.cur = s.cur, t.ci = s.ci, t.kind = s.kind,
           s' = Stored(t, ResumeIndex(t)), UNCHANGED <<play, raced>>,
           events' \in Nat, catalog' \in Seq(Tracks), shown' \in Nat \X Nat,
           signal' \in BOOLEAN, missed' \in BOOLEAN,
           worker' \in OrNone(RebaseCall), fetch' \in OrNone(SourceCall)
    PROVE  Kept'
<1>1. QueueTypeOK /\ PlaceInv
      BY DEF Kept
<1>2. ResumeIndex(t) \in Nat
  <2>1. ResumeIndex(t) \in 0..Len_(t) /\ Len_(t) \in Nat
        BY ResumeBounds, Fields DEF Whole
  <2>2. QED  BY <2>1
<1>3. /\ Whole(s') /\ s'.ctx = s.ctx /\ s'.cur = s.cur /\ s'.ci = s.ci /\ s'.kind = s.kind
      BY <1>2, StoredSame
<1>4. Resumes(s')
      BY StoredResumes
<1>5. Tracked(s) => Tracked(s')
      BY <1>3 DEF Tracked
<1>6. QueueTypeOK'
      BY <1>1, <1>3 DEF QueueTypeOK, Whole
<1>7. PlaceInv'
      BY <1>1, <1>3, <1>4, <1>5 DEF PlaceInv
<1>8. QED  BY <1>6, <1>7 DEF Kept

LEMMA SetRepeatModeKeeps ==
    ASSUME Kept, NEW mode \in Modes, SetRepeatMode(mode)
    PROVE  Kept'
<1> DEFINE t == [s EXCEPT !.repeat = mode]
<1>1. QueueTypeOK /\ Whole(s)
      BY TypeWhole DEF Kept
<1>2. s' = Stored(t, ResumeIndex(t))
      BY DEF SetRepeatMode, Stored
<1>3. /\ t \in Snapshot /\ t.ctx = s.ctx /\ t.cur = s.cur /\ t.ci = s.ci /\ t.kind = s.kind
      /\ t.bag = s.bag /\ t.shuffle = s.shuffle
      BY <1>1 DEF Whole, Snapshot
<1> HIDE DEF t
<1>4. Whole(t)
      BY <1>1, <1>3 DEF Whole, Len_
<1>5. /\ UNCHANGED <<catalog, signal, worker, fetch, play, missed, raced, shown>> /\ events' \in Nat
      BY <1>1, EventType DEF SetRepeatMode
<1>6. QED  BY <1>1, <1>2, <1>3, <1>4, <1>5, ModeKeeps DEF QueueTypeOK

LEMMA SetShuffleKeeps ==
    ASSUME Kept, NEW enabled \in BOOLEAN, SetShuffle(enabled)
    PROVE  Kept'
<1>1. QueueTypeOK /\ Whole(s) /\ Len_(s) \in Nat
      BY TypeWhole, Fields DEF Kept
<1>2. PICK bag \in Bags_(enabled /\ s.kind # "none", Len_(s), AnchorIndex(s)) :
         LET t == [s EXCEPT !.shuffle = enabled, !.bag = bag]
         IN  s' = [t EXCEPT !.ri = ResumeIndex(t)]
      BY DEF SetShuffle
<1> DEFINE t == [s EXCEPT !.shuffle = enabled, !.bag = bag]
<1>3. s' = Stored(t, ResumeIndex(t))
      BY <1>2 DEF Stored
<1>4. bag \in Seq(Nat) /\ (enabled /\ s.kind # "none" => IsCycle(bag, Len_(s)))
  <2>1. (enabled /\ s.kind # "none") \in BOOLEAN
        OBVIOUS
  <2>2. QED  BY <1>1, <2>1, BagsCover
<1>5. s.kind = "none" => bag = <<>>
      BY DEF Bags_
<1>6. /\ t \in Snapshot /\ t.ctx = s.ctx /\ t.cur = s.cur /\ t.ci = s.ci /\ t.kind = s.kind
      /\ t.bag = bag /\ t.shuffle = enabled
      BY <1>1, <1>4 DEF Whole, Snapshot
<1> HIDE DEF t
<1>7. Len_(t) = Len_(s)
      BY <1>6 DEF Len_
<1>8. enabled => IsCycle(bag, Len_(s))
  <2>1. CASE s.kind = "none"
    <3>1. s.ctx = <<>> /\ bag = <<>>
          BY <1>1, <1>5, <2>1 DEF Whole
    <3>2. Len_(s) = 0 /\ Len(bag) = 0
          BY <3>1, EmptySeq DEF Len_
    <3>3. Range(bag) = 1..0
          BY <3>1 DEF Range
    <3>4. QED  BY <3>2, <3>3 DEF IsCycle
  <2>2. CASE s.kind # "none"
        BY <1>4, <2>2
  <2>3. QED  BY <2>1, <2>2
<1>9. Whole(t)
      BY <1>1, <1>6, <1>7, <1>8 DEF Whole
<1>10. /\ UNCHANGED <<catalog, signal, play, missed, raced, shown>> /\ events' \in Nat
       /\ worker' \in OrNone(RebaseCall) /\ fetch' \in OrNone(SourceCall)
      BY <1>1, EventType, OutdateType DEF SetShuffle, AdvanceIntentEpoch
<1>11. QED  BY <1>1, <1>3, <1>6, <1>9, <1>10, ModeKeeps DEF QueueTypeOK

-----------------------------------------------------------------------------
(* Playing                                                                  *)

\* An entry that is chosen is where it says it is.
LEMMA PlayEntryKeeps ==
    ASSUME Kept, Event, NEW e, Choosable(e), NEW q \in Nat, PlayEntry(e, q)
    PROVE  Kept'
<1>1. QueueTypeOK /\ PlaceInv /\ s \in Snapshot /\ e \in Entry
      BY TypeWhole DEF Kept, Choosable
<1>2. /\ play = None /\ play' = [entry |-> e, at |-> q]
      /\ worker' = Outdate(worker) /\ fetch' = Outdate(fetch)
      /\ UNCHANGED <<s, catalog, signal, missed, raced, shown>>
      BY DEF PlayEntry, AdvanceIntentEpoch
<1>3. play' \in PlayCall /\ play' # None
      BY <1>1, <1>2, NoneApart DEF PlayCall
<1>4. Tracked(s) => Fits(e, s.ctx)
  <2>1. CASE e = s.cur
    <3>1. e # None
          BY <1>1, NoneApart
    <3>2. QED  BY <2>1, <3>1 DEF Tracked, Fits
  <2>2. CASE e.origin = "queued"
        BY <2>2 DEF Fits
  <2>3. CASE \E i \in 1..Len_(s) : e = EntryAt(s, i)
        BY <2>3 DEF Fits, EntryAt, Len_
  <2>4. QED  BY <2>1, <2>2, <2>3 DEF Choosable
<1>5. QueueTypeOK'
  <2>1. /\ events' \in Nat /\ worker' \in OrNone(RebaseCall) /\ fetch' \in OrNone(SourceCall)
        BY <1>1, <1>2, EventType, OutdateType
  <2>2. QED  BY <1>1, <1>2, <1>3, <2>1 DEF QueueTypeOK, OrNone, Len_
<1>6. PlaceInv'
      BY <1>1, <1>2, <1>3, <1>4 DEF PlaceInv
<1>7. QED  BY <1>5, <1>6 DEF Kept

LEMMA ChoiceKeeps ==
    ASSUME Kept, Play \/ Next_ \/ Previous \/ SelectEntry
    PROVE  Kept'
<1>1. QueueTypeOK
      BY DEF Kept
<1>2. CASE Play
      BY <1>1, <1>2, PlayTargetChoosable, PlayEntryKeeps DEF Play
<1>3. CASE Next_
  <2> DEFINE e == NextWalk(s)[1]
             q == IF e.origin = "queued" /\ e # s.cur THEN 1 ELSE 0
  <2>1. q \in Nat /\ Event /\ PlayEntry(e, q) /\ NextWalk(s) # <<>>
        BY <1>3 DEF Next_
  <2>2. Choosable(e)
        BY <1>1, <2>1, NextWalkChoosable
  <2> HIDE DEF e, q
  <2>3. QED  BY <2>1, <2>2, PlayEntryKeeps
<1>4. CASE Previous
      BY <1>1, <1>4, PreviousChoosable, PlayEntryKeeps DEF Previous
<1>5. CASE SelectEntry
  <2>1. ASSUME NEW i \in DOMAIN s.user, PlayEntry(QueuedEntry(s.user[i]), i)
        PROVE  Kept'
        BY <1>1, <1>5, <2>1, QueuedChoosable, PlayEntryKeeps DEF SelectEntry
  <2>2. ASSUME NEW i \in 1..Len_(s), PlayEntry(EntryAt(s, i), 0)
        PROVE  Kept'
        BY <1>1, <1>5, <2>2, ContextChoosable, PlayEntryKeeps DEF SelectEntry
  <2>3. QED  BY <1>5, <2>1, <2>2 DEF SelectEntry
<1>6. QED  BY <1>2, <1>3, <1>4, <1>5

LEMMA CommitKeeps ==
    ASSUME Kept, Commit
    PROVE  Kept'
<1>1. QueueTypeOK /\ PlaceInv /\ Whole(s)
      BY TypeWhole DEF Kept
<1>2. /\ play # None /\ play' = None /\ s' = SwitchCurrent(s, play.entry, play.at)
      /\ UNCHANGED <<catalog, signal, worker, fetch, events, missed, raced, shown>>
      BY DEF Commit
<1>3. play.entry \in Entry /\ play.at \in Nat
      BY <1>1, <1>2 DEF QueueTypeOK, OrNone, PlayCall
<1>4. /\ Whole(s') /\ Resumes(s') /\ s'.kind = s.kind /\ s'.ctx = s.ctx
      /\ s'.cur = play.entry
      /\ play.entry.origin = "context" /\ s.kind # "none" => s'.ci = play.entry.index
      BY <1>1, <1>2, <1>3, SwitchedWhole
<1>5. ~raced => Tracked(s')
  <2>1. SUFFICES ASSUME ~raced, s'.cur.origin = "context", s'.cur.index # 0,
                        s'.cur.id \in Range(s'.ctx)
                 PROVE  /\ s'.ci = s'.cur.index /\ s'.ci \in 1..Len(s'.ctx)
                        /\ s'.ctx[s'.ci] = s'.cur.id
        BY DEF Tracked
  <2>2. s.kind # "none"
    <3>1. s.ctx # <<>>
          BY <1>4, <2>1 DEF Range
    <3>2. QED  BY <1>1, <3>1 DEF Whole
  <2>3. /\ play.entry.index \in 1..Len(s.ctx)
        /\ s.ctx[play.entry.index] = play.entry.id
        BY <1>1, <1>2, <1>4, <2>1 DEF PlaceInv, Fits
  <2>4. QED  BY <1>4, <2>1, <2>2, <2>3
<1>6. QueueTypeOK'
      BY <1>1, <1>2, <1>4 DEF QueueTypeOK, Whole, OrNone
<1>7. PlaceInv'
      BY <1>2, <1>4, <1>5 DEF PlaceInv
<1>8. QED  BY <1>6, <1>7 DEF Kept

LEMMA GiveUpKeeps ==
    ASSUME Kept, GiveUp
    PROVE  Kept'
BY DEF GiveUp, Kept, QueueTypeOK, PlaceInv, OrNone, Len_

-----------------------------------------------------------------------------
(* The catalog, the rebase and the restart                                  *)

LEMMA EditType ==
    ASSUME NEW list \in Edits
    PROVE  list \in Seq(Tracks)
<1>1. list \in BoundedSeq(Tracks, Cardinality(Tracks))
      BY DEF Edits, Listings
<1>2. PICK m \in 0..Cardinality(Tracks) : list \in [1..m -> Tracks]
      BY <1>1 DEF BoundedSeq, SeqOf
<1>3. Cardinality(Tracks) \in Nat
      BY QueueConstants, FS_CardinalityType
<1>4. QED  BY <1>2, <1>3, FunctionIsSeq

LEMMA CatalogChangeKeeps ==
    ASSUME Kept, NEW list \in Edits, CatalogChange(list)
    PROVE  Kept'
<1>1. QueueTypeOK
      BY DEF Kept
<1>2. /\ catalog' = list /\ UNCHANGED <<s, worker, play, missed, raced, shown>>
      /\ events' \in Nat
      BY <1>1, EventType DEF CatalogChange
<1>3. signal' \in BOOLEAN
      BY <1>1 DEF CatalogChange, QueueTypeOK
<1>4. fetch' \in OrNone(SourceCall)
  <2>1. fetch # None => [fetch EXCEPT !.late = TRUE] \in SourceCall
        BY <1>1 DEF QueueTypeOK, OrNone, SourceCall
  <2>2. QED  BY <1>1, <2>1 DEF CatalogChange, QueueTypeOK, OrNone
<1>5. QED  BY <1>1, <1>2, <1>3, <1>4, EditType, SameKeeps DEF QueueTypeOK

LEMMA RebaseReadKeeps ==
    ASSUME Kept, RebaseStart \/ RebaseEnumerate \/ RebaseDrop
    PROVE  Kept'
<1>1. QueueTypeOK /\ s \in Snapshot
      BY TypeWhole DEF Kept
<1>2. CASE RebaseStart
  <2>1. /\ signal' = FALSE /\ UNCHANGED <<s, catalog, fetch, play, events, missed, raced, shown>>
        /\ worker' = IF s.kind # "live" THEN None
                     ELSE [fresh |-> TRUE, cur |-> s.cur, anchor |-> s.anchor, found |-> None]
        BY <1>2 DEF RebaseStart
  <2>2. s.cur \in OrNone(Entry) /\ s.anchor \in OrNone(Tracks \cup Plain)
        BY <1>1, Fields
  <2>3. worker' \in OrNone(RebaseCall)
        BY <2>1, <2>2 DEF OrNone, RebaseCall
  <2>4. QED  BY <1>1, <2>1, <2>3, SameKeeps DEF QueueTypeOK
<1>3. CASE RebaseEnumerate
  <2> DEFINE found == RebuildEnumerated(catalog, worker.cur, worker.anchor)
  <2>1. /\ worker # None
        /\ worker' = IF found = NoSource THEN None ELSE [worker EXCEPT !.found = found]
        /\ missed' = (missed \/ found = NoSource)
        /\ UNCHANGED <<s, catalog, signal, fetch, play, events, raced, shown>>
        BY <1>3 DEF RebaseEnumerate
  <2>2. worker \in RebaseCall /\ catalog \in Seq(Tracks)
        BY <1>1, <2>1 DEF QueueTypeOK, OrNone
  <2>3. found # NoSource => found \in Answer
        BY <2>2, RebuildAnswers
  <2> HIDE DEF found
  <2>4. found # NoSource => [worker EXCEPT !.found = found] \in RebaseCall
        BY <2>2, <2>3 DEF RebaseCall, OrNone
  <2>5. worker' \in OrNone(RebaseCall)
        BY <2>1, <2>4 DEF OrNone
  <2>6. missed' \in BOOLEAN
        BY <2>1
  <2>7. QED  BY <1>1, <2>1, <2>5, <2>6, SameKeeps DEF QueueTypeOK
<1>4. CASE RebaseDrop
  <2>1. /\ worker' = None /\ missed' = TRUE
        /\ UNCHANGED <<s, catalog, signal, fetch, play, events, raced, shown>>
        BY <1>4 DEF RebaseDrop
  <2>2. QED  BY <1>1, <2>1, SameKeeps DEF QueueTypeOK, OrNone
<1>5. QED  BY <1>2, <1>3, <1>4

LEMMA RebaseApplyKeeps ==
    ASSUME Kept, RebaseApply
    PROVE  Kept' /\ s'.kind = "live" /\ s'.ctx = worker.found.list
<1>1. QueueTypeOK /\ Whole(s) /\ s.shuffle \in BOOLEAN
      BY TypeWhole, Fields DEF Kept
<1>2. /\ worker # None /\ worker.found # None /\ s.kind = "live"
      /\ worker' = None /\ missed' = FALSE /\ raced' = (raced \/ play # None)
      /\ UNCHANGED <<catalog, signal, fetch, play, events, shown>>
      BY DEF RebaseApply
<1>3. PICK bag \in Bags_(s.shuffle, Len(worker.found.list), worker.found.start) :
         s' = Rebuilt(s, worker.found, bag)
      BY DEF RebaseApply
<1>4. worker.found \in Answer
      BY <1>1, <1>2 DEF QueueTypeOK, OrNone, RebaseCall
<1>5. bag \in Seq(Nat) /\ (s.shuffle => IsCycle(bag, Len(worker.found.list)))
  <2>1. Len(worker.found.list) \in Nat
        BY <1>4, AnswerProperties
  <2>2. QED  BY <1>1, <2>1, BagsCover
<1>6. /\ Whole(s') /\ Resumes(s') /\ Tracked(s') /\ s'.kind = "live"
      /\ s'.ctx = worker.found.list
      BY <1>1, <1>2, <1>3, <1>4, <1>5, RebuiltWhole
<1>7. QueueTypeOK'
      BY <1>1, <1>2, <1>6 DEF QueueTypeOK, Whole, OrNone
<1>8. ~raced' => play' = None
      BY <1>2
<1>9. QED  BY <1>6, <1>7, <1>8 DEF Kept, PlaceInv

LEMMA RestartKeeps ==
    ASSUME Kept, Restart
    PROVE  Kept' /\ (s'.kind = "live" /\ ~missed' => s'.ctx = catalog)
<1> DEFINE t == Persisted(s)
           found == RebuildEnumerated(catalog, t.cur, t.anchor)
<1>1. QueueTypeOK /\ PlaceInv /\ Whole(s) /\ catalog \in Seq(Tracks)
      BY TypeWhole DEF Kept, QueueTypeOK
<1>2. /\ Whole(t) /\ Resumes(t) /\ t.cur = s.cur
      /\ t.kind = "live" <=> s.kind = "live"
      /\ t.kind # "live" => t.ctx = s.ctx /\ (t.ctx = <<>> \/ t.ci = s.ci)
      /\ t.kind = "live" => t.ctx = <<>>
      BY <1>1, PersistedWhole
<1>3. found # NoSource => found \in Answer /\ found.list = catalog
      BY <1>1, RebuildAnswers
<1>4. /\ signal' = FALSE /\ worker' = None /\ fetch' = None /\ play' = None
      /\ UNCHANGED <<catalog, raced, shown>> /\ events' \in Nat
      BY <1>1, EventType DEF Restart
<1>5. CASE t.kind = "live" /\ found # NoSource
  <2>1. PICK bag \in Bags_(t.shuffle, Len(found.list), found.start) : s' = Rebuilt(t, found, bag)
        BY <1>5 DEF Restart
  <2>2. missed' = FALSE
        BY <1>5 DEF Restart
  <2> HIDE DEF t, found
  <2>3. bag \in Seq(Nat) /\ (t.shuffle => IsCycle(bag, Len(found.list)))
    <3>1. Len(found.list) \in Nat /\ t.shuffle \in BOOLEAN
          BY <1>2, <1>3, <1>5, AnswerProperties, Fields DEF Whole
    <3>2. QED  BY <2>1, <3>1, BagsCover
  <2>4. /\ Whole(s') /\ Resumes(s') /\ Tracked(s') /\ s'.ctx = catalog
        BY <1>2, <1>3, <1>5, <2>1, <2>3, RebuiltWhole
  <2>5. QueueTypeOK'
        BY <1>1, <1>4, <2>2, <2>4 DEF QueueTypeOK, Whole, OrNone
  <2>6. QED  BY <1>4, <2>4, <2>5 DEF Kept, PlaceInv
<1>6. CASE ~(t.kind = "live" /\ found # NoSource)
  <2>1. s' = t /\ missed' = (t.kind = "live")
        BY <1>6 DEF Restart
  <2> HIDE DEF t, found
  <2>2. missed' \in BOOLEAN
        BY <2>1
  <2>3. ~raced => Tracked(t)
    <3>1. CASE t.ctx = <<>>
          BY <3>1, EmptyResumes
    <3>2. CASE t.ctx # <<>>
      <4>1. s.kind # "live" /\ t.ctx = s.ctx /\ t.ci = s.ci
            BY <1>2, <3>2
      <4>2. ~raced => Tracked(s)
            BY <1>1, <4>1 DEF PlaceInv
      <4>3. QED  BY <1>2, <4>1, <4>2 DEF Tracked
    <3>3. QED  BY <3>1, <3>2
  <2>4. QueueTypeOK'
        BY <1>1, <1>2, <1>4, <2>1, <2>2 DEF QueueTypeOK, Whole, OrNone
  <2>5. PlaceInv'
        BY <1>2, <1>4, <2>1, <2>3 DEF PlaceInv
  <2>6. QED  BY <2>1, <2>4, <2>5 DEF Kept
<1>7. QED  BY <1>5, <1>6

-----------------------------------------------------------------------------
(* The initial states and all steps                                         *)

LEMMA RestoredWhole ==
    /\ Whole(RestoredSession) /\ Resumes(RestoredSession) /\ Tracked(RestoredSession)
    /\ RestoredSession.kind = "live" /\ RestoredSession.ctx = Listing
<1> DEFINE c == [id |-> Listing[1], origin |-> "context", index |-> 1]
           t == [EmptySession EXCEPT !.kind = "live", !.ci = 1, !.ri = 2, !.cur = c]
           found == RebuildEnumerated(Listing, t.cur, None)
<1>1. Listing \in Seq(Tracks) /\ Listing # <<>>
      BY QueueConstants
<1>2. Listing[1] \in Tracks
  <2>1. 1 \in 1..Len(Listing)
    <3>1. Len(Listing) \in Nat \ {0}
          BY <1>1, EmptySeq
    <3>2. QED  BY <3>1
  <2>2. QED  BY <1>1, <2>1, ElementOfSeq
<1>3. c \in Entry
      BY <1>2 DEF Entry
<1>4. /\ <<>> \in Seq(Tracks \cup Plain) /\ <<>> \in Seq(Nat) /\ <<>> \in Seq(Queued)
      BY EmptySeq
<1> HIDE DEF c
<1>5. t \in Snapshot /\ t.kind = "live" /\ t.shuffle = FALSE /\ t.cur = c
      BY <1>3, <1>4 DEF EmptySession, Snapshot, OrNone, Modes
<1>6. Whole(t)
      BY <1>5 DEF Whole
<1>7. found # NoSource
  <2>1. Enumerated(Listing, None) # NoSource
        BY <1>1 DEF Enumerated, NoSource
  <2>2. QED  BY <2>1 DEF RebuildEnumerated
<1>8. found \in Answer /\ found.list = Listing
      BY <1>1, <1>7, RebuildAnswers
<1>9. RestoredSession = Rebuilt(t, found, <<>>)
      BY DEF RestoredSession, c
<1> HIDE DEF t, found
<1>10. QED  BY <1>4, <1>5, <1>6, <1>8, <1>9, RebuiltWhole

LEMMA EmptyWhole == EmptySession \in Snapshot /\ Whole(EmptySession) /\ EmptySession.ctx = <<>>
<1>1. /\ <<>> \in Seq(Tracks \cup Plain) /\ <<>> \in Seq(Nat) /\ <<>> \in Seq(Queued)
      BY EmptySeq
<1>2. /\ EmptySession \in Snapshot /\ EmptySession.ctx = <<>> /\ EmptySession.shuffle = FALSE
      BY <1>1 DEF EmptySession, Snapshot, OrNone, Modes
<1>3. QED  BY <1>2 DEF Whole

LEMMA InitKeeps ==
    ASSUME Init
    PROVE  Kept
<1>1. Whole(s) /\ Resumes(s) /\ Tracked(s)
  <2>1. CASE s = EmptySession
        BY <2>1, EmptyWhole, EmptyResumes
  <2>2. CASE s = RestoredSession
        BY <2>2, RestoredWhole
  <2>3. QED  BY <2>1, <2>2 DEF Init
<1>2. /\ catalog = Listing /\ signal = FALSE /\ worker = None /\ fetch = None /\ play = None
      /\ events = 0 /\ missed = FALSE /\ raced = FALSE /\ shown = <<0, 0>>
      BY DEF Init
<1>3. Listing \in Seq(Tracks)
      BY QueueConstants
<1>4. QueueTypeOK
      BY <1>1, <1>2, <1>3 DEF QueueTypeOK, Whole, OrNone
<1>5. QED  BY <1>1, <1>2, <1>4 DEF Kept, PlaceInv

LEMMA NextKeeps ==
    ASSUME Kept, [Next]_vars
    PROVE  Kept'
<1>1. ASSUME NEW n \in 0..2, NEW start \in 1..2, start <= n \/ start = 1,
             SetContext(n, start) \/ ReplaceContextAndPlay(n, start)
      PROVE  Kept'
      BY <1>1, SetContextKeeps, ReplaceContextAndPlayKeeps
<1>2. ASSUME NEW anchor \in Tracks \cup {None}, NEW shuffle \in BOOLEAN, NEW andPlay \in BOOLEAN,
             SetSource(anchor, shuffle, andPlay)
      PROVE  Kept'
      BY <1>2, SourceKeeps
<1>3. CASE EnumerateSource \/ DropSource \/ ApplySource \/ ApplySourceAndPlay
      BY <1>3, SourceKeeps, ApplySourceKeeps, ApplySourceAndPlayKeeps
<1>4. CASE ClearQueue \/ Commit \/ GiveUp
      BY <1>4, ClearQueueKeeps, CommitKeeps, GiveUpKeeps
<1>5. ASSUME NEW atFront \in BOOLEAN, QueueItems(atFront)
      PROVE  Kept'
      BY <1>5, QueueItemsKeeps
<1>6. ASSUME NEW i \in DOMAIN s.user, RemoveQueuedEntry(i)
      PROVE  Kept'
      BY <1>6, RemoveQueuedEntryKeeps
<1>7. ASSUME NEW mode \in Modes, SetRepeatMode(mode)
      PROVE  Kept'
      BY <1>7, SetRepeatModeKeeps
<1>8. ASSUME NEW enabled \in BOOLEAN, SetShuffle(enabled)
      PROVE  Kept'
      BY <1>8, SetShuffleKeeps
<1>9. CASE Play \/ Next_ \/ Previous \/ SelectEntry
      BY <1>9, ChoiceKeeps
<1>10. ASSUME NEW list \in Edits, CatalogChange(list)
       PROVE  Kept'
      BY <1>10, CatalogChangeKeeps
<1>11. CASE RebaseStart \/ RebaseEnumerate \/ RebaseDrop \/ RebaseApply
      BY <1>11, RebaseReadKeeps, RebaseApplyKeeps
<1>12. CASE Restart
      BY <1>12, RestartKeeps
<1>13. CASE UNCHANGED vars
      BY <1>13, SameKeeps DEF vars, Kept, QueueTypeOK
<1>14. QED  BY <1>1, <1>2, <1>3, <1>4, <1>5, <1>6, <1>7, <1>8, <1>9, <1>10, <1>11,
               <1>12, <1>13 DEF Next

-----------------------------------------------------------------------------
(* A live context shows the catalog in the end                              *)

\* A rebase that still counts works for a live context; what it enumerated is the
\* catalog unless a change signalled after it; and a source that was not told of a
\* change while it waited holds the catalog.
CatchInv ==
    /\ worker # None /\ worker.fresh => s.kind = "live"
    /\ worker # None /\ worker.fresh /\ worker.found # None /\ ~signal =>
          worker.found.list = catalog
    /\ fetch # None /\ fetch.found # None /\ ~fetch.late => fetch.found.list = catalog
    /\ CaughtUp

LEMMA OutdateFields ==
    ASSUME QueueTypeOK
    PROVE  /\ Outdate(worker) = None <=> worker = None
           /\ worker # None => Outdate(worker).fresh = FALSE
           /\ Outdate(fetch) = None <=> fetch = None
           /\ fetch # None => /\ Outdate(fetch).fresh = FALSE
                              /\ Outdate(fetch).found = fetch.found
                              /\ Outdate(fetch).late = fetch.late
<1>1. worker # None => worker \in RebaseCall /\ [worker EXCEPT !.fresh = FALSE] \in RebaseCall
      BY DEF QueueTypeOK, OrNone, RebaseCall
<1>2. fetch # None => fetch \in SourceCall /\ [fetch EXCEPT !.fresh = FALSE] \in SourceCall
      BY DEF QueueTypeOK, OrNone, SourceCall
<1>3. worker # None => [worker EXCEPT !.fresh = FALSE] # None
      BY <1>1, NoneApart
<1>4. fetch # None => [fetch EXCEPT !.fresh = FALSE] # None
      BY <1>2, NoneApart
<1>5. worker # None => [worker EXCEPT !.fresh = FALSE].fresh = FALSE
      BY <1>1 DEF RebaseCall
<1>6. fetch # None => /\ [fetch EXCEPT !.fresh = FALSE].fresh = FALSE
                      /\ [fetch EXCEPT !.fresh = FALSE].found = fetch.found
                      /\ [fetch EXCEPT !.fresh = FALSE].late = fetch.late
      BY <1>2 DEF SourceCall
<1>7. QED  BY <1>3, <1>4, <1>5, <1>6 DEF Outdate

\* A step that touches neither the list nor the catalog.
LEMMA ListSameCatches ==
    ASSUME QueueTypeOK, CatchInv, s'.ctx = s.ctx, s'.kind = s.kind,
           UNCHANGED <<catalog, signal, missed>>,
           worker' = worker \/ worker' = Outdate(worker),
           fetch' = fetch \/ fetch' = Outdate(fetch)
    PROVE  CatchInv'
<1>1. worker' # None /\ worker'.fresh => worker' = worker
      BY OutdateFields
<1>2. worker' = None <=> worker = None
      BY OutdateFields
<1>3. fetch' # None => fetch # None /\ fetch'.found = fetch.found /\ fetch'.late = fetch.late
  <2>1. CASE fetch' = fetch
        BY <2>1
  <2>2. CASE fetch' = Outdate(fetch)
        BY <2>2, OutdateFields
  <2>3. QED  BY <2>1, <2>2
<1>4. /\ worker' # None /\ worker'.fresh => s'.kind = "live"
      /\ worker' # None /\ worker'.fresh /\ worker'.found # None /\ ~signal' =>
            worker'.found.list = catalog'
      BY <1>1 DEF CatchInv
<1>5. fetch' # None /\ fetch'.found # None /\ ~fetch'.late => fetch'.found.list = catalog'
      BY <1>3 DEF CatchInv
<1>6. CaughtUp'
      BY <1>2 DEF CatchInv, CaughtUp
<1>7. QED  BY <1>4, <1>5, <1>6 DEF CatchInv

\* A command that leaves no live context behind.
LEMMA PlainCatches ==
    ASSUME QueueTypeOK, CatchInv, s'.kind # "live", UNCHANGED catalog,
           worker' = Outdate(worker), fetch' = Outdate(fetch)
    PROVE  CatchInv'
<1>1. ~(worker' # None /\ worker'.fresh)
      BY OutdateFields
<1>2. fetch' # None => fetch # None /\ fetch'.found = fetch.found /\ fetch'.late = fetch.late
      BY OutdateFields
<1>3. QED  BY <1>1, <1>2 DEF CatchInv, CaughtUp

LEMMA ContextCommandCatches ==
    ASSUME QueueTypeOK, CatchInv, NEW n \in 0..2, NEW start \in 1..2, start <= n \/ start = 1,
           SetContext(n, start) \/ ReplaceContextAndPlay(n, start)
    PROVE  CatchInv'
<1>1. Whole(s)
      BY TypeWhole
<1>2. CASE SetContext(n, start)
  <2>1. PICK list \in FreshPlain(n), bag \in Bags_(s.shuffle, n, start) :
           s' = Replaced(Detached(s), "plain", list, start, s.shuffle, bag)
        BY <1>2 DEF SetContext
  <2>2. s'.kind = "plain"
        BY <1>1, <2>1, NewPlainContext, DetachedWhole, ReplacedWhole
  <2>3. QED  BY <1>2, <2>2, PlainCatches DEF SetContext, AdvanceIntentEpoch
<1>3. CASE ReplaceContextAndPlay(n, start)
  <2>1. PICK list \in FreshPlain(n), bag \in Bags_(s.shuffle, n, start) :
           s' = Replaced(s, "plain", list, start, s.shuffle, bag)
        BY <1>3 DEF ReplaceContextAndPlay
  <2>2. s'.kind = "plain"
        BY <1>1, <2>1, NewPlainContext, ReplacedWhole
  <2>3. QED  BY <1>3, <2>2, PlainCatches DEF ReplaceContextAndPlay, AdvanceIntentEpoch
<1>4. QED  BY <1>2, <1>3

LEMMA SourceCatches ==
    ASSUME QueueTypeOK, CatchInv,
           \/ \E anchor \in Tracks \cup {None}, shuffle, andPlay \in BOOLEAN :
                 SetSource(anchor, shuffle, andPlay)
           \/ EnumerateSource
           \/ DropSource
    PROVE  CatchInv'
<1>1. ASSUME NEW anchor \in Tracks \cup {None}, NEW shuffle \in BOOLEAN, NEW andPlay \in BOOLEAN,
             SetSource(anchor, shuffle, andPlay)
      PROVE  CatchInv'
  <2>1. fetch'.found = None
        BY <1>1 DEF SetSource
  <2>2. worker' = Outdate(worker) /\ UNCHANGED <<s, catalog, signal, missed>>
        BY <1>1 DEF SetSource, AdvanceIntentEpoch
  <2>3. ~(worker' # None /\ worker'.fresh) /\ (worker' = None <=> worker = None)
        BY <2>2, OutdateFields
  <2>4. QED  BY <2>1, <2>2, <2>3 DEF CatchInv, CaughtUp
<1>2. CASE EnumerateSource
  <2>1. /\ fetch # None /\ UNCHANGED <<s, catalog, signal, worker, missed>>
        BY <1>2 DEF EnumerateSource
  <2>2. fetch' # None /\ fetch'.found # None => fetch'.found.list = catalog
    <3>1. fetch \in SourceCall /\ catalog \in Seq(Tracks)
          BY <2>1 DEF QueueTypeOK, OrNone
    <3>2. CASE Enumerated(catalog, fetch.anchor) = NoSource
          BY <1>2, <3>2 DEF EnumerateSource
    <3>3. CASE Enumerated(catalog, fetch.anchor) # NoSource
      <4>1. PICK found \in Answer : found = Enumerated(catalog, fetch.anchor) /\ found.list = catalog
            BY <3>1, <3>3, EnumeratedAnswers
      <4>2. fetch' = [fetch EXCEPT !.found = found]
            BY <1>2, <3>3, <4>1 DEF EnumerateSource
      <4>3. fetch'.found = found
            BY <3>1, <4>2 DEF SourceCall
      <4>4. QED  BY <4>1, <4>3
    <3>4. QED  BY <3>2, <3>3
  <2>3. QED  BY <2>1, <2>2 DEF CatchInv, CaughtUp
<1>3. CASE DropSource
      BY <1>3 DEF DropSource, CatchInv, CaughtUp
<1>4. QED  BY <1>1, <1>2, <1>3

LEMMA ApplySourceCatches ==
    ASSUME QueueTypeOK, CatchInv, ApplySource \/ ApplySourceAndPlay
    PROVE  CatchInv'
<1>1. Whole(s) /\ fetch # None /\ fetch.found # None
      BY TypeWhole DEF ApplySource, ApplySourceAndPlay
<1>2. PICK bag \in SourceBags(fetch), t \in {s, Detached(s)} :
         s' = Replaced(t, "live", fetch.found.list, fetch.found.start, fetch.shuffle, bag)
      BY DEF ApplySource, ApplySourceAndPlay
<1>3. Whole(t)
      BY <1>1, <1>2, DetachedWhole
<1>4. s'.kind = "live" /\ s'.ctx = fetch.found.list
      BY <1>1, <1>2, <1>3, SourceContext, ReplacedWhole
<1>5. /\ fetch' = None /\ missed' = fetch.late /\ UNCHANGED <<catalog, signal>>
      /\ worker' = worker \/ worker' = Outdate(worker)
      BY DEF ApplySource, ApplySourceAndPlay, SourceShown, AdvanceIntentEpoch
<1>6. worker' # None /\ worker'.fresh => worker' = worker
      BY <1>5, OutdateFields
<1>7. ~fetch.late => fetch.found.list = catalog
      BY <1>1 DEF CatchInv
<1>8. QED  BY <1>4, <1>5, <1>6, <1>7 DEF CatchInv, CaughtUp

LEMMA QueueCommandCatches ==
    ASSUME QueueTypeOK, CatchInv,
           \/ \E atFront \in BOOLEAN : QueueItems(atFront)
           \/ \E i \in DOMAIN s.user : RemoveQueuedEntry(i)
           \/ \E mode \in Modes : SetRepeatMode(mode)
           \/ \E enabled \in BOOLEAN : SetShuffle(enabled)
    PROVE  CatchInv'
<1>1. s \in Snapshot
      BY TypeWhole
<1>2. ASSUME NEW atFront \in BOOLEAN, QueueItems(atFront)
      PROVE  CatchInv'
  <2>1. s'.ctx = s.ctx /\ s'.kind = s.kind
        BY <1>1, <1>2 DEF QueueItems, Snapshot
  <2>2. QED  BY <1>2, <2>1, ListSameCatches DEF QueueItems, AdvanceIntentEpoch
<1>3. ASSUME NEW i \in DOMAIN s.user, RemoveQueuedEntry(i)
      PROVE  CatchInv'
  <2>1. s'.ctx = s.ctx /\ s'.kind = s.kind
        BY <1>1, <1>3 DEF RemoveQueuedEntry, Snapshot
  <2>2. QED  BY <1>3, <2>1, ListSameCatches DEF RemoveQueuedEntry, AdvanceIntentEpoch
<1>4. ASSUME NEW mode \in Modes, SetRepeatMode(mode)
      PROVE  CatchInv'
  <2>1. s'.ctx = s.ctx /\ s'.kind = s.kind
        BY <1>1, <1>4 DEF SetRepeatMode, Snapshot
  <2>2. QED  BY <1>4, <2>1, ListSameCatches DEF SetRepeatMode
<1>5. ASSUME NEW enabled \in BOOLEAN, SetShuffle(enabled)
      PROVE  CatchInv'
  <2>1. s'.ctx = s.ctx /\ s'.kind = s.kind
        BY <1>1, <1>5 DEF SetShuffle, Snapshot
  <2>2. QED  BY <1>5, <2>1, ListSameCatches DEF SetShuffle, AdvanceIntentEpoch
<1>6. QED  BY <1>2, <1>3, <1>4, <1>5

LEMMA PlayCatches ==
    ASSUME QueueTypeOK, CatchInv, Play \/ Next_ \/ Previous \/ SelectEntry \/ Commit \/ GiveUp
    PROVE  CatchInv'
<1>1. ASSUME NEW e, NEW q, PlayEntry(e, q)
      PROVE  CatchInv'
      BY <1>1, ListSameCatches DEF PlayEntry, AdvanceIntentEpoch
<1>2. CASE Play \/ Next_ \/ Previous \/ SelectEntry
      BY <1>1, <1>2 DEF Play, Next_, Previous, SelectEntry
<1>3. CASE Commit
  <2>1. play.entry \in Entry /\ play.at \in Nat
        BY <1>3 DEF Commit, QueueTypeOK, OrNone, PlayCall
  <2>2. s'.ctx = s.ctx /\ s'.kind = s.kind
        BY <1>3, <2>1, TypeWhole, SwitchedWhole DEF Commit
  <2>3. QED  BY <1>3, <2>2, ListSameCatches DEF Commit
<1>4. CASE GiveUp
      BY <1>4, ListSameCatches DEF GiveUp
<1>5. QED  BY <1>2, <1>3, <1>4

LEMMA CatalogChangeCatches ==
    ASSUME QueueTypeOK, CatchInv, NEW list \in Edits, CatalogChange(list)
    PROVE  CatchInv'
<1>1. /\ signal' = (signal \/ s.kind = "live") /\ UNCHANGED <<s, worker, missed>>
      /\ fetch' = IF fetch = None \/ fetch.found = None THEN fetch ELSE [fetch EXCEPT !.late = TRUE]
      BY DEF CatalogChange
<1>2. fetch' # None /\ fetch'.found # None => fetch'.late
  <2>1. fetch # None => [fetch EXCEPT !.late = TRUE].late = TRUE
        BY DEF QueueTypeOK, OrNone, SourceCall
  <2>2. QED  BY <1>1, <2>1
<1>3. QED  BY <1>1, <1>2 DEF CatchInv, CaughtUp

LEMMA RebaseCatches ==
    ASSUME QueueTypeOK, CatchInv, RebaseStart \/ RebaseEnumerate \/ RebaseDrop
    PROVE  CatchInv'
<1>1. CASE RebaseStart
  <2>1. UNCHANGED <<s, catalog, fetch, missed>> /\ worker = None
        BY <1>1 DEF RebaseStart
  <2>2. CASE s.kind = "live"
    <3>1. worker' = [fresh |-> TRUE, cur |-> s.cur, anchor |-> s.anchor, found |-> None]
          BY <1>1, <2>2 DEF RebaseStart
    <3>2. worker'.found = None /\ worker' # None
      <4>1. s.cur \in OrNone(Entry) /\ s.anchor \in OrNone(Tracks \cup Plain)
            BY TypeWhole, Fields
      <4>2. worker' \in RebaseCall
            BY <3>1, <4>1 DEF OrNone, RebaseCall
      <4>3. QED  BY <3>1, <4>2, NoneApart
    <3>3. QED  BY <2>1, <2>2, <3>2 DEF CatchInv, CaughtUp
  <2>3. CASE s.kind # "live"
    <3>1. worker' = None
          BY <1>1, <2>3 DEF RebaseStart
    <3>2. QED  BY <2>1, <2>3, <3>1 DEF CatchInv, CaughtUp
  <2>4. QED  BY <2>2, <2>3
<1>2. CASE RebaseEnumerate
  <2> DEFINE found == RebuildEnumerated(catalog, worker.cur, worker.anchor)
  <2>1. /\ worker # None
        /\ worker' = IF found = NoSource THEN None ELSE [worker EXCEPT !.found = found]
        /\ missed' = (missed \/ found = NoSource)
        /\ UNCHANGED <<s, catalog, signal, fetch>>
        BY <1>2 DEF RebaseEnumerate
  <2>2. worker \in RebaseCall /\ catalog \in Seq(Tracks)
        BY <2>1 DEF QueueTypeOK, OrNone
  <2>3. found # NoSource => found \in Answer /\ found.list = catalog
        BY <2>2, RebuildAnswers
  <2> HIDE DEF found
  <2>4. CASE found = NoSource
        BY <2>1, <2>4 DEF CatchInv, CaughtUp
  <2>5. CASE found # NoSource
    <3>1. /\ worker' \in RebaseCall /\ worker'.found = found /\ worker'.fresh = worker.fresh
          BY <2>1, <2>2, <2>3, <2>5 DEF RebaseCall, OrNone
    <3>2. worker' # None
          BY <3>1, NoneApart
    <3>3. QED  BY <2>1, <2>3, <2>5, <3>1, <3>2 DEF CatchInv, CaughtUp
  <2>6. QED  BY <2>4, <2>5
<1>3. CASE RebaseDrop
      BY <1>3 DEF RebaseDrop, CatchInv, CaughtUp
<1>4. QED  BY <1>1, <1>2, <1>3

LEMMA NextCatches ==
    ASSUME Kept, CatchInv, [Next]_vars
    PROVE  CatchInv'
<1>1. QueueTypeOK
      BY DEF Kept
<1>2. ASSUME NEW n \in 0..2, NEW start \in 1..2, start <= n \/ start = 1,
             SetContext(n, start) \/ ReplaceContextAndPlay(n, start)
      PROVE  CatchInv'
      BY <1>1, <1>2, ContextCommandCatches
<1>3. ASSUME NEW anchor \in Tracks \cup {None}, NEW shuffle \in BOOLEAN, NEW andPlay \in BOOLEAN,
             SetSource(anchor, shuffle, andPlay)
      PROVE  CatchInv'
      BY <1>1, <1>3, SourceCatches
<1>4. CASE EnumerateSource \/ DropSource \/ ApplySource \/ ApplySourceAndPlay
      BY <1>1, <1>4, SourceCatches, ApplySourceCatches
<1>5. CASE ClearQueue
  <2>1. s'.kind = "none"
        BY <1>5 DEF ClearQueue, EmptySession
  <2>2. QED  BY <1>1, <1>5, <2>1, PlainCatches DEF ClearQueue, AdvanceIntentEpoch
<1>6. CASE \/ \E atFront \in BOOLEAN : QueueItems(atFront)
           \/ \E i \in DOMAIN s.user : RemoveQueuedEntry(i)
           \/ \E mode \in Modes : SetRepeatMode(mode)
           \/ \E enabled \in BOOLEAN : SetShuffle(enabled)
      BY <1>1, <1>6, QueueCommandCatches
<1>7. CASE Play \/ Next_ \/ Previous \/ SelectEntry \/ Commit \/ GiveUp
      BY <1>1, <1>7, PlayCatches
<1>8. ASSUME NEW list \in Edits, CatalogChange(list)
      PROVE  CatchInv'
      BY <1>1, <1>8, CatalogChangeCatches
<1>9. CASE RebaseStart \/ RebaseEnumerate \/ RebaseDrop
      BY <1>1, <1>9, RebaseCatches
<1>10. CASE RebaseApply
  <2>1. s'.kind = "live" /\ s'.ctx = worker.found.list
        BY <1>10, RebaseApplyKeeps
  <2>2. /\ worker # None /\ worker.found # None /\ worker.fresh /\ worker' = None
        /\ UNCHANGED <<catalog, signal, fetch>>
        BY <1>10 DEF RebaseApply
  <2>3. QED  BY <2>1, <2>2 DEF CatchInv, CaughtUp
<1>11. CASE Restart
  <2>1. s'.kind = "live" /\ ~missed' => s'.ctx = catalog
        BY <1>11, RestartKeeps
  <2>2. worker' = None /\ fetch' = None /\ UNCHANGED catalog
        BY <1>11 DEF Restart
  <2>3. QED  BY <2>1, <2>2 DEF CatchInv, CaughtUp
<1>12. CASE UNCHANGED vars
      BY <1>1, <1>12, ListSameCatches DEF vars
<1>13. QED  BY <1>2, <1>3, <1>4, <1>5, <1>6, <1>7, <1>8, <1>9, <1>10, <1>11, <1>12 DEF Next

LEMMA InitCatches ==
    ASSUME Init
    PROVE  CatchInv
<1>1. s.kind = "live" => s.ctx = catalog
  <2>1. CASE s = EmptySession
        BY <2>1 DEF EmptySession
  <2>2. CASE s = RestoredSession
        BY <2>2, RestoredWhole DEF Init
  <2>3. QED  BY <2>1, <2>2 DEF Init
<1>2. worker = None /\ fetch = None
      BY DEF Init
<1>3. QED  BY <1>1, <1>2 DEF CatchInv, CaughtUp

-----------------------------------------------------------------------------
(* A late source                                                            *)

\* What is shown was asked for by a command that was given; a source that has not
\* been outdated is the answer to the last one.
NumberInv ==
    /\ shown[2] <= shown[1]
    /\ fetch # None /\ fetch.fresh => fetch.number = shown[1]

\* A step that numbers nothing.
LEMMA ShownSameNumbers ==
    ASSUME QueueTypeOK, NumberInv, UNCHANGED shown,
           \/ fetch' = fetch
           \/ fetch' = Outdate(fetch)
           \/ fetch' = None
           \/ fetch' # None /\ fetch # None /\ fetch'.number = fetch.number /\ fetch'.fresh = fetch.fresh
    PROVE  NumberInv' /\ shown'[2] >= shown[2]
<1>1. shown[1] \in Nat /\ shown[2] \in Nat
      BY ShownType
<1>2. fetch' # None /\ fetch'.fresh => fetch # None /\ fetch.fresh /\ fetch'.number = fetch.number
  <2>1. CASE fetch' = fetch
        BY <2>1
  <2>2. CASE fetch' = Outdate(fetch)
    <3>1. fetch' = None \/ fetch'.fresh = FALSE
          BY <2>2, OutdateFields
    <3>2. QED  BY <3>1
  <2>3. QED  BY <2>1, <2>2
<1>3. fetch' # None /\ fetch'.fresh => fetch'.number = shown'[1]
      BY <1>2 DEF NumberInv
<1>4. QED  BY <1>1, <1>3 DEF NumberInv

\* A command that is shown at once.
LEMMA ShownNowNumbers ==
    ASSUME QueueTypeOK, NumberInv, Shown(shown[1] + 1), fetch' = Outdate(fetch)
    PROVE  NumberInv' /\ shown'[2] >= shown[2]
<1>1. shown[1] \in Nat /\ shown[2] \in Nat
      BY ShownType
<1>2. ~(fetch' # None /\ fetch'.fresh)
      BY OutdateFields
<1>3. shown'[1] = shown[1] + 1 /\ shown'[2] = shown[1] + 1
      BY DEF Shown
<1>4. QED  BY <1>1, <1>2, <1>3 DEF NumberInv

LEMMA NextNumbers ==
    ASSUME Kept, NumberInv, [Next]_vars
    PROVE  NumberInv' /\ shown'[2] >= shown[2]
<1>1. QueueTypeOK /\ shown[1] \in Nat /\ shown[2] \in Nat
      BY ShownType DEF Kept
<1>2. ASSUME NEW n \in 0..2, NEW start \in 1..2,
             SetContext(n, start) \/ ReplaceContextAndPlay(n, start)
      PROVE  NumberInv' /\ shown'[2] >= shown[2]
      BY <1>1, <1>2, ShownNowNumbers DEF SetContext, ReplaceContextAndPlay
<1>3. ASSUME NEW anchor \in Tracks \cup {None}, NEW shuffle \in BOOLEAN, NEW andPlay \in BOOLEAN,
             SetSource(anchor, shuffle, andPlay)
      PROVE  NumberInv' /\ shown'[2] >= shown[2]
  <2>1. shown' = <<shown[1] + 1, shown[2]>> /\ fetch'.number = shown[1] + 1
        BY <1>3 DEF SetSource
  <2>2. shown'[1] = shown[1] + 1 /\ shown'[2] = shown[2]
        BY <2>1
  <2>3. QED  BY <1>1, <2>1, <2>2 DEF NumberInv
<1>4. CASE EnumerateSource
  <2>1. fetch # None /\ UNCHANGED shown
        BY <1>4 DEF EnumerateSource
  <2>2. fetch \in SourceCall
        BY <1>1, <2>1 DEF QueueTypeOK, OrNone
  <2>3. \/ fetch' = None
        \/ fetch' = [fetch EXCEPT !.found = Enumerated(catalog, fetch.anchor)]
        BY <1>4 DEF EnumerateSource
  <2>4. \/ fetch' = None
        \/ fetch'.number = fetch.number /\ fetch'.fresh = fetch.fresh
        BY <2>2, <2>3 DEF SourceCall
  <2>5. QED  BY <1>1, <2>1, <2>4, ShownSameNumbers
<1>5. CASE ApplySource \/ ApplySourceAndPlay
  <2>1. /\ fetch # None /\ fetch.fresh /\ fetch' = None
        /\ shown' = <<shown[1], fetch.number>>
        BY <1>5 DEF ApplySource, ApplySourceAndPlay, SourceShown
  <2>2. shown'[1] = shown[1] /\ shown'[2] = shown[1]
        BY <2>1 DEF NumberInv
  <2>3. QED  BY <1>1, <2>1, <2>2 DEF NumberInv
<1>6. CASE ClearQueue
      BY <1>1, <1>6, ShownNowNumbers DEF ClearQueue
<1>7. CASE \/ \E atFront \in BOOLEAN : QueueItems(atFront)
           \/ \E i \in DOMAIN s.user : RemoveQueuedEntry(i)
           \/ \E mode \in Modes : SetRepeatMode(mode)
           \/ \E enabled \in BOOLEAN : SetShuffle(enabled)
      BY <1>1, <1>7, ShownSameNumbers
      DEF QueueItems, RemoveQueuedEntry, SetRepeatMode, SetShuffle
<1>8. CASE Play \/ Next_ \/ Previous \/ SelectEntry
  <2>1. UNCHANGED shown /\ fetch' = Outdate(fetch)
        BY <1>8 DEF Play, Next_, Previous, SelectEntry, PlayEntry
  <2>2. QED  BY <1>1, <2>1, ShownSameNumbers
<1>9. CASE DropSource \/ Commit \/ GiveUp \/ RebaseStart \/ RebaseEnumerate \/ RebaseDrop
             \/ RebaseApply \/ Restart
  <2>1. UNCHANGED shown /\ (fetch' = fetch \/ fetch' = None)
        BY <1>9 DEF DropSource, Commit, GiveUp, RebaseStart, RebaseEnumerate, RebaseDrop,
                    RebaseApply, Restart
  <2>2. QED  BY <1>1, <2>1, ShownSameNumbers
<1>10. ASSUME NEW list \in Edits, CatalogChange(list)
       PROVE  NumberInv' /\ shown'[2] >= shown[2]
  <2>1. UNCHANGED shown /\ fetch' \in {fetch, [fetch EXCEPT !.late = TRUE]}
        BY <1>10 DEF CatalogChange
  <2>2. fetch' = None => fetch' = fetch \/ fetch' = None
        OBVIOUS
  <2>3. CASE fetch = None
        BY <1>1, <1>10, <2>1, <2>3, ShownSameNumbers DEF CatalogChange
  <2>4. CASE fetch # None
    <3>1. fetch \in SourceCall
          BY <1>1, <2>4 DEF QueueTypeOK, OrNone
    <3>2. fetch'.number = fetch.number /\ fetch'.fresh = fetch.fresh
          BY <2>1, <3>1 DEF SourceCall
    <3>3. QED  BY <1>1, <2>1, <2>4, <3>2, ShownSameNumbers
  <2>5. QED  BY <2>3, <2>4
<1>11. CASE UNCHANGED vars
      BY <1>1, <1>11, ShownSameNumbers DEF vars
<1>12. QED
      BY <1>2, <1>3, <1>4, <1>5, <1>6, <1>7, <1>8, <1>9, <1>10, <1>11 DEF Next

-----------------------------------------------------------------------------
(* The theorems                                                             *)

\* The place of the session in its context, in a kept state.
LEMMA KeptPlace ==
    ASSUME Kept
    PROVE  PlaceKept /\ PlansAgree
<1>1. QueueTypeOK /\ PlaceInv /\ Whole(s)
      BY TypeWhole DEF Kept
<1>2. CurrentTracked
  <2>1. SUFFICES ASSUME ~raced, play = None, s.cur # None, s.cur.origin = "context",
                        s.cur.id \in Range(s.ctx), ~LeftBehind
                 PROVE  CurrentMatches(s)
        BY DEF CurrentTracked
  <2>2. s.cur.index # 0
        BY <2>1 DEF LeftBehind
  <2>3. s.ci \in 1..Len(s.ctx) /\ s.ctx[s.ci] = s.cur.id
        BY <1>1, <2>1, <2>2 DEF PlaceInv, Tracked
  <2>4. QED  BY <2>1, <2>3 DEF CurrentMatches, IsValidIndex, Len_
<1>3. ResumeAgrees
  <2>1. SUFFICES ASSUME ~raced, play = None, s.repeat # "one", Len_(s) > 0,
                        ~StartsOver, ~LeftBehind
                 PROVE  s.ri = IF WalkIndices(s) = <<>> THEN 0 ELSE WalkIndices(s)[1]
        BY DEF ResumeAgrees
  <2>2. s.ri = WalkFirst(s)
        BY <1>1, <2>1 DEF PlaceInv, Resumes, StartsOver, LeftBehind
  <2>3. Len_(s) # 0
        BY <2>1
  <2>4. QED  BY <1>1, <2>2, <2>3, WalkEnters
<1>4. NoGap
      BY <1>1, GapOfWhole
<1>5. QED  BY <1>1, <1>2, <1>3, <1>4, PlansOfWhole DEF PlaceKept

\* The session keeps its place: whatever commands, rebases, plays and restarts led
\* here, its snapshot is well formed, an entry of the context that is current is
\* found at the session's place in it, the stored place to resume at is where the
\* walk goes on, and Next neither skips nor repeats an entry of the context
\* (applyRebuiltSourceContextLocked, normalizeResumeContextIndex, switchCurrentLocked).
THEOREM SessionKeepsItsPlace == Spec => []PlaceKept
<1>1. Init => Kept
      BY InitKeeps
<1>2. Kept /\ [Next]_vars => Kept'
      BY NextKeeps
<1>3. Kept => PlaceKept
      BY KeptPlace
<1>4. QED  BY <1>1, <1>2, <1>3, PTL DEF Spec

\* The walk that Next and the preload follow, the upcoming list, the published next
\* entry and the count of what is upcoming agree in every reachable session, with
\* every combination of shuffle, repeat and detached entry (newNextActionIterator,
\* buildUpcomingEntries, firstUpcomingEntry, upcomingEntryCount).
THEOREM PlansAlwaysAgree == Spec => []PlansAgree
<1>1. Init => Kept
      BY InitKeeps
<1>2. Kept /\ [Next]_vars => Kept'
      BY NextKeeps
<1>3. Kept => PlansAgree
      BY KeptPlace
<1>4. QED  BY <1>1, <1>2, <1>3, PTL DEF Spec

\* With the rebase worker idle and no change dropped, a live context is the catalog:
\* no change that comes while a rebase enumerates, or while a source is fetched, is
\* lost without the session knowing (runCatalogRebaseLoop, rebaseCatalogContext).
THEOREM LiveContextCatchesUp == Spec => []CaughtUp
<1>1. Init => Kept /\ CatchInv
      BY InitKeeps, InitCatches
<1>2. Kept /\ CatchInv /\ [Next]_vars => (Kept /\ CatchInv)'
      BY NextKeeps, NextCatches
<1>3. CatchInv => CaughtUp
      BY DEF CatchInv
<1>4. QED  BY <1>1, <1>2, <1>3, PTL DEF Spec

\* A source that answers after a later command set the context never replaces it
\* (advanceIntentEpochLocked and the check of the epoch in SetSource and
\* ReplaceSourceAndPlay).
THEOREM LateSourceNeverWins == Spec => LatestIntentWins
<1>1. Init => Kept /\ NumberInv
  <2>1. Init => NumberInv
        BY DEF Init, NumberInv
  <2>2. QED  BY <2>1, InitKeeps
<1>2. Kept /\ NumberInv /\ [Next]_vars => (Kept /\ NumberInv)' /\ shown'[2] >= shown[2]
      BY NextKeeps, NextNumbers
<1>3. Kept /\ NumberInv /\ [Next]_vars => [shown'[2] >= shown[2]]_vars
      BY <1>2
<1>4. QED  BY <1>1, <1>2, <1>3, PTL DEF Spec, LatestIntentWins

=============================================================================
