--------------------------- MODULE PlaybackQueue ---------------------------
(* What the playback session plays next (src/internal/playback/session.go):
   a context (an album, a playlist, a plain list) that is walked in order or
   along a shuffle bag, a queue of entries the user asked for that goes before
   it, and the entry being played.  A context with a live source is rebuilt
   whenever the catalog changes: a worker enumerates the source without the
   session lock and then replaces the list under the entry being played.

   Indices count from 1 and 0 stands for the code's -1.  Which entries can be
   played, what the player does and the pending retries are the business of
   PlaybackTransport; here a chosen entry is committed or given up.          *)
EXTENDS Integers, Sequences, FiniteSets, TLC, SequencesExt, Functions

CONSTANTS
    Tracks,       \* entry keys the live source can hold
    Listing,      \* the live source's entries at the start
    Plain,        \* entry ids of plain contexts (nextEntryIDLocked("ctx"))
    Queued,       \* entry ids of queued entries (nextEntryIDLocked("queued"))
    None,
    MaxEvents     \* bound on the user's commands, changes of the catalog and restarts

ASSUME QueueConstants ==
    /\ MaxEvents \in Nat
    /\ IsFiniteSet(Tracks) /\ IsFiniteSet(Plain)
    /\ Listing \in Seq(Tracks) /\ IsInjective(Listing)
    /\ Listing # <<>>
    /\ None \notin Tracks \cup Plain \cup Queued

VARIABLES
    s,         \* the session's snapshot
    catalog,   \* what an enumeration of the live source returns
    signal,    \* catalogRebaseCh, a channel of capacity one
    worker,    \* the rebase in progress, or None
    fetch,     \* SetSource or ReplaceSourceAndPlay in progress, or None
    play,      \* playEntry between its first lock and its commit, or None
    events,    \* commands, changes and restarts so far
    missed,    \* history: a change of the catalog reached no rebase
    raced,     \* history: the context was replaced under a call to playEntry
    shown      \* history: <<number of the last command that set the context,
               \*            number of the one that set what is shown>>

vars == <<s, catalog, signal, worker, fetch, play, events, missed, raced, shown>>

Modes == {"off", "all", "one"}
EmptySession ==
    [kind |-> "none", ctx |-> <<>>, anchor |-> None, ci |-> 0, ri |-> 0, bag |-> <<>>,
     user |-> <<>>, cur |-> None, repeat |-> "off", shuffle |-> FALSE]

\* What the snapshot and the calls in flight are made of.
OrNone(S) == {None} \cup S
Entry == [id : Tracks \cup Plain \cup Queued, origin : {"context", "queued"}, index : Nat]
Snapshot ==
    [kind : {"none", "plain", "live"}, ctx : Seq(Tracks \cup Plain),
     anchor : OrNone(Tracks \cup Plain), ci : Nat, ri : Nat, bag : Seq(Nat),
     user : Seq(Queued), cur : OrNone(Entry), repeat : Modes, shuffle : BOOLEAN]
Answer == {f \in [list : Seq(Tracks), start : Nat] : f.start \in 1 .. Len(f.list)}
RebaseCall ==
    [fresh : BOOLEAN, cur : OrNone(Entry), anchor : OrNone(Tracks \cup Plain),
     found : OrNone(Answer)]
SourceCall ==
    [fresh : BOOLEAN, anchor : OrNone(Tracks), shuffle : BOOLEAN, andPlay : BOOLEAN,
     found : OrNone(Answer), late : BOOLEAN, number : Nat]
PlayCall == [entry : Entry, at : Nat]

ASSUME NoneApart == None \notin Entry \cup Answer \cup RebaseCall \cup SourceCall \cup PlayCall

-----------------------------------------------------------------------------
(* Reading the snapshot.                                                      *)

Len_(t) == Len(t.ctx)
EntryAt(t, i) == [id |-> t.ctx[i], origin |-> "context", index |-> i]
IsValidIndex(t, i) == i \in 1 .. Len_(t)
IndexIn(seq, x) == IF x \in Range(seq) THEN CHOOSE i \in DOMAIN seq : seq[i] = x ELSE 0

IdOf(entry) == IF entry = None THEN None ELSE entry.id

CurrentMatches(t) ==
    /\ t.cur # None /\ t.cur.origin = "context"
    /\ IsValidIndex(t, t.ci) /\ t.ctx[t.ci] = t.cur.id

\* detachedCurrentContextIndex: the place an entry had that is no longer there.
DetachedIndex(t) ==
    IF t.cur # None /\ t.kind # "none" /\ t.cur.origin = "context" /\ ~CurrentMatches(t)
    THEN t.cur.index ELSE 0

\* A cycle over all entries that begins at the anchor; which of them the
\* scoring picks depends on titles and artists and is left open.
Cycles(n, anchor) ==
    {b \in [1 .. n -> 1 .. n] :
        IsInjective(b) /\ (anchor \in 1 .. n => b[1] = anchor)}
AnchorIndex(t) ==
    IF IsValidIndex(t, t.ci) THEN t.ci ELSE IF IsValidIndex(t, t.ri) THEN t.ri ELSE 0
IsCycle(bag, n) == Len(bag) = n /\ Range(bag) = 1 .. n
EffectiveCycle(t) ==
    IF IsCycle(t.bag, Len_(t)) THEN t.bag
    ELSE CHOOSE b \in Cycles(Len_(t), AnchorIndex(t)) : TRUE

DefaultFirst(t) ==
    IF Len_(t) = 0 THEN 0 ELSE IF t.shuffle THEN EffectiveCycle(t)[1] ELSE 1

\* nextContextIndexFromAnchor and previousContextIndexFromAnchor
Order(t) == IF t.shuffle THEN EffectiveCycle(t) ELSE [k \in 1 .. Len_(t) |-> k]
NextFrom(t, i, ignoreRepeatOne) ==
    LET at == IndexIn(Order(t), i)
    IN  IF ~IsValidIndex(t, i) THEN DefaultFirst(t)
        ELSE IF ~ignoreRepeatOne /\ t.repeat = "one" THEN i
        ELSE IF at < Len_(t) THEN Order(t)[at + 1]
        ELSE IF t.repeat = "all" THEN Order(t)[1]
        ELSE 0
PreviousFrom(t, i) ==
    LET at == IndexIn(Order(t), i)
    IN  IF ~IsValidIndex(t, i) THEN 0
        ELSE IF at > 1 THEN Order(t)[at - 1]
        ELSE IF at = 1 /\ t.repeat = "all" THEN Order(t)[Len_(t)]
        ELSE 0

NextDetached(t, d) ==
    IF Len_(t) = 0 THEN 0
    ELSE IF t.shuffle THEN IF IsValidIndex(t, t.ri) THEN t.ri ELSE DefaultFirst(t)
    ELSE IF d = 0 THEN DefaultFirst(t)
    ELSE IF d <= Len_(t) THEN d
    ELSE IF t.repeat = "all" THEN 1 ELSE 0
PreviousDetached(t, d) ==
    IF Len_(t) = 0 THEN 0
    ELSE IF t.shuffle THEN IF IsValidIndex(t, t.ci) THEN PreviousFrom(t, t.ci) ELSE 0
    ELSE IF d <= 1 THEN IF t.repeat = "all" THEN Len_(t) ELSE 0
    ELSE IF d > Len_(t) + 1 THEN Len_(t)
    ELSE d - 1

\* normalizeResumeContextIndex: where the context goes on.
ResumeIndex(t) ==
    IF Len_(t) = 0 THEN 0
    ELSE IF CurrentMatches(t) THEN NextFrom(t, t.ci, FALSE)
    ELSE IF DetachedIndex(t) # 0 THEN NextDetached(t, DetachedIndex(t))
    ELSE IF t.cur # None /\ t.cur.origin # "context" /\ IsValidIndex(t, t.ci)
         THEN NextFrom(t, t.ci, FALSE)
    ELSE IF IsValidIndex(t, t.ri) THEN t.ri
    ELSE IF t.cur = None /\ IsValidIndex(t, t.ci) THEN t.ci
    ELSE DefaultFirst(t)

-----------------------------------------------------------------------------
(* Four answers to "what comes next": the walk Next and the preload use, the
   list shown to the user, the one entry published, and the counts.          *)

QueuedEntry(id) == [id |-> id, origin |-> "queued", index |-> 0]
QueuedEntries(t) == [k \in DOMAIN t.user |-> QueuedEntry(t.user[k])]
Entries(t, indices) == [k \in DOMAIN indices |-> EntryAt(t, indices[k])]
Span(from, to) == [k \in 1 .. (IF to < from THEN 0 ELSE to - from + 1) |-> from + k - 1]

\* Mutant: an entry that has left the context counts as not of the context.
FirstUpcomingIndexUndetached(t) ==
    IF Len_(t) = 0 THEN 0
    ELSE IF CurrentMatches(t) THEN t.ci + 1
    ELSE IF IsValidIndex(t, t.ri) THEN t.ri
    ELSE 1
FirstUpcomingIndex(t) ==
    IF Len_(t) = 0 THEN 0
    ELSE IF CurrentMatches(t) THEN t.ci + 1
    ELSE IF DetachedIndex(t) # 0
         THEN IF NextDetached(t, DetachedIndex(t)) = 0 THEN Len_(t) + 1
              ELSE NextDetached(t, DetachedIndex(t))
    ELSE IF IsValidIndex(t, t.ri) THEN t.ri
    ELSE 1

\* newNextActionIterator and nextContextCandidate: from a start to the end of
\* the order, and when it repeats, from its beginning up to a limit.
WalkIndices(t) ==
    IF t.shuffle
    THEN LET cycle == EffectiveCycle(t)
             here == IF CurrentMatches(t) THEN IndexIn(cycle, t.ci) ELSE 0
             back == IF ~CurrentMatches(t) /\ IsValidIndex(t, t.ri)
                     THEN IndexIn(cycle, t.ri) ELSE 0
             start == IF here # 0 THEN here + 1 ELSE IF back # 0 THEN back ELSE 1
             wrap == IF t.repeat # "all" THEN 0
                     ELSE IF here # 0 THEN IF Len(cycle) = 1 THEN 1 ELSE here - 1
                     ELSE IF back # 0 THEN back - 1 ELSE 0
         IN  SubSeq(cycle, start, Len(cycle)) \o SubSeq(cycle, 1, wrap)
    ELSE LET start == FirstUpcomingIndex(t)
             wrap == IF t.repeat # "all" THEN 0
                     ELSE IF CurrentMatches(t) THEN IF Len_(t) = 1 THEN 1 ELSE t.ci - 1
                     ELSE start - 1
         IN  Span(start, Len_(t)) \o Span(1, wrap)
NextWalk(t) ==
    (IF t.repeat = "one" /\ t.cur # None THEN <<t.cur>> ELSE <<>>)
        \o QueuedEntries(t) \o (IF Len_(t) = 0 THEN <<>> ELSE Entries(t, WalkIndices(t)))

\* buildUpcomingEntries
UpcomingIndices(t) ==
    LET cycle == EffectiveCycle(t)
        here == IF CurrentMatches(t) THEN IndexIn(cycle, t.ci) ELSE 0
        back == IF IsValidIndex(t, t.ri) THEN IndexIn(cycle, t.ri) ELSE 0
        start == CASE CurrentMatches(t) -> t.ci + 1
                   [] ~CurrentMatches(t) /\ DetachedIndex(t) # 0 ->
                        IF NextDetached(t, DetachedIndex(t)) = 0 THEN Len_(t) + 1
                        ELSE NextDetached(t, DetachedIndex(t))
                   [] ~CurrentMatches(t) /\ DetachedIndex(t) = 0 /\ IsValidIndex(t, t.ri) -> t.ri
                   [] OTHER -> 1
    IN  CASE t.shuffle /\ here # 0 ->
               SubSeq(cycle, here + 1, Len(cycle))
                 \o (IF t.repeat = "all" THEN SubSeq(cycle, 1, here - 1) ELSE <<>>)
                 \o (IF t.repeat = "all" /\ Len(cycle) = 1 THEN cycle ELSE <<>>)
          [] t.shuffle /\ here = 0 /\ back # 0 ->
               SubSeq(cycle, back, Len(cycle))
                 \o (IF t.repeat = "all" THEN SubSeq(cycle, 1, back - 1) ELSE <<>>)
          [] t.shuffle /\ here = 0 /\ back = 0 -> cycle
          [] OTHER ->
               Span(start, Len_(t))
                 \o (IF t.repeat # "all" THEN <<>>
                     ELSE IF CurrentMatches(t)
                     THEN Span(1, t.ci - 1) \o (IF Len_(t) = 1 THEN <<1>> ELSE <<>>)
                     ELSE Span(1, start - 1))
Upcoming(t) ==
    QueuedEntries(t) \o (IF Len_(t) = 0 THEN <<>> ELSE Entries(t, UpcomingIndices(t)))

\* firstUpcomingEntry, published as NextPlanned; <<>> when there is none.
FirstUpcoming(t) ==
    LET cycle == EffectiveCycle(t)
        here == IndexIn(cycle, t.ci)
        start == FirstUpcomingIndex(t)
        one(i) == <<EntryAt(t, i)>>
    IN  IF t.user # <<>> THEN <<QueuedEntry(t.user[1])>>
        ELSE IF Len_(t) = 0 THEN <<>>
        ELSE IF t.shuffle
        THEN IF CurrentMatches(t)
             THEN IF here < Len(cycle) THEN one(cycle[here + 1])
                  ELSE IF t.repeat = "all" THEN one(cycle[1]) ELSE <<>>
             ELSE IF IsValidIndex(t, t.ri) THEN one(t.ri) ELSE one(cycle[1])
        ELSE IF start <= Len_(t) THEN one(start)
        ELSE IF /\ t.repeat = "all"
                /\ IF CurrentMatches(t) THEN t.ci > 1 \/ Len_(t) = 1 ELSE start > 1
             THEN one(1)
        ELSE <<>>

\* upcomingEntryCount
UpcomingCount(t) ==
    LET n == Len_(t)
        cycle == EffectiveCycle(t)
        here == IndexIn(cycle, t.ci)
        back == IndexIn(cycle, t.ri)
        start == FirstUpcomingIndex(t)
        repeats == t.repeat = "all"
        again(k) == IF repeats THEN k ELSE 0
    IN  Len(t.user) +
        (IF n = 0 THEN 0
         ELSE IF t.shuffle
         THEN IF CurrentMatches(t) THEN n - here + again(here - 1 + (IF n = 1 THEN 1 ELSE 0))
              ELSE IF back # 0 THEN n - back + 1 + again(back - 1)
              ELSE n
         ELSE (IF start <= n THEN n - start + 1 ELSE 0) +
              again(IF CurrentMatches(t) THEN t.ci - 1 + (IF n = 1 THEN 1 ELSE 0)
                    ELSE start - 1))

\* The first entry of buildPreviousActionPlan, as an index of the context.
PreviousIndex(t) ==
    IF Len_(t) = 0 \/ t.cur = None THEN 0
    ELSE IF t.cur.origin = "queued" THEN IF IsValidIndex(t, t.ci) THEN t.ci ELSE 0
    ELSE IF CurrentMatches(t) THEN PreviousFrom(t, t.ci)
    ELSE IF DetachedIndex(t) # 0 THEN PreviousDetached(t, DetachedIndex(t))
    ELSE 0

-----------------------------------------------------------------------------
(* Changing the snapshot.                                                     *)

\* advanceIntentEpochLocked: what was begun before is out of date.
Outdate(r) == IF r = None THEN None ELSE [r EXCEPT !.fresh = FALSE]
AdvanceIntentEpoch == worker' = Outdate(worker)
Event == events < MaxEvents /\ events' = events + 1

Bags_(shuffle, n, anchor) == IF shuffle THEN Cycles(n, anchor) ELSE {<<>>}

\* The context is replaced from a start; the queue of the user goes with it.
Replaced(t, kind, list, start, shuffle, bag) ==
    [t EXCEPT !.kind = kind, !.ctx = list, !.ci = start, !.shuffle = shuffle, !.bag = bag,
              !.ri = IF list = <<>> THEN 0 ELSE start, !.user = <<>>,
              !.anchor = IF kind = "live" THEN list[start] ELSE None]

\* detachCurrentContextLocked
Detached(t) ==
    IF t.cur = None \/ t.cur.origin # "context" THEN t ELSE [t EXCEPT !.cur.index = 0]

\* switchCurrentLocked and setCurrentLocked: an entry of the queue is taken out
\* of it by its place, an entry of the context moves the place in the context.
SwitchCurrent(t, entry, queueIndex) ==
    LET taken == [t EXCEPT
            !.user = IF entry.origin = "queued" /\ queueIndex \in DOMAIN @
                     THEN RemoveAt(@, queueIndex) ELSE @,
            !.cur = entry,
            !.ci = IF entry.origin = "context" /\ t.kind # "none" THEN entry.index ELSE @]
    IN  [taken EXCEPT !.ri = ResumeIndex(taken)]

\* EnumerateSource and findSourceAnchorIndex: an empty source and a lost anchor
\* are errors.
NoSource == [list |-> <<>>, start |-> 0]
Enumerated(list, anchor) ==
    IF list = <<>> THEN NoSource
    ELSE IF anchor = None THEN [list |-> list, start |-> 1]
    ELSE IF anchor \in Range(list) THEN [list |-> list, start |-> IndexIn(list, anchor)]
    ELSE NoSource

\* enumerateSourceForContextRebuild: the current entry is the anchor when it is
\* of the context, and only then a lost anchor is given up for the first entry.
RebuildEnumerated(list, cur, anchor) ==
    IF cur = None \/ cur.origin # "context" THEN Enumerated(list, anchor)
    ELSE IF Enumerated(list, cur.id) = NoSource THEN Enumerated(list, None)
    ELSE Enumerated(list, cur.id)

\* Mutant: the current entry keeps its old place.
RebuiltOldPlace(t, found, bag) ==
    LET t1 == [t EXCEPT !.ctx = found.list, !.anchor = found.list[found.start], !.bag = bag]
    IN  [t1 EXCEPT !.ri = ResumeIndex(t1)]

\* applyRebuiltSourceContextLocked: the current entry is looked up in the new
\* list; without it the context goes on from where it would have resumed.
Rebuilt(t, found, bag) ==
    LET n == Len(found.list)
        isContext == t.cur # None /\ t.cur.origin = "context"
        at == IF isContext THEN IndexIn(found.list, t.cur.id) ELSE 0
        t1 == [t EXCEPT !.ctx = found.list, !.anchor = found.list[found.start],
                        !.bag = bag, !.ci = found.start, !.ri = found.start]
        t2 == [t1 EXCEPT !.ci = CASE at # 0 -> at
                                  [] at = 0 /\ t.ri \in 1 .. n -> t.ri
                                  [] OTHER -> found.start,
                         !.cur = IF at = 0 THEN @ ELSE EntryAt(t1, at)]
    IN  [t2 EXCEPT !.ri = ResumeIndex(t2)]

-----------------------------------------------------------------------------
(* Commands that replace the context.                                         *)

Shown(n) == shown' = <<shown[1] + 1, n>>
FreshPlain(n) ==
    LET free == Plain \ (Range(s.ctx) \cup {IdOf(s.cur), IF play = None THEN None ELSE play.entry.id})
    IN  IF n <= Cardinality(free) THEN {CHOOSE l \in [1 .. n -> free] : IsInjective(l)} ELSE {}

SetContext(n, start) ==
    /\ Event
    /\ \E list \in FreshPlain(n), bag \in Bags_(s.shuffle, n, start) :
          s' = Replaced(Detached(s), "plain", list, start, s.shuffle, bag)
    /\ AdvanceIntentEpoch
    /\ fetch' = Outdate(fetch)
    /\ Shown(shown[1] + 1)
    /\ raced' = (raced \/ play # None)
    /\ UNCHANGED <<catalog, signal, play, missed>>

ReplaceContextAndPlay(n, start) ==
    /\ Event
    /\ play = None
    /\ \E list \in FreshPlain(n), bag \in Bags_(s.shuffle, n, start) :
          /\ s' = Replaced(s, "plain", list, start, s.shuffle, bag)
          /\ play' = IF n = 0 THEN None ELSE [entry |-> EntryAt(s', start), at |-> 0]
    /\ AdvanceIntentEpoch
    /\ fetch' = Outdate(fetch)
    /\ Shown(shown[1] + 1)
    /\ UNCHANGED <<catalog, signal, missed, raced>>

ClearQueue ==
    /\ Event
    /\ s' = [EmptySession EXCEPT !.cur = s.cur, !.repeat = s.repeat, !.shuffle = s.shuffle]
    /\ AdvanceIntentEpoch
    /\ fetch' = Outdate(fetch)
    /\ Shown(shown[1] + 1)
    /\ raced' = (raced \/ play # None)
    /\ UNCHANGED <<catalog, signal, play, missed>>

\* SetSource and ReplaceSourceAndPlay up to their first unlock.
SetSource(anchor, shuffle, andPlay) ==
    /\ Event
    /\ fetch = None
    /\ fetch' = [fresh |-> TRUE, anchor |-> anchor, shuffle |-> shuffle, andPlay |-> andPlay,
                 found |-> None, late |-> FALSE, number |-> shown[1] + 1]
    /\ AdvanceIntentEpoch
    /\ shown' = <<shown[1] + 1, shown[2]>>
    /\ UNCHANGED <<s, catalog, signal, play, missed, raced>>

EnumerateSource ==
    /\ fetch # None /\ fetch.found = None
    /\ LET found == Enumerated(catalog, fetch.anchor)
       IN  fetch' = IF found = NoSource THEN None ELSE [fetch EXCEPT !.found = found]
    /\ UNCHANGED <<s, catalog, signal, worker, play, events, missed, raced, shown>>

DropSource ==
    /\ fetch # None /\ fetch.found # None /\ ~fetch.fresh
    /\ fetch' = None
    /\ UNCHANGED <<s, catalog, signal, worker, play, events, missed, raced, shown>>

SourceBags(f) == Bags_(f.shuffle, Len(f.found.list), f.found.start)
SourceShown(f) ==
    /\ fetch' = None
    /\ shown' = <<shown[1], f.number>>
    /\ missed' = f.late

\* Mutant: the answer is applied although a later command outdated it.
ApplySourceStale ==
    /\ fetch # None /\ fetch.found # None /\ ~fetch.andPlay
    /\ \E bag \in SourceBags(fetch) :
          s' = Replaced(Detached(s), "live", fetch.found.list, fetch.found.start, fetch.shuffle, bag)
    /\ SourceShown(fetch)
    /\ raced' = (raced \/ play # None)
    /\ UNCHANGED <<catalog, signal, worker, play, events>>

ApplySource ==
    /\ fetch # None /\ fetch.found # None /\ fetch.fresh /\ ~fetch.andPlay
    /\ \E bag \in SourceBags(fetch) :
          s' = Replaced(Detached(s), "live", fetch.found.list, fetch.found.start, fetch.shuffle, bag)
    /\ SourceShown(fetch)
    /\ raced' = (raced \/ play # None)
    /\ UNCHANGED <<catalog, signal, worker, play, events>>

\* ... and its target goes to playEntry, which outdates a rebase in progress.
ApplySourceAndPlay ==
    /\ fetch # None /\ fetch.found # None /\ fetch.fresh /\ fetch.andPlay
    /\ play = None
    /\ \E bag \in SourceBags(fetch) :
          s' = Replaced(s, "live", fetch.found.list, fetch.found.start, fetch.shuffle, bag)
    /\ play' = [entry |-> EntryAt(s', fetch.found.start), at |-> 0]
    /\ SourceShown(fetch)
    /\ AdvanceIntentEpoch
    /\ UNCHANGED <<catalog, signal, raced, events>>

-----------------------------------------------------------------------------
(* The queue of the user, the modes.                                          *)

Unused == Queued \ (Range(s.user) \cup {IdOf(s.cur), IF play = None THEN None ELSE play.entry.id})

QueueItems(atFront) ==
    /\ Event
    /\ Unused # {}
    /\ LET q == CHOOSE x \in Unused : TRUE
       IN  s' = [s EXCEPT !.user = IF atFront THEN <<q>> \o @ ELSE Append(@, q)]
    /\ AdvanceIntentEpoch /\ fetch' = Outdate(fetch)
    /\ UNCHANGED <<catalog, signal, play, missed, raced, shown>>

RemoveQueuedEntry(i) ==
    /\ Event
    /\ s' = [s EXCEPT !.user = RemoveAt(@, i)]
    /\ AdvanceIntentEpoch /\ fetch' = Outdate(fetch)
    /\ UNCHANGED <<catalog, signal, play, missed, raced, shown>>

SetRepeatMode(mode) ==
    /\ Event
    /\ LET t == [s EXCEPT !.repeat = mode] IN s' = [t EXCEPT !.ri = ResumeIndex(t)]
    /\ UNCHANGED <<catalog, signal, worker, fetch, play, missed, raced, shown>>

SetShuffle(enabled) ==
    /\ Event
    /\ \E bag \in Bags_(enabled /\ s.kind # "none", Len_(s), AnchorIndex(s)) :
          LET t == [s EXCEPT !.shuffle = enabled, !.bag = bag]
          IN  s' = [t EXCEPT !.ri = ResumeIndex(t)]
    /\ AdvanceIntentEpoch /\ fetch' = Outdate(fetch)
    /\ UNCHANGED <<catalog, signal, play, missed, raced, shown>>

-----------------------------------------------------------------------------
(* Playing.  The entry is chosen, prepared and loaded without the lock and
   then committed, whatever happened to the session in the meantime.         *)

PlayEntry(entry, queueIndex) ==
    /\ play = None
    /\ play' = [entry |-> entry, at |-> queueIndex]
    /\ AdvanceIntentEpoch /\ fetch' = Outdate(fetch)
    /\ UNCHANGED <<s, catalog, signal, missed, raced, shown>>

\* playTargetLocked without a current entry
PlayTarget(t) ==
    CASE t.user # <<>> -> QueuedEntries(t)
      [] t.user = <<>> /\ IsValidIndex(t, t.ri) -> <<EntryAt(t, t.ri)>>
      [] t.user = <<>> /\ ~IsValidIndex(t, t.ri) /\ Len_(t) > 0 -> <<EntryAt(t, DefaultFirst(t))>>
      [] OTHER -> <<>>

Play ==
    /\ Event
    /\ s.cur = None /\ PlayTarget(s) # <<>>
    /\ PlayEntry(PlayTarget(s)[1], IF s.user = <<>> THEN 0 ELSE 1)

Next_ ==
    /\ Event
    /\ s.cur # None /\ NextWalk(s) # <<>>
    /\ LET e == NextWalk(s)[1]
       IN  PlayEntry(e, IF e.origin = "queued" /\ e # s.cur THEN 1 ELSE 0)

Previous ==
    /\ Event
    /\ PreviousIndex(s) # 0
    /\ PlayEntry(EntryAt(s, PreviousIndex(s)), 0)

\* resolveEntrySelectionLocked: queued entries come before those of the context.
SelectEntry ==
    /\ Event
    /\ \/ \E i \in DOMAIN s.user : PlayEntry(QueuedEntry(s.user[i]), i)
       \/ \E i \in 1 .. Len_(s) :
             s.ctx[i] # IdOf(s.cur) /\ PlayEntry(EntryAt(s, i), 0)

Commit ==
    /\ play # None
    /\ s' = SwitchCurrent(s, play.entry, play.at)
    /\ play' = None
    /\ UNCHANGED <<catalog, signal, worker, fetch, events, missed, raced, shown>>

GiveUp ==
    /\ play # None
    /\ play' = None
    /\ raced' = TRUE
    /\ UNCHANGED <<s, catalog, signal, worker, fetch, events, missed, shown>>

-----------------------------------------------------------------------------
(* The live source changes and the context follows it.                        *)

\* requestCatalogRebase: a change counts only while the context is live.
CatalogChange(list) ==
    /\ Event
    /\ list # catalog
    /\ catalog' = list
    /\ signal' = (signal \/ s.kind = "live")
    /\ fetch' = IF fetch = None \/ fetch.found = None THEN fetch ELSE [fetch EXCEPT !.late = TRUE]
    /\ UNCHANGED <<s, worker, play, missed, raced, shown>>

RebaseStart ==
    /\ signal /\ worker = None
    /\ signal' = FALSE
    /\ worker' = IF s.kind # "live" THEN None
                 ELSE [fresh |-> TRUE, cur |-> s.cur, anchor |-> s.anchor, found |-> None]
    /\ UNCHANGED <<s, catalog, fetch, play, events, missed, raced, shown>>

RebaseEnumerate ==
    /\ worker # None /\ worker.found = None
    /\ LET found == RebuildEnumerated(catalog, worker.cur, worker.anchor)
       IN  /\ worker' = IF found = NoSource THEN None ELSE [worker EXCEPT !.found = found]
           /\ missed' = (missed \/ found = NoSource)
    /\ UNCHANGED <<s, catalog, signal, fetch, play, events, raced, shown>>

RebaseDrop ==
    /\ worker # None /\ worker.found # None
    /\ s.kind # "live" \/ ~worker.fresh
    /\ worker' = None
    /\ missed' = TRUE
    /\ UNCHANGED <<s, catalog, signal, fetch, play, events, raced, shown>>

\* Mutant: changes that came during the enumeration count as seen.
RebaseApplyDrains ==
    /\ worker # None /\ worker.found # None
    /\ s.kind = "live" /\ worker.fresh
    /\ \E bag \in Bags_(s.shuffle, Len(worker.found.list), worker.found.start) :
          s' = Rebuilt(s, worker.found, bag)
    /\ worker' = None /\ signal' = FALSE
    /\ missed' = FALSE
    /\ raced' = (raced \/ play # None)
    /\ UNCHANGED <<catalog, fetch, play, events, shown>>

RebaseApply ==
    /\ worker # None /\ worker.found # None
    /\ s.kind = "live" /\ worker.fresh
    /\ \E bag \in Bags_(s.shuffle, Len(worker.found.list), worker.found.start) :
          s' = Rebuilt(s, worker.found, bag)
    /\ worker' = None
    /\ missed' = FALSE
    /\ raced' = (raced \/ play # None)
    /\ UNCHANGED <<catalog, signal, fetch, play, events, shown>>

-----------------------------------------------------------------------------
(* prepareSnapshotForPersistence and Start: the list of a live context is not
   kept, it is enumerated again.                                              *)

Persisted(t) ==
    LET kept == [t EXCEPT !.ri = IF Len_(t) = 0 THEN @ ELSE ResumeIndex(t)]
    IN  CASE t.kind = "live" -> [kept EXCEPT !.ctx = <<>>, !.bag = <<>>]
          [] t.kind = "plain" /\ Len_(t) = 0 ->
                [kept EXCEPT !.kind = "none", !.ci = 0, !.ri = 0, !.bag = <<>>]
          [] OTHER -> kept

Restart ==
    /\ Event
    /\ LET t == Persisted(s)
           found == RebuildEnumerated(catalog, t.cur, t.anchor)
       IN  IF t.kind = "live" /\ found # NoSource
           THEN /\ \E bag \in Bags_(t.shuffle, Len(found.list), found.start) : s' = Rebuilt(t, found, bag)
                /\ missed' = FALSE
           ELSE s' = t /\ missed' = (t.kind = "live")
    /\ signal' = FALSE /\ worker' = None /\ fetch' = None /\ play' = None
    /\ UNCHANGED <<catalog, raced, shown>>

-----------------------------------------------------------------------------
\* A session whose store held the live context with its first entry current.
RestoredSession ==
    LET t == [EmptySession EXCEPT !.kind = "live", !.ci = 1, !.ri = 2,
                 !.cur = [id |-> Listing[1], origin |-> "context", index |-> 1]]
    IN  Rebuilt(t, RebuildEnumerated(Listing, t.cur, None), <<>>)

Init ==
    /\ s \in {EmptySession, RestoredSession}
    /\ catalog = Listing
    /\ signal = FALSE /\ worker = None /\ fetch = None /\ play = None
    /\ events = 0
    /\ missed = FALSE /\ raced = FALSE /\ shown = <<0, 0>>

Listings == {l \in BoundedSeq(Tracks, Cardinality(Tracks)) : IsInjective(l)}

\* One track is added, removed or moved.
Edits == {l \in Listings : \E x \in Tracks :
             LET others(y) == y # x IN SelectSeq(l, others) = SelectSeq(catalog, others)}

Next ==
    \/ \E n \in 0 .. 2, start \in 1 .. 2 :
          (start <= n \/ start = 1) /\ (SetContext(n, start) \/ ReplaceContextAndPlay(n, start))
    \/ \E anchor \in Tracks \cup {None}, shuffle, andPlay \in BOOLEAN :
          SetSource(anchor, shuffle, andPlay)
    \/ EnumerateSource \/ DropSource \/ ApplySource \/ ApplySourceAndPlay
    \/ ClearQueue
    \/ \E atFront \in BOOLEAN : QueueItems(atFront)
    \/ \E i \in DOMAIN s.user : RemoveQueuedEntry(i)
    \/ \E mode \in Modes : SetRepeatMode(mode)
    \/ \E enabled \in BOOLEAN : SetShuffle(enabled)
    \/ Play \/ Next_ \/ Previous \/ SelectEntry \/ Commit \/ GiveUp
    \/ \E list \in Edits : CatalogChange(list)
    \/ RebaseStart \/ RebaseEnumerate \/ RebaseDrop \/ RebaseApply
    \/ Restart

Spec == Init /\ [][Next]_vars

-----------------------------------------------------------------------------
\* The snapshot and the calls in flight are of their types, and with shuffle on
\* the bag holds every place of the context exactly once.
QueueTypeOK ==
    /\ s \in Snapshot
    /\ s.shuffle => IsCycle(s.bag, Len_(s))
    /\ s.kind = "none" => s.ctx = <<>>
    /\ catalog \in Seq(Tracks)
    /\ worker \in OrNone(RebaseCall)
    /\ fetch \in OrNone(SourceCall)
    /\ play \in OrNone(PlayCall)
    /\ shown \in Nat \X Nat /\ events \in Nat
    /\ signal \in BOOLEAN /\ missed \in BOOLEAN /\ raced \in BOOLEAN

\* The walk that Next and the preload follow, the list the user is shown, the
\* entry that is published as next and the number of entries all agree, whatever
\* sequence of commands, rebases and restarts led here.
PlansAgree ==
    LET repeated == IF s.repeat = "one" /\ s.cur # None THEN 1 ELSE 0
    IN  /\ SubSeq(NextWalk(s), repeated + 1, Len(NextWalk(s))) = Upcoming(s)
        /\ FirstUpcoming(s) = (IF Upcoming(s) = <<>> THEN <<>> ELSE <<Upcoming(s)[1]>>)
        /\ UpcomingCount(s) = Len(Upcoming(s))

\* The current entry was detached when its context was replaced.
LeftBehind == s.cur # None /\ s.cur.origin = "context" /\ s.cur.index = 0

\* Unless a play was overtaken or given up, or a new context left it behind, an
\* entry of the context that is being played and still is in the context is found at the session's place in
\* it: a rebase, a restart or a change of mode never detaches it.
CurrentTracked ==
    (~raced /\ play = None /\ s.cur # None /\ s.cur.origin = "context"
       /\ s.cur.id \in Range(s.ctx) /\ ~LeftBehind) => CurrentMatches(s)

\* A queued entry plays after the last entry of the context: the resume index says
\* that nothing is left, and firstUpcomingContextIndex begins again at the top.
StartsOver == s.cur # None /\ s.cur.origin = "queued" /\ s.ri = 0

\* The stored resume index is where the walk enters the context (but for
\* repeat-one, which stores the entry itself).
ResumeAgrees ==
    (~raced /\ play = None /\ s.repeat # "one" /\ Len_(s) > 0
       /\ ~StartsOver /\ ~LeftBehind) =>
        LET walk == WalkIndices(s)
        IN  s.ri = IF walk = <<>> THEN 0 ELSE walk[1]

\* While an entry of the context plays, without repeat and shuffle, nothing lies
\* between the entry Previous goes to and the one that comes next but the current
\* entry, also when that entry has since left the context.
NoGap ==
    (~raced /\ play = None /\ ~s.shuffle /\ s.repeat = "off" /\ PreviousIndex(s) # 0
       /\ s.cur.origin = "context") =>
        FirstUpcomingIndex(s) = PreviousIndex(s) + (IF CurrentMatches(s) THEN 2 ELSE 1)

\* When the rebase worker is idle and no change was lost to a dropped or failed
\* rebase, a live context shows the catalog.
CaughtUp ==
    (s.kind = "live" /\ ~signal /\ worker = None /\ ~missed) => s.ctx = catalog

\* A source that answers late never replaces the context of a later command.
LatestIntentWins == [][shown'[2] >= shown[2]]_vars

\* Whatever rebuilds the context, the session keeps its place in it: the current
\* entry, where to resume, the shuffle bag, and no entry is skipped or repeated.
PlaceKept == QueueTypeOK /\ CurrentTracked /\ ResumeAgrees /\ NoGap
=============================================================================
