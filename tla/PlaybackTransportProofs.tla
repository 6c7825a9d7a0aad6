---------------------- MODULE PlaybackTransportProofs ----------------------
(***************************************************************************)
(* A theorem about PlaybackTransport, for any entries, files, unavailable  *)
(* entries and bounds: the entry that is shown as loading is the target of *)
(* the activation the session waits for.                                   *)
(***************************************************************************)
EXTENDS PlaybackTransport, TLAPS

-----------------------------------------------------------------------------
(* The inductive invariant.                                                 *)

SessionFields == {"user", "cur", "status", "load", "retry", "trans", "pre", "next", "ready",
                  "loaded", "armed", "failed"}
CallFields == {"pc", "entry", "qi", "prev", "keep", "follow", "blocked", "stop", "attempt", "uri"}

\* A call that has cancelled the transition it met, or met none, and has still to
\* end in one of its own or in a direct load.
Bound(c) ==
  \/ c.pc \in {"activate", "activated", "eof", "over"}
  \/ c.pc \in {"prepare", "commit"} /\ c.follow # "pending"

\* The entry that is loading is the target, and is not waiting to be prepared.
Loads(s) == s.trans # None => s.load = s.trans.entry /\ s.retry = None

ShapeInv ==
  /\ DOMAIN ses = SessionFields
  /\ DOMAIN calls = Thread /\ \A t \in Thread : DOMAIN calls[t] = CallFields
  /\ upset \in {"no", "mending", "yes"}

\* Unless something went wrong, one call at most is under way.
LoneInv ==
  upset # "yes" =>
    /\ \A t, u \in Thread : t \in Busy /\ u \in Busy => t = u
    /\ \A t \in Thread : Bound(calls[t]) => ses.trans = None

TransitInv == ShapeInv /\ LoneInv /\ (upset = "no" => Loads(ses))

-----------------------------------------------------------------------------
(* What the critical sections do to the transition and what is loading.     *)

\* r comes from s by changes of other fields.
Apart(s, r) ==
  DOMAIN r = SessionFields /\ r.trans = s.trans /\ r.load = s.load /\ r.retry = s.retry

\* The transition is cancelled, or all is left as it was but a retry cancelled.
Calm(s, r) ==
  /\ DOMAIN r = SessionFields
  /\ \/ r.trans = None
     \/ r.trans = s.trans /\ r.load = s.load /\ r.retry \in {s.retry, None}

LEMMA TouchApart ==
    ASSUME NEW s, DOMAIN s = SessionFields
    PROVE  Apart(s, Touch(s))
BY DEF Apart, Touch, SessionFields

LEMMA ClearNextApart ==
    ASSUME NEW s, DOMAIN s = SessionFields
    PROVE  Apart(s, ClearNext(s))
BY DEF Apart, ClearNext, SessionFields

LEMMA SwitchApart ==
    ASSUME NEW s, DOMAIN s = SessionFields, NEW e, NEW qi
    PROVE  Apart(s, SwitchCurrent(s, e, qi))
BY DEF Apart, SwitchCurrent, SessionFields

LEMMA PlanningApart ==
    ASSUME NEW s, DOMAIN s = SessionFields
    PROVE  Apart(s, AfterPlanning(s))
BY DEF Apart, AfterPlanning, SessionFields

LEMMA RetryCancelled ==
    ASSUME NEW s, DOMAIN s = SessionFields
    PROVE  LET r == CancelRetry(s) IN
           DOMAIN r = SessionFields /\ r.trans = s.trans /\ r.load = s.load /\ r.retry = None
BY DEF CancelRetry, SessionFields

LEMMA TransportCancelled ==
    ASSUME NEW s, DOMAIN s = SessionFields
    PROVE  LET r == CancelTransport(s) IN
           DOMAIN r = SessionFields /\ r.trans = None /\ r.retry = s.retry
BY DEF CancelTransport, SessionFields

LEMMA CalmLoads ==
    ASSUME NEW s, NEW r, Calm(s, r), Loads(s)
    PROVE  Loads(r)
BY DEF Calm, Loads

-----------------------------------------------------------------------------
(* What a step does to the calls.                                           *)

\* No call moves.
LEMMA NoCallMoves ==
    ASSUME TransitInv, Calm(ses, ses'), UNCHANGED calls,
           upset' \in {upset, "yes"}
    PROVE  TransitInv'
<1>1. ShapeInv' /\ Busy' = Busy
      BY DEF TransitInv, ShapeInv, Calm, Busy
<1>2. upset' # "yes" => upset' = upset
      OBVIOUS
<1>3. LoneInv'
      BY <1>1, <1>2 DEF TransitInv, LoneInv, Calm, Bound
<1>4. upset' = "no" => Loads(ses)'
      BY <1>2, CalmLoads DEF TransitInv, Loads, Calm
<1>5. QED  BY <1>1, <1>3, <1>4 DEF TransitInv

\* A call goes on, or ends.
LEMMA CallGoesOn ==
    ASSUME TransitInv, NEW t \in Thread, NEW c, t \in Busy, calls' = [calls EXCEPT ![t] = c],
           DOMAIN ses' = SessionFields, DOMAIN c = CallFields, upset' \in {"no", "mending", "yes"},
           upset' # "yes" => upset # "yes" /\ (Bound(c) => ses'.trans = None),
           upset' = "no" => Loads(ses')
    PROVE  TransitInv'
<1>1. ShapeInv' /\ calls'[t] = c /\ \A u \in Thread \ {t} : calls'[u] = calls[u]
      BY DEF TransitInv, ShapeInv
<1>2. Busy' \subseteq Busy
      BY <1>1 DEF Busy
<1>3. ASSUME upset' # "yes", NEW u \in Thread, u # t PROVE ~Bound(calls'[u])
  <2>1. u \notin Busy
        BY <1>3 DEF TransitInv, LoneInv
  <2>2. calls'[u].pc = "idle"
        BY <1>1, <1>3, <2>1 DEF Busy
  <2>3. QED  BY <2>2 DEF Bound
<1>4. LoneInv'
  <2>1. SUFFICES ASSUME upset' # "yes"
                 PROVE  /\ \A u, v \in Thread : u \in Busy' /\ v \in Busy' => u = v
                        /\ \A u \in Thread : Bound(calls'[u]) => ses'.trans = None
        BY DEF LoneInv, Bound
  <2>2. \A u, v \in Thread : u \in Busy' /\ v \in Busy' => u = v
        BY <1>2, <2>1 DEF TransitInv, LoneInv
  <2>3. QED  BY <1>1, <1>3, <2>1, <2>2
<1>5. QED  BY <1>1, <1>4 DEF TransitInv, Loads

\* A call begins.
LEMMA CallBegins ==
    ASSUME TransitInv, NEW t \in Thread, NEW c, Enter(t, c), Calm(ses, ses'), DOMAIN c = CallFields,
           upset' \in {"no", "mending", "yes"},
           upset' # "yes" => ~Overlaps /\ (Bound(c) => ses'.trans = None),
           upset' = "no" => upset = "no" \/ ses'.trans = None
    PROVE  TransitInv'
<1>1. /\ ShapeInv' /\ calls' = [calls EXCEPT ![t] = c]
      /\ calls'[t] = c /\ \A u \in Thread \ {t} : calls'[u] = calls[u]
      BY DEF TransitInv, ShapeInv, Enter, Calm
<1>2. LoneInv'
  <2>1. SUFFICES ASSUME upset' # "yes"
                 PROVE  /\ \A u, v \in Thread : u \in Busy' /\ v \in Busy' => u = v
                        /\ \A u \in Thread : Bound(calls'[u]) => ses'.trans = None
        BY DEF LoneInv, Bound
  <2>2. \A u \in Thread \ {t} : calls'[u].pc = "idle"
        BY <1>1, <2>1 DEF Overlaps, Busy
  <2>3. Busy' \subseteq {t}
        BY <2>2 DEF Busy
  <2>4. QED  BY <1>1, <2>1, <2>2, <2>3 DEF Bound
<1>3. upset' = "no" => Loads(ses)'
      BY CalmLoads DEF TransitInv, Loads, Calm
<1>4. QED  BY <1>1, <1>2, <1>3 DEF TransitInv

\* A call begins in the usual way.
LEMMA CallBegun ==
    ASSUME TransitInv, NEW t \in Thread, NEW c, Begin(t, c), UNCHANGED ses, DOMAIN c = CallFields,
           Bound(c) => ses.trans = None
    PROVE  TransitInv'
<1>1. Enter(t, c) /\ upset' \in {"no", "mending", "yes"} /\ (upset' # "yes" => ~Overlaps)
      BY DEF Begin, Upset, TransitInv, ShapeInv
<1>2. upset' = "no" => upset = "no"
      BY DEF Begin, Upset
<1>3. Calm(ses, ses')
      BY DEF Calm, TransitInv, ShapeInv
<1>4. QED  BY <1>1, <1>2, <1>3, CallBegins

-----------------------------------------------------------------------------
(* Calm sections, one after the other.                                      *)

LEMMA CalmSections ==
    ASSUME NEW s, NEW r, Calm(s, r)
    PROVE  /\ Calm(s, Touch(r)) /\ Calm(s, ClearNext(r)) /\ Calm(s, CancelRetry(r))
           /\ Calm(s, CancelTransport(r)) /\ Calm(s, AfterPlanning(r))
           /\ \A e, qi : Calm(s, SwitchCurrent(r, e, qi))
<1>1. DOMAIN r = SessionFields
      BY DEF Calm
<1>2. Calm(s, Touch(r))
      BY <1>1, TouchApart DEF Calm, Apart
<1>3. Calm(s, ClearNext(r))
      BY <1>1, ClearNextApart DEF Calm, Apart
<1>4. Calm(s, CancelRetry(r))
      BY <1>1, RetryCancelled DEF Calm
<1>5. Calm(s, CancelTransport(r))
      BY <1>1, TransportCancelled DEF Calm
<1>6. Calm(s, AfterPlanning(r))
      BY <1>1, PlanningApart DEF Calm, Apart
<1>7. \A e, qi : Calm(s, SwitchCurrent(r, e, qi))
      BY <1>1, SwitchApart DEF Calm, Apart
<1>8. QED  BY <1>2, <1>3, <1>4, <1>5, <1>6, <1>7

\* Other fields are set.
LEMMA CalmFields ==
    ASSUME NEW s, NEW r, Calm(s, r), NEW x
    PROVE  /\ Calm(s, [r EXCEPT !.user = x]) /\ Calm(s, [r EXCEPT !.cur = x])
           /\ Calm(s, [r EXCEPT !.status = x]) /\ Calm(s, [r EXCEPT !.loaded = x])
           /\ Calm(s, [r EXCEPT !.armed = x])
           /\ r.trans = None => Calm(s, [r EXCEPT !.load = x])
BY DEF Calm, SessionFields

LEMMA CalmAtFirst ==
    ASSUME TransitInv
    PROVE  Calm(ses, ses)
BY DEF TransitInv, ShapeInv, Calm

-----------------------------------------------------------------------------
(* Commands of the user.                                                    *)

LEMMA EditKeeps ==
    ASSUME TransitInv, NEW s, NEW stop, Edited(s, stop), Calm(ses, s)
    PROVE  TransitInv'
<1>1. PICK x : ses' = [s EXCEPT !.armed = x]
      BY DEF Edited
<1>2. Calm(ses, ses')
      BY <1>1, CalmFields
<1>3. UNCHANGED calls /\ upset' \in {upset, "yes"}
      BY DEF Edited, Upset
<1>4. QED  BY <1>2, <1>3, NoCallMoves

LEMMA QueueItemsKeeps ==
    ASSUME TransitInv, NEW e, NEW first, QueueItems(e, first)
    PROVE  TransitInv'
<1>1. PICK r : r = ClearNext(IF first THEN CancelTransport(ses) ELSE ses)
      OBVIOUS
<1>2. Calm(ses, r)
      BY <1>1, CalmAtFirst, CalmSections
<1>3. PICK q : q = IF first THEN <<e>> \o r.user ELSE Append(r.user, e)
      OBVIOUS
<1>4. Edited(Touch([r EXCEPT !.user = q]), FALSE)
      BY <1>1, <1>3 DEF QueueItems
<1>5. Calm(ses, Touch([r EXCEPT !.user = q]))
      BY <1>2, CalmFields, CalmSections
<1>6. QED  BY <1>4, <1>5, EditKeeps

LEMMA RemoveKeeps ==
    ASSUME TransitInv, NEW i, RemoveQueuedEntry(i)
    PROVE  TransitInv'
<1>1. PICK hit : hit = (ses.trans # None /\ (ses.trans.entry = ses.user[i] \/ i <= ses.trans.qi))
      OBVIOUS
<1>2. PICK r : r = ClearNext(IF hit THEN CancelTransport(ses) ELSE ses)
      OBVIOUS
<1>3. Calm(ses, r)
      BY <1>2, CalmAtFirst, CalmSections
<1>4. PICK q : q = RemoveAt(r.user, i)
      OBVIOUS
<1>5. Edited(Touch(CancelRetry([r EXCEPT !.user = q])), FALSE)
      BY <1>1, <1>2, <1>4 DEF RemoveQueuedEntry
<1>6. Calm(ses, Touch(CancelRetry([r EXCEPT !.user = q])))
      BY <1>3, CalmFields, CalmSections
<1>7. QED  BY <1>5, <1>6, EditKeeps

LEMMA MoveKeeps ==
    ASSUME TransitInv, NEW i, NEW j, MoveQueuedEntry(i, j)
    PROVE  TransitInv'
<1>1. PICK r : /\ r \in {ClearNext(CancelTransport(ses)), ClearNext(ses)}
               /\ \E q : Edited(Touch(CancelRetry([r EXCEPT !.user = q])), FALSE)
  <2>1. PICK q : q = IF ses.trans = None THEN 0 ELSE ses.trans.qi
        OBVIOUS
  <2>2. PICK hit : hit = (\/ ses.trans # None /\ ses.trans.entry = ses.user[i]
                          \/ q # 0 /\ ((i < q /\ j >= q) \/ (i > q /\ j <= q)))
        OBVIOUS
  <2>3. PICK r : r = ClearNext(IF hit THEN CancelTransport(ses) ELSE ses)
        OBVIOUS
  <2>4. Edited(Touch(CancelRetry([r EXCEPT !.user = InsertAt(RemoveAt(r.user, i), j, r.user[i])])), FALSE)
        BY <2>1, <2>2, <2>3 DEF MoveQueuedEntry
  <2>5. QED  BY <2>3, <2>4
<1>2. Calm(ses, r)
      BY <1>1, CalmAtFirst, CalmSections
<1>3. PICK q : Edited(Touch(CancelRetry([r EXCEPT !.user = q])), FALSE)
      BY <1>1
<1>4. Calm(ses, Touch(CancelRetry([r EXCEPT !.user = q])))
      BY <1>2, CalmFields, CalmSections
<1>5. QED  BY <1>3, <1>4, EditKeeps

LEMMA ClearKeeps ==
    ASSUME TransitInv, ClearQueue
    PROVE  TransitInv'
<1>1. PICK r : r = ClearNext(CancelTransport(ses))
      OBVIOUS
<1>2. Calm(ses, r) /\ r.trans = None
  <2>1. DOMAIN ses = SessionFields
        BY DEF TransitInv, ShapeInv
  <2>2. r.trans = None
        BY <1>1, <2>1, TransportCancelled, ClearNextApart DEF Apart
  <2>3. QED  BY <1>1, <2>2, CalmAtFirst, CalmSections
<1>3. PICK s : s = CancelRetry([r EXCEPT !.user = <<>>, !.load = None])
      OBVIOUS
<1>4. Calm(ses, s)
  <2>1. Calm(ses, [r EXCEPT !.user = <<>>, !.load = None])
        BY <1>2 DEF Calm, SessionFields
  <2>2. QED  BY <1>3, <2>1, CalmSections
<1>5. PICK u : u = IF s.cur = None THEN [s EXCEPT !.status = "idle", !.loaded = None] ELSE s
      OBVIOUS
<1>6. Calm(ses, Touch(u))
  <2>1. Calm(ses, u)
        BY <1>4, <1>5 DEF Calm, SessionFields
  <2>2. QED  BY <2>1, CalmSections
<1>7. Edited(Touch(u), ses.cur = None)
      BY <1>1, <1>3, <1>5 DEF ClearQueue
<1>8. QED  BY <1>6, <1>7, EditKeeps

LEMMA PauseKeeps ==
    ASSUME TransitInv, Pause \/ Resume
    PROVE  TransitInv'
<1>0. PICK pc \in {"paused", "resumed", "refused"} :
        /\ Enter("pause", [Idle EXCEPT !.pc = pc])
        /\ upset' \in {upset, "yes"} /\ (upset' # "yes" => ~Overlaps)
  <2>1. PICK pc \in {"paused", "resumed"} : Tell(pc)
        BY DEF Pause, Resume
  <2>2. CASE Enter("pause", [Idle EXCEPT !.pc = "refused"]) /\ Upset(TRUE)
        BY <2>2 DEF Upset
  <2>3. CASE /\ Enter("pause", [Idle EXCEPT !.pc = pc])
             /\ Upset(Overlaps \/ (pc = "paused" /\ events # <<>>))
        BY <2>3 DEF Upset
  <2>4. QED  BY <2>1, <2>2, <2>3 DEF Tell
<1>1. PICK c : c = [Idle EXCEPT !.pc = pc] /\ Enter("pause", c)
      BY <1>0
<1>2. DOMAIN c = CallFields /\ ~Bound(c)
      BY <1>0, <1>1 DEF Idle, CallFields, Bound
<1>3. Calm(ses, ses')
  <2>1. UNCHANGED ses
        BY DEF Pause, Resume
  <2>2. QED  BY <2>1, CalmAtFirst
<1>4. upset' \in {upset, "yes"} /\ (upset' # "yes" => ~Overlaps) /\ (upset' = "no" => upset = "no")
      BY <1>0
<1>5. upset' \in {"no", "mending", "yes"}
      BY <1>4 DEF TransitInv, ShapeInv
<1>6. "pause" \in Thread
      BY DEF Thread
<1>7. QED  BY <1>1, <1>2, <1>3, <1>4, <1>5, <1>6, CallBegins

LEMMA CallsOfUser ==
    ASSUME TransitInv, Play \/ Next_ \/ Previous \/ \E i \in 1..Len(ses.user) : SelectEntry(i)
    PROVE  TransitInv'
<1>1. CASE Play
  <2>1. PICK follow, e, qi :
          Begin("play", [Idle EXCEPT !.pc = "begin", !.follow = follow, !.entry = e, !.qi = qi,
                                     !.prev = ses.cur, !.keep = TRUE])
        BY <1>1 DEF Play
  <2>2. PICK c : c = [Idle EXCEPT !.pc = "begin", !.follow = follow, !.entry = e, !.qi = qi,
                                  !.prev = ses.cur, !.keep = TRUE]
        OBVIOUS
  <2>3. DOMAIN c = CallFields /\ ~Bound(c)
        BY <2>2 DEF Idle, CallFields, Bound
  <2>4. Begin("play", c) /\ "play" \in Thread /\ UNCHANGED ses
        BY <1>1, <2>1, <2>2 DEF Play, Thread
  <2>5. QED  BY <2>3, <2>4, CallBegun
<1>2. CASE Next_
  <2>1. PICK c : c = [Idle EXCEPT !.pc = "resolve", !.follow = "next", !.prev = Anchor,
                                  !.keep = TRUE, !.stop = TRUE]
        OBVIOUS
  <2>2. DOMAIN c = CallFields /\ ~Bound(c)
        BY <2>1 DEF Idle, CallFields, Bound
  <2>3. Begin("select", c) /\ "select" \in Thread /\ UNCHANGED ses
        BY <1>2, <2>1 DEF Next_, Thread
  <2>4. QED  BY <2>2, <2>3, CallBegun
<1>3. CASE Previous
  <2>1. PICK c : c = [Idle EXCEPT !.pc = "begin", !.entry = Anchor, !.keep = TRUE]
        OBVIOUS
  <2>2. DOMAIN c = CallFields /\ ~Bound(c)
        BY <2>1 DEF Idle, CallFields, Bound
  <2>3. Begin("select", c) /\ "select" \in Thread /\ UNCHANGED ses
        BY <1>3, <2>1 DEF Previous, Thread
  <2>4. QED  BY <2>2, <2>3, CallBegun
<1>4. ASSUME NEW i \in 1..Len(ses.user), SelectEntry(i) PROVE TransitInv'
  <2>1. PICK c : c = [Idle EXCEPT !.pc = "begin", !.entry = ses.user[i], !.qi = i,
                                  !.prev = ses.cur, !.keep = TRUE]
        OBVIOUS
  <2>2. DOMAIN c = CallFields /\ ~Bound(c)
        BY <2>1 DEF Idle, CallFields, Bound
  <2>3. Begin("select", c) /\ "select" \in Thread /\ UNCHANGED ses
        BY <1>4, <2>1 DEF SelectEntry, Thread
  <2>4. QED  BY <2>2, <2>3, CallBegun
<1>5. QED  BY <1>1, <1>2, <1>3, <1>4

-----------------------------------------------------------------------------
(* The steps of a call.                                                     *)

\* How a call goes back to its caller.
LEMMA ReturnsFree ==
    ASSUME NEW t, NEW c, DOMAIN c = CallFields
    PROVE  /\ DOMAIN Returned(t, c) = CallFields /\ ~Bound(Returned(t, c))
           /\ DOMAIN Errored(t, c) = CallFields /\ ~Bound(Errored(t, c))
           /\ DOMAIN Unavailable(t, c) = CallFields /\ ~Bound(Unavailable(t, c))
           /\ DOMAIN Idle = CallFields /\ ~Bound(Idle)
<1>1. DOMAIN Idle = CallFields /\ ~Bound(Idle)
      BY DEF Idle, CallFields, Bound
<1>2. DOMAIN Returned(t, c) = CallFields /\ ~Bound(Returned(t, c))
      BY <1>1 DEF Returned, CallFields, Bound
<1>3. DOMAIN Errored(t, c) = CallFields /\ ~Bound(Errored(t, c))
      BY <1>1 DEF Errored, CallFields, Bound
<1>4. DOMAIN Unavailable(t, c) = CallFields /\ ~Bound(Unavailable(t, c))
      BY <1>3 DEF Unavailable, CallFields, Bound
<1>5. QED  BY <1>1, <1>2, <1>3, <1>4

\* A call goes on without a transition of its own.
LEMMA CallGoesCalmly ==
    ASSUME TransitInv, NEW t \in Thread, NEW c, t \in Busy, calls' = [calls EXCEPT ![t] = c],
           Calm(ses, ses'), DOMAIN c = CallFields, Bound(c) => Bound(calls[t]),
           upset' \in {upset, "yes"}
    PROVE  TransitInv'
<1>1. DOMAIN ses' = SessionFields /\ upset' \in {"no", "mending", "yes"}
      BY DEF Calm, TransitInv, ShapeInv
<1>2. upset' # "yes" => upset # "yes" /\ (Bound(c) => ses'.trans = None)
      BY DEF TransitInv, LoneInv, Calm
<1>3. upset' = "no" => Loads(ses')
      BY CalmLoads DEF TransitInv
<1>4. QED  BY <1>1, <1>2, <1>3, CallGoesOn

LEMMA CallOf ==
    ASSUME TransitInv, NEW t \in Thread
    PROVE  /\ DOMAIN ses = SessionFields /\ DOMAIN calls[t] = CallFields
           /\ calls[t].pc # "idle" => t \in Busy
           /\ \A pc : Goto(t, pc) => calls' = [calls EXCEPT ![t] = [calls[t] EXCEPT !.pc = pc]]
           /\ \A c : Continue(t, c) => calls' = [calls EXCEPT ![t] = c]
BY DEF TransitInv, ShapeInv, Busy, Goto, Continue

LEMMA ResolveKeeps ==
    ASSUME TransitInv, NEW t \in Thread, Resolve(t)
    PROVE  TransitInv'
<1>1. PICK c : c = calls[t]
      OBVIOUS
<1>2. DOMAIN ses = SessionFields /\ DOMAIN c = CallFields /\ c.pc = "resolve" /\ t \in Busy
      BY <1>1, CallOf DEF Resolve
<1>3. PICK d : calls' = [calls EXCEPT ![t] = d] /\ DOMAIN d = CallFields /\ ~Bound(d)
  <2>1. PICK e, qi, skipped :
          \/ Continue(t, [c EXCEPT !.pc = "begin", !.entry = e, !.qi = qi, !.blocked = skipped])
          \/ Continue(t, IF t = "retry" THEN Returned(t, [c EXCEPT !.blocked = {}]) ELSE Idle)
        BY <1>1 DEF Resolve
  <2>2. DOMAIN [c EXCEPT !.blocked = {}] = CallFields
        BY <1>2
  <2>3. LET d == IF t = "retry" THEN Returned(t, [c EXCEPT !.blocked = {}]) ELSE Idle
        IN  DOMAIN d = CallFields /\ ~Bound(d)
        BY <1>2, <2>2, ReturnsFree
  <2>4. LET d == [c EXCEPT !.pc = "begin", !.entry = e, !.qi = qi, !.blocked = skipped]
        IN  DOMAIN d = CallFields /\ ~Bound(d)
        BY <1>2 DEF CallFields, Bound
  <2>5. QED  BY <2>1, <2>3, <2>4 DEF Continue
<1>4. PICK s : s = AfterPlanning(ses)
      OBVIOUS
<1>5. Apart(ses, s)
      BY <1>2, <1>4, PlanningApart
<1>6. /\ DOMAIN ses' = SessionFields /\ ses'.trans = ses.trans /\ ses'.retry = ses.retry
  <2>1. PICK x, k : /\ k = [s EXCEPT !.cur = x]
                    /\ \/ ses' = s
                       \/ ses' = Touch([ClearNext(s) EXCEPT !.load = None])
                       \/ ses' = Touch([ClearNext(k) EXCEPT !.status = "paused", !.loaded = None,
                                                            !.load = None, !.armed = FALSE])
                       \/ ses' = Touch([ClearNext(s) EXCEPT !.status = "paused", !.loaded = None,
                                                            !.load = None, !.armed = FALSE])
    <3>1. PICK x : x = c.prev
          OBVIOUS
    <3>2. PICK k : k = [s EXCEPT !.cur = x]
          OBVIOUS
    <3>3. \/ ses' = s
          \/ ses' = Touch([ClearNext(s) EXCEPT !.load = None])
          \/ ses' = Touch([ClearNext(IF c.prev # None /\ s.cur = None THEN k ELSE s) EXCEPT
                             !.status = "paused", !.loaded = None, !.load = None, !.armed = FALSE])
          BY <1>1, <1>4, <3>1, <3>2 DEF Resolve
    <3>4. QED  BY <3>2, <3>3
  <2>2. Apart(s, k)
        BY <1>5, <2>1 DEF Apart, SessionFields
  <2>3. Apart(s, ClearNext(s)) /\ Apart(k, ClearNext(k))
        BY <1>5, <2>2, ClearNextApart DEF Apart
  <2>4. ASSUME NEW r, Apart(s, r)
        PROVE  LET a == Touch([r EXCEPT !.load = None])
                   b == Touch([r EXCEPT !.status = "paused", !.loaded = None,
                                        !.load = None, !.armed = FALSE])
               IN  /\ DOMAIN a = SessionFields /\ a.trans = s.trans /\ a.retry = s.retry
                   /\ DOMAIN b = SessionFields /\ b.trans = s.trans /\ b.retry = s.retry
    <3>1. PICK a, b : /\ a = [r EXCEPT !.load = None]
                      /\ b = [r EXCEPT !.status = "paused", !.loaded = None,
                                       !.load = None, !.armed = FALSE]
          OBVIOUS
    <3>2. /\ DOMAIN a = SessionFields /\ a.trans = s.trans /\ a.retry = s.retry
          /\ DOMAIN b = SessionFields /\ b.trans = s.trans /\ b.retry = s.retry
          BY <2>4, <3>1 DEF Apart, SessionFields
    <3>3. Apart(a, Touch(a)) /\ Apart(b, Touch(b))
          BY <3>2, TouchApart
    <3>4. QED  BY <3>1, <3>2, <3>3 DEF Apart
  <2>5. Apart(s, ClearNext(k))
        BY <2>2, <2>3 DEF Apart
  <2>6. PICK r : /\ Apart(s, r)
                 /\ \/ ses' = s
                    \/ ses' = Touch([r EXCEPT !.load = None])
                    \/ ses' = Touch([r EXCEPT !.status = "paused", !.loaded = None,
                                              !.load = None, !.armed = FALSE])
        BY <2>1, <2>3, <2>5
  <2>7. DOMAIN ses' = SessionFields /\ ses'.trans = s.trans /\ ses'.retry = s.retry
    <3>1. PICK a, b : /\ a = Touch([r EXCEPT !.load = None])
                      /\ b = Touch([r EXCEPT !.status = "paused", !.loaded = None,
                                             !.load = None, !.armed = FALSE])
          OBVIOUS
    <3>2. /\ DOMAIN a = SessionFields /\ a.trans = s.trans /\ a.retry = s.retry
          /\ DOMAIN b = SessionFields /\ b.trans = s.trans /\ b.retry = s.retry
          BY <2>4, <2>6, <3>1
    <3>3. ses' = s \/ ses' = a \/ ses' = b
          BY <2>6, <3>1
    <3>4. QED  BY <1>5, <3>2, <3>3 DEF Apart
  <2>8. QED  BY <1>5, <2>7 DEF Apart
<1>7. upset' \in {upset, "yes"} /\ (upset' # "yes" => ses.trans = None \/ ses'.load = ses.load)
      BY DEF Resolve, Upset
<1>8. upset' # "yes" => Calm(ses, ses')
      BY <1>6, <1>7 DEF Calm
<1>9. upset' = "no" => Loads(ses')
      BY <1>7, <1>8, CalmLoads DEF TransitInv
<1>10. QED
  <2>1. upset' \in {"no", "mending", "yes"} /\ (upset' # "yes" => upset # "yes")
        BY <1>7 DEF TransitInv, ShapeInv
  <2>2. QED  BY <1>2, <1>3, <1>6, <1>9, <2>1, CallGoesOn

LEMMA BeginKeeps ==
    ASSUME TransitInv, NEW t \in Thread, PlayBegin(t)
    PROVE  TransitInv'
<1>1. DOMAIN ses = SessionFields /\ DOMAIN calls[t] = CallFields /\ t \in Busy
      BY CallOf DEF PlayBegin
<1>2. PICK c : calls' = [calls EXCEPT ![t] = c] /\ DOMAIN c = CallFields
  <2>1. PICK pc : Goto(t, pc)
        BY DEF PlayBegin
  <2>2. calls' = [calls EXCEPT ![t] = [calls[t] EXCEPT !.pc = pc]]
        BY <2>1, CallOf
  <2>3. DOMAIN [calls[t] EXCEPT !.pc = pc] = CallFields
        BY <1>1
  <2>4. QED  BY <2>2, <2>3
<1>3. PICK s : s = CancelTransport(CancelRetry(ses))
      OBVIOUS
<1>4. DOMAIN s = SessionFields /\ s.trans = None
      BY <1>1, <1>3, RetryCancelled, TransportCancelled
<1>5. ses' \in {s, [ClearNext(s) EXCEPT !.armed = FALSE]}
      BY <1>3 DEF PlayBegin
<1>6. DOMAIN ses' = SessionFields /\ ses'.trans = None
  <2>1. Apart(s, ClearNext(s))
        BY <1>4, ClearNextApart
  <2>2. QED  BY <1>4, <1>5, <2>1 DEF Apart, SessionFields
<1>7. upset' \in {"no", "mending", "yes"} /\ (upset' # "yes" => upset # "yes")
      BY DEF PlayBegin, TransitInv, ShapeInv
<1>8. Loads(ses')
      BY <1>6 DEF Loads
<1>9. QED  BY <1>1, <1>2, <1>6, <1>7, <1>8, CallGoesOn

LEMMA ActivateKeeps ==
    ASSUME TransitInv, NEW t \in Thread, Activate(t)
    PROVE  TransitInv'
<1>1. /\ DOMAIN ses = SessionFields /\ DOMAIN calls[t] = CallFields /\ t \in Busy
      /\ Bound(calls[t]) /\ upset' = upset
      BY CallOf DEF Activate, Bound
<1>2. PICK x, c : /\ c \in {[calls[t] EXCEPT !.pc = "activated", !.attempt = x],
                            [calls[t] EXCEPT !.pc = "prepare"]}
                  /\ calls' = [calls EXCEPT ![t] = c]
  <2>1. CASE CanActivate(mpv, UriOf[calls[t].entry])
    <3>1. PICK x : x = mpv.attempt + 1
          OBVIOUS
    <3>2. Continue(t, [calls[t] EXCEPT !.pc = "activated", !.attempt = x])
          BY <2>1, <3>1 DEF Activate
    <3>3. QED  BY <3>2 DEF Continue
  <2>2. CASE ~CanActivate(mpv, UriOf[calls[t].entry])
    <3>1. Goto(t, "prepare")
          BY <2>2 DEF Activate
    <3>2. calls' = [calls EXCEPT ![t] = [calls[t] EXCEPT !.pc = "prepare"]]
          BY <3>1, CallOf
    <3>3. QED  BY <3>2
  <2>3. QED  BY <2>1, <2>2
<1>3. DOMAIN c = CallFields
      BY <1>1, <1>2
<1>4. Calm(ses, ses')
  <2>1. PICK s : s = ClearNext(ses)
        OBVIOUS
  <2>2. ses' = ses \/ ses' = [s EXCEPT !.armed = FALSE]
        BY <2>1 DEF Activate
  <2>3. Calm(ses, ses) /\ Calm(ses, s)
        BY <2>1, CalmAtFirst, CalmSections
  <2>4. Calm(ses, [s EXCEPT !.armed = FALSE])
        BY <2>3, CalmFields
  <2>5. QED  BY <2>2, <2>3, <2>4
<1>5. QED  BY <1>1, <1>2, <1>3, <1>4, CallGoesCalmly

LEMMA ActivatedKeeps ==
    ASSUME TransitInv, NEW t \in Thread, Activated(t)
    PROVE  TransitInv'
<1>1. DOMAIN ses = SessionFields /\ DOMAIN calls[t] = CallFields /\ t \in Busy
      BY CallOf DEF Activated
<1>2. PICK x : /\ x = [entry |-> calls[t].entry, qi |-> calls[t].qi, prev |-> calls[t].prev,
                       attempt |-> calls[t].attempt]
               /\ ses' = Touch(CancelRetry([ses EXCEPT !.trans = x, !.load = calls[t].entry]))
      BY DEF Activated
<1>3. DOMAIN ses' = SessionFields /\ Loads(ses')
  <2>1. PICK s : s = [ses EXCEPT !.trans = x, !.load = calls[t].entry]
        OBVIOUS
  <2>2. DOMAIN s = SessionFields /\ s.trans = x /\ s.load = x.entry
        BY <1>1, <1>2, <2>1 DEF SessionFields
  <2>3. PICK r : r = CancelRetry(s)
        OBVIOUS
  <2>4. DOMAIN r = SessionFields /\ r.trans = x /\ r.load = x.entry /\ r.retry = None
        BY <2>2, <2>3, RetryCancelled
  <2>5. Apart(r, ses')
        BY <1>2, <2>1, <2>3, <2>4, TouchApart
  <2>6. QED  BY <2>4, <2>5 DEF Apart, Loads
<1>4. PICK c : c = Returned(t, calls[t])
      OBVIOUS
<1>5. calls' = [calls EXCEPT ![t] = c] /\ upset' = upset
      BY <1>4 DEF Activated, Continue
<1>6. DOMAIN c = CallFields /\ ~Bound(c)
      BY <1>1, <1>4, ReturnsFree
<1>7. upset' \in {"no", "mending", "yes"}
      BY <1>5 DEF TransitInv, ShapeInv
<1>8. QED  BY <1>1, <1>3, <1>5, <1>6, <1>7, CallGoesOn

LEMMA PrepareKeeps ==
    ASSUME TransitInv, NEW t \in Thread, Prepare(t)
    PROVE  TransitInv'
<1>1. /\ DOMAIN ses = SessionFields /\ DOMAIN calls[t] = CallFields /\ t \in Busy
      /\ Bound(calls[t])
      BY CallOf DEF Prepare, Bound
<1>2. PICK c : c \in {Returned(t, calls[t]), Errored(t, calls[t]), Unavailable(t, calls[t])}
               /\ calls' = [calls EXCEPT ![t] = c]
      BY DEF Prepare, Continue
<1>3. DOMAIN c = CallFields /\ ~Bound(c)
      BY <1>1, <1>2, ReturnsFree
<1>4. upset' \in {upset, "yes"}
      BY DEF Prepare, Upset
<1>5. DOMAIN ses' = SessionFields /\ ses'.trans = ses.trans
  <2>1. CASE UNCHANGED ses
        BY <1>1, <2>1
  <2>2. CASE ~UNCHANGED ses
    <3>1. PICK s : /\ s \in {[ses EXCEPT !.cur = None, !.status = "pending", !.loaded = None], ses}
                   /\ \E e : ses' = Touch([ClearNext(s) EXCEPT !.load = e, !.retry = e])
          BY <2>2 DEF Prepare
    <3>2. PICK e : ses' = Touch([ClearNext(s) EXCEPT !.load = e, !.retry = e])
          BY <3>1
    <3>3. DOMAIN s = SessionFields /\ s.trans = ses.trans
          BY <1>1, <3>1 DEF SessionFields
    <3>4. PICK r : r = [ClearNext(s) EXCEPT !.load = e, !.retry = e]
          OBVIOUS
    <3>5. DOMAIN r = SessionFields /\ r.trans = ses.trans
          BY <3>3, <3>4, ClearNextApart DEF Apart, SessionFields
    <3>6. QED  BY <3>2, <3>4, <3>5, TouchApart DEF Apart
  <2>3. QED  BY <2>1, <2>2
<1>6. upset' # "yes" => upset # "yes" /\ ses.trans = None
      BY <1>1, <1>4 DEF TransitInv, LoneInv
<1>7. upset' \in {"no", "mending", "yes"}
      BY <1>4 DEF TransitInv, ShapeInv
<1>8. QED  BY <1>1, <1>2, <1>3, <1>5, <1>6, <1>7, CallGoesOn DEF Loads

LEMMA LoadKeeps ==
    ASSUME TransitInv, NEW t \in Thread, Load(t)
    PROVE  TransitInv'
<1>1. /\ DOMAIN calls[t] = CallFields /\ t \in Busy /\ calls[t].pc = "prepare"
      /\ upset' \in {upset, "yes"}
      BY CallOf DEF Load, Upset
<1>2. Calm(ses, ses')
  <2>1. ses' = ses
        BY DEF Load
  <2>2. QED  BY <2>1, CalmAtFirst
<1>3. PICK c : /\ c \in {[calls[t] EXCEPT !.pc = "commit", !.prev = None, !.keep = FALSE],
                         Errored(t, calls[t])}
               /\ calls' = [calls EXCEPT ![t] = c]
      BY DEF Load, Continue
<1>4. DOMAIN c = CallFields /\ (Bound(c) => Bound(calls[t]))
  <2>1. CASE c = [calls[t] EXCEPT !.pc = "commit", !.prev = None, !.keep = FALSE]
        BY <1>1, <2>1 DEF Bound, CallFields
  <2>2. CASE c = Errored(t, calls[t])
        BY <1>1, <2>2, ReturnsFree
  <2>3. QED  BY <1>3, <2>1, <2>2
<1>5. QED  BY <1>1, <1>2, <1>3, <1>4, CallGoesCalmly

LEMMA CommitKeeps ==
    ASSUME TransitInv, NEW t \in Thread, Commit(t) \/ CommitPending(t)
    PROVE  TransitInv'
<1>1. DOMAIN ses = SessionFields /\ DOMAIN calls[t] = CallFields /\ t \in Busy
      BY CallOf DEF Commit, CommitPending
<1>2. CASE Commit(t)
  <2>1. PICK s : s = CancelRetry(ClearNext(SwitchCurrent(ses, calls[t].entry, calls[t].qi)))
        OBVIOUS
  <2>2. DOMAIN s = SessionFields /\ s.trans = ses.trans
        BY <1>1, <2>1, SwitchApart, ClearNextApart, RetryCancelled DEF Apart
  <2>3. DOMAIN ses' = SessionFields /\ ses'.trans = ses.trans
    <3>1. PICK e, r : /\ r = [s EXCEPT !.load = None, !.status = "playing", !.loaded = e, !.armed = FALSE]
                      /\ ses' = Touch(r)
          BY <1>2, <2>1 DEF Commit
    <3>2. DOMAIN r = SessionFields /\ r.trans = ses.trans
          BY <2>2, <3>1 DEF SessionFields
    <3>3. QED  BY <3>1, <3>2, TouchApart DEF Apart
  <2>4. PICK c : c = [Idle EXCEPT !.pc = "arm", !.follow = calls[t].follow, !.blocked = calls[t].blocked]
        OBVIOUS
  <2>5. calls' = [calls EXCEPT ![t] = c] /\ DOMAIN c = CallFields /\ ~Bound(c)
        BY <1>2, <2>4 DEF Commit, Continue, Idle, CallFields, Bound
  <2>6. upset' \in {"no", "mending", "yes"} /\ (upset' # "yes" => upset # "yes")
        BY <1>2 DEF Commit, TransitInv, ShapeInv
  <2>7. upset' # "yes" => ses.trans = None
    <3>1. Bound(calls[t])
          BY <1>2 DEF Commit, Bound
    <3>2. QED  BY <2>6, <3>1 DEF TransitInv, LoneInv
  <2>8. QED  BY <1>1, <2>3, <2>5, <2>6, <2>7, CallGoesOn DEF Loads
<1>3. CASE CommitPending(t)
  <2>1. PICK qi : \E e : ses' = Touch([CancelRetry(SwitchCurrent(ses, e, qi)) EXCEPT
           !.load = None, !.status = "playing", !.loaded = e, !.armed = FALSE, !.trans = None])
        BY <1>3 DEF CommitPending
  <2>2. PICK e : ses' = Touch([CancelRetry(SwitchCurrent(ses, e, qi)) EXCEPT
           !.load = None, !.status = "playing", !.loaded = e, !.armed = FALSE, !.trans = None])
        BY <2>1
  <2>3. PICK s : s = CancelRetry(SwitchCurrent(ses, e, qi))
        OBVIOUS
  <2>4. DOMAIN s = SessionFields
        BY <1>1, <2>3, SwitchApart, RetryCancelled DEF Apart
  <2>5. PICK r : r = [s EXCEPT !.load = None, !.status = "playing", !.loaded = e,
                               !.armed = FALSE, !.trans = None]
        OBVIOUS
  <2>6. DOMAIN r = SessionFields /\ r.trans = None
        BY <2>4, <2>5 DEF SessionFields
  <2>7. DOMAIN ses' = SessionFields /\ ses'.trans = None
        BY <2>2, <2>3, <2>5, <2>6, TouchApart DEF Apart
  <2>8. Calm(ses, ses')
        BY <2>7 DEF Calm
  <2>9. calls' = [calls EXCEPT ![t] = Idle] /\ upset' \in {upset, "yes"}
        BY <1>3 DEF CommitPending, Continue, Upset
  <2>10. DOMAIN Idle = CallFields /\ ~Bound(Idle)
        BY <1>1, ReturnsFree
  <2>11. QED  BY <1>1, <2>8, <2>9, <2>10, CallGoesCalmly
<1>4. QED  BY <1>2, <1>3

\* The steps that prepare the entry that comes next, and those that drop what
\* was passed over, leave the transition alone.
LEMMA ConsumeKeeps ==
    ASSUME TransitInv, NEW t \in Thread, Consume(t)
    PROVE  TransitInv'
<1>1. DOMAIN calls[t] = CallFields /\ t \in Busy /\ upset' \in {upset, "yes"}
      BY CallOf DEF Consume
<1>2. PICK d : d = [calls[t] EXCEPT !.blocked = {}]
      OBVIOUS
<1>3. calls' = [calls EXCEPT ![t] = Returned(t, d)] /\ DOMAIN d = CallFields
      BY <1>1, <1>2 DEF Consume, Continue
<1>4. DOMAIN Returned(t, d) = CallFields /\ ~Bound(Returned(t, d))
      BY <1>3, ReturnsFree
<1>5. PICK q : ses' = Touch([ses EXCEPT !.user = q])
  <2>1. PICK q : q = SelectSeq(ses.user, LAMBDA e : e \notin calls[t].blocked)
        OBVIOUS
  <2>2. ses' = Touch([ses EXCEPT !.user = q])
        BY <2>1 DEF Consume
  <2>3. QED  BY <2>2
<1>6. Calm(ses, ses')
      BY <1>5, CalmAtFirst, CalmFields, CalmSections
<1>7. QED  BY <1>1, <1>3, <1>4, <1>6, CallGoesCalmly

LEMMA PreloadStepsKeep ==
    ASSUME TransitInv, NEW t \in Thread, Arm(t) \/ Apply(t) \/ AppendPreload(t) \/ Armed(t)
    PROVE  TransitInv'
<1>1. DOMAIN ses = SessionFields /\ DOMAIN calls[t] = CallFields /\ t \in Busy /\ upset' = upset
      BY CallOf DEF Arm, Apply, AppendPreload, Armed
<1>2. PICK c : calls' = [calls EXCEPT ![t] = c] /\ DOMAIN c = CallFields /\ ~Bound(c)
  <2>1. DOMAIN Returned(t, calls[t]) = CallFields /\ ~Bound(Returned(t, calls[t]))
        BY <1>1, ReturnsFree
  <2>2. ASSUME NEW x
        PROVE  LET d == [calls[t] EXCEPT !.pc = "apply", !.uri = x]
               IN  DOMAIN d = CallFields /\ ~Bound(d)
        BY <1>1 DEF CallFields, Bound
  <2>3. ASSUME NEW x \in {"append", "arming"}
        PROVE  LET d == [calls[t] EXCEPT !.pc = x]
               IN  DOMAIN d = CallFields /\ ~Bound(d)
        BY <1>1 DEF CallFields, Bound
  <2>4. PICK x : \/ Continue(t, Returned(t, calls[t]))
                 \/ Continue(t, [calls[t] EXCEPT !.pc = "apply", !.uri = x])
                 \/ Goto(t, "append") \/ Goto(t, "arming")
    <3>1. PICK x : x = Resolved(ses, {})
          OBVIOUS
    <3>2. CASE Arm(t)
          BY <3>1, <3>2 DEF Arm
    <3>3. CASE Apply(t)
          BY <3>3 DEF Apply
    <3>4. CASE AppendPreload(t) \/ Armed(t)
          BY <3>4 DEF AppendPreload, Armed
    <3>5. QED  BY <3>2, <3>3, <3>4
  <2>5. PICK d : d = [calls[t] EXCEPT !.pc = "apply", !.uri = x]
        OBVIOUS
  <2>6. PICK f, g : f = [calls[t] EXCEPT !.pc = "append"] /\ g = [calls[t] EXCEPT !.pc = "arming"]
        OBVIOUS
  <2>7. \/ Continue(t, Returned(t, calls[t])) \/ Continue(t, d) \/ Continue(t, f) \/ Continue(t, g)
        BY <2>4, <2>5, <2>6, CallOf DEF Continue
  <2>8. DOMAIN d = CallFields /\ ~Bound(d)
        BY <2>2, <2>5
  <2>9. DOMAIN f = CallFields /\ ~Bound(f) /\ DOMAIN g = CallFields /\ ~Bound(g)
        BY <2>3, <2>6
  <2>10. QED  BY <2>1, <2>7, <2>8, <2>9 DEF Continue
<1>3. Calm(ses, ses')
  <2>1. CASE Arm(t)
    <3>1. PICK s : s = AfterPlanning(ses)
          OBVIOUS
    <3>2. Calm(ses, ses) /\ Calm(ses, s)
          BY <3>1, CalmAtFirst, CalmSections
    <3>3. PICK r : r = ClearNext(IF ShouldArm(ses) THEN s ELSE ses)
          OBVIOUS
    <3>4. Calm(ses, r)
          BY <3>2, <3>3, CalmSections
    <3>5. ses' = s \/ ses' = [r EXCEPT !.armed = FALSE]
          BY <2>1, <3>1, <3>3 DEF Arm
    <3>6. Calm(ses, [r EXCEPT !.armed = FALSE])
          BY <3>4, CalmFields
    <3>7. QED  BY <3>2, <3>5, <3>6
  <2>2. CASE Apply(t)
    <3>1. PICK x : x = IF ses.failed = calls[t].uri THEN ses.failed ELSE None
          OBVIOUS
    <3>2. PICK s : s = [ses EXCEPT !.next = calls[t].uri, !.failed = x]
          OBVIOUS
    <3>3. Apart(ses, s)
          BY <1>1, <3>2 DEF Apart, SessionFields
    <3>4. \/ ses' = [s EXCEPT !.ready = FALSE, !.pre = None, !.armed = FALSE]
          \/ ses' = [s EXCEPT !.ready = TRUE]
          BY <2>2, <3>1, <3>2 DEF Apply
    <3>5. Apart(ses, ses')
          BY <3>3, <3>4 DEF Apart, SessionFields
    <3>6. QED  BY <3>5 DEF Apart, Calm
  <2>3. CASE AppendPreload(t)
    <3>1. ses' = ses \/ ses' = [ses EXCEPT !.failed = calls[t].uri]
          BY <2>3 DEF AppendPreload
    <3>2. QED  BY <1>1, <3>1 DEF Calm, SessionFields
  <2>4. CASE Armed(t)
    <3>1. ses' = [ses EXCEPT !.failed = None, !.pre = calls[t].uri, !.armed = TRUE,
                             !.next = calls[t].uri, !.ready = TRUE]
          BY <2>4 DEF Armed
    <3>2. QED  BY <1>1, <3>1 DEF Calm, SessionFields
  <2>5. QED  BY <2>1, <2>2, <2>3, <2>4
<1>4. QED  BY <1>1, <1>2, <1>3, CallGoesCalmly

\* The status follows what the player was told, or the call has failed.
LEMMA ToldKeeps ==
    ASSUME TransitInv, NEW t \in Thread, PlayerTold(t)
    PROVE  TransitInv'
<1>1. /\ DOMAIN ses = SessionFields /\ t \in Busy /\ upset' = upset
      /\ calls' = [calls EXCEPT ![t] = Idle]
      BY CallOf DEF PlayerTold
<1>2. DOMAIN Idle = CallFields /\ ~Bound(Idle)
      BY DEF Idle, CallFields, Bound
<1>3. Calm(ses, ses')
  <2>1. CASE \E x : ses' = Touch([ses EXCEPT !.status = x])
    <3>1. PICK x : ses' = Touch([ses EXCEPT !.status = x])
          BY <2>1
    <3>2. QED  BY <1>1, <3>1, TouchApart DEF Apart, Calm, SessionFields
  <2>2. CASE ses' = Fail(ses)
    <3>1. PICK s : s = [ses EXCEPT !.status = "paused", !.load = None]
          OBVIOUS
    <3>2. DOMAIN s = SessionFields
          BY <1>1, <3>1 DEF SessionFields
    <3>3. DOMAIN CancelTransport(s) = SessionFields /\ CancelTransport(s).trans = None
          BY <3>2, TransportCancelled
    <3>4. ses' = Touch(CancelTransport(s))
          BY <2>2, <3>1 DEF Fail
    <3>5. QED  BY <3>3, <3>4, TouchApart DEF Apart, Calm
  <2>3. QED  BY <2>1, <2>2 DEF PlayerTold
<1>4. QED  BY <1>1, <1>2, <1>3, CallGoesCalmly

LEMMA CallStepKeeps ==
    ASSUME TransitInv, NEW t \in Thread, CallStep(t)
    PROVE  TransitInv'
BY ResolveKeeps, BeginKeeps, ActivateKeeps, ActivatedKeeps, PrepareKeeps, LoadKeeps, CommitKeeps,
   ConsumeKeeps, PreloadStepsKeep, ToldKeeps DEF CallStep

-----------------------------------------------------------------------------
(* The ticker, the retries and the timer.                                   *)

LEMMA TickKeeps ==
    ASSUME TransitInv, TickPreload
    PROVE  TransitInv'
<1>1. PICK c : c = [Idle EXCEPT !.pc = "arm"]
      OBVIOUS
<1>2. DOMAIN c = CallFields /\ ~Bound(c)
      BY <1>1 DEF Idle, CallFields, Bound
<1>3. Begin("tick", c) /\ UNCHANGED ses /\ "tick" \in Thread
      BY <1>1 DEF TickPreload, Thread
<1>4. QED  BY <1>2, <1>3, CallBegun

LEMMA RetryKeeps ==
    ASSUME TransitInv, RetryReady \/ RetryUnavailable
    PROVE  TransitInv'
<1>1. PICK x, y : x = (ses.cur # None) /\ y = (ses.cur = None)
      OBVIOUS
<1>2. PICK c, d : /\ c = [Idle EXCEPT !.pc = "prepare", !.entry = ses.retry, !.follow = "pending"]
                  /\ d = [Idle EXCEPT !.pc = "resolve", !.follow = "next", !.keep = x, !.stop = y]
      OBVIOUS
<1>3. DOMAIN c = CallFields /\ ~Bound(c)
      BY <1>2 DEF Idle, CallFields, Bound
<1>4. DOMAIN d = CallFields /\ ~Bound(d)
      BY <1>2 DEF Idle, CallFields, Bound
<1>5. (Begin("retry", c) \/ Begin("retry", d)) /\ UNCHANGED ses /\ "retry" \in Thread
      BY <1>1, <1>2 DEF RetryReady, RetryUnavailable, Thread
<1>6. QED  BY <1>3, <1>4, <1>5, CallBegun

LEMMA SettleKeeps ==
    ASSUME TransitInv, RetrySettle
    PROVE  TransitInv'
<1>1. PICK t : t = "retry" /\ t \in Thread
      BY DEF Thread
<1>2. /\ DOMAIN calls[t] = CallFields /\ t \in Busy /\ upset' \in {upset, "yes"}
      /\ calls' = [calls EXCEPT ![t] = Idle]
      BY <1>1, CallOf DEF RetrySettle, Continue
<1>3. PICK f : f = FailPending(ses)
      OBVIOUS
<1>4. Calm(ses, f)
  <2>1. PICK x, s : /\ x = IF ses.cur = None THEN "paused" ELSE ses.status
                    /\ s = [ses EXCEPT !.status = x, !.load = None]
        OBVIOUS
  <2>2. DOMAIN s = SessionFields
        BY <1>1, <2>1, CallOf
  <2>3. PICK r : r = CancelTransport(s)
        OBVIOUS
  <2>4. DOMAIN r = SessionFields /\ r.trans = None
        BY <2>2, <2>3, TransportCancelled
  <2>5. f = Touch(r)
        BY <1>3, <2>1, <2>3 DEF FailPending
  <2>6. QED  BY <2>4, <2>5, TouchApart DEF Apart, Calm
<1>5. Calm(ses, ses')
  <2>1. PICK s : s \in {f, ses} /\ ses' \in {s, CancelRetry(s)}
    <3>1. PICK s : s = IF calls[t].stop THEN f ELSE ses
          OBVIOUS
    <3>2. ses' \in {s, CancelRetry(s)}
          BY <1>1, <1>3, <3>1 DEF RetrySettle
    <3>3. QED  BY <3>1, <3>2
  <2>2. Calm(ses, s)
        BY <1>4, <2>1, CalmAtFirst
  <2>3. QED  BY <2>1, <2>2, CalmSections
<1>6. QED  BY <1>1, <1>2, <1>5, CallGoesCalmly, ReturnsFree

\* A pending entry is given up: then no transition is under way, unless upset.
LEMMA GivenUpKeeps ==
    ASSUME TransitInv, RetryTimeout
    PROVE  TransitInv'
<1>1. DOMAIN ses = SessionFields /\ UNCHANGED calls /\ upset' \in {upset, "yes"}
      BY DEF RetryTimeout, Upset, TransitInv, ShapeInv
<1>2. DOMAIN ses' = SessionFields /\ ses'.trans = ses.trans
  <2>1. PICK s, x : s = CancelRetry(ses) /\ ses' = Touch([s EXCEPT !.status = x, !.load = None])
    <3>1. PICK s : s = CancelRetry(ses)
          OBVIOUS
    <3>2. PICK x : x = IF ses.cur = None THEN "paused" ELSE s.status
          OBVIOUS
    <3>3. ses' = Touch([s EXCEPT !.status = x, !.load = None])
          BY <3>1, <3>2 DEF RetryTimeout
    <3>4. QED  BY <3>1, <3>3
  <2>2. DOMAIN s = SessionFields /\ s.trans = ses.trans
        BY <1>1, <2>1, RetryCancelled
  <2>3. PICK r : r = [s EXCEPT !.status = x, !.load = None]
        OBVIOUS
  <2>4. DOMAIN r = SessionFields /\ r.trans = ses.trans
        BY <2>2, <2>3 DEF SessionFields
  <2>5. QED  BY <2>1, <2>3, <2>4, TouchApart DEF Apart
<1>3. upset' = "no" => ses.trans = None
      BY <1>1 DEF RetryTimeout, TransitInv, Loads
<1>4. ShapeInv' /\ Busy' = Busy
      BY <1>1, <1>2 DEF TransitInv, ShapeInv, Busy
<1>5. LoneInv'
      BY <1>1, <1>2, <1>4 DEF TransitInv, LoneInv, Bound
<1>6. QED  BY <1>2, <1>3, <1>4, <1>5 DEF TransitInv, Loads

LEMMA TimeoutKeeps ==
    ASSUME TransitInv, TransportTimeout
    PROVE  TransitInv'
<1>1. DOMAIN ses = SessionFields
      BY DEF TransitInv, ShapeInv
<1>2. PICK c : c = [Idle EXCEPT !.pc = "begin", !.entry = ses.trans.entry, !.qi = ses.trans.qi,
                                !.prev = ses.trans.prev, !.keep = TRUE]
      OBVIOUS
<1>3. DOMAIN c = CallFields /\ ~Bound(c)
      BY <1>2 DEF Idle, CallFields, Bound
<1>4. Enter("timer", c) /\ "timer" \in Thread
      BY <1>2 DEF TransportTimeout, Thread
<1>5. upset' = IF Overlaps THEN "yes" ELSE "mending"
      BY DEF TransportTimeout
<1>6. Calm(ses, ses')
  <2>1. PICK s : s = CancelTransport(ClearNext(ses))
        OBVIOUS
  <2>2. Calm(ses, s)
        BY <2>1, CalmAtFirst, CalmSections
  <2>3. ses' = Touch([s EXCEPT !.armed = FALSE])
        BY <2>1 DEF TransportTimeout
  <2>4. QED  BY <2>2, <2>3, CalmFields, CalmSections
<1>7. QED  BY <1>3, <1>4, <1>5, <1>6, CallBegins

-----------------------------------------------------------------------------
(* Events.                                                                  *)

\* The transition ends with the file that is loaded.
LEMMA FileLoadedKeeps ==
    ASSUME TransitInv, FileLoaded
    PROVE  TransitInv'
<1>1. DOMAIN ses = SessionFields
      BY DEF TransitInv, ShapeInv
<1>2. CASE ses.trans # None /\ Event.attempt = ses.trans.attempt
  <2>1. PICK c : c = [Idle EXCEPT !.pc = "arm"]
        OBVIOUS
  <2>2. DOMAIN c = CallFields /\ ~Bound(c)
        BY <2>1 DEF Idle, CallFields, Bound
  <2>3. Begin("event", c) /\ "event" \in Thread
        BY <1>2, <2>1 DEF FileLoaded, Thread
  <2>4. PICK s : s = CancelRetry(ClearNext(SwitchCurrent(ses, ses.trans.entry, ses.trans.qi)))
        OBVIOUS
  <2>5. DOMAIN s = SessionFields
        BY <1>1, <2>4, SwitchApart, ClearNextApart, RetryCancelled DEF Apart
  <2>6. PICK r : r = [s EXCEPT !.load = None, !.trans = None, !.status = "playing",
                               !.loaded = ses.trans.entry, !.armed = FALSE]
        OBVIOUS
  <2>7. DOMAIN r = SessionFields /\ r.trans = None
        BY <2>5, <2>6 DEF SessionFields
  <2>8. ses' = Touch(r)
        BY <1>2, <2>4, <2>6 DEF FileLoaded
  <2>9. Calm(ses, ses')
        BY <2>7, <2>8, TouchApart DEF Apart, Calm
  <2>10. Enter("event", c) /\ upset' \in {"no", "mending", "yes"} /\ (upset' # "yes" => ~Overlaps)
        BY <2>3 DEF Begin, Upset, TransitInv, ShapeInv
  <2>11. upset' = "no" => upset = "no"
        BY <2>3 DEF Begin, Upset
  <2>12. QED  BY <2>2, <2>3, <2>9, <2>10, <2>11, CallBegins
<1>3. CASE ~(ses.trans # None /\ Event.attempt = ses.trans.attempt)
  <2>1. UNCHANGED <<ses, calls>> /\ upset' \in {upset, "yes"}
        BY <1>3 DEF FileLoaded, Upset
  <2>2. QED  BY <2>1, CalmAtFirst, NoCallMoves
<1>4. QED  BY <1>2, <1>3

LEMMA InterruptionsKeep ==
    ASSUME TransitInv, TrackInterrupted \/ BackendError \/ BackendShutdown
    PROVE  TransitInv'
<1>1. DOMAIN ses = SessionFields
      BY DEF TransitInv, ShapeInv
<1>2. UNCHANGED calls /\ upset' = "yes"
      BY DEF TrackInterrupted, BackendError, BackendShutdown, Upset
<1>3. PICK r : /\ r = CancelTransport(CancelRetry(ClearNext(ses)))
      OBVIOUS
<1>4. PICK s : s = CancelTransport([ses EXCEPT !.status = "paused", !.load = None])
      OBVIOUS
<1>5. PICK u : u = CancelTransport(ses)
      OBVIOUS
<1>6. PICK v : v = [r EXCEPT !.status = "paused", !.load = None, !.loaded = None]
      OBVIOUS
<1>7. Calm(ses, v)
  <2>1. DOMAIN r = SessionFields /\ r.trans = None
        BY <1>1, <1>3, ClearNextApart, RetryCancelled, TransportCancelled DEF Apart
  <2>2. QED  BY <1>6, <2>1 DEF Calm, SessionFields
<1>8. Calm(ses, s)
  <2>1. DOMAIN [ses EXCEPT !.status = "paused", !.load = None] = SessionFields
        BY <1>1
  <2>2. QED  BY <1>4, <2>1, TransportCancelled DEF Calm
<1>9. Calm(ses, u)
      BY <1>5, CalmAtFirst, CalmSections
<1>10. \/ ses' = [Touch(v) EXCEPT !.armed = FALSE]
       \/ ses' = Touch(s) \/ ses' = Touch([u EXCEPT !.status = "paused"])
      BY <1>3, <1>4, <1>5, <1>6 DEF TrackInterrupted, BackendError, BackendShutdown, Interrupted, Fail
<1>11. PICK w : w = Touch(v)
      OBVIOUS
<1>12. Calm(ses, w) /\ Calm(ses, Touch(s)) /\ Calm(ses, [u EXCEPT !.status = "paused"])
      BY <1>7, <1>8, <1>9, <1>11, CalmSections, CalmFields
<1>13. Calm(ses, ses')
  <2>1. /\ Calm(ses, [w EXCEPT !.armed = FALSE])
        /\ Calm(ses, Touch([u EXCEPT !.status = "paused"]))
        BY <1>12, CalmSections, CalmFields
  <2>2. QED  BY <1>10, <1>11, <1>12, <2>1
<1>14. QED  BY <1>2, <1>13, NoCallMoves

LEMMA TrackEOFKeeps ==
    ASSUME TransitInv, TrackEOF
    PROVE  TransitInv'
<1>1. DOMAIN ses = SessionFields
      BY DEF TransitInv, ShapeInv
<1>2. CASE UNCHANGED <<ses, calls>> /\ upset' \in {upset, "yes"}
      BY <1>2, CalmAtFirst, NoCallMoves
<1>3. CASE /\ ses.trans = None /\ UNCHANGED calls /\ upset' \in {upset, "yes"}
           /\ ses' = Touch([ClearNext(ses) EXCEPT !.status = "pending", !.loaded = None,
                                                  !.cur = None, !.armed = FALSE])
  <2>1. PICK s : s = ClearNext(ses)
        OBVIOUS
  <2>2. PICK r : r = [s EXCEPT !.status = "pending", !.loaded = None, !.cur = None, !.armed = FALSE]
        OBVIOUS
  <2>3. Apart(ses, s)
        BY <1>1, <2>1, ClearNextApart
  <2>4. DOMAIN r = SessionFields /\ r.trans = None
        BY <1>3, <2>2, <2>3 DEF Apart, SessionFields
  <2>5. Calm(ses, ses')
        BY <1>3, <2>1, <2>2, <2>4, TouchApart DEF Apart, Calm
  <2>6. QED  BY <1>3, <2>5, NoCallMoves
<1>4. CASE /\ ses.trans = None /\ UNCHANGED ses
           /\ Begin("event", [Idle EXCEPT !.pc = "eof", !.prev = ses.cur, !.uri = Event.uri,
                                          !.entry = ses.pre])
  <2>1. PICK c : c = [Idle EXCEPT !.pc = "eof", !.prev = ses.cur, !.uri = Event.uri, !.entry = ses.pre]
        OBVIOUS
  <2>2. DOMAIN c = CallFields
        BY <2>1 DEF Idle, CallFields
  <2>3. Begin("event", c) /\ "event" \in Thread
        BY <1>4, <2>1 DEF Thread
  <2>4. QED  BY <1>4, <2>2, <2>3, CallBegun
<1>5. QED  BY <1>2, <1>3, <1>4 DEF TrackEOF, Upset

\* What comes after the end of a track is resolved ...
LEMMA TrackEndedKeeps ==
    ASSUME TransitInv, TrackEnded
    PROVE  TransitInv'
<1>1. PICK t : t = "event" /\ t \in Thread
      BY DEF Thread
<1>2. /\ DOMAIN ses = SessionFields /\ DOMAIN calls[t] = CallFields /\ t \in Busy
      /\ Bound(calls[t]) /\ upset' = upset
      BY <1>1, CallOf DEF TrackEnded, Bound
<1>3. ses' = AfterPlanning(ses)
      BY DEF TrackEnded
<1>4. Calm(ses, ses')
      BY <1>2, <1>3, PlanningApart DEF Apart, Calm
<1>5. PICK c : calls' = [calls EXCEPT ![t] = c] /\ DOMAIN c = CallFields
  <2>1. PICK d : d = [Idle EXCEPT !.prev = calls[t].prev]
        OBVIOUS
  <2>2. DOMAIN d = CallFields
        BY <2>1 DEF Idle, CallFields
  <2>3. PICK e, qi, skipped :
          \/ Continue(t, [d EXCEPT !.pc = "takeover", !.entry = e, !.qi = qi])
          \/ Continue(t, [d EXCEPT !.pc = "resolve", !.follow = "next", !.stop = TRUE])
          \/ Continue(t, [d EXCEPT !.pc = "over", !.blocked = skipped])
        BY <1>1, <2>1 DEF TrackEnded
  <2>4. QED  BY <2>2, <2>3 DEF Continue
<1>6. QED  BY <1>1, <1>2, <1>4, <1>5, CallGoesCalmly

\* ... and applied: no transition is under way then, and none begins.
LEMMA TakenOverKeeps ==
    ASSUME TransitInv, TakenOver
    PROVE  TransitInv'
<1>1. PICK t, c : t = "event" /\ t \in Thread /\ c = calls[t]
      BY DEF Thread
<1>2. /\ DOMAIN ses = SessionFields /\ t \in Busy /\ upset' = upset
      /\ calls' = [calls EXCEPT ![t] = [Idle EXCEPT !.pc = "arm"]]
      BY <1>1, CallOf DEF TakenOver, Continue
<1>3. DOMAIN [Idle EXCEPT !.pc = "arm"] = CallFields /\ ~Bound([Idle EXCEPT !.pc = "arm"])
      BY DEF Idle, CallFields, Bound
<1>4. PICK r : r = ClearNext(SwitchCurrent(ses, c.entry, c.qi))
      OBVIOUS
<1>5. Apart(ses, r)
      BY <1>2, <1>4, SwitchApart, ClearNextApart DEF Apart
<1>6. PICK u : u = [r EXCEPT !.status = "playing", !.loaded = c.entry, !.armed = FALSE]
      OBVIOUS
<1>7. Apart(ses, u)
      BY <1>5, <1>6 DEF Apart, SessionFields
<1>8. ses' = Touch(u)
      BY <1>1, <1>4, <1>6 DEF TakenOver, TakeOver
<1>9. Calm(ses, ses')
      BY <1>7, <1>8, TouchApart DEF Apart, Calm
<1>10. QED  BY <1>1, <1>2, <1>3, <1>9, CallGoesCalmly

\* Nothing is left to play, and nothing is loading any more.
LEMMA PlayedOutKeeps ==
    ASSUME TransitInv, PlayedOut
    PROVE  TransitInv'
<1>1. PICK t, c : t = "event" /\ t \in Thread /\ c = calls[t]
      BY DEF Thread
<1>2. /\ DOMAIN ses = SessionFields /\ t \in Busy /\ Bound(c) /\ upset' = upset
      /\ calls' = [calls EXCEPT ![t] = Idle]
      BY <1>1, CallOf DEF PlayedOut, Bound
<1>3. DOMAIN Idle = CallFields /\ ~Bound(Idle)
      BY DEF Idle, CallFields, Bound
<1>4. DOMAIN ses' = SessionFields /\ ses'.trans = ses.trans
  <2>1. PICK over : over = [ClearNext(ses) EXCEPT !.status = "paused", !.loaded = None, !.armed = FALSE]
        OBVIOUS
  <2>2. DOMAIN over = SessionFields /\ over.trans = ses.trans
        BY <1>2, <2>1, ClearNextApart DEF Apart, SessionFields
  <2>3. PICK bare : bare = [over EXCEPT !.load = None, !.cur = IF @ = None THEN c.prev ELSE @]
        OBVIOUS
  <2>4. DOMAIN bare = SessionFields /\ bare.trans = ses.trans
        BY <2>2, <2>3 DEF SessionFields
  <2>5. ses' = Touch(over) \/ ses' = Touch(bare)
        BY <1>1, <2>1, <2>3 DEF PlayedOut
  <2>6. QED  BY <2>2, <2>4, <2>5, TouchApart DEF Apart
<1>5. upset' # "yes" => upset # "yes" /\ ses.trans = None
      BY <1>1, <1>2 DEF TransitInv, LoneInv
<1>6. upset' \in {"no", "mending", "yes"}
      BY <1>2 DEF TransitInv, ShapeInv
<1>7. upset' = "no" => Loads(ses')
      BY <1>4, <1>5 DEF Loads
<1>8. QED  BY <1>1, <1>2, <1>3, <1>4, <1>5, <1>6, <1>7, CallGoesOn

-----------------------------------------------------------------------------
(* The specification.                                                       *)

LEMMA PlayerKeeps ==
    ASSUME TransitInv, MpvFileLoaded \/ MpvEndFile \/ \E k \in {"error", "shutdown"} : MpvFault(k)
    PROVE  TransitInv'
<1>1. UNCHANGED <<ses, calls>> /\ upset' \in {upset, "yes"}
      BY DEF MpvFileLoaded, MpvEndFile, MpvFault, Upset
<1>2. QED  BY <1>1, CalmAtFirst, NoCallMoves

LEMMA TransitFirst == Init => TransitInv
<1>1. SUFFICES ASSUME Init PROVE TransitInv
      OBVIOUS
<1>2. ses.trans = None /\ DOMAIN ses = SessionFields
      BY <1>1 DEF Init, SessionFields
<1>3. \A t \in Thread : calls[t] = Idle
      BY <1>1 DEF Init
<1>4. Idle.pc = "idle" /\ DOMAIN Idle = CallFields
      BY DEF Idle, CallFields
<1>5. ShapeInv
      BY <1>1, <1>2, <1>3, <1>4 DEF Init, ShapeInv
<1>6. LoneInv
      BY <1>2, <1>3, <1>4 DEF LoneInv, Busy
<1>7. QED  BY <1>2, <1>5, <1>6 DEF TransitInv, Loads

LEMMA TransitKept == TransitInv /\ [Next]_vars => TransitInv'
<1>1. SUFFICES ASSUME TransitInv, [Next]_vars PROVE TransitInv'
      OBVIOUS
<1>2. CASE UserStep
      BY <1>1, <1>2, QueueItemsKeeps, RemoveKeeps, MoveKeeps, ClearKeeps, PauseKeeps, CallsOfUser
      DEF UserStep
<1>3. CASE EventStep
      BY <1>1, <1>3, FileLoadedKeeps, InterruptionsKeep, TrackEOFKeeps, TrackEndedKeeps,
         TakenOverKeeps, PlayedOutKeeps DEF EventStep
<1>4. CASE TimerStep
      BY <1>1, <1>4, TickKeeps, RetryKeeps, SettleKeeps, GivenUpKeeps, TimeoutKeeps DEF TimerStep
<1>5. CASE PlayerStep
      BY <1>1, <1>5, PlayerKeeps DEF PlayerStep
<1>6. CASE \E t \in Thread : CallStep(t)
      BY <1>1, <1>6, CallStepKeeps
<1>7. CASE UNCHANGED vars
  <2>1. UNCHANGED <<ses, calls, upset>>
        BY <1>7 DEF vars
  <2>2. QED  BY <1>1, <2>1, CalmAtFirst, NoCallMoves
<1>8. QED  BY <1>1, <1>2, <1>3, <1>4, <1>5, <1>6, <1>7 DEF Next

\* The entry that is shown as loading is the target of the activation the session
\* waits for, whatever the queue holds and whichever entries are unavailable: a
\* call that starts an activation has cancelled the one before it
\* (cancelTransportTransitionLocked in playEntry), and an entry that still waits
\* for its preparation excludes one.
THEOREM TransitionIsLoading == Spec => []TransitionLoads
<1>1. TransitInv => TransitionLoads
      BY DEF TransitInv, Loads, TransitionLoads
<1>2. QED  BY <1>1, TransitFirst, TransitKept, PTL DEF Spec

=============================================================================
