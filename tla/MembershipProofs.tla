-------------------------- MODULE MembershipProofs --------------------------
(***************************************************************************)
(* Theorems about how a device comes into a library and how it stays in,   *)
(* for any devices, invites, codes, overlapping calls and bounds.          *)
(*                                                                         *)
(* InviteJoin: who comes in was invited, and what an approval leaves can   *)
(* be opened by the device it was given to.  Membership: the certificate a *)
(* member holds is the one the library's chain of authorities and its      *)
(* registry of memberships still ask for, or the device knows to ask anew. *)
(***************************************************************************)
EXTENDS InviteJoin, Membership,
        FiniteSetTheorems, WellFoundedInduction, SequenceTheorems, TLAPS


-----------------------------------------------------------------------------
(* Sets with one element at most.                                         *)

\* A set with one index at most.
LEMMA AtMostOne ==
    ASSUME NEW T, \A i, j \in T : i = j
    PROVE  Cardinality(T) <= 1
<1>1. CASE T = {}
  <2>1. Cardinality({}) = 0
        BY FS_EmptySet
  <2>2. QED  BY <1>1, <2>1
<1>2. ASSUME NEW x \in T PROVE Cardinality(T) <= 1
  <2>1. T = {x}
        OBVIOUS
  <2>2. Cardinality({x}) = 1
        BY FS_Singleton
  <2>3. QED  BY <2>1, <2>2
<1>3. QED  BY <1>1, <1>2

-----------------------------------------------------------------------------
(* The inductive invariant.                                                 *)

Seals == [key : Attempts \cup {0}, serial : Nat]

JoinRequests == [status : {"pending", "approved", "rejected"}, device : Devices,
                 invite : Invites, key : Attempts, seal : Seals]

OwnerCalls == [step : {"granting", "rejecting", "marking"}, req : Requests,
               device : Devices, invite : Invites, seal : Seals]

Unanswered == [step : {"read", "over"}, device : Devices, invite : Invites]
Answered == [step : {"answered", "over"}, device : Devices, invite : Invites, req : Requests]

JoinAttempts == [status : {"pending", "approved", "rejected", "completed", "failed"},
                 device : Devices, req : Requests]

Replies == [status : {"pending", "approved", "rejected"}, seal : Seals]
PollsAnswered == [step : {"answered"}, reply : Replies]
PollsRestoring == [step : {"restore"}, serial : Nat]

Grants == [req : Requests, invite : Invites, serial : Nat]

OwnerType ==
  /\ invite \in [Invites -> {"new", "open", "deleting", "gone"}]
  /\ request \in [Requests -> {NoRequest} \cup JoinRequests]
  /\ call \in [Calls -> {NoCall} \cup OwnerCalls]
  /\ member \in [Devices -> Nat]
  /\ granted \subseteq Grants /\ raced \subseteq Requests

DeviceType ==
  /\ start \in [Attempts -> {NoStart} \cup Unanswered \cup Answered]
  /\ attempt \in [Attempts -> {NoAttempt} \cup JoinAttempts]
  /\ poll \in [Attempts -> {NoPoll} \cup PollsAnswered \cup PollsRestoring]
  /\ joined \in [Devices -> Nat]
  /\ cancelled \subseteq Attempts /\ entered \subseteq Attempts

\* The call c has a copy of r.
Holds(c, r) == call[c] # NoCall /\ call[c].req = r

Granted(r) == \E g \in granted : g.req = r

\* Requests are named by the attempt that made them, and are of its device; so are their copies.
Named ==
  /\ \A r \in Requests : start[r].step \in {"unused", "read"} =>
       request[r] = NoRequest /\ ~Granted(r) /\ \A c \in Calls : ~Holds(c, r)
  /\ \A r \in Requests : Known(r) => request[r].device = DeviceOf(r)
  /\ \A c \in Calls : call[c] # NoCall => call[c].device = DeviceOf(call[c].req)

\* The request an attempt waits for is of its device, and was made.
Asks(i, r) == start[r] # NoStart /\ DeviceOf(r) = DeviceOf(i)

AttemptsAsk ==
  \A i \in Attempts :
    /\ start[i].step = "answered" => Asks(i, start[i].req)
    /\ attempt[i] # NoAttempt => start[i].step = "over" /\ Asks(i, attempt[i].req)
    /\ poll[i] # NoPoll => start[i] # NoStart

\* A serial is of a certificate that was issued.
Issued ==
  /\ \A r \in Requests : Known(r) => request[r].seal.serial <= member[request[r].device]
  /\ \A r \in Requests : request[r].status = "approved" => request[r].seal.serial > 0
  /\ \A c \in Calls : call[c] # NoCall => call[c].seal.serial <= member[call[c].device]
  /\ \A c \in Calls : call[c].step = "marking" => call[c].seal.serial > 0
  /\ \A i \in Attempts : poll[i].step = "answered" => poll[i].reply.seal.serial <= member[DeviceOf(i)]
  /\ \A i \in Attempts : poll[i].step = "restore" => poll[i].serial <= member[DeviceOf(i)]
  /\ \A d \in Devices : joined[d] <= member[d]

\* An invite for one device is gone with the first approval.
UsedOnce ==
  \A g, h \in granted : g.invite \in SingleUse =>
    invite[g.invite] = "gone" /\ (h.invite = g.invite => h = g)

\* A cancelled attempt has ended.
CancelledEnded ==
  \A i \in cancelled :
    attempt[i] = NoAttempt /\ start[i].step = "over" /\ poll[i].step # "restore" /\ i \notin entered

\* A copy of a request that nobody else changed is up to date, and the approval of
\* the request is between its commit and its mark, or marked.
CopyCurrent(c, r) ==
  /\ request[r].status \in {"none", "pending"}
  /\ Known(r) => call[c].seal.key = request[r].key
  /\ call[c].step # "marking" => ~Granted(r)
  /\ call[c].step = "marking" => \E g \in granted : g.req = r /\ g.serial = call[c].seal.serial

Alone(r) ==
  /\ \A c, d \in Calls : Holds(c, r) /\ Holds(d, r) => c = d
  /\ \A c \in Calls : Holds(c, r) => CopyCurrent(c, r)
  /\ Granted(r) => \/ request[r].status \in {"none", "approved"}
                   \/ \E c \in Calls : Holds(c, r) /\ call[c].step = "marking"
  /\ request[r].status = "approved" =>
       /\ request[r].seal.key = request[r].key
       /\ \E g \in granted : g.req = r /\ g.serial = request[r].seal.serial

JoinIndInv ==
  /\ OwnerType /\ DeviceType /\ events \in 0..MaxEvents
  /\ Named /\ AttemptsAsk /\ Issued /\ UsedOnce /\ CancelledEnded
  /\ \A r \in Requests \ raced : Alone(r)

-----------------------------------------------------------------------------
(* The invariant implies the properties, and holds at first.                *)

\* What the states of the records are.
LEMMA OwnerFacts ==
  ASSUME OwnerType
  PROVE  /\ \A r \in Requests : /\ Known(r) <=> request[r] \in JoinRequests
                                /\ Known(r) <=> request[r].status # "none"
                                /\ ~Known(r) <=> request[r].status = "none"
         /\ \A c \in Calls : /\ call[c] # NoCall <=> call[c] \in OwnerCalls
                             /\ call[c] # NoCall <=> call[c].step # "idle"
<1>1. NoRequest.status = "none" /\ NoCall.step = "idle"
      BY DEF NoRequest, NoCall
<1>2. \A q \in JoinRequests : q.status # "none"
      BY DEF JoinRequests
<1>3. \A a \in OwnerCalls : a.step # "idle"
      BY DEF OwnerCalls
<1>4. QED  BY <1>1, <1>2, <1>3 DEF OwnerType, Known

\* The same for the device.
LEMMA DeviceFacts ==
  ASSUME DeviceType, NEW i \in Attempts
  PROVE  /\ start[i] # NoStart <=> start[i].step # "unused"
         /\ start[i] # NoStart <=> start[i] \in Unanswered \cup Answered
         /\ start[i].step = "read" => start[i] \in Unanswered
         /\ start[i].step = "answered" => start[i] \in Answered
         /\ start[i] # NoStart => DeviceOf(i) \in Devices
         /\ attempt[i] # NoAttempt <=> attempt[i].status # "none"
         /\ attempt[i] # NoAttempt <=> attempt[i] \in JoinAttempts
         /\ poll[i] # NoPoll <=> poll[i].step # "idle"
         /\ poll[i].step = "answered" <=> poll[i] \in PollsAnswered
         /\ poll[i].step = "restore" <=> poll[i] \in PollsRestoring
<1>1. NoStart.step = "unused" /\ NoAttempt.status = "none" /\ NoPoll.step = "idle"
      BY DEF NoStart, NoAttempt, NoPoll
<1>2. \A s \in Unanswered : s.step \in {"read", "over"} /\ s.device \in Devices
      BY DEF Unanswered
<1>3. \A s \in Answered : s.step \in {"answered", "over"} /\ s.device \in Devices
      BY DEF Answered
<1>4. \A a \in JoinAttempts : a.status # "none"
      BY DEF JoinAttempts
<1>5. /\ \A p \in PollsAnswered : p.step = "answered"
      /\ \A p \in PollsRestoring : p.step = "restore"
      BY DEF PollsAnswered, PollsRestoring
<1>6. /\ start[i] \in {NoStart} \cup Unanswered \cup Answered
      /\ attempt[i] \in {NoAttempt} \cup JoinAttempts
      /\ poll[i] \in {NoPoll} \cup PollsAnswered \cup PollsRestoring
      BY DEF DeviceType
<1>7. /\ start[i] # NoStart <=> start[i].step # "unused"
      /\ start[i] # NoStart <=> start[i] \in Unanswered \cup Answered
      /\ start[i].step = "read" => start[i] \in Unanswered
      /\ start[i].step = "answered" => start[i] \in Answered
      BY <1>1, <1>2, <1>3, <1>6
<1>8. start[i] # NoStart => DeviceOf(i) \in Devices
      BY <1>2, <1>3, <1>6 DEF DeviceOf
<1>9. QED  BY <1>1, <1>4, <1>5, <1>6, <1>7, <1>8

\* Who comes in was invited.
LEMMA JoinIndHolds == JoinIndInv => OnlyInvitedJoin /\ MaterialOpens
<1> SUFFICES ASSUME JoinIndInv PROVE OnlyInvitedJoin /\ MaterialOpens
    OBVIOUS
<1> USE DEF JoinIndInv
<1>1. ITypeOK
  <2>1. \A r \in Requests : request[r].status \in {"none", "pending", "approved", "rejected"}
        BY OwnerFacts DEF JoinRequests
  <2>2. \A i \in Attempts : attempt[i].status \in {"none", "pending", "approved", "rejected", "completed", "failed"}
        BY DeviceFacts DEF JoinAttempts
  <2>3. \A i \in Attempts : start[i].step \in {"unused", "read", "answered", "over"}
        BY DeviceFacts DEF Unanswered, Answered
  <2>4. QED  BY <2>1, <2>2, <2>3 DEF ITypeOK, OwnerType, Issued
<1>2. OneMemberPerInvite
  <2>1. ASSUME NEW t \in SingleUse PROVE Cardinality({g \in granted : g.invite = t}) <= 1
    <3>1. \A g, h \in {k \in granted : k.invite = t} : g = h
          BY DEF UsedOnce
    <3>2. QED  BY <3>1, AtMostOne
  <2>2. QED  BY <2>1 DEF OneMemberPerInvite
<1>3. CancelledStaysOut
      BY DEF CancelledStaysOut, CancelledEnded
<1>4. RejectedStaysOut
  <2>1. ASSUME NEW r \in Requests \ raced, request[r].status = "rejected" PROVE ~Granted(r)
        BY <2>1 DEF Alone, CopyCurrent
  <2>2. QED  BY <2>1 DEF RejectedStaysOut, Granted
<1>5. MaterialOpens
      BY DEF Alone, MaterialOpens
<1>6. QED  BY <1>1, <1>2, <1>3, <1>4, <1>5 DEF OnlyInvitedJoin

\* Nothing happened yet.
LEMMA JoinInit == Init => JoinIndInv
<1> SUFFICES ASSUME Init PROVE JoinIndInv
    OBVIOUS
<1> USE DEF Init
<1>1. OwnerType /\ DeviceType /\ events \in 0..MaxEvents
      BY BoundsNatural DEF OwnerType, DeviceType
<1>2. \A r \in Requests : ~Known(r) /\ ~Granted(r) /\ request[r].status = "none"
      BY DEF Known, Granted, NoRequest
<1>3. \A c \in Calls : call[c] = NoCall /\ call[c].step = "idle"
      BY DEF NoCall
<1>4. \A i \in Attempts : /\ start[i].step = "unused" /\ attempt[i] = NoAttempt
                          /\ poll[i] = NoPoll /\ poll[i].step = "idle"
      BY DEF NoStart, NoPoll
<1>5. Named
      BY <1>2, <1>3 DEF Named, Holds, Known
<1>6. AttemptsAsk
      BY <1>4 DEF AttemptsAsk
<1>7. Issued
      BY <1>2, <1>3, <1>4 DEF Issued
<1>8. UsedOnce /\ CancelledEnded
      BY DEF UsedOnce, CancelledEnded
<1>9. \A r \in Requests : Alone(r)
      BY <1>2, <1>3 DEF Alone, Holds
<1>10. QED  BY <1>1, <1>5, <1>6, <1>7, <1>8, <1>9 DEF JoinIndInv

-----------------------------------------------------------------------------
(* Parts of the invariant that an action leaves alone.                      *)

\* The events are counted up to their bound.
LEMMA EventBound == events \in 0..MaxEvents /\ (Event \/ events' = events) => events' \in 0..MaxEvents
BY BoundsNatural DEF Event

\* The device's part does not depend on the owner's, but for the serials.
LEMMA DeviceStands ==
  ASSUME JoinIndInv, UNCHANGED device
  PROVE  DeviceType' /\ AttemptsAsk' /\ CancelledEnded'
BY DEF JoinIndInv, device, DeviceType, AttemptsAsk, Asks, DeviceOf, CancelledEnded

\* Nor does the owner's on the device's, but for the names of the requests.
LEMMA OwnerStands ==
  ASSUME JoinIndInv, UNCHANGED owner
  PROVE  OwnerType' /\ UsedOnce' /\ \A r \in Requests \ raced' : Alone(r)'
BY DEF JoinIndInv, owner, OwnerType, UsedOnce, Alone, CopyCurrent, Holds, Granted, Known

\* What the owner may do to requests without harm: forget some.
LEMMA Forgetting ==
  ASSUME JoinIndInv, NEW gone \in SUBSET Requests, UNCHANGED <<device, call, member, granted, raced>>,
         request' = [r \in Requests |-> IF r \in gone THEN NoRequest ELSE request[r]],
         invite' \in [Invites -> {"new", "open", "deleting", "gone"}],
         \A t \in Invites : invite[t] = "gone" => invite'[t] = "gone",
         events' \in 0..MaxEvents
  PROVE  JoinIndInv'
<1> USE DEF JoinIndInv
<1>1. NoRequest.status = "none"
      BY DEF NoRequest
<1>2. OwnerType'
      BY DEF OwnerType
<1>3. \A r \in Requests : request'[r] = NoRequest \/ request'[r] = request[r]
      OBVIOUS
<1>4. DeviceType' /\ AttemptsAsk' /\ CancelledEnded'
      BY DeviceStands
<1>5. Named'
      BY <1>3 DEF Named, Known, Holds, Granted, DeviceOf, device
<1>6. Issued'
      BY <1>1, <1>3 DEF Issued, Known, DeviceOf, device
<1>7. UsedOnce'
      BY DEF UsedOnce, OwnerType, Grants
<1>8. ASSUME NEW r \in Requests \ raced' PROVE Alone(r)'
      BY <1>1, <1>3 DEF Alone, CopyCurrent, Holds, Granted, Known
<1>9. QED  BY <1>2, <1>4, <1>5, <1>6, <1>7, <1>8

-----------------------------------------------------------------------------
(* Invites and requests.                                                    *)

\* An invite is made, deleted or expires; requests are forgotten.
LEMMA InvitesKeep ==
  ASSUME JoinIndInv,
         \/ Inviting
         \/ \E r \in Requests : RequestExpires(r)
  PROVE  JoinIndInv'
<1>1. ASSUME NEW t \in Invites, NEW gone \in SUBSET Requests,
             NEW status \in {"open", "deleting", "gone"}, invite[t] # "gone",
             invite' = [invite EXCEPT ![t] = status],
             request' = [r \in Requests |-> IF r \in gone THEN NoRequest ELSE request[r]],
             UNCHANGED <<device, call, member, granted, raced>>, Event \/ events' = events
      PROVE  JoinIndInv'
  <2>1. events' \in 0..MaxEvents
        BY <1>1, EventBound DEF JoinIndInv
  <2>2. /\ invite' \in [Invites -> {"new", "open", "deleting", "gone"}]
        /\ \A u \in Invites : invite[u] = "gone" => invite'[u] = "gone"
        BY <1>1 DEF OwnerType, JoinIndInv
  <2>3. QED  BY <1>1, <2>1, <2>2, Forgetting
<1>2. /\ request = [r \in Requests |-> IF r \in {} THEN NoRequest ELSE request[r]]
      /\ {} \in SUBSET Requests
      BY DEF OwnerType, JoinIndInv
<1>3. ASSUME NEW t \in Invites,
             CreateInvite(t) \/ DeleteInvite(t) \/ InviteExpires(t)
      PROVE  JoinIndInv'
  <2>1. PICK status \in {"open", "deleting", "gone"} : invite' = [invite EXCEPT ![t] = status]
        BY <1>3 DEF CreateInvite, DeleteInvite, InviteExpires
  <2>2. /\ invite[t] # "gone" /\ request' = request
        /\ UNCHANGED <<device, call, member, granted, raced>> /\ (Event \/ events' = events)
        BY <1>3 DEF CreateInvite, DeleteInvite, InviteExpires
  <2>3. QED  BY <1>1, <1>2, <2>1, <2>2, Zenon
<1>4. ASSUME NEW t \in Invites, ClearInviteRequests(t) PROVE JoinIndInv'
  <2> DEFINE gone == {r \in Requests : Known(r) /\ request[r].invite = t}
  <2>1. request' = [r \in Requests |-> IF r \in gone THEN NoRequest ELSE request[r]]
        BY <1>4 DEF ClearInviteRequests
  <2>2. /\ invite[t] # "gone" /\ invite' = [invite EXCEPT ![t] = "gone"]
        /\ UNCHANGED <<device, call, member, granted, raced>> /\ events' = events
        BY <1>4 DEF ClearInviteRequests
  <2> HIDE DEF gone
  <2>3. gone \in SUBSET Requests
        BY DEF gone
  <2>4. QED  BY <1>1, <2>1, <2>2, <2>3
<1>5. ASSUME NEW r \in Requests, RequestExpires(r) PROVE JoinIndInv'
  <2>1. request' = [q \in Requests |-> IF q \in {r} THEN NoRequest ELSE request[q]]
        BY <1>5 DEF RequestExpires, OwnerType, JoinIndInv
  <2>2. UNCHANGED <<device, call, member, granted, raced, invite>> /\ Event
        BY <1>5 DEF RequestExpires
  <2>3. events' \in 0..MaxEvents
        BY <2>2, EventBound DEF JoinIndInv
  <2>4. /\ invite' \in [Invites -> {"new", "open", "deleting", "gone"}]
        /\ \A t \in Invites : invite[t] = "gone" => invite'[t] = "gone"
        /\ {r} \in SUBSET Requests
        BY <2>2 DEF OwnerType, JoinIndInv
  <2>5. QED  BY <2>1, <2>2, <2>3, <2>4, Forgetting
<1>6. QED  BY <1>3, <1>4, <1>5 DEF Inviting

-----------------------------------------------------------------------------
(* The device asks to join.                                                 *)

\* An attempt that starts has no request yet.
LEMMA StartJoinKeeps ==
  ASSUME JoinIndInv, NEW i \in Attempts, NEW d \in Devices, NEW t \in Invites, StartJoin(i, d, t)
  PROVE  JoinIndInv'
<1> USE DEF JoinIndInv
<1> DEFINE new == [step |-> IF invite[t] = "open" THEN "read" ELSE "over", device |-> d, invite |-> t]
<1>1. /\ start[i] = NoStart /\ start' = [start EXCEPT ![i] = new]
      /\ UNCHANGED <<owner, attempt, poll, joined, cancelled, entered, events>>
      BY DEF StartJoin
<1>2. new \in Unanswered /\ new.step # "answered" /\ new.step # "unused"
      BY DEF Unanswered
<1> HIDE DEF new
<1>3. start[i].step = "unused" /\ new # NoStart
      BY <1>1, <1>2 DEF NoStart
<1>4. start'[i] = new /\ \A j \in Attempts \ {i} : start'[j] = start[j]
      BY <1>1 DEF DeviceType
<1>5. OwnerType' /\ UsedOnce' /\ \A r \in Requests \ raced' : Alone(r)'
      BY <1>1, OwnerStands
<1>6. DeviceType'
      BY <1>1, <1>2 DEF DeviceType
<1>7. request[i] = NoRequest /\ ~Granted(i) /\ \A c \in Calls : ~Holds(c, i)
      BY <1>3 DEF Named, Requests, Attempts
<1>8. Named'
  <2>1. ASSUME NEW r \in Requests
        PROVE  /\ start'[r].step \in {"unused", "read"} =>
                     request[r] = NoRequest /\ ~Granted(r) /\ \A c \in Calls : ~Holds(c, r)
               /\ Known(r) => request[r].device = start'[r].device
    <3>1. CASE r = i
          BY <1>7, <3>1 DEF Known
    <3>2. CASE r # i
          BY <1>4, <3>2 DEF Named, DeviceOf, Requests, Attempts
    <3>3. QED  BY <3>1, <3>2
  <2>2. ASSUME NEW c \in Calls, call[c] # NoCall
        PROVE  call[c].device = start'[call[c].req].device
    <3>1. call[c].req \in Requests
          BY <2>2, OwnerFacts DEF OwnerCalls
    <3>2. call[c].req # i
          BY <1>7, <2>2 DEF Holds
    <3>3. QED  BY <1>4, <2>2, <3>1, <3>2 DEF Named, DeviceOf, Requests, Attempts
  <2>3. QED  BY <1>1, <2>1, <2>2 DEF Named, Holds, Granted, Known, DeviceOf, owner
<1>9. attempt[i] = NoAttempt /\ poll[i] = NoPoll /\ i \notin cancelled /\ poll[i].step = "idle"
      BY <1>1, <1>3 DEF AttemptsAsk, CancelledEnded, NoPoll
<1>10. AttemptsAsk'
  <2>1. ASSUME NEW j \in Attempts \ {i}, NEW r \in Requests, Asks(j, r) PROVE Asks(j, r)'
        BY <1>1, <1>4, <2>1 DEF Asks, DeviceOf, Requests, Attempts
  <2>2. ASSUME NEW j \in Attempts \ {i}
        PROVE  /\ start[j].step = "answered" => start[j].req \in Requests
               /\ attempt[j] # NoAttempt => attempt[j].req \in Requests
        BY DeviceFacts DEF Answered, JoinAttempts
  <2>3. QED  BY <1>1, <1>2, <1>4, <1>9, <2>1, <2>2 DEF AttemptsAsk
<1>11. Issued'
       BY <1>1, <1>4, <1>9 DEF Issued, Known, DeviceOf, owner
<1>12. CancelledEnded'
       BY <1>1, <1>4, <1>9 DEF CancelledEnded, DeviceType
<1>13. QED  BY <1>1, <1>5, <1>6, <1>8, <1>10, <1>11, <1>12

\* The steps of a start after that: where its request is known stays true.
LEMMA StartEndsKeeps ==
  ASSUME JoinIndInv, NEW i \in Attempts, StartLost(i) \/ StartDone(i)
  PROVE  JoinIndInv'
<1> USE DEF JoinIndInv
<1>1. /\ start[i].step \in {"read", "answered"}
      /\ start' = [start EXCEPT ![i] = [start[i] EXCEPT !.step = "over"]]
      /\ UNCHANGED <<owner, poll, joined, cancelled, entered>> /\ (Event \/ events' = events)
      BY DEF StartLost, StartDone, StartStep
<1> DEFINE new == [start[i] EXCEPT !.step = "over"]
<1>2. start[i] \in Unanswered \cup Answered
      BY <1>1, DeviceFacts
<1>3. /\ new \in Unanswered \cup Answered /\ new.step = "over" /\ new.device = start[i].device
      /\ new # NoStart /\ start[i] # NoStart
      BY <1>2 DEF Unanswered, Answered, NoStart
<1> HIDE DEF new
<1>4. start'[i] = new /\ \A j \in Attempts \ {i} : start'[j] = start[j]
      BY <1>1 DEF DeviceType, new
<1>5. \A j \in Attempts : DeviceOf(j)' = DeviceOf(j) /\ (start'[j] = NoStart <=> start[j] = NoStart)
      BY <1>3, <1>4 DEF DeviceOf
<1>6. OwnerType' /\ UsedOnce' /\ \A r \in Requests \ raced' : Alone(r)'
      BY <1>1, OwnerStands
<1>7. events' \in 0..MaxEvents
      BY <1>1, EventBound
<1>8. attempt[i] = NoAttempt /\ i \notin cancelled
      BY <1>1 DEF AttemptsAsk, CancelledEnded
<1>9. \/ attempt' = attempt
      \/ /\ start[i] \in Answered
         /\ attempt' = [attempt EXCEPT ![i] =
              [status |-> "pending", device |-> start[i].device, req |-> start[i].req]]
         /\ Asks(i, start[i].req)
  <2>1. CASE StartLost(i)
        BY <2>1 DEF StartLost
  <2>2. CASE StartDone(i)
        BY <2>2, DeviceFacts DEF StartDone, AttemptsAsk
  <2>3. QED  BY <2>1, <2>2
<1>10. /\ attempt' \in [Attempts -> {NoAttempt} \cup JoinAttempts]
       /\ \A j \in Attempts \ {i} : attempt'[j] = attempt[j]
       /\ attempt'[i] # NoAttempt => attempt'[i].req \in Requests /\ Asks(i, attempt'[i].req)
  <2>1. CASE attempt' = attempt
        BY <1>8, <2>1 DEF DeviceType
  <2>2. CASE attempt' # attempt
    <3> DEFINE made == [status |-> "pending", device |-> start[i].device, req |-> start[i].req]
    <3>1. start[i] \in Answered /\ attempt' = [attempt EXCEPT ![i] = made] /\ Asks(i, start[i].req)
          BY <1>9, <2>2
    <3>2. made \in JoinAttempts /\ made.req = start[i].req /\ start[i].req \in Requests
          BY <3>1 DEF Answered, JoinAttempts
    <3> HIDE DEF made
    <3>3. QED  BY <3>1, <3>2 DEF DeviceType
  <2>3. QED  BY <2>1, <2>2
<1>11. DeviceType'
       BY <1>1, <1>3, <1>4, <1>10 DEF DeviceType, new
<1>12. Named'
  <2>1. \A r \in Requests : start'[r].step \in {"unused", "read"} => start[r].step \in {"unused", "read"}
        BY <1>3, <1>4 DEF Requests, Attempts
  <2>2. \A c \in Calls : call[c] # NoCall => call[c].req \in Requests
        BY OwnerFacts DEF OwnerCalls
  <2>3. Requests = Attempts
        BY DEF Requests, Attempts
  <2>4. QED  BY <1>1, <1>5, <2>1, <2>2, <2>3 DEF Named, Holds, Granted, Known, owner
<1>13. AttemptsAsk'
  <2>1. ASSUME NEW j \in Attempts, NEW r \in Requests, Asks(j, r) PROVE Asks(j, r)'
        BY <1>5, <2>1 DEF Asks, Requests, Attempts
  <2>2. ASSUME NEW j \in Attempts
        PROVE  /\ start[j].step = "answered" => start[j].req \in Requests
               /\ attempt[j] # NoAttempt => attempt[j].req \in Requests
        BY DeviceFacts DEF Answered, JoinAttempts
  <2>3. QED  BY <1>1, <1>3, <1>4, <1>5, <1>10, <2>1, <2>2 DEF AttemptsAsk
<1>14. Issued'
       BY <1>1, <1>5 DEF Issued, Known, owner
<1>15. CancelledEnded'
       BY <1>1, <1>4, <1>8, <1>10 DEF CancelledEnded, DeviceType
<1>16. QED  BY <1>6, <1>7, <1>11, <1>12, <1>13, <1>14, <1>15

\* The host takes up a pending request, which no longer is what a call copied, or
\* makes a request that nobody knew.
LEMMA HostUpsertsKeeps ==
  ASSUME JoinIndInv, NEW i \in Attempts, HostUpserts(i)
  PROVE  JoinIndInv'
<1> USE DEF JoinIndInv
<1>0. Requests = Attempts
      BY DEF Requests, Attempts
<1>1. PICK r \in Requests :
        /\ Upsert(i, r)
        /\ start' = [start EXCEPT ![i] =
             [step |-> "answered", device |-> start[i].device, invite |-> start[i].invite, req |-> r]]
        /\ raced' = IF Handled(r) THEN raced \union {r} ELSE raced
      BY DEF HostUpserts
<1>2. /\ start[i].step = "read"
      /\ UNCHANGED <<invite, call, member, granted, attempt, poll, joined, cancelled, entered, events>>
      BY DEF HostUpserts
<1>3. start[i] \in Unanswered /\ start[i] # NoStart
      BY <1>2, DeviceFacts DEF NoStart
<1> DEFINE new == [step |-> "answered", device |-> start[i].device, invite |-> start[i].invite, req |-> r]
<1>4. new \in Answered /\ new.step = "answered" /\ new.req = r /\ new.device = start[i].device /\ new # NoStart
      BY <1>3 DEF Answered, Unanswered, NoStart
<1> HIDE DEF new
<1>5. start'[i] = new /\ \A j \in Attempts \ {i} : start'[j] = start[j]
      BY <1>1 DEF DeviceType, new
<1>6. \A j \in Attempts : DeviceOf(j)' = DeviceOf(j) /\ (start'[j] = NoStart <=> start[j] = NoStart)
      BY <1>3, <1>4, <1>5 DEF DeviceOf
<1>7. /\ attempt[i] = NoAttempt /\ i \notin cancelled
      /\ request[i] = NoRequest /\ ~Granted(i) /\ \A c \in Calls : ~Holds(c, i)
      BY <1>0, <1>2 DEF AttemptsAsk, CancelledEnded, Named
\* The request as it is then.
<1>8. /\ request' \in [Requests -> {NoRequest} \cup JoinRequests]
      /\ \A q \in Requests \ {r} : request'[q] = request[q]
      /\ request'[r] \in JoinRequests /\ request'[r].device = start[i].device
      /\ request'[r].status = "pending" /\ request'[r].seal.serial \in 0..member[start[i].device]
      /\ r # i => request[r].status = "pending" /\ start[r] # NoStart /\ DeviceOf(r) = DeviceOf(i)
                  /\ start[r].step # "read"
  <2>1. CASE Waiting(start[i].device, start[i].invite) # {}
    <3>1. /\ Known(r) /\ request[r].status = "pending" /\ request[r].device = start[i].device
          /\ request' = [request EXCEPT ![r].key = i]
          BY <1>1, <2>1 DEF Upsert, Waiting
    <3>2. request[r] \in JoinRequests
          BY <3>1, OwnerFacts
    <3> DEFINE kept == [request[r] EXCEPT !.key = i]
    <3>3. /\ kept \in JoinRequests /\ kept.device = request[r].device
          /\ kept.status = "pending" /\ kept.seal = request[r].seal
          BY <3>1, <3>2 DEF JoinRequests
    <3> HIDE DEF kept
    <3>4. request' = [request EXCEPT ![r] = kept]
          BY <3>1 DEF kept
    <3>5. request[r].seal.serial \in 0..member[start[i].device]
      <4>1. request[r].seal.serial \in Nat /\ request[r].seal.serial <= member[request[r].device]
            BY <3>1, <3>2 DEF JoinRequests, Seals, Issued
      <4>2. member[start[i].device] \in Nat
            BY <1>3 DEF OwnerType, Unanswered
      <4>3. QED  BY <3>1, <4>1, <4>2
    <3>6. start[r].step \notin {"unused", "read"} /\ DeviceOf(r) = DeviceOf(i)
          BY <1>0, <3>1 DEF Named, DeviceOf, Known
    <3>7. start[r] # NoStart
          BY <3>6 DEF NoStart
    <3>8. QED  BY <3>1, <3>3, <3>4, <3>5, <3>6, <3>7 DEF OwnerType
  <2>2. CASE Waiting(start[i].device, start[i].invite) = {}
    <3> DEFINE made == Asked(i)
    <3>1. r = i /\ request' = [request EXCEPT ![r] = made]
          BY <1>1, <2>2 DEF Upsert
    <3>2. /\ made \in JoinRequests /\ made.device = start[i].device /\ made.status = "pending"
          /\ made.seal.serial = 0
          BY <1>3 DEF Asked, Unanswered, JoinRequests, Seals, NoSeal
    <3> HIDE DEF made
    <3>3. 0 \in 0..member[start[i].device]
          BY <1>3 DEF OwnerType, Unanswered
    <3>4. QED  BY <3>1, <3>2, <3>3 DEF OwnerType
  <2>3. QED  BY <2>1, <2>2
<1>9. request'[r] # NoRequest
      BY <1>8 DEF NoRequest
<1>10. OwnerType'
       BY <1>1, <1>2, <1>8 DEF OwnerType
<1>11. DeviceType'
       BY <1>1, <1>2, <1>4, <1>5 DEF DeviceType, new
<1>12. Named'
  <2>1. ASSUME NEW q \in Requests
        PROVE  /\ start'[q].step \in {"unused", "read"} =>
                     request'[q] = NoRequest /\ ~Granted(q) /\ \A c \in Calls : ~Holds(c, q)
               /\ request'[q] # NoRequest => request'[q].device = DeviceOf(q)'
    <3>1. CASE q = i
      <4>1. DeviceOf(i)' = start[i].device
            BY <1>6 DEF DeviceOf
      <4>2. request'[i] # NoRequest => r = i
            BY <1>0, <1>7, <1>8
      <4>3. QED  BY <1>4, <1>5, <1>8, <3>1, <4>1, <4>2
    <3>2. CASE q = r /\ q # i
      <4>1. start[r].step \notin {"unused", "read"}
            BY <1>0, <1>8, <3>2, DeviceFacts
      <4>2. QED  BY <1>0, <1>5, <1>6, <1>8, <3>2, <4>1 DEF DeviceOf
    <3>3. CASE q # i /\ q # r
          BY <1>0, <1>5, <1>6, <1>8, <3>3 DEF Named, Known
    <3>4. QED  BY <3>1, <3>2, <3>3
  <2>2. \A c \in Calls : call[c] # NoCall => call[c].req \in Requests
        BY OwnerFacts DEF OwnerCalls
  <2>3. QED  BY <1>0, <1>2, <1>6, <2>1, <2>2 DEF Named, Holds, Granted, Known
<1>13. AttemptsAsk'
  <2>1. ASSUME NEW j \in Attempts, NEW q \in Requests, Asks(j, q) PROVE Asks(j, q)'
        BY <1>0, <1>6, <2>1 DEF Asks
  <2>2. ASSUME NEW j \in Attempts
        PROVE  /\ start[j].step = "answered" => start[j].req \in Requests
               /\ attempt[j] # NoAttempt => attempt[j].req \in Requests
        BY DeviceFacts DEF Answered, JoinAttempts
  <2>3. Asks(i, r)
    <3>1. CASE r = i
          BY <1>3, <3>1 DEF Asks
    <3>2. CASE r # i
          BY <1>8, <3>2 DEF Asks
    <3>3. QED  BY <3>1, <3>2
  <2>4. QED  BY <1>2, <1>4, <1>5, <1>6, <1>7, <2>1, <2>2, <2>3 DEF AttemptsAsk
<1>14. Issued'
  <2>1. \A q \in Requests : request'[q] # NoRequest => request'[q].seal.serial <= member[request'[q].device]
        BY <1>8 DEF Issued, Known, OwnerType
  <2>2. \A q \in Requests : request'[q].status = "approved" => request'[q].seal.serial > 0
        BY <1>8 DEF Issued
  <2>3. QED  BY <1>2, <1>6, <2>1, <2>2 DEF Issued, Known
<1>15. UsedOnce'
       BY <1>2 DEF UsedOnce
<1>16. CancelledEnded'
       BY <1>2, <1>5, <1>7 DEF CancelledEnded, DeviceType
<1>17. ASSUME NEW q \in Requests \ raced' PROVE Alone(q)'
  <2>1. q \in Requests \ raced /\ Alone(q)
        BY <1>1, <1>17
  <2>2. CASE q # r
        BY <1>2, <1>8, <2>1, <2>2 DEF Alone, CopyCurrent, Holds, Granted, Known
  <2>3. CASE q = r
    <3>1. ~Handled(r)
          BY <1>1, <1>17, <2>3
    <3>2. \A c \in Calls : ~Holds(c, r)
          BY <3>1, OwnerFacts DEF Handled, Holds
    <3>3. ~Granted(r)
      <4>1. CASE r = i
            BY <1>7, <4>1
      <4>2. CASE r # i
            BY <1>8, <2>1, <2>3, <3>2, <4>2 DEF Alone
      <4>3. QED  BY <4>1, <4>2
    <3>4. QED  BY <1>2, <1>8, <2>3, <3>2, <3>3 DEF Alone, Holds, Granted
  <2>4. QED  BY <2>2, <2>3
<1>18. QED  BY <1>2, <1>10, <1>11, <1>12, <1>13, <1>14, <1>15, <1>16, <1>17

-----------------------------------------------------------------------------
(* The owner answers.                                                       *)

\* The call takes a copy, which is alone unless another call has one.
LEMMA BeginKeeps ==
  ASSUME JoinIndInv, NEW c \in Calls, NEW r \in Requests, NEW step \in {"granting", "rejecting"},
         Begin(c, r, step)
  PROVE  JoinIndInv'
<1> USE DEF JoinIndInv
<1> DEFINE copy == [step |-> step, req |-> r, device |-> request[r].device, invite |-> request[r].invite,
                    seal |-> [key |-> request[r].key, serial |-> 0]]
<1>1. /\ call[c] = NoCall /\ request[r].status = "pending" /\ call' = [call EXCEPT ![c] = copy]
      /\ raced' = IF Handled(r) THEN raced \union {r} ELSE raced
      /\ UNCHANGED <<invite, request, member, granted, device, events>>
      BY DEF Begin
<1>2. Known(r) /\ request[r] \in JoinRequests
      BY <1>1, OwnerFacts
<1>3. /\ copy \in OwnerCalls /\ copy # NoCall /\ copy.step \in {"granting", "rejecting"} /\ copy.req = r
      /\ copy.device = request[r].device /\ copy.seal.key = request[r].key /\ copy.seal.serial = 0
      BY <1>2 DEF OwnerCalls, JoinRequests, NoCall, Seals
<1> HIDE DEF copy
<1>4. call'[c] = copy /\ \A d \in Calls \ {c} : call'[d] = call[d]
      BY <1>1 DEF OwnerType
<1>5. OwnerType'
      BY <1>1, <1>3 DEF OwnerType
<1>6. DeviceType' /\ AttemptsAsk' /\ CancelledEnded'
      BY <1>1, DeviceStands
<1>7. start[r].step \notin {"unused", "read"} /\ request[r].device = DeviceOf(r)
      BY <1>2 DEF Named, Known
<1>8. Named'
  <2>1. \A q \in Requests : start[q].step \in {"unused", "read"} =>
          request[q] = NoRequest /\ ~Granted(q) /\ \A d \in Calls : ~(call'[d] # NoCall /\ call'[d].req = q)
        BY <1>3, <1>4, <1>7 DEF Named, Holds
  <2>2. \A d \in Calls : call'[d] # NoCall => call'[d].device = DeviceOf(call'[d].req)
        BY <1>3, <1>4, <1>7 DEF Named
  <2>3. QED  BY <1>1, <2>1, <2>2 DEF Named, Holds, Granted, Known, DeviceOf, device
<1>9. Issued'
  <2>1. member[request[r].device] \in Nat
        BY <1>2 DEF JoinRequests, OwnerType
  <2>2. \A d \in Calls : call'[d] # NoCall => call'[d].seal.serial <= member[call'[d].device]
        BY <1>3, <1>4, <2>1 DEF Issued
  <2>3. \A d \in Calls : call'[d].step = "marking" => call'[d].seal.serial > 0
        BY <1>3, <1>4 DEF Issued
  <2>4. QED  BY <1>1, <2>2, <2>3 DEF Issued, Known, DeviceOf, device
<1>10. UsedOnce'
       BY <1>1 DEF UsedOnce
<1>11. ASSUME NEW q \in Requests \ raced' PROVE Alone(q)'
  <2>1. q \in Requests \ raced /\ Alone(q)
        BY <1>1, <1>11
  <2>2. CASE q # r
        BY <1>1, <1>3, <1>4, <2>1, <2>2 DEF Alone, CopyCurrent, Holds, Granted, Known
  <2>3. CASE q = r
    <3>1. \A d \in Calls : ~Holds(d, r)
          BY <1>1, <1>11, <2>3, OwnerFacts DEF Handled, Holds
    <3>2. ~Granted(r)
          BY <1>1, <2>1, <2>3, <3>1 DEF Alone
    <3>3. QED  BY <1>1, <1>3, <1>4, <2>3, <3>1, <3>2 DEF Alone, CopyCurrent, Holds, Granted, Known
  <2>4. QED  BY <2>2, <2>3
<1>12. QED  BY <1>1, <1>5, <1>6, <1>8, <1>9, <1>10, <1>11

\* The transaction of an approval finds an open invite, so that nobody came in by
\* it if it is for one device.
LEMMA ApproveCommitKeeps ==
  ASSUME JoinIndInv, NEW c \in Calls, ApproveCommit(c)
  PROVE  JoinIndInv'
<1> USE DEF JoinIndInv
<1> DEFINE a == call[c]
           serial == member[a.device] + 1
           sealed == [a EXCEPT !.step = "marking", !.seal.serial = serial]
           grant == [req |-> a.req, invite |-> a.invite, serial |-> serial]
<1>1. /\ a.step = "granting" /\ invite[a.invite] = "open"
      /\ member' = [member EXCEPT ![a.device] = serial]
      /\ invite' = IF a.invite \in SingleUse THEN [invite EXCEPT ![a.invite] = "gone"] ELSE invite
      /\ call' = [call EXCEPT ![c].step = "marking", ![c].seal.serial = serial]
      /\ granted' = granted \union {grant}
      /\ UNCHANGED <<request, raced, device, events>>
      BY DEF ApproveCommit, MayGrant, Sealed
<1>2. a # NoCall /\ a \in OwnerCalls
      BY <1>1, OwnerFacts
<1>3. /\ a.device \in Devices /\ a.req \in Requests /\ a.invite \in Invites /\ serial \in Nat /\ serial > 0
      BY <1>2 DEF OwnerCalls, OwnerType
<1>4. /\ sealed \in OwnerCalls /\ sealed # NoCall /\ sealed.step = "marking" /\ sealed.req = a.req
      /\ sealed.device = a.device /\ sealed.seal.serial = serial /\ sealed.seal.key = a.seal.key
      BY <1>2, <1>3 DEF OwnerCalls, Seals, NoCall
<1>5. grant \in Grants /\ grant.req = a.req /\ grant.invite = a.invite /\ grant.serial = serial
      BY <1>3 DEF Grants
<1>6. call'[c] = sealed /\ \A d \in Calls \ {c} : call'[d] = call[d]
      BY <1>1 DEF OwnerType
<1>7. member'[a.device] = serial /\ \A d \in Devices : member[d] \in Nat /\ member'[d] \in Nat /\ member[d] <= member'[d]
      BY <1>1, <1>3 DEF OwnerType
<1> HIDE DEF sealed, grant, serial
<1>8. OwnerType'
  <2>1. call' \in [Calls -> {NoCall} \cup OwnerCalls]
    <3>1. call' = [call EXCEPT ![c] = sealed]
          BY <1>1 DEF sealed, serial, OwnerType
    <3>2. QED  BY <1>4, <3>1 DEF OwnerType
  <2>2. member' \in [Devices -> Nat] /\ invite' \in [Invites -> {"new", "open", "deleting", "gone"}]
        BY <1>1, <1>3 DEF OwnerType
  <2>3. QED  BY <1>1, <1>5, <2>1, <2>2 DEF OwnerType
<1>9. DeviceType' /\ AttemptsAsk' /\ CancelledEnded'
      BY <1>1, DeviceStands
<1>10. Holds(c, a.req) /\ start[a.req].step \notin {"unused", "read"} /\ a.device = DeviceOf(a.req)
       BY <1>2, <1>3 DEF Named, Holds
<1>11. \A q \in Requests : Granted(q)' <=> Granted(q) \/ q = a.req
       BY <1>1, <1>5 DEF Granted
<1>12. \A d \in Calls, q \in Requests : Holds(d, q)' <=> Holds(d, q)
       BY <1>2, <1>4, <1>6 DEF Holds
<1>13. Named'
  <2>1. \A d \in Calls : call'[d] # NoCall => call'[d].device = DeviceOf(call'[d].req)
        BY <1>4, <1>6, <1>10 DEF Named
  <2>2. QED  BY <1>1, <1>10, <1>11, <1>12, <2>1 DEF Named, Known, DeviceOf, device
<1>14. Issued'
  <2>1. \A q \in Requests : Known(q) => request[q].seal.serial <= member'[request[q].device]
    <3>1. ASSUME NEW q \in Requests, Known(q)
          PROVE  /\ request[q].seal.serial \in Nat /\ request[q].device \in Devices
                 /\ request[q].seal.serial <= member[request[q].device]
          BY <3>1, OwnerFacts DEF JoinRequests, Seals, Issued
    <3>2. QED  BY <1>7, <3>1
  <2>2. \A d \in Calls : call'[d] # NoCall => call'[d].seal.serial <= member'[call'[d].device]
    <3>1. ASSUME NEW d \in Calls, call[d] # NoCall
          PROVE  /\ call[d].seal.serial \in Nat /\ call[d].device \in Devices
                 /\ call[d].seal.serial <= member[call[d].device]
          BY <3>1, OwnerFacts DEF OwnerCalls, Seals, Issued
    <3>2. QED  BY <1>3, <1>4, <1>6, <1>7, <3>1
  <2>3. \A d \in Calls : call'[d].step = "marking" => call'[d].seal.serial > 0
        BY <1>3, <1>4, <1>6 DEF Issued
  <2>4. ASSUME NEW i \in Attempts
        PROVE  /\ poll[i].step = "answered" => poll[i].reply.seal.serial <= member'[DeviceOf(i)]
               /\ poll[i].step = "restore" => poll[i].serial <= member'[DeviceOf(i)]
    <3>1. poll[i] # NoPoll => DeviceOf(i) \in Devices
          BY DeviceFacts DEF AttemptsAsk
    <3>2. poll[i].step = "answered" => poll[i].reply.seal.serial \in Nat /\ poll[i] # NoPoll
          BY DeviceFacts DEF PollsAnswered, Replies, Seals, NoPoll
    <3>3. poll[i].step = "restore" => poll[i].serial \in Nat /\ poll[i] # NoPoll
          BY DeviceFacts DEF PollsRestoring, NoPoll
    <3>4. QED  BY <1>7, <3>1, <3>2, <3>3 DEF Issued
  <2>5. \A d \in Devices : joined[d] <= member'[d]
        BY <1>7 DEF Issued, DeviceType
  <2>6. QED  BY <1>1, <2>1, <2>2, <2>3, <2>4, <2>5 DEF Issued, Known, DeviceOf, device
<1>15. UsedOnce'
  <2>1. \A g \in granted : g.invite \in SingleUse => g.invite # a.invite
        BY <1>1 DEF UsedOnce
  <2>2. \A g \in granted : g.invite \in Invites
        BY DEF OwnerType, Grants
  <2>3. \A t \in Invites : invite[t] = "gone" => invite'[t] = "gone"
        BY <1>1, <1>3 DEF OwnerType
  <2>4. a.invite \in SingleUse => invite'[a.invite] = "gone"
        BY <1>1, <1>3 DEF OwnerType
  <2>5. QED  BY <1>1, <1>5, <2>1, <2>2, <2>3, <2>4 DEF UsedOnce
<1>16. ASSUME NEW q \in Requests \ raced' PROVE Alone(q)'
  <2>1. q \in Requests \ raced /\ Alone(q)
        BY <1>1, <1>16
  <2>2. CASE q # a.req
    <3>1. \A d \in Calls : Holds(d, q) => d # c
          BY <2>2 DEF Holds
    <3>2. granted \subseteq granted' /\ (Granted(q)' <=> Granted(q)) /\ request'[q] = request[q]
          BY <1>1, <1>11, <2>2
    <3>3. ASSUME NEW d \in Calls, Holds(d, q) PROVE CopyCurrent(d, q)'
          BY <1>6, <2>1, <3>1, <3>2, <3>3 DEF Alone, CopyCurrent, Known
    <3>4. \A d \in Calls : Holds(d, q) => call'[d] = call[d]
          BY <1>6, <3>1
    <3>5. QED  BY <1>12, <2>1, <3>2, <3>3, <3>4 DEF Alone
  <2>3. CASE q = a.req
    <3>1. \A d \in Calls : Holds(d, q) => d = c
          BY <1>10, <2>1, <2>3 DEF Alone
    <3>2. CopyCurrent(c, q)
          BY <1>10, <2>1, <2>3 DEF Alone
    <3>3. CopyCurrent(c, q)'
      <4>1. \E g \in granted' : g.req = q /\ g.serial = sealed.seal.serial
            BY <1>1, <1>4, <1>5, <2>3
      <4>2. QED  BY <1>1, <1>4, <1>6, <3>2, <4>1 DEF CopyCurrent, Known
    <3>4. Holds(c, q)' /\ call'[c].step = "marking"
          BY <1>4, <1>6, <1>10, <1>12, <2>3
    <3>5. request'[q].status # "approved"
          BY <1>1, <3>2 DEF CopyCurrent
    <3>6. QED  BY <1>12, <3>1, <3>3, <3>4, <3>5 DEF Alone
  <2>4. QED  BY <2>2, <2>3
<1>17. QED  BY <1>1, <1>8, <1>9, <1>13, <1>14, <1>15, <1>16

\* An approval that may not go on, or a rejection, gives its copy back: the request
\* is rejected only if no approval of it was committed.
LEMMA CallEndsKeeps ==
  ASSUME JoinIndInv, NEW c \in Calls, ApproveRefused(c) \/ RejectMark(c)
  PROVE  JoinIndInv'
<1> USE DEF JoinIndInv
<1> DEFINE r == call[c].req
<1>1. /\ call[c].step \in {"granting", "rejecting"} /\ call' = [call EXCEPT ![c] = NoCall]
      /\ UNCHANGED <<invite, member, granted, raced, device, events>>
      BY DEF ApproveRefused, RejectMark
<1>2. call[c] # NoCall /\ call[c] \in OwnerCalls /\ r \in Requests
      BY <1>1, OwnerFacts DEF OwnerCalls
<1>3. call'[c] = NoCall /\ NoCall.step = "idle" /\ \A d \in Calls \ {c} : call'[d] = call[d]
      BY <1>1 DEF OwnerType, NoCall
<1> HIDE DEF r
<1>4. /\ request' \in [Requests -> {NoRequest} \cup JoinRequests]
      /\ \A q \in Requests : \/ request'[q] = request[q]
                             \/ /\ q = r /\ Known(q) /\ request'[q] \in JoinRequests
                                /\ request'[q].status = "rejected" /\ request'[q].device = request[q].device
                                /\ request'[q].seal = request[q].seal
  <2>1. CASE request' = request
        BY <2>1 DEF OwnerType
  <2>2. CASE request' # request
    <3>1. Known(r) /\ request' = [request EXCEPT ![r].status = "rejected"]
          BY <2>2 DEF ApproveRefused, RejectMark, r
    <3> DEFINE kept == [request[r] EXCEPT !.status = "rejected"]
    <3>2. /\ kept \in JoinRequests /\ kept.device = request[r].device
          /\ kept.status = "rejected" /\ kept.seal = request[r].seal
          BY <1>2, <3>1, OwnerFacts DEF JoinRequests
    <3>3. request' = [request EXCEPT ![r] = kept]
          BY <3>1
    <3> HIDE DEF kept
    <3>4. QED  BY <1>2, <3>1, <3>2, <3>3 DEF OwnerType
  <2>3. QED  BY <2>1, <2>2
<1>5. OwnerType'
      BY <1>1, <1>4 DEF OwnerType
<1>6. DeviceType' /\ AttemptsAsk' /\ CancelledEnded'
      BY <1>1, DeviceStands
<1>7. \A d \in Calls, q \in Requests : Holds(d, q)' => Holds(d, q) /\ d # c
      BY <1>3 DEF Holds
<1>8. Holds(c, r)
      BY <1>2 DEF Holds, r
<1>9. Named'
  <2>1. \A q \in Requests : start[q].step \in {"unused", "read"} => request'[q] = request[q]
        BY <1>4, <1>8 DEF Named
  <2>2. \A q \in Requests : request'[q] # NoRequest => request'[q].device = DeviceOf(q)
        BY <1>4 DEF Named, Known
  <2>3. \A d \in Calls : call'[d] # NoCall => call'[d].device = DeviceOf(call'[d].req)
        BY <1>3 DEF Named
  <2>4. QED  BY <1>1, <1>7, <2>1, <2>2, <2>3 DEF Named, Granted, Known, DeviceOf, device
<1>10. Issued'
  <2>1. \A q \in Requests : request'[q] # NoRequest => request'[q].seal.serial <= member[request'[q].device]
        BY <1>4 DEF Issued, Known
  <2>2. \A q \in Requests : request'[q].status = "approved" => request'[q].seal.serial > 0
        BY <1>4 DEF Issued
  <2>3. QED  BY <1>1, <1>3, <2>1, <2>2 DEF Issued, Known, DeviceOf, device
<1>11. UsedOnce'
       BY <1>1 DEF UsedOnce
<1>12. ASSUME NEW q \in Requests \ raced' PROVE Alone(q)'
  <2>1. q \in Requests \ raced /\ Alone(q)
        BY <1>1, <1>12
  <2>2. Granted(q)' <=> Granted(q)
        BY <1>1 DEF Granted
  <2>3. CASE q # r
    <3>1. request'[q] = request[q] /\ \A d \in Calls : Holds(d, q) => d # c
          BY <1>4, <2>3 DEF Holds, r
    <3>2. \A d \in Calls : Holds(d, q) => Holds(d, q)' /\ call'[d] = call[d]
          BY <1>3, <3>1 DEF Holds
    <3>3. QED  BY <1>1, <1>7, <2>1, <2>2, <3>1, <3>2 DEF Alone, CopyCurrent, Known
  <2>4. CASE q = r
    <3>1. \A d \in Calls : ~Holds(d, q)'
          BY <1>7, <1>8, <2>1, <2>4 DEF Alone
    <3>2. ~Granted(q) /\ request[q].status # "approved"
          BY <1>1, <1>8, <2>1, <2>4 DEF Alone, CopyCurrent
    <3>3. request'[q].status # "approved"
          BY <1>4, <3>2
    <3>4. QED  BY <2>2, <3>1, <3>2, <3>3 DEF Alone
  <2>5. QED  BY <2>3, <2>4
<1>13. QED  BY <1>1, <1>5, <1>6, <1>9, <1>10, <1>11, <1>12

\* The mark: the request, if it is still known, gets the material of its approval;
\* who is too late was not approved, or is raced.
LEMMA ApproveMarkKeeps ==
  ASSUME JoinIndInv, NEW c \in Calls, ApproveMark(c)
  PROVE  JoinIndInv'
<1> USE DEF JoinIndInv
<1> DEFINE a == call[c]
           r == a.req
           marked(q) == [request[q] EXCEPT !.status = "approved", !.seal = a.seal]
           rejected(q) == [request[q] EXCEPT !.status = "rejected"]
<1>1. /\ a.step = "marking" /\ call' = [call EXCEPT ![c] = NoCall]
      /\ request' = [q \in Requests |->
           CASE q = r /\ Known(q) -> marked(q)
             [] q \in TooLate(a) -> rejected(q)
             [] OTHER -> request[q]]
      /\ raced' = raced \union {q \in TooLate(a) : Handled(q)}
      /\ UNCHANGED <<invite, member, granted, device, events>>
      BY DEF ApproveMark
<1>2. /\ a # NoCall /\ a \in OwnerCalls /\ r \in Requests /\ a.seal \in Seals /\ a.device \in Devices
      /\ Holds(c, r)
      BY <1>1, OwnerFacts DEF OwnerCalls, Holds
<1>3. call'[c] = NoCall /\ NoCall.step = "idle" /\ \A d \in Calls \ {c} : call'[d] = call[d]
      BY <1>1 DEF OwnerType, NoCall
<1>4. \A q \in TooLate(a) : q \in Requests /\ q # r /\ Known(q) /\ request[q].status = "pending"
      BY DEF TooLate
<1>5. /\ Known(r) => request'[r] = marked(r)
      /\ ~Known(r) => request'[r] = request[r]
      /\ \A q \in TooLate(a) : request'[q] = rejected(q)
      /\ \A q \in Requests \ {r} : q \notin TooLate(a) => request'[q] = request[q]
      BY <1>1, <1>2, <1>4
<1>6. ASSUME NEW q \in Requests, Known(q)
      PROVE  /\ marked(q) \in JoinRequests /\ marked(q).status = "approved" /\ marked(q).seal = a.seal
             /\ marked(q).device = request[q].device /\ marked(q).key = request[q].key
             /\ rejected(q) \in JoinRequests /\ rejected(q).status = "rejected"
             /\ rejected(q).device = request[q].device /\ rejected(q).seal = request[q].seal
      BY <1>2, <1>6, OwnerFacts DEF JoinRequests
<1> HIDE DEF marked, rejected, a, r
<1>7. OwnerType'
  <2>1. ASSUME NEW q \in Requests
        PROVE  request'[q] \in {NoRequest} \cup JoinRequests
        BY <1>4, <1>5, <1>6 DEF OwnerType
  <2>2. request' \in [Requests -> {NoRequest} \cup JoinRequests]
        BY <1>1, <2>1
  <2>3. raced' \subseteq Requests
        BY <1>1, <1>4 DEF OwnerType
  <2>4. QED  BY <1>1, <2>2, <2>3 DEF OwnerType
<1>8. DeviceType' /\ AttemptsAsk' /\ CancelledEnded'
      BY <1>1, DeviceStands
<1>9. \A d \in Calls, q \in Requests : Holds(d, q)' => Holds(d, q) /\ d # c
      BY <1>3 DEF Holds
<1>10. a.device = DeviceOf(r) /\ (Known(r) => request[r].device = DeviceOf(r))
       BY <1>2 DEF Named, a, r
<1>11. \A q \in Requests : request[q] = NoRequest => request'[q] = NoRequest
       BY <1>4, <1>5 DEF Known
<1>12. \A q \in Requests : request'[q] # NoRequest => Known(q) /\ request'[q].device = request[q].device
       BY <1>4, <1>5, <1>6, <1>11 DEF Known
<1>13. Named'
  <2>1. \A d \in Calls : call'[d] # NoCall => call'[d].device = DeviceOf(call'[d].req)
        BY <1>3 DEF Named
  <2>2. QED  BY <1>1, <1>9, <1>11, <1>12, <2>1 DEF Named, Granted, Known, DeviceOf, device
<1>14. a.seal.serial <= member[a.device] /\ a.seal.serial > 0
       BY <1>1, <1>2 DEF Issued, a
<1>15. Issued'
  <2>1. ASSUME NEW q \in Requests, request'[q] # NoRequest
        PROVE  request'[q].seal.serial <= member[request'[q].device]
    <3>1. Known(q) /\ request'[q].device = request[q].device
          BY <1>12, <2>1
    <3>2. request'[q].seal = request[q].seal \/ (q = r /\ request'[q].seal = a.seal)
          BY <1>4, <1>5, <1>6, <3>1
    <3>3. request[q].seal.serial <= member[request[q].device]
          BY <3>1 DEF Issued
    <3>4. QED  BY <1>10, <1>14, <3>1, <3>2, <3>3
  <2>2. ASSUME NEW q \in Requests, request'[q].status = "approved"
        PROVE  request'[q].seal.serial > 0
    <3>1. request'[q] = request[q] \/ (q = r /\ request'[q].seal = a.seal)
          BY <1>4, <1>5, <1>6, <2>2
    <3>2. QED  BY <1>14, <2>2, <3>1 DEF Issued
  <2>3. QED  BY <1>1, <1>3, <2>1, <2>2 DEF Issued, Known, DeviceOf, device
<1>16. UsedOnce'
       BY <1>1 DEF UsedOnce
<1>17. ASSUME NEW q \in Requests \ raced' PROVE Alone(q)'
  <2>1. q \in Requests \ raced /\ Alone(q)
        BY <1>1, <1>17
  <2>2. Granted(q)' <=> Granted(q)
        BY <1>1 DEF Granted
  <2>3. CASE q \in TooLate(a)
    <3>1. ~Handled(q)
          BY <1>1, <1>17, <2>3
    <3>2. \A d \in Calls : ~Holds(d, q)
          BY <3>1, OwnerFacts DEF Handled, Holds
    <3>3. ~Granted(q)
          BY <1>4, <2>1, <2>3, <3>2 DEF Alone
    <3>4. \A d \in Calls : ~Holds(d, q)'
          BY <1>9, <3>2
    <3>5. request'[q].status = "rejected"
          BY <1>4, <1>5, <1>6, <2>3
    <3>6. QED  BY <2>2, <3>3, <3>4, <3>5 DEF Alone
  <2>4. CASE q = r
    <3>1. \A d \in Calls : ~Holds(d, q)'
          BY <1>2, <1>9, <2>1, <2>4 DEF Alone
    <3>2. /\ Known(q) => a.seal.key = request[q].key
          /\ \E g \in granted : g.req = q /\ g.serial = a.seal.serial
          BY <1>1, <1>2, <2>1, <2>4 DEF Alone, CopyCurrent, a
    <3>3. CASE Known(q)
          BY <1>1, <1>5, <1>6, <2>2, <2>4, <3>1, <3>2, <3>3 DEF Alone
    <3>4. CASE ~Known(q)
      <4>1. request'[q].status = "none"
            BY <1>5, <2>4, <3>4 DEF Known, NoRequest
      <4>2. QED  BY <2>2, <3>1, <4>1 DEF Alone
    <3>5. QED  BY <3>3, <3>4
  <2>5. CASE q # r /\ q \notin TooLate(a)
    <3>1. request'[q] = request[q] /\ \A d \in Calls : Holds(d, q) => d # c
          BY <1>5, <2>5 DEF Holds, r, a
    <3>2. \A d \in Calls : Holds(d, q) => Holds(d, q)' /\ call'[d] = call[d]
          BY <1>3, <3>1 DEF Holds
    <3>3. QED  BY <1>1, <1>9, <2>1, <2>2, <3>1, <3>2 DEF Alone, CopyCurrent, Known
  <2>6. QED  BY <2>3, <2>4, <2>5
<1>18. QED  BY <1>1, <1>7, <1>8, <1>13, <1>15, <1>16, <1>17

-----------------------------------------------------------------------------
(* The device polls.                                                        *)

\* What an answer says is copied from a request of the same device.
LEMMA PollKeeps ==
  ASSUME JoinIndInv, NEW i \in Attempts, Poll(i)
  PROVE  JoinIndInv'
<1> USE DEF JoinIndInv
<1> DEFINE r == attempt[i].req
           answer == [step |-> "answered", reply |-> Reply(r)]
<1>1. /\ attempt[i].status \in {"pending", "approved"} /\ Known(r)
      /\ poll' = [poll EXCEPT ![i] = answer]
      /\ UNCHANGED <<owner, start, attempt, joined, cancelled, entered, events>>
      BY DEF Poll, Live
<1>2. attempt[i] # NoAttempt /\ start[i].step = "over" /\ Asks(i, r) /\ r \in Requests
      BY <1>1, DeviceFacts DEF AttemptsAsk, JoinAttempts
<1>3. request[r] \in JoinRequests /\ request[r].device = DeviceOf(i)
      BY <1>1, <1>2, OwnerFacts DEF Named, Asks
<1>4. /\ answer \in PollsAnswered /\ answer # NoPoll /\ answer.step = "answered"
      /\ answer.reply.seal.serial = request[r].seal.serial
      BY <1>3 DEF PollsAnswered, Replies, Reply, JoinRequests, NoPoll
<1>5. request[r].seal.serial <= member[DeviceOf(i)]
      BY <1>1, <1>2, <1>3 DEF Issued
<1> HIDE DEF answer, r
<1>6. poll'[i] = answer /\ \A j \in Attempts \ {i} : poll'[j] = poll[j]
      BY <1>1 DEF DeviceType
<1>7. OwnerType' /\ UsedOnce' /\ \A q \in Requests \ raced' : Alone(q)'
      BY <1>1, OwnerStands
<1>8. DeviceType'
      BY <1>1, <1>4 DEF DeviceType
<1>9. Named'
      BY <1>1 DEF Named, Holds, Granted, Known, DeviceOf, owner
<1>10. AttemptsAsk'
  <2>1. start[i] # NoStart
        BY <1>2, DeviceFacts
  <2>2. QED  BY <1>1, <1>6, <2>1 DEF AttemptsAsk, Asks, DeviceOf
<1>11. Issued'
       BY <1>1, <1>4, <1>5, <1>6 DEF Issued, Known, DeviceOf, owner
<1>12. CancelledEnded'
       BY <1>1, <1>4, <1>6 DEF CancelledEnded, DeviceType
<1>13. QED  BY <1>1, <1>7, <1>8, <1>9, <1>10, <1>11, <1>12

\* The end of a poll, and of a restore, is about the attempt alone; what is restored
\* was answered while the attempt was there.
LEMMA PollEndsKeeps ==
  ASSUME JoinIndInv, NEW i \in Attempts,
         PollLost(i) \/ PollNoted(i) \/ PollRestores(i) \/ PollFails(i)
  PROVE  JoinIndInv'
<1> USE DEF JoinIndInv
<1>1. /\ poll[i].step \in {"answered", "restore"}
      /\ UNCHANGED <<owner, start, cancelled>> /\ (Event \/ events' = events)
      BY DEF PollLost, PollNoted, PollRestores, PollFails
<1>2. poll[i] # NoPoll /\ start[i] # NoStart /\ DeviceOf(i) \in Devices
      BY <1>1, DeviceFacts DEF AttemptsAsk, NoPoll
<1>3. /\ attempt' \in [Attempts -> {NoAttempt} \cup JoinAttempts]
      /\ \A j \in Attempts \ {i} : attempt'[j] = attempt[j]
      /\ attempt'[i] # NoAttempt => attempt[i] # NoAttempt /\ attempt'[i].req = attempt[i].req
  <2>1. CASE attempt' = attempt
        BY <2>1 DEF DeviceType
  <2>2. CASE attempt' # attempt
    <3>1. PICK status \in {"pending", "approved", "rejected", "completed", "failed"} :
            attempt' = [attempt EXCEPT ![i].status = status]
      <4>1. CASE PollLost(i)
            BY <2>2, <4>1 DEF PollLost
      <4>2. CASE PollNoted(i)
        <5>1. poll[i].reply.status \in {"pending", "approved", "rejected"}
              BY <4>2, DeviceFacts DEF PollNoted, PollsAnswered, Replies
        <5>2. QED  BY <2>2, <4>2, <5>1 DEF PollNoted, SetStatus
      <4>3. CASE PollRestores(i)
            BY <2>2, <4>3 DEF PollRestores, SetStatus
      <4>4. CASE PollFails(i)
            BY <2>2, <4>4 DEF PollFails, SetStatus
      <4>5. QED  BY <4>1, <4>2, <4>3, <4>4
    <3>2. attempt[i] # NoAttempt
          BY <2>2 DEF PollLost, PollNoted, PollRestores, PollFails, SetStatus
    <3> DEFINE new == [attempt[i] EXCEPT !.status = status]
    <3>3. new \in JoinAttempts /\ new.req = attempt[i].req
          BY <3>2, DeviceFacts DEF JoinAttempts
    <3>4. attempt' = [attempt EXCEPT ![i] = new]
          BY <3>1
    <3> HIDE DEF new
    <3>5. QED  BY <3>2, <3>3, <3>4 DEF DeviceType
  <2>3. QED  BY <2>1, <2>2
<1>4. /\ poll' \in [Attempts -> {NoPoll} \cup PollsAnswered \cup PollsRestoring]
      /\ \A j \in Attempts \ {i} : poll'[j] = poll[j]
      /\ poll'[i].step # "answered"
      /\ poll'[i].step = "restore" => attempt[i] # NoAttempt /\ poll'[i].serial <= member[DeviceOf(i)]
  <2>1. CASE poll' = [poll EXCEPT ![i] = NoPoll]
        BY <2>1 DEF DeviceType, NoPoll
  <2>2. CASE poll' # [poll EXCEPT ![i] = NoPoll]
    <3> DEFINE new == [step |-> "restore", serial |-> poll[i].reply.seal.serial]
    <3>1. poll[i].step = "answered" /\ Opens(i) /\ poll' = [poll EXCEPT ![i] = new]
          BY <2>2 DEF PollLost, PollNoted, PollRestores, PollFails
    <3>2. /\ new \in PollsRestoring /\ new.step = "restore" /\ new.serial <= member[DeviceOf(i)]
          BY <3>1, DeviceFacts DEF PollsAnswered, PollsRestoring, Replies, Seals, Issued
    <3> HIDE DEF new
    <3>3. attempt[i] # NoAttempt
          BY <3>1 DEF Opens
    <3>4. QED  BY <3>1, <3>2, <3>3 DEF DeviceType
  <2>3. QED  BY <2>1, <2>2
<1>5. \/ joined' = joined /\ entered' = entered
      \/ /\ poll[i].step = "restore" /\ joined' = [joined EXCEPT ![DeviceOf(i)] = poll[i].serial]
         /\ entered' = entered \union {i}
      BY DEF PollLost, PollNoted, PollRestores, PollFails, Restored
<1>6. /\ joined' \in [Devices -> Nat] /\ entered' \subseteq Attempts
      /\ \A d \in Devices : joined'[d] <= member[d]
  <2>1. CASE joined' = joined /\ entered' = entered
        BY <2>1 DEF DeviceType, Issued
  <2>2. CASE /\ poll[i].step = "restore" /\ joined' = [joined EXCEPT ![DeviceOf(i)] = poll[i].serial]
             /\ entered' = entered \union {i}
    <3>1. poll[i].serial \in Nat /\ poll[i].serial <= member[DeviceOf(i)]
          BY <2>2, DeviceFacts DEF PollsRestoring, Issued
    <3>2. QED  BY <1>2, <2>2, <3>1 DEF DeviceType, Issued
  <2>3. QED  BY <1>5, <2>1, <2>2
<1>7. OwnerType' /\ UsedOnce' /\ \A q \in Requests \ raced' : Alone(q)'
      BY <1>1, OwnerStands
<1>8. DeviceType'
      BY <1>1, <1>3, <1>4, <1>6 DEF DeviceType
<1>9. events' \in 0..MaxEvents
      BY <1>1, EventBound
<1>10. Named'
       BY <1>1 DEF Named, Holds, Granted, Known, DeviceOf, owner
<1>11. AttemptsAsk'
       BY <1>1, <1>2, <1>3, <1>4 DEF AttemptsAsk, Asks, DeviceOf
<1>12. Issued'
       BY <1>1, <1>4, <1>6 DEF Issued, Known, DeviceOf, owner
<1>13. CancelledEnded'
       BY <1>1, <1>3, <1>4, <1>5 DEF CancelledEnded, DeviceType
<1>14. QED  BY <1>7, <1>8, <1>9, <1>10, <1>11, <1>12, <1>13

\* An attempt that is cancelled has sent its request, and is not being restored.
LEMMA CancelKeeps ==
  ASSUME JoinIndInv, NEW i \in Attempts, CancelJoin(i)
  PROVE  JoinIndInv'
<1> USE DEF JoinIndInv
<1>1. /\ attempt[i] # NoAttempt /\ attempt' = [attempt EXCEPT ![i] = NoAttempt]
      /\ cancelled' = IF poll[i].step = "restore" \/ i \in entered THEN cancelled ELSE cancelled \union {i}
      /\ UNCHANGED <<owner, start, poll, joined, entered>> /\ Event
      BY DEF CancelJoin
<1>2. attempt'[i] = NoAttempt /\ \A j \in Attempts \ {i} : attempt'[j] = attempt[j]
      BY <1>1 DEF DeviceType
<1>3. start[i].step = "over"
      BY <1>1 DEF AttemptsAsk
<1>4. OwnerType' /\ UsedOnce' /\ \A q \in Requests \ raced' : Alone(q)'
      BY <1>1, OwnerStands
<1>5. DeviceType'
      BY <1>1 DEF DeviceType
<1>6. events' \in 0..MaxEvents
      BY <1>1, EventBound
<1>7. Named' /\ Issued'
      BY <1>1 DEF Named, Issued, Holds, Granted, Known, DeviceOf, owner
<1>8. AttemptsAsk'
      BY <1>1, <1>2 DEF AttemptsAsk, Asks, DeviceOf
<1>9. CancelledEnded'
      BY <1>1, <1>2, <1>3 DEF CancelledEnded, DeviceType
<1>10. QED  BY <1>4, <1>5, <1>6, <1>7, <1>8, <1>9

-----------------------------------------------------------------------------
(* Restarts.                                                                *)

\* An owner that restarts knows no request and is answering none.
LEMMA OwnerRestartKeeps ==
  ASSUME JoinIndInv, OwnerRestarts
  PROVE  JoinIndInv'
<1> USE DEF JoinIndInv
<1>0. Requests = Attempts
      BY DEF Requests, Attempts
<1>1. /\ request' = [r \in Requests |-> NoRequest] /\ call' = [c \in Calls |-> NoCall]
      /\ invite' = [t \in Invites |-> IF invite[t] = "deleting" THEN "gone" ELSE invite[t]]
      /\ start' = [i \in Attempts |-> IF start[i].step = "read" THEN [start[i] EXCEPT !.step = "over"] ELSE start[i]]
      /\ UNCHANGED <<member, granted, raced, attempt, poll, joined, cancelled, entered>> /\ Event
      BY DEF OwnerRestarts
<1>2. ASSUME NEW i \in Attempts
      PROVE  /\ start'[i] \in {NoStart} \cup Unanswered \cup Answered
             /\ start'[i].step # "read"
             /\ start[i].step # "read" => start'[i] = start[i]
             /\ start[i].step = "read" => start'[i].step = "over"
             /\ DeviceOf(i)' = DeviceOf(i) /\ (start'[i] = NoStart <=> start[i] = NoStart)
  <2>1. CASE start[i].step = "read"
    <3>1. start[i] \in Unanswered /\ start[i] # NoStart
          BY <2>1, DeviceFacts
    <3> DEFINE new == [start[i] EXCEPT !.step = "over"]
    <3>2. new \in Unanswered /\ new.step = "over" /\ new.device = start[i].device /\ new # NoStart
          BY <3>1 DEF Unanswered, NoStart
    <3> HIDE DEF new
    <3>3. start'[i] = new
          BY <1>1, <2>1 DEF new
    <3>4. QED  BY <2>1, <3>1, <3>2, <3>3 DEF DeviceOf
  <2>2. CASE start[i].step # "read"
    <3>1. start'[i] = start[i]
          BY <1>1, <2>2
    <3>2. QED  BY <2>2, <3>1 DEF DeviceOf, DeviceType
  <2>3. QED  BY <2>1, <2>2
<1>3. \A r \in Requests : request'[r] = NoRequest /\ NoRequest.status = "none"
      BY <1>1 DEF NoRequest
<1>4. \A c \in Calls : call'[c] = NoCall /\ NoCall.step = "idle"
      BY <1>1 DEF NoCall
<1>5. /\ invite' \in [Invites -> {"new", "open", "deleting", "gone"}]
      /\ \A t \in Invites : invite[t] = "gone" => invite'[t] = "gone"
      BY <1>1 DEF OwnerType
<1>6. OwnerType'
      BY <1>1, <1>5 DEF OwnerType
<1>7. DeviceType'
  <2>1. start' \in [Attempts -> {NoStart} \cup Unanswered \cup Answered]
        BY <1>1, <1>2
  <2>2. QED  BY <1>1, <2>1 DEF DeviceType
<1>8. events' \in 0..MaxEvents
      BY <1>1, EventBound
<1>9. Named'
  <2>1. \A r \in Requests : start'[r].step \in {"unused", "read"} => ~Granted(r)
        BY <1>0, <1>2 DEF Named
  <2>2. QED  BY <1>1, <1>3, <1>4, <2>1 DEF Named, Holds, Granted, Known
<1>10. AttemptsAsk'
  <2>1. ASSUME NEW j \in Attempts, NEW r \in Requests, Asks(j, r) PROVE Asks(j, r)'
        BY <1>0, <1>2, <2>1 DEF Asks
  <2>2. ASSUME NEW j \in Attempts
        PROVE  /\ start[j].step = "answered" => start[j].req \in Requests
               /\ attempt[j] # NoAttempt => attempt[j].req \in Requests
        BY DeviceFacts DEF Answered, JoinAttempts
  <2>3. \A j \in Attempts : start'[j].step = "answered" => start'[j] = start[j]
        BY <1>2
  <2>4. QED  BY <1>1, <1>2, <2>1, <2>2, <2>3 DEF AttemptsAsk
<1>11. Issued'
       BY <1>1, <1>2, <1>3, <1>4 DEF Issued, Known
<1>12. UsedOnce'
       BY <1>1, <1>5 DEF UsedOnce, OwnerType, Grants
<1>13. CancelledEnded'
       BY <1>1, <1>2 DEF CancelledEnded, DeviceType
<1>14. \A r \in Requests : Alone(r)'
       BY <1>1, <1>3, <1>4 DEF Alone, Holds
<1>15. QED  BY <1>6, <1>7, <1>8, <1>9, <1>10, <1>11, <1>12, <1>13, <1>14

\* A device that restarts has no attempt and polls for none.
LEMMA DeviceRestartKeeps ==
  ASSUME JoinIndInv, NEW d \in Devices, DeviceRestarts(d)
  PROVE  JoinIndInv'
<1> USE DEF JoinIndInv
<1>0. Requests = Attempts
      BY DEF Requests, Attempts
<1>1. /\ start' = [i \in Attempts |->
           IF start[i] # NoStart /\ start[i].device = d THEN [start[i] EXCEPT !.step = "over"] ELSE start[i]]
      /\ attempt' = [i \in Attempts |->
           IF attempt[i] # NoAttempt /\ DeviceOf(i) = d THEN NoAttempt ELSE attempt[i]]
      /\ poll' = [i \in Attempts |-> IF poll[i] # NoPoll /\ DeviceOf(i) = d THEN NoPoll ELSE poll[i]]
      /\ UNCHANGED <<owner, joined, cancelled, entered>> /\ Event
      BY DEF DeviceRestarts
<1>2. ASSUME NEW i \in Attempts
      PROVE  /\ start'[i] \in {NoStart} \cup Unanswered \cup Answered
             /\ start'[i] = start[i] \/ (start[i] # NoStart /\ start'[i].step = "over")
             /\ DeviceOf(i)' = DeviceOf(i) /\ (start'[i] = NoStart <=> start[i] = NoStart)
  <2>1. CASE start[i] # NoStart /\ start[i].device = d
    <3>1. start[i] \in Unanswered \cup Answered
          BY <2>1, DeviceFacts
    <3> DEFINE new == [start[i] EXCEPT !.step = "over"]
    <3>2. new \in Unanswered \cup Answered /\ new.step = "over" /\ new.device = start[i].device /\ new # NoStart
          BY <3>1 DEF Unanswered, Answered, NoStart
    <3> HIDE DEF new
    <3>3. start'[i] = new
          BY <1>1, <2>1 DEF new
    <3>4. QED  BY <2>1, <3>2, <3>3 DEF DeviceOf
  <2>2. CASE ~(start[i] # NoStart /\ start[i].device = d)
    <3>1. start'[i] = start[i]
          BY <1>1, <2>2
    <3>2. QED  BY <3>1 DEF DeviceOf, DeviceType
  <2>3. QED  BY <2>1, <2>2
<1>3. /\ \A i \in Attempts : attempt'[i] \in {NoAttempt, attempt[i]}
      /\ \A i \in Attempts : poll'[i] \in {NoPoll, poll[i]}
      /\ NoPoll.step = "idle"
      BY <1>1 DEF NoPoll
<1>4. OwnerType' /\ UsedOnce' /\ \A q \in Requests \ raced' : Alone(q)'
      BY <1>1, OwnerStands
<1>5. DeviceType'
  <2>1. start' \in [Attempts -> {NoStart} \cup Unanswered \cup Answered]
        BY <1>1, <1>2
  <2>2. attempt' \in [Attempts -> {NoAttempt} \cup JoinAttempts]
        BY <1>1 DEF DeviceType
  <2>3. poll' \in [Attempts -> {NoPoll} \cup PollsAnswered \cup PollsRestoring]
        BY <1>1 DEF DeviceType
  <2>4. QED  BY <1>1, <2>1, <2>2, <2>3 DEF DeviceType
<1>6. events' \in 0..MaxEvents
      BY <1>1, EventBound
<1>7. Named'
  <2>1. \A r \in Requests : start'[r].step \in {"unused", "read"} => start[r].step \in {"unused", "read"}
        BY <1>0, <1>2
  <2>2. \A c \in Calls : call[c] # NoCall => call[c].req \in Requests
        BY OwnerFacts DEF OwnerCalls
  <2>3. QED  BY <1>0, <1>1, <1>2, <2>1, <2>2 DEF Named, Holds, Granted, Known, owner
<1>8. AttemptsAsk'
  <2>1. ASSUME NEW j \in Attempts, NEW r \in Requests, Asks(j, r) PROVE Asks(j, r)'
        BY <1>0, <1>2, <2>1 DEF Asks
  <2>2. ASSUME NEW j \in Attempts
        PROVE  /\ start[j].step = "answered" => start[j].req \in Requests
               /\ attempt[j] # NoAttempt => attempt[j].req \in Requests
        BY DeviceFacts DEF Answered, JoinAttempts
  <2>3. \A j \in Attempts : start'[j].step = "answered" => start'[j] = start[j]
        BY <1>2
  <2>4. \A j \in Attempts : start[j].step = "over" => start'[j].step = "over"
        BY <1>2
  <2>5. QED  BY <1>2, <1>3, <2>1, <2>2, <2>3, <2>4 DEF AttemptsAsk
<1>9. Issued'
      BY <1>1, <1>2, <1>3 DEF Issued, Known, owner
<1>10. CancelledEnded'
       BY <1>1, <1>2, <1>3 DEF CancelledEnded, DeviceType
<1>11. QED  BY <1>4, <1>5, <1>6, <1>7, <1>8, <1>9, <1>10

-----------------------------------------------------------------------------
(* The theorems.                                                            *)

\* Every step keeps the invariant.
LEMMA JoinInductive == JoinIndInv /\ [Next]_vars => JoinIndInv'
<1> SUFFICES ASSUME JoinIndInv, [Next]_vars PROVE JoinIndInv'
    OBVIOUS
<1>1. CASE Inviting \/ \E r \in Requests : RequestExpires(r)
      BY <1>1, InvitesKeep
<1>2. ASSUME NEW i \in Attempts, Starting(i) PROVE JoinIndInv'
      BY <1>2, StartJoinKeeps, StartEndsKeeps, HostUpsertsKeeps DEF Starting
<1>3. ASSUME NEW i \in Attempts, CancelJoin(i) PROVE JoinIndInv'
      BY <1>3, CancelKeeps
<1>4. ASSUME NEW c \in Calls, Answering(c) PROVE JoinIndInv'
      BY <1>4, BeginKeeps, ApproveCommitKeeps, CallEndsKeeps, ApproveMarkKeeps
      DEF Answering, Approve, Reject
<1>5. ASSUME NEW i \in Attempts, Polling(i) \/ PollLost(i) \/ PollFails(i) PROVE JoinIndInv'
      BY <1>5, PollKeeps, PollEndsKeeps DEF Polling
<1>6. CASE OwnerRestarts
      BY <1>6, OwnerRestartKeeps
<1>7. ASSUME NEW d \in Devices, DeviceRestarts(d) PROVE JoinIndInv'
      BY <1>7, DeviceRestartKeeps
<1>8. CASE UNCHANGED vars
  <2>1. UNCHANGED owner /\ UNCHANGED device /\ events' = events
        BY <1>8 DEF vars
  <2>2. OwnerType' /\ UsedOnce' /\ \A q \in Requests \ raced' : Alone(q)'
        BY <2>1, OwnerStands
  <2>3. DeviceType' /\ AttemptsAsk' /\ CancelledEnded'
        BY <2>1, DeviceStands
  <2>4. Named' /\ Issued'
        BY <2>1 DEF JoinIndInv, Named, Issued, Holds, Granted, Known, DeviceOf, owner, device
  <2>5. QED  BY <2>1, <2>2, <2>3, <2>4 DEF JoinIndInv
<1>9. QED  BY <1>1, <1>2, <1>3, <1>4, <1>5, <1>6, <1>7, <1>8 DEF Next

\* The invariant holds in every reachable state.
LEMMA JoinInvariant == Spec => []JoinIndInv
<1>1. QED  BY JoinInit, JoinInductive, PTL DEF Spec

\* OnlyInvitedJoin (ApproveJoinRequest, CancelJoinAttempt, finalizeApprovedJoin,
\* RejectJoinRequest): however calls of the owner, polls, expiries, cancellations
\* and restarts interleave, an invite for one device lets one device in, a
\* cancelled attempt does not come in, a device that is told it was rejected was
\* not made a member unless its request was raced, and nobody restores a
\* certificate that was not issued to it.
THEOREM InvitedOnly == Spec => []OnlyInvitedJoin
<1>1. QED  BY JoinInvariant, JoinIndHolds, PTL

\* MaterialOpens (ApproveJoinRequest, upsertJoinRequest): an approved request that
\* was not renewed meanwhile is sealed for the key the device sent last, and
\* holds the certificate its approval committed.
THEOREM MaterialCanBeOpened == Spec => []MaterialOpens
<1>1. QED  BY JoinInvariant, JoinIndHolds, PTL

-----------------------------------------------------------------------------
(***************************************************************************)
(* From here on: Membership.                                               *)
(*                                                                         *)
(* The founder makes every key of the library and keeps them all, so its   *)
(* chain only grows and any valid chain it is shown is part of it; the     *)
(* certificates under way are the newest ones of their member, or their    *)
(* member is able to find out that they are not.                           *)
(***************************************************************************)

(* Numbers.                                                                 *)

\* A set of numbers has a least element: the sets 1..n are well-founded under inclusion.
LEMMA LeastNumber ==
    ASSUME NEW T \in SUBSET Nat, T # {}
    PROVE  \E x \in T : \A y \in T : x <= y
<1> DEFINE below == {1..x : x \in T}
<1>1. below \subseteq FiniteSubsetsOf(Nat)
  <2>1. SUFFICES ASSUME NEW x \in T PROVE 1..x \in FiniteSubsetsOf(Nat)
        OBVIOUS
  <2>2. IsFiniteSet(1..x)
        BY FS_Interval
  <2>3. QED  BY <2>2 DEF FiniteSubsetsOf
<1>2. below # {}
      OBVIOUS
<1>3. \E X \in below : \A Y \in below : <<Y, X>> \notin StrictSubsetOrdering(Nat)
  <2> HIDE DEF below
  <2>1. QED  BY <1>1, <1>2, FS_StrictSubsetOrderingWellFounded, WFMin
<1>4. PICK x \in T : \A y \in T : <<1..y, 1..x>> \notin StrictSubsetOrdering(Nat)
      BY <1>3
<1>5. ASSUME NEW y \in T, y < x PROVE FALSE
  <2>1. 1..y \subseteq 1..x /\ x \in 1..x /\ x \notin 1..y
        BY <1>5
  <2>2. 1..y \in SUBSET Nat /\ 1..x \in SUBSET Nat /\ 1..y # 1..x
        BY <2>1
  <2>3. <<1..y, 1..x>> \in StrictSubsetOrdering(Nat)
        BY <2>1, <2>2, Zenon DEF StrictSubsetOrdering
  <2>4. QED  BY <2>3, <1>4
<1>6. QED  BY <1>5

LEMMA GreatestNumber ==
    ASSUME NEW n \in Nat, NEW T \in SUBSET (0..n), T # {}
    PROVE  \E x \in T : \A y \in T : x >= y
<1> DEFINE U == {n - x : x \in T}
<1>1. U \in SUBSET Nat /\ U # {}
  <2>1. \A x \in T : n - x \in Nat
        OBVIOUS
  <2>2. QED  BY <2>1
<1>2. PICK u \in U : \A v \in U : u <= v
  <2> HIDE DEF U
  <2>1. QED  BY <1>1, LeastNumber
<1>3. PICK x \in T : u = n - x
      OBVIOUS
<1>4. ASSUME NEW y \in T PROVE x >= y
  <2>1. n - x <= n - y /\ x \in 0..n /\ y \in 0..n
        BY <1>2, <1>3
  <2>2. QED  BY <2>1
<1>5. QED  BY <1>4

LEMMA MaxIsGreatest ==
    ASSUME NEW n \in Nat, NEW T \in SUBSET (0..n), T # {}
    PROVE  Max(T) \in T /\ \A y \in T : y <= Max(T)
<1>1. PICK x \in T : \A y \in T : x >= y
      BY GreatestNumber
<1>2. Max(T) \in T /\ \A y \in T : Max(T) >= y
      BY <1>1 DEF Max
<1>3. QED  BY <1>2

LEMMA MaxOfTwo ==
    ASSUME NEW n \in Nat, NEW a \in 0..n, NEW b \in 0..n
    PROVE  /\ Max({a, b}) \in {a, b} /\ Max({a, b}) \in 0..n
           /\ a <= Max({a, b}) /\ b <= Max({a, b})
<1>1. {a, b} \in SUBSET (0..n) /\ {a, b} # {}
      OBVIOUS
<1>2. QED  BY <1>1, MaxIsGreatest

-----------------------------------------------------------------------------
(* Keys and chains of keys.                                                 *)

Keys == BoundedSeq(Everyone, MaxVersion) \ {<<>>}

LEMMA KeySequences ==
    ASSUME NEW k \in Keys
    PROVE  k \in Seq(Everyone) /\ Len(k) \in 1..MaxVersion
<1>1. PICK n \in 0..MaxVersion : k \in [1..n -> Everyone]
      BY DEF Keys, BoundedSeq, SeqOf
<1>2. k \in Seq(Everyone) /\ Len(k) = n
      BY <1>1, BoundsOfMembership
<1>3. k # <<>>
      BY DEF Keys
<1>4. n # 0
      BY <1>2, <1>3
<1>5. QED  BY <1>2, <1>4

LEMMA SequencesAreKeys ==
    ASSUME NEW k \in Seq(Everyone), Len(k) \in 1..MaxVersion
    PROVE  k \in Keys
<1>1. k \in [1..Len(k) -> Everyone] /\ Len(k) \in 0..MaxVersion /\ k # <<>>
      OBVIOUS
<1>2. QED  BY <1>1 DEF Keys, BoundedSeq, SeqOf

LEMMA FirstKey == <<Founder>> \in Keys /\ Len(<<Founder>>) = 1
<1>1. <<Founder>> \in Seq(Everyone) /\ Len(<<Founder>>) = 1
      BY DEF Everyone
<1>2. Len(<<Founder>>) \in 1..MaxVersion
      BY <1>1, BoundsOfMembership
<1>3. QED  BY <1>1, <1>2, SequencesAreKeys

LEMMA NextKey ==
    ASSUME NEW k \in Keys, Len(k) < MaxVersion, NEW d \in Everyone
    PROVE  /\ Append(k, d) \in Keys /\ Len(Append(k, d)) = Len(k) + 1
           /\ Front(Append(k, d)) = k
<1>1. k \in Seq(Everyone) /\ Len(k) \in 1..MaxVersion /\ MaxVersion \in Nat
      BY KeySequences, BoundsOfMembership
<1> DEFINE a == Append(k, d)
<1>2. a \in Seq(Everyone) /\ Len(a) = Len(k) + 1 /\ \A i \in 1..Len(k) : a[i] = k[i]
      BY <1>1
<1>3. Front(a) \in Seq(Everyone) /\ Len(Front(a)) = Len(k) /\ \A i \in 1..Len(k) : Front(a)[i] = k[i]
      BY <1>1, <1>2 DEF Front
<1>4. Front(a) = k
  <2> HIDE DEF a
  <2>1. QED  BY <1>1, <1>3
<1>5. a \in Keys
  <2>1. Len(a) \in 1..MaxVersion
        BY <1>1, <1>2
  <2> HIDE DEF a
  <2>2. QED  BY <1>2, <2>1, SequencesAreKeys
<1>6. QED  BY <1>2, <1>4, <1>5

LEMMA VersionIsGreatest ==
    ASSUME NEW keys \in SUBSET Keys
    PROVE  /\ Version(keys) \in 0..MaxVersion
           /\ \A k \in keys : Len(k) \in 1..Version(keys)
           /\ keys # {} => \E k \in keys : Len(k) = Version(keys)
<1>1. CASE keys = {}
      BY <1>1, BoundsOfMembership DEF Version
<1>2. CASE keys # {}
  <2> DEFINE T == {Len(k) : k \in keys}
  <2>1. \A k \in keys : Len(k) \in 1..MaxVersion /\ Len(k) \in 0..MaxVersion
        BY KeySequences, BoundsOfMembership
  <2>2. T \in SUBSET (0..MaxVersion) /\ T # {} /\ MaxVersion \in Nat
        BY <1>2, <2>1, BoundsOfMembership
  <2>3. Max(T) \in T /\ \A y \in T : y <= Max(T)
    <3> HIDE DEF T
    <3>1. QED  BY <2>2, MaxIsGreatest
  <2>4. Version(keys) = Max(T)
        BY <1>2 DEF Version
  <2>5. QED  BY <2>1, <2>2, <2>3, <2>4
<1>3. QED  BY <1>1, <1>2

LEMMA KeyOfVersion ==
    ASSUME NEW keys, NEW k \in keys
    PROVE  /\ KeyAt(keys, Len(k)) \in keys /\ Len(KeyAt(keys, Len(k))) = Len(k)
           /\ OneKeyPerVersion(keys) => KeyAt(keys, Len(k)) = k
<1>1. KeyAt(keys, Len(k)) \in keys /\ Len(KeyAt(keys, Len(k))) = Len(k)
      BY DEF KeyAt
<1>2. QED  BY <1>1 DEF OneKeyPerVersion

LEMMA HeadOfChain ==
    ASSUME NEW keys \in SUBSET Keys, keys # {}
    PROVE  ChainHead(keys) \in keys /\ Len(ChainHead(keys)) = Version(keys)
<1>1. PICK k \in keys : Len(k) = Version(keys)
      BY VersionIsGreatest
<1>2. QED  BY <1>1, KeyOfVersion DEF ChainHead

LEMMA VersionGrows ==
    ASSUME NEW keys \in SUBSET Keys, NEW more \in SUBSET Keys,
           \A k \in keys : \E j \in more : Len(j) = Len(k)
    PROVE  Version(keys) <= Version(more)
<1>1. Version(keys) \in 0..MaxVersion /\ Version(more) \in 0..MaxVersion /\ MaxVersion \in Nat
      BY VersionIsGreatest, BoundsOfMembership
<1>2. CASE keys = {}
      BY <1>1, <1>2 DEF Version
<1>3. CASE keys # {}
  <2>1. PICK k \in keys : Len(k) = Version(keys)
        BY <1>3, VersionIsGreatest
  <2>2. PICK j \in more : Len(j) = Len(k)
        OBVIOUS
  <2>3. Len(j) \in 1..Version(more)
        BY VersionIsGreatest
  <2>4. QED  BY <1>1, <2>1, <2>2, <2>3
<1>4. QED  BY <1>2, <1>3

\* Every key is signed by one in the set.
Linked(keys) == \A k \in keys : Len(k) > 1 => Front(k) \in keys

LEMMA FrontIsShorter ==
    ASSUME NEW k \in Keys, Len(k) > 1
    PROVE  Len(Front(k)) = Len(k) - 1
<1>1. k \in Seq(Everyone) /\ Len(k) \in Nat
      BY KeySequences, BoundsOfMembership
<1>2. QED  BY <1>1 DEF Front

\* So all versions below one are there.
LEMMA VersionsBelow ==
    ASSUME NEW keys \in SUBSET Keys, Linked(keys), NEW h \in keys
    PROVE  \A n \in 1..Len(h) : \E k \in keys : Len(k) = n
<1> DEFINE missing == {n \in 1..Len(h) : ~\E k \in keys : Len(k) = n}
<1>1. Len(h) \in 1..MaxVersion /\ MaxVersion \in Nat
      BY KeySequences, BoundsOfMembership
<1>2. SUFFICES ASSUME missing # {} PROVE FALSE
      OBVIOUS
<1>3. missing \in SUBSET (0..MaxVersion)
      BY <1>1
<1>4. PICK n \in missing : \A y \in missing : n >= y
  <2> HIDE DEF missing
  <2>1. QED  BY <1>1, <1>2, <1>3, GreatestNumber
<1>5. n \in 1..Len(h) /\ n # Len(h)
      OBVIOUS
<1>6. n + 1 \in 1..Len(h) /\ n + 1 \notin missing
      BY <1>1, <1>4, <1>5
<1>7. PICK k \in keys : Len(k) = n + 1
      BY <1>6
<1>8. Front(k) \in keys /\ Len(Front(k)) = n
      BY <1>5, <1>7, FrontIsShorter DEF Linked
<1>9. QED  BY <1>8

\* A chain whose newest key belongs to another chain is part of that one.
LEMMA ChainWithin ==
    ASSUME NEW keys \in SUBSET Keys, NEW more \in SUBSET Keys, Linked(more),
           ValidChain(keys), OneKeyPerVersion(keys), ChainHead(keys) \in more
    PROVE  keys \subseteq more
<1> DEFINE both == keys \intersect more
           h == ChainHead(keys)
<1>1. h \in both /\ Len(h) = Version(keys)
      BY HeadOfChain DEF ValidChain
<1>2. both \in SUBSET Keys /\ Linked(both)
      BY DEF Linked, ValidChain
<1>3. ASSUME NEW k \in keys PROVE k \in more
  <2>1. Len(k) \in 1..Len(h)
        BY <1>1, VersionIsGreatest
  <2>2. PICK j \in both : Len(j) = Len(k)
    <3> HIDE DEF both, h
    <3>1. QED  BY <1>1, <1>2, <2>1, VersionsBelow
  <2>3. j = k
        BY <2>2 DEF OneKeyPerVersion
  <2>4. QED  BY <2>3
<1>4. QED  BY <1>3

LEMMA SavedChain ==
    ASSUME NEW mine \in SUBSET Keys, NEW theirs \in SUBSET Keys
    PROVE  /\ SaveChain(mine, theirs) \in SUBSET Keys /\ theirs \subseteq SaveChain(mine, theirs)
           /\ Version(mine) <= Version(SaveChain(mine, theirs))
           /\ Version(theirs) <= Version(SaveChain(mine, theirs))
           /\ OneKeyPerVersion(mine) /\ OneKeyPerVersion(theirs)
                => OneKeyPerVersion(SaveChain(mine, theirs))
           /\ OneKeyPerVersion(mine) /\ theirs \subseteq mine => SaveChain(mine, theirs) = mine
<1> DEFINE both == SaveChain(mine, theirs)
<1>1. both \in SUBSET Keys /\ theirs \subseteq both
      BY DEF SaveChain
<1>2. \A k \in mine : \E j \in both : Len(j) = Len(k)
      BY DEF SaveChain
<1>3. Version(mine) <= Version(both) /\ Version(theirs) <= Version(both)
  <2> HIDE DEF both
  <2>1. QED  BY <1>1, <1>2, VersionGrows
<1>4. OneKeyPerVersion(mine) /\ OneKeyPerVersion(theirs) => OneKeyPerVersion(both)
      BY DEF SaveChain, OneKeyPerVersion
<1>5. OneKeyPerVersion(mine) /\ theirs \subseteq mine => both = mine
      BY DEF SaveChain, OneKeyPerVersion
<1>6. QED  BY <1>1, <1>3, <1>4, <1>5

LEMMA SavedKey ==
    ASSUME NEW keys, NEW key
    PROVE  SaveKey(keys, key) = SaveChain(keys, {key})
BY DEF SaveKey, SaveChain

-----------------------------------------------------------------------------
(* The tables of a device, and what the operations make of them.             *)

Serials == 0..MaxSerial

Tables == [member : [Everyone -> Roles \union {"none"}], chain : SUBSET Keys, keys : SUBSET Keys,
           cert : [Everyone -> Cert], revoked : [Everyone -> SUBSET (1..MaxSerial)],
           recovery : [Everyone -> Serials], token : Serials]

\* One key per version, and no private key newer than the chain.
WellKeyed(t) ==
  /\ OneKeyPerVersion(t.chain) /\ OneKeyPerVersion(t.keys)
  /\ \A k \in t.keys : Len(k) <= Version(t.chain)

LEMMA KeysOfCerts == Keys \subseteq BoundedSeq(Everyone, MaxVersion) /\ NoCert \in Cert
<1>1. <<>> \in [1..0 -> Everyone] /\ 0 \in 0..MaxVersion /\ 0 \in 0..MaxSerial
      BY BoundsOfMembership
<1>2. <<>> \in BoundedSeq(Everyone, MaxVersion)
      BY <1>1 DEF BoundedSeq, SeqOf
<1>3. QED  BY <1>1, <1>2 DEF Keys, NoCert, Cert

LEMMA CertFields ==
    ASSUME NEW x \in Cert
    PROVE  x.serial \in Serials /\ x.serial \in Nat /\ x.role \in Roles \union {"none"}
BY BoundsOfMembership DEF Cert, Serials

\* The next serial is above the present one and all that were revoked.
LEMMA NextSerialIsNew ==
    ASSUME NEW t \in Tables, NEW d \in Everyone
    PROVE  /\ NextSerial(t, d) \in 1..(MaxSerial + 1)
           /\ \A s \in t.revoked[d] : s < NextSerial(t, d)
           /\ t.cert[d].serial < NextSerial(t, d)
           /\ \/ NextSerial(t, d) = 1
              \/ NextSerial(t, d) = t.cert[d].serial + 1
              \/ \E s \in t.revoked[d] : NextSerial(t, d) = s + 1
<1> DEFINE T == t.revoked[d] \union {t.cert[d].serial, 0}
<1>1. t.revoked[d] \in SUBSET (1..MaxSerial) /\ t.cert[d] \in Cert /\ MaxSerial \in Nat
      BY BoundsOfMembership DEF Tables
<1>2. t.cert[d].serial \in 0..MaxSerial
      BY <1>1, CertFields DEF Serials
<1>3. T \in SUBSET (0..MaxSerial) /\ T # {}
      BY <1>1, <1>2
<1>4. Max(T) \in T /\ \A y \in T : y <= Max(T)
  <2> HIDE DEF T
  <2>1. QED  BY <1>1, <1>3, MaxIsGreatest
<1>5. NextSerial(t, d) = Max(T) + 1
      BY DEF NextSerial
<1>6. PICK n : n = Max(T)
      OBVIOUS
<1>7. n \in T /\ n \in 0..MaxSerial /\ \A y \in T : y <= n
      BY <1>3, <1>4, <1>6
<1>8. (\A s \in t.revoked[d] : s <= n) /\ t.cert[d].serial <= n
      BY <1>7
<1>9. \A s \in t.revoked[d] \union {t.cert[d].serial} : s < n + 1
      BY <1>1, <1>2, <1>7, <1>8
<1>10. NextSerial(t, d) = n + 1
      BY <1>5, <1>6
<1>11. QED  BY <1>1, <1>7, <1>9, <1>10

LEMMA SupersededTables ==
    ASSUME NEW t \in Tables, NEW d \in Everyone
    PROVE  \E r \in SUBSET (1..MaxSerial) :
             /\ t.revoked[d] \subseteq r /\ \A s \in r : s < NextSerial(t, d)
             /\ Superseded(t, d) = [t EXCEPT !.revoked[d] = r]
             /\ r \union {t.cert[d].serial, 0} = t.revoked[d] \union {t.cert[d].serial, 0}
             /\ t.cert[d].serial > 0 => t.cert[d].serial \in r
<1>1. t.revoked[d] \in SUBSET (1..MaxSerial) /\ t.cert[d].serial \in 0..MaxSerial /\ MaxSerial \in Nat
      BY CertFields, BoundsOfMembership DEF Tables, Serials
<1>2. (\A s \in t.revoked[d] : s < NextSerial(t, d)) /\ t.cert[d].serial < NextSerial(t, d)
      BY NextSerialIsNew
<1>3. CASE t.cert[d].serial > 0
  <2> DEFINE r == t.revoked[d] \union {t.cert[d].serial}
  <2>1. r \in SUBSET (1..MaxSerial)
        BY <1>1, <1>3
  <2>2. Superseded(t, d) = [t EXCEPT !.revoked[d] = r]
        BY <1>3 DEF Superseded
  <2>3. QED  BY <1>2, <2>1, <2>2
<1>4. CASE ~(t.cert[d].serial > 0)
  <2>1. Superseded(t, d) = t /\ t = [t EXCEPT !.revoked[d] = t.revoked[d]]
        BY <1>4 DEF Superseded, Tables
  <2>2. QED  BY <1>1, <1>2, <1>4, <2>1
<1>5. QED  BY <1>3, <1>4

\* A certificate is issued to d in the tables t, which become u.
IssuedAnew(t, u, d) ==
  /\ u.cert[d].serial = NextSerial(t, d) /\ u.cert[d].key = SigningKey(t)
  /\ t.revoked[d] \subseteq u.revoked[d] /\ \A s \in u.revoked[d] : s < NextSerial(t, d)
  /\ \A e \in Everyone \ {d} : u.cert[e] = t.cert[e] /\ u.revoked[e] = t.revoked[e]

LEMMA KeyThatSigns ==
    ASSUME NEW t \in Tables, CanSign(t)
    PROVE  /\ SigningKey(t) \in t.keys /\ SigningKey(t) \in Keys
           /\ Len(SigningKey(t)) = Version(t.chain)
<1>1. PICK k \in t.keys : Len(k) = Version(t.chain)
      BY DEF CanSign
<1>2. SigningKey(t) \in t.keys /\ Len(SigningKey(t)) = Version(t.chain)
      BY <1>1, KeyOfVersion DEF SigningKey
<1>3. QED  BY <1>2 DEF Tables

LEMMA IssueTables ==
    ASSUME NEW t \in Tables, WellKeyed(t), CanSign(t), NEW d \in Everyone,
           NEW role \in Roles \union {"none"}, NextSerial(t, d) <= MaxSerial
    PROVE  LET u == Issue(t, d, role) IN
           /\ u \in Tables /\ WellKeyed(u) /\ IssuedAnew(t, u, d)
           /\ u.member = t.member /\ u.chain = t.chain /\ u.keys = t.keys
           /\ u.recovery = t.recovery /\ u.token = t.token /\ u.cert[d].role = role
<1> DEFINE old == Superseded(t, d)
           x == [serial |-> NextSerial(t, d), key |-> SigningKey(t), role |-> role]
           u == [old EXCEPT !.cert[d] = x]
<1>1. PICK r \in SUBSET (1..MaxSerial) :
             /\ t.revoked[d] \subseteq r /\ \A s \in r : s < NextSerial(t, d)
             /\ old = [t EXCEPT !.revoked[d] = r]
             /\ r \union {t.cert[d].serial, 0} = t.revoked[d] \union {t.cert[d].serial, 0}
      BY SupersededTables
<1>2. old \in Tables /\ old.revoked[d] = r /\ old.cert = t.cert /\ old.chain = t.chain /\ old.keys = t.keys
      BY <1>1 DEF Tables
<1>3. NextSerial(old, d) = NextSerial(t, d)
      BY <1>1, <1>2 DEF NextSerial
<1>4. SigningKey(old) = SigningKey(t)
      BY <1>2 DEF SigningKey
<1>5. Issue(t, d, role) = u
      BY <1>3, <1>4 DEF Issue, IssuedCert
<1>6. x \in Cert
  <2>1. NextSerial(t, d) \in 0..MaxSerial
        BY NextSerialIsNew, BoundsOfMembership
  <2>2. SigningKey(t) \in Keys
        BY KeyThatSigns
  <2>3. QED  BY <2>1, <2>2, KeysOfCerts DEF Cert
<1>7. u = [t EXCEPT !.revoked = [t.revoked EXCEPT ![d] = r], !.cert = [t.cert EXCEPT ![d] = x]]
      BY <1>1 DEF Tables
<1>8. /\ u \in Tables /\ u.member = t.member /\ u.chain = t.chain /\ u.keys = t.keys
      /\ u.recovery = t.recovery /\ u.token = t.token
      /\ u.cert = [t.cert EXCEPT ![d] = x] /\ u.revoked = [t.revoked EXCEPT ![d] = r]
  <2> HIDE DEF u, x
  <2>1. QED  BY <1>6, <1>7 DEF Tables
<1>9. u.cert[d] = x /\ u.revoked[d] = r /\ \A e \in Everyone \ {d} : u.cert[e] = t.cert[e] /\ u.revoked[e] = t.revoked[e]
  <2> HIDE DEF u, x
  <2>1. QED  BY <1>8 DEF Tables
<1>10. IssuedAnew(t, u, d)
  <2> HIDE DEF u
  <2>1. QED  BY <1>1, <1>9 DEF IssuedAnew
<1>11. QED  BY <1>5, <1>8, <1>9, <1>10 DEF WellKeyed

\* The tables t become u by a new version of the authority.
RotatedBy(t, u, next) ==
  /\ u \in Tables /\ WellKeyed(u) /\ CanSign(u) /\ SigningKey(u) = next
  /\ u.chain = t.chain \union {next} /\ u.keys = t.keys \union {next}
  /\ u.member = t.member /\ u.cert = t.cert /\ u.revoked = t.revoked
  /\ u.recovery = t.recovery /\ u.token = t.token
  /\ Version(u.chain) = Version(t.chain) + 1 /\ Front(next) = SigningKey(t)

LEMMA RotateTables ==
    ASSUME NEW t \in Tables, WellKeyed(t), CanSign(t), NEW d \in Everyone,
           Version(t.chain) < MaxVersion
    PROVE  \E next \in Keys : RotatedBy(t, Rotate(t, d), next)
<1> DEFINE next == Append(SigningKey(t), d)
           V == Version(t.chain)
           u == [t EXCEPT !.chain = @ \union {next}, !.keys = @ \union {next}]
<1>0. V \in 0..MaxVersion /\ MaxVersion \in Nat /\ t.chain \in SUBSET Keys /\ t.keys \in SUBSET Keys
      BY VersionIsGreatest, BoundsOfMembership DEF Tables
<1>1. next \in Keys /\ Len(next) = V + 1 /\ Front(next) = SigningKey(t)
      BY KeyThatSigns, NextKey
<1>2. Rotate(t, d) = u
      BY DEF Rotate
<1> HIDE DEF next
<1>3. /\ u \in Tables /\ u.chain = t.chain \union {next} /\ u.keys = t.keys \union {next}
      /\ u.member = t.member /\ u.cert = t.cert /\ u.revoked = t.revoked
      /\ u.recovery = t.recovery /\ u.token = t.token
      BY <1>0, <1>1 DEF Tables
<1> HIDE DEF u
<1>4. \A k \in t.chain \union t.keys : Len(k) \in 1..V
  <2>1. \A k \in t.chain : Len(k) \in 1..V
        BY <1>0, VersionIsGreatest
  <2>2. \A k \in t.keys : Len(k) \in 1..V
        BY <1>0, KeySequences DEF WellKeyed
  <2>3. QED  BY <2>1, <2>2
<1>5. Version(u.chain) = V + 1
  <2>1. u.chain \in SUBSET Keys /\ u.chain # {} /\ next \in u.chain
        BY <1>0, <1>1, <1>3
  <2>2. Len(next) \in 1..Version(u.chain) /\ \E k \in u.chain : Len(k) = Version(u.chain)
        BY <2>1, VersionIsGreatest
  <2>3. Version(u.chain) \in 0..MaxVersion
        BY <2>1, VersionIsGreatest
  <2>4. QED  BY <1>0, <1>1, <1>3, <1>4, <2>2, <2>3
<1>6. WellKeyed(u)
  <2>1. \A k \in t.chain \union t.keys : Len(k) # Len(next) /\ Len(k) <= V + 1
        BY <1>0, <1>1, <1>4
  <2>2. OneKeyPerVersion(u.chain) /\ OneKeyPerVersion(u.keys)
        BY <1>3, <2>1 DEF WellKeyed, OneKeyPerVersion
  <2>3. \A k \in u.keys : Len(k) <= V + 1
        BY <1>0, <1>1, <1>3, <2>1
  <2>4. QED  BY <1>5, <2>2, <2>3 DEF WellKeyed
<1>7. CanSign(u) /\ SigningKey(u) = next
  <2>1. next \in u.keys /\ Len(next) = Version(u.chain)
        BY <1>1, <1>3, <1>5
  <2>2. QED  BY <1>6, <2>1, KeyOfVersion DEF CanSign, SigningKey, WellKeyed
<1>8. RotatedBy(t, u, next)
      BY <1>1, <1>3, <1>5, <1>6, <1>7 DEF RotatedBy
<1>9. QED  BY <1>1, <1>2, <1>8

\* The tables of a device that may have made the first authority.
LEMMA AuthorityTables ==
    ASSUME NEW t \in Tables, WellKeyed(t), t.chain = {} => t.keys = {}
    PROVE  LET u == WithAuthority(t) IN
           /\ u \in Tables /\ WellKeyed(u) /\ u.chain # {} /\ t.chain \subseteq u.chain
           /\ u.member = t.member /\ u.cert = t.cert /\ u.revoked = t.revoked
           /\ u.recovery = t.recovery /\ u.token = t.token
           /\ t.chain # {} => u = t
           /\ t.chain = {} => u.chain = {<<Founder>>} /\ u.keys = {<<Founder>>}
           /\ \A d \in Everyone : NextSerial(u, d) = NextSerial(t, d)
<1> DEFINE u == WithAuthority(t)
<1>1. CASE t.chain # {}
      BY <1>1 DEF WithAuthority
<1>2. CASE t.chain = {}
  <2>1. u = [t EXCEPT !.chain = {<<Founder>>}, !.keys = {<<Founder>>}]
        BY <1>2 DEF WithAuthority
  <2>2. /\ u \in Tables /\ u.chain = {<<Founder>>} /\ u.keys = {<<Founder>>}
        /\ u.member = t.member /\ u.cert = t.cert /\ u.revoked = t.revoked
        /\ u.recovery = t.recovery /\ u.token = t.token
    <3> HIDE DEF u
    <3>1. QED  BY <2>1, FirstKey DEF Tables
  <2> HIDE DEF u
  <2>3. WellKeyed(u)
    <3>1. u.chain \in SUBSET Keys /\ <<Founder>> \in u.chain
          BY <2>2, FirstKey
    <3>2. Len(<<Founder>>) \in 1..Version(u.chain) /\ Version(u.chain) \in 0..MaxVersion
          BY <3>1, VersionIsGreatest
    <3>3. Version(u.chain) \in Nat
          BY <3>2, BoundsOfMembership
    <3>4. Len(<<Founder>>) <= Version(u.chain)
          BY <3>2, <3>3
    <3>5. QED  BY <2>2, <3>4 DEF WellKeyed, OneKeyPerVersion
  <2>4. \A d \in Everyone : NextSerial(u, d) = NextSerial(t, d)
        BY <2>2 DEF NextSerial
  <2>5. QED  BY <1>2, <2>2, <2>3, <2>4 DEF u
<1>3. QED  BY <1>1, <1>2

\* What the tables of a device say of its certificates is unchanged up to d.
LEMMA RevokedTables ==
    ASSUME NEW t \in Tables, WellKeyed(t), NEW d \in Everyone
    PROVE  LET u == Revoke(t, d) IN
           /\ u \in Tables /\ WellKeyed(u) /\ NextSerial(u, d) = NextSerial(t, d)
           /\ u.member = t.member /\ u.chain = t.chain /\ u.keys = t.keys /\ u.cert = t.cert
           /\ u.recovery = t.recovery /\ u.token = t.token
           /\ t.revoked[d] \subseteq u.revoked[d] /\ \A s \in u.revoked[d] : s < NextSerial(t, d)
           /\ t.cert[d].serial > 0 => t.cert[d].serial \in u.revoked[d]
           /\ \A e \in Everyone \ {d} : u.revoked[e] = t.revoked[e]
<1> DEFINE u == Superseded(t, d)
<1>1. PICK r \in SUBSET (1..MaxSerial) :
             /\ t.revoked[d] \subseteq r /\ \A s \in r : s < NextSerial(t, d)
             /\ u = [t EXCEPT !.revoked[d] = r]
             /\ r \union {t.cert[d].serial, 0} = t.revoked[d] \union {t.cert[d].serial, 0}
             /\ t.cert[d].serial > 0 => t.cert[d].serial \in r
      BY SupersededTables
<1>2. u = [t EXCEPT !.revoked = [t.revoked EXCEPT ![d] = r]]
      BY <1>1 DEF Tables
<1>3. /\ u \in Tables /\ u.cert = t.cert /\ u.member = t.member /\ u.chain = t.chain /\ u.keys = t.keys
      /\ u.recovery = t.recovery /\ u.token = t.token /\ u.revoked[d] = r
      /\ \A e \in Everyone \ {d} : u.revoked[e] = t.revoked[e]
  <2> HIDE DEF u
  <2>1. QED  BY <1>2 DEF Tables
<1>4. NextSerial(u, d) = NextSerial(t, d)
  <2> HIDE DEF u
  <2>1. QED  BY <1>1, <1>3 DEF NextSerial
<1>5. QED  BY <1>1, <1>3, <1>4 DEF WellKeyed, Revoke

\* A member operation extends the chain by a key of the operator, or leaves it.
Extends(t, u) ==
  /\ t.chain \subseteq u.chain /\ Version(t.chain) <= Version(u.chain)
  /\ \/ u.chain = t.chain /\ u.keys = t.keys
     \/ \E next \in Keys : /\ u.chain = t.chain \union {next} /\ u.keys = t.keys \union {next}
                          /\ Front(next) \in t.keys

LEMMA RoleTables ==
    ASSUME NEW a \in Everyone, NEW m \in Everyone, NEW role \in Roles,
           db[a] \in Tables, WellKeyed(db[a]), CanSign(db[a]),
           NextSerial(Revoke(db[a], m), m) <= MaxSerial, Version(db[a].chain) < MaxVersion
    PROVE  LET t == db[a]  u == RoleUpdated(a, m, role) IN
           /\ u \in Tables /\ WellKeyed(u) /\ Extends(t, u)
           /\ u.cert[m].serial = NextSerial(t, m) /\ u.cert[m].key \in u.keys
           /\ t.revoked[m] \subseteq u.revoked[m] /\ \A s \in u.revoked[m] : s < NextSerial(t, m)
           /\ \A e \in Everyone \ {m} : u.cert[e] = t.cert[e] /\ u.revoked[e] = t.revoked[e]
           /\ u.member = [t.member EXCEPT ![m] = role]
           /\ u.recovery = t.recovery /\ u.token = t.token
           /\ Rotates(a, m, role) => Version(u.chain) > Version(t.chain)
<1> DEFINE t == db[a]
           old == Revoke(t, m)
           v == [old EXCEPT !.member[m] = role]
           w == RotateIf(Rotates(a, m, role), v, a)
           u == Issue(w, m, role)
<1>0. RoleUpdated(a, m, role) = u /\ Version(t.chain) \in 0..MaxVersion /\ MaxVersion \in Nat
      BY VersionIsGreatest, BoundsOfMembership DEF RoleUpdated, Tables
<1>1. /\ old \in Tables /\ WellKeyed(old) /\ NextSerial(old, m) = NextSerial(t, m)
      /\ old.member = t.member /\ old.chain = t.chain /\ old.keys = t.keys /\ old.cert = t.cert
      /\ old.recovery = t.recovery /\ old.token = t.token
      /\ t.revoked[m] \subseteq old.revoked[m] /\ \A s \in old.revoked[m] : s < NextSerial(t, m)
      /\ \A e \in Everyone \ {m} : old.revoked[e] = t.revoked[e]
      BY RevokedTables
<1> HIDE DEF old
<1>2. /\ v \in Tables /\ v.chain = t.chain /\ v.keys = t.keys /\ v.cert = t.cert
      /\ v.member = [t.member EXCEPT ![m] = role] /\ v.revoked = old.revoked
      /\ v.recovery = t.recovery /\ v.token = t.token
      BY <1>1 DEF Tables
<1>3. WellKeyed(v) /\ CanSign(v) /\ NextSerial(v, m) = NextSerial(t, m)
      BY <1>1, <1>2 DEF WellKeyed, CanSign, NextSerial
<1> HIDE DEF v
<1>4. /\ w \in Tables /\ WellKeyed(w) /\ CanSign(w) /\ Extends(t, w)
      /\ w.cert = v.cert /\ w.member = v.member /\ w.revoked = v.revoked
      /\ w.recovery = v.recovery /\ w.token = v.token
      /\ Rotates(a, m, role) => Version(w.chain) > Version(t.chain)
  <2>1. CASE ~Rotates(a, m, role)
    <3>1. w = v
          BY <2>1 DEF RotateIf
    <3>2. QED  BY <1>0, <1>2, <1>3, <2>1, <3>1 DEF Extends
  <2>2. CASE Rotates(a, m, role)
    <3>1. w = Rotate(v, a)
          BY <2>2 DEF RotateIf
    <3>2. PICK next \in Keys : RotatedBy(v, Rotate(v, a), next)
          BY <1>0, <1>2, <1>3, RotateTables
    <3> HIDE DEF w
    <3>3. SigningKey(v) \in t.keys
          BY <1>2, <1>3, KeyThatSigns
    <3>4. /\ w.chain = t.chain \union {next} /\ w.keys = t.keys \union {next}
          /\ w.cert = v.cert /\ w.member = v.member /\ w.revoked = v.revoked
          /\ w.recovery = v.recovery /\ w.token = v.token
          BY <1>2, <3>1, <3>2 DEF RotatedBy
    <3>5. /\ w \in Tables /\ WellKeyed(w) /\ CanSign(w) /\ Front(next) = SigningKey(v)
          /\ Version(w.chain) = Version(t.chain) + 1
          BY <1>2, <3>1, <3>2 DEF RotatedBy
    <3>6. Extends(t, w)
          BY <1>0, <3>2, <3>3, <3>4, <3>5 DEF Extends
    <3>7. QED  BY <1>0, <3>4, <3>5, <3>6
  <2>3. QED  BY <2>1, <2>2
<1>5. NextSerial(w, m) = NextSerial(t, m) /\ NextSerial(t, m) <= MaxSerial
      BY <1>1, <1>2, <1>3, <1>4 DEF NextSerial, old
<1> HIDE DEF w
<1>6. /\ u \in Tables /\ WellKeyed(u) /\ IssuedAnew(w, u, m)
      /\ u.member = w.member /\ u.chain = w.chain /\ u.keys = w.keys
      /\ u.recovery = w.recovery /\ u.token = w.token
      BY <1>4, <1>5, IssueTables
<1> HIDE DEF u
<1>7. SigningKey(w) \in u.keys
      BY <1>4, <1>6, KeyThatSigns
<1>8. /\ Extends(t, u) /\ (Rotates(a, m, role) => Version(u.chain) > Version(t.chain))
      BY <1>4, <1>6 DEF Extends
<1>9. QED  BY <1>0, <1>1, <1>2, <1>4, <1>5, <1>6, <1>7, <1>8 DEF IssuedAnew

LEMMA RemovedTables ==
    ASSUME NEW a \in Everyone, NEW m \in Everyone, db[a] \in Tables, WellKeyed(db[a]),
           db[a].member[m] = "admin" => CanSign(db[a]) /\ Version(db[a].chain) < MaxVersion
    PROVE  LET t == db[a]  u == MemberRemoved(a, m) IN
           /\ u \in Tables /\ WellKeyed(u) /\ Extends(t, u)
           /\ u.cert = [t.cert EXCEPT ![m] = NoCert]
           /\ t.revoked[m] \subseteq u.revoked[m]
           /\ t.cert[m].serial > 0 => t.cert[m].serial \in u.revoked[m]
           /\ \A e \in Everyone \ {m} : u.revoked[e] = t.revoked[e]
           /\ u.member = [t.member EXCEPT ![m] = "none"]
           /\ u.recovery = [t.recovery EXCEPT ![m] = 0] /\ u.token = t.token
<1> DEFINE t == db[a]
           old == Revoke(t, m)
           v == [old EXCEPT !.cert[m] = NoCert, !.recovery[m] = 0, !.member[m] = "none"]
           u == RotateIf(t.member[m] = "admin", v, a)
<1>0. MemberRemoved(a, m) = u /\ Version(t.chain) \in 0..MaxVersion /\ MaxVersion \in Nat /\ 0 \in Serials
      BY VersionIsGreatest, BoundsOfMembership DEF MemberRemoved, Tables, Serials
<1>1. /\ old \in Tables /\ WellKeyed(old)
      /\ old.member = t.member /\ old.chain = t.chain /\ old.keys = t.keys /\ old.cert = t.cert
      /\ old.recovery = t.recovery /\ old.token = t.token
      /\ t.revoked[m] \subseteq old.revoked[m]
      /\ t.cert[m].serial > 0 => t.cert[m].serial \in old.revoked[m]
      /\ \A e \in Everyone \ {m} : old.revoked[e] = t.revoked[e]
      BY RevokedTables
<1> HIDE DEF old
<1>2. /\ v \in Tables /\ v.chain = t.chain /\ v.keys = t.keys /\ v.cert = [t.cert EXCEPT ![m] = NoCert]
      /\ v.member = [t.member EXCEPT ![m] = "none"] /\ v.revoked = old.revoked
      /\ v.recovery = [t.recovery EXCEPT ![m] = 0] /\ v.token = t.token
      BY <1>0, <1>1, KeysOfCerts DEF Tables
<1> HIDE DEF v
<1>3. WellKeyed(v) /\ (CanSign(t) => CanSign(v))
      BY <1>1, <1>2 DEF WellKeyed, CanSign
<1>4. /\ u \in Tables /\ WellKeyed(u) /\ Extends(t, u)
      /\ u.cert = v.cert /\ u.member = v.member /\ u.revoked = v.revoked
      /\ u.recovery = v.recovery /\ u.token = v.token
  <2>1. CASE t.member[m] # "admin"
    <3>1. u = v
          BY <2>1 DEF RotateIf
    <3>2. QED  BY <1>0, <1>2, <1>3, <3>1 DEF Extends
  <2>2. CASE t.member[m] = "admin"
    <3>1. u = Rotate(v, a) /\ CanSign(v) /\ Version(v.chain) < MaxVersion
          BY <1>2, <1>3, <2>2 DEF RotateIf
    <3>2. PICK next \in Keys : RotatedBy(v, Rotate(v, a), next)
          BY <1>0, <1>2, <1>3, <3>1, RotateTables
    <3> HIDE DEF u
    <3>3. SigningKey(v) \in t.keys
          BY <1>2, <1>3, <3>1, KeyThatSigns
    <3>4. /\ u.chain = t.chain \union {next} /\ u.keys = t.keys \union {next}
          /\ u.cert = v.cert /\ u.member = v.member /\ u.revoked = v.revoked
          /\ u.recovery = v.recovery /\ u.token = v.token
          BY <1>2, <3>1, <3>2 DEF RotatedBy
    <3>5. /\ u \in Tables /\ WellKeyed(u) /\ Front(next) = SigningKey(v)
          /\ Version(u.chain) = Version(t.chain) + 1
          BY <1>2, <3>1, <3>2 DEF RotatedBy
    <3>6. Extends(t, u)
          BY <1>0, <3>2, <3>3, <3>4, <3>5 DEF Extends
    <3>7. QED  BY <3>4, <3>5, <3>6
  <2>3. QED  BY <2>1, <2>2
<1>5. QED  BY <1>0, <1>1, <1>2, <1>4

LEMMA StoredTables ==
    ASSUME NEW t \in Tables, WellKeyed(t), NEW d \in Everyone, NEW cert \in Cert,
           NEW chain \in SUBSET Keys, OneKeyPerVersion(chain)
    PROVE  LET u == Stored(t, d, cert, chain) IN
           /\ u \in Tables /\ WellKeyed(u) /\ Version(t.chain) <= Version(u.chain)
           /\ u.chain = SaveChain(t.chain, chain) /\ u.keys = t.keys
           /\ u.cert = [t.cert EXCEPT ![d] = cert] /\ u.revoked = t.revoked
           /\ u.member = t.member /\ u.recovery = t.recovery /\ u.token = t.token
<1> DEFINE u == Stored(t, d, cert, chain)
<1>1. u = [t EXCEPT !.chain = SaveChain(@, chain), !.cert[d] = cert]
      BY DEF Stored
<1>2. /\ SaveChain(t.chain, chain) \in SUBSET Keys /\ Version(t.chain) <= Version(SaveChain(t.chain, chain))
      /\ OneKeyPerVersion(SaveChain(t.chain, chain))
      BY SavedChain DEF Tables, WellKeyed
<1> HIDE DEF u
<1>3. /\ u \in Tables /\ u.chain = SaveChain(t.chain, chain) /\ u.keys = t.keys
      /\ u.cert = [t.cert EXCEPT ![d] = cert] /\ u.revoked = t.revoked
      /\ u.member = t.member /\ u.recovery = t.recovery /\ u.token = t.token
      BY <1>1, <1>2 DEF Tables
<1>4. \A k \in u.keys : Len(k) <= Version(u.chain)
  <2>1. Version(t.chain) \in Nat /\ Version(u.chain) \in Nat
        BY <1>3, VersionIsGreatest, BoundsOfMembership DEF Tables
  <2>2. \A k \in t.keys : Len(k) <= Version(t.chain) /\ Len(k) \in Nat
        BY KeySequences DEF WellKeyed, Tables
  <2>3. QED  BY <1>2, <1>3, <2>1, <2>2
<1>5. QED  BY <1>2, <1>3, <1>4 DEF WellKeyed, u

-----------------------------------------------------------------------------
(* The inductive invariant.                                                 *)

Steps == {"idle", "ask", "grant", "auth", "checked", "due"}

Talks == [step : Steps, turn : Everyone, cert : Cert, chain : SUBSET Keys, keys : SUBSET Keys,
          token : Serials]

Offers == [cert : Cert, keys : SUBSET Keys, token : Serials, owner : Roles \union {"none"}]

Lists == [Members -> Serials]

HistoryType ==
  /\ issued \in [Everyone -> Serials] /\ crossed \subseteq Everyone /\ recast \subseteq Everyone
  /\ incidents \in 0..MaxIncidents /\ expired \subseteq Everyone \X Serials

RegistryType ==
  /\ reg \in [revoked : Lists, seen : Lists]
  /\ sync \in [read : SUBSET Lists, sent : Seq(Lists)]

TypeInv ==
  /\ db \in [Everyone -> Tables] /\ \A d \in Everyone : WellKeyed(db[d])
  /\ talk \in [Ways -> Talks]
  /\ \A c \in Ways : OneKeyPerVersion(talk[c].chain) /\ talk[c].turn \in {c[1], c[2]}
  /\ offer \in [Members -> Offers]
  /\ HistoryType /\ RegistryType

\* The authority as the founder knows it: it made every key itself.
Authority == db[Founder].chain

FounderInv ==
  /\ db[Founder].keys = Authority /\ Linked(Authority)
  /\ Authority = {} => \A m \in Members : db[Founder].member[m] = "none"

\* A certificate of d that the founder issued.
Signed(d, x) == x.serial > 0 => x.key \in Authority /\ x.serial <= issued[d]

\* The newest one issued to m, or one that a new authority has outdated.
Newest(m, x) == x.serial = issued[m] \/ Len(x.key) < Version(Authority)

Expected(m) == db[Founder].member[m] # "none" /\ m \notin crossed \union recast

InPlace(m) ==
  Expected(m) /\ db[m].member[m] # "none" /\ db[m].token = db[Founder].recovery[m]

Offered(m) == offer[m] # NoOffer

OwnOK(m) ==
  /\ Signed(m, db[m].cert[m]) /\ db[m].token <= issued[m]
  /\ InPlace(m) => Newest(m, db[m].cert[m]) \/ NeedsReissue(m)

\* Join material on its way is newer than all that its device has or asked with.
OfferOK(m) ==
  Offered(m) =>
    /\ Signed(m, offer[m].cert) /\ offer[m].token = offer[m].cert.serial /\ offer[m].token > 0
    /\ Expected(m) /\ offer[m].token = db[Founder].recovery[m] => Newest(m, offer[m].cert)
    /\ m \notin crossed => db[m].token < offer[m].token

\* What a conversation carries.
Fits(a) ==
  LET m == a.turn IN
  /\ Signed(m, a.cert) /\ a.token <= issued[m]
  /\ a.step \in {"ask", "grant"} => m \in Members
  /\ a.step = "ask" /\ m \notin crossed /\ Offered(m) => a.token < offer[m].token
  /\ a.step = "grant" =>
       /\ a.chain \subseteq Authority /\ a.cert.serial > 0
       /\ InPlace(m) => Newest(m, a.cert)
       /\ m \notin crossed /\ Offered(m) => offer[m].token # db[Founder].recovery[m]
  /\ a.step = "checked" =>
       a.cert.serial > 0 /\ ValidChain(a.chain) /\ a.cert.key = ChainHead(a.chain)

TalkOK(c) == Fits(talk[c])

\* What the founder holds for a member is what it issued last, and revoked is less.
CurrentOK(d) ==
  d \notin crossed /\ db[Founder].member[d] # "none" =>
    /\ db[Founder].cert[d].serial = issued[d] /\ issued[d] > 0
    /\ \A s \in db[Founder].revoked[d] : s < issued[d]

\* The registry knows nothing that the founder has not revoked or issued.
RegistryOK(d) ==
  /\ reg.seen[d] <= issued[d] /\ reg.revoked[d] <= Revocations[d]
  /\ \A rows \in sync.read : rows[d] <= Revocations[d]
  /\ \A i \in 1..Len(sync.sent) : sync.sent[i][d] <= Revocations[d]

SerialInv ==
  /\ \A d \in Everyone : Signed(d, db[Founder].cert[d])
  /\ \A d \in Everyone \ crossed : NextSerial(db[Founder], d) > issued[d]
  /\ \A d \in Members : CurrentOK(d) /\ RegistryOK(d)

ReachInv == (\A m \in Members : OwnOK(m) /\ OfferOK(m)) /\ \A c \in Ways : TalkOK(c)

MembershipInv == TypeInv /\ FounderInv /\ SerialInv /\ ReachInv

-----------------------------------------------------------------------------
(* The invariant implies the properties.                                    *)

LEMMA WayEnds ==
    ASSUME NEW c \in Ways
    PROVE  /\ c[1] \in Everyone /\ c[2] \in Everyone /\ c[1] # c[2]
           /\ \A x \in {c[1], c[2]} :
                /\ Other(c, x) \in {c[1], c[2]} /\ Other(c, x) # x
                /\ x = Founder \/ Other(c, x) = Founder
                /\ x # Founder => x \in Members
BY WaysOfFounder, FounderApart DEF Everyone, Other

LEMMA TablesOfAll ==
    ASSUME TypeInv, NEW d \in Everyone
    PROVE  /\ db[d] \in Tables /\ WellKeyed(db[d])
           /\ db[d].chain \in SUBSET Keys /\ db[d].keys \in SUBSET Keys
           /\ OneKeyPerVersion(db[d].chain)
           /\ db[d].token \in Serials
           /\ \A e \in Everyone : /\ db[d].cert[e] \in Cert /\ db[d].revoked[e] \in SUBSET (1..MaxSerial)
                                  /\ db[d].member[e] \in Roles \union {"none"}
                                  /\ db[d].recovery[e] \in Serials
BY DEF TypeInv, Tables, WellKeyed

LEMMA FounderIsOne == Founder \in Everyone /\ Members \subseteq Everyone
BY DEF Everyone

LEMMA RevocationIsGreatest ==
    ASSUME TypeInv, NEW d \in Members
    PROVE  /\ Revocations[d] \in Serials
           /\ Revocations[d] = 0 \/ Revocations[d] \in db[Founder].revoked[d]
           /\ \A s \in db[Founder].revoked[d] : s <= Revocations[d]
<1> DEFINE T == db[Founder].revoked[d] \union {0}
<1>1. T \in SUBSET (0..MaxSerial) /\ T # {} /\ MaxSerial \in Nat
      BY TablesOfAll, FounderIsOne, BoundsOfMembership
<1>2. Max(T) \in T /\ \A y \in T : y <= Max(T)
  <2> HIDE DEF T
  <2>1. QED  BY <1>1, MaxIsGreatest
<1>3. Revocations[d] = Max(T)
      BY DEF Revocations
<1>4. QED  BY <1>1, <1>2, <1>3 DEF Serials

LEMMA FounderCanSign ==
    ASSUME TypeInv, FounderInv
    PROVE  FounderSigns
<1> DEFINE C == db[Founder].chain
<1>1. SUFFICES ASSUME C # {}
               PROVE  ValidChain(C) /\ CanSign(db[Founder]) /\ SigningKey(db[Founder]) = ChainHead(C)
      BY DEF FounderSigns
<1>2. C \in SUBSET Keys /\ db[Founder].keys = C
      BY TablesOfAll, FounderIsOne DEF FounderInv, Authority
<1>3. ValidChain(C)
      BY <1>1 DEF ValidChain, FounderInv, Linked, Authority
<1>4. PICK k \in C : Len(k) = Version(C)
      BY <1>1, <1>2, VersionIsGreatest
<1>5. QED  BY <1>2, <1>3, <1>4 DEF CanSign, SigningKey, ChainHead

LEMMA CurrentIsUsable ==
    ASSUME TypeInv, SerialInv
    PROVE  CurrentUsable
<1>1. SUFFICES ASSUME NEW d \in Members \ crossed, db[Founder].member[d] # "none"
               PROVE  /\ db[Founder].cert[d].serial \notin db[Founder].revoked[d]
                      /\ db[Founder].cert[d].serial > reg.revoked[d]
                      /\ db[Founder].cert[d].serial >= reg.seen[d]
      BY DEF CurrentUsable
<1>2. /\ db[Founder].cert[d].serial = issued[d] /\ issued[d] > 0
      /\ \A s \in db[Founder].revoked[d] : s < issued[d]
      BY <1>1 DEF SerialInv, CurrentOK
<1>3. reg.seen[d] <= issued[d] /\ reg.revoked[d] <= Revocations[d]
      BY DEF SerialInv, RegistryOK
<1>4. /\ issued[d] \in Serials /\ reg.seen[d] \in Serials /\ reg.revoked[d] \in Serials
      /\ Revocations[d] \in Serials /\ Revocations[d] < issued[d]
      BY <1>2, RevocationIsGreatest, FounderIsOne DEF TypeInv, HistoryType, RegistryType, Lists
<1>5. QED  BY <1>2, <1>3, <1>4, BoundsOfMembership DEF Serials

\* Who holds the newest certificate and every key of the founder is admitted, since a chain
\* no newer than its certificate is then the founder's own.
LEMMA NewestIsAdmitted ==
    ASSUME MembershipInv, NEW m \in Members, InPlace(m), ~NeedsReissue(m),
           Authority \subseteq db[m].chain
    PROVE  Admitted(m)
<1> DEFINE own == db[m].cert[m]
           C == db[m].chain
           A == Authority
<1>1. own.serial > 0 /\ <<m, own.serial>> \notin expired /\ ~(Len(own.key) < Version(C))
  <2>1. own.serial \in Nat
        BY TablesOfAll, CertFields, FounderIsOne DEF MembershipInv
  <2>2. QED  BY <2>1 DEF NeedsReissue
<1>2. OwnOK(m) /\ own.key \in A
      BY <1>1 DEF MembershipInv, ReachInv, OwnOK, Signed
<1>3. /\ C \in SUBSET Keys /\ OneKeyPerVersion(C) /\ A \in SUBSET Keys /\ Linked(A)
      /\ Version(C) \in 0..MaxVersion /\ Version(A) \in 0..MaxVersion /\ MaxVersion \in Nat
      BY TablesOfAll, FounderIsOne, VersionIsGreatest, BoundsOfMembership
         DEF MembershipInv, FounderInv, Authority
<1>4. Len(own.key) \in 1..Version(A) /\ Len(own.key) \in 1..Version(C)
      BY <1>2, <1>3, VersionIsGreatest
<1>5. Len(own.key) = Version(C)
      BY <1>1, <1>3, <1>4
<1>6. Version(A) <= Version(C)
      BY <1>3, VersionGrows
<1>7. C \subseteq A
  <2>1. ASSUME NEW k \in C PROVE k \in A
    <3>1. Len(k) \in 1..Len(own.key)
          BY <1>3, <1>5, VersionIsGreatest
    <3>2. PICK j \in A : Len(j) = Len(k)
      <4> HIDE DEF own, A
      <4>1. QED  BY <1>2, <1>3, <3>1, VersionsBelow
    <3>3. j = k
          BY <1>3, <3>2 DEF OneKeyPerVersion
    <3>4. QED  BY <3>3
  <2>2. QED  BY <2>1
<1>8. C = A /\ Version(A) = Version(C)
      BY <1>7
<1>9. ValidChain(C) /\ own.key = ChainHead(C)
  <2>1. own.key \in C
        BY <1>2, <1>8
  <2>2. KeyAt(C, Len(own.key)) = own.key
        BY <1>3, <2>1, KeyOfVersion
  <2>3. QED  BY <1>3, <1>5, <1>8, <2>1, <2>2 DEF ChainHead, ValidChain, Linked
<1>10. own.serial = issued[m]
      BY <1>2, <1>3, <1>5, <1>8 DEF OwnOK, Newest
<1>11. /\ db[Founder].member[m] # "none" /\ db[Founder].cert[m].serial = issued[m]
       /\ issued[m] \in Nat /\ \A s \in db[Founder].revoked[m] : s < issued[m]
       BY FounderIsOne, BoundsOfMembership
          DEF InPlace, Expected, MembershipInv, SerialInv, CurrentOK, TypeInv, HistoryType, Serials
<1>12. Len(own.key) >= Version(A)
       BY <1>3, <1>5, <1>8
<1>13. own.serial >= db[Founder].cert[m].serial /\ own.serial \notin db[Founder].revoked[m]
       BY <1>10, <1>11
<1>14. QED  BY <1>1, <1>9, <1>11, <1>12, <1>13 DEF Admitted, Admits, ValidCert, Authority

LEMMA InvariantUsable == MembershipInv => CertificatesUsable
<1> SUFFICES ASSUME MembershipInv PROVE CertificatesUsable
    OBVIOUS
<1>1. MTypeOK
  <2>1. \A d \in Everyone :
          /\ db[d].member \in [Everyone -> Roles \union {"none"}]
          /\ OneKeyPerVersion(db[d].chain) /\ OneKeyPerVersion(db[d].keys)
          /\ \A e \in Everyone : db[d].cert[e] \in Cert /\ db[d].revoked[e] \subseteq 1..MaxSerial
        BY DEF MembershipInv, TypeInv, Tables, WellKeyed
  <2>2. \A c \in Ways : talk[c].step \in Steps /\ talk[c].turn \in Everyone
        BY DEF MembershipInv, TypeInv, Talks
  <2>3. \A d \in Members : reg.revoked[d] \in 0..MaxSerial /\ reg.seen[d] \in 0..MaxSerial
        BY DEF MembershipInv, TypeInv, RegistryType, Lists, Serials
  <2>4. QED  BY <2>1, <2>2, <2>3 DEF MTypeOK, MembershipInv, TypeInv, HistoryType, Steps
<1>2. SerialsGrow
      BY DEF MembershipInv, SerialInv, SerialsGrow
<1>3. FounderSigns /\ CurrentUsable
      BY FounderCanSign, CurrentIsUsable DEF MembershipInv
<1>4. LockoutNoticed
  <2>1. SUFFICES ASSUME NEW m \in Members, InTouch(m), ~NeedsReissue(m),
                        db[Founder].chain \subseteq db[m].chain
                 PROVE  Admitted(m)
        BY DEF LockoutNoticed
  <2>2. InPlace(m)
        BY <2>1 DEF InTouch, InPlace, Expected
  <2>3. QED  BY <2>1, <2>2, NewestIsAdmitted DEF Authority
<1>5. QED  BY <1>1, <1>2, <1>3, <1>4 DEF CertificatesUsable

LEMMA InvariantHoldsAtFirst == MembershipInit => MembershipInv
<1> SUFFICES ASSUME MembershipInit PROVE MembershipInv
    OBVIOUS
<1>1. NoCert \in Cert /\ 0 \in Serials /\ NoCert.serial = 0 /\ MaxIncidents \in Nat
      BY KeysOfCerts, BoundsOfMembership DEF Serials, NoCert
<1>2. NoTables \in Tables /\ WellKeyed(NoTables)
  <2>1. NoTables \in Tables
        BY <1>1 DEF NoTables, Tables, Empty
  <2>2. QED  BY <2>1 DEF NoTables, WellKeyed, OneKeyPerVersion
<1>3. /\ \A d \in Everyone : /\ db[d] \in Tables /\ WellKeyed(db[d])
                             /\ db[d].chain = {} /\ db[d].keys = {} /\ db[d].token = 0
                             /\ db[d].cert = Empty(NoCert) /\ db[d].revoked = Empty({})
      /\ \A m \in Members : db[Founder].member[m] = "none"
  <2> DEFINE t == [NoTables EXCEPT !.member[Founder] = "admin"]
  <2>1. t = [NoTables EXCEPT !.member = [NoTables.member EXCEPT ![Founder] = "admin"]]
        BY DEF NoTables
  <2>2. /\ t.chain = {} /\ t.keys = {} /\ t.token = 0 /\ t.cert = Empty(NoCert)
        /\ t.revoked = Empty({}) /\ t.member = [NoTables.member EXCEPT ![Founder] = "admin"]
    <3> HIDE DEF t
    <3>1. QED  BY <2>1 DEF NoTables
  <2>3. t \in Tables
    <3>1. "admin" \in Roles /\ NoTables.member \in [Everyone -> Roles \union {"none"}]
          BY <1>2, AdminAmongRoles DEF Tables
    <3> HIDE DEF t
    <3>2. QED  BY <1>2, <2>1, <3>1 DEF Tables
  <2>4. WellKeyed(t)
    <3> HIDE DEF t
    <3>1. QED  BY <2>2 DEF WellKeyed, OneKeyPerVersion
  <2>5. \A m \in Members : t.member[m] = "none"
    <3> HIDE DEF t
    <3>1. QED  BY <2>2, FounderApart DEF NoTables, Empty, Everyone
  <2>6. db = [d \in Everyone |-> IF d = Founder THEN t ELSE NoTables]
        BY DEF MembershipInit
  <2> HIDE DEF t
  <2>7. QED  BY <1>2, <2>2, <2>3, <2>4, <2>5, <2>6, FounderIsOne DEF NoTables
<1>4. \A c \in Ways : /\ talk[c] = Idle(c) /\ Idle(c) \in Talks /\ c[1] \in {c[1], c[2]}
      BY <1>1, WayEnds DEF MembershipInit, Idle, Talks, Steps
<1>5. \A m \in Members : offer[m] = NoOffer /\ NoOffer \in Offers
      BY <1>1 DEF MembershipInit, NoOffer, Offers
<1>6. HistoryType
      BY <1>1 DEF MembershipInit, HistoryType, Empty
<1>7. [m \in Members |-> 0] \in Lists
      BY <1>1 DEF Lists
<1>8. RegistryType /\ reg.revoked = [m \in Members |-> 0] /\ reg.seen = [m \in Members |-> 0]
      /\ sync.read = {} /\ sync.sent = <<>>
      BY <1>7 DEF MembershipInit, RegistryType
<1>9. TypeInv
  <2>1. talk \in [Ways -> Talks] /\ offer \in [Members -> Offers] /\ db \in [Everyone -> Tables]
        BY <1>3, <1>4, <1>5 DEF MembershipInit
  <2>2. \A c \in Ways : OneKeyPerVersion(talk[c].chain) /\ talk[c].turn \in {c[1], c[2]}
    <3>1. \A c \in Ways : talk[c].chain = {} /\ talk[c].turn = c[1]
      <4>1. \A c \in Ways : talk[c] = Idle(c)
            BY <1>4
      <4>2. \A c \in Ways : Idle(c).chain = {} /\ Idle(c).turn = c[1]
            BY DEF Idle
      <4>3. QED  BY <4>1, <4>2
    <3>2. QED  BY <3>1 DEF OneKeyPerVersion
  <2>3. QED  BY <1>3, <1>6, <1>8, <2>1, <2>2 DEF TypeInv
<1>10. FounderInv
       BY <1>3, FounderIsOne DEF FounderInv, Authority, Linked
<1>11. \A d, e \in Everyone : db[d].cert[e].serial = 0 /\ db[d].revoked[e] = {}
       BY <1>1, <1>3 DEF Empty
<1>12. SerialInv
  <2>1. \A d \in Everyone : NextSerial(db[Founder], d) \in Nat /\ NextSerial(db[Founder], d) > 0
        BY <1>3, NextSerialIsNew, FounderIsOne, BoundsOfMembership
  <2>2. \A d \in Everyone : issued[d] = 0
        BY DEF MembershipInit, Empty
  <2>3. \A d \in Members : CurrentOK(d)
        BY <1>3 DEF CurrentOK
  <2>4. \A d \in Members : RegistryOK(d)
    <3>1. SUFFICES ASSUME NEW d \in Members PROVE RegistryOK(d)
          OBVIOUS
    <3>2. Revocations[d] \in Serials
          BY <1>9, RevocationIsGreatest
    <3>3. 0 <= Revocations[d] /\ issued[d] = 0 /\ Len(sync.sent) = 0
          BY <1>8, <2>2, <3>2, FounderIsOne, BoundsOfMembership DEF Serials
    <3>4. QED  BY <1>8, <3>3 DEF RegistryOK
  <2>5. QED  BY <1>11, <2>1, <2>2, <2>3, <2>4, FounderIsOne DEF SerialInv, Signed
<1>13. ReachInv
  <2>1. \A m \in Members : OwnOK(m)
    <3>1. SUFFICES ASSUME NEW m \in Members PROVE OwnOK(m)
          OBVIOUS
    <3>2. /\ db[m].cert[m].serial = 0 /\ db[m].token = 0 /\ issued[m] = 0
          /\ db[Founder].member[m] = "none"
      <4>1. db[m].cert[m].serial = 0 /\ db[m].token = 0 /\ db[Founder].member[m] = "none"
            BY <1>3, <1>11, FounderIsOne
      <4>2. issued = [d \in Everyone |-> 0]
            BY DEF MembershipInit, Empty
      <4>3. QED  BY <4>1, <4>2, FounderIsOne
    <3>3. QED  BY <3>2 DEF OwnOK, Signed, InPlace, Expected
  <2>2. \A m \in Members : OfferOK(m)
        BY <1>5 DEF OfferOK, Offered
  <2>3. \A c \in Ways : TalkOK(c)
    <3>1. SUFFICES ASSUME NEW c \in Ways PROVE TalkOK(c)
          OBVIOUS
    <3>2. talk[c].step = "idle" /\ talk[c].cert.serial = 0 /\ talk[c].token = 0 /\ issued[talk[c].turn] = 0
          BY <1>1, <1>4, WayEnds DEF Idle, MembershipInit, Empty
    <3>3. QED  BY <3>2 DEF TalkOK, Fits, Signed
  <2>4. QED  BY <2>1, <2>2, <2>3 DEF ReachInv
<1>14. QED  BY <1>9, <1>10, <1>12, <1>13 DEF MembershipInv

-----------------------------------------------------------------------------
(* What a step keeps that does not touch it.                                *)

\* The founder's chain, the certificates issued and what is noted only grow.
Grows ==
  /\ Authority \subseteq Authority' /\ Version(Authority) <= Version(Authority')
  /\ \A d \in Everyone : issued[d] <= issued'[d]
  /\ expired \subseteq expired' /\ crossed \subseteq crossed'

\* The founder makes a new authority, or changes nothing about m that m cannot tell.
FounderKeeps(m) ==
  /\ \/ Version(Authority) < Version(Authority')
     \/ Expected(m)' => /\ Expected(m) /\ issued'[m] = issued[m]
                        /\ db'[Founder].recovery[m] = db[Founder].recovery[m]
  /\ db'[Founder].recovery[m] \in {db[Founder].recovery[m], 0}

MemberStands(m) ==
  db'[m].token = db[m].token /\ db'[m].member[m] \in {db[m].member[m], "none"}

MemberKeeps(m) ==
  /\ MemberStands(m) /\ db'[m].cert[m] = db[m].cert[m]
  /\ Version(db[m].chain) <= Version(db'[m].chain)

Numbered ==
  /\ Authority \in SUBSET Keys /\ Version(Authority) \in Nat
  /\ \A k \in Authority : Len(k) \in Nat /\ Len(k) <= Version(Authority)
  /\ \A d \in Everyone : Version(db[d].chain) \in Nat

LEMMA Versions == TypeInv => Numbered
<1> SUFFICES ASSUME TypeInv PROVE Numbered
    OBVIOUS
<1>1. \A d \in Everyone : db[d].chain \in SUBSET Keys
      BY TablesOfAll
<1>2. \A d \in Everyone : Version(db[d].chain) \in 0..MaxVersion
      BY <1>1, VersionIsGreatest
<1>3. Authority \in SUBSET Keys /\ Version(Authority) \in Nat
      BY <1>1, <1>2, FounderIsOne, BoundsOfMembership DEF Authority
<1>4. \A k \in Authority : Len(k) \in 1..Version(Authority)
      BY <1>3, VersionIsGreatest
<1>5. QED  BY <1>2, <1>3, <1>4, BoundsOfMembership DEF Numbered

LEMMA VersionsThen == TypeInv' => Numbered'
BY Versions, PTL

LEMMA SignedStays ==
    ASSUME TypeInv, TypeInv', Grows, NEW d \in Everyone, NEW x \in Cert, Signed(d, x)
    PROVE  x.serial > 0 => x.key \in Authority' /\ x.serial <= issued'[d]
<1>1. issued[d] \in Nat /\ issued'[d] \in Nat /\ x.serial \in Nat
      BY CertFields, BoundsOfMembership DEF TypeInv, HistoryType, Serials
<1>2. QED  BY <1>1 DEF Grows, Signed

\* A certificate that was the newest, or was signed before a new authority, remains so.
LEMMA NewestStays ==
    ASSUME TypeInv, TypeInv', Grows, NEW m \in Members, NEW x \in Cert, Signed(m, x), x.serial > 0,
           \/ Version(Authority) < Version(Authority')
           \/ issued'[m] = issued[m] /\ Newest(m, x)
    PROVE  x.serial = issued'[m] \/ Len(x.key) < Version(Authority')
<1>1. Version(Authority) \in Nat /\ Version(Authority') \in Nat /\ Version(Authority) <= Version(Authority')
      BY Versions, VersionsThen DEF Numbered, Grows
<1>2. x.key \in Authority /\ Len(x.key) \in Nat /\ Len(x.key) <= Version(Authority)
      BY Versions DEF Numbered, Signed
<1>3. QED  BY <1>1, <1>2 DEF Newest

LEMMA OwnKept ==
    ASSUME MembershipInv, TypeInv', Grows, NEW m \in Members, FounderKeeps(m), MemberKeeps(m)
    PROVE  OwnOK(m)'
<1> DEFINE x == db[m].cert[m]
<1>1. /\ TypeInv /\ m \in Everyone /\ x \in Cert /\ db[m].token \in Nat
      /\ issued[m] \in Nat /\ issued'[m] \in Nat /\ issued[m] <= issued'[m]
      BY TablesOfAll, FounderIsOne, BoundsOfMembership
         DEF MembershipInv, TypeInv, HistoryType, Serials, Grows
<1>2. /\ Signed(m, x) /\ db[m].token <= issued[m] /\ (InPlace(m) => Newest(m, x) \/ NeedsReissue(m))
      BY DEF MembershipInv, ReachInv, OwnOK
<1>3. x.serial > 0 => x.key \in Authority' /\ x.serial <= issued'[m]
  <2> HIDE DEF x
  <2>1. QED  BY <1>1, <1>2, SignedStays
<1>4. ASSUME InPlace(m)'
      PROVE  (x.serial = issued'[m] \/ Len(x.key) < Version(Authority')) \/ NeedsReissue(m)'
  <2>1. CASE x.serial = 0
        BY <2>1 DEF NeedsReissue, MemberKeeps, MemberStands
  <2>2. CASE x.serial # 0 /\ Version(Authority) < Version(Authority')
    <3>1. x.serial > 0
          BY <1>1, <2>2, CertFields
    <3> HIDE DEF x
    <3>2. QED  BY <1>1, <1>2, <2>2, <3>1, NewestStays
  <2>3. CASE x.serial # 0 /\ ~(Version(Authority) < Version(Authority'))
    <3>1. Expected(m) /\ issued'[m] = issued[m] /\ db'[Founder].recovery[m] = db[Founder].recovery[m]
          BY <1>4, <2>3 DEF FounderKeeps, InPlace
    <3>2. InPlace(m) /\ db'[m].member[m] = db[m].member[m]
          BY <1>4, <3>1 DEF InPlace, MemberKeeps, MemberStands
    <3>3. CASE Newest(m, x)
      <4>1. x.serial > 0
            BY <1>1, <2>3, CertFields
      <4> HIDE DEF x
      <4>2. QED  BY <1>1, <1>2, <3>1, <3>3, <4>1, NewestStays
    <3>4. CASE NeedsReissue(m)
      <4>1. CASE Len(x.key) < Version(db[m].chain)
        <5>1. x.key \in Authority /\ Len(x.key) \in Nat
              BY <1>1, <1>2, <2>3, CertFields, Versions DEF Numbered, Signed
        <5>2. Version(db[m].chain) \in Nat /\ Version(db'[m].chain) \in Nat
              BY <1>1, Versions, VersionsThen DEF Numbered
        <5>3. Len(x.key) < Version(db'[m].chain)
              BY <4>1, <5>1, <5>2 DEF MemberKeeps, MemberStands
        <5>4. QED  BY <5>3 DEF NeedsReissue, MemberKeeps, MemberStands
      <4>2. QED  BY <3>2, <3>4, <4>1 DEF NeedsReissue, MemberKeeps, Grows
    <3>5. QED  BY <1>2, <3>2, <3>3, <3>4
  <2>4. QED  BY <2>1, <2>2, <2>3
<1>5. db'[m].token <= issued'[m]
      BY <1>1, <1>2 DEF MemberKeeps, MemberStands
<1>6. db'[m].cert[m] = x
      BY DEF MemberKeeps, MemberStands
<1>7. QED  BY <1>3, <1>4, <1>5, <1>6 DEF OwnOK, Signed, Newest

LEMMA OfferKept ==
    ASSUME MembershipInv, TypeInv', Grows, NEW m \in Members, FounderKeeps(m),
           db'[m].token = db[m].token, offer'[m] \in {offer[m], NoOffer}
    PROVE  OfferOK(m)'
<1> DEFINE o == offer[m]
<1>1. SUFFICES ASSUME offer'[m] = o, o # NoOffer PROVE OfferOK(m)'
      BY DEF OfferOK, Offered
<1>2. /\ TypeInv /\ m \in Everyone /\ o.cert \in Cert /\ o.token \in Serials
      /\ crossed \subseteq crossed'
      BY FounderIsOne DEF MembershipInv, TypeInv, Offers, Grows
<1>3. /\ Signed(m, o.cert) /\ o.token = o.cert.serial /\ o.token > 0
      /\ (Expected(m) /\ o.token = db[Founder].recovery[m] => Newest(m, o.cert))
      /\ (m \notin crossed => db[m].token < o.token)
      BY <1>1 DEF MembershipInv, ReachInv, OfferOK, Offered
<1>4. o.cert.serial > 0 => o.cert.key \in Authority' /\ o.cert.serial <= issued'[m]
      BY <1>2, <1>3, SignedStays
<1>5. ASSUME Expected(m)', o.token = db'[Founder].recovery[m]
      PROVE  o.cert.serial = issued'[m] \/ Len(o.cert.key) < Version(Authority')
  <2>1. \/ Version(Authority) < Version(Authority')
        \/ issued'[m] = issued[m] /\ Newest(m, o.cert)
        BY <1>3, <1>5 DEF FounderKeeps
  <2>2. QED  BY <1>2, <1>3, <2>1, NewestStays
<1>6. QED  BY <1>1, <1>2, <1>3, <1>4, <1>5 DEF OfferOK, Signed, Newest

LEMMA TalkKept ==
    ASSUME MembershipInv, TypeInv', Grows, NEW c \in Ways, talk'[c] = talk[c],
           talk[c].turn \in Members =>
             /\ FounderKeeps(talk[c].turn) /\ MemberStands(talk[c].turn)
             /\ offer'[talk[c].turn] \in {offer[talk[c].turn], NoOffer}
    PROVE  TalkOK(c)'
<1> DEFINE a == talk[c]
           m == talk[c].turn
<1>1. /\ TypeInv /\ m \in Everyone /\ a.cert \in Cert /\ a.token \in Nat
      /\ issued[m] \in Nat /\ issued'[m] \in Nat /\ issued[m] <= issued'[m]
      /\ crossed \subseteq crossed' /\ Authority \subseteq Authority'
      BY BoundsOfMembership DEF MembershipInv, TypeInv, HistoryType, Serials, Talks, Grows
<1>2. TalkOK(c)
      BY DEF MembershipInv, ReachInv
<1>3. Signed(m, a.cert) /\ a.token <= issued[m]
      BY <1>2 DEF TalkOK, Fits
<1>4. a.cert.serial > 0 => a.cert.key \in Authority' /\ a.cert.serial <= issued'[m]
  <2> HIDE DEF m, a
  <2>1. QED  BY <1>1, <1>3, SignedStays
<1>5. a.step = "grant" =>
        /\ a.chain \subseteq Authority' /\ a.cert.serial > 0
        /\ InPlace(m)' => a.cert.serial = issued'[m] \/ Len(a.cert.key) < Version(Authority')
        /\ m \notin crossed' /\ offer'[m] # NoOffer => offer'[m].token # db'[Founder].recovery[m]
  <2>1. SUFFICES ASSUME a.step = "grant"
                 PROVE  /\ a.chain \subseteq Authority' /\ a.cert.serial > 0
                        /\ InPlace(m)' => a.cert.serial = issued'[m] \/ Len(a.cert.key) < Version(Authority')
                        /\ m \notin crossed' /\ offer'[m] # NoOffer => offer'[m].token # db'[Founder].recovery[m]
        OBVIOUS
  <2>2. /\ m \in Members /\ a.chain \subseteq Authority /\ a.cert.serial > 0
        /\ (InPlace(m) => Newest(m, a.cert))
        /\ (m \notin crossed /\ Offered(m) => offer[m].token # db[Founder].recovery[m])
        BY <1>2, <2>1 DEF TalkOK, Fits
  <2>3. FounderKeeps(m) /\ MemberStands(m) /\ offer'[m] \in {offer[m], NoOffer}
        BY <2>2
  <2>4. ASSUME InPlace(m)'
        PROVE  a.cert.serial = issued'[m] \/ Len(a.cert.key) < Version(Authority')
    <3>1. \/ Version(Authority) < Version(Authority')
          \/ issued'[m] = issued[m] /\ Newest(m, a.cert)
          BY <2>2, <2>3, <2>4 DEF FounderKeeps, MemberStands, InPlace
    <3> HIDE DEF m, a
    <3>2. QED  BY <1>1, <1>3, <2>2, <3>1, NewestStays
  <2>5. ASSUME m \notin crossed', offer'[m] # NoOffer
        PROVE  offer'[m].token # db'[Founder].recovery[m]
    <3>1. offer'[m] = offer[m] /\ Offered(m) /\ m \notin crossed
          BY <1>1, <2>3, <2>5 DEF Offered
    <3>2. offer[m].token # db[Founder].recovery[m] /\ offer[m].token > 0
          BY <2>2, <3>1 DEF MembershipInv, ReachInv, OfferOK
    <3>3. offer[m].token # 0
          BY <3>2
    <3>4. QED  BY <2>3, <3>1, <3>2, <3>3 DEF FounderKeeps
  <2>6. QED  BY <1>1, <2>2, <2>4, <2>5
<1>6. a.step = "ask" /\ m \notin crossed' /\ offer'[m] # NoOffer => a.token < offer'[m].token
      BY <1>1, <1>2 DEF TalkOK, Fits, Offered
<1>7. a.token <= issued'[m]
      BY <1>1, <1>3
<1>8. QED  BY <1>2, <1>4, <1>5, <1>6, <1>7 DEF TalkOK, Fits, Signed, Newest, Offered

\* Nothing changes in the tables of the founder.
LEMMA FounderKept ==
    ASSUME MembershipInv, TypeInv', db'[Founder] = db[Founder], issued' = issued,
           crossed \subseteq crossed', expired \subseteq expired'
    PROVE  /\ FounderInv' /\ Grows
           /\ reg' = reg /\ sync' = sync => SerialInv'
           /\ \A m \in Members : recast \subseteq recast' => FounderKeeps(m)
<1>1. FounderInv' /\ Authority' = Authority
      BY DEF MembershipInv, FounderInv, Authority
<1>2. Grows
      BY <1>1, Versions, BoundsOfMembership DEF Numbered, MembershipInv, TypeInv, HistoryType, Grows, Serials
<1>3. Revocations' = Revocations
      BY DEF Revocations
<1>4. ASSUME reg' = reg, sync' = sync PROVE SerialInv'
  <2>1. \A d \in Members : CurrentOK(d)' /\ RegistryOK(d)'
        BY <1>3, <1>4 DEF MembershipInv, SerialInv, CurrentOK, RegistryOK
  <2>2. \A d \in Everyone : Signed(d, db[Founder].cert[d])'
        BY <1>1 DEF MembershipInv, SerialInv, Signed
  <2>3. \A d \in Everyone \ crossed' : NextSerial(db'[Founder], d) > issued'[d]
        BY DEF MembershipInv, SerialInv
  <2>4. QED  BY <2>1, <2>2, <2>3 DEF SerialInv, NextSerial
<1>5. ASSUME NEW m \in Members, recast \subseteq recast' PROVE FounderKeeps(m)
      BY <1>5 DEF FounderKeeps, Expected
<1>6. QED  BY <1>1, <1>2, <1>4, <1>5

-----------------------------------------------------------------------------
(* Conversations in which no table changes.                                 *)

TalkTyped(c, x) == x \in Talks /\ OneKeyPerVersion(x.chain) /\ x.turn \in {c[1], c[2]}

LEMMA IncidentsCounted ==
    ASSUME TypeInv, Incident \/ incidents' = incidents
    PROVE  incidents' \in 0..MaxIncidents
BY BoundsOfMembership DEF TypeInv, HistoryType, Incident

\* Updates of the record of a conversation, written out.
LEMMA StepSet ==
    ASSUME NEW a \in Talks, NEW s \in Steps
    PROVE  [a EXCEPT !.step = s] = [step |-> s, turn |-> a.turn, cert |-> a.cert, chain |-> a.chain,
                                    keys |-> a.keys, token |-> a.token]
BY DEF Talks

LEMMA StepAndTurnSet ==
    ASSUME NEW a \in Talks, NEW s \in Steps, NEW y \in Everyone
    PROVE  [a EXCEPT !.step = s, !.turn = y] =
             [step |-> s, turn |-> y, cert |-> a.cert, chain |-> a.chain, keys |-> a.keys, token |-> a.token]
<1>1. PICK b : b = [a EXCEPT !.step = s]
      OBVIOUS
<1>2. b = [step |-> s, turn |-> a.turn, cert |-> a.cert, chain |-> a.chain, keys |-> a.keys, token |-> a.token]
      BY <1>1, StepSet
<1>3. b \in Talks
      BY <1>2 DEF Talks
<1>4. [b EXCEPT !.turn = y] =
        [step |-> s, turn |-> y, cert |-> a.cert, chain |-> a.chain, keys |-> a.keys, token |-> a.token]
      BY <1>2, <1>3 DEF Talks
<1>5. QED  BY <1>1, <1>4

LEMMA StepAndTokenSet ==
    ASSUME NEW a \in Talks, NEW s \in Steps, NEW n \in Serials
    PROVE  [a EXCEPT !.step = s, !.token = n] =
             [step |-> s, turn |-> a.turn, cert |-> a.cert, chain |-> a.chain, keys |-> a.keys, token |-> n]
<1>1. PICK b : b = [a EXCEPT !.step = s]
      OBVIOUS
<1>2. b = [step |-> s, turn |-> a.turn, cert |-> a.cert, chain |-> a.chain, keys |-> a.keys, token |-> a.token]
      BY <1>1, StepSet
<1>3. b \in Talks
      BY <1>2 DEF Talks
<1>4. [b EXCEPT !.token = n] =
        [step |-> s, turn |-> a.turn, cert |-> a.cert, chain |-> a.chain, keys |-> a.keys, token |-> n]
      BY <1>2, <1>3 DEF Talks
<1>5. QED  BY <1>1, <1>4

LEMMA IdleFits ==
    ASSUME TypeInv, NEW c \in Ways
    PROVE  TalkTyped(c, Idle(c)) /\ Fits(Idle(c)) /\ Idle(c) \in Talks
<1>1. c[1] \in Everyone /\ 0 \in Serials /\ NoCert \in Cert /\ NoCert.serial = 0
      BY WayEnds, KeysOfCerts, BoundsOfMembership DEF Serials, NoCert
<1>2. 0 <= issued[c[1]]
      BY <1>1, BoundsOfMembership DEF TypeInv, HistoryType, Serials
<1>3. /\ Idle(c).step = "idle" /\ Idle(c).turn = c[1] /\ Idle(c).cert = NoCert
      /\ Idle(c).chain = {} /\ Idle(c).token = 0 /\ Idle(c) \in Talks
      BY <1>1 DEF Idle, Talks, Steps
<1>4. TalkTyped(c, Idle(c))
      BY <1>1, <1>3 DEF TalkTyped, OneKeyPerVersion
<1>5. Fits(Idle(c))
      BY <1>1, <1>2, <1>3 DEF Fits, Signed
<1>6. QED  BY <1>3, <1>4, <1>5

\* Nothing is said in a conversation that has not begun or is the receiver's turn.
Silent(x) == x.step \in {"idle", "due"} /\ x.cert = NoCert /\ x.token = 0

LEMMA DueIsSilent ==
    ASSUME TypeInv, NEW c \in Ways, NEW y \in {c[1], c[2]}
    PROVE  /\ TalkTyped(c, [Idle(c) EXCEPT !.step = "due", !.turn = y])
           /\ Silent([Idle(c) EXCEPT !.step = "due", !.turn = y])
<1>1. y \in Everyone /\ Idle(c) \in Talks
      BY WayEnds, IdleFits
<1>2. PICK z : z = [Idle(c) EXCEPT !.step = "due", !.turn = y]
      OBVIOUS
<1>3. z = [step |-> "due", turn |-> y, cert |-> Idle(c).cert, chain |-> Idle(c).chain, keys |-> Idle(c).keys,
           token |-> Idle(c).token]
      BY <1>1, <1>2, StepAndTurnSet DEF Steps
<1>4. Idle(c).cert = NoCert /\ Idle(c).chain = {} /\ Idle(c).token = 0
      BY DEF Idle
<1>5. z \in Talks /\ z.step = "due" /\ z.turn = y /\ z.cert = NoCert /\ z.chain = {} /\ z.token = 0
      BY <1>1, <1>3, <1>4 DEF Talks, Steps
<1>6. TalkTyped(c, z) /\ Silent(z)
      BY <1>5 DEF TalkTyped, OneKeyPerVersion, Silent
<1>7. QED  BY <1>2, <1>6

LEMMA IdleIsSilent ==
    ASSUME NEW c \in Ways
    PROVE  Silent(Idle(c))
BY DEF Idle, Silent

LEMMA SilentFits ==
    ASSUME TypeInv', NEW c \in Ways, Silent(talk'[c])
    PROVE  TalkOK(c)'
<1>1. talk'[c].turn \in Everyone /\ issued'[talk'[c].turn] \in Serials
      BY DEF TypeInv, HistoryType, Talks
<1>2. 0 <= issued'[talk'[c].turn] /\ NoCert.serial = 0
      BY <1>1, BoundsOfMembership DEF Serials, NoCert
<1>3. /\ talk'[c].step \in {"idle", "due"} /\ talk'[c].cert.serial = 0
      /\ talk'[c].token <= issued'[talk'[c].turn]
      BY <1>2 DEF Silent
<1>4. QED  BY <1>3 DEF TalkOK, Fits, Signed

LEMMA TalkSet ==
    ASSUME TypeInv, NEW c \in Ways, NEW x, TalkTyped(c, x), talk' = [talk EXCEPT ![c] = x]
    PROVE  /\ talk' \in [Ways -> Talks] /\ talk'[c] = x
           /\ \A w \in Ways : OneKeyPerVersion(talk'[w].chain) /\ talk'[w].turn \in {w[1], w[2]}
           /\ \A w \in Ways \ {c} : talk'[w] = talk[w]
BY DEF TypeInv, TalkTyped

LEMMA OnlyTalk ==
    ASSUME MembershipInv, NEW c \in Ways, NEW x, TalkTyped(c, x), Fits(x),
           talk' = [talk EXCEPT ![c] = x], Incident \/ incidents' = incidents,
           UNCHANGED <<db, offer, expired, reg, sync, issued, crossed, recast>>
    PROVE  MembershipInv'
<1>1. TypeInv /\ incidents' \in 0..MaxIncidents
      BY IncidentsCounted DEF MembershipInv
<1>2. /\ talk' \in [Ways -> Talks] /\ talk'[c] = x
      /\ \A w \in Ways : OneKeyPerVersion(talk'[w].chain) /\ talk'[w].turn \in {w[1], w[2]}
      /\ \A w \in Ways \ {c} : talk'[w] = talk[w]
      BY <1>1, TalkSet
<1>3. TypeInv'
      BY <1>1, <1>2 DEF TypeInv, HistoryType, RegistryType
<1>4. FounderInv' /\ SerialInv'
      BY <1>3, FounderKept
<1>5. \A m \in Members : OwnOK(m)' /\ OfferOK(m)'
      BY DEF MembershipInv, ReachInv, OwnOK, OfferOK, Signed, InPlace, Expected, Newest, NeedsReissue,
             Authority, Offered
<1>6. \A w \in Ways : TalkOK(w)'
  <2>1. Fits(x)'
        BY DEF Fits, Signed, InPlace, Expected, Newest, Authority, Offered
  <2>2. TalkOK(c)'
    <3>1. TalkOK(c)' <=> Fits(talk[c])'
          BY DEF TalkOK
    <3>2. QED  BY <1>2, <2>1, <3>1 DEF Fits, Signed, InPlace, Expected, Newest, Authority, Offered
  <2>3. ASSUME NEW w \in Ways \ {c} PROVE TalkOK(w)'
    <3>1. Fits(talk[w])
          BY DEF MembershipInv, ReachInv, TalkOK
    <3>2. QED  BY <1>2, <3>1 DEF TalkOK, Fits, Signed, InPlace, Expected, Newest, Authority, Offered
  <2>4. QED  BY <2>2, <2>3
<1>7. QED  BY <1>3, <1>4, <1>5, <1>6 DEF MembershipInv, ReachInv

LEMMA OwnSigned ==
    ASSUME MembershipInv, NEW d \in Everyone
    PROVE  Signed(d, db[d].cert[d])
BY DEF MembershipInv, SerialInv, ReachInv, OwnOK, Everyone

LEMMA SaysFits ==
    ASSUME MembershipInv, NEW c \in Ways
    PROVE  TalkTyped(c, Says(c, db[Speaker(c)])) /\ Fits(Says(c, db[Speaker(c)]))
<1> DEFINE d == Speaker(c)
           x == Says(c, db[d])
<1>1. TypeInv /\ d \in Everyone /\ d \in {c[1], c[2]} /\ 0 \in Serials /\ issued[d] \in Nat
      BY WayEnds, BoundsOfMembership DEF MembershipInv, TypeInv, Talks, Speaker, HistoryType, Serials
<1>2. /\ db[d].cert[d] \in Cert /\ db[d].chain \in SUBSET Keys /\ OneKeyPerVersion(db[d].chain)
      /\ Signed(d, db[d].cert[d])
      BY <1>1, TablesOfAll, OwnSigned
<1>3. x = [step |-> "auth", turn |-> d, cert |-> db[d].cert[d], chain |-> db[d].chain,
           keys |-> {}, token |-> 0]
      BY DEF Says
<1> HIDE DEF x, d
<1>4. QED  BY <1>1, <1>2, <1>3 DEF TalkTyped, Talks, Steps, Fits, x, d

LEMMA SpeakStep ==
    ASSUME MembershipInv, NEW c \in Ways, Speak(c)
    PROVE  MembershipInv'
BY SaysFits, OnlyTalk DEF Speak

LEMMA QuietTurns ==
    ASSUME MembershipInv, NEW c \in Ways, RefuseRefresh(c) \/ TurnAway(c) \/ Lose(c)
    PROVE  MembershipInv'
<1>1. TalkTyped(c, Idle(c)) /\ Fits(Idle(c))
      BY IdleFits DEF MembershipInv
<1>2. QED  BY <1>1, OnlyTalk DEF RefuseRefresh, TurnAway, Lose

LEMMA TalkOfWay ==
    ASSUME MembershipInv, NEW c \in Ways
    PROVE  TalkTyped(c, talk[c]) /\ Fits(talk[c])
BY DEF MembershipInv, TypeInv, ReachInv, TalkOK, TalkTyped

LEMMA AskStep ==
    ASSUME MembershipInv, NEW c \in Ways, AskRefresh(c)
    PROVE  MembershipInv'
<1> DEFINE a == talk[c]
           m == talk[c].turn
           x == [step |-> "ask", turn |-> m, cert |-> a.cert, chain |-> a.chain, keys |-> a.keys,
                 token |-> db[m].token]
<1>1. TalkTyped(c, a) /\ Fits(a)
      BY TalkOfWay
<1>2. m \in Members /\ m \in Everyone
      BY <1>1, WayEnds DEF AskRefresh, Speaker, TalkTyped, Everyone
<1>3. db[m].token \in Serials /\ OwnOK(m) /\ OfferOK(m)
      BY <1>2, TablesOfAll DEF MembershipInv, ReachInv
<1>4. talk' = [talk EXCEPT ![c] = x]
  <2>1. PICK y : y = [a EXCEPT !.step = "ask", !.token = db[m].token]
        OBVIOUS
  <2>2. y = x
        BY <1>1, <1>3, <2>1, StepAndTokenSet DEF TalkTyped, Steps
  <2>3. talk' = [talk EXCEPT ![c] = y]
        BY <2>1 DEF AskRefresh, Speaker, MembershipInv, TypeInv
  <2>4. QED  BY <2>2, <2>3
<1> HIDE DEF x
<1>5. TalkTyped(c, x)
      BY <1>1, <1>3 DEF TalkTyped, Talks, Steps, x
<1>6. Fits(x)
      BY <1>1, <1>2, <1>3 DEF Fits, OwnOK, OfferOK, x
<1>7. QED  BY <1>4, <1>5, <1>6, OnlyTalk DEF AskRefresh

LEMMA CheckStep ==
    ASSUME MembershipInv, NEW c \in Ways, Check(c)
    PROVE  MembershipInv'
<1> DEFINE a == talk[c]
           x == [step |-> "checked", turn |-> a.turn, cert |-> a.cert, chain |-> a.chain, keys |-> a.keys,
                 token |-> a.token]
<1>1. TalkTyped(c, a) /\ Fits(a)
      BY TalkOfWay
<1>2. talk' = [talk EXCEPT ![c] = x]
  <2>1. PICK y : y = [a EXCEPT !.step = "checked"]
        OBVIOUS
  <2>2. y = x
        BY <1>1, <2>1, StepSet DEF TalkTyped, Steps
  <2>3. talk' = [talk EXCEPT ![c] = y]
        BY <2>1 DEF Check
  <2>4. QED  BY <2>2, <2>3
<1>3. a.cert.serial > 0 /\ ValidChain(a.chain) /\ a.cert.key = ChainHead(a.chain)
      BY DEF Check, Admits, ValidCert
<1> HIDE DEF x
<1>4. TalkTyped(c, x)
      BY <1>1 DEF TalkTyped, Talks, Steps, x
<1>5. Fits(x)
      BY <1>1, <1>3 DEF Fits, x
<1>6. QED  BY <1>2, <1>4, <1>5, OnlyTalk DEF Check

-----------------------------------------------------------------------------
(* Changes at one member.                                                   *)

\* The step is about x: what is said of the other members is kept.
LEMMA OthersKept ==
    ASSUME MembershipInv, TypeInv', FounderInv', SerialInv', Grows, NEW x \in Everyone,
           x \in Members => OwnOK(x)' /\ OfferOK(x)',
           \A m \in Members \ {x} :
             FounderKeeps(m) /\ MemberKeeps(m) /\ offer'[m] \in {offer[m], NoOffer},
           \A w \in Ways :
             TalkOK(w)' \/ (talk'[w] = talk[w] /\ talk[w].turn \notin Members \intersect {x})
    PROVE  MembershipInv'
<1>1. ASSUME NEW m \in Members PROVE OwnOK(m)' /\ OfferOK(m)'
  <2>1. CASE m = x
        BY <2>1
  <2>2. CASE m # x
    <3>1. FounderKeeps(m) /\ MemberKeeps(m) /\ offer'[m] \in {offer[m], NoOffer}
          BY <2>2
    <3>2. db'[m].token = db[m].token
          BY <3>1 DEF MemberKeeps, MemberStands
    <3>3. OwnOK(m)'
          BY <3>1, OwnKept
    <3>4. OfferOK(m)'
          BY <3>1, <3>2, OfferKept
    <3>5. QED  BY <3>3, <3>4
  <2>3. QED  BY <2>1, <2>2
<1>2. ASSUME NEW w \in Ways PROVE TalkOK(w)'
  <2>1. CASE talk'[w] = talk[w] /\ talk[w].turn \notin Members \intersect {x}
    <3>1. talk[w].turn \in Members =>
            /\ FounderKeeps(talk[w].turn) /\ MemberStands(talk[w].turn)
            /\ offer'[talk[w].turn] \in {offer[talk[w].turn], NoOffer}
          BY <2>1 DEF MemberKeeps
    <3>2. QED  BY <2>1, <3>1, TalkKept
  <2>2. QED  BY <2>1
<1>3. ReachInv'
      BY <1>1, <1>2 DEF ReachInv
<1>4. QED  BY <1>3 DEF MembershipInv

LEMMA UntouchedKeeps ==
    ASSUME TypeInv, NEW m \in Members, db'[m] = db[m]
    PROVE  MemberKeeps(m)
<1>1. Version(db[m].chain) \in Nat
      BY Versions, FounderIsOne DEF Numbered
<1>2. QED  BY <1>1 DEF MemberKeeps, MemberStands

LEMMA TablesSet ==
    ASSUME TypeInv, NEW a \in Everyone, NEW t \in Tables, WellKeyed(t), db' = [db EXCEPT ![a] = t]
    PROVE  /\ db' \in [Everyone -> Tables] /\ \A d \in Everyone : WellKeyed(db'[d])
           /\ db'[a] = t /\ \A d \in Everyone \ {a} : db'[d] = db[d]
BY DEF TypeInv

TalkSteps ==
  /\ talk' \in [Ways -> Talks]
  /\ \A w \in Ways : OneKeyPerVersion(talk'[w].chain) /\ talk'[w].turn \in {w[1], w[2]}
  /\ \A w \in Ways : talk'[w] = talk[w] \/ Silent(talk'[w])

\* What a member does to its own tables but for its certificate and its recovery token.
LEMMA AtMember ==
    ASSUME MembershipInv, NEW a \in Members, NEW t \in Tables, WellKeyed(t), db' = [db EXCEPT ![a] = t],
           t.cert[a] = db[a].cert[a], t.token = db[a].token,
           t.member[a] \in {db[a].member[a], "none"}, Version(db[a].chain) <= Version(t.chain),
           TalkSteps, crossed \subseteq crossed', crossed' \subseteq Everyone,
           Incident \/ incidents' = incidents, UNCHANGED <<offer, expired, reg, sync, issued, recast>>
    PROVE  MembershipInv'
<1>1. TypeInv /\ incidents' \in 0..MaxIncidents /\ a \in Everyone /\ a # Founder
      BY IncidentsCounted, FounderIsOne, FounderApart DEF MembershipInv
<1>2. /\ db' \in [Everyone -> Tables] /\ \A d \in Everyone : WellKeyed(db'[d])
      /\ db'[a] = t /\ \A d \in Everyone \ {a} : db'[d] = db[d]
      BY <1>1, TablesSet
<1>3. TypeInv'
      BY <1>1, <1>2 DEF TypeInv, HistoryType, RegistryType, TalkSteps
<1>4. FounderInv' /\ SerialInv' /\ Grows /\ \A m \in Members : FounderKeeps(m)
      BY <1>1, <1>2, <1>3, FounderKept, FounderIsOne
<1>5. \A m \in Members : MemberKeeps(m)
  <2>1. MemberKeeps(a)
        BY <1>2 DEF MemberKeeps, MemberStands
  <2>2. ASSUME NEW m \in Members, m # a PROVE MemberKeeps(m)
        BY <1>1, <1>2, <2>2, FounderIsOne, UntouchedKeeps
  <2>3. QED  BY <2>1, <2>2
<1>6. ASSUME NEW w \in Ways
      PROVE  TalkOK(w)' \/ (talk'[w] = talk[w] /\ talk[w].turn \notin Members \intersect {Founder})
      BY <1>3, SilentFits, FounderApart DEF TalkSteps
<1>7. QED  BY <1>3, <1>4, <1>5, <1>6, OthersKept, FounderIsOne, FounderApart

LEMMA TalkStays ==
    ASSUME TypeInv, talk' = talk
    PROVE  TalkSteps
BY DEF TypeInv, TalkSteps

LEMMA LeaveStep ==
    ASSUME MembershipInv, NEW m \in Members, Leave(m)
    PROVE  MembershipInv'
<1>1. TypeInv /\ TalkSteps /\ m \in Everyone /\ db[m] \in Tables /\ WellKeyed(db[m])
      BY TalkStays, TablesOfAll, FounderIsOne DEF Leave, MembershipInv
<1>2. PICK t : t = [db[m] EXCEPT !.member[m] = "none"]
      OBVIOUS
<1>3. /\ t \in Tables /\ t.chain = db[m].chain /\ t.keys = db[m].keys /\ t.cert = db[m].cert
      /\ t.token = db[m].token /\ t.member[m] = "none"
      BY <1>1, <1>2 DEF Tables
<1>4. WellKeyed(t) /\ Version(db[m].chain) <= Version(t.chain)
      BY <1>1, <1>3, Versions DEF WellKeyed, Numbered
<1>5. db' = [db EXCEPT ![m] = t]
      BY <1>1, <1>2 DEF Leave, TypeInv
<1>6. crossed \subseteq crossed' /\ crossed' \subseteq Everyone
      BY <1>1 DEF Leave, TypeInv, HistoryType
<1>7. QED  BY <1>1, <1>3, <1>4, <1>5, <1>6, AtMember DEF Leave

LEMMA OfferLostStep ==
    ASSUME MembershipInv, NEW m \in Members, OfferLost(m)
    PROVE  MembershipInv'
<1>1. TypeInv /\ incidents' \in 0..MaxIncidents
      BY IncidentsCounted DEF MembershipInv, OfferLost
<1>2. NoOffer \in Offers
      BY KeysOfCerts, BoundsOfMembership DEF NoOffer, Offers, Serials
<1>3. TypeInv'
      BY <1>1, <1>2 DEF TypeInv, HistoryType, RegistryType, OfferLost
<1>4. FounderInv' /\ SerialInv' /\ Grows /\ \A x \in Members : FounderKeeps(x)
      BY <1>3, FounderKept DEF OfferLost
<1>5. \A x \in Members : MemberKeeps(x) /\ offer'[x] \in {offer[x], NoOffer}
      BY <1>1, UntouchedKeeps DEF OfferLost, TypeInv
<1>6. QED  BY <1>3, <1>4, <1>5, OthersKept, FounderIsOne, FounderApart DEF OfferLost

LEMMA ExpireStep ==
    ASSUME MembershipInv, NEW d \in Everyone, Expire(d)
    PROVE  MembershipInv'
<1>1. TypeInv /\ incidents' \in 0..MaxIncidents /\ db[d].cert[d] \in Cert
      BY IncidentsCounted, TablesOfAll DEF MembershipInv, Expire
<1>2. <<d, db[d].cert[d].serial>> \in Everyone \X Serials
      BY <1>1, CertFields
<1>3. TypeInv'
      BY <1>1, <1>2 DEF TypeInv, HistoryType, RegistryType, Expire
<1>4. FounderInv' /\ SerialInv' /\ Grows /\ \A x \in Members : FounderKeeps(x)
      BY <1>3, FounderKept DEF Expire
<1>5. \A x \in Members : MemberKeeps(x) /\ offer'[x] \in {offer[x], NoOffer}
      BY <1>1, UntouchedKeeps DEF Expire
<1>6. QED  BY <1>3, <1>4, <1>5, OthersKept, FounderIsOne, FounderApart DEF Expire

LEMMA PersistAtMember ==
    ASSUME MembershipInv, NEW c \in Ways, Persist(c), talk[c].turn = Founder
    PROVE  MembershipInv'
<1> DEFINE a == talk[c]
           y == Other(c, Founder)
<1>1. TalkTyped(c, a) /\ a \in Talks /\ OneKeyPerVersion(a.chain) /\ TypeInv
      BY TalkOfWay DEF TalkTyped, MembershipInv
<1>2. y \in Members /\ y \in Everyone /\ y # Founder /\ y \in {c[1], c[2]} /\ Founder \in Everyone
  <2>1. Founder \in {c[1], c[2]}
        BY <1>1 DEF TalkTyped
  <2>2. QED  BY <2>1, WayEnds, FounderIsOne
<1>3. db[y] \in Tables /\ WellKeyed(db[y]) /\ a.cert \in Cert /\ a.chain \in SUBSET Keys
      BY <1>1, <1>2, TablesOfAll DEF Talks
<1>4. PICK t : t = Stored(db[y], Founder, a.cert, a.chain)
      OBVIOUS
<1>5. /\ t \in Tables /\ WellKeyed(t) /\ Version(db[y].chain) <= Version(t.chain)
      /\ t.cert = [db[y].cert EXCEPT ![Founder] = a.cert] /\ t.member = db[y].member
      /\ t.token = db[y].token
      BY <1>1, <1>2, <1>3, <1>4, StoredTables
<1>6. db' = [db EXCEPT ![y] = t] /\ t.cert[y] = db[y].cert[y]
      BY <1>1, <1>2, <1>3, <1>4, <1>5 DEF Persist, TypeInv, Tables
<1>7. TalkSteps
  <2>1. PICK x : x = IF Founder = c[1] THEN [Idle(c) EXCEPT !.step = "due", !.turn = y] ELSE Idle(c)
        OBVIOUS
  <2>2. TalkTyped(c, x) /\ Silent(x)
        BY <1>1, <1>2, <2>1, DueIsSilent, IdleIsSilent, IdleFits
  <2>3. talk' = [talk EXCEPT ![c] = x]
        BY <2>1 DEF Persist
  <2>4. QED  BY <1>1, <2>2, <2>3, TalkSet DEF TalkSteps
<1>8. crossed \subseteq crossed' /\ crossed' \subseteq Everyone
      BY <1>1, <1>2 DEF Persist, TypeInv, HistoryType
<1>9. QED  BY <1>1, <1>2, <1>5, <1>6, <1>7, <1>8, AtMember DEF Persist

LEMMA ManageAtMember ==
    ASSUME MembershipInv, NEW a \in Members, NEW m \in Everyone,
           (\E role \in Roles : UpdateRole(a, m, role)) \/ RemoveMember(a, m)
    PROVE  MembershipInv'
<1>1. /\ TypeInv /\ TalkSteps /\ a \in Everyone /\ a # Founder /\ db[a] \in Tables /\ WellKeyed(db[a])
      /\ a # m /\ crossed \subseteq crossed' /\ crossed' \subseteq Everyone
  <2>1. TypeInv /\ talk' = talk /\ crossed' = crossed /\ a # m
        BY DEF MembershipInv, UpdateRole, RemoveMember, MayManage
  <2>2. QED  BY <2>1, TalkStays, TablesOfAll, FounderIsOne, FounderApart DEF TypeInv, HistoryType
<1>2. ASSUME NEW role \in Roles, UpdateRole(a, m, role) PROVE MembershipInv'
  <2>1. PICK t : t = RoleUpdated(a, m, role)
        OBVIOUS
  <2>2. /\ t \in Tables /\ WellKeyed(t) /\ Version(db[a].chain) <= Version(t.chain)
        /\ t.cert[a] = db[a].cert[a] /\ t.member = [db[a].member EXCEPT ![m] = role]
        /\ t.token = db[a].token
        BY <1>1, <1>2, <2>1, RoleTables DEF UpdateRole, Extends
  <2>3. t.member[a] = db[a].member[a]
        BY <1>1, <2>2 DEF Tables
  <2>4. db' = [db EXCEPT ![a] = t] /\ issued' = issued /\ recast' = recast
        BY <1>1, <1>2, <2>1 DEF UpdateRole, NoteIssued, NoteRecast
  <2>5. QED  BY <1>1, <1>2, <2>2, <2>3, <2>4, AtMember DEF UpdateRole
<1>3. ASSUME RemoveMember(a, m) PROVE MembershipInv'
  <2>1. PICK t : t = MemberRemoved(a, m)
        OBVIOUS
  <2>2. /\ t \in Tables /\ WellKeyed(t) /\ Version(db[a].chain) <= Version(t.chain)
        /\ t.cert = [db[a].cert EXCEPT ![m] = NoCert] /\ t.member = [db[a].member EXCEPT ![m] = "none"]
        /\ t.token = db[a].token
        BY <1>1, <1>3, <2>1, RemovedTables DEF RemoveMember, Extends
  <2>3. t.member[a] = db[a].member[a] /\ t.cert[a] = db[a].cert[a]
        BY <1>1, <2>2 DEF Tables
  <2>4. db' = [db EXCEPT ![a] = t]
        BY <1>3, <2>1 DEF RemoveMember
  <2>5. QED  BY <1>1, <1>3, <2>2, <2>3, <2>4, AtMember DEF RemoveMember
<1>4. QED  BY <1>2, <1>3

\* A certificate with the keys that came with it takes the place of the member's own.
LEMMA OwnCertTables ==
    ASSUME NEW t \in Tables, WellKeyed(t), NEW m \in Everyone, NEW cert \in Cert, cert.key \in Keys,
           NEW chain \in SUBSET Keys, OneKeyPerVersion(chain),
           NEW keys \in SUBSET Keys, keys = {} \/ Len(cert.key) <= Version(chain)
    PROVE  LET u == TakenAsOwn(t, m, cert, chain, keys) IN
           /\ u \in Tables /\ WellKeyed(u) /\ Version(t.chain) <= Version(u.chain)
           /\ u.cert = [t.cert EXCEPT ![m] = cert] /\ u.revoked = t.revoked
           /\ u.member = t.member /\ u.recovery = t.recovery /\ u.token = t.token
<1> DEFINE u == TakenAsOwn(t, m, cert, chain, keys)
<1>1. PICK v : v = Stored(t, m, cert, chain)
      OBVIOUS
<1>2. /\ v \in Tables /\ WellKeyed(v) /\ Version(t.chain) <= Version(v.chain)
      /\ v.chain = SaveChain(t.chain, chain) /\ v.keys = t.keys
      /\ v.cert = [t.cert EXCEPT ![m] = cert] /\ v.revoked = t.revoked
      /\ v.member = t.member /\ v.recovery = t.recovery /\ v.token = t.token
      BY <1>1, StoredTables
<1>3. PICK k : k = IF keys = {} THEN v.keys ELSE SaveKey(v.keys, cert.key)
      OBVIOUS
<1>4. /\ k \in SUBSET Keys /\ OneKeyPerVersion(k)
      /\ \A j \in k : j \in v.keys \/ (j = cert.key /\ keys # {})
  <2>1. /\ SaveChain(v.keys, {cert.key}) \in SUBSET Keys
        /\ OneKeyPerVersion(v.keys) /\ OneKeyPerVersion({cert.key})
             => OneKeyPerVersion(SaveChain(v.keys, {cert.key}))
    <3>1. PICK mine \in SUBSET Keys : mine = v.keys
          BY <1>2 DEF Tables
    <3>2. PICK one \in SUBSET Keys : one = {cert.key}
          OBVIOUS
    <3>3. /\ SaveChain(mine, one) \in SUBSET Keys
          /\ OneKeyPerVersion(mine) /\ OneKeyPerVersion(one) => OneKeyPerVersion(SaveChain(mine, one))
          BY SavedChain
    <3>4. QED  BY <3>1, <3>2, <3>3
  <2>2. SaveKey(v.keys, cert.key) = SaveChain(v.keys, {cert.key})
        BY SavedKey
  <2>3. v.keys \in SUBSET Keys /\ OneKeyPerVersion(v.keys) /\ OneKeyPerVersion({cert.key})
        BY <1>2 DEF Tables, WellKeyed, OneKeyPerVersion
  <2>4. \A j \in SaveKey(v.keys, cert.key) : j \in v.keys \/ j = cert.key
        BY DEF SaveKey
  <2>5. QED  BY <1>3, <2>1, <2>2, <2>3, <2>4
<1>5. u = [v EXCEPT !.keys = k]
      BY <1>1, <1>2, <1>3 DEF Tables, TakenAsOwn
<1> HIDE DEF u
<1>6. /\ u \in Tables /\ u.chain = v.chain /\ u.keys = k /\ u.cert = v.cert /\ u.revoked = v.revoked
      /\ u.member = v.member /\ u.recovery = v.recovery /\ u.token = v.token
      BY <1>2, <1>4, <1>5 DEF Tables
<1>7. \A j \in k : Len(j) <= Version(u.chain)
  <2>1. Version(chain) <= Version(v.chain) /\ Version(chain) \in Nat /\ Version(v.chain) \in Nat
    <3>1. t.chain \in SUBSET Keys /\ v.chain \in SUBSET Keys
          BY <1>2 DEF Tables
    <3>2. Version(chain) <= Version(SaveChain(t.chain, chain))
          BY <3>1, SavedChain
    <3>3. QED  BY <1>2, <3>1, <3>2, VersionIsGreatest, BoundsOfMembership
  <2>2. Len(cert.key) \in Nat
        BY KeySequences
  <2>3. keys # {} => Len(cert.key) <= Version(v.chain)
        BY <2>1, <2>2
  <2>4. QED  BY <1>2, <1>4, <1>6, <2>3 DEF WellKeyed
<1>8. QED  BY <1>2, <1>4, <1>6, <1>7 DEF WellKeyed, u

\* The founder's certificates are signed with keys of its own.
LEMMA SignedKey ==
    ASSUME TypeInv, NEW d \in Everyone, NEW x \in Cert, x.serial > 0, Signed(d, x)
    PROVE  x.key \in Keys /\ x.key \in Authority /\ x.serial <= issued[d]
BY Versions DEF Numbered, Signed

LEMMA FinalizeTyped ==
    ASSUME MembershipInv, NEW m \in Members, FinalizeJoin(m)
    PROVE  /\ TypeInv' /\ \A d \in Everyone \ {m} : db'[d] = db[d]
           /\ db'[m].cert[m] = offer[m].cert /\ db'[m].token = offer[m].token
           /\ offer' = [offer EXCEPT ![m] = NoOffer]
<1> DEFINE o == offer[m]
           old == db[m]
<1>1. /\ TypeInv /\ m \in Everyone /\ m # Founder /\ Founder \in Everyone /\ old \in Tables /\ WellKeyed(old)
      /\ o \in Offers /\ OfferOK(m) /\ Offered(m)
      BY TablesOfAll, FounderIsOne, FounderApart
         DEF MembershipInv, TypeInv, ReachInv, FinalizeJoin, Offered
<1>2. o.cert \in Cert /\ o.keys \in SUBSET Keys /\ o.token \in Serials /\ o.owner \in Roles \union {"none"}
      /\ o.cert.role \in Roles \union {"none"} /\ o.token > 0 /\ o.token = o.cert.serial
      BY <1>1, CertFields DEF Offers, OfferOK
<1>3. o.cert.key \in Keys
      BY <1>1, <1>2, SignedKey DEF OfferOK
<1>4. OneKeyPerVersion({o.cert.key}) /\ Len(o.cert.key) <= Version({o.cert.key})
  <2>1. {o.cert.key} \in SUBSET Keys
        BY <1>3
  <2>2. Len(o.cert.key) \in 1..Version({o.cert.key}) /\ Version({o.cert.key}) \in 0..MaxVersion
        BY <2>1, VersionIsGreatest
  <2>3. QED  BY <2>2, BoundsOfMembership DEF OneKeyPerVersion
<1>5. PICK u : u = TakenAsOwn(old, m, o.cert, {o.cert.key}, o.keys)
      OBVIOUS
<1>6. /\ u \in Tables /\ WellKeyed(u) /\ u.cert = [old.cert EXCEPT ![m] = o.cert]
      /\ u.revoked = old.revoked /\ u.member = old.member /\ u.recovery = old.recovery
  <2>1. PICK chain \in SUBSET Keys : chain = {o.cert.key}
        BY <1>3
  <2> HIDE DEF o, old
  <2>2. QED  BY <1>1, <1>2, <1>3, <1>4, <1>5, <2>1, OwnCertTables
<1>7. PICK w1 : w1 = [u EXCEPT !.member[m] = o.cert.role]
      OBVIOUS
<1>8. w1 \in Tables /\ w1.cert = u.cert /\ w1.chain = u.chain /\ w1.keys = u.keys
      BY <1>1, <1>2, <1>6, <1>7 DEF Tables
<1>9. PICK w2 : w2 = [w1 EXCEPT !.member[Founder] = o.owner]
      OBVIOUS
<1>10. w2 \in Tables /\ w2.cert = u.cert /\ w2.chain = u.chain /\ w2.keys = u.keys
       BY <1>1, <1>2, <1>8, <1>9 DEF Tables
<1>11. PICK w : w = [w2 EXCEPT !.token = o.token]
       OBVIOUS
<1>12. /\ w \in Tables /\ w.cert = u.cert /\ w.chain = u.chain /\ w.keys = u.keys /\ w.token = o.token
       BY <1>1, <1>2, <1>10, <1>11 DEF Tables
<1>13. WellKeyed(w) /\ w.cert[m] = o.cert
       BY <1>1, <1>6, <1>12 DEF WellKeyed, Tables
<1>14. /\ db' = [db EXCEPT ![m] = w] /\ offer' = [offer EXCEPT ![m] = NoOffer]
       /\ UNCHANGED <<talk, expired, reg, sync, issued, crossed, recast, incidents>>
       BY <1>5, <1>7, <1>9, <1>11 DEF FinalizeJoin
<1>15. db' \in [Everyone -> Tables] /\ (\A d \in Everyone : WellKeyed(db'[d])) /\ db'[m] = w
       /\ \A d \in Everyone \ {m} : db'[d] = db[d]
       BY <1>1, <1>12, <1>13, <1>14, TablesSet
<1>16. NoOffer \in Offers
       BY KeysOfCerts, BoundsOfMembership DEF NoOffer, Offers, Serials
<1>17. TypeInv'
       BY <1>1, <1>14, <1>15, <1>16 DEF TypeInv, HistoryType, RegistryType
<1>18. QED  BY <1>12, <1>13, <1>14, <1>15, <1>17

LEMMA FinalizeStep ==
    ASSUME MembershipInv, NEW m \in Members, FinalizeJoin(m)
    PROVE  MembershipInv'
<1> DEFINE o == offer[m]
<1>1. /\ TypeInv /\ TypeInv' /\ m \in Everyone /\ m # Founder /\ o \in Offers /\ Offered(m)
      /\ \A d \in Everyone \ {m} : db'[d] = db[d]
      /\ db'[m].cert[m] = o.cert /\ db'[m].token = o.token /\ offer' = [offer EXCEPT ![m] = NoOffer]
      /\ UNCHANGED <<talk, expired, reg, sync, issued, crossed, recast>>
      BY FinalizeTyped, FounderIsOne, FounderApart DEF MembershipInv, TypeInv, FinalizeJoin, Offered
<1>2. db'[Founder] = db[Founder] /\ Authority' = Authority
      BY <1>1, FounderIsOne DEF Authority
<1>3. FounderInv' /\ SerialInv' /\ Grows /\ \A x \in Members : FounderKeeps(x)
      BY <1>1, <1>2, FounderKept
<1>4. /\ Signed(m, o.cert) /\ o.token = o.cert.serial /\ o.token > 0
      /\ Expected(m) /\ o.token = db[Founder].recovery[m] => Newest(m, o.cert)
      BY <1>1 DEF MembershipInv, ReachInv, OfferOK
<1>5. offer'[m] = NoOffer /\ \A x \in Members \ {m} : offer'[x] = offer[x]
      BY <1>1 DEF TypeInv
<1>6. OwnOK(m)' /\ OfferOK(m)'
  <2>1. InPlace(m)' => Expected(m) /\ o.token = db[Founder].recovery[m]
        BY <1>1, <1>2 DEF InPlace, Expected
  <2>2. Signed(m, db[m].cert[m])' /\ (Newest(m, o.cert) => Newest(m, db[m].cert[m])')
        BY <1>1, <1>2, <1>4 DEF Signed, Newest
  <2>3. db'[m].token <= issued'[m]
        BY <1>1, <1>4 DEF Signed
  <2>4. QED  BY <1>4, <1>5, <2>1, <2>2, <2>3 DEF OwnOK, OfferOK, Offered
<1>7. ASSUME NEW w \in Ways, talk[w].turn = m PROVE TalkOK(w)'
  <2>1. Fits(talk[w]) /\ talk'[w] = talk[w]
        BY <1>1, TalkOfWay
  <2>2. talk[w].step = "grant" => ~InPlace(m)'
    <3>1. SUFFICES ASSUME talk[w].step = "grant", InPlace(m)' PROVE FALSE
          OBVIOUS
    <3>2. m \notin crossed /\ o.token = db[Founder].recovery[m]
          BY <1>1, <1>2, <3>1 DEF InPlace, Expected
    <3>3. QED  BY <1>1, <1>7, <2>1, <3>1, <3>2 DEF Fits
  <2>3. QED  BY <1>1, <1>2, <1>5, <1>7, <2>1, <2>2 DEF TalkOK, Fits, Signed, Offered
<1>8. ASSUME NEW x \in Members \ {m}
      PROVE  FounderKeeps(x) /\ MemberKeeps(x) /\ offer'[x] \in {offer[x], NoOffer}
      BY <1>1, <1>3, <1>5, UntouchedKeeps, FounderIsOne
<1>9. \A w \in Ways : TalkOK(w)' \/ (talk'[w] = talk[w] /\ talk[w].turn \notin Members \intersect {m})
      BY <1>1, <1>7
<1>10. QED  BY <1>1, <1>3, <1>6, <1>8, <1>9, OthersKept

LEMMA SaysTyped ==
    ASSUME TypeInv, NEW c \in Ways, NEW t \in Tables, WellKeyed(t)
    PROVE  /\ TalkTyped(c, Says(c, t)) /\ Says(c, t).step = "auth" /\ Says(c, t).turn = Speaker(c)
           /\ Says(c, t).cert = t.cert[Speaker(c)] /\ Says(c, t).token = 0
<1> DEFINE d == Speaker(c)
<1>1. d \in Everyone /\ d \in {c[1], c[2]} /\ 0 \in Serials
      BY BoundsOfMembership DEF TypeInv, Talks, Speaker, Serials
<1>2. t.cert[d] \in Cert /\ t.chain \in SUBSET Keys /\ OneKeyPerVersion(t.chain)
      BY <1>1 DEF Tables, WellKeyed
<1>3. PICK x : x = Says(c, t)
      OBVIOUS
<1>4. x = [step |-> "auth", turn |-> d, cert |-> t.cert[d], chain |-> t.chain, keys |-> {}, token |-> 0]
      BY <1>3 DEF Says
<1> HIDE DEF d
<1>5. /\ x \in Talks /\ x.step = "auth" /\ x.turn = d /\ x.cert = t.cert[d] /\ x.token = 0
      /\ x.chain = t.chain
      BY <1>1, <1>2, <1>4 DEF Talks, Steps
<1>6. QED  BY <1>1, <1>2, <1>3, <1>5 DEF TalkTyped, d

LEMMA GrantTyped ==
    ASSUME MembershipInv, NEW c \in Ways, StoreGrant(c)
    PROVE  /\ TypeInv' /\ \A d \in Everyone \ {talk[c].turn} : db'[d] = db[d]
           /\ LET m == talk[c].turn IN
              /\ db'[m].cert[m] = talk[c].cert /\ db'[m].token = db[m].token
              /\ db'[m].member = db[m].member
              /\ talk'[c].step = "auth" /\ talk'[c].turn = m /\ talk'[c].cert = talk[c].cert
              /\ talk'[c].token = 0
           /\ \A w \in Ways \ {c} : talk'[w] = talk[w]
<1> DEFINE g == talk[c]
           m == g.turn
           old == db[m]
<1>1. /\ TypeInv /\ TalkTyped(c, g) /\ g \in Talks /\ OneKeyPerVersion(g.chain) /\ Fits(g)
      /\ g.step = "grant" /\ Speaker(c) = m
      BY TalkOfWay DEF TalkTyped, MembershipInv, StoreGrant, Speaker
<1>2. /\ m \in Members /\ m \in Everyone /\ m # Founder /\ old \in Tables /\ WellKeyed(old)
      BY <1>1, TablesOfAll, FounderIsOne, FounderApart DEF Fits
<1>3. /\ g.cert \in Cert /\ g.chain \in SUBSET Keys /\ g.keys \in SUBSET Keys
      BY <1>1 DEF Talks
<1>4. g.cert.key \in Keys /\ Len(g.cert.key) <= Version(g.chain)
  <2>1. g.chain # {} /\ g.cert.key = ChainHead(g.chain)
        BY DEF StoreGrant, ValidCert, ValidChain
  <2>2. ChainHead(g.chain) \in g.chain /\ Len(ChainHead(g.chain)) = Version(g.chain)
        BY <1>3, <2>1, HeadOfChain
  <2>3. Version(g.chain) \in Nat
        BY <1>3, VersionIsGreatest, BoundsOfMembership
  <2>4. QED  BY <1>3, <2>1, <2>2, <2>3
<1>5. PICK u : u = TakenAsOwn(old, m, g.cert, g.chain, g.keys)
      OBVIOUS
<1>6. /\ u \in Tables /\ WellKeyed(u) /\ u.cert = [old.cert EXCEPT ![m] = g.cert]
      /\ u.member = old.member /\ u.token = old.token
  <2> HIDE DEF g, old, m
  <2>1. QED  BY <1>1, <1>2, <1>3, <1>4, <1>5, OwnCertTables
<1>7. u.cert[m] = g.cert
      BY <1>2, <1>6 DEF Tables
<1>8. PICK x : x = Says(c, u)
      OBVIOUS
<1>9. /\ TalkTyped(c, x) /\ x.step = "auth" /\ x.turn = m /\ x.cert = g.cert /\ x.token = 0
      BY <1>1, <1>6, <1>7, <1>8, SaysTyped
<1>10. /\ db' = [db EXCEPT ![m] = u] /\ talk' = [talk EXCEPT ![c] = x]
       /\ UNCHANGED <<offer, expired, reg, sync, issued, crossed, recast, incidents>>
       BY <1>1, <1>5, <1>8 DEF StoreGrant
<1>11. db' \in [Everyone -> Tables] /\ (\A d \in Everyone : WellKeyed(db'[d])) /\ db'[m] = u
       /\ \A d \in Everyone \ {m} : db'[d] = db[d]
       BY <1>1, <1>2, <1>6, <1>10, TablesSet
<1>12. /\ talk' \in [Ways -> Talks] /\ talk'[c] = x
       /\ \A w \in Ways : OneKeyPerVersion(talk'[w].chain) /\ talk'[w].turn \in {w[1], w[2]}
       /\ \A w \in Ways \ {c} : talk'[w] = talk[w]
       BY <1>1, <1>9, <1>10, TalkSet
<1>13. TypeInv'
       BY <1>1, <1>10, <1>11, <1>12 DEF TypeInv, HistoryType, RegistryType
<1>14. QED  BY <1>6, <1>7, <1>9, <1>11, <1>12, <1>13

LEMMA StoreGrantStep ==
    ASSUME MembershipInv, NEW c \in Ways, StoreGrant(c)
    PROVE  MembershipInv'
<1>0. TypeInv /\ Fits(talk[c]) /\ talk[c].step = "grant" /\ talk[c].turn \in Members
      BY TalkOfWay DEF MembershipInv, StoreGrant, Fits
<1>m. PICK m \in Members : m = talk[c].turn
      BY <1>0
<1>x. PICK x : x = talk[c].cert
      OBVIOUS
<1>1. /\ m \in Everyone /\ m # Founder /\ Signed(m, x) /\ (InPlace(m) => Newest(m, x))
      /\ m \notin crossed /\ Offered(m) => offer[m].token # db[Founder].recovery[m]
      BY <1>0, <1>m, <1>x, FounderIsOne, FounderApart DEF Fits
<1>2. /\ TypeInv' /\ \A d \in Everyone \ {m} : db'[d] = db[d]
      /\ db'[m].cert[m] = x /\ db'[m].token = db[m].token /\ db'[m].member = db[m].member
      /\ talk'[c].step = "auth" /\ talk'[c].turn = m /\ talk'[c].cert = x /\ talk'[c].token = 0
      /\ \A w \in Ways \ {c} : talk'[w] = talk[w]
      BY <1>m, <1>x, GrantTyped
<1>3. UNCHANGED <<offer, expired, reg, sync, issued, crossed, recast, incidents>>
      BY DEF StoreGrant
<1>4. db'[Founder] = db[Founder] /\ Authority' = Authority
      BY <1>1, <1>2, FounderIsOne DEF Authority
<1>5. FounderInv' /\ SerialInv' /\ Grows /\ \A y \in Members : FounderKeeps(y)
      BY <1>2, <1>3, <1>4, FounderKept
<1>6. MemberStands(m)
      BY <1>2 DEF MemberStands
<1>7. OwnOK(m)' /\ OfferOK(m)'
  <2>1. Signed(m, db[m].cert[m])' /\ (Newest(m, x) => Newest(m, db[m].cert[m])')
        BY <1>1, <1>2, <1>3, <1>4 DEF Signed, Newest
  <2>2. InPlace(m)' => InPlace(m)
        BY <1>2, <1>3, <1>4 DEF InPlace, Expected
  <2>3. db'[m].token <= issued'[m]
        BY <1>1, <1>2, <1>3 DEF MembershipInv, ReachInv, OwnOK
  <2>4. OfferOK(m)'
        BY <1>1, <1>2, <1>3, <1>5, OfferKept
  <2>5. QED  BY <1>1, <2>1, <2>2, <2>3, <2>4 DEF OwnOK
<1>8. ASSUME NEW y \in Members \ {m}
      PROVE  FounderKeeps(y) /\ MemberKeeps(y) /\ offer'[y] \in {offer[y], NoOffer}
      BY <1>0, <1>1, <1>2, <1>3, <1>5, UntouchedKeeps, FounderIsOne
<1>9. TalkOK(c)'
  <2>1. Signed(m, x)' /\ 0 <= issued'[m]
    <3>1. issued[m] \in Nat
          BY <1>0, <1>1, BoundsOfMembership DEF TypeInv, HistoryType, Serials
    <3>2. QED  BY <1>1, <1>3, <1>4, <3>1 DEF Signed
  <2>2. QED  BY <1>2, <2>1 DEF TalkOK, Fits, Signed
<1>10. ASSUME NEW w \in Ways \ {c}, talk[w].turn = m PROVE TalkOK(w)'
       BY <1>2, <1>3, <1>5, <1>6, <1>10, TalkKept
<1>11. \A w \in Ways : TalkOK(w)' \/ (talk'[w] = talk[w] /\ talk[w].turn \notin Members \intersect {m})
       BY <1>2, <1>9, <1>10
<1>12. QED  BY <1>1, <1>2, <1>5, <1>7, <1>8, <1>11, OthersKept

-----------------------------------------------------------------------------
(* Changes at the founder.                                                  *)

RevocationsGreatest ==
  \A d \in Members : /\ Revocations[d] \in Serials
                     /\ Revocations[d] = 0 \/ Revocations[d] \in db[Founder].revoked[d]
                     /\ \A s \in db[Founder].revoked[d] : s <= Revocations[d]

LEMMA GreatestRevocations == TypeInv => RevocationsGreatest
BY RevocationIsGreatest DEF RevocationsGreatest

LEMMA GreatestRevocationsThen == TypeInv' => RevocationsGreatest'
BY GreatestRevocations, PTL

\* A new authority is signed by one that the founder has.
LEMMA ExtendedAuthority ==
    ASSUME MembershipInv, NEW t \in Tables, Extends(db[Founder], t)
    PROVE  t.keys = t.chain /\ Linked(t.chain) /\ Authority \subseteq t.chain
<1>1. db[Founder].keys = Authority /\ Linked(Authority) /\ Authority = db[Founder].chain
      BY DEF MembershipInv, FounderInv, Authority
<1>2. CASE t.chain = Authority /\ t.keys = Authority
      BY <1>1, <1>2
<1>3. ASSUME NEW next \in Keys, t.chain = Authority \union {next}, t.keys = Authority \union {next},
             Front(next) \in Authority
      PROVE  t.keys = t.chain /\ Linked(t.chain) /\ Authority \subseteq t.chain
      BY <1>1, <1>3 DEF Linked
<1>4. QED  BY <1>1, <1>2, <1>3 DEF Extends

\* The founder's tables become t; what changes in them is about m.
Reworks(t, m) ==
  /\ t \in Tables /\ WellKeyed(t) /\ t.keys = t.chain /\ Linked(t.chain) /\ Authority \subseteq t.chain
  /\ t.chain = {} => \A e \in Members : t.member[e] = "none"
  /\ db' = [db EXCEPT ![Founder] = t]
  /\ \A e \in Everyone \ {m} :
       /\ t.cert[e] = db[Founder].cert[e] /\ t.revoked[e] = db[Founder].revoked[e]
       /\ t.member[e] = db[Founder].member[e] /\ t.recovery[e] = db[Founder].recovery[e]
       /\ issued'[e] = issued[e]
  /\ db[Founder].revoked[m] \subseteq t.revoked[m] /\ issued[m] <= issued'[m]
  /\ crossed \subseteq crossed' /\ recast \ {m} \subseteq recast'
  /\ UNCHANGED <<expired, reg, sync>>

LEMMA AtFounder ==
    ASSUME MembershipInv, TypeInv', NEW m \in Everyone, NEW t, Reworks(t, m),
           t.cert[m].serial > 0 => t.cert[m].key \in t.chain /\ t.cert[m].serial <= issued'[m],
           m \notin crossed' => NextSerial(t, m) > issued'[m],
           m \in Members => CurrentOK(m)'
    PROVE  /\ FounderInv' /\ SerialInv' /\ Grows
           /\ \A e \in Members \ {m} : FounderKeeps(e)
           /\ \A e \in Members : MemberKeeps(e)
<1>1. /\ TypeInv /\ Founder \in Everyone /\ t \in Tables /\ Members \subseteq Everyone
      /\ db'[Founder] = t /\ \A d \in Everyone \ {Founder} : db'[d] = db[d]
      BY FounderIsOne, TablesSet DEF MembershipInv, Reworks
<1>2. Authority' = t.chain /\ FounderInv'
      BY <1>1 DEF FounderInv, Authority, Reworks
<1>3. \A e \in Everyone \ {m} :
        /\ t.cert[e] = db[Founder].cert[e] /\ t.revoked[e] = db[Founder].revoked[e]
        /\ t.member[e] = db[Founder].member[e] /\ t.recovery[e] = db[Founder].recovery[e]
        /\ issued'[e] = issued[e]
      BY DEF Reworks
<1>4. \A e \in Everyone : issued[e] \in Nat /\ issued'[e] \in Nat /\ issued[e] <= issued'[e]
  <2>1. \A e \in Everyone : issued[e] \in Nat /\ issued'[e] \in Nat
        BY <1>1, BoundsOfMembership DEF TypeInv, HistoryType, Serials
  <2>2. QED  BY <1>3, <2>1 DEF Reworks
<1>5. Grows
  <2>1. Version(Authority) <= Version(t.chain)
    <3>1. Authority \in SUBSET Keys /\ t.chain \in SUBSET Keys /\ Authority \subseteq t.chain
          BY <1>1, Versions DEF Tables, Numbered, Reworks
    <3>2. QED  BY <3>1, VersionGrows
  <2>2. QED  BY <1>2, <1>4, <2>1 DEF Grows, Reworks
<1>6. \A d \in Everyone : Signed(d, db[Founder].cert[d])'
  <2>1. SUFFICES ASSUME NEW d \in Everyone, t.cert[d].serial > 0
                 PROVE  t.cert[d].key \in t.chain /\ t.cert[d].serial <= issued'[d]
        BY <1>1, <1>2 DEF Signed
  <2>2. CASE d # m
    <3>1. Signed(d, db[Founder].cert[d]) /\ t.cert[d] = db[Founder].cert[d]
          BY <1>3, <2>2 DEF MembershipInv, SerialInv
    <3>2. QED  BY <1>3, <2>1, <2>2, <3>1 DEF Signed, Reworks
  <2>3. QED  BY <2>1, <2>2
<1>7. \A d \in Everyone \ crossed' : NextSerial(db'[Founder], d) > issued'[d]
  <2>1. SUFFICES ASSUME NEW d \in Everyone, d \notin crossed', d # m PROVE NextSerial(t, d) > issued'[d]
        BY <1>1
  <2>2. d \notin crossed
        BY <2>1 DEF Reworks
  <2>3. NextSerial(t, d) = NextSerial(db[Founder], d)
        BY <1>3, <2>1 DEF NextSerial
  <2>4. QED  BY <1>3, <2>1, <2>2, <2>3 DEF MembershipInv, SerialInv
<1>8. ASSUME NEW d \in Members PROVE CurrentOK(d)' /\ RegistryOK(d)'
  <2>1. CurrentOK(d)'
    <3>1. CASE d = m
          BY <3>1
    <3>2. CASE d # m
      <4>1. CurrentOK(d) /\ d \in Everyone /\ (d \notin crossed' => d \notin crossed)
            BY <1>1 DEF MembershipInv, SerialInv, Reworks
      <4>2. QED  BY <1>1, <1>3, <3>2, <4>1 DEF CurrentOK
    <3>3. QED  BY <3>1, <3>2
  <2>2. Revocations[d] <= Revocations'[d] /\ Revocations[d] \in Nat /\ Revocations'[d] \in Nat
    <3>1. db[Founder].revoked[d] \subseteq db'[Founder].revoked[d]
          BY <1>1, <1>3 DEF Reworks
    <3>2. /\ Revocations[d] \in Nat /\ Revocations'[d] \in Nat
          /\ Revocations[d] = 0 \/ Revocations[d] \in db[Founder].revoked[d]
          /\ \A s \in db'[Founder].revoked[d] : s <= Revocations'[d]
          BY <1>1, GreatestRevocations, GreatestRevocationsThen, BoundsOfMembership
             DEF RevocationsGreatest, Serials
    <3>3. QED  BY <3>1, <3>2
  <2>3. /\ RegistryOK(d) /\ d \in Everyone /\ reg' = reg /\ sync' = sync
        /\ reg.seen[d] \in Nat /\ reg.revoked[d] \in Nat
        /\ (\A rows \in sync.read : rows[d] \in Nat)
        /\ \A i \in 1..Len(sync.sent) : sync.sent[i][d] \in Nat
    <3>1. RegistryType /\ \A x \in Lists : x[d] \in Nat
          BY <1>1, BoundsOfMembership DEF TypeInv, Lists, Serials
    <3>2. \A i \in 1..Len(sync.sent) : sync.sent[i] \in Lists
          BY <3>1 DEF RegistryType
    <3>3. QED  BY <1>1, <3>1, <3>2 DEF MembershipInv, SerialInv, Reworks, RegistryType
  <2>4. RegistryOK(d)'
    <3>1. reg.seen[d] <= issued'[d] /\ reg.revoked[d] <= Revocations'[d]
          BY <1>4, <2>2, <2>3 DEF RegistryOK
    <3>2. \A rows \in sync.read : rows[d] <= Revocations'[d]
          BY <2>2, <2>3 DEF RegistryOK
    <3>3. \A i \in 1..Len(sync.sent) : sync.sent[i][d] <= Revocations'[d]
          BY <2>2, <2>3 DEF RegistryOK
    <3>4. QED  BY <2>3, <3>1, <3>2, <3>3 DEF RegistryOK
  <2>5. QED  BY <2>1, <2>4
<1>9. SerialInv'
      BY <1>6, <1>7, <1>8 DEF SerialInv
<1>10. ASSUME NEW e \in Members \ {m} PROVE FounderKeeps(e)
  <2>1. e \in Everyone /\ (e \notin crossed' => e \notin crossed) /\ (e \notin recast' => e \notin recast)
        BY <1>1 DEF Reworks
  <2>2. QED  BY <1>1, <1>3, <2>1 DEF FounderKeeps, Expected
<1>11. \A e \in Members : MemberKeeps(e)
       BY <1>1, UntouchedKeeps, FounderApart
<1>12. QED  BY <1>2, <1>5, <1>9, <1>10, <1>11

\* The founder gives m the next serial.
LEMMA FounderIssues ==
    ASSUME MembershipInv, TypeInv', NEW m \in Everyone, NEW t, Reworks(t, m),
           t.cert[m].serial = NextSerial(db[Founder], m), t.cert[m].key \in t.chain,
           \A s \in t.revoked[m] : s < t.cert[m].serial,
           issued' = [issued EXCEPT ![m] = Max({@, t.cert[m].serial})]
    PROVE  /\ FounderInv' /\ SerialInv' /\ Grows
           /\ \A e \in Members \ {m} : FounderKeeps(e)
           /\ \A e \in Members : MemberKeeps(e)
           /\ t.cert[m].serial \in Nat /\ t.cert[m].serial > 0 /\ t.cert[m].serial <= issued'[m]
           /\ m \notin crossed' => issued'[m] = t.cert[m].serial /\ t.cert[m].serial > issued[m]
<1> DEFINE n == t.cert[m].serial
<1>1. /\ TypeInv /\ t \in Tables /\ Founder \in Everyone /\ issued \in [Everyone -> 0..MaxSerial]
      /\ db[Founder] \in Tables /\ t.cert[m] \in Cert /\ n \in 0..MaxSerial /\ MaxSerial \in Nat
  <2>1. TypeInv /\ t \in Tables /\ Founder \in Everyone /\ MaxSerial \in Nat
        BY FounderIsOne, BoundsOfMembership DEF MembershipInv, Reworks
  <2>2. t.cert[m] \in Cert
        BY <2>1 DEF Tables
  <2>3. QED  BY <2>1, <2>2, TablesOfAll, CertFields DEF TypeInv, HistoryType, Serials
<1>2. NextSerial(t, m) > n /\ NextSerial(t, m) \in Nat /\ n > 0
  <2>1. NextSerial(t, m) \in 1..(MaxSerial + 1) /\ t.cert[m].serial < NextSerial(t, m)
        BY <1>1, NextSerialIsNew
  <2>2. NextSerial(db[Founder], m) \in 1..(MaxSerial + 1)
        BY <1>1, NextSerialIsNew
  <2>3. QED  BY <1>1, <2>1, <2>2
<1>3. issued'[m] = Max({issued[m], n}) /\ issued[m] \in 0..MaxSerial
      BY <1>1
<1>4. Max({issued[m], n}) \in {issued[m], n} /\ issued[m] <= Max({issued[m], n}) /\ n <= Max({issued[m], n})
      BY <1>1, <1>3, MaxOfTwo
<1>5. m \notin crossed' => issued'[m] = n /\ n > issued[m]
  <2>1. SUFFICES ASSUME m \notin crossed' PROVE issued'[m] = n /\ n > issued[m]
        OBVIOUS
  <2>2. n > issued[m]
        BY <2>1 DEF MembershipInv, SerialInv, Reworks
  <2>3. QED  BY <1>1, <1>3, <1>4, <2>2
<1>6. n <= issued'[m]
      BY <1>3, <1>4
<1>7. m \in Members => CurrentOK(m)'
  <2>1. db'[Founder] = t
        BY <1>1 DEF Reworks, TypeInv
  <2>2. QED  BY <1>2, <1>5, <2>1 DEF CurrentOK
<1>8. m \notin crossed' => NextSerial(t, m) > issued'[m]
      BY <1>2, <1>5
<1>9. t.cert[m].serial > 0 => t.cert[m].key \in t.chain /\ t.cert[m].serial <= issued'[m]
      BY <1>6
<1>10. /\ FounderInv' /\ SerialInv' /\ Grows
       /\ \A e \in Members \ {m} : FounderKeeps(e)
       /\ \A e \in Members : MemberKeeps(e)
  <2> HIDE DEF n
  <2>1. QED  BY <1>7, <1>8, <1>9, AtFounder
<1>11. QED  BY <1>1, <1>2, <1>5, <1>6, <1>10

\* The founder signs with the authority that it has, or makes the first.
LEMMA FounderSignsFor ==
    ASSUME MembershipInv, NEW m \in Everyone, NEW role \in Roles \union {"none"},
           CanSign(WithAuthority(db[Founder])), NextSerial(db[Founder], m) <= MaxSerial
    PROVE  LET f == db[Founder]  t == Issue(WithAuthority(f), m, role) IN
           /\ t \in Tables /\ WellKeyed(t) /\ t.keys = t.chain /\ Linked(t.chain) /\ Authority \subseteq t.chain
           /\ t.chain # {} /\ t.cert[m].serial = NextSerial(f, m) /\ t.cert[m].key \in t.chain
           /\ t.cert[m].role = role /\ SigningKey(t) \in Keys
           /\ f.revoked[m] \subseteq t.revoked[m] /\ \A s \in t.revoked[m] : s < NextSerial(f, m)
           /\ \A e \in Everyone \ {m} : t.cert[e] = f.cert[e] /\ t.revoked[e] = f.revoked[e]
           /\ t.member = f.member /\ t.recovery = f.recovery /\ t.token = f.token
<1> DEFINE f == db[Founder]
           w == WithAuthority(f)
           t == Issue(w, m, role)
<1>1. /\ f \in Tables /\ WellKeyed(f) /\ f.keys = f.chain /\ Linked(f.chain) /\ Authority = f.chain
      BY TablesOfAll, FounderIsOne DEF MembershipInv, FounderInv, Authority
<1>2. /\ w \in Tables /\ WellKeyed(w) /\ w.chain # {} /\ f.chain \subseteq w.chain
      /\ w.member = f.member /\ w.cert = f.cert /\ w.revoked = f.revoked
      /\ w.recovery = f.recovery /\ w.token = f.token
      /\ f.chain # {} => w = f
      /\ f.chain = {} => w.chain = {<<Founder>>} /\ w.keys = {<<Founder>>}
      /\ NextSerial(w, m) = NextSerial(f, m)
      BY <1>1, AuthorityTables
<1> HIDE DEF w, f
<1>3. w.keys = w.chain /\ Linked(w.chain)
  <2>1. Linked({<<Founder>>})
    <3>1. PICK k : k = <<Founder>>
          OBVIOUS
    <3>2. ~(Len(k) > 1)
          BY <3>1, FirstKey
    <3>3. \A j \in {k} : ~(Len(j) > 1)
          BY <3>2
    <3>4. Linked({k})
          BY <3>3 DEF Linked
    <3>5. QED  BY <3>1, <3>4
  <2>2. QED  BY <1>1, <1>2, <2>1
<1>4. /\ t \in Tables /\ WellKeyed(t) /\ IssuedAnew(w, t, m)
      /\ t.member = w.member /\ t.chain = w.chain /\ t.keys = w.keys
      /\ t.recovery = w.recovery /\ t.token = w.token /\ t.cert[m].role = role
      BY <1>2, IssueTables DEF w, f
<1> HIDE DEF t
<1>5. SigningKey(w) \in w.keys
      BY <1>2, KeyThatSigns DEF w, f
<1>6. SigningKey(t) \in Keys
  <2>1. PICK k \in t.chain : Len(k) = Version(t.chain)
        BY <1>2, <1>4, VersionIsGreatest DEF Tables
  <2>2. CanSign(t)
        BY <1>3, <1>4, <2>1 DEF CanSign
  <2>3. QED  BY <1>4, <2>2, KeyThatSigns
<1>7. QED  BY <1>1, <1>2, <1>3, <1>4, <1>5, <1>6 DEF IssuedAnew, t, w, f

LEMMA NextSerialGrows ==
    ASSUME NEW f \in Tables, NEW t \in Tables, NEW m \in Everyone, f.revoked[m] \subseteq t.revoked[m],
           \/ f.cert[m].serial = 0 \/ f.cert[m].serial \in t.revoked[m]
           \/ f.cert[m].serial <= t.cert[m].serial
    PROVE  NextSerial(f, m) <= NextSerial(t, m) /\ NextSerial(f, m) \in Nat /\ NextSerial(t, m) \in Nat
<1>1. /\ NextSerial(f, m) \in 1..(MaxSerial + 1)
      /\ \/ NextSerial(f, m) = 1
         \/ NextSerial(f, m) = f.cert[m].serial + 1
         \/ \E s \in f.revoked[m] : NextSerial(f, m) = s + 1
      BY NextSerialIsNew
<1>2. /\ NextSerial(t, m) \in 1..(MaxSerial + 1) /\ \A s \in t.revoked[m] : s < NextSerial(t, m)
      /\ t.cert[m].serial < NextSerial(t, m)
      BY NextSerialIsNew
<1>3. /\ f.cert[m].serial \in Nat /\ t.cert[m].serial \in Nat
      /\ t.revoked[m] \subseteq 1..MaxSerial /\ MaxSerial \in Nat
  <2>1. f.cert[m] \in Cert /\ t.cert[m] \in Cert
        BY DEF Tables
  <2>2. QED  BY <2>1, CertFields, BoundsOfMembership DEF Tables
<1>4. CASE NextSerial(f, m) = 1
      BY <1>1, <1>2, <1>3, <1>4
<1>5. CASE NextSerial(f, m) = f.cert[m].serial + 1 /\ f.cert[m].serial > 0
  <2>1. f.cert[m].serial < NextSerial(t, m)
        BY <1>2, <1>3, <1>5
  <2>2. QED  BY <1>1, <1>2, <1>3, <1>5, <2>1
<1>6. ASSUME NEW s \in f.revoked[m], NextSerial(f, m) = s + 1
      PROVE  NextSerial(f, m) <= NextSerial(t, m)
  <2>1. s \in t.revoked[m]
        OBVIOUS
  <2>2. s \in Nat /\ s < NextSerial(t, m)
        BY <1>2, <1>3, <2>1
  <2>3. QED  BY <1>2, <1>3, <1>6, <2>2
<1>7. QED  BY <1>1, <1>2, <1>3, <1>4, <1>5, <1>6

LEMMA FounderRole ==
    ASSUME MembershipInv, NEW m \in Everyone, NEW role \in Roles, UpdateRole(Founder, m, role)
    PROVE  MembershipInv'
<1> DEFINE f == db[Founder]
<1>1. /\ TypeInv /\ f \in Tables /\ WellKeyed(f) /\ Founder \in Everyone /\ m # Founder /\ m \in Members
      /\ incidents' \in 0..MaxIncidents
      BY TablesOfAll, FounderIsOne, IncidentsCounted DEF MembershipInv, UpdateRole, MayManage, Everyone
<1>2. PICK t : t = RoleUpdated(Founder, m, role)
      OBVIOUS
<1>3. /\ t \in Tables /\ WellKeyed(t) /\ Extends(f, t)
      /\ t.cert[m].serial = NextSerial(f, m) /\ t.cert[m].key \in t.keys
      /\ f.revoked[m] \subseteq t.revoked[m] /\ \A s \in t.revoked[m] : s < NextSerial(f, m)
      /\ \A e \in Everyone \ {m} : t.cert[e] = f.cert[e] /\ t.revoked[e] = f.revoked[e]
      /\ t.member = [f.member EXCEPT ![m] = role]
      /\ t.recovery = f.recovery /\ t.token = f.token
      /\ Rotates(Founder, m, role) => Version(t.chain) > Version(f.chain)
  <2> HIDE DEF f
  <2>1. QED  BY <1>1, <1>2, RoleTables DEF UpdateRole, f
<1>4. t.keys = t.chain /\ Linked(t.chain) /\ Authority \subseteq t.chain
      BY <1>3, ExtendedAuthority
<1>5. /\ db' = [db EXCEPT ![Founder] = t]
      /\ issued' = [issued EXCEPT ![m] = Max({@, t.cert[m].serial})]
      /\ recast' = IF Rotates(Founder, m, role) THEN recast \ {m} ELSE recast \union {m}
      /\ UNCHANGED <<talk, offer, expired, reg, sync, crossed>>
      BY <1>2 DEF UpdateRole, NoteIssued, NoteRecast
<1>6. Max({issued[m], t.cert[m].serial}) \in Serials /\ issued[m] <= Max({issued[m], t.cert[m].serial})
  <2>1. t.cert[m] \in Cert
        BY <1>3 DEF Tables
  <2>2. t.cert[m].serial \in 0..MaxSerial /\ issued[m] \in 0..MaxSerial /\ MaxSerial \in Nat
        BY <1>1, <2>1, CertFields, BoundsOfMembership DEF TypeInv, HistoryType, Serials
  <2>3. QED  BY <2>2, MaxOfTwo DEF Serials
<1>7. TypeInv'
  <2>1. db' \in [Everyone -> Tables] /\ \A d \in Everyone : WellKeyed(db'[d])
        BY <1>1, <1>3, <1>5, TablesSet
  <2>2. HistoryType'
        BY <1>1, <1>5, <1>6 DEF TypeInv, HistoryType
  <2>3. QED  BY <1>1, <1>5, <2>1, <2>2 DEF TypeInv, RegistryType
<1>8. Reworks(t, m)
  <2>1. \A e \in Everyone \ {m} : t.member[e] = f.member[e] /\ issued'[e] = issued[e]
        BY <1>1, <1>3, <1>5 DEF Tables, TypeInv, HistoryType
  <2>2. issued[m] <= issued'[m]
        BY <1>1, <1>5, <1>6 DEF TypeInv, HistoryType
  <2>3. recast \ {m} \subseteq recast'
        BY <1>5
  <2>4. t.chain # {}
        BY <1>3, <1>4
  <2>5. QED  BY <1>3, <1>4, <1>5, <2>1, <2>2, <2>3, <2>4 DEF Reworks
<1>9. /\ FounderInv' /\ SerialInv' /\ Grows
      /\ \A e \in Members \ {m} : FounderKeeps(e)
      /\ \A e \in Members : MemberKeeps(e)
      BY <1>3, <1>4, <1>5, <1>7, <1>8, FounderIssues
<1>10. FounderKeeps(m)
  <2>1. db'[Founder] = t /\ Authority' = t.chain
        BY <1>1, <1>5 DEF TypeInv, Authority
  <2>2. Version(Authority) < Version(Authority') \/ m \in recast'
    <3>1. Version(f.chain) \in Nat /\ Version(t.chain) \in Nat
          BY <1>1, <1>3, VersionIsGreatest, BoundsOfMembership DEF Tables
    <3>2. QED  BY <1>3, <1>5, <2>1, <3>1 DEF Authority
  <2>3. QED  BY <1>3, <2>1, <2>2 DEF FounderKeeps, Expected
<1>11. QED  BY <1>1, <1>5, <1>7, <1>9, <1>10, OthersKept, FounderApart

LEMMA FounderRemoves ==
    ASSUME MembershipInv, NEW m \in Everyone, RemoveMember(Founder, m)
    PROVE  MembershipInv'
<1> DEFINE f == db[Founder]
<1>1. /\ TypeInv /\ f \in Tables /\ WellKeyed(f) /\ Founder \in Everyone /\ m # Founder /\ m \in Members
      /\ incidents' \in 0..MaxIncidents
      BY TablesOfAll, FounderIsOne, IncidentsCounted DEF MembershipInv, RemoveMember, MayManage, Everyone
<1>2. PICK t : t = MemberRemoved(Founder, m)
      OBVIOUS
<1>3. /\ t \in Tables /\ WellKeyed(t) /\ Extends(f, t)
      /\ t.cert = [f.cert EXCEPT ![m] = NoCert]
      /\ f.revoked[m] \subseteq t.revoked[m]
      /\ f.cert[m].serial > 0 => f.cert[m].serial \in t.revoked[m]
      /\ \A e \in Everyone \ {m} : t.revoked[e] = f.revoked[e]
      /\ t.member = [f.member EXCEPT ![m] = "none"]
      /\ t.recovery = [f.recovery EXCEPT ![m] = 0]
  <2> HIDE DEF f
  <2>1. db[Founder] \in Tables /\ WellKeyed(db[Founder]) /\ Founder \in Everyone
        BY <1>1 DEF f
  <2>2. db[Founder].member[m] = "admin" => CanSign(db[Founder]) /\ Version(db[Founder].chain) < MaxVersion
        BY DEF RemoveMember
  <2>3. /\ MemberRemoved(Founder, m) \in Tables /\ WellKeyed(MemberRemoved(Founder, m))
        /\ Extends(db[Founder], MemberRemoved(Founder, m))
        BY <1>1, <2>1, <2>2, RemovedTables
  <2>4. /\ db[Founder].revoked[m] \subseteq MemberRemoved(Founder, m).revoked[m]
        /\ db[Founder].cert[m].serial > 0
             => db[Founder].cert[m].serial \in MemberRemoved(Founder, m).revoked[m]
        /\ \A e \in Everyone \ {m} : MemberRemoved(Founder, m).revoked[e] = db[Founder].revoked[e]
        BY <1>1, <2>1, <2>2, RemovedTables
  <2>5. /\ MemberRemoved(Founder, m).cert = [db[Founder].cert EXCEPT ![m] = NoCert]
        /\ MemberRemoved(Founder, m).member = [db[Founder].member EXCEPT ![m] = "none"]
        /\ MemberRemoved(Founder, m).recovery = [db[Founder].recovery EXCEPT ![m] = 0]
        BY <1>1, <2>1, <2>2, RemovedTables
  <2>6. QED  BY <1>2, <2>3, <2>4, <2>5 DEF f
<1>4. t.keys = t.chain /\ Linked(t.chain) /\ Authority \subseteq t.chain
      BY <1>3, ExtendedAuthority
<1>5. /\ db' = [db EXCEPT ![Founder] = t]
      /\ UNCHANGED <<talk, offer, expired, reg, sync, issued, crossed, recast>>
      BY <1>2 DEF RemoveMember
<1>6. TypeInv'
  <2>1. db' \in [Everyone -> Tables] /\ \A d \in Everyone : WellKeyed(db'[d])
        BY <1>1, <1>3, <1>5, TablesSet
  <2>2. QED  BY <1>1, <1>5, <2>1 DEF TypeInv, HistoryType, RegistryType
<1>7. t.cert[m] = NoCert /\ t.member[m] = "none" /\ t.recovery[m] = 0
      BY <1>1, <1>3 DEF Tables
<1>8. Reworks(t, m)
  <2>1. \A e \in Everyone \ {m} : /\ t.cert[e] = f.cert[e] /\ t.member[e] = f.member[e]
                                  /\ t.recovery[e] = f.recovery[e]
        BY <1>1, <1>3 DEF Tables
  <2>2. issued[m] <= issued'[m]
        BY <1>1, <1>5, BoundsOfMembership DEF TypeInv, HistoryType, Serials
  <2>3. ASSUME t.chain = {}, NEW e \in Members PROVE t.member[e] = "none"
    <3>1. f.member[e] = "none"
          BY <1>4, <2>3 DEF MembershipInv, FounderInv
    <3>2. QED  BY <1>7, <2>1, <3>1, FounderIsOne
  <2>4. QED  BY <1>3, <1>4, <1>5, <2>1, <2>2, <2>3 DEF Reworks
<1>9. NextSerial(f, m) <= NextSerial(t, m) /\ NextSerial(f, m) \in Nat /\ NextSerial(t, m) \in Nat
  <2>1. f.cert[m].serial = 0 \/ f.cert[m].serial \in t.revoked[m]
    <3>1. f.cert[m].serial \in Nat
          BY <1>1, TablesOfAll, CertFields
    <3>2. QED  BY <1>3, <3>1
  <2> HIDE DEF f
  <2>2. QED  BY <1>1, <1>3, <2>1, NextSerialGrows
<1>10. m \notin crossed' => NextSerial(t, m) > issued'[m]
  <2>1. SUFFICES ASSUME m \notin crossed PROVE NextSerial(t, m) > issued[m]
        BY <1>5
  <2>2. NextSerial(f, m) > issued[m] /\ issued[m] \in Nat
        BY <1>1, <2>1, BoundsOfMembership DEF MembershipInv, SerialInv, TypeInv, HistoryType, Serials
  <2>3. QED  BY <1>9, <2>2
<1>11. db'[Founder] = t
       BY <1>1, <1>5 DEF TypeInv
<1>12. CurrentOK(m)'
       BY <1>7, <1>11 DEF CurrentOK
<1>13. ~(t.cert[m].serial > 0)
       BY <1>7 DEF NoCert
<1>14. /\ FounderInv' /\ SerialInv' /\ Grows
       /\ \A e \in Members \ {m} : FounderKeeps(e)
       /\ \A e \in Members : MemberKeeps(e)
       BY <1>6, <1>8, <1>10, <1>12, <1>13, AtFounder
<1>15. FounderKeeps(m)
       BY <1>7, <1>11 DEF FounderKeeps, Expected
<1>16. QED  BY <1>1, <1>5, <1>6, <1>14, <1>15, OthersKept, FounderApart

LEMMA PersistAtFounder ==
    ASSUME MembershipInv, NEW c \in Ways, Persist(c), talk[c].turn # Founder
    PROVE  MembershipInv'
<1> DEFINE f == db[Founder]
<1>1. /\ TypeInv /\ TalkTyped(c, talk[c]) /\ Fits(talk[c]) /\ Founder \in Everyone
      /\ f \in Tables /\ WellKeyed(f)
      BY TalkOfWay, TablesOfAll, FounderIsOne DEF MembershipInv
<1>2. PICK m \in Members : m = talk[c].turn
      BY <1>1, WayEnds DEF TalkTyped
<1>3. PICK x \in Cert : x = talk[c].cert
      BY <1>1 DEF TalkTyped, Talks
<1>4. PICK theirs \in SUBSET Keys : theirs = talk[c].chain
      BY <1>1 DEF TalkTyped, Talks
<1>5. Other(c, m) = Founder /\ m \in Everyone /\ m # Founder
      BY <1>1, <1>2, WayEnds, FounderIsOne, FounderApart DEF TalkTyped
<1>6. /\ OneKeyPerVersion(theirs) /\ x.serial > 0 /\ ValidChain(theirs) /\ x.key = ChainHead(theirs)
      /\ x.key \in f.chain /\ x.serial <= issued[m]
      BY <1>1, <1>2, <1>3, <1>4 DEF TalkTyped, Fits, Signed, Persist, Authority
<1>7. f.keys = f.chain /\ Linked(f.chain) /\ f.chain \in SUBSET Keys /\ Authority = f.chain
      /\ OneKeyPerVersion(f.chain)
      BY <1>1 DEF MembershipInv, FounderInv, Authority, Tables, WellKeyed
<1>8. SaveChain(f.chain, theirs) = f.chain
  <2> HIDE DEF f
  <2>1. theirs \subseteq f.chain
        BY <1>6, <1>7, ChainWithin
  <2>2. QED  BY <1>7, <2>1, SavedChain
<1>9. PICK t : t = Stored(f, m, x, theirs)
      OBVIOUS
<1>10. /\ t \in Tables /\ WellKeyed(t) /\ t.chain = f.chain /\ t.keys = f.keys
       /\ t.cert = [f.cert EXCEPT ![m] = x] /\ t.revoked = f.revoked
       /\ t.member = f.member /\ t.recovery = f.recovery /\ t.token = f.token
  <2> HIDE DEF f
  <2>1. QED  BY <1>1, <1>5, <1>6, <1>8, <1>9, StoredTables
<1>11. /\ db' = [db EXCEPT ![Founder] = t]
       /\ crossed' = IF x.serial < f.cert[m].serial THEN crossed \union {m} ELSE crossed
       /\ UNCHANGED <<offer, expired, reg, sync, issued, recast, incidents>>
       BY <1>2, <1>3, <1>4, <1>5, <1>9 DEF Persist, TypeInv
<1>12. PICK z : z = IF m = c[1] THEN [Idle(c) EXCEPT !.step = "due", !.turn = Founder] ELSE Idle(c)
       OBVIOUS
<1>13. TalkTyped(c, z) /\ Silent(z) /\ talk' = [talk EXCEPT ![c] = z]
  <2>1. Founder \in {c[1], c[2]}
        BY <1>1, <1>2, <1>5, WayEnds DEF TalkTyped
  <2>2. TalkTyped(c, z) /\ Silent(z)
        BY <1>1, <1>12, <2>1, DueIsSilent, IdleIsSilent, IdleFits
  <2>3. talk' = [talk EXCEPT ![c] = z]
        BY <1>2, <1>5, <1>12 DEF Persist
  <2>4. QED  BY <2>2, <2>3
<1>14. /\ talk' \in [Ways -> Talks] /\ talk'[c] = z
       /\ \A w \in Ways : OneKeyPerVersion(talk'[w].chain) /\ talk'[w].turn \in {w[1], w[2]}
       /\ \A w \in Ways \ {c} : talk'[w] = talk[w]
       BY <1>1, <1>13, TalkSet
<1>15. TypeInv'
  <2>1. db' \in [Everyone -> Tables] /\ \A d \in Everyone : WellKeyed(db'[d])
        BY <1>1, <1>10, <1>11, TablesSet
  <2>2. HistoryType'
        BY <1>1, <1>5, <1>11 DEF TypeInv, HistoryType
  <2>3. QED  BY <1>1, <1>11, <1>14, <2>1, <2>2 DEF TypeInv, RegistryType
<1>16. \A e \in Everyone \ {m} : t.cert[e] = f.cert[e]
       BY <1>1, <1>5, <1>10 DEF Tables
<1>17. t.cert[m] = x /\ db'[Founder] = t /\ issued[m] \in Nat /\ x.serial \in Nat /\ f.cert[m].serial \in Nat
       BY <1>1, <1>3, <1>5, <1>10, <1>11, TablesOfAll, CertFields, BoundsOfMembership
          DEF Tables, TypeInv, HistoryType, Serials
<1>18. Reworks(t, m)
  <2>1. issued[m] <= issued'[m] /\ crossed \subseteq crossed' /\ t.chain # {}
        BY <1>6, <1>10, <1>11, <1>17
  <2>2. QED  BY <1>7, <1>10, <1>11, <1>16, <2>1 DEF Reworks
<1>19. m \notin crossed' => m \notin crossed /\ f.cert[m].serial <= x.serial
       BY <1>11, <1>17
<1>20. m \notin crossed' => NextSerial(t, m) > issued'[m]
  <2>1. SUFFICES ASSUME m \notin crossed' PROVE NextSerial(t, m) > issued[m]
        BY <1>11
  <2>2. NextSerial(f, m) <= NextSerial(t, m) /\ NextSerial(f, m) \in Nat /\ NextSerial(t, m) \in Nat
    <3>1. f.cert[m].serial <= t.cert[m].serial /\ f.revoked[m] \subseteq t.revoked[m]
          BY <1>10, <1>17, <1>19, <2>1
    <3> HIDE DEF f
    <3>2. QED  BY <1>1, <1>5, <1>10, <3>1, NextSerialGrows
  <2>3. NextSerial(f, m) > issued[m]
        BY <1>5, <1>19, <2>1 DEF MembershipInv, SerialInv
  <2>4. QED  BY <1>17, <2>2, <2>3
<1>21. CurrentOK(m)'
  <2>1. SUFFICES ASSUME m \notin crossed', f.member[m] # "none"
                 PROVE  x.serial = issued[m] /\ issued[m] > 0 /\ \A s \in f.revoked[m] : s < issued[m]
        BY <1>10, <1>11, <1>17 DEF CurrentOK
  <2>2. f.cert[m].serial = issued[m] /\ issued[m] > 0 /\ \A s \in f.revoked[m] : s < issued[m]
        BY <1>19, <2>1 DEF MembershipInv, SerialInv, CurrentOK
  <2>3. QED  BY <1>6, <1>17, <1>19, <2>1, <2>2
<1>22. /\ FounderInv' /\ SerialInv' /\ Grows
       /\ \A e \in Members \ {m} : FounderKeeps(e)
       /\ \A e \in Members : MemberKeeps(e)
  <2>1. t.cert[m].serial > 0 => t.cert[m].key \in t.chain /\ t.cert[m].serial <= issued'[m]
        BY <1>6, <1>10, <1>11, <1>17
  <2>2. QED  BY <1>5, <1>15, <1>18, <1>20, <1>21, <2>1, AtFounder
<1>23. FounderKeeps(m)
       BY <1>10, <1>11, <1>17, <1>19 DEF FounderKeeps, Expected
<1>24. \A w \in Ways : TalkOK(w)' \/ (talk'[w] = talk[w] /\ talk[w].turn \notin Members \intersect {Founder})
       BY <1>13, <1>14, <1>15, SilentFits, FounderApart
<1>25. \A e \in Members : FounderKeeps(e) /\ MemberKeeps(e) /\ offer'[e] \in {offer[e], NoOffer}
       BY <1>11, <1>22, <1>23
<1>26. QED  BY <1>1, <1>15, <1>22, <1>24, <1>25, OthersKept, FounderApart

LEMMA IssuedTyped ==
    ASSUME TypeInv, NEW m \in Everyone, NEW n \in Serials,
           issued' = [issued EXCEPT ![m] = Max({@, n})]
    PROVE  /\ issued' \in [Everyone -> Serials] /\ issued[m] <= issued'[m]
           /\ \A e \in Everyone \ {m} : issued'[e] = issued[e]
<1>1. issued[m] \in 0..MaxSerial /\ n \in 0..MaxSerial /\ MaxSerial \in Nat /\ issued \in [Everyone -> Serials]
      BY BoundsOfMembership DEF TypeInv, HistoryType, Serials
<1>2. Max({issued[m], n}) \in 0..MaxSerial /\ issued[m] <= Max({issued[m], n})
      BY <1>1, MaxOfTwo
<1>3. QED  BY <1>1, <1>2 DEF Serials

\* A conversation that goes on while m, whose turn it is, is issued a certificate.
LEMMA TalkAfterIssue ==
    ASSUME MembershipInv, TypeInv', Grows, NEW w \in Ways, talk'[w] = talk[w],
           talk[w].step = "grant" => talk[w].turn \in crossed',
           talk[w].step = "ask" /\ talk[w].turn \notin crossed' /\ offer'[talk[w].turn] # NoOffer
             => talk[w].token < offer'[talk[w].turn].token
    PROVE  TalkOK(w)'
<1>1. /\ TypeInv /\ talk[w].turn \in Everyone /\ talk[w].cert \in Cert /\ talk[w].token \in Nat
      /\ Fits(talk[w])
      BY TalkOfWay, BoundsOfMembership DEF MembershipInv, TypeInv, Talks, Serials
<1>2. PICK m \in Everyone : m = talk[w].turn
      BY <1>1
<1>3. PICK x \in Cert : x = talk[w].cert
      BY <1>1
<1>4. issued[m] \in Nat /\ issued'[m] \in Nat /\ issued[m] <= issued'[m] /\ Authority \subseteq Authority'
      BY <1>1, BoundsOfMembership DEF TypeInv, HistoryType, Serials, Grows
<1>5. Signed(m, x) /\ talk[w].token <= issued[m]
      BY <1>1, <1>2, <1>3 DEF Fits
<1>6. x.serial > 0 => x.key \in Authority' /\ x.serial <= issued'[m]
      BY <1>1, <1>5, SignedStays
<1>7. talk[w].token <= issued'[m]
      BY <1>1, <1>4, <1>5
<1>8. talk[w].step = "grant" =>
        talk[w].chain \subseteq Authority' /\ x.serial > 0 /\ ~InPlace(m)' /\ m \in crossed'
      BY <1>1, <1>2, <1>3, <1>4 DEF Fits, InPlace, Expected
<1>9. QED  BY <1>1, <1>2, <1>3, <1>6, <1>7, <1>8 DEF TalkOK, Fits, Signed, Offered

LEMMA SpeakReissuedStep ==
    ASSUME MembershipInv, NEW c \in Ways, SpeakReissued(c)
    PROVE  MembershipInv'
<1> DEFINE f == db[Founder]
<1>1. TypeInv /\ Founder \in Everyone /\ f.member[Founder] \in Roles \union {"none"} /\ Speaker(c) = Founder
      BY TablesOfAll, FounderIsOne DEF MembershipInv, SpeakReissued
<1>2. PICK t : t = Issue(WithAuthority(f), Founder, f.member[Founder])
      OBVIOUS
<1>3. /\ t \in Tables /\ WellKeyed(t) /\ t.keys = t.chain /\ Linked(t.chain) /\ Authority \subseteq t.chain
      /\ t.chain # {} /\ t.cert[Founder].serial = NextSerial(f, Founder) /\ t.cert[Founder].key \in t.chain
      /\ f.revoked[Founder] \subseteq t.revoked[Founder]
      /\ \A s \in t.revoked[Founder] : s < NextSerial(f, Founder)
      /\ \A e \in Everyone \ {Founder} : t.cert[e] = f.cert[e] /\ t.revoked[e] = f.revoked[e]
      /\ t.member = f.member /\ t.recovery = f.recovery
      BY <1>1, <1>2, FounderSignsFor DEF SpeakReissued
<1>4. PICK x : x = Says(c, t)
      OBVIOUS
<1>5. /\ db' = [db EXCEPT ![Founder] = t] /\ talk' = [talk EXCEPT ![c] = x]
      /\ issued' = [issued EXCEPT ![Founder] = Max({@, t.cert[Founder].serial})]
      /\ UNCHANGED <<offer, expired, reg, sync, crossed, recast, incidents>>
      BY <1>2, <1>4 DEF SpeakReissued
<1>6. TalkTyped(c, x) /\ x.step = "auth" /\ x.turn = Founder /\ x.cert = t.cert[Founder] /\ x.token = 0
      BY <1>1, <1>3, <1>4, SaysTyped
<1>7. /\ talk' \in [Ways -> Talks] /\ talk'[c] = x
      /\ \A w \in Ways : OneKeyPerVersion(talk'[w].chain) /\ talk'[w].turn \in {w[1], w[2]}
      /\ \A w \in Ways \ {c} : talk'[w] = talk[w]
      BY <1>1, <1>5, <1>6, TalkSet
<1>8. t.cert[Founder].serial \in Serials
      BY <1>1, <1>3, CertFields DEF Tables
<1>9. /\ issued' \in [Everyone -> Serials] /\ issued[Founder] <= issued'[Founder]
      /\ \A e \in Everyone \ {Founder} : issued'[e] = issued[e]
      BY <1>1, <1>5, <1>8, IssuedTyped
<1>10. TypeInv'
  <2>1. db' \in [Everyone -> Tables] /\ (\A d \in Everyone : WellKeyed(db'[d])) /\ db'[Founder] = t
        BY <1>1, <1>3, <1>5, TablesSet
  <2>2. HistoryType'
        BY <1>1, <1>5, <1>9 DEF TypeInv, HistoryType
  <2>3. QED  BY <1>1, <1>5, <1>7, <2>1, <2>2 DEF TypeInv, RegistryType
<1>11. Reworks(t, Founder)
       BY <1>3, <1>5, <1>9 DEF Reworks
<1>12. /\ FounderInv' /\ SerialInv' /\ Grows
       /\ \A e \in Members : FounderKeeps(e) /\ MemberKeeps(e)
       /\ t.cert[Founder].serial <= issued'[Founder]
       BY <1>1, <1>3, <1>5, <1>10, <1>11, FounderIssues, FounderApart
<1>13. TalkOK(c)'
  <2>1. 0 <= issued'[Founder]
        BY <1>1, <1>9, BoundsOfMembership DEF Serials
  <2>2. Authority' = t.chain
        BY <1>1, <1>5 DEF Authority, TypeInv
  <2>3. Signed(Founder, t.cert[Founder])'
        BY <1>3, <1>12, <2>2 DEF Signed
  <2>4. QED  BY <1>6, <1>7, <2>1, <2>3 DEF TalkOK, Fits, Signed
<1>14. \A w \in Ways : TalkOK(w)' \/ (talk'[w] = talk[w] /\ talk[w].turn \notin Members \intersect {Founder})
       BY <1>7, <1>13, FounderApart
<1>15. QED  BY <1>1, <1>5, <1>10, <1>12, <1>14, OthersKept, FounderApart

LEMMA ServeStep ==
    ASSUME MembershipInv, NEW c \in Ways, ServeRefresh(c)
    PROVE  MembershipInv'
<1> DEFINE f == db[Founder]
<1>1. /\ TypeInv /\ TalkTyped(c, talk[c]) /\ Fits(talk[c]) /\ Founder \in Everyone
      /\ f \in Tables /\ WellKeyed(f) /\ talk[c].step = "ask" /\ Recognised(c)
      BY TalkOfWay, TablesOfAll, FounderIsOne DEF MembershipInv, ServeRefresh
<1>2. PICK m \in Members : m = talk[c].turn
      BY <1>1 DEF Fits
<1>3. /\ m \in Everyone /\ m # Founder /\ Speaker(c) = m /\ f.recovery[m] = talk[c].token
      /\ f.member[m] \in Roles \union {"none"} /\ f.member[m] # "none"
      BY <1>1, <1>2, TablesOfAll, FounderIsOne, FounderApart DEF Speaker, Recognised
<1>4. WithAuthority(f) = f /\ CanSign(f)
  <2>1. f.chain # {}
        BY <1>3 DEF MembershipInv, FounderInv, Authority
  <2>2. WithAuthority(f) = f
        BY <2>1 DEF WithAuthority
  <2>3. CanSign(f)
        BY <1>1, <2>1, FounderCanSign DEF MembershipInv, FounderSigns
  <2>4. QED  BY <2>2, <2>3
<1>5. PICK t : t = Issue(f, m, f.member[m])
      OBVIOUS
<1>6. /\ t \in Tables /\ WellKeyed(t) /\ t.keys = t.chain /\ Linked(t.chain) /\ Authority \subseteq t.chain
      /\ t.chain # {} /\ t.cert[m].serial = NextSerial(f, m) /\ t.cert[m].key \in t.chain
      /\ SigningKey(t) \in Keys
      /\ f.revoked[m] \subseteq t.revoked[m]
      /\ \A s \in t.revoked[m] : s < NextSerial(f, m)
      /\ \A e \in Everyone \ {m} : t.cert[e] = f.cert[e] /\ t.revoked[e] = f.revoked[e]
      /\ t.member = f.member /\ t.recovery = f.recovery
  <2>1. NextSerial(f, m) <= MaxSerial
        BY <1>3 DEF ServeRefresh
  <2>2. QED  BY <1>3, <1>4, <1>5, <2>1, FounderSignsFor
<1>7. PICK x : x = [step |-> "grant", turn |-> m, cert |-> t.cert[m], chain |-> t.chain, token |-> 0,
                    keys |-> IF t.cert[m].role = "admin" THEN {SigningKey(t)} ELSE {}]
      OBVIOUS
<1>8. /\ db' = [db EXCEPT ![Founder] = t] /\ talk' = [talk EXCEPT ![c] = x]
      /\ issued' = [issued EXCEPT ![m] = Max({@, t.cert[m].serial})]
      /\ UNCHANGED <<offer, expired, reg, sync, recast, incidents>>
      BY <1>3, <1>5, <1>7 DEF ServeRefresh, GrantsTo
<1>9. /\ crossed \subseteq crossed' /\ crossed' \subseteq Everyone
      /\ m \notin crossed' =>
           /\ NeedsReissue(m)
           /\ \A w \in Ways : ~(talk[w].turn = m /\ talk[w].step = "grant")
  <2>1. NoteCrossing(m) /\ talk[c].turn = m /\ talk[c].step = "ask"
        BY <1>1, <1>2, <1>3 DEF ServeRefresh
  <2>2. QED  BY <1>1, <1>3, <2>1 DEF NoteCrossing, TypeInv, HistoryType
<1>10. TalkTyped(c, x) /\ x.step = "grant" /\ x.turn = m /\ x.cert = t.cert[m] /\ x.chain = t.chain /\ x.token = 0
  <2>1. 0 \in Serials /\ t.cert[m] \in Cert /\ t.chain \in SUBSET Keys /\ OneKeyPerVersion(t.chain)
        BY <1>3, <1>6, BoundsOfMembership DEF Serials, Tables, WellKeyed
  <2>2. m \in {c[1], c[2]}
        BY <1>1, <1>2 DEF TalkTyped
  <2>3. QED  BY <1>3, <1>6, <1>7, <2>1, <2>2 DEF TalkTyped, Talks, Steps
<1>11. /\ talk' \in [Ways -> Talks] /\ talk'[c] = x
       /\ \A w \in Ways : OneKeyPerVersion(talk'[w].chain) /\ talk'[w].turn \in {w[1], w[2]}
       /\ \A w \in Ways \ {c} : talk'[w] = talk[w]
       BY <1>1, <1>8, <1>10, TalkSet
<1>12. t.cert[m].serial \in Serials
       BY <1>3, <1>6, CertFields DEF Tables
<1>13. /\ issued' \in [Everyone -> Serials] /\ issued[m] <= issued'[m]
       /\ \A e \in Everyone \ {m} : issued'[e] = issued[e]
       BY <1>1, <1>3, <1>8, <1>12, IssuedTyped
<1>14. db' \in [Everyone -> Tables] /\ (\A d \in Everyone : WellKeyed(db'[d])) /\ db'[Founder] = t
       /\ \A d \in Everyone \ {Founder} : db'[d] = db[d]
       BY <1>1, <1>6, <1>8, TablesSet
<1>15. TypeInv'
  <2>1. HistoryType'
        BY <1>1, <1>8, <1>9, <1>13 DEF TypeInv, HistoryType
  <2>2. QED  BY <1>1, <1>8, <1>11, <1>14, <2>1 DEF TypeInv, RegistryType
<1>16. Reworks(t, m)
       BY <1>6, <1>8, <1>9, <1>13 DEF Reworks
<1>17. /\ FounderInv' /\ SerialInv' /\ Grows
       /\ \A e \in Members \ {m} : FounderKeeps(e)
       /\ \A e \in Members : MemberKeeps(e)
       /\ t.cert[m].serial > 0 /\ t.cert[m].serial <= issued'[m]
       /\ m \notin crossed' => issued'[m] = t.cert[m].serial
       BY <1>3, <1>6, <1>8, <1>15, <1>16, FounderIssues
<1>18. Authority' = t.chain /\ db'[m] = db[m] /\ db'[Founder].recovery[m] = f.recovery[m]
       BY <1>3, <1>6, <1>14 DEF Authority
<1>19. OwnOK(m)'
  <2>1. OwnOK(m) /\ db[m].cert[m] \in Cert /\ db[m].token \in Nat
        BY <1>1, <1>3, TablesOfAll, BoundsOfMembership DEF MembershipInv, ReachInv, Serials
  <2>2. PICK y \in Cert : y = db[m].cert[m]
        BY <2>1
  <2>3. Signed(m, y) /\ db[m].token <= issued[m]
        BY <2>1, <2>2 DEF OwnOK
  <2>4. y.serial > 0 => y.key \in Authority' /\ y.serial <= issued'[m]
        BY <1>1, <1>3, <1>15, <1>17, <2>3, SignedStays
  <2>5. db[m].token <= issued'[m]
        BY <1>1, <1>3, <1>13, <2>1, <2>3, BoundsOfMembership DEF TypeInv, HistoryType, Serials
  <2>6. InPlace(m)' => NeedsReissue(m)'
    <3>1. InPlace(m)' => m \notin crossed'
          BY DEF InPlace, Expected
    <3>2. NeedsReissue(m) => NeedsReissue(m)'
          BY <1>8, <1>18 DEF NeedsReissue
    <3>3. QED  BY <1>9, <3>1, <3>2
  <2>7. QED  BY <1>18, <2>2, <2>4, <2>5, <2>6 DEF OwnOK, Signed
<1>20. m \notin crossed' /\ offer'[m] # NoOffer => offer'[m].token # db'[Founder].recovery[m]
  <2>1. SUFFICES ASSUME m \notin crossed', Offered(m), offer[m].token = talk[c].token PROVE FALSE
        BY <1>3, <1>8, <1>18 DEF Offered
  <2>2. talk[c].token < offer[m].token /\ talk[c].token \in Nat
        BY <1>1, <1>2, <1>9, <2>1, BoundsOfMembership DEF Fits, TalkTyped, Talks, Serials
  <2>3. QED  BY <2>1, <2>2
<1>21. OfferOK(m)'
  <2>1. SUFFICES ASSUME Offered(m) PROVE OfferOK(m)'
        BY <1>8 DEF OfferOK, Offered
  <2>2. OfferOK(m) /\ offer[m].cert \in Cert
        BY <1>1 DEF MembershipInv, ReachInv, TypeInv, Offers
  <2>3. PICK o : o = offer[m]
        OBVIOUS
  <2>4. o.cert.serial > 0 => o.cert.key \in Authority' /\ o.cert.serial <= issued'[m]
        BY <1>1, <1>3, <1>15, <1>17, <2>1, <2>2, <2>3, SignedStays DEF OfferOK
  <2>5. offer'[m] = o /\ Offered(m)' /\ (m \notin crossed' => m \notin crossed)
        BY <1>8, <1>9, <2>1, <2>3 DEF Offered
  <2>6. ~(Expected(m)' /\ o.token = db'[Founder].recovery[m])
        BY <1>20, <2>5 DEF Expected, Offered
  <2>7. QED  BY <1>18, <2>1, <2>2, <2>3, <2>4, <2>5, <2>6 DEF OfferOK, Signed
<1>22. TalkOK(c)'
  <2>1. Signed(m, t.cert[m])' /\ (m \notin crossed' => Newest(m, t.cert[m])')
        BY <1>6, <1>17, <1>18 DEF Signed, Newest
  <2>2. 0 <= issued'[m]
        BY <1>3, <1>13, BoundsOfMembership DEF Serials
  <2>3. Signed(m, x.cert)' /\ (InPlace(m)' => Newest(m, x.cert)')
        BY <1>10, <2>1 DEF InPlace, Expected, Signed, Newest
  <2>4. QED  BY <1>10, <1>11, <1>17, <1>18, <1>20, <2>2, <2>3 DEF TalkOK, Fits, Signed, Newest, Offered
<1>23. ASSUME NEW w \in Ways \ {c}, talk[w].turn = m PROVE TalkOK(w)'
  <2>1. talk[w].step = "grant" => m \in crossed'
        BY <1>9, <1>23
  <2>2. talk[w].step = "ask" /\ m \notin crossed' /\ offer'[m] # NoOffer => talk[w].token < offer'[m].token
        BY <1>8, <1>9, <1>23, TalkOfWay DEF Fits, Offered
  <2>3. QED  BY <1>11, <1>15, <1>17, <1>23, <2>1, <2>2, TalkAfterIssue
<1>24. \A w \in Ways : TalkOK(w)' \/ (talk'[w] = talk[w] /\ talk[w].turn \notin Members \intersect {m})
       BY <1>11, <1>22, <1>23
<1>25. QED  BY <1>3, <1>8, <1>15, <1>17, <1>19, <1>21, <1>24, OthersKept

LEMMA ApproveTyped ==
    ASSUME MembershipInv, NEW m \in Members, NEW role \in Roles, ApproveJoin(m, role)
    PROVE  /\ TypeInv' /\ FounderInv' /\ SerialInv' /\ Grows
           /\ \A e \in Members \ {m} : FounderKeeps(e) /\ offer'[e] = offer[e]
           /\ \A e \in Members : MemberKeeps(e) /\ db'[e] = db[e]
           /\ talk' = talk /\ offer'[m].token = offer'[m].cert.serial /\ offer'[m].token > 0
           /\ offer'[m].cert.key \in Authority' /\ offer'[m].cert.serial <= issued'[m]
           /\ offer'[m].cert.serial \in Nat
           /\ m \notin crossed' =>
                /\ offer'[m].cert.serial > issued[m] /\ offer'[m].cert.serial = issued'[m]
                /\ \A w \in Ways : ~(talk[w].turn = m /\ talk[w].step = "grant")
           /\ db'[Founder].recovery[m] = offer'[m].token
<1> DEFINE f == db[Founder]
<1>1. /\ TypeInv /\ f \in Tables /\ WellKeyed(f) /\ Founder \in Everyone /\ m \in Everyone /\ m # Founder
      /\ incidents' \in 0..MaxIncidents /\ role \in Roles \union {"none"}
      BY TablesOfAll, FounderIsOne, FounderApart, IncidentsCounted DEF MembershipInv, ApproveJoin
<1>2. PICK t : t = Issue(WithAuthority(f), m, role)
      OBVIOUS
<1>3. /\ t \in Tables /\ WellKeyed(t) /\ t.keys = t.chain /\ Linked(t.chain) /\ Authority \subseteq t.chain
      /\ t.chain # {} /\ t.cert[m].serial = NextSerial(f, m) /\ t.cert[m].key \in t.chain
      /\ SigningKey(t) \in Keys
      /\ f.revoked[m] \subseteq t.revoked[m]
      /\ \A s \in t.revoked[m] : s < NextSerial(f, m)
      /\ \A e \in Everyone \ {m} : t.cert[e] = f.cert[e] /\ t.revoked[e] = f.revoked[e]
      /\ t.member = f.member /\ t.recovery = f.recovery
      BY <1>1, <1>2, FounderSignsFor DEF ApproveJoin
<1>4. t.cert[m] \in Cert /\ t.cert[m].serial \in Serials
      BY <1>1, <1>3, CertFields DEF Tables
<1>5. PICK v : v = [t EXCEPT !.member[m] = role]
      OBVIOUS
<1>6. /\ v \in Tables /\ v.chain = t.chain /\ v.keys = t.keys /\ v.cert = t.cert /\ v.revoked = t.revoked
      /\ v.member = [t.member EXCEPT ![m] = role] /\ v.recovery = t.recovery
      BY <1>1, <1>3, <1>5 DEF Tables
<1>7. PICK u : u = [v EXCEPT !.recovery[m] = t.cert[m].serial]
      OBVIOUS
<1>8. /\ u \in Tables /\ u.chain = t.chain /\ u.keys = t.keys /\ u.cert = t.cert /\ u.revoked = t.revoked
      /\ u.member = [t.member EXCEPT ![m] = role] /\ u.recovery = [t.recovery EXCEPT ![m] = t.cert[m].serial]
      BY <1>1, <1>4, <1>6, <1>7 DEF Tables
<1>9. WellKeyed(u)
      BY <1>3, <1>8 DEF WellKeyed
<1>10. PICK o : o = [cert |-> t.cert[m], keys |-> IF role = "admin" THEN {SigningKey(t)} ELSE {},
                     token |-> t.cert[m].serial, owner |-> "admin"]
       OBVIOUS
<1>11. o \in Offers /\ o.cert = t.cert[m] /\ o.token = t.cert[m].serial
       BY <1>3, <1>4, <1>10, AdminAmongRoles DEF Offers
<1>12. /\ db' = [db EXCEPT ![Founder] = u] /\ offer' = [offer EXCEPT ![m] = o]
       /\ issued' = [issued EXCEPT ![m] = Max({@, t.cert[m].serial})]
       /\ recast' = recast \ {m} /\ NoteCrossing(m) /\ UNCHANGED <<talk, expired, reg, sync>>
       BY <1>2, <1>5, <1>7, <1>10 DEF ApproveJoin
<1>13. /\ crossed \subseteq crossed' /\ crossed' \subseteq Everyone
       /\ m \notin crossed' => \A w \in Ways : ~(talk[w].turn = m /\ talk[w].step = "grant")
       BY <1>1, <1>12 DEF NoteCrossing, TypeInv, HistoryType
<1>14. /\ issued' \in [Everyone -> Serials] /\ issued[m] <= issued'[m]
       /\ \A e \in Everyone \ {m} : issued'[e] = issued[e]
       BY <1>1, <1>4, <1>12, IssuedTyped
<1>15. db' \in [Everyone -> Tables] /\ (\A d \in Everyone : WellKeyed(db'[d])) /\ db'[Founder] = u
       /\ \A d \in Everyone \ {Founder} : db'[d] = db[d]
       BY <1>1, <1>8, <1>9, <1>12, TablesSet
<1>16. offer' \in [Members -> Offers] /\ offer'[m] = o /\ \A e \in Members \ {m} : offer'[e] = offer[e]
       BY <1>1, <1>11, <1>12 DEF TypeInv
<1>17. TypeInv'
  <2>1. HistoryType'
        BY <1>1, <1>12, <1>13, <1>14 DEF TypeInv, HistoryType
  <2>2. QED  BY <1>1, <1>12, <1>15, <1>16, <2>1 DEF TypeInv, RegistryType
<1>18. Reworks(u, m)
  <2>1. \A e \in Everyone \ {m} : u.member[e] = f.member[e] /\ u.recovery[e] = f.recovery[e]
        BY <1>1, <1>3, <1>8 DEF Tables
  <2>2. QED  BY <1>3, <1>8, <1>9, <1>12, <1>13, <1>14, <2>1 DEF Reworks
<1>19. /\ FounderInv' /\ SerialInv' /\ Grows
       /\ \A e \in Members \ {m} : FounderKeeps(e)
       /\ \A e \in Members : MemberKeeps(e)
       /\ u.cert[m].serial \in Nat /\ u.cert[m].serial > 0 /\ u.cert[m].serial <= issued'[m]
       /\ m \notin crossed' => issued'[m] = u.cert[m].serial /\ u.cert[m].serial > issued[m]
       BY <1>1, <1>3, <1>8, <1>12, <1>17, <1>18, FounderIssues
<1>20. Authority' = t.chain /\ db'[Founder].recovery[m] = o.token
       BY <1>1, <1>3, <1>8, <1>11, <1>15 DEF Authority, Tables
<1>21. o.cert = u.cert[m] /\ o.token = u.cert[m].serial /\ o.cert.key \in t.chain
       BY <1>3, <1>8, <1>11
<1>22. \A e \in Members : db'[e] = db[e]
       BY <1>15, FounderIsOne, FounderApart
<1>23. QED  BY <1>12, <1>13, <1>16, <1>17, <1>19, <1>20, <1>21, <1>22

LEMMA ApproveStep ==
    ASSUME MembershipInv, NEW m \in Members, NEW role \in Roles, ApproveJoin(m, role)
    PROVE  MembershipInv'
<1>1. PICK o : o = offer'[m]
      OBVIOUS
<1>2. /\ TypeInv' /\ FounderInv' /\ SerialInv' /\ Grows
      /\ \A e \in Members \ {m} : FounderKeeps(e) /\ offer'[e] = offer[e]
      /\ \A e \in Members : MemberKeeps(e) /\ db'[e] = db[e]
      /\ talk' = talk /\ o.token = o.cert.serial /\ o.token > 0
      /\ o.cert.key \in Authority' /\ o.cert.serial <= issued'[m] /\ o.cert.serial \in Nat
      /\ m \notin crossed' =>
           /\ o.cert.serial > issued[m] /\ o.cert.serial = issued'[m]
           /\ \A w \in Ways : ~(talk[w].turn = m /\ talk[w].step = "grant")
      /\ db'[Founder].recovery[m] = o.token
      BY <1>1, ApproveTyped
<1>3. /\ TypeInv /\ m \in Everyone /\ OwnOK(m) /\ db[m].cert[m] \in Cert /\ db[m].token \in Nat
      /\ issued[m] \in Nat /\ issued'[m] \in Nat /\ issued[m] <= issued'[m]
  <2>1. TypeInv /\ m \in Everyone /\ OwnOK(m) /\ MaxSerial \in Nat
        BY FounderIsOne, BoundsOfMembership DEF MembershipInv, ReachInv
  <2>2. issued[m] \in Nat /\ issued'[m] \in Nat
        BY <1>2, <2>1 DEF TypeInv, HistoryType, Serials
  <2>3. QED  BY <1>2, <2>1, <2>2, TablesOfAll DEF Serials, Grows
<1>4. PICK x \in Cert : x = db[m].cert[m]
      BY <1>3
<1>5. x.serial > 0 => x.key \in Authority' /\ x.serial <= issued'[m]
      BY <1>2, <1>3, <1>4, SignedStays DEF OwnOK
<1>6. db[m].token <= issued[m]
      BY <1>3 DEF OwnOK
<1>7. m \notin crossed' => db[m].token < o.token
      BY <1>2, <1>3, <1>6
<1>8. ~InPlace(m)'
  <2>1. SUFFICES ASSUME InPlace(m)' PROVE FALSE
        OBVIOUS
  <2>2. m \notin crossed' /\ db[m].token = o.token
        BY <1>2, <2>1 DEF InPlace, Expected
  <2>3. QED  BY <1>3, <1>7, <2>2
<1>9. OwnOK(m)'
  <2>1. db'[m] = db[m] /\ db[m].token <= issued'[m]
        BY <1>2, <1>3, <1>6
  <2>2. QED  BY <1>4, <1>5, <1>8, <2>1 DEF OwnOK, Signed
<1>10. OfferOK(m)'
  <2>1. Signed(m, o.cert)' /\ (m \notin crossed' => Newest(m, o.cert)')
        BY <1>2 DEF Signed, Newest
  <2>2. db'[m] = db[m]
        BY <1>2
  <2>3. QED  BY <1>1, <1>2, <1>7, <2>1, <2>2 DEF OfferOK, Expected, Signed, Newest
<1>11. ASSUME NEW w \in Ways, talk[w].turn = m PROVE TalkOK(w)'
  <2>1. talk[w].step = "grant" => m \in crossed'
        BY <1>2, <1>11
  <2>2. talk[w].token <= issued[m] /\ talk[w].token \in Nat
        BY <1>3, <1>11, TalkOfWay, BoundsOfMembership DEF Fits, TalkTyped, Talks, Serials
  <2>3. m \notin crossed' => talk[w].token < o.token
        BY <1>2, <1>3, <2>2
  <2>4. QED  BY <1>1, <1>2, <1>11, <2>1, <2>3, TalkAfterIssue
<1>12. \A w \in Ways : TalkOK(w)' \/ (talk'[w] = talk[w] /\ talk[w].turn \notin Members \intersect {m})
       BY <1>2, <1>11
<1>13. QED  BY <1>2, <1>3, <1>9, <1>10, <1>12, OthersKept

-----------------------------------------------------------------------------
(* The registry.                                                            *)

LEMMA OnlyRegistry ==
    ASSUME MembershipInv, RegistryType', \A d \in Members : RegistryOK(d)',
           Incident \/ incidents' = incidents,
           UNCHANGED <<db, talk, offer, expired, issued, crossed, recast>>
    PROVE  MembershipInv'
<1>1. TypeInv /\ incidents' \in 0..MaxIncidents
      BY IncidentsCounted DEF MembershipInv
<1>2. TypeInv'
      BY <1>1 DEF TypeInv, HistoryType
<1>3. FounderInv'
      BY <1>2, FounderKept
<1>4. SerialInv'
      BY DEF MembershipInv, SerialInv, Signed, Authority, NextSerial, CurrentOK
<1>5. ReachInv'
      BY DEF MembershipInv, ReachInv, OwnOK, OfferOK, TalkOK, Fits, Signed, InPlace, Expected, Newest,
             NeedsReissue, Authority, Offered
<1>6. QED  BY <1>2, <1>3, <1>4, <1>5 DEF MembershipInv

\* What is left of a sequence without one of its elements.
LEMMA WithoutOne ==
    ASSUME NEW S, NEW s \in Seq(S), NEW i \in 1..Len(s)
    PROVE  LET r == SubSeq(s, 1, i - 1) \o SubSeq(s, i + 1, Len(s)) IN
           r \in Seq(S) /\ \A k \in 1..Len(r) : \E j \in 1..Len(s) : r[k] = s[j]
<1>1. PICK p : p = SubSeq(s, 1, i - 1)
      OBVIOUS
<1>2. PICK q : q = SubSeq(s, i + 1, Len(s))
      OBVIOUS
<1>3. p \in Seq(S) /\ Len(p) = i - 1 /\ \A k \in 1..i - 1 : p[k] = s[k]
      BY <1>1
<1>4. q \in Seq(S) /\ Len(q) = Len(s) - i /\ \A k \in 1..Len(s) - i : q[k] = s[i + k]
      BY <1>2
<1>5. /\ p \o q \in Seq(S) /\ Len(p \o q) = Len(s) - 1
      /\ \A k \in 1..Len(s) - 1 : (p \o q)[k] = IF k <= i - 1 THEN p[k] ELSE q[k - (i - 1)]
  <2>1. /\ p \o q \in Seq(S) /\ Len(p \o q) = Len(p) + Len(q)
        /\ \A k \in 1..Len(p) + Len(q) : (p \o q)[k] = IF k <= Len(p) THEN p[k] ELSE q[k - Len(p)]
        BY <1>3, <1>4, ConcatProperties
  <2>2. Len(p) = i - 1 /\ Len(p) + Len(q) = Len(s) - 1
        BY <1>3, <1>4
  <2>3. QED  BY <2>1, <2>2
<1>6. ASSUME NEW k \in 1..Len(p \o q)
      PROVE  \E j \in 1..Len(s) : (p \o q)[k] = s[j]
  <2>1. CASE k <= i - 1
    <3>1. k \in 1..i - 1 /\ k \in 1..Len(s) - 1 /\ k \in 1..Len(s)
          BY <1>5, <2>1
    <3>2. (p \o q)[k] = s[k]
          BY <1>3, <1>5, <2>1, <3>1
    <3>3. QED  BY <3>1, <3>2
  <2>2. CASE ~(k <= i - 1)
    <3>1. k - (i - 1) \in 1..Len(s) - i /\ k + 1 \in 1..Len(s)
          BY <1>5, <2>2
    <3>2. (p \o q)[k] = s[i + (k - (i - 1))]
          BY <1>4, <1>5, <2>2, <3>1
    <3>3. QED  BY <3>1, <3>2
  <2>3. QED  BY <2>1, <2>2
<1>7. QED  BY <1>1, <1>2, <1>5, <1>6

LEMMA SyncStep ==
    ASSUME MembershipInv, Syncing \/ SyncLost
    PROVE  MembershipInv'
<1>1. /\ RegistryType /\ sync.read \in SUBSET Lists /\ sync.sent \in Seq(Lists)
      /\ reg.revoked \in Lists /\ reg.seen \in Lists
      /\ \A d \in Members : RegistryOK(d) /\ Revocations[d] \in Serials
      /\ Revocations \in Lists
      BY RevocationIsGreatest DEF MembershipInv, TypeInv, RegistryType, SerialInv, Lists, Revocations
<1>2. ASSUME UNCHANGED db PROVE Revocations' = Revocations
      BY <1>2 DEF Revocations
<1>3. CASE SyncRead
  <2>1. sync' = [read |-> sync.read \union {Revocations}, sent |-> sync.sent] /\ reg' = reg
        BY <1>1, <1>3 DEF SyncRead, RegistryType
  <2>2. RegistryType'
        BY <1>1, <2>1 DEF RegistryType
  <2>3. \A d \in Members : RegistryOK(d)'
    <3>1. \A d \in Members : Revocations[d] <= Revocations[d]
          BY <1>1, BoundsOfMembership DEF Serials
    <3>2. QED  BY <1>1, <1>2, <1>3, <2>1, <3>1 DEF RegistryOK, SyncRead
  <2>4. QED  BY <1>3, <2>2, <2>3, OnlyRegistry DEF SyncRead
<1>4. ASSUME SyncStamp PROVE MembershipInv'
  <2>1. PICK rows \in sync.read :
          /\ sync' = [read |-> sync.read \ {rows}, sent |-> Append(sync.sent, rows)]
          /\ UNCHANGED <<db, talk, offer, expired, reg, issued, crossed, recast, incidents>>
        BY <1>4 DEF SyncStamp
  <2>2. RegistryType'
        BY <1>1, <2>1 DEF RegistryType
  <2>3. \A i \in 1..Len(sync'.sent) : sync'.sent[i] = rows \/ \E j \in 1..Len(sync.sent) : sync'.sent[i] = sync.sent[j]
        BY <1>1, <2>1
  <2>4. \A d \in Members : RegistryOK(d)'
        BY <1>1, <1>2, <2>1, <2>3 DEF RegistryOK
  <2>5. QED  BY <2>1, <2>2, <2>4, OnlyRegistry
<1>5. ASSUME SyncApply PROVE MembershipInv'
  <2>1. PICK i \in 1..Len(sync.sent) :
          /\ reg' = [reg EXCEPT !.revoked = [d \in Members |-> Max({@[d], sync.sent[i][d]})]]
          /\ sync' = [sync EXCEPT !.sent = SubSeq(@, i + 1, Len(@))]
          /\ UNCHANGED <<db, talk, offer, expired, issued, crossed, recast, incidents>>
        BY <1>5 DEF SyncApply
  <2>2. /\ reg' = [revoked |-> [d \in Members |-> Max({reg.revoked[d], sync.sent[i][d]})], seen |-> reg.seen]
        /\ sync' = [read |-> sync.read, sent |-> SubSeq(sync.sent, i + 1, Len(sync.sent))]
        BY <1>1, <2>1 DEF RegistryType
  <2>3. \A d \in Members :
          /\ Max({reg.revoked[d], sync.sent[i][d]}) \in {reg.revoked[d], sync.sent[i][d]}
          /\ Max({reg.revoked[d], sync.sent[i][d]}) \in Serials
    <3>1. SUFFICES ASSUME NEW d \in Members
                   PROVE  /\ Max({reg.revoked[d], sync.sent[i][d]}) \in {reg.revoked[d], sync.sent[i][d]}
                          /\ Max({reg.revoked[d], sync.sent[i][d]}) \in Serials
          OBVIOUS
    <3>2. reg.revoked[d] \in 0..MaxSerial /\ sync.sent[i][d] \in 0..MaxSerial /\ MaxSerial \in Nat
          BY <1>1, BoundsOfMembership DEF Lists, Serials
    <3>3. QED  BY <3>2, MaxOfTwo DEF Serials
  <2>4. SubSeq(sync.sent, i + 1, Len(sync.sent)) \in Seq(Lists)
        BY <1>1
  <2>5. RegistryType'
        BY <1>1, <2>2, <2>3, <2>4 DEF RegistryType, Lists
  <2>6. \A k \in 1..Len(sync'.sent) : \E j \in 1..Len(sync.sent) : sync'.sent[k] = sync.sent[j]
    <3>1. SUFFICES ASSUME NEW k \in 1..Len(sync'.sent)
                   PROVE  \E j \in 1..Len(sync.sent) : sync'.sent[k] = sync.sent[j]
          OBVIOUS
    <3>2. sync'.sent[k] = sync.sent[i + k] /\ i + k \in 1..Len(sync.sent)
          BY <1>1, <2>2
    <3>3. QED  BY <3>2
  <2>7. ASSUME NEW d \in Members PROVE RegistryOK(d)'
    <3>1. reg'.revoked[d] \in {reg.revoked[d], sync.sent[i][d]} /\ reg'.seen = reg.seen /\ sync'.read = sync.read
          BY <2>2, <2>3
    <3>2. reg'.revoked[d] <= Revocations[d]
          BY <1>1, <3>1 DEF RegistryOK
    <3>3. \A k \in 1..Len(sync'.sent) : sync'.sent[k][d] <= Revocations[d]
          BY <1>1, <2>6 DEF RegistryOK
    <3>4. Revocations' = Revocations /\ issued' = issued
          BY <1>2, <2>1
    <3>5. QED  BY <1>1, <3>1, <3>2, <3>3, <3>4 DEF RegistryOK
  <2>8. QED  BY <2>1, <2>5, <2>7, OnlyRegistry
<1>6. ASSUME SyncLost PROVE MembershipInv'
  <2>1. PICK i \in 1..Len(sync.sent) : sync' = [sync EXCEPT !.sent = RemoveAt(@, i)]
        BY <1>6 DEF SyncLost
  <2>2. sync' = [read |-> sync.read, sent |-> SubSeq(sync.sent, 1, i - 1) \o SubSeq(sync.sent, i + 1, Len(sync.sent))]
    <3>1. PICK q : q = SubSeq(sync.sent, 1, i - 1) \o SubSeq(sync.sent, i + 1, Len(sync.sent))
          OBVIOUS
    <3>2. sync' = [sync EXCEPT !.sent = q]
          BY <2>1, <3>1 DEF RemoveAt
    <3>3. QED  BY <1>1, <3>1, <3>2 DEF RegistryType
  <2>3. sync'.sent \in Seq(Lists) /\ \A k \in 1..Len(sync'.sent) : \E j \in 1..Len(sync.sent) : sync'.sent[k] = sync.sent[j]
    <3>1. PICK r : r = SubSeq(sync.sent, 1, i - 1) \o SubSeq(sync.sent, i + 1, Len(sync.sent))
          OBVIOUS
    <3>2. r \in Seq(Lists) /\ \A k \in 1..Len(r) : \E j \in 1..Len(sync.sent) : r[k] = sync.sent[j]
          BY <1>1, <3>1, WithoutOne
    <3>3. QED  BY <2>2, <3>1, <3>2
  <2>4. RegistryType'
        BY <1>1, <1>6, <2>2, <2>3 DEF RegistryType, SyncLost
  <2>5. \A d \in Members : RegistryOK(d)'
        BY <1>1, <1>2, <1>6, <2>2, <2>3 DEF RegistryOK, SyncLost
  <2>6. QED  BY <1>6, <2>4, <2>5, OnlyRegistry DEF SyncLost
<1>7. QED  BY <1>3, <1>4, <1>5, <1>6 DEF Syncing

LEMMA AnnounceStep ==
    ASSUME MembershipInv, NEW m \in Members, Announce(m) \/ RegistryCleanup(m)
    PROVE  MembershipInv'
<1> DEFINE n == IF Announce(m) THEN db[m].cert[m].serial ELSE 0
<1>1. /\ TypeInv /\ m \in Everyone /\ RegistryType /\ reg.revoked \in Lists /\ reg.seen \in Lists
      /\ issued[m] \in Nat /\ \A d \in Members : RegistryOK(d)
      BY FounderIsOne, BoundsOfMembership
         DEF MembershipInv, TypeInv, RegistryType, HistoryType, SerialInv, Serials
<1>2. n \in Serials /\ n <= issued[m]
  <2>1. CASE Announce(m)
    <3>1. db[m].cert[m].serial > 0 /\ Signed(m, db[m].cert[m])
          BY <1>1, <2>1, OwnSigned DEF Announce, RegistryAdmits, ValidCert
    <3>2. QED  BY <1>1, <2>1, <3>1, TablesOfAll, CertFields DEF Signed
  <2>2. CASE ~Announce(m)
        BY <1>1, <2>2, BoundsOfMembership DEF Serials
  <2>3. QED  BY <2>1, <2>2
<1>3. /\ reg' = [reg EXCEPT !.seen[m] = n]
      /\ UNCHANGED <<db, talk, offer, expired, sync, issued, crossed, recast, incidents>>
      BY DEF Announce, RegistryCleanup
<1> HIDE DEF n
<1>4. reg' = [revoked |-> reg.revoked, seen |-> [reg.seen EXCEPT ![m] = n]]
      BY <1>1, <1>3 DEF RegistryType
<1>5. RegistryType'
      BY <1>1, <1>2, <1>3, <1>4 DEF RegistryType, Lists
<1>6. Revocations' = Revocations
      BY <1>3 DEF Revocations
<1>7. \A d \in Members : RegistryOK(d)'
      BY <1>1, <1>2, <1>3, <1>4, <1>6 DEF RegistryOK, Lists
<1>8. QED  BY <1>3, <1>5, <1>7, OnlyRegistry

-----------------------------------------------------------------------------
(* The theorem.                                                             *)

LEMMA InvariantStays == MembershipInv /\ [MembershipNext]_membershipVars => MembershipInv'
<1> SUFFICES ASSUME MembershipInv, [MembershipNext]_membershipVars
             PROVE  MembershipInv'
    OBVIOUS
<1>1. CASE UNCHANGED membershipVars
  <2>1. RegistryType' /\ \A d \in Members : RegistryOK(d)'
        BY <1>1 DEF membershipVars, MembershipInv, TypeInv, SerialInv, RegistryType, RegistryOK, Revocations
  <2>2. QED  BY <1>1, <2>1, OnlyRegistry DEF membershipVars
<1>2. ASSUME NEW m \in Members, Joining(m) PROVE MembershipInv'
      BY <1>2, ApproveStep, FinalizeStep, OfferLostStep, LeaveStep DEF Joining
<1>3. ASSUME Managing PROVE MembershipInv'
  <2>1. PICK a \in Everyone, m \in Everyone :
          (\E role \in Roles : UpdateRole(a, m, role)) \/ RemoveMember(a, m)
        BY <1>3 DEF Managing
  <2>2. CASE a = Founder
        BY <2>1, <2>2, FounderRole, FounderRemoves
  <2>3. CASE a # Founder
    <3>1. a \in Members
          BY <2>3 DEF Everyone
    <3>2. QED  BY <2>1, <3>1, ManageAtMember
  <2>4. QED  BY <2>2, <2>3
<1>4. ASSUME NEW c \in Ways, Converse(c) \/ Lose(c) PROVE MembershipInv'
      BY <1>4, SpeakStep, SpeakReissuedStep, AskStep, ServeStep, QuietTurns, StoreGrantStep, CheckStep,
         PersistAtMember, PersistAtFounder DEF Converse
<1>5. ASSUME NEW d \in Everyone, Expire(d) PROVE MembershipInv'
      BY <1>5, ExpireStep
<1>6. ASSUME NEW m \in Members, Announce(m) \/ RegistryCleanup(m) PROVE MembershipInv'
      BY <1>6, AnnounceStep
<1>7. ASSUME Syncing \/ SyncLost PROVE MembershipInv'
      BY <1>7, SyncStep
<1>8. QED  BY <1>1, <1>2, <1>3, <1>4, <1>5, <1>6, <1>7 DEF MembershipNext

\* However many devices join, leave, are given other roles and are removed, whichever
\* requests are lost and certificates expire: issueMembershipCertTx hands no serial out
\* twice, the founder always has the private key of the newest authority it knows
\* (verifyTransportPeerAuth lets no peer show it another), neither it nor the registry turns
\* away the certificate it holds for a member, and a member whose certificate the founder
\* would not accept can tell that it needs another or has not seen the newest authority.
THEOREM CertificatesStayUsable == MembershipSpec => []CertificatesUsable
<1>1. MembershipSpec => []MembershipInv
      BY InvariantHoldsAtFirst, InvariantStays, PTL DEF MembershipSpec
<1>2. QED  BY <1>1, InvariantUsable, PTL

=============================================================================
