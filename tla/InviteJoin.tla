------------------------------ MODULE InviteJoin ------------------------------
(***************************************************************************)
(* How a device comes into a library: service_invite.go and                 *)
(* invite_transport.go.                                                     *)
(*                                                                          *)
(* The owner keeps invites in its database and the requests to join in      *)
(* memory; the device keeps its attempts in memory.  An attempt makes a key *)
(* pair and sends the public key with the invite code; the owner approves   *)
(* the request, which makes the device a member, and leaves the material,   *)
(* sealed for that key, in the request; the device polls for it, opens it   *)
(* and restores it.                                                         *)
(*                                                                          *)
(* Nothing is locked from the beginning of a call to its end: a request may *)
(* be renewed, rejected, forgotten or withdrawn with its invite while it is *)
(* being approved, and an attempt cancelled while it is being polled.       *)
(* Results are kept for two minutes, requests for fifteen.                  *)
(***************************************************************************)
EXTENDS Integers, FiniteSets, FiniteSetsExt

CONSTANTS Devices,     \* the devices that want to join
          SingleUse,   \* invites for one device
          Reusable,    \* invites for any number of devices
          Codes,       \* the <<device, invite>> such that the device was given the code
          Calls,       \* the owner's calls that may be under way at once
          MaxAttempts, \* bound on the attempts, and so on the requests
          MaxEvents    \* bound on losses, expiries, cancellations, deletions and restarts

ASSUME CodesOfInvites == Codes \subseteq Devices \X (SingleUse \union Reusable)
ASSUME InvitesApart == SingleUse \intersect Reusable = {}
ASSUME BoundsNatural == MaxAttempts \in Nat /\ MaxEvents \in Nat

Invites  == SingleUse \union Reusable
Attempts == 1..MaxAttempts
Requests == 1..MaxAttempts

VARIABLES
  invite,    \* invite |-> "new", "open", "deleting" or "gone"
  request,   \* request |-> what the owner keeps of it, or NoRequest
  call,      \* call |-> the owner's approval or rejection under way
  member,    \* device |-> serial of the certificate last issued to it
  start,     \* attempt |-> its StartJoinFromInvite call
  attempt,   \* attempt |-> what the device keeps of it, or NoAttempt
  poll,      \* attempt |-> the GetJoinAttempt call under way for it
  joined,    \* device |-> serial of the certificate it restored, or 0
  granted,   \* history: the requests whose approval was committed
  raced,     \* history: requests changed by another call while being approved or rejected
  cancelled, \* history: attempts cancelled before their material was opened
  entered,   \* history: attempts that restored their material
  events     \* events so far

owner  == <<invite, request, call, member, granted, raced>>
device == <<start, attempt, poll, joined, cancelled, entered>>
vars   == <<owner, device, events>>

Event == events < MaxEvents /\ events' = events + 1

-----------------------------------------------------------------------------
NoSeal    == [key |-> 0, serial |-> 0]
NoRequest == [status |-> "none"]
NoAttempt == [status |-> "none"]
NoCall    == [step |-> "idle"]
NoPoll    == [step |-> "idle"]
NoStart   == [step |-> "unused"]

Known(r) == request[r] # NoRequest

Live(i) == attempt[i].status \in {"pending", "approved"}

\* A call of the owner holds a copy of r.
Handled(r) == \E c \in Calls : call[c].step # "idle" /\ call[c].req = r

Init ==
  /\ invite = [t \in Invites |-> "new"]
  /\ request = [r \in Requests |-> NoRequest]
  /\ call = [c \in Calls |-> NoCall]
  /\ member = [d \in Devices |-> 0]
  /\ start = [i \in Attempts |-> NoStart]
  /\ attempt = [i \in Attempts |-> NoAttempt]
  /\ poll = [i \in Attempts |-> NoPoll]
  /\ joined = [d \in Devices |-> 0]
  /\ granted = {} /\ raced = {} /\ cancelled = {} /\ entered = {}
  /\ events = 0

-----------------------------------------------------------------------------
(* Invites.                                                                 *)

CreateInvite(t) ==
  /\ invite[t] = "new"
  /\ invite' = [invite EXCEPT ![t] = "open"]
  /\ UNCHANGED <<request, call, member, granted, raced, device, events>>

\* The row goes first, the requests in memory afterwards.
DeleteInvite(t) ==
  /\ Event
  /\ invite[t] = "open"
  /\ invite' = [invite EXCEPT ![t] = "deleting"]
  /\ UNCHANGED <<request, call, member, granted, raced, device>>

ClearInviteRequests(t) ==
  /\ invite[t] = "deleting"
  /\ invite' = [invite EXCEPT ![t] = "gone"]
  /\ request' = [r \in Requests |-> IF Known(r) /\ request[r].invite = t THEN NoRequest ELSE request[r]]
  /\ UNCHANGED <<call, member, granted, raced, device, events>>

\* Only invites for one device expire; their requests stay.
InviteExpires(t) ==
  /\ Event
  /\ t \in SingleUse /\ invite[t] = "open"
  /\ invite' = [invite EXCEPT ![t] = "gone"]
  /\ UNCHANGED <<request, call, member, granted, raced, device>>

-----------------------------------------------------------------------------
(* The device asks to join; attempt i has the i-th key pair.                *)

StartStep(i, step) == start' = [start EXCEPT ![i].step = step]

\* The host looks for the invite of the code,
StartJoin(i, d, t) ==
  /\ start[i] = NoStart
  /\ \A j \in 1..(i - 1) : start[j] # NoStart
  /\ <<d, t>> \in Codes
  /\ invite[t] # "new"
  /\ start' = [start EXCEPT ![i] =
       [step |-> IF invite[t] = "open" THEN "read" ELSE "over", device |-> d, invite |-> t]]
  /\ UNCHANGED <<owner, attempt, poll, joined, cancelled, entered, events>>

Waiting(d, t) ==
  {r \in Requests : Known(r) /\ request[r].status = "pending"
                    /\ request[r].device = d /\ request[r].invite = t}

Asked(i) ==
  [status |-> "pending", device |-> start[i].device, invite |-> start[i].invite,
   key |-> i, seal |-> NoSeal]

\* Mutant: a request that has been answered is taken up again.
UpsertAnyStatus(i, r) ==
  LET known == {q \in Requests : Known(q) /\ request[q].device = start[i].device
                                 /\ request[q].invite = start[i].invite} IN
  IF known # {} THEN r = Min(known) /\ request' = [request EXCEPT ![r].key = i]
  ELSE r = i /\ request' = [request EXCEPT ![r] = Asked(i)]

\* and takes up the pending request of the device with the new key, or makes a
\* request, named by the attempt.
Upsert(i, r) ==
  LET known == Waiting(start[i].device, start[i].invite) IN
  IF known # {} THEN r \in known /\ request' = [request EXCEPT ![r].key = i]
  ELSE r = i /\ request' = [request EXCEPT ![r] = Asked(i)]

HostUpserts(i) ==
  /\ start[i].step = "read"
  /\ \E r \in Requests :
       /\ Upsert(i, r)
       /\ start' = [start EXCEPT ![i] =
            [step |-> "answered", device |-> @.device, invite |-> @.invite, req |-> r]]
       /\ raced' = IF Handled(r) THEN raced \union {r} ELSE raced
  /\ UNCHANGED <<invite, call, member, granted, attempt, poll, joined, cancelled, entered, events>>

StartLost(i) ==
  /\ Event
  /\ start[i].step \in {"read", "answered"}
  /\ StartStep(i, "over")
  /\ UNCHANGED <<owner, attempt, poll, joined, cancelled, entered>>

StartDone(i) ==
  /\ start[i].step = "answered"
  /\ attempt' = [attempt EXCEPT ![i] =
       [status |-> "pending", device |-> start[i].device, req |-> start[i].req]]
  /\ StartStep(i, "over")
  /\ UNCHANGED <<owner, poll, joined, cancelled, entered, events>>

-----------------------------------------------------------------------------
(* The owner approves or rejects a pending request, working on a copy of it. *)

Begin(c, r, step) ==
  /\ call[c] = NoCall
  /\ request[r].status = "pending"
  /\ call' = [call EXCEPT ![c] =
       [step |-> step, req |-> r, device |-> request[r].device, invite |-> request[r].invite,
        seal |-> [key |-> request[r].key, serial |-> 0]]]
  /\ raced' = IF Handled(r) THEN raced \union {r} ELSE raced
  /\ UNCHANGED <<invite, request, member, granted, device, events>>

Approve(c, r) == Begin(c, r, "granting")
Reject(c, r)  == Begin(c, r, "rejecting")

\* Mutant: it is not checked that the invite was there.
MayGrantAny(a) == a.step = "granting"

MayGrant(a) == a.step = "granting" /\ invite[a.invite] = "open"

Sealed(c, serial) == call' = [call EXCEPT ![c].step = "marking", ![c].seal.serial = serial]

\* The transaction finds the invite, makes the device a member, seals the
\* material for the copied key and deletes an invite for one device.
ApproveCommit(c) ==
  LET a == call[c]
      serial == member[a.device] + 1 IN
  /\ MayGrant(a)
  /\ member' = [member EXCEPT ![a.device] = serial]
  /\ invite' = IF a.invite \in SingleUse THEN [invite EXCEPT ![a.invite] = "gone"] ELSE invite
  /\ Sealed(c, serial)
  /\ granted' = granted \union {[req |-> a.req, invite |-> a.invite, serial |-> serial]}
  /\ UNCHANGED <<request, raced, device, events>>

ApproveRefused(c) ==
  /\ call[c].step = "granting" /\ ~MayGrant(call[c])
  /\ call' = [call EXCEPT ![c] = NoCall]
  /\ UNCHANGED <<invite, request, member, granted, raced, device, events>>

\* The others that wait for the same invite for one device.
TooLate(a) ==
  {r \in Requests \ {a.req} : a.invite \in SingleUse /\ Known(r)
       /\ request[r].invite = a.invite /\ request[r].status = "pending"}

\* If the request is still there it becomes approved, whatever it was.
ApproveMark(c) ==
  LET a == call[c] IN
  /\ a.step = "marking"
  /\ request' = [r \in Requests |->
       CASE r = a.req /\ Known(r) -> [request[r] EXCEPT !.status = "approved", !.seal = a.seal]
         [] r \in TooLate(a) -> [request[r] EXCEPT !.status = "rejected"]
         [] OTHER -> request[r]]
  /\ call' = [call EXCEPT ![c] = NoCall]
  /\ raced' = raced \union {r \in TooLate(a) : Handled(r)}
  /\ UNCHANGED <<invite, member, granted, device, events>>

RejectMark(c) ==
  LET r == call[c].req IN
  /\ call[c].step = "rejecting"
  /\ request' = IF Known(r) THEN [request EXCEPT ![r].status = "rejected"] ELSE request
  /\ call' = [call EXCEPT ![c] = NoCall]
  /\ UNCHANGED <<invite, member, granted, raced, device, events>>

\* A pending request is forgotten after fifteen minutes, an answer after two.
RequestExpires(r) ==
  /\ Event
  /\ Known(r)
  /\ request' = [request EXCEPT ![r] = NoRequest]
  /\ UNCHANGED <<invite, call, member, granted, raced, device>>

-----------------------------------------------------------------------------
(* The device polls an attempt that is pending or approved.                 *)

Reply(r) == [status |-> request[r].status, seal |-> request[r].seal]

\* An error, or no answer, changes nothing but a message.
Poll(i) ==
  /\ poll[i] = NoPoll
  /\ Live(i)
  /\ Known(attempt[i].req)
  /\ poll' = [poll EXCEPT ![i] = [step |-> "answered", reply |-> Reply(attempt[i].req)]]
  /\ UNCHANGED <<owner, start, attempt, joined, cancelled, entered, events>>

PollLost(i) ==
  /\ Event
  /\ poll[i].step = "answered"
  /\ poll' = [poll EXCEPT ![i] = NoPoll]
  /\ UNCHANGED <<owner, start, attempt, joined, cancelled, entered>>

SetStatus(i, status) ==
  attempt' = IF attempt[i] = NoAttempt THEN attempt ELSE [attempt EXCEPT ![i].status = status]

\* The attempt is read again, and its key must open the material.
Opens(i) ==
  /\ poll[i].reply.status = "approved"
  /\ attempt[i] # NoAttempt
  /\ poll[i].reply.seal.key = i

\* The status is overwritten if the attempt is still there; approved material
\* that opens is then restored.
PollNoted(i) ==
  /\ poll[i].step = "answered"
  /\ SetStatus(i, poll[i].reply.status)
  /\ poll' = [poll EXCEPT ![i] = IF Opens(i) THEN [step |-> "restore", serial |-> @.reply.seal.serial] ELSE NoPoll]
  /\ UNCHANGED <<owner, start, joined, cancelled, entered, events>>

DeviceOf(i) == start[i].device

Restored(i) ==
  /\ joined' = [joined EXCEPT ![DeviceOf(i)] = poll[i].serial]
  /\ entered' = entered \union {i}

PollRestores(i) ==
  /\ poll[i].step = "restore"
  /\ Restored(i)
  /\ SetStatus(i, "completed")
  /\ poll' = [poll EXCEPT ![i] = NoPoll]
  /\ UNCHANGED <<owner, start, cancelled, events>>

\* The transaction fails, or the services of the new library do not start after it.
PollFails(i) ==
  /\ Event
  /\ poll[i].step = "restore"
  /\ Restored(i) \/ UNCHANGED <<joined, entered>>
  /\ SetStatus(i, "failed")
  /\ poll' = [poll EXCEPT ![i] = NoPoll]
  /\ UNCHANGED <<owner, start, cancelled>>

CancelJoin(i) ==
  /\ Event
  /\ attempt[i] # NoAttempt
  /\ attempt' = [attempt EXCEPT ![i] = NoAttempt]
  /\ cancelled' = IF poll[i].step = "restore" \/ i \in entered THEN cancelled ELSE cancelled \union {i}
  /\ UNCHANGED <<owner, start, poll, joined, entered>>

-----------------------------------------------------------------------------
(* Restarts: requests, attempts and calls are gone.                         *)

OwnerRestarts ==
  /\ Event
  /\ request' = [r \in Requests |-> NoRequest]
  /\ call' = [c \in Calls |-> NoCall]
  /\ invite' = [t \in Invites |-> IF invite[t] = "deleting" THEN "gone" ELSE invite[t]]
  /\ start' = [i \in Attempts |-> IF start[i].step = "read" THEN [start[i] EXCEPT !.step = "over"] ELSE start[i]]
  /\ UNCHANGED <<member, granted, raced, attempt, poll, joined, cancelled, entered>>

DeviceRestarts(d) ==
  /\ Event
  /\ start' = [i \in Attempts |->
       IF start[i] # NoStart /\ start[i].device = d THEN [start[i] EXCEPT !.step = "over"] ELSE start[i]]
  /\ attempt' = [i \in Attempts |->
       IF attempt[i] # NoAttempt /\ DeviceOf(i) = d THEN NoAttempt ELSE attempt[i]]
  /\ poll' = [i \in Attempts |-> IF poll[i] # NoPoll /\ DeviceOf(i) = d THEN NoPoll ELSE poll[i]]
  /\ UNCHANGED <<owner, joined, cancelled, entered>>

-----------------------------------------------------------------------------
Inviting == \E t \in Invites :
  CreateInvite(t) \/ DeleteInvite(t) \/ ClearInviteRequests(t) \/ InviteExpires(t)

Starting(i) ==
  \/ \E d \in Devices, t \in Invites : StartJoin(i, d, t)
  \/ HostUpserts(i) \/ StartLost(i) \/ StartDone(i)

Answering(c) ==
  \/ \E r \in Requests : Approve(c, r) \/ Reject(c, r)
  \/ ApproveCommit(c) \/ ApproveRefused(c) \/ ApproveMark(c) \/ RejectMark(c)

Polling(i) ==
  Poll(i) \/ PollNoted(i) \/ PollRestores(i)

Next ==
  \/ Inviting
  \/ \E i \in Attempts : Starting(i) \/ CancelJoin(i)
  \/ \E c \in Calls : Answering(c)
  \/ \E r \in Requests : RequestExpires(r)
  \/ \E i \in Attempts : Polling(i) \/ PollLost(i) \/ PollFails(i)
  \/ OwnerRestarts
  \/ \E d \in Devices : DeviceRestarts(d)

Spec == Init /\ [][Next]_vars

-----------------------------------------------------------------------------
(* Properties.                                                              *)

\* The type invariant; material is there only with the serial its approval issued, and a device
\* has joined at most with a certificate that was issued for it.
ITypeOK ==
  /\ invite \in [Invites -> {"new", "open", "deleting", "gone"}]
  /\ \A r \in Requests : request[r].status \in {"none", "pending", "approved", "rejected"}
  /\ \A r \in Requests : request[r].status = "approved" => request[r].seal.serial > 0
  /\ \A i \in Attempts : attempt[i].status \in {"none", "pending", "approved", "rejected", "completed", "failed"}
  /\ \A i \in Attempts : start[i].step \in {"unused", "read", "answered", "over"}
  /\ \A d \in Devices : joined[d] <= member[d]
  /\ events \in 0..MaxEvents

\* An invite for one device lets one device in, however many requests wait for it
\* and however their approvals overlap (ApproveJoinRequest deletes the invite in
\* the transaction that makes the member).
OneMemberPerInvite ==
  \A t \in SingleUse : Cardinality({g \in granted : g.invite = t}) <= 1

\* A cancelled attempt does not join, although the answer to its last poll is still
\* on its way (CancelJoinAttempt, finalizeApprovedJoin).
CancelledStaysOut == cancelled \intersect entered = {}

\* A device that is told it was rejected has not been made a member by that
\* request, unless the owner approved and rejected it at the same time.
RejectedStaysOut ==
  \A r \in Requests \ raced : request[r].status = "rejected" => \A g \in granted : g.req # r

\* An approved request can be opened with the key that was sent last, and holds
\* the certificate that its approval issued, unless it was renewed meanwhile.
MaterialOpens ==
  \A r \in Requests \ raced :
    request[r].status = "approved" =>
      /\ request[r].seal.key = request[r].key
      /\ \E g \in granted : g.req = r /\ g.serial = request[r].seal.serial

\* A device comes in by an invite that is good for it, and by no attempt that was
\* cancelled or rejected.
OnlyInvitedJoin == ITypeOK /\ OneMemberPerInvite /\ CancelledStaysOut /\ RejectedStaysOut
=============================================================================
