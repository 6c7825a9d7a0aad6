----------------------------- MODULE Membership -----------------------------
(***************************************************************************)
(* Who belongs to a library, and how its devices prove it to one another:   *)
(* membership_auth.go, membership_runtime.go, the member operations of      *)
(* service_library.go and the registry of relayd/main.go.                   *)
(*                                                                          *)
(* Every device keeps its own tables.  The founder alone holds the root     *)
(* key of the library, so it alone approves joins; a device therefore       *)
(* knows of two members, itself and the founder.  A certificate is signed   *)
(* by the admission authority, whose keys form a chain: a new version is    *)
(* made, signed by the one before, whenever a device becomes or ceases to   *)
(* be an administrator.  A request and its response carry the certificate   *)
(* and the chain of their sender; the receiver checks them against its      *)
(* tables and then stores them.                                             *)
(*                                                                          *)
(* A conversation is one request with its response.  A device whose         *)
(* certificate is no longer good asks the founder for another before it     *)
(* speaks; the two ways between it and the founder do not wait for each     *)
(* other.  Any message may be lost.                                         *)
(***************************************************************************)
EXTENDS Integers, Sequences, FiniteSets, FiniteSetsExt, SequencesExt

CONSTANTS Founder,      \* the device that created the library
          Members,      \* the other devices
          Roles,        \* the roles devices may be given
          Ways,         \* the <<caller, callee>> that hold conversations
          MaxIncidents, \* bound on joins, leaves, member operations, expiries and losses
          MaxSerial,    \* bound on the serials issued to a device
          MaxVersion    \* bound on the versions of the admission authority

ASSUME FounderApart == Founder \notin Members

ASSUME AdminAmongRoles == "admin" \in Roles /\ "none" \notin Roles
ASSUME BoundsOfMembership == MaxIncidents \in Nat /\ MaxSerial \in Nat /\ MaxVersion \in Nat \ {0}
ASSUME WaysOfFounder == Ways \subseteq (Members \X {Founder}) \union ({Founder} \X Members)

Everyone == Members \union {Founder}

VARIABLES
  db,       \* device |-> its tables
  talk,     \* <<caller, callee>> |-> where that conversation stands
  offer,    \* member |-> the join material sealed for it, or NoOffer
  expired,  \* the <<device, serial>> whose certificates have expired
  reg,      \* the registry: revoked serials and the last serials seen
  sync,     \* revocation lists on their way to the registry
  issued,   \* history: device |-> the greatest serial the founder issued to it
  crossed,  \* history: members two of whose certificates were under way at once
  recast,   \* history: members whose role the founder changed without rotating
  incidents \* incidents so far

membershipVars == <<db, talk, offer, expired, reg, sync, issued, crossed, recast, incidents>>

-----------------------------------------------------------------------------
(* The chain of authorities and the certificates.                           *)

\* A key is named by the devices that made it and its predecessors: the key of
\* version n is a sequence of length n, signed by its front.  A table holds at
\* most one key of a version.
Version(keys) == IF keys = {} THEN 0 ELSE Max({Len(k) : k \in keys})

KeyAt(keys, n) == CHOOSE k \in keys : Len(k) = n

ChainHead(keys) == KeyAt(keys, Version(keys))

\* Every version from the first on is there and signed by its predecessor.
ValidChain(keys) == keys # {} /\ \A k \in keys : Len(k) > 1 => Front(k) \in keys

\* Rows of the same version are replaced.
SaveChain(mine, theirs) ==
  {k \in mine : \A t \in theirs : Len(t) # Len(k)} \union theirs

NoCert == [serial |-> 0, key |-> <<>>, role |-> "none"]

ValidCert(d, cert, chain) ==
  /\ cert.serial > 0
  /\ <<d, cert.serial>> \notin expired
  /\ ValidChain(chain)
  /\ cert.key = ChainHead(chain)

\* The device whose tables are t admits a device d that shows cert and chain.
Admits(t, d, cert, chain) ==
  /\ t.member[d] # "none"
  /\ ValidCert(d, cert, chain)
  /\ Len(cert.key) >= Version(t.chain)
  /\ cert.serial >= t.cert[d].serial
  /\ cert.serial \notin t.revoked[d]

\* The authority's private key for the newest version is here.
CanSign(t) == \E k \in t.keys : Len(k) = Version(t.chain)

SigningKey(t) == KeyAt(t.keys, Version(t.chain))

\* Mutant: the version of the authority is not looked at.
NeedsReissueAnyKey(d) ==
  LET own == db[d].cert[d] IN
  own.serial = 0 \/ <<d, own.serial>> \in expired \/ own.role # db[d].member[d]

\* The device itself sees that it needs another certificate.
NeedsReissue(d) ==
  LET own == db[d].cert[d] IN
  \/ own.serial = 0
  \/ <<d, own.serial>> \in expired
  \/ Len(own.key) < Version(db[d].chain)
  \/ own.role # db[d].member[d]

-----------------------------------------------------------------------------
(* Changes to the tables of one device.                                     *)

\* The root key and the first authority are made when they are first needed.
WithAuthority(t) ==
  IF t.chain = {} THEN [t EXCEPT !.chain = {<<Founder>>}, !.keys = {<<Founder>>}] ELSE t

Superseded(t, d) ==
  IF t.cert[d].serial > 0 THEN [t EXCEPT !.revoked[d] = @ \union {t.cert[d].serial}] ELSE t

NextSerial(t, d) == Max(t.revoked[d] \union {t.cert[d].serial, 0}) + 1

IssuedCert(t, d, role) ==
  [serial |-> NextSerial(t, d), key |-> SigningKey(t), role |-> role]

\* The present certificate is revoked as superseded, the next serial is signed.
Issue(t, d, role) ==
  LET old == Superseded(t, d) IN [old EXCEPT !.cert[d] = IssuedCert(old, d, role)]

Rotate(t, d) ==
  LET next == Append(SigningKey(t), d) IN
  [t EXCEPT !.chain = @ \union {next}, !.keys = @ \union {next}]

RotateIf(needed, t, d) == IF needed THEN Rotate(t, d) ELSE t

Revoke(t, d) == Superseded(t, d)

SaveKey(keys, key) == {k \in keys : Len(k) # Len(key)} \union {key}

\* Mutant: the chain that came with a certificate is not stored.
StoredAlone(t, d, cert, chain) == [t EXCEPT !.cert[d] = cert]

Stored(t, d, cert, chain) ==
  [t EXCEPT !.chain = SaveChain(@, chain), !.cert[d] = cert]

\* A device keeps a certificate as its own, and the private key if one came with it.
TakenAsOwn(t, d, cert, chain, keys) ==
  [Stored(t, d, cert, chain) EXCEPT !.keys = IF keys = {} THEN @ ELSE SaveKey(@, cert.key)]

-----------------------------------------------------------------------------
(* Initial state: the founder has created the library and is alone in it.   *)

Empty(x) == [d \in Everyone |-> x]

Idle(c) == [step |-> "idle", turn |-> c[1], cert |-> NoCert, chain |-> {}, keys |-> {}, token |-> 0]

Other(c, d) == IF c[1] = d THEN c[2] ELSE c[1]

NoOffer == [cert |-> NoCert, keys |-> {}, token |-> 0, owner |-> "none"]

NoTables == [member |-> Empty("none"), chain |-> {}, keys |-> {}, cert |-> Empty(NoCert),
             revoked |-> Empty({}), recovery |-> Empty(0), token |-> 0]

MembershipInit ==
  /\ db = [d \in Everyone |->
             IF d = Founder THEN [NoTables EXCEPT !.member[Founder] = "admin"] ELSE NoTables]
  /\ talk = [c \in Ways |-> Idle(c)]
  /\ offer = [m \in Members |-> NoOffer]
  /\ expired = {}
  /\ reg = [revoked |-> [m \in Members |-> 0], seen |-> [m \in Members |-> 0]]
  /\ sync = [read |-> {}, sent |-> <<>>]
  /\ issued = Empty(0)
  /\ crossed = {}
  /\ recast = {}
  /\ incidents = 0

Incident == incidents < MaxIncidents /\ incidents' = incidents + 1

\* A certificate is issued to m while another is on its way to it or has come.
NoteCrossing(m) ==
  crossed' = IF \/ \E c \in Ways : talk[c].turn = m /\ talk[c].step = "grant"
                \/ \E c \in Ways : talk[c].turn = m /\ talk[c].step = "ask" /\ ~NeedsReissue(m)
             THEN crossed \union {m} ELSE crossed

-----------------------------------------------------------------------------
(* Joining: the founder approves, the device takes the sealed material.     *)

\* The material holds the newest authority only, its private key for an
\* administrator, and a fresh recovery token, named here by the serial.  A device that is a member already may be approved again.
ApproveJoin(m, role) ==
  LET t == Issue(WithAuthority(db[Founder]), m, role)
      token == t.cert[m].serial IN
  /\ Incident
  /\ db[Founder].member[Founder] = "admin"
  /\ CanSign(WithAuthority(db[Founder]))
  /\ offer[m] = NoOffer
  /\ NextSerial(db[Founder], m) <= MaxSerial
  /\ db' = [db EXCEPT ![Founder] = [t EXCEPT !.member[m] = role, !.recovery[m] = token]]
  /\ offer' = [offer EXCEPT ![m] =
       [cert  |-> t.cert[m],
        keys  |-> IF role = "admin" THEN {SigningKey(t)} ELSE {},
        token |-> token, owner |-> "admin"]]
  /\ issued' = [issued EXCEPT ![m] = Max({@, t.cert[m].serial})]
  /\ recast' = recast \ {m}
  /\ NoteCrossing(m)
  /\ UNCHANGED <<talk, expired, reg, sync>>

FinalizeJoin(m) ==
  LET o == offer[m]
      t == [TakenAsOwn(db[m], m, o.cert, {o.cert.key}, o.keys) EXCEPT
              !.member[m] = o.cert.role, !.member[Founder] = o.owner, !.token = o.token] IN
  /\ o # NoOffer
  /\ db' = [db EXCEPT ![m] = t]
  /\ offer' = [offer EXCEPT ![m] = NoOffer]
  /\ UNCHANGED <<talk, expired, reg, sync, issued, crossed, recast, incidents>>

\* The approved result is kept for two minutes only.
OfferLost(m) ==
  /\ Incident
  /\ offer[m] # NoOffer
  /\ offer' = [offer EXCEPT ![m] = NoOffer]
  /\ UNCHANGED <<db, talk, expired, reg, sync, issued, crossed, recast>>

\* A device leaves by deleting its own row; nobody is told.
Leave(m) ==
  /\ Incident
  /\ db[m].member[m] # "none"
  /\ db' = [db EXCEPT ![m].member[m] = "none"]
  /\ UNCHANGED <<talk, offer, expired, reg, sync, issued, crossed, recast>>

-----------------------------------------------------------------------------
(* The member operations of an administrator, on its own tables.            *)

MayManage(a, m) ==
  /\ a # m
  /\ db[a].member[a] = "admin"
  /\ db[a].member[m] # "none"

NoteIssued(a, t, m) ==
  issued' = IF a = Founder THEN [issued EXCEPT ![m] = Max({@, t.cert[m].serial})] ELSE issued

Rotates(a, m, role) == (db[a].member[m] = "admin") # (role = "admin")

\* The role changes, the certificate is revoked, the authority is rotated if
\* the device becomes or ceases to be an administrator, and a certificate of
\* the new role is signed: all in the tables of a.  The row of another member is
\* always written with its peer id (service_invite.go:549, 765, 796, 1168), which
\* later contacts replace but never clear, so that the return without a new
\* certificate (service_library.go:373) is not reached.
RoleUpdated(a, m, role) ==
  LET t == [Revoke(db[a], m) EXCEPT !.member[m] = role]
      rotated == RotateIf(Rotates(a, m, role), t, a)
  IN  Issue(rotated, m, role)

\* The member can tell from a new authority that its certificate was replaced.
NoteRecast(a, m, role) ==
  recast' = IF a # Founder THEN recast
            ELSE IF Rotates(a, m, role) THEN recast \ {m} ELSE recast \union {m}

UpdateRole(a, m, role) ==
  LET t == RoleUpdated(a, m, role) IN
  /\ Incident
  /\ MayManage(a, m)
  /\ role # db[a].member[m]
  /\ CanSign(db[a])
  /\ NextSerial(Revoke(db[a], m), m) <= MaxSerial
  /\ Version(db[a].chain) < MaxVersion
  /\ db' = [db EXCEPT ![a] = t]
  /\ NoteIssued(a, t, m)
  /\ NoteRecast(a, m, role)
  /\ UNCHANGED <<talk, offer, expired, reg, sync, crossed>>

MemberRemoved(a, m) ==
  LET t == [Revoke(db[a], m) EXCEPT !.cert[m] = NoCert, !.recovery[m] = 0, !.member[m] = "none"]
  IN  RotateIf(db[a].member[m] = "admin", t, a)

RemoveMember(a, m) ==
  /\ Incident
  /\ MayManage(a, m)
  /\ db[a].member[m] = "admin" => CanSign(db[a]) /\ Version(db[a].chain) < MaxVersion
  /\ db' = [db EXCEPT ![a] = MemberRemoved(a, m)]
  /\ UNCHANGED <<talk, offer, expired, reg, sync, issued, crossed, recast>>

Expire(d) ==
  /\ Incident
  /\ db[d].cert[d].serial > 0
  /\ <<d, db[d].cert[d].serial>> \notin expired
  /\ expired' = expired \union {<<d, db[d].cert[d].serial>>}
  /\ UNCHANGED <<db, talk, offer, reg, sync, issued, crossed, recast>>

-----------------------------------------------------------------------------
(* A conversation.                                                          *)

Speaker(c) == talk[c].turn

Says(c, t) ==
  [step |-> "auth", turn |-> Speaker(c), cert |-> t.cert[Speaker(c)], chain |-> t.chain,
   keys |-> {}, token |-> 0]

\* The caller begins, or the callee has stored what it was shown and must show
\* its own certificate in the response.
MustSpeak(c) ==
  /\ talk[c].step \in {"idle", "due"}
  /\ db[Speaker(c)].member[Speaker(c)] # "none"

Speak(c) ==
  /\ MustSpeak(c)
  /\ ~NeedsReissue(Speaker(c))
  /\ talk' = [talk EXCEPT ![c] = Says(c, db[Speaker(c)])]
  /\ UNCHANGED <<db, offer, expired, reg, sync, issued, crossed, recast, incidents>>

\* The founder signs its own certificate.  No other administrator can: it
\* lacks the root key, and asks like everybody else.
SpeakReissued(c) ==
  LET t == Issue(WithAuthority(db[Founder]), Founder, db[Founder].member[Founder]) IN
  /\ MustSpeak(c)
  /\ Speaker(c) = Founder
  /\ NeedsReissue(Founder)
  /\ CanSign(WithAuthority(db[Founder]))
  /\ NextSerial(db[Founder], Founder) <= MaxSerial
  /\ db' = [db EXCEPT ![Founder] = t]
  /\ talk' = [talk EXCEPT ![c] = Says(c, t)]
  /\ issued' = [issued EXCEPT ![Founder] = Max({@, t.cert[Founder].serial})]
  /\ UNCHANGED <<offer, expired, reg, sync, crossed, recast, incidents>>

AskRefresh(c) ==
  /\ MustSpeak(c)
  /\ Speaker(c) # Founder
  /\ NeedsReissue(Speaker(c))
  /\ db[Speaker(c)].token > 0
  /\ talk' = [talk EXCEPT ![c].step = "ask", ![c].token = db[Speaker(c)].token]
  /\ UNCHANGED <<db, offer, expired, reg, sync, issued, crossed, recast, incidents>>

Recognised(c) ==
  /\ db[Founder].recovery[Speaker(c)] = talk[c].token
  /\ db[Founder].member[Speaker(c)] # "none"

GrantsTo(c, t) ==
  LET m == Speaker(c) IN
  [step |-> "grant", turn |-> m, cert |-> t.cert[m], chain |-> t.chain, token |-> 0,
   keys |-> IF t.cert[m].role = "admin" THEN {SigningKey(t)} ELSE {}]

\* The founder looks at the recovery token only, signs the role it knows, and
\* hands an administrator the private key of the authority.
ServeRefresh(c) ==
  LET m == Speaker(c)
      t == Issue(db[Founder], m, db[Founder].member[m]) IN
  /\ talk[c].step = "ask"
  /\ Recognised(c)
  /\ NextSerial(db[Founder], m) <= MaxSerial
  /\ db' = [db EXCEPT ![Founder] = t]
  /\ talk' = [talk EXCEPT ![c] = GrantsTo(c, t)]
  /\ issued' = [issued EXCEPT ![m] = Max({@, t.cert[m].serial})]
  /\ NoteCrossing(m)
  /\ UNCHANGED <<offer, expired, reg, sync, recast, incidents>>

RefuseRefresh(c) ==
  /\ talk[c].step = "ask"
  /\ ~Recognised(c)
  /\ talk' = [talk EXCEPT ![c] = Idle(c)]
  /\ UNCHANGED <<db, offer, expired, reg, sync, issued, crossed, recast, incidents>>

\* The device stores what it was granted and speaks with it, whatever it
\* would still find wrong with it.
StoreGrant(c) ==
  LET m == Speaker(c)
      g == talk[c]
      t == TakenAsOwn(db[m], m, g.cert, g.chain, g.keys) IN
  /\ g.step = "grant"
  /\ ValidCert(m, g.cert, g.chain)
  /\ db' = [db EXCEPT ![m] = t]
  /\ talk' = [talk EXCEPT ![c] = Says(c, t)]
  /\ UNCHANGED <<offer, expired, reg, sync, issued, crossed, recast, incidents>>

\* The receiver checks the sender against its tables, outside the transaction
\* that stores it.
Check(c) ==
  LET a == talk[c] IN
  /\ a.step = "auth"
  /\ Admits(db[Other(c, a.turn)], a.turn, a.cert, a.chain)
  /\ talk' = [talk EXCEPT ![c].step = "checked"]
  /\ UNCHANGED <<db, offer, expired, reg, sync, issued, crossed, recast, incidents>>

TurnAway(c) ==
  LET a == talk[c] IN
  /\ \/ a.step = "auth" /\ ~Admits(db[Other(c, a.turn)], a.turn, a.cert, a.chain)
     \/ a.step = "grant" /\ ~ValidCert(a.turn, a.cert, a.chain)
     \/ a.step = "due" /\ db[a.turn].member[a.turn] = "none"
  /\ talk' = [talk EXCEPT ![c] = Idle(c)]
  /\ UNCHANGED <<db, offer, expired, reg, sync, issued, crossed, recast, incidents>>

Persist(c) ==
  LET a == talk[c]
      y == Other(c, a.turn) IN
  /\ a.step = "checked"
  /\ db' = [db EXCEPT ![y] = Stored(@, a.turn, a.cert, a.chain)]
  /\ talk' = [talk EXCEPT ![c] =
       IF a.turn = c[1] THEN [Idle(c) EXCEPT !.step = "due", !.turn = y] ELSE Idle(c)]
  /\ crossed' = IF a.cert.serial < db[y].cert[a.turn].serial THEN crossed \union {a.turn} ELSE crossed
  /\ UNCHANGED <<offer, expired, reg, sync, issued, recast, incidents>>

Lose(c) ==
  /\ Incident
  /\ talk[c].step \in {"ask", "grant", "auth"}
  /\ talk' = [talk EXCEPT ![c] = Idle(c)]
  /\ UNCHANGED <<db, offer, expired, reg, sync, issued, crossed, recast>>

-----------------------------------------------------------------------------
(* The registry.  The founder sends all its revocations; the request is      *)
(* stamped after they were read, and the registry takes no request with an   *)
(* earlier stamp than one it has applied.                                    *)

\* Mutant: devices that are no longer members are left out.
RevocationsOfMembers ==
  [d \in Members |-> IF db[Founder].member[d] = "none" THEN 0
                     ELSE Max(db[Founder].revoked[d] \union {0})]

Revocations == [d \in Members |-> Max(db[Founder].revoked[d] \union {0})]

\* Bound on the lists under way, no two alike.
MaxSyncs == 2

SyncRead ==
  /\ db[Founder].member[Founder] = "admin"
  /\ \E d \in Members : Revocations[d] > reg.revoked[d]
  /\ Cardinality(sync.read) + Len(sync.sent) < MaxSyncs
  /\ Revocations \notin sync.read \union ToSet(sync.sent)
  /\ sync' = [sync EXCEPT !.read = @ \union {Revocations}]
  /\ UNCHANGED <<db, talk, offer, expired, reg, issued, crossed, recast, incidents>>

SyncStamp ==
  \E rows \in sync.read :
    /\ sync' = [read |-> sync.read \ {rows}, sent |-> Append(sync.sent, rows)]
    /\ UNCHANGED <<db, talk, offer, expired, reg, issued, crossed, recast, incidents>>

\* The requests are kept in the order of their stamps: those before the one
\* that arrives will be found stale.
SyncApply ==
  \E i \in 1..Len(sync.sent) :
    /\ reg' = [reg EXCEPT !.revoked = [d \in Members |-> Max({@[d], sync.sent[i][d]})]]
    /\ sync' = [sync EXCEPT !.sent = SubSeq(@, i + 1, Len(@))]
    /\ UNCHANGED <<db, talk, offer, expired, issued, crossed, recast, incidents>>

SyncLost ==
  /\ Incident
  /\ \E i \in 1..Len(sync.sent) : sync' = [sync EXCEPT !.sent = RemoveAt(@, i)]
  /\ UNCHANGED <<db, talk, offer, expired, reg, issued, crossed, recast>>

RegistryAdmits(d, cert, chain) ==
  /\ ValidCert(d, cert, chain)
  /\ cert.serial > reg.revoked[d]
  /\ cert.serial >= reg.seen[d]

\* A device announces its presence, looks up a peer or asks for the relay.
Announce(d) ==
  /\ db[d].member[d] # "none"
  /\ ~NeedsReissue(d)
  /\ RegistryAdmits(d, db[d].cert[d], db[d].chain)
  /\ reg.seen[d] # db[d].cert[d].serial
  /\ reg' = [reg EXCEPT !.seen[d] = db[d].cert[d].serial]
  /\ UNCHANGED <<db, talk, offer, expired, sync, issued, crossed, recast, incidents>>

RegistryCleanup(d) ==
  /\ <<d, reg.seen[d]>> \in expired
  /\ reg' = [reg EXCEPT !.seen[d] = 0]
  /\ UNCHANGED <<db, talk, offer, expired, sync, issued, crossed, recast, incidents>>

-----------------------------------------------------------------------------
Converse(c) ==
  \/ Speak(c) \/ SpeakReissued(c) \/ AskRefresh(c)
  \/ ServeRefresh(c) \/ RefuseRefresh(c) \/ StoreGrant(c)
  \/ Check(c) \/ TurnAway(c) \/ Persist(c)

Joining(m) ==
  \/ \E role \in Roles : ApproveJoin(m, role)
  \/ FinalizeJoin(m) \/ OfferLost(m) \/ Leave(m)

Managing ==
  \E a, m \in Everyone :
    \/ \E role \in Roles : UpdateRole(a, m, role)
    \/ RemoveMember(a, m)

Syncing == SyncRead \/ SyncStamp \/ SyncApply

MembershipNext ==
  \/ \E m \in Members : Joining(m)
  \/ Managing
  \/ \E c \in Ways : Converse(c) \/ Lose(c)
  \/ \E d \in Everyone : Expire(d)
  \/ \E m \in Members : Announce(m) \/ RegistryCleanup(m)
  \/ Syncing \/ SyncLost

MembershipSpec == MembershipInit /\ [][MembershipNext]_membershipVars

\* Catch-up passes go on in both directions, requests in flight are handled,
\* and the founder's loop repeats the revocations.
FairSpec == MembershipSpec /\ (\A c \in Ways : WF_membershipVars(Converse(c))) /\ WF_membershipVars(Syncing)

-----------------------------------------------------------------------------
(* Properties.                                                              *)

Cert == [serial : 0..MaxSerial, key : BoundedSeq(Everyone, MaxVersion), role : Roles \union {"none"}]

OneKeyPerVersion(keys) == \A j, k \in keys : Len(j) = Len(k) => j = k

\* Tables hold what they should: one key per version, serials within the bound.
MTypeOK ==
  /\ \A d \in Everyone :
       /\ db[d].member \in [Everyone -> Roles \union {"none"}]
       /\ OneKeyPerVersion(db[d].chain) /\ OneKeyPerVersion(db[d].keys)
       /\ \A e \in Everyone : db[d].cert[e] \in Cert /\ db[d].revoked[e] \subseteq 1..MaxSerial
  /\ \A c \in Ways : talk[c].step \in {"idle", "ask", "grant", "auth", "checked", "due"} /\ talk[c].turn \in Everyone
  /\ \A d \in Members : reg.revoked[d] \in 0..MaxSerial /\ reg.seen[d] \in 0..MaxSerial
  /\ incidents \in 0..MaxIncidents

\* issueMembershipCertTx must never hand out a serial twice, across renewals,
\* removals and joins: peers tell certificates apart by their serials.  Left out
\* are members two of whose certificates were under way at once.
SerialsGrow ==
  \A d \in Everyone \ crossed : NextSerial(db[Founder], d) > issued[d]

\* The founder can sign with the newest authority it knows, whatever chains
\* peers have shown it: without that nobody can join or renew any more.
FounderSigns ==
  db[Founder].chain # {} =>
    /\ ValidChain(db[Founder].chain)
    /\ CanSign(db[Founder])
    /\ SigningKey(db[Founder]) = ChainHead(db[Founder].chain)

\* The certificate the founder holds for a member is one that neither it nor the
\* registry would turn away, however revocation lists and announcements race.
CurrentUsable ==
  \A d \in Members \ crossed :
    LET now == db[Founder].cert[d] IN
    now.serial > 0 /\ db[Founder].member[d] # "none" =>
      /\ now.serial \notin db[Founder].revoked[d]
      /\ now.serial > reg.revoked[d]
      /\ now.serial >= reg.seen[d]

\* Founder and member agree on the member's recovery token, the member has not
\* rotated the authority by itself, no two renewals crossed, and the founder has
\* not replaced the certificate by a change of role without a new authority.
InTouch(m) ==
  /\ db[Founder].member[m] # "none"
  /\ db[m].member[m] # "none"
  /\ db[m].token = db[Founder].recovery[m]
  /\ \A k \in db[m].chain : Last(k) = Founder
  /\ m \notin crossed \union recast

Admitted(m) == Admits(db[Founder], m, db[m].cert[m], db[m].chain)

\* A member that the founder would turn away either sees for itself that it
\* needs a new certificate, or lacks a version of the authority that the founder
\* shows it with its next request.
LockoutNoticed ==
  \A m \in Members :
    InTouch(m) => Admitted(m) \/ NeedsReissue(m) \/ ~(db[Founder].chain \subseteq db[m].chain)

\* So members come back: after rotations, expiries and lost messages the founder
\* admits every member it calls again, as long as nobody changes its standing.
MembersAdmitted ==
  \A m \in {x \in Members : <<Founder, x>> \in Ways} :
    InTouch(m) ~> (Admitted(m) \/ ~InTouch(m) \/ issued[m] = MaxSerial \/ issued[Founder] = MaxSerial)

RegistryKnows == \A d \in Members : \A s \in db[Founder].revoked[d] : reg.revoked[d] >= s

\* The registry comes to know of every revocation of the founder, although
\* requests are lost, overtake one another and are taken for stale.
RevocationsKnown == ~RegistryKnows ~> RegistryKnows

\* Certificates are told apart, the newest of a member is good, the founder can make
\* more, and who holds none that is good is able to find that out.
CertificatesUsable == MTypeOK /\ SerialsGrow /\ FounderSigns /\ CurrentUsable /\ LockoutNoticed
=============================================================================
