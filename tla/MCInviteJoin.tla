----------------------------- MODULE MCInviteJoin -----------------------------
(* Small instance of InviteJoin: two devices, an invite of each kind, two      *)
(* calls of the owner, which are interchangeable.                              *)
EXTENDS InviteJoin, TLC
CONSTANTS d1, d2, once, many, c1, c2
MCDevices   == {d1, d2}
MCSingleUse == {once}
MCReusable  == {many}
MCCodes     == {<<d1, once>>, <<d2, once>>, <<d2, many>>}
MCCalls     == {c1, c2}
Symmetry    == Permutations(MCCalls)
===============================================================================
