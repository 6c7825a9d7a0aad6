----------------------------- MODULE MCMembership -----------------------------
(* Small instance of Membership: a founder and two members, one of which       *)
(* the founder calls.                                                          *)
EXTENDS Membership
CONSTANTS f, m1, m2
MCMembers == {m1, m2}
MCWays == {<<f, m1>>}
MCRoles == {"admin", "member"}
================================================================================
