---------------------------- MODULE MCMembership ----------------------------
(* Membership on small instances: a created every room. *)
EXTENDS Membership, TLC

CONSTANT a
ASSUME CreatorIsUser == a \in Users

AllByA   == [r \in Rooms |-> a]
CapTwo   == [r \in Rooms |-> 2]
Nobody   == {}
OneFriend == {Pair(a, u) : u \in Wanted}

Strangers == Permutations(Users \ {a})
MemberSymmetry == Strangers \cup Permutations(Rooms) \cup Permutations(Reqs)
=============================================================================
