-------------------------- MODULE MCRoleMembership --------------------------
(***************************************************************************)
(* Values of RoleMembership's constants for TLC: an admin, a user with one *)
(* role who acquires and loses others, and roles for a promotion with a    *)
(* choice.                                                                 *)
(***************************************************************************)
EXTENDS RoleMembership, TLC

CONSTANTS admin, user

BothUsers == {admin, user}
SeededRoles == [u \in Seeded |-> IF u = admin THEN "Admin" ELSE "Buyer"]
ThreeRoles == {"Admin", "Buyer", "Seller"}

(* Request slots are interchangeable.                                      *)
Symmetry == Permutations(Requests)

============================================================================
