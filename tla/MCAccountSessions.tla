------------------------- MODULE MCAccountSessions -------------------------
(***************************************************************************)
(* Values of AccountSessions' constants for TLC.  Accounts share nothing,  *)
(* so one address is enough.                                               *)
(***************************************************************************)
EXTENDS AccountSessions, TLC

(* Request slots and passwords are interchangeable.                        *)
Symmetry == Permutations(Requests) \cup Permutations(Passwords)

============================================================================
