--------------------------- MODULE RoleMembership ---------------------------
(***************************************************************************)
(* Which roles users hold (services/role_service.py), as admins change     *)
(* them through api/v1/users.py and new users arrive by sign-up.           *)
(*                                                                         *)
(* A request reads, computes and commits in one SQL Server transaction at  *)
(* READ COMMITTED.  The rows it has read are not locked, so every read is  *)
(* a step of its own; the rows it writes stay locked until its commit, so  *)
(* its writes and the commit are one step.                                 *)
(*                                                                         *)
(* user_roles.assigned_at is a clock that every insert advances, and also  *)
(* tells a row from one inserted later for the same user and role.         *)
(***************************************************************************)
EXTENDS Naturals

CONSTANTS
    Users,      \* user ids
    Seeded,     \* users that the migrations find
    FirstRole,  \* the role migration 0029 gives to a seeded user
    Roles,      \* the names in the table roles
    Subjects,   \* bound: the users whose roles admins change
    Requests,   \* request slots of the API: what runs concurrently
    Idle,       \* a free slot
    NoRole,     \* primary_role_id of a user that does not exist yet
    MaxRows     \* bound: rows inserted into user_roles

ASSUME RoleAssumption ==
    /\ Seeded \subseteq Users
    /\ FirstRole \in [Seeded -> Roles]
    /\ Subjects \subseteq Users
    /\ {"Admin", "Buyer"} \subseteq Roles
    /\ NoRole \notin Roles
    /\ MaxRows \in Nat

Operations == {"assign", "revoke"}

(* A request: what it asks for, how far it is, and what it has read.       *)
Jobs == [op : Operations, user : Users, role : Roles,
         primary : BOOLEAN, pc : {"loaded", "read"},
         seenPrimary : Roles, seen : [Roles -> Nat]]

ASSUME SlotAssumption == Idle \notin Jobs

(* The overlaps of two requests on a user that break something: both       *)
(* revoke, and not the same role; one revokes the role that the other      *)
(* assigns as the primary one.                                             *)
Clashes == {"revocations", "primary"}

Clash(k, a, b) ==
    \/ /\ k = "revocations"
       /\ a.op = "revoke" /\ b.op = "revoke"
       /\ a.role # b.role
    \/ /\ k = "primary"
       /\ a.op # b.op
       /\ a.role = b.role
       /\ a.primary \/ b.primary

VARIABLES
    since,    \* since[u][r]: assigned_at of the row (u, r), 0 if there is none
    primary,  \* users.primary_role_id
    clock,    \* the latest assigned_at
    req,      \* req[q]: the request in slot q
    clash     \* history: clash[u] holds k when a request on u committed while
              \* another one on u, with which it clashes in the way k, was open

vars == <<since, primary, clock, req, clash>>

Accounts == {u \in Users : primary[u] # NoRole}

(* The roles of a user according to some reading of user_roles.            *)
HeldIn(rows) == {r \in Roles : rows[r] > 0}

Holds(u) == HeldIn(since[u])

---------------------------------------------------------------------------

(* Migrations 0029 and 0030: each user has one role, its primary one.      *)
Init ==
    /\ since = [u \in Users |-> [r \in Roles |->
                  IF u \in Seeded /\ r = FirstRole[u] THEN 1 ELSE 0]]
    /\ primary = [u \in Users |-> IF u \in Seeded THEN FirstRole[u] ELSE NoRole]
    /\ clock = 1
    /\ req = [q \in Requests |-> Idle]
    /\ clash = [u \in Users |-> {}]

NewAccount(u, first) ==
    /\ u \notin Accounts
    /\ clock < MaxRows
    /\ clock' = clock + 1
    /\ since' = [since EXCEPT ![u]["Buyer"] = clock + 1]
    /\ primary' = [primary EXCEPT ![u] = first]
    /\ UNCHANGED <<req, clash>>

(* Faulty: the new user keeps the default of its primary role.             *)
SignUp_NoPrimary(u) == NewAccount(u, NoRole)

(* sign_up: nobody else can see the new user before the commit.            *)
SignUp(u) == NewAccount(u, "Buyer")

(* The guard require_local_role("Admin"), _get_user_or_404, which reads    *)
(* the user to change, and get_role_by_name.  Between them nothing is read *)
(* about that user, and an admin that loses its role after the guard goes  *)
(* on all the same.  A request the guards refuse (401, 403, 404) changes   *)
(* nothing.                                                                *)
Begin(q, op, u, r, flag) ==
    /\ req[q] = Idle
    /\ \E admin \in Accounts : "Admin" \in Holds(admin)
    /\ u \in Accounts
    /\ flag => op = "assign"
    /\ req' = [req EXCEPT ![q] =
                 [op |-> op, user |-> u, role |-> r, primary |-> flag,
                  pc |-> "loaded", seenPrimary |-> primary[u],
                  seen |-> [x \in Roles |-> 0]]]
    /\ UNCHANGED <<since, primary, clock, clash>>

(* The select on user_roles of assign_role and revoke_role.                *)
LoadRoles(q) ==
    /\ req[q] # Idle
    /\ req[q].pc = "loaded"
    /\ req' = [req EXCEPT ![q].pc = "read",
                          ![q].seen = since[req[q].user]]
    /\ UNCHANGED <<since, primary, clock, clash>>

(* revoke_role: len(current) == 1, and that row is the one to delete.      *)
IsLastRole(q) == HeldIn(req[q].seen) = {req[q].role}

NothingToRevoke(q) == /\ req[q].op = "revoke"
                      /\ req[q].role \notin HeldIn(req[q].seen)

(* 409 for the last role, and a revoke of a role the user does not hold.   *)
Refuse(q) ==
    /\ req[q] # Idle
    /\ req[q].pc = "read"
    /\ NothingToRevoke(q) \/ (req[q].op = "revoke" /\ IsLastRole(q))
    /\ req' = [req EXCEPT ![q] = Idle]
    /\ UNCHANGED <<since, primary, clock, clash>>

(* A deadlock victim, a lost connection: the session is rolled back.       *)
Rollback(q) ==
    /\ req[q] # Idle
    /\ req' = [req EXCEPT ![q] = Idle]
    /\ UNCHANGED <<since, primary, clock, clash>>

---------------------------------------------------------------------------
(* Commits                                                                 *)

(* q commits and leaves its slot.                                          *)
Finish(q) ==
    /\ req' = [req EXCEPT ![q] = Idle]
    /\ clash' = [clash EXCEPT ![req[q].user] = @ \cup
         {k \in Clashes :
            \E p \in Requests \ {q} : /\ req[p] # Idle
                                      /\ req[p].user = req[q].user
                                      /\ Clash(k, req[q], req[p])}]

(* The session writes primary_role_id only if it differs from what it read.*)
PrimaryRoleSet(q) == req[q].primary /\ req[q].seenPrimary # req[q].role

Assign(q) ==
    LET u == req[q].user  r == req[q].role IN
    /\ req[q] # Idle
    /\ req[q].pc = "read"
    /\ req[q].op = "assign"
    /\ IF req[q].seen[r] = 0
       THEN /\ since[u][r] = 0  \* unique, or IntegrityError: Rollback
            /\ clock < MaxRows
            /\ clock' = clock + 1
            /\ since' = [since EXCEPT ![u][r] = clock + 1]
       ELSE UNCHANGED <<clock, since>>
    /\ primary' = IF PrimaryRoleSet(q) THEN [primary EXCEPT ![u] = r]
                                       ELSE primary
    /\ Finish(q)

(* Faulty: the role acquired last.                                         *)
Longest_Newest(rows, R) == CHOOSE r \in R : \A x \in R : rows[x] <= rows[r]

(* min(remaining, key=assigned_at).                                        *)
Longest(rows, R) == CHOOSE r \in R : \A x \in R : rows[r] <= rows[x]

(* Faulty: the primary role stays.                                         *)
WasPrimary_Never(q) == FALSE

WasPrimary(q) == req[q].seenPrimary = req[q].role

(* Faulty: every row of the user.                                          *)
Delete_AllRows(q) == [since EXCEPT ![req[q].user] = [r \in Roles |-> 0]]

(* The row that was read, if it is still there.                            *)
Delete(q) == [since EXCEPT ![req[q].user][req[q].role] =
                IF @ = req[q].seen[req[q].role] THEN 0 ELSE @]

(* revoke_role: delete, then promote one of the others that were read.     *)
Revoke(q) ==
    LET u == req[q].user  r == req[q].role  rows == req[q].seen IN
    /\ req[q] # Idle
    /\ req[q].pc = "read"
    /\ req[q].op = "revoke"
    /\ ~NothingToRevoke(q)
    /\ ~IsLastRole(q)
    /\ since' = Delete(q)
    /\ primary' = IF WasPrimary(q)
                  THEN [primary EXCEPT ![u] = Longest(rows, HeldIn(rows) \ {r})]
                  ELSE primary
    /\ Finish(q)
    /\ UNCHANGED clock

---------------------------------------------------------------------------

Next ==
    \/ \E u \in Users : SignUp(u)
    \/ \E q \in Requests, op \in Operations, u \in Subjects,
          r \in Roles, flag \in BOOLEAN : Begin(q, op, u, r, flag)
    \/ \E q \in Requests :
         \/ LoadRoles(q) \/ Refuse(q) \/ Rollback(q) \/ Assign(q) \/ Revoke(q)

Spec == Init /\ [][Next]_vars

---------------------------------------------------------------------------
(* Properties                                                              *)

TypeOK ==
    /\ since \in [Users -> [Roles -> 0 .. clock]]
    /\ primary \in [Users -> Roles \cup {NoRole}]
    /\ clock \in Nat
    /\ req \in [Requests -> Jobs \cup {Idle}]
    /\ clash \in [Users -> SUBSET Clashes]
    /\ \A u \in Users : Holds(u) # {} => u \in Accounts

(* Every user holds a role: revoke_role guarantees it "by refusing to      *)
(* remove a user's last role" (services/role_service.py:5-7).              *)
EveryUserHoldsARole == \A u \in Accounts : Holds(u) # {}

(* Only two overlapping revocations of different roles can take a user's   *)
(* last role, whatever else interleaves with them                          *)
(* (services/role_service.py:76-86).                                       *)
KeepsARole ==
    \A u \in Accounts : "revocations" \notin clash[u] => Holds(u) # {}

(* "a user's primary role is always also one of their user_roles rows"     *)
(* (models/role.py:8-9), through every overlap but the two in Clashes: an  *)
(* assignment of another role or of one that is not to be primary, and a   *)
(* second revocation of the same role, do no harm.                         *)
PrimaryIsHeld ==
    \A u \in Accounts : clash[u] = {} => primary[u] \in Holds(u)

(* When the primary role is revoked, "the longest-held remaining role is   *)
(* promoted to primary" (services/role_service.py:71-72), although roles   *)
(* come and go after the revocation has read them; with the same           *)
(* exceptions.                                                             *)
LongestHeldPromoted ==
    [][\A u \in Accounts :
         (clash[u] = {} /\ primary[u] \in Holds(u) \ Holds(u)')
            => /\ primary'[u] \in Holds(u)'
               /\ \A r \in Holds(u)' : since'[u][primary'[u]] <= since'[u][r]]_vars

============================================================================
