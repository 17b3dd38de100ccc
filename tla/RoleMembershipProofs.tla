------------------------ MODULE RoleMembershipProofs ------------------------
(***************************************************************************)
(* Theorems about RoleMembership, for any number of users, roles and       *)
(* concurrent requests.                                                    *)
(***************************************************************************)
EXTENDS RoleMembership, WellFoundedInduction, TLAPS

(* What min(remaining, key=assigned_at) returns.                           *)
LEMMA LongestExists ==
    ASSUME NEW rows \in [Roles -> Nat], NEW R \in SUBSET Roles, R # {}
    PROVE  /\ Longest(rows, R) \in R
           /\ \A x \in R : rows[Longest(rows, R)] <= rows[x]
<1> DEFINE T == {rows[x] : x \in R}
           Less == {p \in Nat \X Nat : p[1] < p[2]}
<1>1. T \subseteq Nat /\ T # {}
  OBVIOUS
<1>2. IsWellFoundedOn(Less, Nat)
  <2>1. Less = OpToRel(<, Nat)
    BY DEF OpToRel
  <2> QED
    BY <2>1, NatLessThanWellFounded
<1>3. PICK m \in T : \A n \in T : <<n, m>> \notin Less
  <2> HIDE DEF T, Less
  <2> QED
    BY <1>1, <1>2, WFMin
<1>4. PICK r \in R : m = rows[r]
  OBVIOUS
<1>5. ASSUME NEW x \in R
      PROVE  rows[r] <= rows[x]
  <2>1. rows[x] \in T /\ rows[x] \in Nat /\ rows[r] \in Nat
    OBVIOUS
  <2>2. ~(rows[x] < m)
    BY <1>1, <1>3, <2>1
  <2> QED
    BY <1>4, <2>1, <2>2
<1> QED
  BY <1>5 DEF Longest

---------------------------------------------------------------------------
(* Types                                                                   *)

Open(q) == req[q] # Idle

TypeInv ==
    /\ since \in [Users -> [Roles -> Nat]]
    /\ primary \in [Users -> Roles \cup {NoRole}]
    /\ clock \in Nat
    /\ \A u \in Users, r \in Roles : since[u][r] <= clock
    /\ req \in [Requests -> Jobs \cup {Idle}]
    /\ clash \in [Users -> SUBSET Clashes]
    /\ \A u \in Users : Holds(u) # {} => u \in Accounts
    /\ \A q \in Requests : Open(q) => req[q].user \in Accounts

LEMMA TypeInit == Init => TypeInv
  BY RoleAssumption DEF Init, TypeInv, Open, Holds, HeldIn, Accounts

(* What a request that is ready to commit looks like.                      *)
LEMMA OpenJob ==
    ASSUME TypeInv, NEW q \in Requests, Open(q)
    PROVE  /\ req[q] \in Jobs
           /\ req[q].op \in Operations
           /\ req[q].user \in Users
           /\ req[q].user \in Accounts
           /\ req[q].role \in Roles
           /\ req[q].seenPrimary \in Roles
           /\ req[q].seen \in [Roles -> Nat]
  BY DEF TypeInv, Open, Jobs, Accounts

(* The role a revocation promotes is one of those that were read.          *)
LEMMA Promoted ==
    ASSUME TypeInv, NEW q \in Requests, Open(q),
           ~NothingToRevoke(q), ~IsLastRole(q), req[q].op = "revoke",
           NEW R, R = HeldIn(req[q].seen) \ {req[q].role}
    PROVE  /\ R # {}
           /\ req[q].role \in HeldIn(req[q].seen)
           /\ Longest(req[q].seen, R) \in R
           /\ \A x \in R : req[q].seen[Longest(req[q].seen, R)]
                             <= req[q].seen[x]
<1>1. R \in SUBSET Roles /\ R # {} /\ req[q].role \in HeldIn(req[q].seen)
  BY OpenJob DEF NothingToRevoke, IsLastRole, HeldIn
<1> QED
  BY <1>1, LongestExists, OpenJob, SMTT(60)

(* What a commit leaves in the slot and in the history.                    *)
LEMMA FinishTypes ==
    ASSUME TypeInv, NEW q \in Requests, Open(q), Finish(q)
    PROVE  /\ req' \in [Requests -> Jobs \cup {Idle}]
           /\ clash' \in [Users -> SUBSET Clashes]
           /\ \A p \in Requests : p # q => req'[p] = req[p]
           /\ ~Open(q)'
           /\ \A v \in Users : clash[v] \subseteq clash'[v]
           /\ \A p \in Requests \ {q}, k \in Clashes :
                Open(p) /\ req[p].user = req[q].user /\ Clash(k, req[q], req[p])
                  => k \in clash'[req[q].user]
<1> DEFINE u == req[q].user
           C == {k \in Clashes :
                   \E p \in Requests \ {q} : /\ req[p] # Idle
                                             /\ req[p].user = req[q].user
                                             /\ Clash(k, req[q], req[p])}
<1>1. u \in Users
  BY OpenJob
<1>2. req' = [req EXCEPT ![q] = Idle]
  BY DEF Finish
<1>3. clash' = [clash EXCEPT ![u] = @ \cup C]
  BY DEF Finish
<1>4. C \in SUBSET Clashes
  OBVIOUS
<1>5. clash \in [Users -> SUBSET Clashes]
  BY DEF TypeInv
<1>6. /\ clash' \in [Users -> SUBSET Clashes]
      /\ \A v \in Users : clash[v] \subseteq clash'[v]
      /\ C \subseteq clash'[u]
  <2> HIDE DEF C, u
  <2> QED
    BY <1>1, <1>3, <1>4, <1>5
<1>7. ASSUME NEW p \in Requests \ {q}, NEW k \in Clashes,
             Open(p), req[p].user = req[q].user, Clash(k, req[q], req[p])
      PROVE  k \in clash'[req[q].user]
  <2>1. k \in C
    BY <1>7 DEF Open
  <2> QED
    BY <1>6, <2>1
<1> QED
  BY <1>2, <1>6, <1>7 DEF TypeInv, Open

LEMMA TypeStep == TypeInv /\ [Next]_vars => TypeInv'
<1> SUFFICES ASSUME TypeInv, [Next]_vars PROVE TypeInv'
  OBVIOUS
<1> USE DEF Open
<1>1. ASSUME NEW u \in Users, SignUp(u) PROVE TypeInv'
  <2>1. since' \in [Users -> [Roles -> Nat]]
    BY <1>1, RoleAssumption DEF SignUp, NewAccount, TypeInv
  <2>2. \A v \in Users, r \in Roles : since'[v][r] <= clock'
    BY <1>1, RoleAssumption DEF SignUp, NewAccount, TypeInv
  <2>3. \A v \in Users : v # u => since'[v] = since[v] /\ primary'[v] = primary[v]
    BY <1>1 DEF SignUp, NewAccount, TypeInv
  <2>4. primary'[u] = "Buyer" /\ primary' \in [Users -> Roles \cup {NoRole}]
    BY <1>1, RoleAssumption DEF SignUp, NewAccount, TypeInv
  <2> QED
    BY <1>1, <2>1, <2>2, <2>3, <2>4, RoleAssumption
       DEF SignUp, NewAccount, TypeInv, Holds, HeldIn, Accounts
<1>2. ASSUME NEW q \in Requests, NEW op \in Operations, NEW u \in Subjects,
             NEW r \in Roles, NEW flag \in BOOLEAN, Begin(q, op, u, r, flag)
      PROVE  TypeInv'
  <2> DEFINE j == [op |-> op, user |-> u, role |-> r, primary |-> flag,
                   pc |-> "loaded", seenPrimary |-> primary[u],
                   seen |-> [x \in Roles |-> 0]]
  <2>1. u \in Users /\ u \in Accounts /\ primary[u] \in Roles
    BY <1>2, RoleAssumption DEF Begin, Accounts, TypeInv
  <2>2. j \in Jobs
    BY <2>1 DEF Jobs
  <2>3. req' = [req EXCEPT ![q] = j]
    BY <1>2 DEF Begin
  <2>4. j.user = u
    OBVIOUS
  <2> HIDE DEF j
  <2> QED
    BY <1>2, <2>1, <2>2, <2>3, <2>4
       DEF Begin, TypeInv, Holds, Accounts
<1>3. ASSUME NEW q \in Requests, LoadRoles(q) PROVE TypeInv'
  <2>1. req[q] \in Jobs /\ req[q].user \in Accounts /\ req[q].user \in Users
    BY <1>3, OpenJob DEF LoadRoles
  <2>2. since[req[q].user] \in [Roles -> Nat]
    BY <2>1 DEF TypeInv
  <2> DEFINE j == [req[q] EXCEPT !.pc = "read", !.seen = since[req[q].user]]
  <2>3. j \in Jobs /\ j.user = req[q].user
    BY <2>1, <2>2 DEF Jobs
  <2>4. req' = [req EXCEPT ![q] = j]
    BY <1>3 DEF LoadRoles, TypeInv
  <2> HIDE DEF j
  <2>5. UNCHANGED <<since, primary, clock, clash>>
    BY <1>3 DEF LoadRoles
  <2>6. req' \in [Requests -> Jobs \cup {Idle}]
    BY <2>3, <2>4 DEF TypeInv
  <2>7. \A p \in Requests : p # q => req'[p] = req[p]
    BY <2>4 DEF TypeInv
  <2>8. req'[q].user = req[q].user
    BY <2>3, <2>4 DEF TypeInv
  <2>9. Accounts' = Accounts /\ \A u \in Users : Holds(u)' = Holds(u)
    BY <2>5 DEF Accounts, Holds
  <2>10. \A p \in Requests : Open(p)' => req'[p].user \in Accounts'
    BY <2>1, <2>7, <2>8, <2>9 DEF TypeInv
  <2> QED
    BY <2>5, <2>6, <2>9, <2>10 DEF TypeInv
<1>4. ASSUME NEW q \in Requests, Refuse(q) \/ Rollback(q) PROVE TypeInv'
  BY <1>4, SMTT(60) DEF Refuse, Rollback, TypeInv, Holds, Accounts
<1>5. ASSUME NEW q \in Requests, Assign(q) PROVE TypeInv'
  <2> DEFINE u == req[q].user  r == req[q].role
  <2>0. Open(q) /\ Finish(q)
    BY <1>5 DEF Assign
  <2>1. u \in Users /\ r \in Roles /\ u \in Accounts
    BY <2>0, OpenJob
  <2>2. /\ primary' \in [Users -> Roles \cup {NoRole}]
        /\ \A v \in Users : v \in Accounts => v \in Accounts'
    BY <1>5, <2>1, RoleAssumption DEF Assign, TypeInv, Accounts
  <2>3. /\ since' \in [Users -> [Roles -> Nat]]
        /\ clock' \in Nat
        /\ \A v \in Users, x \in Roles : since'[v][x] <= clock'
        /\ \A v \in Users : v # u => since'[v] = since[v]
    <3>1. CASE req[q].seen[r] = 0
      <4>1. /\ clock' = clock + 1
            /\ since' = [since EXCEPT ![u][r] = clock + 1]
        BY <1>5, <3>1 DEF Assign
      <4> HIDE DEF u, r
      <4> QED
        BY <2>1, <4>1 DEF TypeInv
    <3>2. CASE req[q].seen[r] # 0
      BY <1>5, <3>2 DEF Assign, TypeInv
    <3> QED
      BY <3>1, <3>2
  <2>4. \A v \in Users : Holds(v)' # {} => v \in Accounts'
    BY <2>1, <2>2, <2>3 DEF Holds, TypeInv
  <2>5. \A p \in Requests : Open(p)' => req'[p].user \in Accounts'
    BY <2>0, <2>2, FinishTypes, OpenJob
  <2> QED
    BY <2>0, <2>2, <2>3, <2>4, <2>5, FinishTypes DEF TypeInv
<1>6. ASSUME NEW q \in Requests, Revoke(q) PROVE TypeInv'
  <2> DEFINE u == req[q].user  r == req[q].role
             R == HeldIn(req[q].seen) \ {r}
  <2>0. Open(q) /\ Finish(q)
    BY <1>6 DEF Revoke
  <2>1. u \in Users /\ r \in Roles /\ u \in Accounts
    BY <2>0, OpenJob
  <2>2. Longest(req[q].seen, R) \in Roles
    BY <1>6, <2>0, Promoted DEF Revoke, HeldIn
  <2>3. /\ primary' \in [Users -> Roles \cup {NoRole}]
        /\ \A v \in Users : v \in Accounts => v \in Accounts'
    BY <1>6, <2>1, <2>2, RoleAssumption DEF Revoke, TypeInv, Accounts
  <2>4. /\ since' \in [Users -> [Roles -> Nat]]
        /\ clock' = clock
        /\ \A v \in Users, x \in Roles : since'[v][x] <= clock'
        /\ \A v \in Users : v # u => since'[v] = since[v]
    BY <1>6, <2>1 DEF Revoke, Delete, TypeInv
  <2>5. \A v \in Users : Holds(v)' # {} => v \in Accounts'
    BY <2>1, <2>3, <2>4 DEF Holds, TypeInv
  <2>6. \A p \in Requests : Open(p)' => req'[p].user \in Accounts'
    BY <2>0, <2>3, FinishTypes, OpenJob
  <2> QED
    BY <2>0, <2>3, <2>4, <2>5, <2>6, FinishTypes DEF TypeInv
<1>7. CASE UNCHANGED vars
  BY <1>7 DEF vars, TypeInv, Holds, Accounts
<1> QED
  BY <1>1, <1>2, <1>3, <1>4, <1>5, <1>6, <1>7 DEF Next

(* Rows, primary roles and requests are well formed                        *)
(* (services/role_service.py).                                             *)
THEOREM RolesTypeCorrect == Spec => []TypeOK
<1>1. TypeInv => TypeOK
  BY DEF TypeInv, TypeOK
<1> QED
  BY <1>1, TypeInit, TypeStep, PTL DEF Spec

---------------------------------------------------------------------------
(* What open requests may still rely on                                    *)

(* What a request has read is not newer than the clock, and a row that is  *)
(* not among those it has read is newer than all of them.                  *)
Newer ==
    \A q \in Requests : Open(q) /\ req[q].pc = "read" =>
      \A x, y \in Roles :
        /\ req[q].seen[y] <= clock
        /\ since[req[q].user][x] > 0
             /\ since[req[q].user][x] # req[q].seen[x]
           => req[q].seen[y] < since[req[q].user][x]

(* Without a revocation of another role, a revocation finds the other rows *)
(* that it has read.                                                       *)
RowsThere ==
    \A q \in Requests :
        /\ Open(q)
        /\ req[q].op = "revoke"
        /\ req[q].pc = "read"
        /\ "revocations" \notin clash[req[q].user]
        => \A x \in Roles : x # req[q].role /\ req[q].seen[x] > 0 =>
             since[req[q].user][x] = req[q].seen[x]

(* Without a clash, a revocation of the primary role knows that it is one, *)
(* and the role an assignment makes primary is held if it was seen held.   *)
Fresh ==
    \A q \in Requests : Open(q) /\ clash[req[q].user] = {} =>
        /\ req[q].op = "revoke" /\ primary[req[q].user] = req[q].role
             => req[q].seenPrimary = req[q].role
        /\ /\ req[q].op = "assign"
           /\ req[q].primary
           /\ req[q].pc = "read"
           /\ req[q].seen[req[q].role] > 0
           => since[req[q].user][req[q].role] > 0

RolesInv == TypeInv /\ Newer /\ RowsThere /\ Fresh /\ KeepsARole /\ PrimaryIsHeld

LEMMA RolesInit == Init => RolesInv
  BY TypeInit, RoleAssumption
     DEF Init, RolesInv, Newer, Fresh, RowsThere, KeepsARole, PrimaryIsHeld,
         Open, Holds, HeldIn, Accounts

(* What an assignment does to the rows and the primary role.               *)
LEMMA AssignEffect ==
    ASSUME TypeInv, NEW q \in Requests, Assign(q)
    PROVE  /\ Open(q) /\ Finish(q) /\ req[q].pc = "read"
           /\ \A v \in Users, r \in Roles :
                \/ since'[v][r] = since[v][r]
                \/ since[v][r] = 0 /\ since'[v][r] > clock
           /\ clock <= clock' /\ req[q].op = "assign"
           /\ \A v \in Users : v # req[q].user =>
                since'[v] = since[v] /\ primary'[v] = primary[v]
           /\ \/ primary'[req[q].user] = primary[req[q].user]
              \/ primary'[req[q].user] = req[q].role /\ req[q].primary
           /\ \/ since'[req[q].user][req[q].role] > 0
              \/ /\ req[q].seen[req[q].role] > 0
                 /\ since'[req[q].user][req[q].role]
                      = since[req[q].user][req[q].role]
<1> DEFINE u == req[q].user  r == req[q].role
<1>0. Open(q) /\ Finish(q) /\ req[q].pc = "read" /\ req[q].op = "assign"
  BY DEF Assign, Open
<1>1. u \in Users /\ r \in Roles /\ req[q].seen[r] \in Nat
  BY <1>0, OpenJob
<1>2. /\ \A v \in Users : v # u => primary'[v] = primary[v]
      /\ primary'[u] = primary[u] \/ (primary'[u] = r /\ req[q].primary)
  BY <1>1 DEF Assign, PrimaryRoleSet, TypeInv
<1>3. CASE req[q].seen[r] = 0
  <2>1. /\ since[u][r] = 0
        /\ since' = [since EXCEPT ![u][r] = clock + 1]
        /\ clock' = clock + 1
    BY <1>3 DEF Assign
  <2> HIDE DEF u, r
  <2>2. /\ \A v \in Users, x \in Roles :
             \/ since'[v][x] = since[v][x]
             \/ since[v][x] = 0 /\ since'[v][x] > clock
        /\ clock <= clock'
        /\ \A v \in Users : v # u => since'[v] = since[v]
        /\ since'[u][r] > 0
    BY <1>1, <2>1 DEF TypeInv
  <2> QED
    BY <1>0, <1>2, <2>2 DEF u, r
<1>4. CASE req[q].seen[r] # 0
  <2>1. since' = since /\ clock' = clock
    BY <1>4 DEF Assign
  <2> QED
    BY <1>0, <1>1, <1>2, <1>4, <2>1 DEF TypeInv
<1> QED
  BY <1>3, <1>4

(* What a revocation does to them.                                         *)
LEMMA RevokeEffect ==
    ASSUME TypeInv, NEW q \in Requests, Revoke(q)
    PROVE  /\ Open(q) /\ Finish(q) /\ req[q].pc = "read" /\ req[q].op = "revoke"
           /\ \A v \in Users : v # req[q].user =>
                since'[v] = since[v] /\ primary'[v] = primary[v]
           /\ \A r \in Roles : r # req[q].role =>
                since'[req[q].user][r] = since[req[q].user][r]
           /\ since'[req[q].user][req[q].role]
                \in {0, since[req[q].user][req[q].role]}
           /\ clock' = clock
           /\ primary'[req[q].user] =
                IF WasPrimary(q)
                THEN Longest(req[q].seen, HeldIn(req[q].seen) \ {req[q].role})
                ELSE primary[req[q].user]
           /\ ~NothingToRevoke(q) /\ ~IsLastRole(q)
<1> DEFINE u == req[q].user  r == req[q].role
<1>0. /\ Open(q) /\ Finish(q) /\ req[q].pc = "read" /\ req[q].op = "revoke"
      /\ ~NothingToRevoke(q) /\ ~IsLastRole(q) /\ clock' = clock
  BY DEF Revoke, Open
<1>1. u \in Users /\ r \in Roles /\ req[q].seen \in [Roles -> Nat]
  BY <1>0, OpenJob
<1>2. since' = [since EXCEPT ![u][r] = IF @ = req[q].seen[r] THEN 0 ELSE @]
  BY DEF Revoke, Delete
<1>3. /\ \A v \in Users : v # u => since'[v] = since[v]
      /\ \A x \in Roles : x # r => since'[u][x] = since[u][x]
      /\ since'[u][r] \in {0, since[u][r]}
  <2> HIDE DEF u, r
  <2> QED
    BY <1>1, <1>2 DEF TypeInv
<1>4. /\ \A v \in Users : v # u => primary'[v] = primary[v]
      /\ primary'[u] = IF WasPrimary(q)
                       THEN Longest(req[q].seen, HeldIn(req[q].seen) \ {r})
                       ELSE primary[u]
  BY <1>1 DEF Revoke, TypeInv
<1> QED
  BY <1>0, <1>3, <1>4

(* After a commit by q, a request p that is still open on the same user    *)
(* and clashes with it is known to have done so.                           *)
LEMMA AfterCommit ==
    ASSUME TypeInv, NEW q \in Requests, Open(q), Finish(q),
           NEW p \in Requests, Open(p)'
    PROVE  /\ p # q /\ Open(p) /\ req'[p] = req[p] /\ req[p].user \in Users
           /\ clash[req[p].user] \subseteq clash'[req[p].user]
           /\ req[p].user = req[q].user =>
                \A k \in Clashes : Clash(k, req[q], req[p])
                  => k \in clash'[req[p].user]
  BY FinishTypes, OpenJob DEF Open

LEMMA AssignKeeps ==
    ASSUME RolesInv, NEW q \in Requests, Assign(q), TypeInv'
    PROVE  RolesInv'
<1> USE DEF RolesInv
<1> DEFINE u == req[q].user  r == req[q].role
<1>0. /\ u \in Users /\ u \in Accounts /\ r \in Roles
      /\ Open(q) /\ Finish(q) /\ req[q].op = "assign"
  BY AssignEffect, OpenJob
<1>1. \A v \in Users, x \in Roles :
        \/ since'[v][x] = since[v][x]
        \/ since[v][x] = 0 /\ since'[v][x] > clock
  BY AssignEffect
<1>2. \A v \in Users, x \in Roles :
        since[v][x] > 0 => since'[v][x] = since[v][x]
  BY <1>1 DEF TypeInv
<1>3. \A v \in Users : v \in Accounts' => v \in Accounts /\ clash[v] \subseteq clash'[v]
  BY <1>0, AssignEffect, FinishTypes DEF Accounts
<1>4. Newer'
  <2> SUFFICES ASSUME NEW p \in Requests, Open(p)', req'[p].pc = "read",
                      NEW x \in Roles, NEW y \in Roles
               PROVE  /\ req'[p].seen[y] <= clock'
                      /\ since'[req'[p].user][x] > 0
                           /\ since'[req'[p].user][x] # req'[p].seen[x]
                         => req'[p].seen[y] < since'[req'[p].user][x]
    BY DEF Newer
  <2>1. Open(p) /\ req'[p] = req[p] /\ req[p].user \in Users
    BY <1>0, AfterCommit
  <2>2. req[p].seen[y] <= clock /\ req[p].seen[y] \in Nat
    BY <2>1, OpenJob DEF Newer
  <2>3. clock <= clock' /\ clock \in Nat /\ clock' \in Nat
    BY AssignEffect DEF TypeInv
  <2>4. since'[req[p].user][x] \in Nat
    BY <2>1 DEF TypeInv
  <2>5. CASE since'[req[p].user][x] = since[req[p].user][x]
    BY <2>1, <2>2, <2>3, <2>5 DEF Newer
  <2>6. CASE since'[req[p].user][x] > clock
    BY <2>1, <2>2, <2>3, <2>4, <2>6
  <2> QED
    BY <1>1, <2>1, <2>5, <2>6
<1>5. RowsThere'
  <2> SUFFICES ASSUME NEW p \in Requests, Open(p)', req'[p].op = "revoke",
                      req'[p].pc = "read", "revocations" \notin clash'[req'[p].user],
                      NEW x \in Roles, x # req'[p].role, req'[p].seen[x] > 0
               PROVE  since'[req'[p].user][x] = req'[p].seen[x]
    BY DEF RowsThere
  <2>1. /\ Open(p) /\ req'[p] = req[p] /\ req[p].user \in Users
        /\ clash[req[p].user] \subseteq clash'[req[p].user]
    BY <1>0, AfterCommit
  <2> QED
    BY <1>2, <2>1 DEF RowsThere
<1>6. Fresh'
  <2> SUFFICES ASSUME NEW p \in Requests, Open(p)', clash'[req'[p].user] = {}
               PROVE  /\ req'[p].op = "revoke" /\ primary'[req'[p].user] = req'[p].role
                           => req'[p].seenPrimary = req'[p].role
                      /\ /\ req'[p].op = "assign"
                         /\ req'[p].primary
                         /\ req'[p].pc = "read"
                         /\ req'[p].seen[req'[p].role] > 0
                         => since'[req'[p].user][req'[p].role] > 0
    BY DEF Fresh
  <2>1. /\ Open(p) /\ req'[p] = req[p] /\ req[p].user \in Users
        /\ clash[req[p].user] = {}
        /\ req[p].user = u => ~Clash("primary", req[q], req[p])
    BY <1>0, AfterCommit DEF Clashes
  <2>2. req[p].role \in Roles
    BY <2>1, OpenJob
  <2>3. ASSUME req[p].op = "revoke", primary'[req[p].user] = req[p].role
        PROVE  primary[req[p].user] = req[p].role
    <3>1. CASE req[p].user # u
      BY <2>1, <2>3, <3>1, AssignEffect
    <3>2. CASE req[p].user = u
      <4>1. primary'[u] = primary[u] \/ (primary'[u] = r /\ req[q].primary)
        BY AssignEffect
      <4>2. ~(primary'[u] = r /\ req[q].primary)
        BY <1>0, <2>1, <2>3, <3>2 DEF Clash
      <4> QED
        BY <2>3, <3>2, <4>1, <4>2
    <3> QED
      BY <3>1, <3>2
  <2> QED
    BY <1>2, <2>1, <2>2, <2>3 DEF Fresh
<1>7. KeepsARole'
  BY <1>2, <1>3 DEF KeepsARole, Holds, HeldIn, TypeInv, Accounts
<1>8. PrimaryIsHeld'
  <2> SUFFICES ASSUME NEW v \in Users, v \in Accounts', clash'[v] = {}
               PROVE  primary'[v] \in Holds(v)'
    BY DEF PrimaryIsHeld, Accounts
  <2>1. v \in Accounts /\ clash[v] = {} /\ primary[v] \in Holds(v)
    BY <1>3 DEF PrimaryIsHeld
  <2>2. CASE primary'[v] = primary[v]
    BY <1>2, <2>1, <2>2 DEF Holds, HeldIn
  <2>3. CASE primary'[v] # primary[v]
    <3>1. v = u /\ primary'[v] = r /\ req[q].primary
      BY <2>3, AssignEffect, ZenonT(60)
    <3>2. since'[u][r] > 0
      <4>1. CASE req[q].seen[r] > 0
        <5>1. since[u][r] > 0
          BY <1>0, <2>1, <3>1, <4>1, AssignEffect DEF Fresh
        <5> QED
          BY <1>0, <1>2, <5>1
      <4>2. CASE ~(req[q].seen[r] > 0)
        BY <4>2, AssignEffect
      <4> QED
        BY <4>1, <4>2
    <3> QED
      BY <1>0, <3>1, <3>2 DEF Holds, HeldIn
  <2> QED
    BY <2>2, <2>3
<1> QED
  BY <1>4, <1>5, <1>6, <1>7, <1>8

LEMMA RevokeKeeps ==
    ASSUME RolesInv, NEW q \in Requests, Revoke(q), TypeInv'
    PROVE  RolesInv'
<1> USE DEF RolesInv
<1> DEFINE u == req[q].user  r == req[q].role
           R == HeldIn(req[q].seen) \ {r}
<1>0. /\ u \in Users /\ u \in Accounts /\ r \in Roles /\ Open(q) /\ Finish(q)
      /\ req[q].op = "revoke" /\ req[q].pc = "read"
  BY RevokeEffect, OpenJob
<1>1. /\ R # {} /\ Longest(req[q].seen, R) \in R
      /\ req[q].seen \in [Roles -> Nat]
  BY <1>0, RevokeEffect, Promoted, OpenJob
<1>2. \A v \in Users : v # u => since'[v] = since[v] /\ primary'[v] = primary[v]
  BY RevokeEffect
<1>3. \A x \in Roles : x # r => since'[u][x] = since[u][x]
  BY RevokeEffect
<1>4. \A v \in Users : v \in Accounts' => v \in Accounts /\ clash[v] \subseteq clash'[v]
  BY <1>0, RevokeEffect, FinishTypes DEF Accounts
<1>5. Newer'
  <2> SUFFICES ASSUME NEW p \in Requests, Open(p)', req'[p].pc = "read",
                      NEW x \in Roles, NEW y \in Roles
               PROVE  /\ req'[p].seen[y] <= clock'
                      /\ since'[req'[p].user][x] > 0
                           /\ since'[req'[p].user][x] # req'[p].seen[x]
                         => req'[p].seen[y] < since'[req'[p].user][x]
    BY DEF Newer
  <2>1. Open(p) /\ req'[p] = req[p] /\ req[p].user \in Users
    BY <1>0, AfterCommit
  <2>2. since'[req[p].user][x] \in {0, since[req[p].user][x]} /\ clock' = clock
    <3>1. CASE req[p].user = u /\ x = r
      BY <3>1, RevokeEffect
    <3>2. CASE ~(req[p].user = u /\ x = r)
      BY <1>2, <1>3, <2>1, <3>2, RevokeEffect
    <3> QED
      BY <3>1, <3>2
  <2> QED
    BY <2>1, <2>2 DEF Newer
<1>6. RowsThere'
  <2> SUFFICES ASSUME NEW p \in Requests, Open(p)', req'[p].op = "revoke",
                      req'[p].pc = "read", "revocations" \notin clash'[req'[p].user],
                      NEW x \in Roles, x # req'[p].role, req'[p].seen[x] > 0
               PROVE  since'[req'[p].user][x] = req'[p].seen[x]
    BY DEF RowsThere
  <2>1. /\ Open(p) /\ req'[p] = req[p] /\ req[p].user \in Users
        /\ clash[req[p].user] \subseteq clash'[req[p].user]
        /\ req[p].user = u => ~Clash("revocations", req[q], req[p])
    BY <1>0, AfterCommit DEF Clashes
  <2>2. since[req[p].user][x] = req[p].seen[x]
    BY <2>1 DEF RowsThere
  <2>3. CASE req[p].user # u
    BY <1>2, <2>1, <2>2, <2>3
  <2>4. CASE req[p].user = u
    <3>1. req[p].role = r
      BY <1>0, <2>1, <2>4 DEF Clash
    <3> QED
      BY <1>3, <2>1, <2>2, <2>4, <3>1
  <2> QED
    BY <2>3, <2>4
<1>7. Fresh'
  <2> SUFFICES ASSUME NEW p \in Requests, Open(p)', clash'[req'[p].user] = {}
               PROVE  /\ req'[p].op = "revoke" /\ primary'[req'[p].user] = req'[p].role
                           => req'[p].seenPrimary = req'[p].role
                      /\ /\ req'[p].op = "assign"
                         /\ req'[p].primary
                         /\ req'[p].pc = "read"
                         /\ req'[p].seen[req'[p].role] > 0
                         => since'[req'[p].user][req'[p].role] > 0
    BY DEF Fresh
  <2>1. /\ Open(p) /\ req'[p] = req[p] /\ req[p].user \in Users
        /\ clash[req[p].user] = {}
        /\ req[p].user = u => /\ ~Clash("revocations", req[q], req[p])
                              /\ ~Clash("primary", req[q], req[p])
    BY <1>0, AfterCommit DEF Clashes
  <2>2. req[p].role \in Roles
    BY <2>1, OpenJob
  <2>3. ASSUME req[p].op = "revoke", primary'[req[p].user] = req[p].role
        PROVE  primary[req[p].user] = req[p].role
    <3>1. CASE req[p].user # u
      BY <1>2, <2>1, <2>3, <3>1
    <3>2. CASE req[p].user = u
      <4>1. req[p].role = r
        BY <1>0, <2>1, <2>3, <3>2 DEF Clash
      <4>2. primary'[u] = Longest(req[q].seen, R) \/ primary'[u] = primary[u]
        BY RevokeEffect
      <4> QED
        BY <1>1, <2>3, <3>2, <4>1, <4>2
    <3> QED
      BY <3>1, <3>2
  <2>4. ASSUME req[p].op = "assign", req[p].primary
        PROVE  since'[req[p].user][req[p].role] = since[req[p].user][req[p].role]
    <3>1. CASE req[p].user # u
      BY <1>2, <2>1, <3>1
    <3>2. CASE req[p].user = u
      <4>1. req[p].role # r
        BY <1>0, <2>1, <2>4, <3>2 DEF Clash
      <4> QED
        BY <1>3, <2>2, <3>2, <4>1
    <3> QED
      BY <3>1, <3>2
  <2> QED
    BY <2>1, <2>3, <2>4 DEF Fresh
<1>8. ASSUME NEW x \in R, "revocations" \notin clash[u]
      PROVE  since[u][x] = req[q].seen[x] /\ x \in HeldIn(since'[u])
  <2>1. x \in Roles /\ x # r /\ req[q].seen[x] > 0
    BY DEF HeldIn
  <2>2. since[u][x] = req[q].seen[x]
    BY <1>0, <1>8, <2>1 DEF RowsThere
  <2> QED
    BY <1>3, <2>1, <2>2 DEF HeldIn
<1>9. KeepsARole'
  <2> SUFFICES ASSUME NEW v \in Users, v \in Accounts', "revocations" \notin clash'[v]
               PROVE  Holds(v)' # {}
    BY DEF KeepsARole, Accounts
  <2>1. v \in Accounts /\ "revocations" \notin clash[v] /\ Holds(v) # {}
    BY <1>4 DEF KeepsARole
  <2>2. CASE v # u
    BY <1>2, <2>1, <2>2 DEF Holds
  <2>3. CASE v = u
    BY <1>1, <1>8, <2>1, <2>3 DEF Holds
  <2> QED
    BY <2>2, <2>3
<1>10. PrimaryIsHeld'
  <2> SUFFICES ASSUME NEW v \in Users, v \in Accounts', clash'[v] = {}
               PROVE  primary'[v] \in Holds(v)'
    BY DEF PrimaryIsHeld, Accounts
  <2>1. v \in Accounts /\ clash[v] = {} /\ primary[v] \in Holds(v)
    BY <1>4 DEF PrimaryIsHeld
  <2>2. CASE v # u
    BY <1>2, <2>1, <2>2 DEF Holds
  <2>3. CASE v = u
    <3>1. CASE WasPrimary(q)
      <4>1. primary'[u] = Longest(req[q].seen, R)
        BY <3>1, RevokeEffect
      <4> QED
        BY <1>1, <1>8, <2>1, <2>3, <4>1 DEF Holds
    <3>2. CASE ~WasPrimary(q)
      <4>1. primary'[u] = primary[u]
        BY <3>2, RevokeEffect
      <4>2. primary[u] # r
        BY <1>0, <2>1, <2>3, <3>2 DEF Fresh, WasPrimary
      <4> QED
        BY <1>3, <2>1, <2>3, <4>1, <4>2 DEF Holds, HeldIn
    <3> QED
      BY <3>1, <3>2
  <2> QED
    BY <2>2, <2>3
<1> QED
  BY <1>5, <1>6, <1>7, <1>9, <1>10

LEMMA RolesStep == RolesInv /\ [Next]_vars => RolesInv'
<1> SUFFICES ASSUME RolesInv, [Next]_vars PROVE RolesInv'
  OBVIOUS
<1>0. TypeInv /\ TypeInv'
  BY TypeStep DEF RolesInv
<1> USE DEF RolesInv
<1>1. ASSUME NEW u \in Users, SignUp(u) PROVE RolesInv'
  <2>1. /\ since' = [since EXCEPT ![u]["Buyer"] = clock + 1]
        /\ primary' = [primary EXCEPT ![u] = "Buyer"]
        /\ u \notin Accounts
        /\ req' = req /\ clash' = clash
    BY <1>1 DEF SignUp, NewAccount
  <2>2. "Buyer" \in Roles
    BY RoleAssumption
  <2>3. /\ \A v \in Users : v # u => since'[v] = since[v] /\ primary'[v] = primary[v]
        /\ since'[u]["Buyer"] > 0
        /\ primary'[u] = "Buyer"
    BY <1>0, <2>1, <2>2 DEF TypeInv
  <2>4. \A p \in Requests : Open(p) => req[p].user # u /\ req[p].user \in Users
    BY <1>0, <2>1, OpenJob
  <2>5. Newer' /\ RowsThere' /\ Fresh'
    <3>1. clock' = clock + 1 /\ clock \in Nat
      BY <1>0, <1>1 DEF SignUp, NewAccount, TypeInv
    <3>2. \A p \in Requests : Open(p) => req[p].seen \in [Roles -> Nat]
      BY <1>0, OpenJob
    <3>3. Newer'
      BY <2>1, <2>3, <2>4, <3>1, <3>2 DEF Newer, Open
    <3> QED
      BY <2>1, <2>3, <2>4, <3>3 DEF Fresh, RowsThere, Open
  <2>6. KeepsARole' /\ PrimaryIsHeld'
    <3>1. ASSUME NEW v \in Users, v # u
          PROVE  Holds(v)' = Holds(v) /\ (v \in Accounts' <=> v \in Accounts)
      BY <2>3, <3>1 DEF Holds, Accounts
    <3>2. "Buyer" \in Holds(u)'
      BY <2>2, <2>3 DEF Holds, HeldIn
    <3> QED
      BY <2>1, <2>3, <3>1, <3>2 DEF KeepsARole, PrimaryIsHeld, Accounts
  <2> QED
    BY <1>0, <2>5, <2>6
<1>2. ASSUME NEW q \in Requests, NEW op \in Operations, NEW u \in Subjects,
             NEW r \in Roles, NEW flag \in BOOLEAN, Begin(q, op, u, r, flag)
      PROVE  RolesInv'
  <2>1. /\ \A p \in Requests : p # q => req'[p] = req[p]
        /\ req'[q].user = u /\ req'[q].pc = "loaded"
        /\ req'[q].seenPrimary = primary[u]
        /\ since' = since /\ primary' = primary /\ clash' = clash /\ clock' = clock
    BY <1>0, <1>2 DEF Begin, TypeInv
  <2>2. Newer' /\ RowsThere' /\ Fresh'
    <3>1. \A p \in Requests : Open(p)' /\ p # q => Open(p) /\ req'[p] = req[p]
      BY <2>1 DEF Open
    <3>2. Newer'
      BY <2>1, <3>1 DEF Newer
    <3>3. RowsThere'
      BY <2>1, <3>1 DEF RowsThere
    <3> QED
      BY <2>1, <3>1, <3>2, <3>3 DEF Fresh
  <2>3. KeepsARole' /\ PrimaryIsHeld'
    BY <2>1 DEF KeepsARole, PrimaryIsHeld, Accounts, Holds
  <2> QED
    BY <1>0, <2>2, <2>3
<1>3. ASSUME NEW q \in Requests, LoadRoles(q) PROVE RolesInv'
  <2>0. Open(q) /\ req[q].pc = "loaded"
    BY <1>3 DEF LoadRoles, Open
  <2>1. /\ \A p \in Requests : p # q => req'[p] = req[p]
        /\ req'[q] = [req[q] EXCEPT !.pc = "read", !.seen = since[req[q].user]]
        /\ since' = since /\ primary' = primary /\ clash' = clash /\ clock' = clock
    BY <1>0, <1>3 DEF LoadRoles, TypeInv
  <2>2. /\ req'[q].user = req[q].user /\ req'[q].op = req[q].op
        /\ req'[q].role = req[q].role
        /\ req'[q].seenPrimary = req[q].seenPrimary
        /\ req'[q].seen = since[req[q].user]
        /\ req[q].user \in Users /\ req[q].role \in Roles
    <3>1. req[q] \in Jobs
      BY <1>0, <2>0, OpenJob
    <3> QED
      BY <1>0, <2>0, <2>1, <3>1, OpenJob DEF Jobs
  <2>3. \A p \in Requests : Open(p)' /\ p # q => Open(p) /\ req'[p] = req[p]
    BY <2>1 DEF Open
  <2>4. Newer'
    <3>1. \A y \in Roles : since[req[q].user][y] <= clock
      BY <1>0, <2>2 DEF TypeInv
    <3>2. ASSUME NEW p \in Requests, p = q, NEW x \in Roles, NEW y \in Roles
          PROVE  /\ req'[p].seen[y] <= clock'
                 /\ since'[req'[p].user][x] = req'[p].seen[x]
      BY <2>1, <2>2, <3>1, <3>2
    <3> QED
      BY <2>1, <2>3, <3>2 DEF Newer
  <2>5. RowsThere'
    <3> SUFFICES ASSUME NEW p \in Requests, Open(p)', req'[p].op = "revoke",
                        req'[p].pc = "read",
                        "revocations" \notin clash'[req'[p].user],
                        NEW x \in Roles, x # req'[p].role, req'[p].seen[x] > 0
                 PROVE  since'[req'[p].user][x] = req'[p].seen[x]
      BY DEF RowsThere
    <3>1. CASE p = q
      BY <2>1, <2>2, <3>1
    <3>2. CASE p # q
      BY <2>1, <2>3, <3>2 DEF RowsThere
    <3> QED
      BY <3>1, <3>2
  <2>6. Fresh'
    <3> SUFFICES ASSUME NEW p \in Requests, Open(p)', clash'[req'[p].user] = {}
                 PROVE  /\ req'[p].op = "revoke" /\ primary'[req'[p].user] = req'[p].role
                             => req'[p].seenPrimary = req'[p].role
                        /\ /\ req'[p].op = "assign"
                           /\ req'[p].primary
                           /\ req'[p].pc = "read"
                           /\ req'[p].seen[req'[p].role] > 0
                           => since'[req'[p].user][req'[p].role] > 0
      BY DEF Fresh
    <3>1. CASE p = q
      <4>1. req[q].op = "revoke" /\ primary[req[q].user] = req[q].role
              => req[q].seenPrimary = req[q].role
        BY <2>0, <2>1, <2>2, <3>1 DEF Fresh
      <4> QED
        BY <2>1, <2>2, <3>1, <4>1
    <3>2. CASE p # q
      BY <2>1, <2>3, <3>2 DEF Fresh
    <3> QED
      BY <3>1, <3>2
  <2>7. KeepsARole' /\ PrimaryIsHeld'
    BY <2>1 DEF KeepsARole, PrimaryIsHeld, Accounts, Holds
  <2> QED
    BY <1>0, <2>4, <2>5, <2>6, <2>7
<1>4. ASSUME NEW q \in Requests, Refuse(q) \/ Rollback(q) PROVE RolesInv'
  <2>1. /\ \A p \in Requests : p # q => req'[p] = req[p]
        /\ ~Open(q)'
        /\ since' = since /\ primary' = primary /\ clash' = clash /\ clock' = clock
    BY <1>0, <1>4 DEF Refuse, Rollback, TypeInv, Open
  <2>2. Newer' /\ RowsThere' /\ Fresh'
    BY <2>1 DEF Newer, RowsThere, Fresh, Open
  <2>3. KeepsARole' /\ PrimaryIsHeld'
    BY <2>1 DEF KeepsARole, PrimaryIsHeld, Accounts, Holds
  <2> QED
    BY <1>0, <2>2, <2>3
<1>5. ASSUME NEW q \in Requests, Assign(q) PROVE RolesInv'
  BY <1>0, <1>5, AssignKeeps
<1>6. ASSUME NEW q \in Requests, Revoke(q) PROVE RolesInv'
  BY <1>0, <1>6, RevokeKeeps
<1>7. CASE UNCHANGED vars
  BY <1>0, <1>7
     DEF vars, Newer, RowsThere, Fresh, Open, KeepsARole, PrimaryIsHeld,
         Accounts, Holds
<1> QED
  BY <1>1, <1>2, <1>3, <1>4, <1>5, <1>6, <1>7 DEF Next

(* Only two overlapping revocations of different roles can leave a user    *)
(* without a role (services/role_service.py:76-86).                        *)
THEOREM RoleKept == Spec => []KeepsARole
<1>1. RolesInv => KeepsARole
  BY DEF RolesInv
<1> QED
  BY <1>1, RolesInit, RolesStep, PTL DEF Spec

(* The primary role is one of the roles held (models/role.py:8-9), unless  *)
(* two revocations of different roles overlapped, or a revocation with the *)
(* assignment of that role as the primary one.                             *)
THEOREM PrimaryHeld == Spec => []PrimaryIsHeld
<1>1. RolesInv => PrimaryIsHeld
  BY DEF RolesInv
<1> QED
  BY <1>1, RolesInit, RolesStep, PTL DEF Spec

(* A revocation of the primary role promotes the longest-held of the roles *)
(* held when it commits, with the same exceptions                          *)
(* (services/role_service.py:89-97).                                       *)
THEOREM PromotionByAge == Spec => LongestHeldPromoted
<1> DEFINE Promotes ==
      \A u \in Accounts :
         (clash[u] = {} /\ primary[u] \in Holds(u) \ Holds(u)')
            => /\ primary'[u] \in Holds(u)'
               /\ \A r \in Holds(u)' : since'[u][primary'[u]] <= since'[u][r]
<1>1. RolesInv /\ [Next]_vars => [Promotes]_vars
  <2> SUFFICES ASSUME RolesInv, Next,
                      NEW u \in Users, u \in Accounts, clash[u] = {},
                      primary[u] \in Roles, since[u][primary[u]] > 0,
                      ~(since'[u][primary[u]] > 0)
               PROVE  /\ primary'[u] \in Holds(u)'
                      /\ \A r \in Holds(u)' : since'[u][primary'[u]] <= since'[u][r]
    BY DEF Holds, HeldIn, Accounts
  <2>0. TypeInv
    BY DEF RolesInv
  <2>1. since' # since
    OBVIOUS
  <2>2. ASSUME NEW v \in Users, SignUp(v) PROVE FALSE
    <3>1. since'[u] = since[u] \/ u = v
      BY <2>0, <2>2 DEF SignUp, NewAccount, TypeInv
    <3> QED
      BY <2>2, <3>1 DEF SignUp, NewAccount
  <2>3. ASSUME NEW q \in Requests, Assign(q) PROVE FALSE
    <3>1. \/ since'[u][primary[u]] = since[u][primary[u]]
          \/ since[u][primary[u]] = 0
      BY <2>0, <2>3, AssignEffect
    <3> QED
      BY <2>0, <3>1
  <2>4. PICK q \in Requests : Revoke(q)
    BY <2>1, <2>2, <2>3, ZenonT(90) DEF Next, Begin, LoadRoles, Refuse, Rollback
  <2> DEFINE R == HeldIn(req[q].seen) \ {req[q].role}
             L == Longest(req[q].seen, R)
  <2>5. /\ Open(q) /\ req[q].op = "revoke" /\ req[q].pc = "read"
        /\ \A v \in Users : v # req[q].user => since'[v] = since[v]
        /\ \A x \in Roles : x # req[q].role =>
             since'[req[q].user][x] = since[req[q].user][x]
    BY <2>0, <2>4, RevokeEffect, ZenonT(90)
  <2>6. req[q].user = u /\ req[q].role = primary[u]
    BY <2>5
  <2>7. req[q].seenPrimary = req[q].role
    BY <2>5, <2>6 DEF RolesInv, Fresh
  <2>8. /\ L \in R
        /\ \A x \in R : req[q].seen[L] <= req[q].seen[x]
        /\ req[q].seen \in [Roles -> Nat]
    BY <2>0, <2>4, <2>5, RevokeEffect, Promoted, OpenJob
  <2>9. primary'[u] = L
    BY <2>0, <2>4, <2>6, <2>7, RevokeEffect, SMTT(60) DEF WasPrimary
  <2>10. \A x \in R : since'[u][x] = req[q].seen[x] /\ req[q].seen[x] > 0
    BY <2>5, <2>6 DEF RolesInv, RowsThere, HeldIn
  <2>11. ASSUME NEW r \in Holds(u)' PROVE since'[u][L] <= since'[u][r]
    <3>1. r \in Roles /\ since'[u][r] > 0 /\ r # req[q].role
      BY <2>6 DEF Holds, HeldIn
    <3>2. since'[u][r] = since[u][r] /\ since[u][r] \in Nat
      BY <2>0, <2>5, <2>6, <3>1 DEF TypeInv
    <3>3. CASE r \in R
      BY <2>8, <2>10, <3>3
    <3>4. CASE r \notin R
      <4>1. req[q].seen[r] = 0
        BY <2>8, <3>1, <3>4 DEF HeldIn
      <4>2. L \in Roles
        BY <2>8 DEF HeldIn
      <4>3. since[u][r] > 0 /\ since[u][r] # req[q].seen[r]
        BY <3>1, <3>2, <4>1
      <4> HIDE DEF L
      <4>4. req[q].seen[L] < since[u][r]
        BY <2>5, <2>6, <3>1, <4>2, <4>3 DEF RolesInv, Newer
      <4> QED
        <5>1. since'[u][L] = req[q].seen[L] /\ req[q].seen[L] \in Nat
          BY <2>8, <2>10, <4>2
        <5> QED
          BY <3>2, <4>4, <5>1
    <3> QED
      BY <3>3, <3>4
  <2>12. L \in Holds(u)'
    BY <2>8, <2>10 DEF Holds, HeldIn
  <2> QED
    BY <2>9, <2>11, <2>12
<1> QED
  BY <1>1, RolesInit, RolesStep, PTL DEF Spec, LongestHeldPromoted

============================================================================
