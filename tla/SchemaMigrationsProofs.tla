----------------------- MODULE SchemaMigrationsProofs -----------------------
(***************************************************************************)
(* Theorems about SchemaMigrations, for any accounts, legacy role names,   *)
(* collation and stops, and any number of writes between the deployments.  *)
(*                                                                         *)
(* SchemaMigrationsLemmas follows Inv through each migration.  A command   *)
(* is a chain of them: what every link preserves holds of the database at  *)
(* its target, and what no link raises for does not stop it.               *)
(***************************************************************************)
EXTENDS SchemaMigrationsLemmas

---------------------------------------------------------------------------
(* Commands: what holds of each database on the way holds of the results   *)

(* Induction over Nat, for a set instead of a predicate.                   *)
LEMMA Induction ==
    ASSUME NEW S, 0 \in S, \A k \in Nat : k \in S => k + 1 \in S
    PROVE  Nat \subseteq S
<1> DEFINE T == Nat \ S
           Less == {p \in Nat \X Nat : p[1] < p[2]}
<1>1. SUFFICES ASSUME T # {} PROVE FALSE
  OBVIOUS
<1>2. IsWellFoundedOn(Less, Nat)
  <2>1. Less = OpToRel(<, Nat)
    BY DEF OpToRel
  <2> QED
    BY <2>1, NatLessThanWellFounded
<1>3. PICK m \in T : \A n \in T : <<n, m>> \notin Less
  <2>1. T \subseteq Nat
    OBVIOUS
  <2> HIDE DEF T, Less
  <2> QED
    BY <1>1, <1>2, <2>1, WFMin
<1>4. m # 0 /\ m \in Nat /\ m - 1 \in Nat /\ m - 1 < m
  OBVIOUS
<1>5. m - 1 \in S
  BY <1>3, <1>4
<1> QED
  BY <1>3, <1>4, <1>5

(* The recursive function of Upgraded is what its equation says.           *)
LEMMA UpgradedReaches ==
    ASSUME NEW d, NEW from \in Nat, NEW to \in Nat, from <= to
    PROVE  \E f : /\ f = [n \in from .. to |->
                            IF n = from THEN {d} ELSE UpFrom(n, f[n - 1])]
                  /\ Upgraded(d, from, to) = f[to]
<1> DEFINE Is(k, f) == f = [n \in from .. from + k |->
                               IF n = from THEN {d} ELSE UpFrom(n, f[n - 1])]
           S == {k \in Nat : \E f : Is(k, f)}
<1>1. 0 \in S
  <2>1. Is(0, [n \in from .. from |-> {d}])
    OBVIOUS
  <2> QED
    BY <2>1
<1>2. ASSUME NEW k \in Nat, k \in S
      PROVE  k + 1 \in S
  <2>1. PICK f : Is(k, f)
    BY <1>2
  <2>2. PICK g : g = [n \in from .. from + (k + 1) |->
                        IF n \in from .. from + k
                        THEN f[n] ELSE UpFrom(n, f[from + k])]
    OBVIOUS
  <2>3. \A n \in from .. from + (k + 1) : n # from => g[n - 1] = f[n - 1]
    BY <2>2
  <2>4. ASSUME NEW n \in from .. from + (k + 1)
        PROVE  g[n] = IF n = from THEN {d} ELSE UpFrom(n, g[n - 1])
    <3>1. CASE n \in from .. from + k
      BY <2>1, <2>2, <2>3, <3>1
    <3>2. CASE n = from + (k + 1)
      <4>1. n # from /\ n - 1 = from + k /\ n \notin from .. from + k
        BY <3>2
      <4> QED
        BY <2>2, <2>3, <4>1
    <3> QED
      BY <3>1, <3>2
  <2>5. Is(k + 1, g)
    BY <2>2, <2>4
  <2> QED
    BY <2>5
<1>3. to - from \in S
  <2> HIDE DEF S
  <2> QED
    BY <1>1, <1>2, Induction
<1>4. PICK f : Is(to - from, f)
  BY <1>3
<1>5. from + (to - from) = to
  OBVIOUS
<1>6. f = [n \in from .. to |-> IF n = from THEN {d} ELSE UpFrom(n, f[n - 1])]
  BY <1>4, <1>5
<1> DEFINE reached == CHOOSE g : g = [n \in from .. to |->
                          IF n = from THEN {d} ELSE UpFrom(n, g[n - 1])]
<1>7. reached = [n \in from .. to |->
                    IF n = from THEN {d} ELSE UpFrom(n, reached[n - 1])]
  BY <1>6
<1>8. Upgraded(d, from, to) = reached[to]
  BY DEF Upgraded
<1> QED
  BY <1>7, <1>8

(* So is that of Downgraded.                                               *)
LEMMA DowngradedReaches ==
    ASSUME NEW d, NEW from \in Nat, NEW to \in Nat, to <= from
    PROVE  \E f : /\ f = [n \in to .. from |->
                            IF n = from THEN {d} ELSE DownFrom(n + 1, f[n + 1])]
                  /\ Downgraded(d, from, to) = f[to]
<1> DEFINE Is(k, f) == f = [n \in from - k .. from |->
                               IF n = from THEN {d} ELSE DownFrom(n + 1, f[n + 1])]
           S == {k \in Nat : k <= from => \E f : Is(k, f)}
<1>1. 0 \in S
  <2>1. Is(0, [n \in from .. from |-> {d}])
    OBVIOUS
  <2> QED
    BY <2>1
<1>2. ASSUME NEW k \in Nat, k \in S
      PROVE  k + 1 \in S
  <2>0. SUFFICES ASSUME k + 1 <= from
                 PROVE  \E f : Is(k + 1, f)
    OBVIOUS
  <2>1. PICK f : Is(k, f)
    BY <1>2, <2>0
  <2>2. PICK g : g = [n \in from - (k + 1) .. from |->
                        IF n \in from - k .. from
                        THEN f[n] ELSE DownFrom(n + 1, f[from - k])]
    OBVIOUS
  <2>3. \A n \in from - (k + 1) .. from : n # from => g[n + 1] = f[n + 1]
    BY <2>0, <2>2
  <2>4. ASSUME NEW n \in from - (k + 1) .. from
        PROVE  g[n] = IF n = from THEN {d} ELSE DownFrom(n + 1, g[n + 1])
    <3>1. CASE n \in from - k .. from
      BY <2>1, <2>2, <2>3, <3>1
    <3>2. CASE n = from - (k + 1)
      <4>1. n # from /\ n + 1 = from - k /\ n \notin from - k .. from
        BY <3>2
      <4> QED
        BY <2>2, <2>3, <4>1
    <3> QED
      BY <2>0, <3>1, <3>2
  <2>5. Is(k + 1, g)
    BY <2>2, <2>4
  <2> QED
    BY <2>5
<1>3. from - to \in S
  <2> HIDE DEF S
  <2> QED
    BY <1>1, <1>2, Induction
<1>4. PICK f : Is(from - to, f)
  BY <1>3
<1>5. from - (from - to) = to
  OBVIOUS
<1>6. f = [n \in to .. from |-> IF n = from THEN {d} ELSE DownFrom(n + 1, f[n + 1])]
  BY <1>4, <1>5
<1> DEFINE reached == CHOOSE g : g = [n \in to .. from |->
                          IF n = from THEN {d} ELSE DownFrom(n + 1, g[n + 1])]
<1>7. reached = [n \in to .. from |->
                    IF n = from THEN {d} ELSE DownFrom(n + 1, reached[n + 1])]
  BY <1>6
<1>8. Downgraded(d, from, to) = reached[to]
  BY DEF Downgraded
<1> QED
  BY <1>7, <1>8

(* G[n] is what is known of the databases at n, Failed among them if a     *)
(* migration may have raised.                                              *)
LEMMA UpgradedIn ==
    ASSUME NEW d, NEW from \in Nat, NEW to \in Nat, from <= to, NEW G, d \in G[from],
           \A n \in from + 1 .. to : \A r \in G[n - 1] :
               IF r = Failed THEN Failed \in G[n] ELSE Up(n, r) \subseteq G[n]
    PROVE  Upgraded(d, from, to) \subseteq G[to]
<1>1. PICK f : /\ f = [n \in from .. to |->
                         IF n = from THEN {d} ELSE UpFrom(n, f[n - 1])]
               /\ Upgraded(d, from, to) = f[to]
  BY UpgradedReaches
<1> DEFINE S == {k \in Nat : from + k <= to => f[from + k] \subseteq G[from + k]}
<1>2. 0 \in S
  BY <1>1
<1>3. ASSUME NEW k \in Nat, k \in S
      PROVE  k + 1 \in S
  <2>1. SUFFICES ASSUME from + (k + 1) <= to
                 PROVE  f[from + (k + 1)] \subseteq G[from + (k + 1)]
    OBVIOUS
  <2>2. PICK n \in from + 1 .. to : n = from + (k + 1)
    BY <2>1
  <2>3. n - 1 = from + k /\ f[n - 1] \subseteq G[n - 1]
    BY <1>3, <2>1, <2>2
  <2>4. f[n] = UpFrom(n, f[n - 1])
    <3>1. n \in from .. to /\ n # from
      BY <2>2
    <3> QED
      BY <1>1, <3>1
  <2>5. UpFrom(n, f[n - 1]) \subseteq G[n]
    BY <2>3 DEF UpFrom
  <2> QED
    BY <2>2, <2>4, <2>5
<1>4. to - from \in S
  <2> HIDE DEF S
  <2> QED
    BY <1>2, <1>3, Induction
<1>5. from + (to - from) = to
  OBVIOUS
<1> QED
  BY <1>1, <1>4, <1>5

(* A command has a result, if each of its migrations has one.              *)
LEMMA UpgradedSome ==
    ASSUME NEW d, NEW from \in Nat, NEW to \in Nat, from <= to,
           \A n \in from + 1 .. to : \A r : Up(n, r) # {}
    PROVE  Upgraded(d, from, to) # {}
<1>1. PICK f : /\ f = [n \in from .. to |->
                         IF n = from THEN {d} ELSE UpFrom(n, f[n - 1])]
               /\ Upgraded(d, from, to) = f[to]
  BY UpgradedReaches
<1> DEFINE S == {k \in Nat : from + k <= to => f[from + k] # {}}
<1>2. 0 \in S
  BY <1>1
<1>3. ASSUME NEW k \in Nat, k \in S
      PROVE  k + 1 \in S
  <2>1. SUFFICES ASSUME from + (k + 1) <= to
                 PROVE  f[from + (k + 1)] # {}
    OBVIOUS
  <2>2. PICK n \in from + 1 .. to : n = from + (k + 1)
    BY <2>1
  <2>3. n - 1 = from + k /\ f[n - 1] # {}
    BY <1>3, <2>1, <2>2
  <2>4. f[n] = UpFrom(n, f[n - 1])
    <3>1. n \in from .. to /\ n # from
      BY <2>2
    <3> QED
      BY <1>1, <3>1
  <2>5. UpFrom(n, f[n - 1]) # {}
    <3>1. PICK r \in f[n - 1] : TRUE
      BY <2>3
    <3>2. (IF r = Failed THEN {Failed} ELSE Up(n, r)) # {}
      OBVIOUS
    <3>3. PICK x : x \in IF r = Failed THEN {Failed} ELSE Up(n, r)
      BY <3>2
    <3>4. x \in UpFrom(n, f[n - 1])
      BY <3>1, <3>3 DEF UpFrom
    <3> QED
      BY <3>4
  <2> QED
    BY <2>2, <2>4, <2>5
<1>4. to - from \in S
  <2> HIDE DEF S
  <2> QED
    BY <1>2, <1>3, Induction
<1>5. from + (to - from) = to
  OBVIOUS
<1> QED
  BY <1>1, <1>4, <1>5

LEMMA DowngradedIn ==
    ASSUME NEW d, NEW from \in Nat, NEW to \in Nat, to <= from, NEW G, d \in G[from],
           \A n \in to + 1 .. from : \A r \in G[n] :
               IF r = Failed THEN Failed \in G[n - 1] ELSE Down(n, r) \subseteq G[n - 1]
    PROVE  Downgraded(d, from, to) \subseteq G[to]
<1>1. PICK f : /\ f = [n \in to .. from |->
                         IF n = from THEN {d} ELSE DownFrom(n + 1, f[n + 1])]
               /\ Downgraded(d, from, to) = f[to]
  BY DowngradedReaches
<1> DEFINE S == {k \in Nat : to <= from - k => f[from - k] \subseteq G[from - k]}
<1>2. 0 \in S
  BY <1>1
<1>3. ASSUME NEW k \in Nat, k \in S
      PROVE  k + 1 \in S
  <2>1. SUFFICES ASSUME to <= from - (k + 1)
                 PROVE  f[from - (k + 1)] \subseteq G[from - (k + 1)]
    OBVIOUS
  <2>2. PICK n \in to + 1 .. from : n = from - k
    BY <2>1
  <2>3. n - 1 = from - (k + 1) /\ f[n] \subseteq G[n]
    BY <1>3, <2>1, <2>2
  <2>4. f[n - 1] = DownFrom(n, f[n])
    <3>1. n - 1 \in to .. from /\ n - 1 # from /\ (n - 1) + 1 = n
      BY <2>2
    <3> QED
      BY <1>1, <3>1
  <2>5. DownFrom(n, f[n]) \subseteq G[n - 1]
    BY <2>3 DEF DownFrom
  <2> QED
    BY <2>3, <2>4, <2>5
<1>4. from - to \in S
  <2> HIDE DEF S
  <2> QED
    BY <1>2, <1>3, Induction
<1>5. from - (from - to) = to
  OBVIOUS
<1> QED
  BY <1>1, <1>4, <1>5

(* A command keeps the invariant.                                          *)
LEMMA UpgradedInv ==
    ASSUME NEW from \in Revisions, NEW to \in Revisions, from <= to,
           NEW ed, NEW d, Inv(from, ed, d),
           NEW r \in Upgraded(d, from, to), r # Failed
    PROVE  Inv(to, ed, r)
<1> DEFINE G == [n \in Revisions |-> {x \in Databases : Inv(n, ed, x)} \cup {Failed}]
<1>1. d \in G[from]
  BY DEF Inv
<1>2. ASSUME NEW n \in from + 1 .. to, NEW x \in G[n - 1]
      PROVE  IF x = Failed THEN Failed \in G[n] ELSE Up(n, x) \subseteq G[n]
  <2>1. n \in 1 .. Newest /\ n \in Revisions /\ n - 1 \in Revisions
    BY DEF Revisions, Newest
  <2>2. CASE x # Failed
    <3>1. Inv(n - 1, ed, x)
      BY <1>2, <2>1, <2>2
    <3>2. \A y \in Up(n, x) : y # Failed => Inv(n, ed, y)
      BY <2>1, <3>1, UpInv
    <3> QED
      BY <2>1, <2>2, <3>2 DEF Inv
  <2> QED
    BY <2>1, <2>2
<1>3. from \in Nat /\ to \in Nat
  BY DEF Revisions, Newest
<1>4. r \in G[to]
  <2> HIDE DEF G
  <2> QED
    BY <1>1, <1>2, <1>3, UpgradedIn
<1> QED
  BY <1>4

LEMMA DowngradedInv ==
    ASSUME NEW from \in Revisions, NEW to \in Revisions, to <= from,
           NEW ed, NEW d, Inv(from, ed, d),
           NEW r \in Downgraded(d, from, to), r # Failed
    PROVE  Inv(to, ed, r)
<1> DEFINE G == [n \in Revisions |-> {x \in Databases : Inv(n, ed, x)} \cup {Failed}]
<1>1. d \in G[from]
  BY DEF Inv
<1>2. ASSUME NEW n \in to + 1 .. from, NEW x \in G[n]
      PROVE  IF x = Failed THEN Failed \in G[n - 1] ELSE Down(n, x) \subseteq G[n - 1]
  <2>1. n \in 1 .. Newest /\ n \in Revisions /\ n - 1 \in Revisions
    BY DEF Revisions, Newest
  <2>2. CASE x # Failed
    <3>1. Inv(n, ed, x)
      BY <1>2, <2>1, <2>2
    <3>2. \A y \in Down(n, x) : y # Failed => Inv(n - 1, ed, y)
      BY <2>1, <3>1, DownInv
    <3> QED
      BY <2>1, <2>2, <3>2 DEF Inv
  <2> QED
    BY <2>1, <2>2
<1>3. from \in Nat /\ to \in Nat
  BY DEF Revisions, Newest
<1>4. r \in G[to]
  <2> HIDE DEF G
  <2> QED
    BY <1>1, <1>2, <1>3, DowngradedIn
<1> QED
  BY <1>4

---------------------------------------------------------------------------
(* What users and curators write                                           *)

(* Tables and columns that the guards of the writes ask for.               *)
LEMMA SchemaFacts ==
    ASSUME NEW n \in Revisions, NEW d, SchemaInv(n, d)
    PROVE  /\ "users" \in d.schema <=> n >= 3
           /\ "vehicle_listings" \in d.schema <=> n >= 6
           /\ "auctions.fk" \in d.schema <=> n >= 8
           /\ "bids.fk" \in d.schema <=> n >= 9
           /\ "listings.intake" \in d.schema <=> n >= 20
           /\ "roles" \in d.schema <=> n >= 29
BY DEF SchemaInv, SchemaAt, RestoredAt, Revisions, Newest

(* More names collide if fewer do.                                         *)
LEMMA CollisionGrows ==
    ASSUME NEW A, NEW B, A \subseteq B, Collision(A)
    PROVE  Collision(B)
BY DEF Collision

(* Of the account e, new or there before, one field or another is written. *)
LEMMA UsersWrite ==
    ASSUME NEW n \in Revisions, NEW ed, NEW d, Inv(n, ed, d), n >= 3,
           NEW e \in Emails, NEW a \in Accounts, AccountInv(n, d, a),
           e \in DOMAIN d.users => d.users[e].role = a.role,
           NEW f, DOMAIN f = DOMAIN d.users \cup {e}, f[e] = a,
           f \in [DOMAIN f -> Accounts],
           \A y \in DOMAIN d.users \ {e} : f[y] = d.users[y],
           NEW r, r = [d EXCEPT !.users = f]
    PROVE  Inv(n, ed, r)
<1>1. DOMAIN f \in SUBSET Emails
  BY UsersType DEF Inv
<1>2. /\ r \in Databases /\ r.schema = d.schema /\ r.copies = d.copies
      /\ r.look = d.look /\ r.featured = d.featured
      /\ Rows(r) = <<f, d.roles, d.auctions, d.bids, d.cars, d.subs>>
  BY <1>1, OnUsers DEF Inv
<1>3. /\ r.users = f /\ r.roles = d.roles /\ r.auctions = d.auctions
      /\ r.bids = d.bids /\ r.cars = d.cars
  BY <1>2 DEF Rows
<1>4. RowsInv(n, r)
  BY <1>3 DEF RowsInv, Inv
<1>5. RolesInUse(d) \subseteq RolesInUse(r)
  <2>1. \A y \in DOMAIN d.users : r.users[y].role = d.users[y].role
    BY <1>3
  <2> QED
    BY <1>3, <2>1 DEF RolesInUse
<1>6. \A x : AccountInv(n, d, x) => AccountInv(n, r, x)
  BY <1>3, <1>5, CollisionGrows DEF AccountInv
<1>7. ASSUME NEW y \in DOMAIN r.users
      PROVE  AccountInv(n, r, r.users[y])
  <2>1. CASE y = e
    BY <1>3, <1>6, <2>1
  <2>2. CASE y # e
    <3>1. y \in DOMAIN d.users /\ r.users[y] = d.users[y]
      BY <1>3, <1>7, <2>2
    <3>2. AccountInv(n, d, d.users[y])
      BY <3>1 DEF Inv, UsersInv
    <3> QED
      BY <1>6, <3>1, <3>2
  <2> QED
    BY <2>1, <2>2
<1>8. UsersInv(n, r)
  <2>1. IF n < 29 THEN r.roles = {} ELSE SeedRoles \subseteq r.roles
    BY <1>3 DEF Inv, UsersInv
  <2>2. ~(n < 3)
    BY DEF Revisions
  <2> QED
    BY <1>7, <2>1, <2>2 DEF UsersInv
<1>9. SchemaInv(n, r) /\ (~ed => CopiesInv(n, r) /\ LookInv(n, r)) /\ FeaturedInv(n, r)
  BY <1>2 DEF Inv, SchemaInv, CopiesInv, LookInv, FeaturedInv
<1> QED
  BY <1>2, <1>4, <1>8, <1>9 DEF Inv

(* The other rows that users write: auctions, bids and cars.               *)
LEMMA RowsWrite ==
    ASSUME NEW n \in Revisions, NEW ed, NEW d, Inv(n, ed, d),
           NEW r \in Databases, r.schema = d.schema, r.copies = d.copies,
           r.look = d.look, r.featured = d.featured,
           r.users = d.users, r.roles = d.roles, RowsInv(n, r)
    PROVE  Inv(n, ed, r)
<1>1. UsersInv(n, d) /\ RolesInUse(r) = RolesInUse(d)
  BY DEF Inv, RolesInUse
<1>2. \A x : AccountInv(n, d, x) => AccountInv(n, r, x)
  BY <1>1 DEF AccountInv
<1>3. UsersInv(n, r)
  BY <1>1, <1>2 DEF UsersInv
<1> QED
  BY <1>3 DEF Inv, SchemaInv, CopiesInv, LookInv, FeaturedInv

(* The writes, one by one.                                                 *)
LEMMA SignUpInv ==
    ASSUME rev \in Revisions, Inv(rev, edited, db),
           NEW e \in Emails, NEW role \in {"Buyer"} \cup LegacyRoles,
           SignUp(e, role)
    PROVE  Inv(rev', edited', db')
<1>1. rev' = rev /\ edited' = edited
  BY DEF SignUp, Write
<1>2. role \in RoleNames /\ None \notin RoleNames /\ "Buyer" \in SeedRoles
  BY RoleNamesFacts DEF RoleNames
<1>3. rev >= 3 /\ e \notin DOMAIN db.users /\ (rev >= 29 => role = "Buyer")
  BY DEF SignUp
<1>4. PICK a :
        /\ a \in IF rev < 29 THEN {Account(TRUE, role)}
                 ELSE IF rev = 29
                 THEN {Account(TRUE, role),
                       [Account(TRUE, role) EXCEPT !.held = {role}, !.flagged = {role}]}
                 ELSE {[Account(TRUE, None) EXCEPT !.held = {role}, !.primary = role]}
        /\ db' = [db EXCEPT !.users = With(@, e, a)]
  BY DEF SignUp, Write
<1>5. PICK plain : plain = Account(TRUE, role)
  OBVIOUS
<1>6. PICK bare : bare = Account(TRUE, None)
  OBVIOUS
<1>7. /\ plain \in Accounts /\ plain.role = role /\ plain.primary = None
      /\ plain.held = {} /\ plain.flagged = {}
      /\ bare \in Accounts /\ bare.role = None
      /\ bare.held = {} /\ bare.flagged = {}
  <2>1. plain \in Accounts /\ bare \in Accounts
    BY <1>2, <1>5, <1>6, AccountType
  <2> QED
    BY <1>5, <1>6, <2>1 DEF Account
<1>8. /\ a \in Accounts
      /\ a.role = IF rev < 30 THEN role ELSE None
      /\ a.primary = IF rev < 30 THEN None ELSE role
      /\ a.flagged = {} \/ (rev = 29 /\ a.flagged = {role})
      /\ a.held = IF rev < 30 THEN a.flagged ELSE {role}
  <2>1. CASE rev < 29
    <3>1. a = plain
      BY <1>4, <1>5, <2>1
    <3> QED
      BY <1>7, <2>1, <3>1 DEF Revisions
  <2>2. CASE rev = 29
    <3>1. a = plain \/ a = [plain EXCEPT !.held = {role}, !.flagged = {role}]
      BY <1>4, <1>5, <2>2
    <3>2. CASE a = plain
      BY <1>7, <2>2, <3>2
    <3>3. CASE a = [plain EXCEPT !.held = {role}, !.flagged = {role}]
      <4>1. /\ a \in Accounts /\ a.role = role /\ a.primary = None
            /\ a.flagged = {role} /\ a.held = {role}
        BY <1>2, <1>7, <3>3 DEF Accounts
      <4> QED
        BY <2>2, <4>1
    <3> QED
      BY <3>1, <3>2, <3>3
  <2>3. CASE rev >= 30
    <3>1. ~(rev < 29) /\ rev # 29 /\ ~(rev < 30)
      BY <2>3 DEF Revisions
    <3>2. a = [bare EXCEPT !.held = {role}, !.primary = role]
      BY <1>4, <1>6, <3>1
    <3>3. /\ a \in Accounts /\ a.role = None /\ a.primary = role
          /\ a.flagged = {} /\ a.held = {role}
      BY <1>2, <1>7, <3>2 DEF Accounts
    <3> QED
      BY <3>1, <3>3
  <2> QED
    BY <2>1, <2>2, <2>3 DEF Revisions
<1>9. AccountInv(rev, db, a)
  <2>1. rev >= 29 => role \in db.roles
    BY <1>2, <1>3 DEF Inv, UsersInv, Revisions
  <2> QED
    BY <1>2, <1>8, <2>1 DEF AccountInv, Revisions
<1>10. PICK f : f = With(db.users, e, a)
  OBVIOUS
<1>11. /\ DOMAIN f = DOMAIN db.users \cup {e} /\ f[e] = a
      /\ \A y \in DOMAIN db.users \ {e} : f[y] = db.users[y]
  BY <1>10 DEF With
<1>12. f \in [DOMAIN f -> Accounts]
  BY <1>8, <1>10, OnWith DEF Inv
<1>13. db' = [db EXCEPT !.users = f]
  BY <1>4, <1>10
<1>14. Inv(rev, edited, db')
  BY <1>3, <1>7, <1>8, <1>9, <1>11, <1>12, <1>13, UsersWrite
<1> QED
  BY <1>1, <1>14

(* The account that is written is one of those there are.                  *)
LEMMA AccountWrite ==
    ASSUME NEW n \in Revisions, NEW ed, NEW d, Inv(n, ed, d),
           NEW e \in DOMAIN d.users, NEW a \in Accounts, AccountInv(n, d, a),
           a.role = d.users[e].role,
           NEW r, r = [d EXCEPT !.users = [@ EXCEPT ![e] = a]]
    PROVE  Inv(n, ed, r)
<1>1. PICK u : u = d.users
  OBVIOUS
<1>2. u \in [DOMAIN u -> Accounts] /\ DOMAIN u \subseteq Emails /\ e \in DOMAIN u
  BY <1>1, UsersType DEF Inv
<1>3. PICK f : f = [u EXCEPT ![e] = a]
  OBVIOUS
<1>4. /\ DOMAIN f = DOMAIN u \cup {e} /\ f[e] = a /\ f \in [DOMAIN f -> Accounts]
      /\ \A y \in DOMAIN u \ {e} : f[y] = u[y]
  BY <1>2, <1>3
<1>5. r = [d EXCEPT !.users = f]
  BY <1>1, <1>3
<1>6. n >= 3
  BY DEF Inv, UsersInv, Revisions
<1>7. /\ DOMAIN f = DOMAIN d.users \cup {e} /\ e \in Emails
      /\ \A y \in DOMAIN d.users \ {e} : f[y] = d.users[y]
  BY <1>1, <1>2, <1>4
<1> QED
  BY <1>4, <1>5, <1>6, <1>7, UsersWrite

LEMMA ResetPasswordInv ==
    ASSUME rev \in Revisions, Inv(rev, edited, db), NEW e \in Emails, ResetPassword(e)
    PROVE  Inv(rev', edited', db')
<1>1. /\ rev' = rev /\ edited' = edited /\ e \in DOMAIN db.users
      /\ db' = [db EXCEPT !.users[e].own = TRUE]
  BY DEF ResetPassword, Write
<1>2. PICK b : b = db.users[e]
  OBVIOUS
<1>3. b \in Accounts /\ AccountInv(rev, db, b)
  BY <1>1, <1>2, UsersType DEF Inv, UsersInv
<1>4. PICK a : a = [b EXCEPT !.own = TRUE]
  OBVIOUS
<1>5. /\ a \in Accounts /\ a.role = b.role /\ a.held = b.held
      /\ a.flagged = b.flagged /\ a.primary = b.primary
  BY <1>3, <1>4 DEF Accounts
<1>6. AccountInv(rev, db, a)
  BY <1>3, <1>5 DEF AccountInv
<1>7. db' = [db EXCEPT !.users = [@ EXCEPT ![e] = a]]
  BY <1>1, <1>2, <1>4
<1>8. Inv(rev, edited, db')
  BY <1>1, <1>2, <1>5, <1>6, <1>7, AccountWrite
<1> QED
  BY <1>1, <1>8

LEMMA GrantInv ==
    ASSUME rev \in Revisions, Inv(rev, edited, db),
           NEW e \in Emails, NEW role \in RoleNames, NEW p \in BOOLEAN,
           Grant(e, role, p)
    PROVE  Inv(rev', edited', db')
<1>1. /\ rev' = rev /\ edited' = edited /\ e \in DOMAIN db.users
      /\ rev >= 30 /\ role \in db.roles
      /\ db' = [db EXCEPT !.users[e].held = @ \cup {role},
                          !.users[e].primary = IF p THEN role ELSE @]
  BY DEF Grant, Write
<1>2. PICK b : b = db.users[e]
  OBVIOUS
<1>3. b \in Accounts /\ AccountInv(rev, db, b)
  BY <1>1, <1>2, UsersType DEF Inv, UsersInv
<1>4. PICK a : a = [b EXCEPT !.held = @ \cup {role}, !.primary = IF p THEN role ELSE @]
  OBVIOUS
<1>5. /\ a \in Accounts /\ a.role = b.role /\ a.held = b.held \cup {role}
      /\ a.flagged = b.flagged /\ a.primary = IF p THEN role ELSE b.primary
  BY <1>3, <1>4 DEF Accounts
<1>6. AccountInv(rev, db, a)
  BY <1>1, <1>3, <1>5 DEF AccountInv, Revisions
<1>7. db' = [db EXCEPT !.users = [@ EXCEPT ![e] = a]]
  <2>1. PICK u : u = db.users
    OBVIOUS
  <2>2. u \in [DOMAIN u -> Accounts] /\ e \in DOMAIN u
    BY <1>1, <2>1, UsersType DEF Inv
  <2>3. PICK h : h = [b EXCEPT !.held = @ \cup {role}]
    OBVIOUS
  <2>4. a = [h EXCEPT !.primary = IF p THEN role ELSE @]
    BY <1>4, <2>3
  <2>5. PICK d : d = [db EXCEPT !.users = [u EXCEPT ![e] = h]]
    OBVIOUS
  <2>6. d.users = [u EXCEPT ![e] = h] /\ d.users[e] = h
    BY <2>2, <2>5 DEF Inv, Databases
  <2>7. db' = [d EXCEPT !.users = [@ EXCEPT ![e] = a]]
    <3>1. db' = [d EXCEPT !.users[e].primary = IF p THEN role ELSE @]
      BY <1>1, <1>2, <2>1, <2>3, <2>5
    <3> QED
      BY <2>4, <2>6, <3>1
  <2>8. [d.users EXCEPT ![e] = a] = [u EXCEPT ![e] = a]
    BY <2>6
  <2> QED
    BY <2>1, <2>5, <2>7, <2>8
<1>8. a \in Accounts /\ a.role = db.users[e].role
  BY <1>2, <1>5
<1>9. Inv(rev, edited, db')
  BY <1>1, <1>6, <1>7, <1>8, AccountWrite
<1> QED
  BY <1>1, <1>9

LEMMA OpenAuctionInv ==
    ASSUME rev \in Revisions, Inv(rev, edited, db),
           NEW kind \in {"listed", "unlisted"}, OpenAuction(kind)
    PROVE  Inv(rev', edited', db')
<1>1. /\ rev' = rev /\ edited' = edited
      /\ db' = [db EXCEPT !.auctions = @ \cup {kind}]
      /\ kind = "unlisted" => "auctions.fk" \notin db.schema
  BY DEF OpenAuction, Write
<1>2. /\ db' \in Databases /\ db'.schema = db.schema /\ db'.copies = db.copies
      /\ db'.look = db.look /\ db'.featured = db.featured /\ db'.users = db.users
      /\ db'.roles = db.roles /\ db'.bids = db.bids /\ db'.cars = db.cars
      /\ db'.auctions = db.auctions \cup {kind}
  BY <1>1 DEF Inv, Databases
<1>3. rev >= 8 => kind # "unlisted"
  BY <1>1, SchemaFacts DEF Inv
<1>4. RowsInv(rev, db')
  BY <1>2, <1>3 DEF Inv, RowsInv
<1>5. Inv(rev, edited, db')
  BY <1>2, <1>4, RowsWrite
<1> QED
  BY <1>1, <1>5

LEMMA BidInv ==
    ASSUME rev \in Revisions, Inv(rev, edited, db),
           NEW bidder \in Emails \cup {Stranger}, Bid(bidder)
    PROVE  Inv(rev', edited', db')
<1>1. /\ rev' = rev /\ edited' = edited
      /\ db' = [db EXCEPT !.bids = @ \cup {bidder}]
      /\ "bids.fk" \in db.schema => bidder \in DOMAIN db.users
  BY DEF Bid, Write
<1>2. /\ db' \in Databases /\ db'.schema = db.schema /\ db'.copies = db.copies
      /\ db'.look = db.look /\ db'.featured = db.featured /\ db'.users = db.users
      /\ db'.roles = db.roles /\ db'.auctions = db.auctions /\ db'.cars = db.cars
      /\ db'.bids = db.bids \cup {bidder}
  BY <1>1 DEF Inv, Databases
<1>3. rev >= 9 => bidder \in DOMAIN db.users
  BY <1>1, SchemaFacts DEF Inv
<1>4. RowsInv(rev, db')
  BY <1>2, <1>3 DEF Inv, RowsInv
<1>5. Inv(rev, edited, db')
  BY <1>2, <1>4, RowsWrite
<1> QED
  BY <1>1, <1>5

LEMMA EnterCarInv ==
    ASSUME rev \in Revisions, Inv(rev, edited, db),
           NEW client \in Emails, NEW by \in Emails, NEW sub \in BOOLEAN,
           EnterCar(client, by, sub)
    PROVE  Inv(rev', edited', db')
<1>1. PICK car : car = [client |-> client, by |-> by, sub |-> sub]
  OBVIOUS
<1>2. /\ car \in [client : Emails \cup {None}, by : Emails, sub : BOOLEAN]
      /\ car.client = client /\ car.by = by
  BY <1>1
<1>3. /\ rev' = rev /\ edited' = edited
      /\ db' = [db EXCEPT !.cars = @ \cup {car}]
      /\ "listings.intake" \in db.schema
      /\ client \in DOMAIN db.users /\ by \in DOMAIN db.users
  BY <1>1 DEF EnterCar, Write
<1>4. /\ db' \in Databases /\ db'.schema = db.schema /\ db'.copies = db.copies
      /\ db'.look = db.look /\ db'.featured = db.featured /\ db'.users = db.users
      /\ db'.roles = db.roles /\ db'.auctions = db.auctions /\ db'.bids = db.bids
      /\ db'.cars = db.cars \cup {car}
  BY <1>2, <1>3 DEF Inv, Databases
<1>5. rev >= 20
  BY <1>3, SchemaFacts DEF Inv
<1>6. RowsInv(rev, db')
  BY <1>2, <1>3, <1>4, <1>5 DEF Inv, RowsInv, Revisions
<1>7. Inv(rev, edited, db')
  BY <1>4, <1>6, RowsWrite
<1> QED
  BY <1>3, <1>7

(* What curators write is in the menus, no longer as it was seeded.        *)
LEMMA CuratorInv ==
    ASSUME rev \in Revisions, Inv(rev, edited, db),
    RenameAdmin \/ RemoveChildren
    PROVE  Inv(rev', edited', db')
<1>1. /\ rev' = rev /\ edited' = TRUE
      /\ db' \in Databases /\ db'.schema = db.schema /\ db'.featured = db.featured
      /\ Rows(db') = Rows(db)
  <2>1. CASE RenameAdmin
    <3>1. /\ rev' = rev /\ edited' = TRUE
          /\ db' = Set(db, [adminLabel |-> "Overview"])
      BY <2>1 DEF RenameAdmin, Write
    <3> QED
      BY <3>1, OnSet DEF Inv, LookValues
  <2>2. CASE RemoveChildren
    <3>1. /\ rev' = rev /\ edited' = TRUE
          /\ db' = Set(Clear(db, {"children"}),
                       [childParent |-> None, childIcon |-> None])
      BY <2>2 DEF RemoveChildren, Write
    <3>2. PICK d : d = Clear(db, {"children"})
      OBVIOUS
    <3>3. /\ d \in Databases /\ d.schema = db.schema /\ d.featured = db.featured
          /\ Rows(d) = Rows(db)
      BY <3>2, OnClear DEF Inv
    <3>4. db' = Set(d, [childParent |-> None, childIcon |-> None])
      BY <3>1, <3>2
    <3> QED
      BY <3>1, <3>3, <3>4, OnSet DEF LookValues
  <2> QED
    BY <2>1, <2>2
<1>2. /\ db'.users = db.users /\ db'.roles = db.roles /\ db'.auctions = db.auctions
      /\ db'.bids = db.bids /\ db'.cars = db.cars
  BY <1>1 DEF Rows
<1>3. UsersInv(rev, db) /\ RolesInUse(db') = RolesInUse(db)
  BY <1>2 DEF Inv, RolesInUse
<1>4. \A x : AccountInv(rev, db, x) => AccountInv(rev, db', x)
  BY <1>2, <1>3 DEF AccountInv
<1>5. UsersInv(rev, db')
  BY <1>2, <1>3, <1>4 DEF UsersInv
<1>6. Inv(rev, TRUE, db')
  BY <1>1, <1>2, <1>5 DEF Inv, SchemaInv, FeaturedInv, RowsInv
<1> QED
  BY <1>1, <1>6

---------------------------------------------------------------------------
(* The inductive invariant                                                 *)

StateInv ==
    /\ rev \in Stops \cup {0} /\ writes \in 0 .. MaxWrites /\ edited \in BOOLEAN
    /\ Inv(rev, edited, db)

LEMMA StopsAreRevisions ==
    Stops \cup {0} \subseteq Revisions
BY MigrationAssumption DEF Revisions, Newest

(* The empty database is at revision 0.                                    *)
LEMMA EmptyInv ==
    ASSUME NEW ed
    PROVE  Inv(0, ed, EmptyDatabase)
<1>1. EmptyDatabase \in Databases
  <2>1. <<>> \in [{} -> Cards] /\ <<>> \in [{} -> Accounts] /\ DOMAIN <<>> = {}
    OBVIOUS
  <2>2. [g \in SeedGroups |-> 0] \in [SeedGroups -> Nat]
    OBVIOUS
  <2>3. [l \in Looks |-> None] \in [Looks -> LookValues]
    BY DEF LookValues
  <2>4. <<>> \in UNION {[A -> [title : BOOLEAN, listing : BOOLEAN]] :
                           A \in SUBSET {"public", "personal"}}
    BY <2>1 DEF Cards
  <2>5. <<>> \in UNION {[E -> Accounts] : E \in SUBSET Emails}
    BY <2>1
  <2> QED
    BY <2>2, <2>3, <2>4, <2>5 DEF EmptyDatabase, Databases
<1>2. /\ EmptyDatabase.schema = {} /\ EmptyDatabase.featured = <<>>
      /\ EmptyDatabase.copies = [g \in SeedGroups |-> 0]
      /\ EmptyDatabase.look = [l \in Looks |-> None]
      /\ EmptyDatabase.users = <<>> /\ EmptyDatabase.roles = {}
      /\ EmptyDatabase.cars = {}
  BY DEF EmptyDatabase
<1>3. SchemaInv(0, EmptyDatabase)
  BY <1>2 DEF SchemaInv, SchemaAt
<1>4. CopiesInv(0, EmptyDatabase)
  BY <1>2 DEF CopiesInv, CopiesAt, SeededAt
<1>5. LookInv(0, EmptyDatabase)
  BY <1>2 DEF LookInv, LookAt, Looks
<1>6. DOMAIN <<>> = {}
  OBVIOUS
<1>7. FeaturedInv(0, EmptyDatabase)
  BY <1>2, <1>6 DEF FeaturedInv, CardsAt
<1>8. RowsInv(0, EmptyDatabase) /\ UsersInv(0, EmptyDatabase)
  BY <1>2, <1>6 DEF RowsInv, UsersInv
<1> QED
  BY <1>1, <1>3, <1>4, <1>5, <1>7, <1>8 DEF Inv

LEMMA InitStateInv == Init => StateInv
<1> SUFFICES ASSUME Init PROVE StateInv
  OBVIOUS
<1>1. 0 \in 0 .. MaxWrites
  BY MigrationAssumption
<1> QED
  BY <1>1, EmptyInv DEF Init, StateInv

(* One step, named for the migration or the write.                         *)
LEMMA NextStateInv == StateInv /\ [Next]_vars => StateInv'
<1> SUFFICES ASSUME StateInv, [Next]_vars
             PROVE  StateInv'
  OBVIOUS
<1>1. rev \in Revisions /\ Inv(rev, edited, db)
  BY StopsAreRevisions DEF StateInv
<1>2. ASSUME NEW to \in Stops, Upgrade(to)
      PROVE  StateInv'
  <2>1. /\ to \in Revisions /\ rev <= to /\ rev' = to
        /\ writes' = writes /\ edited' = edited
        /\ db' \in Upgraded(db, rev, to) /\ db' # Failed
    BY <1>1, <1>2, StopsAreRevisions DEF Upgrade, Revisions
  <2>2. Inv(to, edited, db')
    BY <1>1, <2>1, UpgradedInv
  <2> QED
    BY <2>1, <2>2 DEF StateInv
<1>3. ASSUME NEW to \in Stops, Downgrade(to)
      PROVE  StateInv'
  <2>1. /\ to \in Revisions /\ to <= rev /\ rev' = to
        /\ writes' = writes /\ edited' = edited
        /\ db' \in Downgraded(db, rev, to) /\ db' # Failed
    BY <1>1, <1>3, StopsAreRevisions DEF Downgrade, Revisions
  <2>2. Inv(to, edited, db')
    BY <1>1, <2>1, DowngradedInv
  <2> QED
    BY <2>1, <2>2 DEF StateInv
<1>4. ASSUME rev' = rev, Inv(rev', edited', db'), edited' \in BOOLEAN,
             NEW d, Write(d)
      PROVE  StateInv'
  <2>1. writes' \in 0 .. MaxWrites
    BY <1>4, MigrationAssumption DEF Write, StateInv
  <2> QED
    BY <1>4, <2>1 DEF StateInv
<1>5. ASSUME NEW e \in Emails, NEW role \in {"Buyer"} \cup LegacyRoles, SignUp(e, role)
      PROVE  StateInv'
  BY <1>1, <1>4, <1>5, SignUpInv DEF SignUp, Write, StateInv
<1>6. ASSUME NEW e \in Emails, ResetPassword(e)
      PROVE  StateInv'
  BY <1>1, <1>4, <1>6, ResetPasswordInv DEF ResetPassword, Write, StateInv
<1>7. ASSUME NEW e \in Emails, NEW role \in RoleNames, NEW p \in BOOLEAN,
             Grant(e, role, p)
      PROVE  StateInv'
  BY <1>1, <1>4, <1>7, GrantInv DEF Grant, Write, StateInv
<1>8. ASSUME NEW kind \in {"listed", "unlisted"}, OpenAuction(kind)
      PROVE  StateInv'
  BY <1>1, <1>4, <1>8, OpenAuctionInv DEF OpenAuction, Write, StateInv
<1>9. ASSUME NEW bidder \in Emails \cup {Stranger}, Bid(bidder)
      PROVE  StateInv'
  BY <1>1, <1>4, <1>9, BidInv DEF Bid, Write, StateInv
<1>10. ASSUME NEW client \in Emails, NEW by \in Emails, NEW sub \in BOOLEAN,
              EnterCar(client, by, sub)
       PROVE  StateInv'
  BY <1>1, <1>4, <1>10, EnterCarInv DEF EnterCar, Write, StateInv
<1>11. CASE RenameAdmin \/ RemoveChildren
  BY <1>1, <1>4, <1>11, CuratorInv DEF RenameAdmin, RemoveChildren, Write,
     StateInv
<1>12. CASE UNCHANGED vars
  BY <1>1, <1>12 DEF vars, StateInv
<1> QED
  BY <1>2, <1>3, <1>5, <1>6, <1>7, <1>8, <1>9, <1>10, <1>11, <1>12 DEF Next

(* The invariant of the database holds at its revision, always.            *)
THEOREM StateInvInvariant == Spec => []StateInv
BY InitStateInv, NextStateInv, PTL DEF Spec

(* Rows are where there is a table for them, and refer to rows that exist, *)
(* whatever upgrades, downgrades and writes led to the database            *)
(* (alembic/versions, the foreign keys of 0001, 0003, 0008, 0009, 0020     *)
(* and 0029).                                                              *)
THEOREM TypeInvariant == Spec => []TypeOK
<1>1. StateInv => TypeOK
  <2> SUFFICES ASSUME StateInv PROVE TypeOK
    OBVIOUS
  <2>1. rev \in Revisions /\ Inv(rev, edited, db) /\ db \in Databases
    BY StopsAreRevisions DEF StateInv, Inv
  <2>2. /\ "users" \in db.schema <=> rev >= 3
        /\ "auctions.fk" \in db.schema <=> rev >= 8
        /\ "bids.fk" \in db.schema <=> rev >= 9
        /\ "roles" \in db.schema <=> rev >= 29
    BY <2>1, SchemaFacts DEF Inv
  <2>3. DOMAIN db.users \subseteq IF "users" \in db.schema THEN Emails ELSE {}
    BY <2>1, <2>2, UsersType DEF Inv, UsersInv, Revisions
  <2>4. db.bids \subseteq IF "bids.fk" \in db.schema
                          THEN DOMAIN db.users ELSE Emails \cup {Stranger}
    BY <2>1, <2>2 DEF Inv, RowsInv, Databases
  <2>5. db.auctions \subseteq IF "auctions.fk" \in db.schema
                              THEN {"listed"} ELSE {"listed", "unlisted"}
    BY <2>1, <2>2 DEF Inv, RowsInv, Databases
  <2>6. db.roles \subseteq IF "roles" \in db.schema THEN RoleNames ELSE {}
    BY <2>1, <2>2 DEF Inv, UsersInv, Databases, Revisions
  <2>7. \A c \in db.cars : /\ c.by \in DOMAIN db.users
                           /\ c.client \in DOMAIN db.users \cup {None}
    BY <2>1 DEF Inv, RowsInv
  <2>8. DOMAIN db.featured \subseteq {"public", "personal"}
    BY <2>1, FeaturedType
  <2> QED
    BY <2>3, <2>4, <2>5, <2>6, <2>7, <2>8 DEF TypeOK, StateInv
<1> QED
  BY <1>1, StateInvInvariant, PTL

(* From 0029 on no command, sign-up or grant leaves an account that holds  *)
(* roles without its primary one or with two (alembic/versions/0029,       *)
(* 0030).                                                                  *)
THEOREM PrimaryRoleIsHeld == Spec => []PrimaryRoleHeld
<1>1. StateInv => PrimaryRoleHeld
  <2> SUFFICES ASSUME StateInv, NEW e \in DOMAIN db.users
               PROVE  LET account == db.users[e]
                      IN  /\ rev >= 30 => account.primary \in account.held
                          /\ rev = 29 =>
                               /\ account.flagged \subseteq account.held
                               /\ account.held # {} =>
                                    Cardinality(account.flagged) = 1
                          /\ account.held \subseteq db.roles
    BY DEF PrimaryRoleHeld
  <2>1. PICK a : a = db.users[e]
    OBVIOUS
  <2>2. rev \in Revisions /\ AccountInv(rev, db, a)
    BY <2>1, StopsAreRevisions DEF StateInv, Inv, UsersInv
  <2>3. ASSUME rev = 29, a.held # {}
        PROVE  Cardinality(a.flagged) = 1
    <3>1. PICK r : r \in a.flagged
      BY <2>2, <2>3 DEF AccountInv
    <3>2. a.flagged = {r}
      BY <2>2, <2>3, <3>1 DEF AccountInv
    <3> QED
      BY <3>2, FS_Singleton
  <2> QED
    BY <2>1, <2>2, <2>3 DEF AccountInv, Revisions
<1> QED
  BY <1>1, StateInvInvariant, PTL

---------------------------------------------------------------------------
(* What stops an upgrade, and what every upgrade that is not stopped gives *)

(* SELECT DISTINCT always has a result.                                    *)
LEMMA DistinctSome ==
    ASSUME NEW names
    PROVE  Distinct(names) # {}
<1> DEFINE Of(r) == CHOOSE s \in names : Fold[s] = Fold[r]
           S == {Of(r) : r \in names}
<1>1. \A r \in names : Of(r) \in names /\ Fold[Of(r)] = Fold[r]
  OBVIOUS
<1>2. \A r, s \in names : Fold[r] = Fold[s] => Of(r) = Of(s)
  OBVIOUS
<1> HIDE DEF Of
<1>3. S \in SUBSET names /\ \A r \in names : \E s \in S : Fold[s] = Fold[r]
  BY <1>1
<1>4. ASSUME NEW x \in S, NEW y \in S, Fold[x] = Fold[y]
      PROVE  x = y
  <2>1. PICK r \in names, s \in names : x = Of(r) /\ y = Of(s)
    OBVIOUS
  <2>2. Fold[r] = Fold[s]
    BY <1>1, <1>4, <2>1
  <2> QED
    BY <1>2, <2>1, <2>2
<1>5. S \in Distinct(names)
  BY <1>3, <1>4 DEF Distinct
<1> QED
  BY <1>5

(* Every migration has a result, if only that it raises.                   *)
LEMMA UpSome ==
    ASSUME NEW n \in 1 .. Newest, NEW d
    PROVE  Up(n, d) # {}
<1>1. /\ Up_0001_initial(d) # {}
      /\ Up_0002_content_tables(d) # {}
      /\ Up_0003_auth_tables(d) # {}
      /\ Up_0004_menu_item_metadata(d) # {}
  BY Zenon
     DEF Up_0001_initial,
         Up_0002_content_tables,
         Up_0003_auth_tables,
         Up_0004_menu_item_metadata
<1>2. /\ Up_0005_featured_auction_tabs(d) # {}
      /\ Up_0006_vehicle_listings(d) # {}
      /\ Up_0007_remove_featured_auction_card_columns(d) # {}
      /\ Up_0008_auction_vehicle_fk(d) # {}
  BY Zenon
     DEF Up_0005_featured_auction_tabs,
         Up_0006_vehicle_listings,
         Up_0007_remove_featured_auction_card_columns,
         Up_0008_auction_vehicle_fk
<1>3. /\ Up_0009_vehicle_seller_and_bid_bidder_fk(d) # {}
      /\ Up_0010_admin_dashboard(d) # {}
      /\ Up_0011_admin_dashboard_submenus(d) # {}
      /\ Up_0012_admin_operations_cards(d) # {}
  BY Zenon
     DEF Up_0009_vehicle_seller_and_bid_bidder_fk,
         Up_0010_admin_dashboard,
         Up_0011_admin_dashboard_submenus,
         Up_0012_admin_operations_cards
<1>4. /\ Up_0013_admin_management_cards(d) # {}
      /\ Up_0014_admin_accountant_cards(d) # {}
      /\ Up_0015_admin_reports_cards(d) # {}
      /\ Up_0016_admin_home_cards(d) # {}
  BY Zenon
     DEF Up_0013_admin_management_cards,
         Up_0014_admin_accountant_cards,
         Up_0015_admin_reports_cards,
         Up_0016_admin_home_cards
<1>5. /\ Up_0017_vehicle_status_metrics(d) # {}
      /\ Up_0018_vehicle_payment_records(d) # {}
      /\ Up_0019_vehicle_lookup_tables(d) # {}
      /\ Up_0020_vehicle_submissions(d) # {}
  BY Zenon
     DEF Up_0017_vehicle_status_metrics,
         Up_0018_vehicle_payment_records,
         Up_0019_vehicle_lookup_tables,
         Up_0020_vehicle_submissions
<1>6. /\ Up_0021_seed_uat_seller_users(d) # {}
      /\ Up_0022_sub_sellers(d) # {}
      /\ Up_0023_seed_sub_sellers(d) # {}
      /\ Up_0024_seller_card_images(d) # {}
  BY Zenon
     DEF Up_0021_seed_uat_seller_users,
         Up_0022_sub_sellers,
         Up_0023_seed_sub_sellers,
         Up_0024_seller_card_images
<1>7. /\ Up_0025_seller_card_icons_null(d) # {}
      /\ Up_0026_admin_menu_icon_null(d) # {}
      /\ Up_0027_home_menu_url(d) # {}
      /\ Up_0028_menu_items_admin_icon_null(d) # {}
  BY Zenon
     DEF Up_0025_seller_card_icons_null,
         Up_0026_admin_menu_icon_null,
         Up_0027_home_menu_url,
         Up_0028_menu_items_admin_icon_null
<1>8. Up_0030_users_primary_role_fk(d) # {}
  BY Zenon DEF Up_0030_users_primary_role_fk
<1>9. Up_0031_seed_role_demo_users(d) # {}
  BY Zenon DEF Up_0031_seed_role_demo_users
<1>10. Up_0032_admin_nav_overview_icons(d) # {}
  BY Zenon DEF Up_0032_admin_nav_overview_icons
<1>11. Up_0029_roles(d) # {}
  <2>1. PICK legacy : legacy \in Distinct(RolesInUse(d))
    BY DistinctSome
  <2>2. RolesMadeOf(legacy, d) \in Up_0029_roles(d)
    BY <2>1 DEF Up_0029_roles
  <2> QED
    BY <2>2
<1>12. n \in {1, 2, 3, 4, 5, 6, 7, 8, 9, 10, 11, 12, 13, 14, 15, 16, 17, 18,
             19, 20, 21, 22, 23, 24, 25, 26, 27, 28, 29, 30, 31, 32}
  BY DEF Newest
<1> QED
  BY <1>1, <1>2, <1>3, <1>4, <1>5, <1>6, <1>7, <1>8, <1>9, <1>10, <1>11,
     <1>12, UpIs

(* The migrations that write accounts, and those of auctions and bids.     *)
LEMMA UpUsers ==
    ASSUME NEW n \in 1 .. Newest, NEW ed, NEW d, Inv(n - 1, ed, d),
           NEW r \in Up(n, d), r # Failed
    PROVE  /\ n \notin {21, 29, 30, 31} => r.users = d.users
           /\ n <= 9 => r.auctions = d.auctions /\ r.bids = d.bids
<1> USE DEF Inv
<1>1. CASE n \notin UpOnCards \cup UpOnRows
  BY <1>1, UpDecorates DEF Rows
<1>2. CASE n \in UpOnCards
  BY <1>2, UpCards DEF Rows
<1>3. CASE n \in {22, 23}
  BY <1>3, SubSellers DEF SubsOnly
<1>4. CASE n \in {21, 29, 30, 31}
  BY <1>4
<1> QED
  BY <1>1, <1>2, <1>3, <1>4 DEF UpOnRows

LEMMA DownUsers ==
    ASSUME NEW n \in 1 .. Newest, NEW ed, NEW d, Inv(n, ed, d),
           NEW r \in Down(n, d), r # Failed, n \notin {3, 21, 29, 30, 31}
    PROVE  r.users = d.users
<1> USE DEF Inv
<1>1. CASE n \notin DownOnCards \cup DownOnRows
  BY <1>1, DownDecorates DEF Rows
<1>2. CASE n \in DownOnCards
  BY <1>2, DownCards DEF Rows
<1>3. CASE n \in {22, 23}
  BY <1>3, SubSellers DEF SubsOnly
<1>4. CASE n = 1
  BY <1>4, Down1 DEF Rows
<1> QED
  BY <1>1, <1>2, <1>3, <1>4 DEF DownOnRows, DownOnCards

(* An upgrade that finds no obstacle succeeds, and leaves none for the next. *)
LEMMA PassableUp ==
    ASSUME NEW n \in 1 .. Newest, NEW ed, NEW d, Inv(n - 1, ed, d),
    Passable(n - 1, d),
           NEW r \in Up(n, d)
    PROVE  /\ r # Failed /\ Inv(n, ed, r) /\ Passable(n, r)
           /\ d.schema = SchemaAt(n - 1) => r.schema = SchemaAt(n)
<1>1. ~UpRaises(n, d)
  BY DEF Passable, UpRaises
<1>2. /\ Inv(n, ed, r) /\ r \in Databases
      /\ d.schema = SchemaAt(n - 1) => r.schema = SchemaAt(n)
  BY <1>1, UpInv DEF Inv
<1>3. r # Failed
  BY <1>2, FailureAssumption
<1>4. n < 8 => "unlisted" \notin r.auctions
  BY <1>3, UpUsers DEF Passable
<1>5. n < 9 => r.bids \subseteq DOMAIN r.users
  BY <1>3, UpUsers DEF Passable
<1>6. n = 5 => \A a \in DOMAIN r.featured : r.featured[a].title
  BY <1>3, UpCards DEF UpOnCards, Inv
<1>7. n = 10 => r.look["adminLabel"] = "Admin"
  <2> SUFFICES ASSUME n = 10 PROVE r.look["adminLabel"] = "Admin"
    OBVIOUS
  <2>1. PICK t : t = Seed(Create(d, {"admin_nav_items", "admin_dashboard_cards"}),
                          {"nav", "placeholders", "sellers"})
    OBVIOUS
  <2>2. t \in Databases
    BY <2>1, OnCreate, OnSeed DEF SchemaObjects, Inv
  <2>3. r = Set(t, [adminLabel |-> "Admin", adminIcon |-> "user-shield",
                    sellerIcon |-> "own"])
    BY <2>1, UpIs DEF Up_0010_admin_dashboard
  <2> QED
    BY <2>2, <2>3, OnSet DEF Looks, LookValues
<1>8. ASSUME n < 29, NEW u \in RolesInUse(r) \ SeedRoles, NEW s \in SeedRoles
      PROVE  Fold[u] # Fold[s]
  <2>1. u \in RolesInUse(d)
    <3>1. CASE n # 21
      <4>1. r.users = d.users
        BY <1>3, <1>8, <3>1, UpUsers
      <4> QED
        BY <1>8, <4>1 DEF RolesInUse
    <3>2. CASE n = 21
      <4>1. PICK e \in DOMAIN r.users : u = r.users[e].role
        BY <1>8 DEF RolesInUse
      <4>2. e \in DOMAIN d.users /\ r.users[e] = d.users[e]
        BY <1>8, <3>2, <4>1, Up21, RoleNamesFacts DEF Inv
      <4> QED
        BY <4>1, <4>2 DEF RolesInUse
    <3> QED
      BY <3>1, <3>2
  <2> QED
    BY <1>8, <2>1 DEF Passable
<1>9. n = 29 => \A e \in DOMAIN r.users : r.users[e].flagged # {}
  BY <1>3, Up29 DEF Inv
<1> QED
  BY <1>2, <1>3, <1>4, <1>5, <1>6, <1>7, <1>8, <1>9 DEF Passable

(* So does a chain of them.                                                *)
LEMMA UpgradedPassable ==
    ASSUME NEW from \in Revisions, NEW to \in Revisions, from <= to,
           NEW ed, NEW d, Inv(from, ed, d), Passable(from, d),
           NEW r \in Upgraded(d, from, to)
    PROVE  /\ r # Failed /\ Inv(to, ed, r) /\ Passable(to, r)
           /\ d.schema = SchemaAt(from) => r.schema = SchemaAt(to)
<1> DEFINE Good(n, x) == /\ Inv(n, ed, x) /\ Passable(n, x)
                         /\ d.schema = SchemaAt(from) => x.schema = SchemaAt(n)
           G == [n \in Revisions |-> {x \in Databases : Good(n, x)}]
<1>1. d \in G[from]
  BY DEF Inv
<1>2. ASSUME NEW n \in from + 1 .. to, NEW x \in G[n - 1]
      PROVE  x # Failed /\ Up(n, x) \subseteq G[n]
  <2>1. n \in 1 .. Newest /\ n \in Revisions /\ n - 1 \in Revisions
    BY DEF Revisions, Newest
  <2>2. x \in Databases /\ Good(n - 1, x)
    BY <1>2, <2>1
  <2>3. ASSUME NEW y \in Up(n, x)
        PROVE  y \in Databases /\ Good(n, y)
    BY <2>1, <2>2, <2>3, PassableUp DEF Inv
  <2> QED
    BY <2>1, <2>2, <2>3, FailureAssumption
<1>3. from \in Nat /\ to \in Nat
  BY DEF Revisions, Newest
<1>4. Upgraded(d, from, to) \subseteq G[to]
  <2> HIDE DEF G
  <2> QED
    BY <1>1, <1>2, <1>3, UpgradedIn
<1>5. r \in Databases /\ Good(to, r)
  BY <1>4
<1> QED
  BY <1>5, FailureAssumption

(* Whatever its history, a database that shows none of the known obstacles *)
(* is upgraded to the newest revision: no chain of migrations raises       *)
(* (docker-compose.yml:84-87 runs "alembic upgrade head" at every start).  *)
THEOREM HeadIsReachable == Spec => []HeadReachable
<1>1. StateInv => HeadReachable
  <2> SUFFICES ASSUME StateInv, ~UpgradeBlocked
               PROVE  Failed \notin Upgraded(db, rev, Newest)
    BY DEF HeadReachable
  <2>1. rev \in Revisions /\ Inv(rev, edited, db) /\ Newest \in Revisions /\ rev <= Newest
    BY StopsAreRevisions DEF StateInv, Revisions, Newest
  <2>2. rev = 5 => \A a \in DOMAIN db.featured : db.featured[a].title
    BY <2>1 DEF UpgradeBlocked, Inv, FeaturedInv
  <2>3. Passable(rev, db)
    BY <2>1, <2>2 DEF Passable, UpgradeBlocked
  <2> QED
    BY <2>1, <2>3, UpgradedPassable
<1> QED
  BY <1>1, StateInvInvariant, PTL

---------------------------------------------------------------------------
(* A new installation, and what any other database shares with it          *)

(* A new installation has the schema of its revision, and its seeds.       *)
LEMMA InstalledInv ==
    ASSUME rev \in Stops \cup {0}
    PROVE  Inv(rev, FALSE, Installed) /\ Installed.schema = SchemaAt(rev)
<1>1. rev \in Revisions /\ 0 \in Revisions /\ 0 <= rev /\ rev \in Nat
  BY StopsAreRevisions DEF Revisions, Newest
<1>2. Passable(0, EmptyDatabase) /\ EmptyDatabase.schema = SchemaAt(0)
  <2>1. /\ EmptyDatabase.auctions = {} /\ EmptyDatabase.bids = {}
        /\ EmptyDatabase.users = <<>> /\ EmptyDatabase.schema = {}
    BY DEF EmptyDatabase
  <2>2. DOMAIN <<>> = {}
    OBVIOUS
  <2>3. RolesInUse(EmptyDatabase) = {}
    BY <2>1, <2>2 DEF RolesInUse
  <2>4. SchemaAt(0) = {}
    BY DEF SchemaAt
  <2> QED
    BY <2>1, <2>3, <2>4 DEF Passable
<1>3. \A n \in 0 + 1 .. rev : \A x : Up(n, x) # {}
  BY <1>1, UpSome DEF Revisions, Newest
<1>4. Upgraded(EmptyDatabase, 0, rev) # {}
  BY <1>1, <1>3, UpgradedSome
<1>5. Installed = CHOOSE d \in Upgraded(EmptyDatabase, 0, rev) : TRUE
  BY DEF Installed, Installation
<1>6. Installed \in Upgraded(EmptyDatabase, 0, rev)
  BY <1>4, <1>5
<1> QED
  BY <1>1, <1>2, <1>6, EmptyInv, UpgradedPassable

(* No order of upgrades and downgrades leaves a table or column behind, or *)
(* loses one: the schema is the one that a new installation at the         *)
(* revision has, but for the nullable titles of 0007                       *)
(* (alembic/versions/*.py, downgrade).                                     *)
THEOREM SchemaIsOfRevision == Spec => []SchemaOfRevision
<1>1. StateInv => SchemaOfRevision
  <2> SUFFICES ASSUME StateInv PROVE SchemaOfRevision
    OBVIOUS
  <2>1. /\ SchemaInv(rev, db) /\ Installed.schema = SchemaAt(rev)
    BY InstalledInv DEF StateInv, Inv
  <2>2. RestoredAt(rev) \ {"featured.title?"} = SchemaAt(rev) \ {"featured.title"}
    BY DEF RestoredAt, SchemaAt
  <2> QED
    BY <2>1, <2>2 DEF SchemaInv, SchemaOfRevision
<1> QED
  BY <1>1, StateInvInvariant, PTL

(* Nor is a seeded row missing, there twice or left as another revision    *)
(* had it (alembic/versions/0006:61-144, 0011:157, 0027:34).               *)
THEOREM SeedsAreOfRevision == Spec => []SeedsOfRevision
<1>1. StateInv => SeedsOfRevision
  <2> SUFFICES ASSUME StateInv PROVE SeedsOfRevision
    OBVIOUS
  <2>1. /\ ~edited => CopiesInv(rev, db) /\ LookInv(rev, db)
        /\ FeaturedInv(rev, db) /\ rev \in Revisions
    BY StopsAreRevisions DEF StateInv, Inv
  <2>2. /\ CopiesInv(rev, Installed) /\ LookInv(rev, Installed)
        /\ FeaturedInv(rev, Installed)
    BY InstalledInv DEF StateInv, Inv
  <2>3. ASSUME ~edited, NEW g \in SeedGroups
        PROVE  db.copies[g] = Installed.copies[g] \/ (g = "placeholders" /\ rev = 10)
    BY <2>1, <2>2, <2>3 DEF CopiesInv
  <2>4. ASSUME ~edited, NEW l \in Looks
        PROVE  db.look[l] = Installed.look[l] \/ (l = "home" /\ rev \in 20 .. 26)
    BY <2>1, <2>2, <2>4 DEF LookInv
  <2>5. /\ DOMAIN db.featured = DOMAIN Installed.featured
        /\ \A a \in DOMAIN db.featured :
              IF rev >= 6
              THEN db.featured[a].listing
              ELSE db.featured[a].title \/ "featured.title?" \in db.schema
    BY <2>1, <2>2 DEF FeaturedInv, Revisions, Newest
  <2> QED
    BY <2>3, <2>4, <2>5 DEF SeedsOfRevision
<1> QED
  BY <1>1, StateInvInvariant, PTL

---------------------------------------------------------------------------
(* What a command does to the accounts that it finds                       *)

(* Where the primary role of an account is kept, by revision.              *)
LEMMA PrimaryRoleIs ==
    ASSUME NEW n \in Revisions, NEW ed, NEW d, Inv(n, ed, d),
    NEW e \in DOMAIN d.users
    PROVE  PrimaryRole(d.users[e]) = IF n < 30 THEN d.users[e].role
                                               ELSE d.users[e].primary
<1>1. AccountInv(n, d, d.users[e]) /\ d.roles \subseteq RoleNames
  BY DEF Inv, UsersInv, Databases
<1>2. CASE n < 30
  BY <1>1, <1>2 DEF AccountInv, PrimaryRole
<1>3. CASE n >= 30
  BY <1>1, <1>3, RoleNamesFacts DEF AccountInv, PrimaryRole, Revisions
<1> QED
  BY <1>2, <1>3 DEF Revisions

(* The role of the accounts of 0021 is a seeded one, and those differ.     *)
LEMMA SellerCollision ==
    ASSUME NEW names, Collision(names \cup {"Seller"})
    PROVE  Collision(names)
<1>1. PICK r \in names \cup {"Seller"}, s \in names \cup {"Seller"} \cup SeedRoles :
           r # s /\ Fold[r] = Fold[s]
  BY DEF Collision
<1>2. CASE r \in names
  BY <1>1, <1>2, RoleNamesFacts DEF Collision
<1>3. CASE r \notin names
  <2>1. r \in SeedRoles
    BY <1>3, RoleNamesFacts
  <2>2. s \in names
    BY <1>1, <2>1, RoleNamesFacts
  <2> QED
    BY <1>1, <2>1, <2>2 DEF Collision
<1> QED
  BY <1>2, <1>3

(* On the way up from the database d0 at revision m.                       *)
KeptUp(m, d0, n, d) ==
    /\ DOMAIN d0.users \subseteq DOMAIN d.users
    /\ n < 30 => /\ \A e \in DOMAIN d0.users : d.users[e].role = d0.users[e].role
                 /\ RolesInUse(d) \subseteq RolesInUse(d0) \cup {"Seller"}
    /\ n >= 30 => \A e \in DOMAIN d0.users :
                     \/ d.users[e].primary = PrimaryRole(d0.users[e])
                     \/ m < 30 /\ Collision(RolesInUse(d0))

(* One upgrade keeps the accounts, and so does a chain of them.            *)
LEMMA KeptUpStep ==
    ASSUME NEW m \in Revisions, NEW ed, NEW d0, Inv(m, ed, d0),
           NEW n \in 1 .. Newest, m < n, NEW d, Inv(n - 1, ed, d),
           KeptUp(m, d0, n - 1, d), NEW r \in Up(n, d), r # Failed
    PROVE  KeptUp(m, d0, n, r)
<1>1. CASE n \notin {21, 29, 30, 31}
  <2>1. r.users = d.users /\ RolesInUse(r) = RolesInUse(d)
    BY <1>1, UpUsers DEF RolesInUse
  <2>2. (n - 1 < 30 <=> n < 30) /\ (n - 1 >= 30 <=> n >= 30)
    BY <1>1
  <2> QED
    BY <2>1, <2>2 DEF KeptUp
<1>2. CASE n = 21
  <2>1. /\ \A e \in DOMAIN d.users : e \in DOMAIN r.users /\ r.users[e] = d.users[e]
        /\ \A e \in DOMAIN r.users \ DOMAIN d.users : r.users[e].role = "Seller"
    BY <1>2, Up21 DEF Inv
  <2>2. RolesInUse(r) \subseteq RolesInUse(d) \cup {"Seller"}
    BY <2>1 DEF RolesInUse
  <2> QED
    BY <1>2, <2>1, <2>2 DEF KeptUp
<1>3. CASE n = 29
  <2>1. /\ DOMAIN r.users = DOMAIN d.users
        /\ \A e \in DOMAIN r.users : r.users[e].role = d.users[e].role
    BY <1>3, Up29 DEF Inv
  <2>2. RolesInUse(r) = RolesInUse(d)
    BY <2>1 DEF RolesInUse
  <2> QED
    BY <1>3, <2>1, <2>2 DEF KeptUp
<1>4. CASE n = 30
  <2>1. /\ DOMAIN r.users = DOMAIN d.users
        /\ \A e \in DOMAIN r.users : r.users[e].primary \in d.users[e].flagged
    BY <1>4, Up30 DEF Inv
  <2>2. ASSUME NEW e \in DOMAIN d0.users
        PROVE  \/ r.users[e].primary = PrimaryRole(d0.users[e])
               \/ m < 30 /\ Collision(RolesInUse(d0))
    <3>1. e \in DOMAIN d.users /\ d.users[e].role = d0.users[e].role
      BY <1>4 DEF KeptUp
    <3>2. PrimaryRole(d0.users[e]) = d0.users[e].role
      BY <1>4, PrimaryRoleIs
    <3>3. AccountInv(29, d, d.users[e])
      BY <1>4, <3>1 DEF Inv, UsersInv
    <3>4. d.users[e].flagged \subseteq {d.users[e].role} \/ Collision(RolesInUse(d))
      BY <3>3 DEF AccountInv
    <3>5. CASE d.users[e].flagged \subseteq {d.users[e].role}
      BY <2>1, <3>1, <3>2, <3>5
    <3>6. CASE Collision(RolesInUse(d))
      <4>1. RolesInUse(d) \subseteq RolesInUse(d0) \cup {"Seller"}
        BY <1>4 DEF KeptUp
      <4>2. Collision(RolesInUse(d0) \cup {"Seller"})
        BY <3>6, <4>1, CollisionGrows
      <4> QED
        BY <1>4, <4>2, SellerCollision
    <3> QED
      BY <3>4, <3>5, <3>6
  <2> QED
    BY <1>4, <2>1, <2>2 DEF KeptUp
<1>5. CASE n = 31
  <2>1. \A e \in DOMAIN d.users : /\ e \in DOMAIN r.users
                                  /\ r.users[e].primary = d.users[e].primary
    BY <1>5, Up31 DEF Inv
  <2> QED
    BY <1>5, <2>1 DEF KeptUp
<1> QED
  BY <1>1, <1>2, <1>3, <1>4, <1>5

LEMMA UpgradedKeeps ==
    ASSUME NEW from \in Revisions, NEW to \in Revisions, from <= to,
           NEW ed, NEW d, Inv(from, ed, d),
           NEW r \in Upgraded(d, from, to), r # Failed
    PROVE  KeptUp(from, d, to, r)
<1> DEFINE Good(n, x) == Inv(n, ed, x) /\ KeptUp(from, d, n, x)
           G == [n \in Revisions |-> {x \in Databases : Good(n, x)} \cup {Failed}]
<1>1. d \in G[from]
  <2>1. KeptUp(from, d, from, d)
    BY PrimaryRoleIs DEF KeptUp, Revisions
  <2> QED
    BY <2>1 DEF Inv
<1>2. ASSUME NEW n \in from + 1 .. to, NEW x \in G[n - 1]
      PROVE  IF x = Failed THEN Failed \in G[n] ELSE Up(n, x) \subseteq G[n]
  <2>1. n \in 1 .. Newest /\ n \in Revisions /\ n - 1 \in Revisions /\ from < n
    BY DEF Revisions, Newest
  <2>2. CASE x # Failed
    <3>1. Good(n - 1, x)
      BY <1>2, <2>1, <2>2
    <3>2. \A y \in Up(n, x) : y # Failed => Good(n, y)
      BY <2>1, <3>1, UpInv, KeptUpStep
    <3> QED
      BY <2>1, <2>2, <3>2 DEF Inv
  <2> QED
    BY <2>1, <2>2
<1>3. from \in Nat /\ to \in Nat
  BY DEF Revisions, Newest
<1>4. r \in G[to]
  <2> HIDE DEF G
  <2> QED
    BY <1>1, <1>2, <1>3, UpgradedIn
<1> QED
  BY <1>4

(* On the way down from the database d0 at revision m.                     *)
KeptDown(m, d0, n, d) ==
    /\ DOMAIN d.users \subseteq DOMAIN d0.users
    /\ \A e \in DOMAIN d.users :
          /\ PrimaryRole(d.users[e]) = PrimaryRole(d0.users[e])
          /\ d.users[e].own = d0.users[e].own
    /\ \A e \in DOMAIN d0.users \ DOMAIN d.users :
          \/ ~d0.users[e].own
          \/ n < 3
          \/ e = DemoEmail /\ m >= 31 /\ n < 31

(* One downgrade keeps the accounts, and so does a chain of them.          *)
LEMMA KeptDownStep ==
    ASSUME NEW m \in Revisions, NEW ed, NEW d0, Inv(m, ed, d0),
           NEW n \in 1 .. Newest, n <= m, NEW d, Inv(n, ed, d),
           KeptDown(m, d0, n, d), NEW r \in Down(n, d), r # Failed
    PROVE  KeptDown(m, d0, n - 1, r)
<1>0. n < 3 => n - 1 < 3
  OBVIOUS
<1>1. CASE n \notin {3, 21, 29, 30, 31}
  <2>1. r.users = d.users
    BY <1>1, DownUsers
  <2>2. n < 31 => n - 1 < 31
    OBVIOUS
  <2> QED
    BY <1>0, <2>1, <2>2 DEF KeptDown
<1>2. CASE n = 3
  <2>1. r.users = <<>> /\ DOMAIN <<>> = {}
    BY <1>2, Down3 DEF Inv, Rows
  <2> QED
    BY <1>2, <2>1 DEF KeptDown
<1>3. CASE n = 21
  <2>1. /\ \A e \in DOMAIN r.users : e \in DOMAIN d.users /\ r.users[e] = d.users[e]
        /\ \A e \in DOMAIN d.users \ DOMAIN r.users : ~d.users[e].own
    BY <1>3, Down21 DEF Inv
  <2> QED
    BY <1>3, <2>1 DEF KeptDown
<1>4. CASE n \in {29, 30}
  <2>1. /\ DOMAIN r.users = DOMAIN d.users
        /\ \A e \in DOMAIN r.users :
              /\ r.users[e].own = d.users[e].own
              /\ n = 29 => r.users[e].role = d.users[e].role
              /\ n = 30 => r.users[e].role = d.users[e].primary
    BY <1>4, Down29, Down30 DEF Inv
  <2>2. Inv(n - 1, ed, r) /\ n - 1 \in Revisions /\ n \in Revisions
    BY DownInv DEF Revisions, Newest
  <2>3. ASSUME NEW e \in DOMAIN r.users
        PROVE  PrimaryRole(r.users[e]) = PrimaryRole(d.users[e])
    <3>1. PrimaryRole(r.users[e]) = r.users[e].role
      BY <1>4, <2>2, PrimaryRoleIs
    <3>2. PrimaryRole(d.users[e]) = IF n = 29 THEN d.users[e].role
                                               ELSE d.users[e].primary
      BY <1>4, <2>1, <2>2, PrimaryRoleIs
    <3> QED
      BY <1>4, <2>1, <3>1, <3>2
  <2> QED
    BY <1>4, <2>1, <2>3 DEF KeptDown
<1>5. CASE n = 31
  <2>1. /\ \A e \in DOMAIN r.users : e \in DOMAIN d.users /\ r.users[e] = d.users[e]
        /\ DOMAIN d.users \ DOMAIN r.users \subseteq {DemoEmail}
    BY <1>5, Down31 DEF Inv
  <2> QED
    BY <1>5, <2>1 DEF KeptDown, Revisions
<1> QED
  BY <1>1, <1>2, <1>3, <1>4, <1>5

LEMMA DowngradedKeeps ==
    ASSUME NEW from \in Revisions, NEW to \in Revisions, to <= from,
           NEW ed, NEW d, Inv(from, ed, d),
           NEW r \in Downgraded(d, from, to), r # Failed
    PROVE  KeptDown(from, d, to, r)
<1> DEFINE Good(n, x) == Inv(n, ed, x) /\ KeptDown(from, d, n, x)
           G == [n \in Revisions |-> {x \in Databases : Good(n, x)} \cup {Failed}]
<1>1. d \in G[from]
  <2>1. KeptDown(from, d, from, d)
    BY DEF KeptDown
  <2> QED
    BY <2>1 DEF Inv
<1>2. ASSUME NEW n \in to + 1 .. from, NEW x \in G[n]
      PROVE  IF x = Failed THEN Failed \in G[n - 1] ELSE Down(n, x) \subseteq G[n - 1]
  <2>1. n \in 1 .. Newest /\ n \in Revisions /\ n - 1 \in Revisions /\ n <= from
    BY DEF Revisions, Newest
  <2>2. CASE x # Failed
    <3>1. Good(n, x)
      BY <1>2, <2>1, <2>2
    <3>2. \A y \in Down(n, x) : y # Failed => Good(n - 1, y)
      BY <2>1, <3>1, DownInv, KeptDownStep
    <3> QED
      BY <2>1, <2>2, <3>2 DEF Inv
  <2> QED
    BY <2>1, <2>2
<1>3. from \in Nat /\ to \in Nat
  BY DEF Revisions, Newest
<1>4. r \in G[to]
  <2> HIDE DEF G
  <2> QED
    BY <1>1, <1>2, <1>3, DowngradedIn
<1> QED
  BY <1>4

(* No migration changes the primary role of an account or deletes one      *)
(* whose user chose its password, but for the three exceptions that the    *)
(* property names (alembic/versions/0021:134-138, 0029:33-37, 0030:18,     *)
(* 0031:134-138).                                                          *)
THEOREM AccountsAlwaysSurvive == Spec => AccountsSurvive
<1> DEFINE Survives(e) ==
        IF e \in DOMAIN db'.users
        THEN \/ PrimaryRole(db'.users[e]) = PrimaryRole(db.users[e])
             \/ /\ rev < 30
                /\ \E r \in RolesInUse(db), s \in RolesInUse(db) \cup SeedRoles :
                      r # s /\ Fold[r] = Fold[s]
        ELSE \/ ~db.users[e].own
             \/ rev' < 3
             \/ e = DemoEmail /\ rev >= 31 /\ rev' < 31
<1>1. ASSUME StateInv, [Next]_vars, Migrated, NEW e \in DOMAIN db.users
      PROVE  Survives(e)
  <2>1. rev \in Revisions /\ Inv(rev, edited, db)
    BY <1>1, StopsAreRevisions DEF StateInv
  <2>2. ASSUME NEW to \in Stops, Upgrade(to)
        PROVE  Survives(e)
    <3>1. /\ to \in Revisions /\ rev <= to /\ rev' = to
          /\ db' \in Upgraded(db, rev, to) /\ db' # Failed
      BY <2>1, <2>2, StopsAreRevisions DEF Upgrade, Revisions
    <3>2. KeptUp(rev, db, to, db') /\ Inv(to, edited, db')
      BY <2>1, <3>1, UpgradedKeeps, UpgradedInv
    <3>3. e \in DOMAIN db'.users
      BY <3>2 DEF KeptUp
    <3>4. CASE to < 30
      <4>1. PrimaryRole(db'.users[e]) = db'.users[e].role
        BY <3>1, <3>2, <3>3, <3>4, PrimaryRoleIs
      <4>2. PrimaryRole(db.users[e]) = db.users[e].role
        BY <2>1, <3>1, <3>4, PrimaryRoleIs DEF Revisions
      <4> QED
        BY <3>2, <3>3, <3>4, <4>1, <4>2 DEF KeptUp
    <3>5. CASE to >= 30
      <4>1. PrimaryRole(db'.users[e]) = db'.users[e].primary
        BY <3>1, <3>2, <3>3, <3>5, PrimaryRoleIs DEF Revisions
      <4> QED
        BY <3>2, <3>3, <3>5, <4>1 DEF KeptUp, Collision
    <3> QED
      BY <3>1, <3>4, <3>5 DEF Revisions
  <2>3. ASSUME NEW to \in Stops, Downgrade(to)
        PROVE  Survives(e)
    <3>1. /\ to \in Revisions /\ to <= rev /\ rev' = to
          /\ db' \in Downgraded(db, rev, to) /\ db' # Failed
      BY <2>1, <2>3, StopsAreRevisions DEF Downgrade, Revisions
    <3>2. KeptDown(rev, db, to, db')
      BY <2>1, <3>1, DowngradedKeeps
    <3> QED
      BY <3>1, <3>2 DEF KeptDown
  <2>4. \E to \in Stops : Upgrade(to) \/ Downgrade(to)
    BY <1>1 DEF Next, Migrated, SignUp, ResetPassword, Grant, OpenAuction, Bid,
                EnterCar, RenameAdmin, RemoveChildren, Write, vars
  <2> QED
    BY <2>2, <2>3, <2>4
<1>2. StateInv /\ [Next]_vars =>
        [Migrated => \A e \in DOMAIN db.users : Survives(e)]_vars
  BY <1>1
<1>3. Spec => [][Migrated => \A e \in DOMAIN db.users : Survives(e)]_vars
  <2> HIDE DEF Survives
  <2> QED
    BY <1>2, StateInvInvariant, PTL DEF Spec
<1> QED
  BY <1>3 DEF AccountsSurvive

=============================================================================
