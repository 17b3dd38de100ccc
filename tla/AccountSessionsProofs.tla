----------------------- MODULE AccountSessionsProofs -----------------------
(***************************************************************************)
(* Theorems about AccountSessions, for any number of accounts, requests,   *)
(* tokens and links, and any overlap.                                      *)
(***************************************************************************)
EXTENDS AccountSessions, FiniteSetTheorems, TLAPS

---------------------------------------------------------------------------
(* Types                                                                   *)

Busy(q) == req[q] # Idle

(* What a request names is there: the account whose password it verified,  *)
(* a token or a link of its user.                                          *)
Backed(j) ==
    /\ j.op = "signin" => j.user \in Accounts
    /\ j.op \in {"refresh", "signout"} =>
         j.token \in DOMAIN tokens /\ tokens[j.token].user = j.user
    /\ j.op = "reset" =>
         j.link \in DOMAIN links /\ links[j.link].user = j.user

(* A session has one user, and its first token is a token.                 *)
Sessions ==
    /\ \A t \in DOMAIN tokens : tokens[t].root \in DOMAIN tokens
    /\ \A s, t \in DOMAIN tokens :
         tokens[s].root = tokens[t].root => tokens[s].user = tokens[t].user

SessionTypes ==
    /\ TypeOK
    /\ Sessions
    /\ \A q \in Requests : Busy(q) => Backed(req[q])

LEMMA SessionTypesInit == Init => SessionTypes
<1> SUFFICES ASSUME Init PROVE SessionTypes
  OBVIOUS
<1>1. tokens = <<>> /\ links = <<>> /\ live = {} /\ ended = {}
  BY DEF Init
<1>2. MaxFailed \in Nat /\ MaxFailed > 0
  BY SessionAssumption
<1>3. TypeOK
  BY <1>1, <1>2 DEF Init, TypeOK, LockTimes, Accounts
<1> QED
  BY <1>1, <1>3 DEF Init, SessionTypes, Sessions, Busy

(* The fields of a job, by its operation.                                  *)
LEMMA JobShape ==
    ASSUME SessionTypes, NEW q \in Requests, Busy(q)
    PROVE  /\ req[q] \in Jobs /\ req[q].user \in Users /\ Backed(req[q])
           /\ req[q].op \in {"failure", "signin", "refresh", "signout", "reset"}
           /\ req[q].op = "failure" => req[q].failed \in Nat
           /\ req[q].op = "signin" =>
                /\ req[q].pw \in Passwords /\ req[q].born \in Nat
                /\ req[q].rehash \in BOOLEAN /\ req[q].counted \in BOOLEAN
                /\ req[q].locked \in BOOLEAN
           /\ req[q].op = "reset" =>
                /\ req[q] \in ResetJobs
                /\ req[q].pw \in Passwords /\ req[q].swept \in BOOLEAN
                /\ req[q].rows \subseteq Nat
<1>1. req[q] \in Jobs /\ Backed(req[q])
  BY DEF SessionTypes, TypeOK, Busy
<1> QED
  BY <1>1 DEF Jobs, FailedJobs, SignInJobs, TokenJobs, ResetJobs

LEMMA RowShape ==
    ASSUME SessionTypes
    PROVE  /\ \A t \in DOMAIN tokens :
                /\ t \in Nat /\ tokens[t].user \in Users
                /\ tokens[t].root \in Nat /\ tokens[t].born \in Nat
           /\ \A l \in DOMAIN links : l \in Nat /\ links[l].user \in Users
<1>1. tokens \in Seq(TokenRows) /\ links \in Seq(LinkRows)
  BY DEF SessionTypes, TypeOK
<1>2. ASSUME NEW t \in DOMAIN tokens
      PROVE  t \in Nat /\ tokens[t] \in TokenRows
  BY <1>1
<1>3. ASSUME NEW l \in DOMAIN links
      PROVE  l \in Nat /\ links[l] \in LinkRows
  BY <1>1
<1> QED
  BY <1>2, <1>3 DEF TokenRows, LinkRows

(* A request that starts changes nothing but its slot.                     *)
LEMMA StartEffect ==
    ASSUME SessionTypes, NEW q \in Requests, NEW job \in Jobs,
           Backed(job), Start(q, job)
    PROVE  SessionTypes'
<1>1. /\ req' = [req EXCEPT ![q] = job]
      /\ UNCHANGED <<pw, weak, failed, lock, tokens, live, links,
                     chosen, resets, streak, ended, clash>>
  BY DEF Start, users, store, history
<1>2. req' \in [Requests -> Jobs \cup {Idle}]
  BY <1>1 DEF SessionTypes, TypeOK
<1>3. TypeOK' /\ Sessions'
  BY <1>1, <1>2 DEF SessionTypes, TypeOK, Accounts, Sessions
<1>4. ASSUME NEW p \in Requests, req'[p] # Idle
      PROVE  Backed(req[p])'
  <2>1. Backed(req'[p])
    BY <1>1, <1>4 DEF SessionTypes, TypeOK, Busy
  <2> QED
    BY <1>1, <2>1 DEF Backed, Accounts
<1> QED
  BY <1>3, <1>4 DEF SessionTypes, Busy

(* What a commit leaves in the slots and in the history.                   *)
LEMMA FinishEffect ==
    ASSUME SessionTypes, NEW q \in Requests, Busy(q), Finish(q)
    PROVE  /\ req' \in [Requests -> Jobs \cup {Idle}]
           /\ req'[q] = Idle
           /\ \A p \in Requests : p # q => req'[p] = req[p]
           /\ clash' \in [Users -> SUBSET Clashes]
           /\ \A v \in Users : clash[v] \subseteq clash'[v]
           /\ \A p \in Requests \ {q}, k \in Clashes :
                Busy(p) /\ req[p].user = req[q].user /\ Clash(k, req[q], req[p])
                    => k \in clash'[req[q].user]
<1> DEFINE u == req[q].user
           C == {k \in Clashes :
                    \E p \in Requests \ {q} : /\ req[p] # Idle
                                              /\ req[p].user = req[q].user
                                              /\ Clash(k, req[q], req[p])}
<1>1. u \in Users
  BY JobShape
<1>2. /\ req' = [req EXCEPT ![q] = Idle]
      /\ clash' = [clash EXCEPT ![u] = @ \cup C]
  BY DEF Finish
<1>3. clash \in [Users -> SUBSET Clashes] /\ C \subseteq Clashes
      /\ req \in [Requests -> Jobs \cup {Idle}]
  BY DEF SessionTypes, TypeOK
<1>4. /\ clash' \in [Users -> SUBSET Clashes]
      /\ \A v \in Users : clash[v] \subseteq clash'[v]
      /\ clash'[u] = clash[u] \cup C
  <2> HIDE DEF C, u
  <2> QED
    BY <1>1, <1>2, <1>3
<1>5. ASSUME NEW p \in Requests \ {q}, NEW k \in Clashes, Busy(p),
             req[p].user = u, Clash(k, req[q], req[p])
      PROVE  k \in clash'[u]
  BY <1>4, <1>5 DEF Busy
<1> QED
  BY <1>2, <1>3, <1>4, <1>5

(* The token that _issue_token_pair inserts.                               *)
LEMMA IssueEffect ==
    ASSUME SessionTypes, NEW u \in Users, NEW root \in Nat, NEW born \in Nat,
           tokens' = Issue(u, root, born),
           \/ root = Len(tokens) + 1
           \/ \E t \in DOMAIN tokens :
                 root = tokens[t].root /\ u = tokens[t].user
    PROVE  /\ tokens' \in Seq(TokenRows)
           /\ DOMAIN tokens' = DOMAIN tokens \cup {Len(tokens) + 1}
           /\ Len(tokens) + 1 \notin DOMAIN tokens
           /\ \A t \in DOMAIN tokens : tokens'[t] = tokens[t]
           /\ tokens'[Len(tokens) + 1].user = u
           /\ tokens'[Len(tokens) + 1].root = root
           /\ tokens'[Len(tokens) + 1].born = born
           /\ Sessions'
<1> DEFINE n == Len(tokens) + 1
           row == [user |-> u, root |-> root, born |-> born]
<1>1. tokens \in Seq(TokenRows) /\ Sessions
  BY DEF SessionTypes, TypeOK
<1>2. row \in TokenRows /\ row.user = u /\ row.root = root /\ row.born = born
  BY DEF TokenRows
<1>3. tokens' = Append(tokens, row)
  BY DEF Issue
<1> HIDE DEF row
<1>4. /\ tokens' \in Seq(TokenRows)
      /\ DOMAIN tokens' = DOMAIN tokens \cup {n}
      /\ n \notin DOMAIN tokens
      /\ \A t \in DOMAIN tokens : tokens'[t] = tokens[t]
      /\ tokens'[n] = row
  BY <1>1, <1>2, <1>3
<1> HIDE DEF n
<1>5. root \in DOMAIN tokens'
  BY <1>1, <1>4 DEF Sessions, n
<1>6. ASSUME NEW t \in DOMAIN tokens, tokens[t].root = root
      PROVE  tokens[t].user = u
  BY <1>1, <1>4, <1>6 DEF Sessions, n
<1>7. Sessions'
  <2>1. ASSUME NEW t \in DOMAIN tokens'
        PROVE  tokens'[t].root \in DOMAIN tokens'
    BY <1>1, <1>2, <1>4, <1>5 DEF Sessions
  <2>2. ASSUME NEW s \in DOMAIN tokens', NEW t \in DOMAIN tokens',
               tokens'[s].root = tokens'[t].root
        PROVE  tokens'[s].user = tokens'[t].user
    BY <1>1, <1>2, <1>4, <1>6, <2>2 DEF Sessions
  <2> QED
    BY <2>1, <2>2 DEF Sessions
<1> QED
  BY <1>2, <1>4, <1>7 DEF n

(* The other requests find what they name as long as accounts, tokens and  *)
(* links stay.                                                             *)
LEMMA OthersBacked ==
    ASSUME SessionTypes, NEW q \in Requests,
           req'[q] # Idle => Backed(req[q])',
           \A p \in Requests : p # q => req'[p] = req[p],
           Accounts \subseteq Accounts',
           \A t \in DOMAIN tokens :
              t \in DOMAIN tokens' /\ tokens'[t] = tokens[t],
           \A l \in DOMAIN links :
              l \in DOMAIN links' /\ links'[l].user = links[l].user
    PROVE  \A p \in Requests : Busy(p)' => Backed(req[p])'
<1> SUFFICES ASSUME NEW p \in Requests, req'[p] # Idle, p # q
             PROVE  Backed(req[p])'
  BY DEF Busy
<1>1. req'[p] = req[p] /\ Backed(req[p])
  BY DEF SessionTypes, Busy
<1> QED
  BY <1>1 DEF Backed

LinkStates == {"usable", "used", "expired"}

(* A reset token whose used_at or expiry is set.                           *)
LEMMA LinkEffect ==
    ASSUME SessionTypes, NEW l \in DOMAIN links, NEW state \in LinkStates,
           links' = [links EXCEPT ![l].state = state]
    PROVE  /\ links' \in Seq(LinkRows)
           /\ DOMAIN links' = DOMAIN links
           /\ links'[l].state = state
           /\ \A k \in DOMAIN links : links'[k].user = links[k].user
           /\ \A k \in DOMAIN links : k # l => links'[k] = links[k]
<1>1. links \in Seq(LinkRows) /\ links[l] \in LinkRows
  BY DEF SessionTypes, TypeOK
<1>2. PICK row \in LinkRows :
         row = [links[l] EXCEPT !.state = state]
  <2>1. \A link \in LinkRows : [link EXCEPT !.state = state] \in LinkRows
    BY DEF LinkRows, LinkStates
  <2> QED
    BY <1>1, <2>1
<1>3. row.user = links[l].user /\ row.state = state
  <2>1. \A link \in LinkRows :
          /\ [link EXCEPT !.state = state].user = link.user
          /\ [link EXCEPT !.state = state].state = state
    BY DEF LinkRows
  <2> QED
    BY <1>1, <1>2, <2>1
<1>4. links' = [links EXCEPT ![l] = row]
  BY <1>2
<1> QED
  BY <1>1, <1>3, <1>4

LEMMA FailSignInTypes ==
    ASSUME SessionTypes, NEW q \in Requests, FailSignIn(q)
    PROVE  SessionTypes'
<1> DEFINE u == req[q].user  n == req[q].failed + 1
<1>1. Busy(q) /\ req[q].op = "failure" /\ Finish(q)
  BY DEF FailSignIn, Doing, Busy
<1>2. u \in Users /\ n \in Nat /\ MaxFailed \in Nat
  BY <1>1, JobShape, SessionAssumption
<1>3. /\ failed' = [failed EXCEPT ![u] = IF LocksAt(n) THEN 0 ELSE n]
      /\ lock' = [lock EXCEPT ![u] = IF LocksAt(n) THEN "future" ELSE @]
      /\ streak' = [streak EXCEPT ![u] = IF LocksAt(n) THEN 0
                                         ELSE IF @ < MaxFailed THEN @ + 1 ELSE @]
      /\ UNCHANGED <<pw, weak, tokens, live, links, chosen, resets, ended>>
  BY DEF FailSignIn, store
<1> HIDE DEF u, n
<1>4. /\ failed' \in [Users -> 0 .. MaxFailed - 1]
      /\ lock' \in [Users -> LockTimes]
      /\ streak' \in [Users -> 0 .. MaxFailed]
  <2>1. /\ failed \in [Users -> 0 .. MaxFailed - 1]
        /\ lock \in [Users -> LockTimes]
        /\ streak \in [Users -> 0 .. MaxFailed]
        /\ MaxFailed > 0
    BY SessionAssumption DEF SessionTypes, TypeOK
  <2>2. (IF LocksAt(n) THEN 0 ELSE n) \in 0 .. MaxFailed - 1
    BY <1>2, <2>1 DEF LocksAt
  <2>3. (IF LocksAt(n) THEN "future" ELSE lock[u]) \in LockTimes
    BY <1>2, <2>1 DEF LockTimes
  <2>4. (IF LocksAt(n) THEN 0
         ELSE IF streak[u] < MaxFailed THEN streak[u] + 1 ELSE streak[u])
           \in 0 .. MaxFailed
    BY <1>2, <2>1
  <2> QED
    BY <1>2, <1>3, <2>1, <2>2, <2>3, <2>4
<1>5. TypeOK' /\ Sessions'
  BY <1>1, <1>3, <1>4, FinishEffect
     DEF SessionTypes, TypeOK, Accounts, Sessions
<1>6. \A p \in Requests : Busy(p)' => Backed(req[p])'
  BY <1>1, <1>3, FinishEffect, OthersBacked DEF Accounts
<1> QED
  BY <1>5, <1>6 DEF SessionTypes

LEMMA CompleteSignInTypes ==
    ASSUME SessionTypes, NEW q \in Requests, CompleteSignIn(q)
    PROVE  SessionTypes'
<1> DEFINE u == req[q].user
<1>1. Busy(q) /\ req[q].op = "signin" /\ Finish(q)
  BY DEF CompleteSignIn, Doing, Busy
<1>2. /\ u \in Users /\ req[q].pw \in Passwords /\ req[q].born \in Nat
      /\ MaxFailed \in Nat /\ MaxFailed > 0
  BY <1>1, JobShape, SessionAssumption
<1>3. /\ pw' = [pw EXCEPT ![u] = req[q].pw] \/ pw' = pw
      /\ weak' \subseteq weak
      /\ failed' = [failed EXCEPT ![u] = 0] \/ failed' = failed
      /\ lock' = [lock EXCEPT ![u] = "none"] \/ lock' = lock
      /\ tokens' = Issue(u, Len(tokens) + 1, req[q].born)
      /\ live' = live \cup {Len(tokens) + 1}
      /\ streak' = [streak EXCEPT ![u] = 0]
      /\ UNCHANGED <<links, chosen, resets, ended>>
  BY DEF CompleteSignIn
<1> HIDE DEF u
<1>4. /\ pw' \in [Users -> Passwords \cup {NoPassword}]
      /\ Accounts \subseteq Accounts'
      /\ failed' \in [Users -> 0 .. MaxFailed - 1]
      /\ lock' \in [Users -> LockTimes]
      /\ streak' \in [Users -> 0 .. MaxFailed]
  <2>1. /\ pw' \in [Users -> Passwords \cup {NoPassword}]
        /\ Accounts \subseteq Accounts'
    BY <1>2, <1>3, SessionAssumption DEF SessionTypes, TypeOK, Accounts
  <2>2. failed' \in [Users -> 0 .. MaxFailed - 1]
    <3>1. failed \in [Users -> 0 .. MaxFailed - 1] /\ 0 \in 0 .. MaxFailed - 1
      BY <1>2 DEF SessionTypes, TypeOK
    <3>2. \A n \in 0 .. MaxFailed - 1 :
             [failed EXCEPT ![u] = n] \in [Users -> 0 .. MaxFailed - 1]
      BY <3>1
    <3> QED
      BY <1>3, <3>1, <3>2
  <2>3. lock' \in [Users -> LockTimes]
    BY <1>2, <1>3 DEF SessionTypes, TypeOK, LockTimes
  <2>4. streak' \in [Users -> 0 .. MaxFailed]
    BY <1>2, <1>3 DEF SessionTypes, TypeOK
  <2> QED
    BY <2>1, <2>2, <2>3, <2>4
<1>5. Len(tokens) + 1 \in Nat
  BY DEF SessionTypes, TypeOK
<1>6. /\ tokens' \in Seq(TokenRows)
      /\ DOMAIN tokens' = DOMAIN tokens \cup {Len(tokens) + 1}
      /\ \A t \in DOMAIN tokens : tokens'[t] = tokens[t]
      /\ Sessions'
  BY <1>2, <1>3, <1>5, IssueEffect
<1>7. TypeOK'
  BY <1>1, <1>3, <1>4, <1>6, FinishEffect DEF SessionTypes, TypeOK
<1>8. \A p \in Requests : Busy(p)' => Backed(req[p])'
  BY <1>1, <1>3, <1>4, <1>6, FinishEffect, OthersBacked
<1> QED
  BY <1>6, <1>7, <1>8 DEF SessionTypes

LEMMA RefreshTypes ==
    ASSUME SessionTypes, NEW q \in Requests, Refresh(q)
    PROVE  SessionTypes'
<1> DEFINE t == req[q].token
<1>1. Busy(q) /\ req[q].op = "refresh" /\ Finish(q)
  BY DEF Refresh, Doing, Busy
<1>2. /\ req[q].user \in Users /\ t \in DOMAIN tokens
      /\ tokens[t].user = req[q].user
  BY <1>1, JobShape DEF Backed
<1>3. /\ tokens' = Issue(req[q].user, tokens[t].root, tokens[t].born)
      /\ live' = Rotated(t, Len(tokens) + 1)
      /\ UNCHANGED <<pw, weak, failed, lock, links, chosen, resets,
                     streak, ended>>
  BY DEF Refresh, users
<1> HIDE DEF t
<1>4. tokens[t].root \in Nat /\ tokens[t].born \in Nat
  BY <1>2, RowShape
<1>5. /\ tokens' \in Seq(TokenRows)
      /\ DOMAIN tokens' = DOMAIN tokens \cup {Len(tokens) + 1}
      /\ \A s \in DOMAIN tokens : tokens'[s] = tokens[s]
      /\ Sessions'
  BY <1>2, <1>3, <1>4, IssueEffect
<1>6. TypeOK'
  BY <1>1, <1>3, <1>5, FinishEffect
     DEF SessionTypes, TypeOK, Accounts, Rotated
<1>7. \A p \in Requests : Busy(p)' => Backed(req[p])'
  BY <1>1, <1>3, <1>5, FinishEffect, OthersBacked DEF Accounts
<1> QED
  BY <1>5, <1>6, <1>7 DEF SessionTypes

LEMMA SignOutTypes ==
    ASSUME SessionTypes, NEW q \in Requests, SignOut(q)
    PROVE  SessionTypes'
<1>1. Busy(q) /\ req[q].op = "signout" /\ Finish(q)
  BY DEF SignOut, Doing, Busy
<1>2. req[q].token \in DOMAIN tokens
  BY <1>1, JobShape DEF Backed
<1>3. /\ live' \subseteq live
      /\ ended' = ended \cup {tokens[req[q].token].root}
      /\ UNCHANGED <<pw, weak, failed, lock, tokens, links, chosen, resets,
                     streak>>
  BY DEF SignOut, users
<1>4. TypeOK' /\ Sessions'
  <2>1. ended' \subseteq DOMAIN tokens'
    BY <1>2, <1>3 DEF SessionTypes, TypeOK, Sessions
  <2> QED
    BY <1>1, <1>3, <2>1, FinishEffect
       DEF SessionTypes, TypeOK, Accounts, Sessions
<1>5. \A p \in Requests : Busy(p)' => Backed(req[p])'
  BY <1>1, <1>3, FinishEffect, OthersBacked DEF Accounts
<1> QED
  BY <1>4, <1>5 DEF SessionTypes

LEMMA CompleteResetTypes ==
    ASSUME SessionTypes, NEW q \in Requests, CompleteReset(q)
    PROVE  SessionTypes'
<1> DEFINE u == req[q].user  l == req[q].link
<1>1. Busy(q) /\ req[q].op = "reset" /\ Finish(q)
  BY DEF CompleteReset, Doing, Busy
<1>2. u \in Users /\ req[q].pw \in Passwords /\ l \in DOMAIN links
  BY <1>1, JobShape DEF Backed
<1>3. /\ pw' = [pw EXCEPT ![u] = req[q].pw]
      /\ weak' \subseteq weak
      /\ links' = [links EXCEPT ![l].state = "used"]
      /\ live' \subseteq live
      /\ chosen' = [chosen EXCEPT ![u] = req[q].pw]
      /\ resets' = [resets EXCEPT ![u] = @ + 1]
      /\ UNCHANGED <<failed, lock, tokens, streak, ended>>
  BY DEF CompleteReset
<1> HIDE DEF u, l
<1>4. /\ pw' \in [Users -> Passwords \cup {NoPassword}]
      /\ chosen' \in [Users -> Passwords \cup {NoPassword}]
      /\ resets' \in [Users -> Nat]
      /\ Accounts \subseteq Accounts'
  BY <1>2, <1>3, SessionAssumption DEF SessionTypes, TypeOK, Accounts
<1>5. /\ links' \in Seq(LinkRows) /\ DOMAIN links' = DOMAIN links
      /\ \A k \in DOMAIN links : links'[k].user = links[k].user
  BY <1>2, <1>3, LinkEffect DEF LinkStates
<1>6. TypeOK' /\ Sessions'
  BY <1>1, <1>3, <1>4, <1>5, FinishEffect DEF SessionTypes, TypeOK, Sessions
<1>7. \A p \in Requests : Busy(p)' => Backed(req[p])'
  BY <1>1, <1>3, <1>4, <1>5, FinishEffect, OthersBacked
<1> QED
  BY <1>6, <1>7 DEF SessionTypes

(* What the statement of _revoke_all_refresh_tokens does.                  *)
LEMMA RevokeAllEffect ==
    ASSUME SessionTypes, NEW q \in Requests, RevokeAll(q)
    PROVE  /\ Busy(q) /\ req[q].op = "reset"
           /\ req' \in [Requests -> Jobs \cup {Idle}]
           /\ Busy(q)' /\ req'[q].op = "reset" /\ req'[q].swept
           /\ req'[q].user = req[q].user /\ req'[q].link = req[q].link
           /\ req'[q].pw = req[q].pw /\ req'[q].rows = LiveOf(req[q].user)
           /\ \A p \in Requests : p # q => req'[p] = req[p]
           /\ UNCHANGED <<pw, weak, failed, lock, tokens, live, links,
                          chosen, resets, streak, ended, clash>>
<1> DEFINE R == LiveOf(req[q].user)
<1>1. Busy(q) /\ req[q].op = "reset" /\ req[q] \in ResetJobs
  BY JobShape DEF RevokeAll, Doing, Busy
<1>2. R \in SUBSET Nat
  BY DEF LiveOf, SessionTypes, TypeOK
<1>3. req' = [req EXCEPT ![q].swept = TRUE, ![q].rows = R]
  BY DEF RevokeAll, ToRevoke
<1> HIDE DEF R
<1>4. PICK j \in ResetJobs : j = [req[q] EXCEPT !.swept = TRUE, !.rows = R]
  <2>1. \A k \in ResetJobs : [k EXCEPT !.swept = TRUE, !.rows = R] \in ResetJobs
    BY <1>2 DEF ResetJobs
  <2> QED
    BY <1>1, <2>1
<1>5. /\ j.op = "reset" /\ j.swept /\ j.rows = R
      /\ j.user = req[q].user /\ j.link = req[q].link /\ j.pw = req[q].pw
  <2>1. \A k \in ResetJobs :
          LET new == [k EXCEPT !.swept = TRUE, !.rows = R]
          IN  /\ new.op = "reset" /\ new.swept /\ new.rows = R
              /\ new.user = k.user /\ new.link = k.link /\ new.pw = k.pw
    BY DEF ResetJobs
  <2> QED
    BY <1>1, <1>4, <2>1
<1>6. req \in [Requests -> Jobs \cup {Idle}]
  BY DEF SessionTypes, TypeOK
<1>7. req' = [req EXCEPT ![q] = j]
  BY <1>3, <1>4, <1>6
<1>8. j \in Jobs /\ j # Idle
  BY SlotAssumption DEF Jobs
<1>9. UNCHANGED <<pw, weak, failed, lock, tokens, live, links,
                  chosen, resets, streak, ended, clash>>
  BY DEF RevokeAll, users, store, history
<1> QED
  BY <1>1, <1>5, <1>6, <1>7, <1>8, <1>9 DEF R, Busy

LEMMA RevokeAllTypes ==
    ASSUME SessionTypes, NEW q \in Requests, RevokeAll(q)
    PROVE  SessionTypes'
<1>1. TypeOK' /\ Sessions'
  <2>1. /\ req' \in [Requests -> Jobs \cup {Idle}]
        /\ UNCHANGED <<pw, weak, failed, lock, tokens, live, links,
                       chosen, resets, streak, ended, clash>>
    BY RevokeAllEffect
  <2> QED
    BY <2>1 DEF SessionTypes, TypeOK, Accounts, Sessions
<1>2. Backed(req[q])'
  BY RevokeAllEffect, JobShape DEF Backed
<1>3. \A p \in Requests : Busy(p)' => Backed(req[p])'
  BY <1>2, RevokeAllEffect, OthersBacked DEF Accounts
<1> QED
  BY <1>1, <1>3 DEF SessionTypes

(* The jobs that requests start with.                                      *)
LEMMA SignInStarts ==
    ASSUME SessionTypes, NEW q \in Requests, NEW u \in Users,
           NEW p \in Passwords, SignIn(q, u, p)
    PROVE  \E job \in Jobs :
              /\ Start(q, job) /\ Backed(job) /\ job.user = u
              /\ u \in Accounts /\ lock[u] # "future"
              /\ \/ job.op = "failure" /\ job.failed = failed[u]
                 \/ /\ job.op = "signin" /\ job.pw = pw[u]
                    /\ job.born = resets[u]
<1>1. u \in Accounts /\ lock[u] # "future"
  BY DEF SignIn, Admitted
<1>2. failed[u] \in Nat /\ resets[u] \in Nat
  BY SessionAssumption DEF SessionTypes, TypeOK
<1>3. CASE Verified(u, p)
  <2> DEFINE job == [op |-> "signin", user |-> u, pw |-> p,
                     rehash |-> u \in weak, counted |-> failed[u] # 0,
                     locked |-> lock[u] # "none", born |-> resets[u]]
  <2>1. job \in SignInJobs /\ Start(q, job) /\ p = pw[u]
    BY <1>2, <1>3 DEF SignIn, SignInJobs, Verified
  <2>2. job.op = "signin" /\ job.user = u /\ job.pw = p
        /\ job.born = resets[u]
    OBVIOUS
  <2> HIDE DEF job
  <2> QED
    BY <1>1, <2>1, <2>2 DEF Jobs, Backed
<1>4. CASE ~Verified(u, p)
  <2> DEFINE job == [op |-> "failure", user |-> u, failed |-> failed[u]]
  <2>1. job \in FailedJobs /\ Start(q, job)
    BY <1>2, <1>4 DEF SignIn, FailedJobs
  <2>2. job.op = "failure" /\ job.user = u /\ job.failed = failed[u]
    OBVIOUS
  <2> HIDE DEF job
  <2> QED
    BY <1>1, <2>1, <2>2 DEF Jobs, Backed
<1> QED
  BY <1>3, <1>4

LEMMA PresentStarts ==
    ASSUME SessionTypes, NEW q \in Requests, NEW t \in live,
           NEW op \in {"refresh", "signout"}, Present(q, op, t)
    PROVE  \E job \in Jobs :
              /\ Start(q, job) /\ Backed(job) /\ job.user = tokens[t].user
              /\ job.op = op /\ job.token = t
<1> DEFINE job == [op |-> op, user |-> tokens[t].user, token |-> t]
<1>1. t \in DOMAIN tokens /\ t \in Nat /\ tokens[t].user \in Users
  <2>1. t \in DOMAIN tokens
    BY DEF SessionTypes, TypeOK
  <2> QED
    BY <2>1, RowShape
<1>2. job \in TokenJobs
  BY <1>1 DEF TokenJobs
<1>3. Start(q, job)
  BY DEF Present
<1>4. job.op = op /\ job.user = tokens[t].user /\ job.token = t
  OBVIOUS
<1> HIDE DEF job
<1> QED
  BY <1>1, <1>2, <1>3, <1>4 DEF Jobs, Backed

LEMMA ResetStarts ==
    ASSUME SessionTypes, NEW q \in Requests, NEW l \in DOMAIN links,
           NEW p \in Passwords, BeginReset(q, l, p)
    PROVE  \E job \in Jobs :
              /\ Start(q, job) /\ Backed(job) /\ job.user = links[l].user
              /\ job.op = "reset" /\ job.link = l /\ ~job.swept
              /\ links[l].state = "usable"
<1> DEFINE job == [op |-> "reset", user |-> links[l].user, link |-> l,
                   pw |-> p, swept |-> FALSE, rows |-> {}]
<1>1. l \in Nat /\ links[l].user \in Users
  BY RowShape
<1>2. job \in ResetJobs
  BY <1>1 DEF ResetJobs
<1>3. Start(q, job) /\ links[l].state = "usable"
  BY DEF BeginReset, Acceptable
<1>4. /\ job.op = "reset" /\ job.user = links[l].user /\ job.link = l
      /\ ~job.swept
  OBVIOUS
<1> HIDE DEF job
<1> QED
  BY <1>2, <1>3, <1>4 DEF Jobs, Backed

(* A request that starts has read what is true at that moment.             *)
Starts(q, job) ==
    /\ Start(q, job) /\ Backed(job) /\ job.user \in Users
    /\ job.op = "failure" => job.failed = failed[job.user]
    /\ job.op = "signin" =>
         /\ job.pw = pw[job.user] /\ job.born = resets[job.user]
         /\ lock[job.user] # "future"
    /\ job.op \in {"refresh", "signout"} => job.token \in live
    /\ job.op = "reset" => ~job.swept /\ links[job.link].state = "usable"

(* Time goes by, a hash policy changes, a link is sent, a request fails.   *)
Quiet ==
    /\ UNCHANGED <<pw, failed, tokens, chosen, resets, streak, ended, clash>>
    /\ weak' \subseteq Accounts
    /\ \A u \in Users : lock'[u] = lock[u] \/ lock'[u] = "past"
    /\ lock' \in [Users -> LockTimes]
    /\ live' \subseteq live
    /\ req' \in [Requests -> Jobs \cup {Idle}]
    /\ \A p \in Requests : req'[p] \in {req[p], Idle}
    /\ links' \in Seq(LinkRows)
    /\ \A l \in DOMAIN links :
          /\ l \in DOMAIN links' /\ links'[l].user = links[l].user
          /\ links'[l].state = "used" <=> links[l].state = "used"

Commits(q) ==
    FailSignIn(q) \/ CompleteSignIn(q) \/ Refresh(q) \/ SignOut(q)
        \/ CompleteReset(q)

LEMMA QuietSteps ==
    ASSUME SessionTypes,
           \/ UNCHANGED vars
           \/ RaiseHashPolicy
           \/ \E u \in Users : LockElapses(u) \/ RequestReset(u)
           \/ \E t \in live : ExpireToken(t)
           \/ \E l \in DOMAIN links : ExpireLink(l)
           \/ \E q \in Requests : Rollback(q)
    PROVE  Quiet
<1> USE DEF users, store, history
<1>1. /\ lock \in [Users -> LockTimes]
      /\ req \in [Requests -> Jobs \cup {Idle}]
      /\ links \in Seq(LinkRows) /\ weak \subseteq Accounts
  BY DEF SessionTypes, TypeOK
<1>2. CASE UNCHANGED vars
  BY <1>1, <1>2 DEF vars, Quiet
<1>3. CASE RaiseHashPolicy
  BY <1>1, <1>3 DEF RaiseHashPolicy, Quiet
<1>4. ASSUME NEW u \in Users, LockElapses(u)
      PROVE  Quiet
  BY <1>1, <1>4 DEF LockElapses, Quiet, LockTimes
<1>5. ASSUME NEW u \in Users, RequestReset(u)
      PROVE  Quiet
  <2> DEFINE link == [user |-> u, state |-> "usable"]
  <2>1. link \in LinkRows
    BY DEF LinkRows
  <2>2. links' = Append(links, link)
    BY <1>5 DEF RequestReset
  <2> HIDE DEF link
  <2>3. /\ links' \in Seq(LinkRows)
        /\ \A l \in DOMAIN links : l \in DOMAIN links' /\ links'[l] = links[l]
    BY <1>1, <2>1, <2>2
  <2> QED
    BY <1>1, <1>5, <2>3 DEF RequestReset, Quiet
<1>6. ASSUME NEW t \in live, ExpireToken(t)
      PROVE  Quiet
  BY <1>1, <1>6 DEF ExpireToken, Quiet
<1>7. ASSUME NEW l \in DOMAIN links, ExpireLink(l)
      PROVE  Quiet
  <2>1. links[l].state # "used" /\ "expired" \in LinkStates
    BY <1>7 DEF ExpireLink, LinkStates
  <2>2. links' = [links EXCEPT ![l].state = "expired"]
    BY <1>7 DEF ExpireLink
  <2>3. /\ links' \in Seq(LinkRows)
        /\ DOMAIN links' = DOMAIN links
        /\ links'[l].state = "expired"
        /\ \A k \in DOMAIN links : links'[k].user = links[k].user
        /\ \A k \in DOMAIN links : k # l => links'[k] = links[k]
    BY <2>1, <2>2, LinkEffect
  <2> QED
    BY <1>1, <1>7, <2>1, <2>3 DEF ExpireLink, Quiet
<1>8. ASSUME NEW q \in Requests, Rollback(q)
      PROVE  Quiet
  BY <1>1, <1>8 DEF Rollback, Quiet
<1> QED
  BY <1>2, <1>3, <1>4, <1>5, <1>6, <1>7, <1>8

(* Every step is one of these.                                             *)
LEMMA StepKinds ==
    ASSUME SessionTypes, [Next]_vars
    PROVE  \/ Quiet
           \/ \E u \in Users, p \in Passwords : SignUp(u, p)
           \/ \E q \in Requests : \E job \in Jobs : Starts(q, job)
           \/ \E q \in Requests : Commits(q) \/ RevokeAll(q)
<1>1. ASSUME NEW q \in Requests, NEW u \in Users, NEW p \in Passwords,
             SignIn(q, u, p)
      PROVE  \E job \in Jobs : Starts(q, job)
  BY <1>1, SignInStarts DEF Starts
<1>2. ASSUME NEW q \in Requests, NEW t \in live,
             NEW op \in {"refresh", "signout"}, Present(q, op, t)
      PROVE  \E job \in Jobs : Starts(q, job)
  <2>1. t \in DOMAIN tokens
    BY DEF SessionTypes, TypeOK
  <2> QED
    BY <1>2, <2>1, PresentStarts, RowShape DEF Starts
<1>3. ASSUME NEW q \in Requests, NEW l \in DOMAIN links,
             NEW p \in Passwords, BeginReset(q, l, p)
      PROVE  \E job \in Jobs : Starts(q, job)
  BY <1>3, ResetStarts, RowShape DEF Starts
<1> QED
  BY <1>1, <1>2, <1>3, QuietSteps DEF Next, Commits

LEMMA SessionTypesStep == SessionTypes /\ [Next]_vars => SessionTypes'
<1> SUFFICES ASSUME SessionTypes, [Next]_vars PROVE SessionTypes'
  OBVIOUS
<1>1. CASE Quiet
  <2>1. TypeOK' /\ Sessions'
    BY <1>1 DEF Quiet, SessionTypes, TypeOK, Sessions, Accounts
  <2>2. ASSUME NEW p \in Requests, Busy(p)'
        PROVE  Backed(req[p])'
    <3>1. Backed(req[p]) /\ req'[p] = req[p]
      BY <1>1, <2>2 DEF Quiet, SessionTypes, Busy
    <3> QED
      BY <1>1, <3>1 DEF Backed, Quiet, Accounts
  <2> QED
    BY <2>1, <2>2 DEF SessionTypes
<1>2. ASSUME NEW u \in Users, NEW p \in Passwords, SignUp(u, p)
      PROVE  SessionTypes'
  <2>1. /\ pw' = [pw EXCEPT ![u] = p] /\ chosen' = [chosen EXCEPT ![u] = p]
        /\ UNCHANGED <<weak, failed, lock, tokens, live, links, req,
                       resets, streak, ended, clash>>
    BY <1>2 DEF SignUp, store
  <2>2. /\ pw' \in [Users -> Passwords \cup {NoPassword}]
        /\ chosen' \in [Users -> Passwords \cup {NoPassword}]
        /\ Accounts \subseteq Accounts'
    BY <2>1, SessionAssumption DEF SessionTypes, TypeOK, Accounts
  <2>3. TypeOK' /\ Sessions'
    BY <2>1, <2>2 DEF SessionTypes, TypeOK, Sessions
  <2>4. \A q \in Requests : Busy(q)' => Backed(req[q])'
    BY <2>1, <2>2 DEF SessionTypes, Busy, Backed
  <2> QED
    BY <2>3, <2>4 DEF SessionTypes
<1>3. ASSUME NEW q \in Requests, NEW job \in Jobs, Starts(q, job)
      PROVE  SessionTypes'
  BY <1>3, StartEffect DEF Starts
<1>4. ASSUME NEW q \in Requests, Commits(q) \/ RevokeAll(q)
      PROVE  SessionTypes'
  BY <1>4, FailSignInTypes, CompleteSignInTypes, RefreshTypes, SignOutTypes,
     CompleteResetTypes, RevokeAllTypes DEF Commits
<1> QED
  BY <1>1, <1>2, <1>3, <1>4, StepKinds

(* Accounts, tokens, links and requests are well formed, and the counter   *)
(* of failures stays below the limit (services/auth_service.py).           *)
THEOREM SessionTypesHold == Spec => []TypeOK
<1>1. SessionTypes => TypeOK
  BY DEF SessionTypes
<1> QED
  BY <1>1, SessionTypesInit, SessionTypesStep, PTL DEF Spec

---------------------------------------------------------------------------
(* Overlaps                                                                *)

Job(q, op, u) == Busy(q) /\ req[q].op = op /\ req[q].user = u

(* A commit that another request on the same account is open to see.       *)
LEMMA Overlaps ==
    ASSUME SessionTypes, NEW q \in Requests, NEW p \in Requests, p # q,
           NEW u \in Users, Busy(q), req[q].user = u,
           Busy(p), req[p].user = u, Finish(q),
           NEW a, NEW b, a = req[q].op, b = req[p].op
    PROVE  /\ a = "failure" /\ b = "failure" => "failures" \in clash'[u]
           /\ a = "failure" /\ b = "signin" /\ req[p].locked
                 /\ LocksAt(req[q].failed + 1) => "lock" \in clash'[u]
           /\ a = "reset" /\ b = "signin" /\ req[p].rehash =>
                "password" \in clash'[u]
           /\ a = "reset" /\ b \in {"signin", "refresh"} =>
                "sessions" \in clash'[u]
           /\ a \in {"signin", "refresh"} /\ b = "reset" /\ req[p].swept =>
                "sessions" \in clash'[u]
           /\ {a, b} \in {{"refresh"}, {"refresh", "signout"}}
                 /\ req[p].token = req[q].token => "token" \in clash'[u]
           /\ a = "reset" /\ b = "reset" /\ req[p].link = req[q].link =>
                "link" \in clash'[u]
<1>1. ASSUME NEW k \in Clashes, Clash(k, req[q], req[p])
      PROVE  k \in clash'[u]
  BY <1>1, FinishEffect
<1>2. \A k \in {"failures", "lock", "password", "sessions", "token", "link"} :
          k \in Clashes
  BY DEF Clashes
<1> HIDE DEF Finish
<1> QED
  BY <1>1, <1>2 DEF Clash

LEMMA CommitEffect ==
    ASSUME SessionTypes, NEW q \in Requests, Commits(q)
    PROVE  /\ Busy(q) /\ req[q].user \in Users /\ Finish(q) /\ ~Busy(q)'
           /\ \A p \in Requests : p # q => req'[p] = req[p]
           /\ \A u \in Users : clash[u] \subseteq clash'[u]
<1>1. Busy(q) /\ Finish(q)
  BY DEF Commits, FailSignIn, CompleteSignIn, Refresh, SignOut,
         CompleteReset, Doing, Busy
<1> QED
  BY <1>1, FinishEffect, JobShape DEF Busy

---------------------------------------------------------------------------
(* The lockout                                                             *)

(* No failure in a row is missing from the counter, nor from what an open  *)
(* failing sign-in has read of it.                                         *)
Counted(u) ==
    "failures" \notin clash[u] =>
        /\ streak[u] <= failed[u]
        /\ \A q \in Requests :
              Job(q, "failure", u) => streak[u] <= req[q].failed

(* A sign-in that is open while the account is locked was admitted before  *)
(* the failure that locked it.  It lifts the lock only if it has read an   *)
(* earlier one.                                                            *)
AdmittedBefore(u) ==
    \A q \in Requests :
        Job(q, "signin", u) /\ req[q].locked /\ lock[u] = "future" =>
            "lock" \in clash[u]

LockInv ==
    SessionTypes /\ \A u \in Users : Counted(u) /\ AdmittedBefore(u)

LEMMA LockInit == Init => LockInv
  BY SessionTypesInit
     DEF Init, LockInv, Counted, AdmittedBefore, Job, Busy

LEMMA CountedStep ==
    ASSUME LockInv, SessionTypes', [Next]_vars, NEW u \in Users
    PROVE  Counted(u)'
<1> SUFFICES ASSUME "failures" \notin clash'[u]
             PROVE  /\ streak'[u] <= failed'[u]
                    /\ \A q \in Requests :
                          Job(q, "failure", u)' => streak'[u] <= req'[q].failed
  BY DEF Counted
<1> USE DEF Job
<1>0. SessionTypes /\ Counted(u)
  BY DEF LockInv
<1>1. /\ failed[u] \in Nat /\ failed[u] < MaxFailed /\ MaxFailed \in Nat
      /\ streak[u] \in Nat /\ failed'[u] \in Nat /\ streak'[u] \in Nat
  <2>1. MaxFailed \in Nat
    BY SessionAssumption
  <2> QED
    BY <1>0, <2>1 DEF SessionTypes, TypeOK
<1>2. CASE Quiet
  BY <1>0, <1>2 DEF Quiet, Counted, Busy
<1>3. ASSUME NEW v \in Users, NEW p \in Passwords, SignUp(v, p)
      PROVE  Counted(u)'
  BY <1>0, <1>3 DEF SignUp, Counted, Busy
<1>4. ASSUME NEW q \in Requests, NEW job \in Jobs, Starts(q, job)
      PROVE  Counted(u)'
  <2>1. /\ req' = [req EXCEPT ![q] = job]
        /\ UNCHANGED <<failed, streak, clash>>
    BY <1>4 DEF Starts, Start, users, history
  <2>2. req'[q] = job /\ \A p \in Requests : p # q => req'[p] = req[p]
    BY <1>0, <2>1 DEF SessionTypes, TypeOK
  <2>3. job.op = "failure" => job.failed = failed[job.user]
    BY <1>4 DEF Starts
  <2> QED
    BY <1>0, <2>1, <2>2, <2>3 DEF Counted, Busy
<1>5. ASSUME NEW q \in Requests, RevokeAll(q)
      PROVE  Counted(u)'
  BY <1>0, <1>5, RevokeAllEffect DEF Counted, Busy
<1>6. ASSUME NEW q \in Requests, Commits(q)
      PROVE  Counted(u)'
  <2>1. /\ Busy(q) /\ req[q].user \in Users /\ Finish(q) /\ ~Busy(q)'
        /\ \A p \in Requests : p # q => req'[p] = req[p]
        /\ "failures" \notin clash[u]
    BY <1>0, <1>6, CommitEffect
  <2>2. CASE failed'[u] = failed[u] /\ streak'[u] = streak[u]
    BY <1>0, <2>1, <2>2 DEF Counted, Busy
  <2>3. CASE streak'[u] = 0
    <3>1. \A p \in Requests : Job(p, "failure", u)' => req'[p].failed \in Nat
      BY <1>0, <2>1, JobShape DEF Busy
    <3> QED
      BY <1>1, <2>3, <3>1 DEF Counted
  <2>4. CASE FailSignIn(q) /\ req[q].user = u
    <3> DEFINE n == req[q].failed + 1
    <3>1. /\ failed'[u] = IF LocksAt(n) THEN 0 ELSE n
          /\ streak'[u] = IF LocksAt(n) THEN 0
                          ELSE IF streak[u] < MaxFailed THEN streak[u] + 1
                          ELSE streak[u]
      BY <1>0, <2>1, <2>4 DEF FailSignIn, SessionTypes, TypeOK
    <3>2. req[q].op = "failure" /\ req[q].failed \in Nat
      BY <1>0, <2>1, <2>4, JobShape DEF FailSignIn, Doing
    <3>3. streak[u] <= req[q].failed
      BY <1>0, <2>1, <2>4, <3>2 DEF Counted
    <3>4. ASSUME NEW p \in Requests, Job(p, "failure", u)'
          PROVE  FALSE
      BY <1>0, <2>1, <2>4, <3>2, <3>4, Overlaps DEF Busy
    <3>5. streak'[u] <= failed'[u]
      BY <1>1, <3>1, <3>2, <3>3
    <3> QED
      BY <3>4, <3>5 DEF Counted
  <2>5. CASE FailSignIn(q) /\ req[q].user # u
    BY <1>0, <2>1, <2>2, <2>5 DEF FailSignIn, SessionTypes, TypeOK
  <2>6. CASE CompleteSignIn(q)
    <3>1. CASE req[q].user = u
      BY <1>0, <2>3, <2>6, <3>1 DEF CompleteSignIn, SessionTypes, TypeOK
    <3>2. CASE req[q].user # u
      BY <1>0, <2>2, <2>6, <3>2 DEF CompleteSignIn, SessionTypes, TypeOK
    <3> QED
      BY <3>1, <3>2
  <2>7. CASE Refresh(q) \/ SignOut(q) \/ CompleteReset(q)
    BY <2>2, <2>7 DEF Refresh, SignOut, CompleteReset, users
  <2> QED
    BY <1>6, <2>4, <2>5, <2>6, <2>7 DEF Commits
<1> QED
  BY <1>0, <1>2, <1>3, <1>4, <1>5, <1>6, StepKinds DEF Counted

LEMMA AdmittedStep ==
    ASSUME LockInv, SessionTypes', [Next]_vars, NEW u \in Users
    PROVE  AdmittedBefore(u)'
<1> USE DEF Job
<1>0. SessionTypes /\ AdmittedBefore(u) /\ lock \in [Users -> LockTimes]
  BY DEF LockInv, SessionTypes, TypeOK
<1>1. CASE Quiet
  BY <1>0, <1>1 DEF Quiet, AdmittedBefore, Busy
<1>2. ASSUME NEW v \in Users, NEW p \in Passwords, SignUp(v, p)
      PROVE  AdmittedBefore(u)'
  BY <1>0, <1>2 DEF SignUp, AdmittedBefore, Busy
<1>3. ASSUME NEW q \in Requests, NEW job \in Jobs, Starts(q, job)
      PROVE  AdmittedBefore(u)'
  <2>1. /\ req' = [req EXCEPT ![q] = job]
        /\ UNCHANGED <<lock, clash>>
    BY <1>3 DEF Starts, Start, users, history
  <2>2. req'[q] = job /\ \A p \in Requests : p # q => req'[p] = req[p]
    BY <1>0, <2>1 DEF SessionTypes, TypeOK
  <2>3. job.op = "signin" => lock[job.user] # "future"
    BY <1>3 DEF Starts
  <2> QED
    BY <1>0, <2>1, <2>2, <2>3 DEF AdmittedBefore, Busy
<1>4. ASSUME NEW q \in Requests, RevokeAll(q)
      PROVE  AdmittedBefore(u)'
  BY <1>0, <1>4, RevokeAllEffect DEF AdmittedBefore, Busy
<1>5. ASSUME NEW q \in Requests, Commits(q)
      PROVE  AdmittedBefore(u)'
  <2>1. /\ Busy(q) /\ req[q].user \in Users /\ Finish(q) /\ ~Busy(q)'
        /\ \A p \in Requests : p # q => req'[p] = req[p]
        /\ clash[u] \subseteq clash'[u]
    BY <1>0, <1>5, CommitEffect
  <2>2. CASE lock'[u] \in {lock[u], "none"}
    BY <1>0, <2>1, <2>2 DEF AdmittedBefore, Busy
  <2>3. CASE FailSignIn(q) /\ req[q].user = u
    <3>1. req[q].op = "failure"
      BY <2>3 DEF FailSignIn, Doing
    <3>2. CASE LocksAt(req[q].failed + 1)
      <4>1. ASSUME NEW p \in Requests, Job(p, "signin", u)', req'[p].locked
            PROVE  "lock" \in clash'[u]
        BY <1>0, <2>1, <2>3, <3>1, <3>2, <4>1, Overlaps DEF Busy
      <4> QED
        BY <4>1 DEF AdmittedBefore
    <3>3. CASE ~LocksAt(req[q].failed + 1)
      BY <1>0, <2>2, <2>3, <3>3 DEF FailSignIn
    <3> QED
      BY <3>2, <3>3
  <2>4. CASE FailSignIn(q) /\ req[q].user # u
    BY <1>0, <2>1, <2>2, <2>4 DEF FailSignIn
  <2>5. CASE CompleteSignIn(q)
    BY <1>0, <2>1, <2>2, <2>5 DEF CompleteSignIn
  <2>6. CASE Refresh(q) \/ SignOut(q) \/ CompleteReset(q)
    BY <2>2, <2>6 DEF Refresh, SignOut, CompleteReset, users
  <2> QED
    BY <1>5, <2>3, <2>4, <2>5, <2>6 DEF Commits
<1> QED
  BY <1>0, <1>1, <1>2, <1>3, <1>4, <1>5, StepKinds

LEMMA LockStep == LockInv /\ [Next]_vars => LockInv'
<1> SUFFICES ASSUME LockInv, [Next]_vars PROVE LockInv'
  OBVIOUS
<1>1. SessionTypes'
  BY SessionTypesStep DEF LockInv
<1> QED
  BY <1>1, CountedStep, AdmittedStep DEF LockInv

(* auth_max_failed_logins failures in a row lock the account, unless two   *)
(* failing sign-ins overlapped (services/auth_service.py:315).             *)
THEOREM LocksInTime == Spec => []LockedInTime
<1>1. LockInv => LockedInTime
  <2> SUFFICES ASSUME LockInv, NEW u \in Users, "failures" \notin clash[u]
               PROVE  streak[u] < MaxFailed
    BY DEF LockedInTime
  <2>1. streak[u] <= failed[u]
    BY DEF LockInv, Counted
  <2>2. /\ failed[u] \in Nat /\ failed[u] < MaxFailed /\ streak[u] \in Nat
        /\ MaxFailed \in Nat
    <3>1. MaxFailed \in Nat
      BY SessionAssumption
    <3> QED
      BY <3>1 DEF LockInv, SessionTypes, TypeOK
  <2> QED
    BY <2>1, <2>2
<1> QED
  BY <1>1, LockInit, LockStep, PTL DEF Spec

(* A lock ends only with its time, unless the sign-in that lifts it found  *)
(* an expired lock and was open when a failure locked the account again    *)
(* (services/auth_service.py:157).                                         *)
THEOREM LocksStand == Spec => LockStands
<1> DEFINE Step == \A u \in Users : lock[u] = "future" /\ lock'[u] = "none"
                      => "lock" \in clash[u]
<1>1. LockInv /\ [Next]_vars => [Step]_vars
  <2> SUFFICES ASSUME LockInv, [Next]_vars, NEW u \in Users,
                      lock[u] = "future", lock'[u] = "none"
               PROVE  "lock" \in clash[u]
    OBVIOUS
  <2>0. SessionTypes /\ lock \in [Users -> LockTimes]
    BY DEF LockInv, SessionTypes, TypeOK
  <2>1. ~Quiet /\ ~UNCHANGED lock
    BY DEF Quiet
  <2>2. PICK q \in Requests : Commits(q)
    BY <2>0, <2>1, StepKinds, RevokeAllEffect
       DEF SignUp, Starts, Start, users
  <2>3. ~Refresh(q) /\ ~SignOut(q) /\ ~CompleteReset(q)
    BY <2>1 DEF Refresh, SignOut, CompleteReset, users
  <2>4. ~FailSignIn(q)
    BY <2>0 DEF FailSignIn
  <2>5. CompleteSignIn(q)
    BY <2>2, <2>3, <2>4 DEF Commits
  <2>6. Busy(q) /\ req[q].op = "signin" /\ req[q].user = u /\ req[q].locked
    BY <2>0, <2>1, <2>5 DEF CompleteSignIn, Doing, Busy
  <2> QED
    BY <2>6 DEF LockInv, AdmittedBefore, Job
<1> QED
  BY <1>1, LockInit, LockStep, PTL DEF Spec, LockStands

---------------------------------------------------------------------------
(* The password                                                            *)

(* Open sign-ins that will upgrade the hash have verified the password     *)
(* that was chosen last.                                                   *)
Chosen(u) ==
    "password" \notin clash[u] =>
        /\ pw[u] = chosen[u]
        /\ \A q \in Requests :
              Job(q, "signin", u) /\ req[q].rehash => req[q].pw = chosen[u]

PasswordInv == SessionTypes /\ \A u \in Users : Chosen(u)

LEMMA PasswordInit == Init => PasswordInv
  BY SessionTypesInit DEF Init, PasswordInv, Chosen, Job, Busy

LEMMA ChosenStep ==
    ASSUME PasswordInv, [Next]_vars, NEW u \in Users
    PROVE  Chosen(u)'
<1> USE DEF Job
<1>0. /\ SessionTypes /\ Chosen(u)
      /\ pw \in [Users -> Passwords \cup {NoPassword}]
      /\ chosen \in [Users -> Passwords \cup {NoPassword}]
  BY DEF PasswordInv, SessionTypes, TypeOK
<1>1. CASE Quiet
  BY <1>0, <1>1 DEF Quiet, Chosen, Busy
<1>2. ASSUME NEW v \in Users, NEW p \in Passwords, SignUp(v, p)
      PROVE  Chosen(u)'
  <2>1. /\ pw' = [pw EXCEPT ![v] = p] /\ chosen' = [chosen EXCEPT ![v] = p]
        /\ v \notin Accounts /\ UNCHANGED <<req, clash>>
    BY <1>2 DEF SignUp
  <2>2. CASE v = u
    <3>1. \A q \in Requests : ~Job(q, "signin", u)
      BY <1>0, <2>1, <2>2 DEF SessionTypes, Backed
    <3> QED
      BY <1>0, <2>1, <2>2, <3>1 DEF Chosen, Busy
  <2>3. CASE v # u
    BY <1>0, <2>1, <2>3 DEF Chosen, Busy
  <2> QED
    BY <2>2, <2>3
<1>3. ASSUME NEW q \in Requests, NEW job \in Jobs, Starts(q, job)
      PROVE  Chosen(u)'
  <2>1. /\ req' = [req EXCEPT ![q] = job]
        /\ UNCHANGED <<pw, chosen, clash>>
    BY <1>3 DEF Starts, Start, users, history
  <2>2. req'[q] = job /\ \A p \in Requests : p # q => req'[p] = req[p]
    BY <1>0, <2>1 DEF SessionTypes, TypeOK
  <2>3. job.op = "signin" => job.pw = pw[job.user]
    BY <1>3 DEF Starts
  <2> QED
    BY <1>0, <2>1, <2>2, <2>3 DEF Chosen, Busy
<1>4. ASSUME NEW q \in Requests, RevokeAll(q)
      PROVE  Chosen(u)'
  BY <1>0, <1>4, RevokeAllEffect DEF Chosen, Busy
<1>5. ASSUME NEW q \in Requests, Commits(q)
      PROVE  Chosen(u)'
  <2>0. SUFFICES ASSUME "password" \notin clash'[u]
                 PROVE  Chosen(u)'
    BY DEF Chosen
  <2>1. /\ Busy(q) /\ req[q].user \in Users /\ Finish(q) /\ ~Busy(q)'
        /\ \A p \in Requests : p # q => req'[p] = req[p]
        /\ "password" \notin clash[u]
    BY <1>0, <1>5, <2>0, CommitEffect
  <2>2. CASE pw'[u] = pw[u] /\ chosen'[u] = chosen[u]
    BY <1>0, <2>1, <2>2 DEF Chosen, Busy
  <2>3. CASE CompleteSignIn(q)
    <3>1. /\ req[q].op = "signin" /\ chosen' = chosen
          /\ pw' = IF req[q].rehash THEN [pw EXCEPT ![req[q].user] = req[q].pw]
                                   ELSE pw
      BY <2>3 DEF CompleteSignIn, Doing
    <3>2. req[q].user = u /\ req[q].rehash =>
             req[q].pw = chosen[u] /\ pw[u] = chosen[u]
      BY <1>0, <2>1, <3>1 DEF Chosen
    <3>3. pw'[u] = pw[u]
      BY <1>0, <2>1, <3>1, <3>2
    <3> QED
      BY <2>2, <3>1, <3>3
  <2>4. CASE CompleteReset(q)
    <3>1. /\ req[q].op = "reset"
          /\ pw' = [pw EXCEPT ![req[q].user] = req[q].pw]
          /\ chosen' = [chosen EXCEPT ![req[q].user] = req[q].pw]
      BY <2>4 DEF CompleteReset, Doing
    <3>2. CASE req[q].user # u
      BY <1>0, <2>1, <2>2, <3>1, <3>2
    <3>3. CASE req[q].user = u
      <4>1. ASSUME NEW p \in Requests, Job(p, "signin", u)', req'[p].rehash
            PROVE  FALSE
        BY <1>0, <2>0, <2>1, <3>1, <3>3, <4>1, Overlaps DEF Busy
      <4>2. pw'[u] = chosen'[u]
        BY <1>0, <3>1, <3>3
      <4> QED
        BY <4>1, <4>2 DEF Chosen
    <3> QED
      BY <3>2, <3>3
  <2>5. CASE FailSignIn(q) \/ Refresh(q) \/ SignOut(q)
    BY <2>2, <2>5 DEF FailSignIn, Refresh, SignOut, users
  <2> QED
    BY <1>5, <2>3, <2>4, <2>5 DEF Commits
<1> QED
  BY <1>0, <1>1, <1>2, <1>3, <1>4, <1>5, StepKinds

LEMMA PasswordStep == PasswordInv /\ [Next]_vars => PasswordInv'
  BY SessionTypesStep, ChosenStep DEF PasswordInv

(* The stored hash is that of the password chosen last, unless a sign-in   *)
(* that upgrades the hash was open when a reset committed                  *)
(* (services/auth_service.py:154).                                         *)
THEOREM PasswordsStand == Spec => []PasswordStands
<1>1. PasswordInv => PasswordStands
  BY DEF PasswordInv, PasswordStands, Chosen
<1> QED
  BY <1>1, PasswordInit, PasswordStep, PTL DEF Spec

---------------------------------------------------------------------------
(* Reset tokens                                                            *)

UsedLinks(u) == {l \in DOMAIN links : links[l].user = u /\ links[l].state = "used"}

(* Every completed reset has used a token, and an open one a fresh token.  *)
Spent(u) ==
    "link" \notin clash[u] =>
        /\ resets[u] <= Cardinality(UsedLinks(u))
        /\ \A q \in Requests :
              Job(q, "reset", u) => links[req[q].link].state # "used"

LinkInv == SessionTypes /\ \A u \in Users : Spent(u)

LEMMA UsedFinite ==
    ASSUME SessionTypes, NEW u
    PROVE  IsFiniteSet(UsedLinks(u)) /\ Cardinality(UsedLinks(u)) \in Nat
<1>1. Len(links) \in Nat /\ DOMAIN links = 1 .. Len(links)
  BY DEF SessionTypes, TypeOK
<1>2. IsFiniteSet(1 .. Len(links))
  BY <1>1, FS_Interval
<1> QED
  BY <1>1, <1>2, FS_Subset, FS_CardinalityType DEF UsedLinks

LEMMA LinkInit == Init => LinkInv
<1> SUFFICES ASSUME Init PROVE LinkInv
  OBVIOUS
<1>1. ASSUME NEW u \in Users PROVE Spent(u)
  <2>1. Cardinality(UsedLinks(u)) \in Nat
    BY SessionTypesInit, UsedFinite
  <2>2. resets[u] = 0
    BY DEF Init
  <2> QED
    BY <2>1, <2>2 DEF Init, Spent, Job, Busy
<1> QED
  BY <1>1, SessionTypesInit DEF LinkInv

(* Tokens that stay as they are, but for new ones and expired ones.        *)
LEMMA SameUsed ==
    ASSUME SessionTypes, SessionTypes', NEW u \in Users, resets' = resets,
           \A l \in DOMAIN links :
              /\ l \in DOMAIN links' /\ links'[l].user = links[l].user
              /\ links'[l].state = "used" <=> links[l].state = "used"
    PROVE  resets[u] <= Cardinality(UsedLinks(u)) =>
               resets'[u] <= Cardinality(UsedLinks(u)')
<1>1. UsedLinks(u) \subseteq UsedLinks(u)'
  BY DEF UsedLinks
<1>2. /\ IsFiniteSet(UsedLinks(u)') /\ Cardinality(UsedLinks(u)') \in Nat
      /\ IsFiniteSet(UsedLinks(u)) /\ Cardinality(UsedLinks(u)) \in Nat
  <2>1. Len(links') \in Nat /\ DOMAIN links' = 1 .. Len(links')
    BY DEF SessionTypes, TypeOK
  <2>2. IsFiniteSet(1 .. Len(links'))
    BY <2>1, FS_Interval
  <2> QED
    BY <2>1, <2>2, UsedFinite, FS_Subset, FS_CardinalityType DEF UsedLinks
<1>3. Cardinality(UsedLinks(u)) <= Cardinality(UsedLinks(u)')
  BY <1>1, <1>2, FS_Subset
<1>4. resets[u] \in Nat
  BY DEF SessionTypes, TypeOK
<1> QED
  BY <1>2, <1>3, <1>4

(* A completed reset has used one more token.                              *)
LEMMA SpentByReset ==
    ASSUME LinkInv, SessionTypes', NEW u \in Users, NEW q \in Requests,
           CompleteReset(q), "link" \notin clash'[u]
    PROVE  Spent(u)'
<1> DEFINE l == req[q].link
<1> USE DEF Job
<1>0. SessionTypes /\ Spent(u)
  BY DEF LinkInv
<1>1. /\ Busy(q) /\ req[q].user \in Users /\ Finish(q) /\ ~Busy(q)'
      /\ \A p \in Requests : p # q => req'[p] = req[p]
      /\ "link" \notin clash[u]
  BY <1>0, CommitEffect DEF Commits
<1>2. /\ req[q].op = "reset" /\ l \in DOMAIN links
      /\ links[l].user = req[q].user /\ "used" \in LinkStates
  BY <1>0, <1>1, JobShape DEF CompleteReset, Doing, Backed, LinkStates
<1>3. /\ links' = [links EXCEPT ![l].state = "used"]
      /\ resets' = [resets EXCEPT ![req[q].user] = @ + 1]
  BY DEF CompleteReset
<1>4. /\ DOMAIN links' = DOMAIN links
      /\ links'[l].state = "used"
      /\ \A k \in DOMAIN links : links'[k].user = links[k].user
      /\ \A k \in DOMAIN links : k # l => links'[k] = links[k]
  BY <1>0, <1>2, <1>3, LinkEffect
<1>5. resets \in [Users -> Nat] /\ Cardinality(UsedLinks(u)) \in Nat
      /\ IsFiniteSet(UsedLinks(u))
  BY <1>0, UsedFinite DEF SessionTypes, TypeOK
<1> HIDE DEF l
<1>6. CASE req[q].user = u
  <2>1. links[l].state # "used" /\ resets[u] <= Cardinality(UsedLinks(u))
    BY <1>0, <1>1, <1>2, <1>6 DEF Spent, l
  <2>2. UsedLinks(u)' = UsedLinks(u) \cup {l} /\ l \notin UsedLinks(u)
    BY <1>2, <1>4, <1>6, <2>1 DEF UsedLinks
  <2>3. Cardinality(UsedLinks(u)') = Cardinality(UsedLinks(u)) + 1
    BY <1>5, <2>2, FS_AddElement
  <2>4. resets'[u] = resets[u] + 1
    BY <1>1, <1>3, <1>5, <1>6
  <2>5. resets'[u] <= Cardinality(UsedLinks(u)')
    BY <1>5, <2>1, <2>3, <2>4
  <2>6. ASSUME NEW p \in Requests, Job(p, "reset", u)'
        PROVE  links'[req'[p].link].state # "used"
    <3>1. p # q /\ req'[p] = req[p] /\ Busy(p)
      BY <1>1, <2>6 DEF Busy
    <3>2. req[p].link # l
      BY <1>0, <1>1, <1>2, <1>6, <2>6, <3>1, Overlaps DEF l
    <3>3. req[p].link \in DOMAIN links
      BY <1>0, <2>6, <3>1, JobShape DEF Backed
    <3> QED
      BY <1>0, <1>1, <1>4, <2>6, <3>1, <3>2, <3>3 DEF Spent
  <2> QED
    BY <2>5, <2>6 DEF Spent
<1>7. CASE req[q].user # u
  <2>1. UsedLinks(u)' = UsedLinks(u)
    BY <1>2, <1>4, <1>7 DEF UsedLinks
  <2>2. resets'[u] = resets[u]
    BY <1>1, <1>3, <1>5, <1>7
  <2>3. ASSUME NEW p \in Requests, Job(p, "reset", u)'
        PROVE  links'[req'[p].link].state # "used"
    <3>1. p # q /\ req'[p] = req[p] /\ Busy(p)
      BY <1>1, <2>3 DEF Busy
    <3>2. req[p].link \in DOMAIN links /\ links[req[p].link].user = u
      BY <1>0, <2>3, <3>1, JobShape DEF Backed
    <3> QED
      BY <1>0, <1>1, <1>2, <1>4, <1>7, <2>3, <3>1, <3>2 DEF Spent
  <2> QED
    BY <1>0, <1>1, <2>1, <2>2, <2>3 DEF Spent
<1> QED
  BY <1>6, <1>7

LEMMA SpentStep ==
    ASSUME LinkInv, SessionTypes', [Next]_vars, NEW u \in Users
    PROVE  Spent(u)'
<1> USE DEF Job
<1>0. SessionTypes /\ Spent(u)
  BY DEF LinkInv
<1>1. ASSUME resets' = resets,
             clash[u] \subseteq clash'[u],
             \A l \in DOMAIN links :
                /\ l \in DOMAIN links' /\ links'[l].user = links[l].user
                /\ links'[l].state = "used" <=> links[l].state = "used",
             \A p \in Requests : Job(p, "reset", u)' =>
                \/ /\ Job(p, "reset", u) /\ req'[p].link = req[p].link
                \/ /\ req'[p].link \in DOMAIN links
                   /\ links[req'[p].link].state # "used"
      PROVE  Spent(u)'
  <2> SUFFICES ASSUME "link" \notin clash'[u]
               PROVE  Spent(u)'
    BY DEF Spent
  <2>1. /\ resets[u] <= Cardinality(UsedLinks(u))
        /\ \A q \in Requests :
              Job(q, "reset", u) => links[req[q].link].state # "used"
    BY <1>0, <1>1 DEF Spent
  <2>2. resets'[u] <= Cardinality(UsedLinks(u)')
    BY <1>0, <1>1, <2>1, SameUsed
  <2>3. ASSUME NEW p \in Requests, Job(p, "reset", u)
        PROVE  req[p].link \in DOMAIN links
    BY <1>0, <2>3, JobShape DEF Backed
  <2>4. ASSUME NEW p \in Requests, Job(p, "reset", u)'
        PROVE  links'[req'[p].link].state # "used"
    BY <1>1, <2>1, <2>3, <2>4
  <2> QED
    BY <2>2, <2>4 DEF Spent
<1>2. CASE Quiet
  BY <1>1, <1>2 DEF Quiet, Busy
<1>3. ASSUME NEW v \in Users, NEW p \in Passwords, SignUp(v, p)
      PROVE  Spent(u)'
  BY <1>1, <1>3 DEF SignUp, store, Busy
<1>4. ASSUME NEW q \in Requests, NEW job \in Jobs, Starts(q, job)
      PROVE  Spent(u)'
  <2>1. /\ req' = [req EXCEPT ![q] = job]
        /\ UNCHANGED <<links, resets, clash>>
    BY <1>4 DEF Starts, Start, store, history
  <2>2. req'[q] = job /\ \A p \in Requests : p # q => req'[p] = req[p]
    BY <1>0, <2>1 DEF SessionTypes, TypeOK
  <2>3. job.op = "reset" =>
          job.link \in DOMAIN links /\ links[job.link].state # "used"
    BY <1>4 DEF Starts, Backed
  <2> QED
    BY <1>1, <2>1, <2>2, <2>3 DEF Busy
<1>5. ASSUME NEW q \in Requests, RevokeAll(q)
      PROVE  Spent(u)'
  BY <1>0, <1>1, <1>5, RevokeAllEffect DEF Busy
<1>6. ASSUME NEW q \in Requests, Commits(q)
      PROVE  Spent(u)'
  <2>1. /\ ~Busy(q)' /\ clash[u] \subseteq clash'[u]
        /\ \A p \in Requests : p # q => req'[p] = req[p]
    BY <1>0, <1>6, CommitEffect
  <2>2. CASE CompleteReset(q)
    BY <2>2, SpentByReset DEF Spent
  <2>3. CASE ~CompleteReset(q)
    <3>1. links' = links /\ resets' = resets
      BY <1>6, <2>3
         DEF Commits, FailSignIn, CompleteSignIn, Refresh, SignOut, store
    <3> QED
      BY <1>1, <2>1, <3>1 DEF Busy
  <2> QED
    BY <2>2, <2>3
<1> QED
  BY <1>0, <1>2, <1>3, <1>4, <1>5, <1>6, StepKinds

LEMMA LinkStep == LinkInv /\ [Next]_vars => LinkInv'
  BY SessionTypesStep, SpentStep DEF LinkInv

(* Each reset token changes the password once, unless two resets presented *)
(* it at the same time (services/auth_service.py:224).                     *)
THEOREM LinksAreSingleUse == Spec => []LinkIsSingleUse
<1>1. LinkInv => LinkIsSingleUse
  BY DEF LinkInv, LinkIsSingleUse, Spent, UsedLinks
<1> QED
  BY <1>1, LinkInit, LinkStep, PTL DEF Spec

---------------------------------------------------------------------------
(* Sessions and resets                                                     *)

(* The sessions of an account, and those about to begin or go on, are      *)
(* younger than its last reset; a reset under way has seen all of them.    *)
Young(u) ==
    "sessions" \notin clash[u] =>
        /\ \A t \in LiveOf(u) : tokens[t].born = resets[u]
        /\ \A q \in Requests : Job(q, "signin", u) => req[q].born = resets[u]
        /\ \A q \in Requests :
              Job(q, "refresh", u) => tokens[req[q].token].born = resets[u]
        /\ \A q \in Requests :
              Job(q, "reset", u) /\ req[q].swept => LiveOf(u) \subseteq req[q].rows

YoungInv == SessionTypes /\ \A u \in Users : Young(u)

LEMMA YoungInit == Init => YoungInv
  BY SessionTypesInit DEF Init, YoungInv, Young, LiveOf, Job, Busy

(* Nothing begins and no reset completes.                                  *)
LEMMA YoungFrame ==
    ASSUME SessionTypes, NEW u \in Users, Young(u),
           resets'[u] = resets[u], clash[u] \subseteq clash'[u],
           LiveOf(u)' \subseteq LiveOf(u),
           \A t \in DOMAIN tokens : tokens'[t] = tokens[t],
           \A p \in Requests :
              req'[p] # req[p] /\ Busy(p)' /\ req'[p].user = u =>
                 /\ req'[p].op = "signin" => req'[p].born = resets[u]
                 /\ req'[p].op = "refresh" => req'[p].token \in LiveOf(u)
                 /\ req'[p].op = "reset" /\ req'[p].swept =>
                       LiveOf(u) \subseteq req'[p].rows
    PROVE  Young(u)'
<1> USE DEF Job
<1> SUFFICES ASSUME "sessions" \notin clash'[u] PROVE Young(u)'
  BY DEF Young
<1>1. /\ \A t \in LiveOf(u) : tokens[t].born = resets[u]
      /\ \A q \in Requests : Job(q, "signin", u) => req[q].born = resets[u]
      /\ \A q \in Requests :
            Job(q, "refresh", u) => tokens[req[q].token].born = resets[u]
      /\ \A q \in Requests :
            Job(q, "reset", u) /\ req[q].swept => LiveOf(u) \subseteq req[q].rows
  BY DEF Young
<1>2. \A t \in LiveOf(u) : t \in DOMAIN tokens
  BY DEF LiveOf, SessionTypes, TypeOK
<1>3. ASSUME NEW p \in Requests, Job(p, "refresh", u)
      PROVE  req[p].token \in DOMAIN tokens
  BY <1>3, JobShape DEF Backed
<1>4. \A t \in LiveOf(u)' : tokens'[t].born = resets'[u]
  BY <1>1, <1>2
<1>5. ASSUME NEW p \in Requests, Busy(p)', req'[p].user = u
      PROVE  /\ req'[p].op = "signin" => req'[p].born = resets'[u]
             /\ req'[p].op = "refresh" =>
                   tokens'[req'[p].token].born = resets'[u]
             /\ req'[p].op = "reset" /\ req'[p].swept =>
                   LiveOf(u)' \subseteq req'[p].rows
  <2>1. CASE req'[p] = req[p]
    BY <1>1, <1>3, <1>5, <2>1 DEF Busy
  <2>2. CASE req'[p] # req[p]
    BY <1>1, <1>2, <1>5, <2>2
  <2> QED
    BY <2>1, <2>2
<1> QED
  BY <1>4, <1>5 DEF Young

(* The token of a sign-in begins a session; that of a refresh continues    *)
(* the session of the token it has read.                                   *)
LEMMA Issued ==
    ASSUME SessionTypes, NEW q \in Requests, CompleteSignIn(q) \/ Refresh(q)
    PROVE  LET n == Len(tokens) + 1 IN
           /\ n \notin DOMAIN tokens
           /\ \A t \in DOMAIN tokens : tokens'[t] = tokens[t]
           /\ tokens'[n].user = req[q].user
           /\ CompleteSignIn(q) =>
                tokens'[n].root = n /\ tokens'[n].born = req[q].born
           /\ Refresh(q) =>
                /\ tokens'[n].root = tokens[req[q].token].root
                /\ tokens'[n].born = tokens[req[q].token].born
<1> DEFINE n == Len(tokens) + 1  t == req[q].token
<1>1. Busy(q) /\ req[q].user \in Users
  BY CommitEffect DEF Commits
<1>2. CASE CompleteSignIn(q)
  <2>1. /\ tokens' = Issue(req[q].user, n, req[q].born)
        /\ req[q].op = "signin" /\ n \in Nat /\ req[q].born \in Nat
    BY <1>1, <1>2, JobShape DEF CompleteSignIn, Doing, SessionTypes, TypeOK
  <2>2. ~Refresh(q)
    BY <2>1 DEF Refresh, Doing
  <2> HIDE DEF n
  <2> QED
    BY <1>1, <2>1, <2>2, IssueEffect DEF n
<1>3. CASE Refresh(q)
  <2>1. /\ tokens' = Issue(req[q].user, tokens[t].root, tokens[t].born)
        /\ req[q].op = "refresh" /\ t \in DOMAIN tokens
        /\ tokens[t].user = req[q].user
        /\ tokens[t].root \in Nat /\ tokens[t].born \in Nat
    BY <1>1, <1>3, JobShape, RowShape DEF Refresh, Doing, Backed
  <2>2. ~CompleteSignIn(q)
    BY <2>1 DEF CompleteSignIn, Doing
  <2> HIDE DEF t
  <2>3. /\ n \notin DOMAIN tokens
        /\ \A s \in DOMAIN tokens : tokens'[s] = tokens[s]
        /\ tokens'[n].user = req[q].user
        /\ tokens'[n].root = tokens[t].root
        /\ tokens'[n].born = tokens[t].born
    BY <1>1, <2>1, IssueEffect
  <2> QED
    BY <2>2, <2>3 DEF t
<1> QED
  BY <1>2, <1>3

(* A token begins or continues a session.                                  *)
LEMMA YoungByIssue ==
    ASSUME YoungInv, SessionTypes', NEW u \in Users, NEW q \in Requests,
           CompleteSignIn(q) \/ Refresh(q)
    PROVE  Young(u)'
<1> DEFINE n == Len(tokens) + 1
<1> USE DEF Job
<1>0. SessionTypes /\ Young(u)
  BY DEF YoungInv
<1>1. /\ Busy(q) /\ req[q].user \in Users /\ Finish(q) /\ ~Busy(q)'
      /\ \A p \in Requests : p # q => req'[p] = req[p]
      /\ clash[u] \subseteq clash'[u]
  BY <1>0, CommitEffect DEF Commits
<1>2. /\ resets' = resets /\ req[q].op \in {"signin", "refresh"}
      /\ live' \subseteq live \cup {n}
  BY DEF CompleteSignIn, Refresh, Doing, Rotated
<1>3. /\ n \notin DOMAIN tokens
      /\ \A t \in DOMAIN tokens : tokens'[t] = tokens[t]
      /\ tokens'[n].user = req[q].user
      /\ tokens'[n].born = IF req[q].op = "signin" THEN req[q].born
                           ELSE tokens[req[q].token].born
  BY <1>0, <1>2, Issued DEF CompleteSignIn, Refresh, Doing
<1> HIDE DEF n
<1>4. live \subseteq DOMAIN tokens
  BY <1>0 DEF SessionTypes, TypeOK
<1>5. CASE req[q].user # u
  <2>1. LiveOf(u)' \subseteq LiveOf(u)
    BY <1>2, <1>3, <1>4, <1>5 DEF LiveOf
  <2> QED
    BY <1>0, <1>1, <1>2, <1>3, <2>1, YoungFrame
<1>6. CASE req[q].user = u
  <2> SUFFICES ASSUME "sessions" \notin clash'[u] PROVE Young(u)'
    BY DEF Young
  <2>1. "sessions" \notin clash[u]
    BY <1>1
  <2>2. /\ \A t \in LiveOf(u) : tokens[t].born = resets[u]
        /\ \A p \in Requests : Job(p, "signin", u) => req[p].born = resets[u]
        /\ \A p \in Requests :
              Job(p, "refresh", u) => tokens[req[p].token].born = resets[u]
    BY <1>0, <2>1 DEF Young
  <2>3. \A t \in LiveOf(u)' : t = n \/ t \in LiveOf(u)
    BY <1>2, <1>3, <1>4 DEF LiveOf
  <2>4. tokens'[n].born = resets[u]
    BY <1>1, <1>2, <1>3, <1>6, <2>2
  <2>5. \A t \in LiveOf(u)' : tokens'[t].born = resets'[u]
    BY <1>2, <1>3, <1>4, <2>2, <2>3, <2>4 DEF LiveOf
  <2>6. ASSUME NEW p \in Requests, Busy(p)', req'[p].user = u
        PROVE  /\ req'[p].op = "signin" => req'[p].born = resets'[u]
               /\ req'[p].op = "refresh" =>
                     tokens'[req'[p].token].born = resets'[u]
               /\ ~(req'[p].op = "reset" /\ req'[p].swept)
    <3>1. p # q /\ req'[p] = req[p] /\ Busy(p)
      BY <1>1, <2>6 DEF Busy
    <3>2. req[p].op = "refresh" => req[p].token \in DOMAIN tokens
      BY <1>0, <3>1, JobShape DEF Backed
    <3>3. ~(req[p].op = "reset" /\ req[p].swept)
      BY <1>0, <1>1, <1>2, <1>6, <2>6, <3>1, Overlaps
    <3> QED
      BY <1>2, <1>3, <2>2, <2>6, <3>1, <3>2, <3>3
  <2> QED
    BY <2>5, <2>6 DEF Young
<1> QED
  BY <1>5, <1>6

(* A reset ends every session it has seen, and it has seen all of them.    *)
LEMMA YoungByReset ==
    ASSUME YoungInv, SessionTypes', NEW u \in Users, NEW q \in Requests,
           CompleteReset(q)
    PROVE  Young(u)'
<1> USE DEF Job
<1>0. SessionTypes /\ Young(u)
  BY DEF YoungInv
<1>1. /\ Busy(q) /\ req[q].user \in Users /\ Finish(q) /\ ~Busy(q)'
      /\ \A p \in Requests : p # q => req'[p] = req[p]
      /\ clash[u] \subseteq clash'[u]
  BY <1>0, CommitEffect DEF Commits
<1>2. /\ req[q].op = "reset" /\ req[q].swept
      /\ live' = live \ req[q].rows /\ tokens' = tokens
      /\ resets' = [resets EXCEPT ![req[q].user] = @ + 1]
      /\ resets \in [Users -> Nat]
  BY <1>0 DEF CompleteReset, Doing, SessionTypes, TypeOK
<1>3. CASE req[q].user # u
  <2>1. LiveOf(u)' \subseteq LiveOf(u) /\ resets'[u] = resets[u]
    BY <1>2, <1>3 DEF LiveOf
  <2> QED
    BY <1>0, <1>1, <1>2, <2>1, YoungFrame
<1>4. CASE req[q].user = u
  <2> SUFFICES ASSUME "sessions" \notin clash'[u] PROVE Young(u)'
    BY DEF Young
  <2>1. "sessions" \notin clash[u]
    BY <1>1
  <2>2. LiveOf(u) \subseteq req[q].rows
    BY <1>0, <1>1, <1>2, <1>4, <2>1 DEF Young
  <2>3. LiveOf(u)' = {}
    BY <1>2, <2>2 DEF LiveOf
  <2>4. ASSUME NEW p \in Requests, Busy(p)', req'[p].user = u
        PROVE  req'[p].op \notin {"signin", "refresh"}
    <3>1. p # q /\ req'[p] = req[p] /\ Busy(p)
      BY <1>1, <2>4 DEF Busy
    <3>2. req[p].op \in {"signin", "refresh"} => "sessions" \in clash'[u]
      BY <1>0, <1>1, <1>2, <1>4, <2>4, <3>1, Overlaps
    <3> QED
      BY <3>1, <3>2
  <2> QED
    BY <2>3, <2>4 DEF Young
<1> QED
  BY <1>3, <1>4

LEMMA YoungStep ==
    ASSUME YoungInv, SessionTypes', [Next]_vars, NEW u \in Users
    PROVE  Young(u)'
<1>0. SessionTypes /\ Young(u)
  BY DEF YoungInv
<1>1. CASE Quiet
  <2>1. LiveOf(u)' \subseteq LiveOf(u)
    BY <1>1 DEF Quiet, LiveOf
  <2> QED
    BY <1>0, <1>1, <2>1, YoungFrame DEF Quiet, Busy
<1>2. ASSUME NEW v \in Users, NEW p \in Passwords, SignUp(v, p)
      PROVE  Young(u)'
  <2>1. LiveOf(u)' \subseteq LiveOf(u)
    BY <1>2 DEF SignUp, store, LiveOf
  <2> QED
    BY <1>0, <1>2, <2>1, YoungFrame DEF SignUp, store
<1>3. ASSUME NEW q \in Requests, NEW job \in Jobs, Starts(q, job)
      PROVE  Young(u)'
  <2>1. /\ req' = [req EXCEPT ![q] = job]
        /\ UNCHANGED <<tokens, live, resets, clash>>
    BY <1>3 DEF Starts, Start, store, history
  <2>2. req'[q] = job /\ \A p \in Requests : p # q => req'[p] = req[p]
    BY <1>0, <2>1 DEF SessionTypes, TypeOK
  <2>3. LiveOf(u)' = LiveOf(u)
    BY <2>1 DEF LiveOf
  <2>4. /\ job.op = "refresh" /\ job.user = u => job.token \in LiveOf(u)
        /\ job.op = "signin" /\ job.user = u => job.born = resets[u]
        /\ job.op = "reset" => ~job.swept
    BY <1>3 DEF Starts, Backed, LiveOf
  <2> QED
    BY <1>0, <2>1, <2>2, <2>3, <2>4, YoungFrame
<1>4. ASSUME NEW q \in Requests, RevokeAll(q)
      PROVE  Young(u)'
  <2>1. LiveOf(u)' = LiveOf(u)
    BY <1>0, <1>4, RevokeAllEffect DEF LiveOf
  <2> QED
    BY <1>0, <1>4, <2>1, RevokeAllEffect, YoungFrame
<1>5. ASSUME NEW q \in Requests, FailSignIn(q) \/ SignOut(q)
      PROVE  Young(u)'
  <2>1. /\ ~Busy(q)' /\ clash[u] \subseteq clash'[u]
        /\ \A p \in Requests : p # q => req'[p] = req[p]
    BY <1>0, <1>5, CommitEffect DEF Commits
  <2>2. tokens' = tokens /\ resets' = resets /\ live' \subseteq live
    BY <1>5 DEF FailSignIn, SignOut, store
  <2>3. LiveOf(u)' \subseteq LiveOf(u)
    BY <2>2 DEF LiveOf
  <2> QED
    BY <1>0, <2>1, <2>2, <2>3, YoungFrame DEF Busy
<1>6. ASSUME NEW q \in Requests, Commits(q)
      PROVE  Young(u)'
  BY <1>5, <1>6, YoungByIssue, YoungByReset DEF Commits
<1> QED
  BY <1>0, <1>1, <1>2, <1>3, <1>4, <1>6, StepKinds

LEMMA YoungInvStep == YoungInv /\ [Next]_vars => YoungInv'
  BY SessionTypesStep, YoungStep DEF YoungInv

(* A completed reset leaves no older session, unless a sign-in or a        *)
(* refresh ran between its revocation and its commit                       *)
(* (services/auth_service.py:218-219).                                     *)
THEOREM SessionsEnd == Spec => []SessionsEndAtReset
<1>1. YoungInv => SessionsEndAtReset
  <2> SUFFICES ASSUME YoungInv, NEW t \in live,
                      "sessions" \notin clash[tokens[t].user]
               PROVE  tokens[t].born = resets[tokens[t].user]
    BY DEF SessionsEndAtReset
  <2>1. t \in DOMAIN tokens /\ tokens[t].user \in Users
    BY RowShape DEF YoungInv, SessionTypes, TypeOK
  <2> QED
    BY <2>1 DEF YoungInv, Young, LiveOf
<1> QED
  BY <1>1, YoungInit, YoungInvStep, PTL DEF Spec

---------------------------------------------------------------------------
(* Sessions and their tokens                                               *)

(* An active token of the account, or one that a refresh has read.         *)
Held(u) ==
    LiveOf(u) \cup {req[q].token : q \in {p \in Requests : Job(p, "refresh", u)}}

(* A session is held by one token, none of an ended session is held, and   *)
(* an open sign-out has read the one that holds its session.               *)
Exclusive(u) ==
    "token" \notin clash[u] =>
        /\ \A s \in Held(u) : tokens[s].root \notin ended
        /\ \A s, t \in Held(u) : tokens[s].root = tokens[t].root => s = t
        /\ \A q \in Requests : Job(q, "signout", u) =>
              \A s \in Held(u) :
                 tokens[s].root = tokens[req[q].token].root => s = req[q].token

TokenInv == SessionTypes /\ \A u \in Users : Exclusive(u)

LEMMA TokenInit == Init => TokenInv
<1> SUFFICES ASSUME Init PROVE TokenInv
  OBVIOUS
<1>1. ASSUME NEW u \in Users PROVE Held(u) = {}
  BY DEF Init, Held, LiveOf, Job, Busy
<1>2. ASSUME NEW u \in Users, NEW q \in Requests PROVE ~Job(q, "signout", u)
  BY DEF Init, Job, Busy
<1> QED
  BY <1>1, <1>2, SessionTypesInit DEF TokenInv, Exclusive

LEMMA HeldRows ==
    ASSUME SessionTypes, NEW u \in Users
    PROVE  /\ \A s \in Held(u) : s \in DOMAIN tokens /\ tokens[s].user = u
           /\ \A q \in Requests : Job(q, "signout", u) \/ Job(q, "refresh", u) =>
                 /\ req[q].token \in DOMAIN tokens
                 /\ tokens[req[q].token].user = u
<1>1. ASSUME NEW q \in Requests, Job(q, "signout", u) \/ Job(q, "refresh", u)
      PROVE  req[q].token \in DOMAIN tokens /\ tokens[req[q].token].user = u
  BY <1>1, JobShape DEF Job, Backed
<1>2. \A s \in LiveOf(u) : s \in DOMAIN tokens /\ tokens[s].user = u
  BY DEF LiveOf, SessionTypes, TypeOK
<1> QED
  BY <1>1, <1>2 DEF Held

(* What the requests and the tokens of an account hold after a step.       *)
LEMMA HeldAfter ==
    ASSUME NEW u \in Users, NEW New, LiveOf(u)' \subseteq LiveOf(u) \cup New,
           \A p \in Requests : Job(p, "refresh", u)' =>
              \/ Job(p, "refresh", u) /\ req'[p].token = req[p].token
              \/ req'[p].token \in LiveOf(u)
    PROVE  Held(u)' \subseteq Held(u) \cup New
BY DEF Held

(* No session begins, goes on or ends.                                     *)
LEMMA ExclusiveFrame ==
    ASSUME SessionTypes, NEW u \in Users, Exclusive(u),
           clash[u] \subseteq clash'[u], ended' = ended,
           Held(u)' \subseteq Held(u),
           \A t \in DOMAIN tokens : tokens'[t] = tokens[t],
           \A p \in Requests : Job(p, "signout", u)' =>
              \/ Job(p, "signout", u) /\ req'[p].token = req[p].token
              \/ req'[p].token \in LiveOf(u)
    PROVE  Exclusive(u)'
<1> SUFFICES ASSUME "token" \notin clash'[u] PROVE Exclusive(u)'
  BY DEF Exclusive
<1>1. /\ \A s \in Held(u) : tokens[s].root \notin ended
      /\ \A s, t \in Held(u) : tokens[s].root = tokens[t].root => s = t
      /\ \A q \in Requests : Job(q, "signout", u) =>
            \A s \in Held(u) :
               tokens[s].root = tokens[req[q].token].root => s = req[q].token
  BY DEF Exclusive
<1>2. \A s \in Held(u)' : s \in Held(u) /\ tokens'[s] = tokens[s]
  BY HeldRows
<1>3. ASSUME NEW p \in Requests, Job(p, "signout", u)', NEW s \in Held(u)',
             tokens'[s].root = tokens'[req'[p].token].root
      PROVE  s = req'[p].token
  <2>1. CASE Job(p, "signout", u) /\ req'[p].token = req[p].token
    <3>1. tokens'[req[p].token] = tokens[req[p].token]
      BY <2>1, HeldRows
    <3> QED
      BY <1>1, <1>2, <1>3, <2>1, <3>1
  <2>2. CASE req'[p].token \in LiveOf(u)
    <3>1. req'[p].token \in Held(u)
      BY <2>2 DEF Held
    <3>2. tokens'[req'[p].token] = tokens[req'[p].token]
      BY <3>1, HeldRows
    <3> QED
      BY <1>1, <1>2, <1>3, <3>1, <3>2
  <2> QED
    BY <1>3, <2>1, <2>2
<1>4. /\ \A s \in Held(u)' : tokens'[s].root \notin ended'
      /\ \A s, t \in Held(u)' : tokens'[s].root = tokens'[t].root => s = t
  BY <1>1, <1>2
<1> QED
  BY <1>3, <1>4 DEF Exclusive

(* A commit of another account.                                            *)
LEMMA ExclusiveByOther ==
    ASSUME TokenInv, SessionTypes', NEW u \in Users, NEW q \in Requests,
           Commits(q), req[q].user # u
    PROVE  Exclusive(u)'
<1> DEFINE n == Len(tokens) + 1
<1> USE DEF Job
<1>0. SessionTypes /\ Exclusive(u)
  BY DEF TokenInv
<1>1. /\ Busy(q) /\ req[q].user \in Users /\ ~Busy(q)'
      /\ \A p \in Requests : p # q => req'[p] = req[p]
      /\ clash[u] \subseteq clash'[u]
  BY <1>0, CommitEffect
<1>2. /\ \A p \in Requests : Job(p, "signout", u)' =>
            Job(p, "signout", u) /\ req'[p].token = req[p].token
      /\ \A p \in Requests : Job(p, "refresh", u)' =>
            Job(p, "refresh", u) /\ req'[p].token = req[p].token
  BY <1>1 DEF Busy
<1>3. live \subseteq DOMAIN tokens
  BY <1>0 DEF SessionTypes, TypeOK
<1>4. CASE FailSignIn(q) \/ CompleteReset(q)
  <2>1. tokens' = tokens /\ live' \subseteq live /\ ended' = ended
    BY <1>4 DEF FailSignIn, CompleteReset, store
  <2>2. LiveOf(u)' \subseteq LiveOf(u) \cup {}
    BY <2>1 DEF LiveOf
  <2>3. Held(u)' \subseteq Held(u) \cup {}
    BY <1>2, <2>2, HeldAfter
  <2> QED
    BY <1>0, <1>1, <1>2, <2>1, <2>3, ExclusiveFrame
<1>5. CASE CompleteSignIn(q) \/ Refresh(q)
  <2>1. live' \subseteq live \cup {n} /\ ended' = ended
    BY <1>5 DEF CompleteSignIn, Refresh, Rotated
  <2>2. /\ \A t \in DOMAIN tokens : tokens'[t] = tokens[t]
        /\ tokens'[n].user = req[q].user
    BY <1>0, <1>1, <1>5, Issued
  <2> HIDE DEF n
  <2>3. LiveOf(u)' \subseteq LiveOf(u) \cup {}
    BY <1>3, <2>1, <2>2 DEF LiveOf
  <2>4. Held(u)' \subseteq Held(u) \cup {}
    BY <1>2, <2>3, HeldAfter
  <2> QED
    BY <1>0, <1>1, <1>2, <2>1, <2>2, <2>4, ExclusiveFrame
<1>6. CASE SignOut(q)
  <2> DEFINE t == req[q].token
  <2>1. /\ tokens' = tokens /\ live' \subseteq live
        /\ ended' = ended \cup {tokens[t].root}
    BY <1>6 DEF SignOut
  <2>2. t \in DOMAIN tokens /\ tokens[t].user # u
    BY <1>0, <1>1, <1>6, JobShape DEF SignOut, Doing, Backed
  <2> HIDE DEF t
  <2>3. LiveOf(u)' \subseteq LiveOf(u) \cup {}
    BY <2>1 DEF LiveOf
  <2>4. Held(u)' \subseteq Held(u) \cup {}
    BY <1>2, <2>3, HeldAfter
  <2>5. \A s \in Held(u) : tokens[s].root # tokens[t].root
    BY <1>0, <2>2, HeldRows DEF SessionTypes, Sessions
  <2>6. ASSUME NEW p \in Requests, Job(p, "signout", u)'
        PROVE  Job(p, "signout", u) /\ tokens'[req'[p].token] = tokens[req[p].token]
    BY <1>2, <2>1, <2>6
  <2> QED
    BY <1>0, <1>1, <1>2, <2>1, <2>4, <2>5, <2>6 DEF Exclusive
<1> QED
  BY <1>4, <1>5, <1>6 DEF Commits

(* A sign-in or a refresh of the account itself.                           *)
LEMMA ExclusiveByIssue ==
    ASSUME TokenInv, SessionTypes', NEW u \in Users, NEW q \in Requests,
           CompleteSignIn(q) \/ Refresh(q), req[q].user = u
    PROVE  Exclusive(u)'
<1> DEFINE n == Len(tokens) + 1
<1> USE DEF Job
<1>0. SessionTypes /\ Exclusive(u)
  BY DEF TokenInv
<1>1. /\ Busy(q) /\ Finish(q) /\ ~Busy(q)'
      /\ \A p \in Requests : p # q => req'[p] = req[p]
      /\ clash[u] \subseteq clash'[u]
  BY <1>0, CommitEffect DEF Commits
<1> SUFFICES ASSUME "token" \notin clash'[u] PROVE Exclusive(u)'
  BY DEF Exclusive
<1>2. /\ \A s \in Held(u) : tokens[s].root \notin ended
      /\ \A s, t \in Held(u) : tokens[s].root = tokens[t].root => s = t
      /\ \A p \in Requests : Job(p, "signout", u) =>
            \A s \in Held(u) :
               tokens[s].root = tokens[req[p].token].root => s = req[p].token
  BY <1>0, <1>1 DEF Exclusive
<1>3. /\ ended' = ended /\ ended \subseteq DOMAIN tokens
      /\ \A s \in Held(u) : s \in DOMAIN tokens /\ tokens[s].root \in DOMAIN tokens
  BY <1>0, HeldRows
     DEF CompleteSignIn, Refresh, SessionTypes, TypeOK, Sessions
<1>4. ASSUME NEW p \in Requests,
             Job(p, "signout", u)' \/ Job(p, "refresh", u)'
      PROVE  /\ p # q /\ req'[p] = req[p] /\ Busy(p)
             /\ req[p].token \in DOMAIN tokens
             /\ tokens[req[p].token].root \in DOMAIN tokens
  <2>1. p # q /\ req'[p] = req[p] /\ Busy(p)
    BY <1>1, <1>4 DEF Busy
  <2> QED
    BY <1>0, <1>4, <2>1, HeldRows DEF SessionTypes, Sessions
<1>5. /\ n \notin DOMAIN tokens
      /\ \A s \in DOMAIN tokens : tokens'[s] = tokens[s]
      /\ CompleteSignIn(q) => tokens'[n].root = n
      /\ Refresh(q) => tokens'[n].root = tokens[req[q].token].root
  BY <1>0, Issued
<1>6. live' \subseteq live \cup {n}
  BY DEF CompleteSignIn, Refresh, Rotated
<1> HIDE DEF n
<1>7. LiveOf(u)' \subseteq LiveOf(u) \cup {n}
  <2>1. live \subseteq DOMAIN tokens
    BY <1>0 DEF SessionTypes, TypeOK
  <2> QED
    BY <1>5, <1>6, <2>1 DEF LiveOf
<1>8. Held(u)' \subseteq Held(u) \cup {n}
  BY <1>4, <1>7, HeldAfter
(* The root of the new token is not that of another that is held.          *)
<1>9. ASSUME NEW s \in Held(u)', s # n
      PROVE  s \in Held(u) /\ tokens'[n].root # tokens[s].root
  <2>1. s \in Held(u) /\ tokens[s].root \in DOMAIN tokens
    BY <1>3, <1>8, <1>9
  <2>2. CASE CompleteSignIn(q)
    BY <1>5, <2>1, <2>2
  <2>3. CASE Refresh(q)
    <3> DEFINE t == req[q].token
    <3>1. Job(q, "refresh", u) /\ t \in Held(u)
      BY <1>1, <2>3 DEF Refresh, Doing, Held
    <3>2. s # t
      <4>1. LiveOf(u)' \subseteq (LiveOf(u) \ {t}) \cup {n}
        <5>1. live' \subseteq (live \ {t}) \cup {n}
          BY <2>3 DEF Refresh, Rotated, n
        <5> QED
          BY <1>7, <5>1 DEF LiveOf
      <4>2. ASSUME NEW p \in Requests, Job(p, "refresh", u)'
            PROVE  req'[p].token # t
        <5>1. {"refresh", "refresh"} = {"refresh"}
          OBVIOUS
        <5> QED
          BY <1>0, <1>1, <1>4, <3>1, <4>2, <5>1, Overlaps
      <4>3. s \in LiveOf(u)' \/ \E p \in Requests :
                Job(p, "refresh", u)' /\ s = req'[p].token
        BY <1>9 DEF Held
      <4> QED
        BY <1>9, <4>1, <4>2, <4>3
    <3> HIDE DEF t
    <3>3. tokens'[n].root = tokens[t].root
      BY <1>5, <2>3 DEF t
    <3> QED
      BY <1>2, <2>1, <3>1, <3>2, <3>3
  <2> QED
    BY <2>2, <2>3
<1>10. tokens'[n].root \notin ended'
  <2>1. CASE CompleteSignIn(q)
    BY <1>3, <1>5, <2>1
  <2>2. CASE Refresh(q)
    <3>1. req[q].token \in Held(u)
      BY <1>1, <2>2 DEF Refresh, Doing, Held
    <3> QED
      BY <1>2, <1>3, <1>5, <2>2, <3>1
  <2> QED
    BY <2>1, <2>2
<1>11. ASSUME NEW p \in Requests, Job(p, "signout", u)'
       PROVE  tokens'[n].root # tokens[req[p].token].root
  <2>1. CASE CompleteSignIn(q)
    BY <1>4, <1>5, <1>11, <2>1
  <2>2. CASE Refresh(q)
    <3>1. Job(q, "refresh", u) /\ req[q].token \in Held(u)
      BY <1>1, <2>2 DEF Refresh, Doing, Held
    <3>2. Job(p, "signout", u) /\ p # q
      BY <1>4, <1>11
    <3>3. req[p].token # req[q].token
      BY <1>0, <1>1, <3>1, <3>2, Overlaps
    <3>4. tokens'[n].root = tokens[req[q].token].root
      BY <1>5, <2>2
    <3> QED
      BY <1>2, <3>1, <3>2, <3>3, <3>4
  <2> QED
    BY <2>1, <2>2
<1>12. \A s \in Held(u)' : s # n =>
          s \in Held(u) /\ tokens'[s] = tokens[s]
  BY <1>3, <1>5, <1>9
<1>13. \A s \in Held(u)' : tokens'[s].root \notin ended'
  BY <1>2, <1>3, <1>10, <1>12
<1>14. \A s, t \in Held(u)' : tokens'[s].root = tokens'[t].root => s = t
  BY <1>2, <1>9, <1>12
<1>15. ASSUME NEW p \in Requests, Job(p, "signout", u)', NEW s \in Held(u)',
              tokens'[s].root = tokens'[req'[p].token].root
       PROVE  s = req'[p].token
  <2>1. /\ Job(p, "signout", u) /\ req'[p].token = req[p].token
        /\ tokens'[req[p].token] = tokens[req[p].token]
    BY <1>4, <1>5, <1>15
  <2>2. s # n
    BY <1>11, <1>15, <2>1
  <2> QED
    BY <1>2, <1>12, <1>15, <2>1, <2>2
<1> QED
  BY <1>13, <1>14, <1>15 DEF Exclusive

(* A sign-out of the account itself.                                       *)
LEMMA ExclusiveBySignOut ==
    ASSUME TokenInv, SessionTypes', NEW u \in Users, NEW q \in Requests,
           SignOut(q), req[q].user = u
    PROVE  Exclusive(u)'
<1> DEFINE t == req[q].token
<1> USE DEF Job
<1>0. SessionTypes /\ Exclusive(u)
  BY DEF TokenInv
<1>1. /\ Busy(q) /\ Finish(q) /\ ~Busy(q)' /\ req[q].op = "signout"
      /\ \A p \in Requests : p # q => req'[p] = req[p]
      /\ clash[u] \subseteq clash'[u]
  BY <1>0, CommitEffect DEF Commits, SignOut, Doing
<1> SUFFICES ASSUME "token" \notin clash'[u] PROVE Exclusive(u)'
  BY DEF Exclusive
<1>2. /\ \A s \in Held(u) : tokens[s].root \notin ended
      /\ \A r, s \in Held(u) : tokens[r].root = tokens[s].root => r = s
      /\ \A p \in Requests : Job(p, "signout", u) =>
            \A s \in Held(u) :
               tokens[s].root = tokens[req[p].token].root => s = req[p].token
  BY <1>0, <1>1 DEF Exclusive
<1>3. /\ tokens' = tokens /\ live' = live \ {t}
      /\ ended' = ended \cup {tokens[t].root}
  BY DEF SignOut
<1>4. ASSUME NEW p \in Requests,
             Job(p, "signout", u)' \/ Job(p, "refresh", u)'
      PROVE  p # q /\ req'[p] = req[p] /\ Busy(p)
  BY <1>1, <1>4 DEF Busy
<1>5. LiveOf(u)' \subseteq LiveOf(u) \ {t}
  BY <1>3 DEF LiveOf
<1>6. ASSUME NEW p \in Requests, Job(p, "refresh", u)'
      PROVE  req'[p].token # t
  <2>1. {"signout", "refresh"} = {"refresh", "signout"}
    OBVIOUS
  <2> QED
    BY <1>0, <1>1, <1>4, <1>6, <2>1, Overlaps
<1>7. Held(u)' \subseteq Held(u) \cup {}
  BY <1>4, <1>5, HeldAfter
<1>8. t \notin Held(u)'
  BY <1>5, <1>6 DEF Held
<1> HIDE DEF t
<1>9. \A s \in Held(u)' : tokens[s].root # tokens[t].root
  BY <1>1, <1>2, <1>7, <1>8 DEF t
<1>10. ASSUME NEW p \in Requests, Job(p, "signout", u)'
       PROVE  Job(p, "signout", u) /\ req'[p].token = req[p].token
  BY <1>4, <1>10
<1> QED
  BY <1>2, <1>3, <1>7, <1>9, <1>10 DEF Exclusive

LEMMA ExclusiveStep ==
    ASSUME TokenInv, SessionTypes', [Next]_vars, NEW u \in Users
    PROVE  Exclusive(u)'
<1> USE DEF Job
<1>0. SessionTypes /\ Exclusive(u)
  BY DEF TokenInv
<1>1. CASE Quiet
  <2>1. LiveOf(u)' \subseteq LiveOf(u) \cup {}
    BY <1>1 DEF Quiet, LiveOf
  <2>2. \A p \in Requests : Busy(p)' => Busy(p) /\ req'[p] = req[p]
    BY <1>1 DEF Quiet, Busy
  <2>3. Held(u)' \subseteq Held(u) \cup {}
    BY <2>1, <2>2, HeldAfter
  <2>4. tokens' = tokens /\ ended' = ended /\ clash' = clash
    BY <1>1 DEF Quiet
  <2> QED
    BY <1>0, <2>2, <2>3, <2>4, ExclusiveFrame
<1>2. ASSUME NEW v \in Users, NEW p \in Passwords, SignUp(v, p)
      PROVE  Exclusive(u)'
  <2>1. UNCHANGED <<tokens, live, req, ended, clash>>
    BY <1>2 DEF SignUp, store
  <2>2. Held(u)' = Held(u)
    BY <2>1 DEF Held, LiveOf, Busy
  <2> QED
    BY <1>0, <2>1, <2>2, ExclusiveFrame DEF Busy
<1>3. ASSUME NEW q \in Requests, NEW job \in Jobs, Starts(q, job)
      PROVE  Exclusive(u)'
  <2>1. /\ req' = [req EXCEPT ![q] = job]
        /\ UNCHANGED <<tokens, live, ended, clash>>
    BY <1>3 DEF Starts, Start, store, history
  <2>2. req'[q] = job /\ \A p \in Requests : p # q => req'[p] = req[p]
    BY <1>0, <2>1 DEF SessionTypes, TypeOK
  <2>3. job.op \in {"refresh", "signout"} /\ job.user = u =>
           job.token \in LiveOf(u)
    BY <1>3 DEF Starts, Backed, LiveOf
  <2>4. LiveOf(u)' \subseteq LiveOf(u) \cup {}
    BY <2>1 DEF LiveOf
  <2>5. Held(u)' \subseteq Held(u) \cup {}
    BY <2>2, <2>3, <2>4, HeldAfter DEF Busy
  <2> QED
    BY <1>0, <2>1, <2>2, <2>3, <2>5, ExclusiveFrame DEF Busy
<1>4. ASSUME NEW q \in Requests, RevokeAll(q)
      PROVE  Exclusive(u)'
  <2>1. /\ req'[q].op = "reset" /\ \A p \in Requests : p # q => req'[p] = req[p]
        /\ UNCHANGED <<tokens, live, ended, clash>>
    BY <1>0, <1>4, RevokeAllEffect
  <2>2. LiveOf(u)' \subseteq LiveOf(u) \cup {}
    BY <2>1 DEF LiveOf
  <2>3. Held(u)' \subseteq Held(u) \cup {}
    BY <2>1, <2>2, HeldAfter DEF Busy
  <2> QED
    BY <1>0, <2>1, <2>3, ExclusiveFrame DEF Busy
<1>5. ASSUME NEW q \in Requests, FailSignIn(q) \/ CompleteReset(q)
      PROVE  Exclusive(u)'
  <2>1. /\ ~Busy(q)' /\ clash[u] \subseteq clash'[u]
        /\ \A p \in Requests : p # q => req'[p] = req[p]
    BY <1>0, <1>5, CommitEffect DEF Commits
  <2>2. tokens' = tokens /\ live' \subseteq live /\ ended' = ended
    BY <1>5 DEF FailSignIn, CompleteReset, store
  <2>3. LiveOf(u)' \subseteq LiveOf(u) \cup {}
    BY <2>2 DEF LiveOf
  <2>4. Held(u)' \subseteq Held(u) \cup {}
    BY <2>1, <2>3, HeldAfter DEF Busy
  <2> QED
    BY <1>0, <2>1, <2>2, <2>4, ExclusiveFrame DEF Busy
<1>6. ASSUME NEW q \in Requests, Commits(q)
      PROVE  Exclusive(u)'
  BY <1>5, <1>6, ExclusiveByOther, ExclusiveByIssue, ExclusiveBySignOut
     DEF Commits
<1> QED
  BY <1>0, <1>1, <1>2, <1>3, <1>4, <1>6, StepKinds

LEMMA TokenStep == TokenInv /\ [Next]_vars => TokenInv'
  BY SessionTypesStep, ExclusiveStep DEF TokenInv

(* A session never has two active tokens, and none after its sign-out,     *)
(* unless one token was presented twice at the same time: refresh rotates, *)
(* sign_out revokes (services/auth_service.py:166-188).                    *)
THEOREM OneToken == Spec => []OneTokenPerSession
<1>1. TokenInv => OneTokenPerSession
  <2> SUFFICES ASSUME TokenInv, NEW s \in live, "token" \notin clash[tokens[s].user]
               PROVE  /\ tokens[s].root \notin ended
                      /\ \A t \in live : tokens[t].root = tokens[s].root => t = s
    BY DEF OneTokenPerSession
  <2> DEFINE u == tokens[s].user
  <2>1. SessionTypes /\ live \subseteq DOMAIN tokens /\ u \in Users
    BY RowShape DEF TokenInv, SessionTypes, TypeOK
  <2>2. Exclusive(u) /\ s \in Held(u)
    BY <2>1 DEF TokenInv, Held, LiveOf
  <2>3. ASSUME NEW t \in live, tokens[t].root = tokens[s].root
        PROVE  t \in Held(u)
    BY <2>1, <2>3 DEF SessionTypes, Sessions, Held, LiveOf
  <2> HIDE DEF u
  <2> QED
    BY <2>2, <2>3 DEF Exclusive, u
<1> QED
  BY <1>1, TokenInit, TokenStep, PTL DEF Spec

============================================================================
