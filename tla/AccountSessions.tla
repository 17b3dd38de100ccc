--------------------------- MODULE AccountSessions ---------------------------
(***************************************************************************)
(* Local accounts and their sessions (services/auth_service.py): sign-up,  *)
(* sign-in with lockout, refresh tokens that rotate, sign-out and password *)
(* reset.                                                                  *)
(*                                                                         *)
(* As in RoleMembership, a request reads rows without locking them and     *)
(* writes in one step with its commit.  reset_password is the exception:   *)
(* it revokes the refresh tokens by a statement before its commit, which   *)
(* locks their rows but not the rows inserted afterwards.                  *)
(*                                                                         *)
(* The session does not write an attribute that is set to the value it has *)
(* read.  is_active is always true: nothing in the program changes it.     *)
(***************************************************************************)
EXTENDS Integers, Sequences, FiniteSets

CONSTANTS
    Users,        \* e-mail addresses, normalised
    Passwords,
    NoPassword,   \* the address has no account
    Requests,     \* request slots of the API
    Idle,         \* a free slot
    MaxFailed,    \* auth_max_failed_logins
    MaxTokens,    \* bound: refresh tokens issued
    MaxLinks,     \* bound: password reset tokens issued
    MaxOverlaps   \* bound: once a user has met that many kinds of harmful
                  \* overlap (Clashes), no commit adds another

ASSUME SessionAssumption ==
    /\ NoPassword \notin Passwords
    /\ MaxFailed \in Nat \ {0}
    /\ MaxTokens \in Nat
    /\ MaxLinks \in Nat
    /\ MaxOverlaps \in Nat

(* users.locked_until: null, a time that has passed, a time to come.       *)
LockTimes == {"none", "past", "future"}

(* What a request has read and keeps until it commits.                     *)
FailedJobs == [op : {"failure"}, user : Users, failed : Nat]
SignInJobs == [op : {"signin"}, user : Users, pw : Passwords, rehash : BOOLEAN,
               counted : BOOLEAN, locked : BOOLEAN, born : Nat]
TokenJobs  == [op : {"refresh", "signout"}, user : Users, token : Nat]
ResetJobs  == [op : {"reset"}, user : Users, link : Nat, pw : Passwords,
               swept : BOOLEAN, rows : SUBSET Nat]
Jobs == FailedJobs \cup SignInJobs \cup TokenJobs \cup ResetJobs

ASSUME SlotAssumption == Idle \notin Jobs

VARIABLES
    pw,       \* pw[u]: the password whose hash is stored
    weak,     \* users whose hash has outdated parameters
    failed,   \* users.failed_login_attempts
    lock,     \* users.locked_until
    tokens,   \* refresh_tokens in the order of their issue
    live,     \* those neither revoked nor expired
    links,    \* password_reset_tokens in the order of their issue
    req,      \* req[q]: the request in slot q
    chosen,   \* history: the password last chosen by sign-up or reset
    resets,   \* history: resets[u]: completed resets
    streak,   \* history: failed sign-ins since a success or a lock
    ended,    \* history: sign-ins whose session was signed out
    clash     \* history: clash[u] holds k when a request on u committed
              \* while another one on u, with which it clashes in the way k,
              \* was open

users   == <<pw, weak, failed, lock>>
store   == <<tokens, live, links>>
history == <<chosen, resets, streak, ended, clash>>
vars == <<users, store, req, history>>

Accounts == {u \in Users : pw[u] # NoPassword}

(* root: the first token of the session; born: the resets of the account   *)
(* before the password of that session was verified.                       *)
TokenRows == [user : Users, root : Nat, born : Nat]
LinkRows  == [user : Users, state : {"usable", "used", "expired"}]

LiveOf(u) == {t \in live : tokens[t].user = u}

(* Rows that the unfinished reset of another request has written.          *)
Locked(q, t) == \E p \in Requests \ {q} :
    req[p] # Idle /\ req[p].op = "reset" /\ t \in req[p].rows

---------------------------------------------------------------------------

Init ==
    /\ pw = [u \in Users |-> NoPassword]
    /\ weak = {}
    /\ failed = [u \in Users |-> 0]
    /\ lock = [u \in Users |-> "none"]
    /\ tokens = <<>>
    /\ live = {}
    /\ links = <<>>
    /\ req = [q \in Requests |-> Idle]
    /\ chosen = [u \in Users |-> NoPassword]
    /\ resets = [u \in Users |-> 0]
    /\ streak = [u \in Users |-> 0]
    /\ ended = {}
    /\ clash = [u \in Users |-> {}]

(* A request has read what it needs and goes on.                           *)
Start(q, job) ==
    /\ req[q] = Idle
    /\ req' = [req EXCEPT ![q] = job]
    /\ UNCHANGED <<users, store, history>>

(* A lost connection, a deadlock victim: the session is rolled back.       *)
Rollback(q) ==
    /\ req[q] # Idle
    /\ req' = [req EXCEPT ![q] = Idle]
    /\ UNCHANGED <<users, store, history>>

(* Faulty: locks one attempt later.                                        *)
LocksAt_OneLater(n) == n > MaxFailed

LocksAt(n) == n >= MaxFailed

(* The overlaps of two requests on a user that break something.            *)
Clashes == {"failures", "lock", "password", "sessions", "token", "link"}

(* a commits while b is open.                                              *)
Clash(k, a, b) ==
    \/ k = "failures" /\ a.op = "failure" /\ b.op = "failure"
    \/ /\ k = "lock"      \* b is about to clear an expired lock, a sets a new one
       /\ a.op = "failure" /\ LocksAt(a.failed + 1)
       /\ b.op = "signin" /\ b.locked
    \/ /\ k = "password"  \* b is about to upgrade the hash that a replaces
       /\ a.op = "reset"
       /\ b.op = "signin" /\ b.rehash
    \/ /\ k = "sessions"  \* after the reset has revoked the tokens
       /\ \/ a.op \in {"signin", "refresh"} /\ b.op = "reset" /\ b.swept
          \/ a.op = "reset" /\ b.op \in {"signin", "refresh"}
    \/ /\ k = "token"
       /\ {a.op, b.op} \in {{"refresh"}, {"refresh", "signout"}}
       /\ a.token = b.token
    \/ /\ k = "link"
       /\ a.op = "reset" /\ b.op = "reset" /\ a.link = b.link

(* q commits and leaves its slot.                                          *)
Finish(q) ==
    /\ req' = [req EXCEPT ![q] = Idle]
    /\ clash' = [clash EXCEPT ![req[q].user] = @ \cup
         {k \in Clashes :
            \E p \in Requests \ {q} : /\ req[p] # Idle
                                      /\ req[p].user = req[q].user
                                      /\ Clash(k, req[q], req[p])}]
    /\ clash' # clash => Cardinality(clash[req[q].user]) < MaxOverlaps

Doing(q, op) == req[q] # Idle /\ req[q].op = op

---------------------------------------------------------------------------
(* Accounts and passwords                                                  *)

(* sign_up.  The unique index on users.email refuses a second account.     *)
SignUp(u, p) ==
    /\ u \notin Accounts
    /\ pw' = [pw EXCEPT ![u] = p]
    /\ chosen' = [chosen EXCEPT ![u] = p]
    /\ UNCHANGED <<weak, failed, lock, store, req, resets, streak, ended, clash>>

(* A deployment with stronger Argon2 parameters outdates every hash.       *)
RaiseHashPolicy ==
    /\ weak' = Accounts
    /\ UNCHANGED <<pw, failed, lock, store, req, history>>

---------------------------------------------------------------------------
(* Sign-in                                                                 *)

(* Faulty: a locked account signs in all the same.                         *)
Admitted_Always(u) == TRUE

Admitted(u) == lock[u] # "future"

(* Faulty: the outcome of the verification is ignored.                     *)
Verified_Always(u, p) == TRUE

Verified(u, p) == p = pw[u]

(* sign_in reads the user, refuses a locked account and verifies the       *)
(* password against the hash it has read.                                  *)
SignIn(q, u, p) ==
    /\ u \in Accounts
    /\ Admitted(u)
    /\ IF Verified(u, p)
       THEN Start(q, [op |-> "signin", user |-> u, pw |-> p, rehash |-> u \in weak,
                      counted |-> failed[u] # 0, locked |-> lock[u] # "none",
                      born |-> resets[u]])
       ELSE Start(q, [op |-> "failure", user |-> u, failed |-> failed[u]])

(* _register_failed_login and the commit.                                  *)
FailSignIn(q) ==
    LET u == req[q].user  n == req[q].failed + 1 IN
    /\ Doing(q, "failure")
    /\ failed' = [failed EXCEPT ![u] = IF LocksAt(n) THEN 0 ELSE n]
    /\ lock' = [lock EXCEPT ![u] = IF LocksAt(n) THEN "future" ELSE @]
    /\ streak' = [streak EXCEPT ![u] = IF LocksAt(n) THEN 0
                                       ELSE IF @ < MaxFailed THEN @ + 1 ELSE @]
    /\ Finish(q)
    /\ UNCHANGED <<pw, weak, store, chosen, resets, ended>>

(* _issue_token_pair.                                                      *)
Issue(u, root, born) ==
    Append(tokens, [user |-> u, root |-> root, born |-> born])

(* The rest of sign_in: a new hash if the old one is outdated, the counter *)
(* and the lock cleared where they were set, and a refresh token.          *)
CompleteSignIn(q) ==
    LET u == req[q].user  t == Len(tokens) + 1 IN
    /\ Doing(q, "signin")
    /\ t <= MaxTokens
    /\ pw' = IF req[q].rehash THEN [pw EXCEPT ![u] = req[q].pw] ELSE pw
    /\ weak' = IF req[q].rehash THEN weak \ {u} ELSE weak
    /\ failed' = IF req[q].counted THEN [failed EXCEPT ![u] = 0] ELSE failed
    /\ lock' = IF req[q].locked THEN [lock EXCEPT ![u] = "none"] ELSE lock
    /\ tokens' = Issue(u, t, req[q].born)
    /\ live' = live \cup {t}
    /\ streak' = [streak EXCEPT ![u] = 0]
    /\ Finish(q)
    /\ UNCHANGED <<links, chosen, resets, ended>>

(* The time of a lock goes by.                                             *)
LockElapses(u) ==
    /\ lock[u] = "future"
    /\ lock' = [lock EXCEPT ![u] = "past"]
    /\ UNCHANGED <<pw, weak, failed, store, req, history>>

---------------------------------------------------------------------------
(* Refresh tokens                                                          *)

(* _get_active_refresh_token.  An unknown, revoked or expired token is     *)
(* refused without a change.  A read that waits for a reset to commit is   *)
(* no different from one that is refused.                                  *)
Present(q, op, t) ==
    /\ t \in live
    /\ Start(q, [op |-> op, user |-> tokens[t].user, token |-> t])

(* Faulty: the presented token stays active.                               *)
Rotated_KeepsOld(old, new) == live \cup {new}

Rotated(old, new) == (live \ {old}) \cup {new}

(* refresh: revokes the token it has read and issues another.              *)
Refresh(q) ==
    LET t == req[q].token  new == Len(tokens) + 1 IN
    /\ Doing(q, "refresh")
    /\ ~Locked(q, t)
    /\ new <= MaxTokens
    /\ tokens' = Issue(req[q].user, tokens[t].root, tokens[t].born)
    /\ live' = Rotated(t, new)
    /\ Finish(q)
    /\ UNCHANGED <<users, links, chosen, resets, streak, ended>>

SignOut(q) ==
    LET t == req[q].token IN
    /\ Doing(q, "signout")
    /\ ~Locked(q, t)
    /\ live' = live \ {t}
    /\ ended' = ended \cup {tokens[t].root}
    /\ Finish(q)
    /\ UNCHANGED <<users, tokens, links, chosen, resets, streak>>

ExpireToken(t) ==
    /\ t \in live
    /\ live' = live \ {t}
    /\ UNCHANGED <<users, tokens, links, req, history>>

---------------------------------------------------------------------------
(* Password reset                                                          *)

(* request_password_reset.  An unknown address changes nothing.            *)
RequestReset(u) ==
    /\ u \in Accounts
    /\ Len(links) < MaxLinks
    /\ links' = Append(links, [user |-> u, state |-> "usable"])
    /\ UNCHANGED <<users, tokens, live, req, history>>

ExpireLink(l) ==
    /\ links[l].state = "usable"
    /\ links' = [links EXCEPT ![l].state = "expired"]
    /\ UNCHANGED <<users, tokens, live, req, history>>

(* Faulty: a used token is accepted again.                                 *)
Acceptable_Used(l) == links[l].state # "expired"

(* token_row.used_at is None and token_row.expires_at > now.               *)
Acceptable(l) == links[l].state = "usable"

BeginReset(q, l, p) ==
    /\ Acceptable(l)
    /\ Start(q, [op |-> "reset", user |-> links[l].user, link |-> l, pw |-> p,
                 swept |-> FALSE, rows |-> {}])

(* Faulty: only the latest session is ended.                               *)
ToRevoke_Latest(u) == {t \in LiveOf(u) : \A x \in LiveOf(u) : x <= t}

(* The where clause of _revoke_all_refresh_tokens.                         *)
ToRevoke(u) == LiveOf(u)

(* The statement waits for the rows that another reset has locked.  Until  *)
(* the commit nobody else sees what it has written.                        *)
RevokeAll(q) ==
    /\ Doing(q, "reset")
    /\ ~req[q].swept
    /\ \A t \in ToRevoke(req[q].user) : ~Locked(q, t)
    /\ req' = [req EXCEPT ![q].swept = TRUE, ![q].rows = ToRevoke(req[q].user)]
    /\ UNCHANGED <<users, store, history>>

CompleteReset(q) ==
    LET u == req[q].user IN
    /\ Doing(q, "reset")
    /\ req[q].swept
    /\ pw' = [pw EXCEPT ![u] = req[q].pw]
    /\ weak' = weak \ {u}
    /\ links' = [links EXCEPT ![req[q].link].state = "used"]
    /\ live' = live \ req[q].rows
    /\ chosen' = [chosen EXCEPT ![u] = req[q].pw]
    /\ resets' = [resets EXCEPT ![u] = @ + 1]
    /\ Finish(q)
    /\ UNCHANGED <<failed, lock, tokens, streak, ended>>

---------------------------------------------------------------------------

Next ==
    \/ \E u \in Users, p \in Passwords : SignUp(u, p)
    \/ \E u \in Users : LockElapses(u) \/ RequestReset(u)
    \/ RaiseHashPolicy
    \/ \E t \in live : ExpireToken(t)
    \/ \E l \in DOMAIN links : ExpireLink(l)
    \/ \E q \in Requests :
         \/ \E u \in Users, p \in Passwords : SignIn(q, u, p)
         \/ \E t \in live, op \in {"refresh", "signout"} : Present(q, op, t)
         \/ \E l \in DOMAIN links, p \in Passwords : BeginReset(q, l, p)
         \/ FailSignIn(q) \/ CompleteSignIn(q) \/ Refresh(q) \/ SignOut(q)
         \/ RevokeAll(q) \/ CompleteReset(q) \/ Rollback(q)

Spec == Init /\ [][Next]_vars

---------------------------------------------------------------------------
(* Properties                                                              *)

TypeOK ==
    /\ pw \in [Users -> Passwords \cup {NoPassword}]
    /\ weak \subseteq Accounts
    /\ failed \in [Users -> 0 .. MaxFailed - 1]
    /\ lock \in [Users -> LockTimes]
    /\ tokens \in Seq(TokenRows)
    /\ live \subseteq DOMAIN tokens
    /\ links \in Seq(LinkRows)
    /\ req \in [Requests -> Jobs \cup {Idle}]
    /\ chosen \in [Users -> Passwords \cup {NoPassword}]
    /\ resets \in [Users -> Nat]
    /\ streak \in [Users -> 0 .. MaxFailed]
    /\ ended \subseteq DOMAIN tokens
    /\ clash \in [Users -> SUBSET Clashes]

(* A reset "Revokes all refresh tokens so existing sessions can't outlive  *)
(* a password reset" (services/auth_service.py:218-219).  One does only if *)
(* a sign-in or a refresh committed between the revocation of the tokens   *)
(* and the commit of a reset, or was open at that commit.                  *)
SessionsEndAtReset ==
    \A t \in live :
        "sessions" \notin clash[tokens[t].user]
            => tokens[t].born = resets[tokens[t].user]

(* The stored hash is that of the password chosen last.  Only a sign-in    *)
(* that found an outdated hash and was open when a reset committed brings  *)
(* an older one back (services/auth_service.py:154-155,229-233); one that  *)
(* has no hash to upgrade may overlap with a reset in any order.           *)
PasswordStands ==
    \A u \in Users : "password" \notin clash[u] => pw[u] = chosen[u]

(* A session has one active refresh token, and none after it was signed    *)
(* out, unless two requests presented the same token at the same time.     *)
OneTokenPerSession ==
    \A s \in live :
        "token" \notin clash[tokens[s].user]
            => /\ tokens[s].root \notin ended
               /\ \A t \in live : tokens[t].root = tokens[s].root => t = s

(* auth_max_failed_logins failures in a row lock the account, unless two   *)
(* failing sign-ins overlapped.                                            *)
LockedInTime ==
    \A u \in Users : "failures" \notin clash[u] => streak[u] < MaxFailed

(* Each reset token changes the password once, unless it was presented     *)
(* twice at the same time.                                                 *)
LinkIsSingleUse ==
    \A u \in Users : "link" \notin clash[u] =>
        resets[u] <= Cardinality({l \in DOMAIN links :
                         links[l].user = u /\ links[l].state = "used"})

(* A lock ends only with its time: neither a sign-in nor a reset lifts it. *)
(* Only a sign-in that found an expired lock, and was open when a failure  *)
(* locked the account again, does (services/auth_service.py:157-158); one  *)
(* admitted before the first lock of the account does not.                 *)
LockStands ==
    [][\A u \in Users : lock[u] = "future" /\ lock'[u] = "none"
                            => "lock" \in clash[u]]_vars

============================================================================
