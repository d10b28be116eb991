------------------------------ MODULE Sessions -----------------------------
(***************************************************************************)
(* Authentication of one account (auth.rs, session_manager.rs,             *)
(* webauthn.rs): owner setup, password and passkey login, the throttle,    *)
(* the lockout, the limit of concurrent sessions, revocation, rotation of  *)
(* the epoch, step-up, removal of a method.  A login checks first,         *)
(* verifies the password on a blocking thread and writes in a transaction  *)
(* afterwards, so that other requests come in between.                     *)
(***************************************************************************)
EXTENDS Naturals, FiniteSets

CONSTANTS SessionIds,      \* 1 .. n, in the order of created_at
          AuthRequests,    \* requests in progress, 1 .. n
          SessionLimit,    \* concurrent_limit_for_role
          FailureLimit,    \* consecutive failures that lock the account
          ThrottleLimit,   \* login_throttle_max_attempts
          MaxRotations,    \* bound: rotations of the epoch
          MaxAuthRequests  \* bound: requests served

\* NextId takes the least id that is free.
ASSUME SessionsAssumption == SessionIds \subseteq Nat /\ {FailureLimit, ThrottleLimit} \subseteq Nat

VARIABLES users,      \* accounts with the role OWNER
          epoch,      \* users.auth_epoch
          failures, locked,      \* consecutive_failures, locked_until > now
          attempts,   \* rows of login_attempts inside the window
          sess,       \* sess[s]: the row of a session, or NoSession
          revoked,    \* token hashes in session_revocations
          gone,       \* history: sessions that stopped being valid
          methods,    \* auth_methods: "password" of accounts older than the table,
                      \* "passkey" (one: UNIQUE on the label)
          ceremonies, \* WebAuthn ceremonies in memory
          areq, authServed

avars == <<users, epoch, failures, locked, attempts, sess, revoked, gone, methods,
           ceremonies, areq, authServed>>
account == <<users, epoch, failures, locked, attempts, methods, ceremonies>>

AuthIdle == [pc |-> "idle"]
NoSession == [auth_epoch |-> 0, expired |-> FALSE, step_up |-> FALSE]

SessionsInit ==
    /\ users \in {0, 1} /\ methods = (IF users = 0 THEN {} ELSE {"password"})
    /\ epoch = 1 /\ failures = 0 /\ locked = FALSE /\ attempts = 0
    /\ sess = [s \in SessionIds |-> NoSession] /\ revoked = {} /\ gone = {}
    /\ ceremonies = {}
    /\ areq = [q \in AuthRequests |-> AuthIdle] /\ authServed = 0

\* require_user: the row, its epoch, its expiry, no revocation.
\* Mutant: the epoch of the session is not compared.
RequireUserNoEpoch(s) == sess[s] # NoSession /\ s \notin revoked /\ ~sess[s].expired
RequireUser(s) ==
    sess[s] # NoSession /\ s \notin revoked /\ ~sess[s].expired /\ sess[s].auth_epoch = epoch

\* Whose session a request carries makes no difference to most of them.
SomebodySignedIn == \E s \in SessionIds : RequireUser(s)

\* What enforce_concurrent_limit counts (the epoch is not looked at).
Counted4Limit == {s \in SessionIds : sess[s] # NoSession /\ ~sess[s].expired /\ s \notin revoked}
NextId == CHOOSE s \in SessionIds : sess[s] = NoSession /\ s \notin gone
              /\ \A r \in SessionIds : r < s => sess[r] # NoSession \/ r \in gone
HasId  == \E s \in SessionIds : sess[s] = NoSession /\ s \notin gone

Live == {s \in SessionIds : sess[s] # NoSession /\ s \notin revoked /\ ~sess[s].expired
                            /\ sess[s].auth_epoch = epoch}
\* History: what was live and no longer is.
Buried == gone' = gone \cup (Live \ {s \in SessionIds :
              /\ sess'[s] # NoSession /\ s \notin revoked' /\ ~sess'[s].expired
              /\ sess'[s].auth_epoch = epoch'})

ServeAuth(q, r) ==
    /\ areq[q].pc = "idle" /\ \A p \in AuthRequests : p < q => areq[p].pc # "idle"
    /\ authServed < MaxAuthRequests
    /\ authServed' = authServed + 1 /\ areq' = [areq EXCEPT ![q] = r]
AuthDone(q) == areq' = [areq EXCEPT ![q] = AuthIdle] /\ UNCHANGED authServed

\* check_login_throttle: successes are counted as well.
Throttled == attempts >= ThrottleLimit
RecordAttempt == attempts' = IF attempts < ThrottleLimit THEN attempts + 1 ELSE attempts

\* create_session: the epoch as this transaction reads it.
CreateSession(e) ==
    /\ HasId
    /\ sess' = [sess EXCEPT ![NextId] = [auth_epoch |-> e, expired |-> FALSE, step_up |-> FALSE]]

-----------------------------------------------------------------------------
\* create_owner: throttle, validation and the hash come before the transaction.
SetupStart(q) ==
    /\ ~Throttled /\ ServeAuth(q, [pc |-> "setup"])
    /\ UNCHANGED <<account, sess, revoked, gone>>

\* pg_advisory_xact_lock, EXISTS, profile, user, autobiography, session, audit;
\* the login attempt is recorded after the commit.
SetupCommit(q) ==
    /\ areq[q].pc = "setup"
    /\ IF users > 0 THEN UNCHANGED <<users, attempts, sess>>
       ELSE users' = users + 1 /\ CreateSession(epoch) /\ RecordAttempt
    /\ AuthDone(q)
    /\ UNCHANGED <<epoch, failures, locked, methods, ceremonies, revoked>> /\ Buried

\* Throttle, lockout, the two windows of the rate limiter.
LoginStart(q, right) ==
    /\ users > 0 /\ ~Throttled /\ ~locked
    /\ ServeAuth(q, [pc |-> IF right THEN "login" ELSE "wrong"])
    /\ UNCHANGED <<account, sess, revoked, gone>>

\* The attempt is recorded and then the counter is raised, also while another
\* attempt has locked the account.
LoginFails(q) ==
    /\ areq[q].pc = "wrong"
    /\ RecordAttempt
    /\ failures' = IF failures < FailureLimit THEN failures + 1 ELSE failures
    /\ locked' = (locked \/ failures + 1 >= FailureLimit)
    /\ AuthDone(q)
    /\ UNCHANGED <<users, epoch, methods, ceremonies, sess, revoked, gone>>

\* Sessions to revoke: as many of the oldest as there are beyond the limit.
Stale == LET over == Cardinality(Counted4Limit) - SessionLimit IN
         {s \in Counted4Limit : Cardinality({r \in Counted4Limit : r <= s}) <= over}

\* One transaction: the row of the user is locked by the first statement.
LoginCommit(q) ==
    /\ areq[q].pc = "login"
    /\ failures' = 0 /\ locked' = FALSE
    /\ revoked' = revoked \cup (IF Cardinality(Counted4Limit) > SessionLimit THEN Stale ELSE {})
    /\ CreateSession(epoch) /\ RecordAttempt
    /\ AuthDone(q)
    /\ UNCHANGED <<users, epoch, methods, ceremonies>> /\ Buried

-----------------------------------------------------------------------------
Logout(s) ==
    /\ sess[s] # NoSession /\ sess' = [sess EXCEPT ![s] = NoSession]
    /\ gone' = gone \cup {s}
    /\ UNCHANGED <<account, revoked, areq, authServed>>

\* FOR UPDATE of the target, epoch + 1: by the account itself or an admin.
RotateSessions ==
    /\ Live # {} /\ epoch <= MaxRotations
    /\ epoch' = epoch + 1 /\ UNCHANGED <<sess, revoked>> /\ Buried
    /\ UNCHANGED <<users, failures, locked, attempts, methods, ceremonies, areq, authServed>>

\* revoke_all_other_sessions lists the rows and revokes each; a login that
\* commits after the list is not one of them.
RevokeStart(q, s) ==
    /\ RequireUser(s)
    /\ ServeAuth(q, [pc |-> "revoke", list |-> {r \in SessionIds : sess[r] # NoSession} \ {s}])
    /\ UNCHANGED <<account, sess, revoked, gone>>
RevokeOthers(q) ==
    /\ areq[q].pc = "revoke"
    /\ revoked' = revoked \cup areq[q].list
    /\ UNCHANGED <<sess, epoch>> /\ Buried /\ AuthDone(q)
    /\ UNCHANGED <<users, failures, locked, attempts, methods, ceremonies>>
RevokeOne(r) ==
    /\ SomebodySignedIn /\ sess[r] # NoSession
    /\ revoked' = revoked \cup {r} /\ UNCHANGED <<sess, epoch>> /\ Buried
    /\ UNCHANGED <<users, failures, locked, attempts, methods, ceremonies, areq, authServed>>

SessionExpires(s) ==
    /\ sess[s] # NoSession /\ ~sess[s].expired
    /\ sess' = [sess EXCEPT ![s].expired = TRUE] /\ gone' = gone \cup {s}
    /\ UNCHANGED <<account, revoked, areq, authServed>>

\* step_up: require_user, the password again, then the row is marked, whatever
\* has become of the session.
StepUpStart(q, s) ==
    /\ RequireUser(s) /\ ServeAuth(q, [pc |-> "stepup", s |-> s])
    /\ UNCHANGED <<account, sess, revoked, gone>>
MarkStepUp(q) ==
    /\ areq[q].pc = "stepup"
    /\ sess' = IF sess[areq[q].s] = NoSession THEN sess
               ELSE [sess EXCEPT ![areq[q].s].step_up = TRUE]
    /\ AuthDone(q)
    /\ UNCHANGED <<account, revoked, gone>>

-----------------------------------------------------------------------------
\* Passkeys.  A ceremony is taken out of the store by the request that ends it;
\* those older than five minutes go when another one starts (prune).
RegisterStart ==
    /\ SomebodySignedIn /\ ceremonies' = ceremonies \cup {"register"}
    /\ UNCHANGED <<users, epoch, failures, locked, attempts, methods, sess, revoked, gone, areq, authServed>>
RegisterComplete ==
    /\ SomebodySignedIn /\ "register" \in ceremonies /\ ceremonies' = ceremonies \ {"register"}
    /\ methods' = methods \cup {"passkey"}
    /\ UNCHANGED <<users, epoch, failures, locked, attempts, sess, revoked, gone, areq, authServed>>
PasskeyStart ==
    /\ \E pruned \in SUBSET ceremonies : ceremonies' = pruned \cup {"login"}
    /\ UNCHANGED <<users, epoch, failures, locked, attempts, methods, sess, revoked, gone, areq, authServed>>
\* complete_login: the session's epoch is read without a lock on the user.
PasskeyVerified(q) ==
    /\ "login" \in ceremonies /\ "passkey" \in methods /\ ceremonies' = ceremonies \ {"login"}
    /\ ServeAuth(q, [pc |-> "passkey", e |-> epoch])
    /\ UNCHANGED <<users, epoch, failures, locked, attempts, methods, sess, revoked, gone>>
PasskeyCommit(q) ==
    /\ areq[q].pc = "passkey"
    /\ CreateSession(areq[q].e)
    /\ gone' = IF areq[q].e = epoch THEN gone ELSE gone \cup {NextId}
    /\ AuthDone(q)
    /\ UNCHANGED <<account, revoked>>

\* delete_auth_method locks the method's row and counts the others, which a
\* second deletion may have counted as well.
DeleteMethod(q, m) ==
    /\ SomebodySignedIn /\ m \in methods /\ methods # {m}
    /\ \A r \in AuthRequests : areq[r].pc = "method" => areq[r].m # m
    /\ ServeAuth(q, [pc |-> "method", m |-> m])
    /\ UNCHANGED <<account, sess, revoked, gone>>
MethodDeleted(q) ==
    /\ areq[q].pc = "method" /\ methods' = methods \ {areq[q].m}
    /\ AuthDone(q)
    /\ UNCHANGED <<users, epoch, failures, locked, attempts, ceremonies, sess, revoked, gone>>

\* The window of the throttle moves on; thirty minutes pass.
WindowMoves ==
    /\ attempts > 0 \/ locked
    /\ attempts' = 0 /\ locked' \in {locked, FALSE}
    /\ UNCHANGED <<users, epoch, failures, methods, ceremonies, sess, revoked, gone, areq, authServed>>

SessionsNext ==
    \/ \E q \in AuthRequests :
          \/ SetupStart(q) \/ SetupCommit(q) \/ LoginStart(q, TRUE) \/ LoginStart(q, FALSE)
          \/ LoginFails(q) \/ LoginCommit(q) \/ RevokeOthers(q) \/ MarkStepUp(q)
          \/ PasskeyVerified(q) \/ PasskeyCommit(q) \/ MethodDeleted(q)
          \/ \E s \in SessionIds : RevokeStart(q, s) \/ StepUpStart(q, s)
          \/ \E m \in methods : DeleteMethod(q, m)
    \/ \E s \in SessionIds : Logout(s) \/ SessionExpires(s) \/ RevokeOne(s)
    \/ RegisterStart \/ RegisterComplete \/ RotateSessions \/ PasskeyStart \/ WindowMoves

SessionsSpec == SessionsInit /\ [][SessionsNext]_avars

-----------------------------------------------------------------------------
SessionsTypeOK ==
    /\ failures \in 0 .. FailureLimit /\ attempts \in 0 .. ThrottleLimit
    /\ revoked \subseteq SessionIds /\ gone \subseteq SessionIds
    /\ locked => users > 0

(***************************************************************************)
(* There is one owner, however many setups run at a time.  A session that  *)
(* was revoked, rotated away, logged out or expired is never accepted      *)
(* again, whatever was in progress for it; a passkey login that overlapped *)
(* a rotation gives a session that is not accepted.                        *)
(***************************************************************************)
EndedSessionsStayEnded ==
    /\ users <= 1
    /\ \A s \in gone : ~RequireUser(s)

=============================================================================
