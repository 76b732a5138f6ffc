----------------------------- MODULE AdminAccess -----------------------------
(***************************************************************************)
(* API keys, admin UI sessions and first-run one-time links.               *)
(*                                                                         *)
(* The three tables live in SQLite.  A handler runs in a thread (of the    *)
(* threadpool, or the event loop of a worker) and each of its statements   *)
(* is a transaction of its own, so threads interleave between statements:  *)
(* a login validates the key and inserts the session in two steps, a       *)
(* lockout updates the key and deletes its sessions in two steps, a link   *)
(* is read, marked spent and turned into a session in three.               *)
(*                                                                         *)
(* Secrets are numbers in order of issue.  The clock is abstracted: a      *)
(* session or a link may expire at any moment.  last_used_at and prefixes  *)
(* are left out.                                                           *)
(***************************************************************************)
EXTENDS Integers, FiniteSets

CONSTANTS
  KeyIds,       \* key labels
  Admin,        \* the label of the bootstrap key
  Threads,      \* threads that run handlers, over all the workers
  Tokens,       \* session tokens that may be drawn: bounds the sessions
  Otps,         \* one-time links that may be minted
  MaxSecret,    \* bound: no handler that issues a secret starts after this many
  MaxLockouts,  \* bound: lockouts per key
  MaxRestarts   \* bound: worker deaths

ASSUME AdminAssumption == Admin \in KeyIds
ASSUME BoundsAssumption ==
  MaxSecret \in Nat \ {0} /\ MaxLockouts \in Nat /\ MaxRestarts \in Nat
ASSUME ViaAssumption == "login" \notin Otps /\ "none" \notin Otps

VARIABLES
  row,       \* api_keys: label -> status and current secret
  issued,    \* number of the last secret issued
  session,   \* ui_sessions: token -> row
  otp,       \* setup_otps: link -> state
  th,        \* thread -> where its handler stands
  lockouts,  \* history: label -> lockouts (suspend, revoke, rotate) written
  ackd,      \* history: label -> the last lockout whose handler returned
  restarts

vars == <<row, issued, session, otp, th, lockouts, ackd, restarts>>

Bootstrap == 1
Inactive == {"suspended", "revoked"}

NoSession == [state |-> "unused", key |-> Admin, via |-> "none", seen |-> 0, late |-> FALSE]
IdleThread == [at |-> "idle", key |-> Admin, via |-> "none", num |-> 0]

Init ==
  /\ row = [k \in KeyIds |-> IF k = Admin
                               THEN [status |-> "active", secret |-> Bootstrap]
                               ELSE [status |-> "absent", secret |-> 0]]
  /\ issued = Bootstrap
  /\ session = [s \in Tokens |-> NoSession]
  /\ otp = [o \in Otps |-> "unissued"]
  /\ th = [t \in Threads |-> IdleThread]
  /\ lockouts = [k \in KeyIds |-> 0]
  /\ ackd = [k \in KeyIds |-> 0]
  /\ restarts = 0

Exists(k) == row[k].status # "absent"
Live(s) == session[s].state = "live"
SessionsOf(k) == {s \in Tokens : Live(s) /\ session[s].key = k}
Delete(S) == [s \in Tokens |-> IF s \in S THEN [session[s] EXCEPT !.state = "gone"]
                                          ELSE session[s]]

Max2(a, b) == IF a > b THEN a ELSE b

At(t, place) == th[t].at = place
Go(t, place, k, via, n) ==
  th' = [th EXCEPT ![t] = [at |-> place, key |-> k, via |-> via, num |-> n]]
Done(t) == th' = [th EXCEPT ![t] = IdleThread]

\* Bound: a login starts only when a token is left for it.
TokenLeft == Cardinality({s \in Tokens : session[s].state = "unused"}) >
             Cardinality({t \in Threads : th[t].at \in {"otp_mark", "session_insert"}})

-----------------------------------------------------------------------------
(* Sessions: login form, one-time link, logout, expiry *)

\* Mutant: the status of the key is not looked at.
LoginCheckAnyStatus(t, k) ==
  /\ At(t, "idle") /\ TokenLeft
  /\ Exists(k)
  /\ Go(t, "session_insert", k, "login", lockouts[k])
  /\ UNCHANGED <<row, issued, session, otp, lockouts, ackd, restarts>>

\* validate_api_key: the secret is a current one and its key is active.  A
\* refused login (401) changes nothing.
LoginCheck(t, k) ==
  /\ At(t, "idle") /\ TokenLeft
  /\ row[k].status = "active"
  /\ Go(t, "session_insert", k, "login", lockouts[k])
  /\ UNCHANGED <<row, issued, session, otp, lockouts, ackd, restarts>>

\* create_ui_session, with a token nobody holds yet.
SessionInsert(t) ==
  /\ At(t, "session_insert")
  /\ \E s \in Tokens :
       /\ session[s].state = "unused"
       /\ session' = [session EXCEPT ![s] =
            [state |-> "live", key |-> th[t].key, via |-> th[t].via,
             seen |-> th[t].num, late |-> th[t].num < ackd[th[t].key]]]
  /\ Done(t)
  /\ UNCHANGED <<row, issued, otp, lockouts, ackd, restarts>>

\* `egg-api start` and the desktop launcher mint a link for the admin key.
MintOtp(o) ==
  /\ otp[o] = "unissued"
  /\ otp' = [otp EXCEPT ![o] = "open"]
  /\ UNCHANGED <<row, issued, session, th, lockouts, ackd, restarts>>

\* Mutant: neither the row nor its consumed_at is looked at.
OtpSelectAny(t, o) ==
  /\ At(t, "idle") /\ TokenLeft
  /\ Go(t, "otp_mark", Admin, o, lockouts[Admin])
  /\ UNCHANGED <<row, issued, session, otp, lockouts, ackd, restarts>>

\* consume_setup_otp, SELECT: not consumed, not expired.
OtpSelect(t, o) ==
  /\ At(t, "idle") /\ TokenLeft
  /\ otp[o] = "open"
  /\ Go(t, "otp_mark", Admin, o, lockouts[Admin])
  /\ UNCHANGED <<row, issued, session, otp, lockouts, ackd, restarts>>

\* Mutant: the UPDATE is left out.
OtpMarkForgets(t) ==
  /\ At(t, "otp_mark")
  /\ Go(t, "session_insert", th[t].key, th[t].via, th[t].num)
  /\ UNCHANGED <<row, issued, session, otp, lockouts, ackd, restarts>>

\* consume_setup_otp, UPDATE; the key of the link is not looked at.
OtpMark(t) ==
  /\ At(t, "otp_mark")
  /\ otp' = [otp EXCEPT ![th[t].via] = "spent"]
  /\ Go(t, "session_insert", th[t].key, th[t].via, th[t].num)
  /\ UNCHANGED <<row, issued, session, lockouts, ackd, restarts>>

OtpExpires(o) ==
  /\ otp[o] = "open"
  /\ otp' = [otp EXCEPT ![o] = "expired"]
  /\ UNCHANGED <<row, issued, session, th, lockouts, ackd, restarts>>

\* Logout of one session, or the end of its lifetime (purge, idle timeout).
SessionEnds(s) ==
  /\ Live(s)
  /\ session' = Delete({s})
  /\ UNCHANGED <<row, issued, otp, th, lockouts, ackd, restarts>>

\* logout_everywhere, from a session of the key.
LogoutEverywhere(k) ==
  /\ SessionsOf(k) # {}
  /\ session' = Delete(SessionsOf(k))
  /\ UNCHANGED <<row, issued, otp, th, lockouts, ackd, restarts>>

-----------------------------------------------------------------------------
(* Keys: create, activate, suspend, revoke, rotate *)

\* ApiKeyService.create: list_keys finds the label, or not.
CreateCheck(t, k) ==
  /\ At(t, "idle")
  /\ Exists(k) \/ issued < MaxSecret
  /\ Go(t, IF Exists(k) THEN "create_refused" ELSE "create_insert", k, "none", 0)
  /\ UNCHANGED <<row, issued, session, otp, lockouts, ackd, restarts>>

\* create_api_key: key_id is unique, the INSERT raises when it is taken.
CreateInsert(t) ==
  LET k == th[t].key IN
  /\ At(t, "create_insert")
  /\ IF Exists(k)
       THEN /\ Go(t, "create_raised", k, "none", 0)
            /\ UNCHANGED <<row, issued>>
       ELSE /\ issued' = issued + 1
            /\ row' = [row EXCEPT ![k] = [status |-> "active", secret |-> issued + 1]]
            /\ Done(t)
  /\ UNCHANGED <<session, otp, lockouts, ackd, restarts>>

\* The 409 of the service, or the error page of the uncaught IntegrityError.
CreateAnswers(t) ==
  /\ At(t, "create_refused") \/ At(t, "create_raised")
  /\ Done(t)
  /\ UNCHANGED <<row, issued, session, otp, lockouts, ackd, restarts>>

Activate(t, k) ==
  /\ At(t, "idle")
  /\ Exists(k)
  /\ row' = [row EXCEPT ![k].status = "active"]
  /\ UNCHANGED <<issued, session, otp, th, lockouts, ackd, restarts>>

\* Mutant: the sessions are deleted first, the status is updated after.
LockoutSessionsFirst(t, k, status) ==
  /\ Exists(k)
  /\ lockouts[k] < MaxLockouts
  /\ \/ /\ At(t, "idle")
        /\ session' = Delete(SessionsOf(k))
        /\ Go(t, "end_status", k, "none", 0)
        /\ UNCHANGED <<row, lockouts, ackd>>
     \/ /\ At(t, "end_status")
        /\ th[t].key = k
        /\ row' = [row EXCEPT ![k].status = status]
        /\ lockouts' = [lockouts EXCEPT ![k] = @ + 1]
        /\ ackd' = [ackd EXCEPT ![k] = lockouts[k] + 1]
        /\ Done(t)
        /\ UNCHANGED session
  /\ UNCHANGED <<issued, otp, restarts>>

\* set_status(suspend | revoke): the UPDATE; the DELETE of the sessions follows.
Lockout(t, k, status) ==
  /\ At(t, "idle")
  /\ Exists(k)
  /\ lockouts[k] < MaxLockouts
  /\ row' = [row EXCEPT ![k].status = status]
  /\ lockouts' = [lockouts EXCEPT ![k] = @ + 1]
  /\ Go(t, "end_sessions", k, "none", lockouts[k] + 1)
  /\ UNCHANGED <<issued, session, otp, ackd, restarts>>

\* Mutant: rotate leaves the sessions alone.
RotateKeepsSessions(t, k) ==
  /\ At(t, "idle")
  /\ Exists(k)
  /\ issued < MaxSecret
  /\ lockouts[k] < MaxLockouts
  /\ issued' = issued + 1
  /\ row' = [row EXCEPT ![k] = [status |-> "active", secret |-> issued + 1]]
  /\ lockouts' = [lockouts EXCEPT ![k] = @ + 1]
  /\ ackd' = [ackd EXCEPT ![k] = lockouts[k] + 1]
  /\ UNCHANGED <<session, otp, th, restarts>>

\* rotate: a fresh secret, and the key is active again.
Rotate(t, k) ==
  /\ At(t, "idle")
  /\ Exists(k)
  /\ issued < MaxSecret
  /\ lockouts[k] < MaxLockouts
  /\ issued' = issued + 1
  /\ row' = [row EXCEPT ![k] = [status |-> "active", secret |-> issued + 1]]
  /\ lockouts' = [lockouts EXCEPT ![k] = @ + 1]
  /\ Go(t, "end_sessions", k, "none", lockouts[k] + 1)
  /\ UNCHANGED <<session, otp, ackd, restarts>>

\* invalidate_sessions_for_key_id, and the handler returns to the operator.
EndSessions(t) ==
  LET k == th[t].key IN
  /\ At(t, "end_sessions")
  /\ session' = Delete(SessionsOf(k))
  /\ ackd' = [ackd EXCEPT ![k] = Max2(@, th[t].num)]
  /\ Done(t)
  /\ UNCHANGED <<row, issued, otp, lockouts, restarts>>

-----------------------------------------------------------------------------
(* A worker dies with the handlers it runs; its successor ensures the admin key *)

\* Mutant: INSERT OR REPLACE.
EnsureAdminKeyReplaces ==
  [row EXCEPT ![Admin] = [status |-> "active", secret |-> Bootstrap]]

\* INSERT OR IGNORE of the bootstrap secret.
EnsureAdminKey ==
  IF Exists(Admin) THEN row
  ELSE [row EXCEPT ![Admin] = [status |-> "active", secret |-> Bootstrap]]

WorkerRestarts(dead) ==
  /\ restarts < MaxRestarts
  /\ restarts' = restarts + 1
  /\ th' = [t \in Threads |-> IF t \in dead THEN IdleThread ELSE th[t]]
  /\ row' = EnsureAdminKey
  /\ UNCHANGED <<issued, session, otp, lockouts, ackd>>

Handler(t) ==
  \/ \E k \in KeyIds :
       \/ LoginCheck(t, k)
       \/ CreateCheck(t, k)
       \/ Activate(t, k)
       \/ \E status \in Inactive : Lockout(t, k, status)
       \/ Rotate(t, k)
  \/ \E o \in Otps : OtpSelect(t, o)
  \/ OtpMark(t)
  \/ SessionInsert(t)
  \/ CreateInsert(t)
  \/ CreateAnswers(t)
  \/ EndSessions(t)

Next ==
  \/ \E t \in Threads : Handler(t)
  \/ \E o \in Otps : MintOtp(o) \/ OtpExpires(o)
  \/ \E s \in Tokens : SessionEnds(s)
  \/ \E k \in KeyIds : LogoutEverywhere(k)
  \/ \E dead \in (SUBSET Threads) \ {{}} : WorkerRestarts(dead)

Spec == Init /\ [][Next]_vars
-----------------------------------------------------------------------------
(* Properties *)

Statuses == {"absent", "active"} \cup Inactive
Places == {"idle", "session_insert", "otp_mark", "create_insert",
           "create_refused", "create_raised", "end_sessions"}
Vias == {"none", "login"} \cup Otps
Rows == [status: Statuses, secret: Nat]
Sessions == [state: {"unused", "live", "gone"}, key: KeyIds, via: Vias,
             seen: Nat, late: BOOLEAN]
ThreadStates == [at: Places, key: KeyIds, via: Vias, num: Nat]

\* The variables keep their types, and only a minted link is ever being spent.
TypeOK ==
  /\ row \in [KeyIds -> Rows]
  /\ issued \in Nat
  /\ session \in [Tokens -> Sessions]
  /\ otp \in [Otps -> {"unissued", "open", "spent", "expired"}]
  /\ th \in [Threads -> ThreadStates]
  /\ \A t \in Threads : At(t, "otp_mark") => th[t].via \in Otps /\ otp[th[t].via] # "unissued"
  /\ lockouts \in [KeyIds -> Nat]
  /\ ackd \in [KeyIds -> Nat]
  /\ restarts \in 0 .. MaxRestarts

\* A session that was stored before a suspend, revoke or rotate returned to the
\* operator is gone once it has returned (key_service.py: the lockout is
\* immediate); only one stored after, by a login caught between its check and
\* its INSERT, can outlive it.
SettledSessionsDieWithTheirKey ==
  \A s \in Tokens :
    Live(s) /\ ~session[s].late => session[s].seen >= ackd[session[s].key]

\* A session opened with a secret that is still open while its key is suspended
\* or revoked was caught by a lockout that has not reached the operator yet, or
\* was stored late: no lockout reports success over it (key_service.set_status,
\* validate_api_key).
LockedKeyHasNoSettledLogin ==
  \A s \in Tokens :
    LET k == session[s].key IN
    Live(s) /\ session[s].via = "login" /\ ~session[s].late
      /\ row[k].status \in Inactive => ackd[k] < lockouts[k]

\* A secret that rotation replaced is never a key's secret again, whatever is
\* created, rotated or restarted: INSERT OR IGNORE does not bring the bootstrap
\* secret back (sqlite_store.ensure_admin_key, api_keys.rotate).
RetiredSecretStaysRetired ==
  [][\A k \in KeyIds : row'[k].secret # row[k].secret => row'[k].secret > issued]_vars

\* Once a session is, or is about to be, opened by a link, the link is spent for good:
\* what may still open another one has read the link before
\* (sqlite_store.consume_setup_otp: SELECT, UPDATE).
OtpIsSpentFirst ==
  /\ \A s \in Tokens : session[s].via \in Otps => otp[session[s].via] = "spent"
  /\ \A t \in Threads :
       At(t, "session_insert") /\ th[t].via \in Otps => otp[th[t].via] = "spent"

\* One link opens at most one session (sqlite_store.consume_setup_otp: a replay
\* gets None rather than a second admin session).
OtpSpentOnce ==
  \A o \in Otps : Cardinality({s \in Tokens : session[s].via = o}) <= 1

\* The strengthening behind LockedKeyHasNoSettledLogin: a login that saw the last
\* lockout of its key saw it active, and no lockout followed.
LoginSawActive ==
  /\ \A s \in Tokens :
       LET k == session[s].key IN
       /\ session[s].seen <= lockouts[k]
       /\ session[s].via = "login" /\ session[s].seen = lockouts[k] =>
            row[k].status = "active"
  /\ \A t \in Threads :
       LET k == th[t].key IN
       /\ th[t].num <= lockouts[k]
       /\ th[t].via = "login" /\ th[t].num = lockouts[k] => row[k].status = "active"
=============================================================================
