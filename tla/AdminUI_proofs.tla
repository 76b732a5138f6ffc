---------------------------- MODULE AdminUI_proofs ----------------------------
(***************************************************************************)
(* Theorems about the two machines of the admin UI, each of its own        *)
(* specification: AdminAccess, for any number of keys, threads, sessions   *)
(* and one-time links, and then SetupWizard, for any number of             *)
(* administrators, fields and forms and any set of hosts.                  *)
(***************************************************************************)
EXTENDS AdminAccess, SetupWizard, TLAPS

-----------------------------------------------------------------------------
(* Type correctness *)

LEMMA InitTypeOK == Init => TypeOK
BY AdminAssumption, BoundsAssumption
   DEF Init, TypeOK, Rows, Sessions, ThreadStates, Statuses, Places, Vias, At,
       NoSession, IdleThread, Bootstrap

\* Deleting sessions keeps the table a table of sessions.
LEMMA DeleteType ==
  ASSUME session \in [Tokens -> Sessions], NEW S
  PROVE  Delete(S) \in [Tokens -> Sessions]
BY DEF Delete, Sessions

LEMMA NextTypeOK == TypeOK /\ [Next]_vars => TypeOK'
<1> SUFFICES ASSUME TypeOK, [Next]_vars PROVE TypeOK'
  OBVIOUS
<1> USE AdminAssumption, BoundsAssumption
        DEF TypeOK, Rows, ThreadStates, Statuses, Places, Vias, Inactive, At, IdleThread
<1>1. ASSUME NEW t \in Threads, NEW k \in KeyIds, LoginCheck(t, k) PROVE TypeOK'
  BY <1>1 DEF LoginCheck, Go
<1>2. ASSUME NEW t \in Threads, NEW k \in KeyIds, CreateCheck(t, k) PROVE TypeOK'
  BY <1>2 DEF CreateCheck, Go
<1>3. ASSUME NEW t \in Threads, NEW k \in KeyIds, Activate(t, k) PROVE TypeOK'
  BY <1>3 DEF Activate
<1>4. ASSUME NEW t \in Threads, NEW k \in KeyIds, NEW status \in Inactive,
             Lockout(t, k, status)
      PROVE  TypeOK'
  BY <1>4 DEF Lockout, Go
<1>5. ASSUME NEW t \in Threads, NEW k \in KeyIds, Rotate(t, k) PROVE TypeOK'
  BY <1>5 DEF Rotate, Go
<1>6. ASSUME NEW t \in Threads, NEW o \in Otps, OtpSelect(t, o) PROVE TypeOK'
  BY <1>6 DEF OtpSelect, Go
<1>7. ASSUME NEW t \in Threads, OtpMark(t) PROVE TypeOK'
  <2>1. th[t].via \in Otps /\ th[t] \in ThreadStates
    BY <1>7 DEF OtpMark
  <2>2. otp' \in [Otps -> {"unissued", "open", "spent", "expired"}]
    BY <1>7, <2>1 DEF OtpMark
  <2>3. th' \in [Threads -> ThreadStates]
    BY <1>7, <2>1 DEF OtpMark, Go
  <2>4. ASSUME NEW u \in Threads, th'[u].at = "otp_mark"
        PROVE  th'[u].via \in Otps /\ otp'[th'[u].via] # "unissued"
    <3>1. th'[u] = th[u]
      BY <1>7, <2>1, <2>4 DEF OtpMark, Go
    <3> QED BY <1>7, <2>1, <2>4, <3>1 DEF OtpMark
  <2> QED BY <1>7, <2>2, <2>3, <2>4 DEF OtpMark
<1>8. ASSUME NEW t \in Threads, SessionInsert(t) PROVE TypeOK'
  <2>1. th[t] \in ThreadStates /\ ackd[th[t].key] \in Nat
    OBVIOUS
  <2>2. session' \in [Tokens -> Sessions]
    BY <1>8, <2>1 DEF SessionInsert, Sessions
  <2> QED BY <1>8, <2>2 DEF SessionInsert, Done
<1>9. ASSUME NEW t \in Threads, CreateInsert(t) PROVE TypeOK'
  <2>1. th[t] \in ThreadStates
    OBVIOUS
  <2>2. UNCHANGED <<session, otp, lockouts, ackd, restarts>>
    BY <1>9 DEF CreateInsert
  <2>3. \/ /\ UNCHANGED <<row, issued>>
           /\ th' = [th EXCEPT ![t] = [at |-> "create_raised", key |-> th[t].key, via |-> "none", num |-> 0]]
        \/ /\ row' = [row EXCEPT ![th[t].key] = [status |-> "active", secret |-> issued + 1]]
           /\ issued' = issued + 1 /\ th' = [th EXCEPT ![t] = IdleThread]
    BY ONLY <1>9 DEF CreateInsert, Go, Done
  <2>4. row' \in [KeyIds -> Rows] /\ issued' \in Nat
    BY <2>3
  <2>5. /\ th' \in [Threads -> ThreadStates] /\ th'[t].at # "otp_mark"
        /\ \A u \in Threads \ {t} : th'[u] = th[u]
    BY <2>1, <2>3
  <2>6. \A u \in Threads : At(u, "otp_mark")' => th'[u].via \in Otps /\ otp'[th'[u].via] # "unissued"
    BY <2>2, <2>5
  <2> QED BY ONLY <2>2, <2>4, <2>5, <2>6, TypeOK DEF TypeOK
<1>10. ASSUME NEW t \in Threads, CreateAnswers(t) PROVE TypeOK'
  BY <1>10 DEF CreateAnswers, Done
<1>11. ASSUME NEW t \in Threads, EndSessions(t) PROVE TypeOK'
  <2>1. th[t] \in ThreadStates
    OBVIOUS
  <2>2. session' \in [Tokens -> Sessions]
    BY <1>11, DeleteType DEF EndSessions
  <2>3. ackd' \in [KeyIds -> Nat]
    BY <1>11, <2>1 DEF EndSessions, Max2
  <2> QED BY <1>11, <2>2, <2>3 DEF EndSessions, Done
<1>12. ASSUME NEW o \in Otps, MintOtp(o) PROVE TypeOK'
  BY <1>12 DEF MintOtp
<1>13. ASSUME NEW o \in Otps, OtpExpires(o) PROVE TypeOK'
  BY <1>13 DEF OtpExpires
<1>14. ASSUME NEW s \in Tokens, SessionEnds(s) PROVE TypeOK'
  BY <1>14, DeleteType DEF SessionEnds
<1>15. ASSUME NEW k \in KeyIds, LogoutEverywhere(k) PROVE TypeOK'
  BY <1>15, DeleteType DEF LogoutEverywhere
<1>16. ASSUME NEW dead \in (SUBSET Threads) \ {{}}, WorkerRestarts(dead) PROVE TypeOK'
  <2>1. row' \in [KeyIds -> Rows]
    BY <1>16 DEF WorkerRestarts, EnsureAdminKey, Bootstrap
  <2>2. th' \in [Threads -> ThreadStates]
    BY <1>16 DEF WorkerRestarts
  <2>3. ASSUME NEW u \in Threads, th'[u].at = "otp_mark"
        PROVE  th'[u].via \in Otps /\ otp'[th'[u].via] # "unissued"
    BY <1>16, <2>3 DEF WorkerRestarts
  <2>4. UNCHANGED <<issued, session, otp, lockouts, ackd>> /\ restarts' \in 0..MaxRestarts
    BY <1>16 DEF WorkerRestarts
  <2>5. \A u \in Threads : At(u, "otp_mark")' => th'[u].via \in Otps /\ otp'[th'[u].via] # "unissued"
    BY <2>3
  <2> QED BY ONLY <2>1, <2>2, <2>4, <2>5, TypeOK DEF TypeOK
<1>17. CASE UNCHANGED vars
  BY <1>17 DEF vars
<1> HIDE DEF TypeOK, Rows, ThreadStates, Statuses, Places, Vias, Inactive, At, IdleThread
<1> QED BY <1>1, <1>2, <1>3, <1>4, <1>5, <1>6, <1>7, <1>8, <1>9, <1>10, <1>11,
           <1>12, <1>13, <1>14, <1>15, <1>16, <1>17 DEF Next, Handler

\* The variables keep their types (the three tables of sqlite_store.py).
THEOREM TypeCorrect == Spec => []TypeOK
BY InitTypeOK, NextTypeOK, PTL DEF Spec
-----------------------------------------------------------------------------
(* Sessions against acknowledged lockouts *)

\* A session deleted by Delete is not live, the others are what they were.
LEMMA DeleteFact ==
  ASSUME TypeOK, NEW S, session' = Delete(S), NEW s \in Tokens
  PROVE  /\ session'[s].key = session[s].key /\ session'[s].via = session[s].via
         /\ session'[s].seen = session[s].seen /\ session'[s].late = session[s].late
         /\ session'[s].state = "live" => session[s].state = "live" /\ s \notin S
BY DEF Delete, TypeOK, Sessions

LEMMA SettledInit == Init => SettledSessionsDieWithTheirKey
BY DEF Init, SettledSessionsDieWithTheirKey, Live, NoSession

\* A step leaves the sessions, stores one, ends those of a locked key, or deletes some.
LEMMA SessionChanges ==
  ASSUME Next
  PROVE  \/ UNCHANGED <<session, ackd>>
         \/ \E t \in Threads : SessionInsert(t) \/ EndSessions(t)
         \/ \E S \in SUBSET Tokens : session' = Delete(S) /\ ackd' = ackd
<1>1. CASE \E t \in Threads : Handler(t)
  BY <1>1 DEF Handler, LoginCheck, CreateCheck, Activate, Lockout, Rotate, OtpSelect, OtpMark,
              CreateInsert, CreateAnswers
<1>2. CASE \E o \in Otps : MintOtp(o) \/ OtpExpires(o)
  BY <1>2 DEF MintOtp, OtpExpires
<1>3. CASE (\E s \in Tokens : SessionEnds(s)) \/ \E k \in KeyIds : LogoutEverywhere(k)
  BY <1>3 DEF SessionEnds, LogoutEverywhere, SessionsOf
<1>4. CASE \E dead \in (SUBSET Threads) \ {{}} : WorkerRestarts(dead)
  BY <1>4 DEF WorkerRestarts
<1> QED BY <1>1, <1>2, <1>3, <1>4 DEF Next

LEMMA SettledStep ==
  TypeOK /\ SettledSessionsDieWithTheirKey /\ [Next]_vars => SettledSessionsDieWithTheirKey'
<1> SUFFICES ASSUME TypeOK, SettledSessionsDieWithTheirKey, [Next]_vars,
                    NEW s \in Tokens, session'[s].state = "live", ~session'[s].late
             PROVE  session'[s].seen >= ackd'[session'[s].key]
  BY DEF SettledSessionsDieWithTheirKey, Live
<1>0. session[s].state = "live" /\ ~session[s].late => session[s].seen >= ackd[session[s].key]
  BY DEF SettledSessionsDieWithTheirKey, Live
<1>a. CASE UNCHANGED <<session, ackd>>
  BY <1>0, <1>a
<1>b. ASSUME NEW t \in Threads, SessionInsert(t)
      PROVE  session'[s].seen >= ackd'[session'[s].key]
  <2>1. PICK n \in Tokens : session' = [session EXCEPT ![n] =
            [state |-> "live", key |-> th[t].key, via |-> th[t].via,
             seen |-> th[t].num, late |-> th[t].num < ackd[th[t].key]]]
    BY <1>b DEF SessionInsert
  <2>2. ackd' = ackd /\ th[t] \in ThreadStates /\ ackd[th[t].key] \in Nat
    BY <1>b DEF SessionInsert, TypeOK, ThreadStates
  <2>3. CASE s = n
    <3>1. session'[s].seen = th[t].num /\ session'[s].key = th[t].key
          /\ session'[s].late = (th[t].num < ackd[th[t].key])
      BY <2>1, <2>3 DEF TypeOK
    <3>2. ~(th[t].num < ackd[th[t].key])
      BY <3>1
    <3>3. th[t].num \in Nat
      BY <2>2 DEF ThreadStates
    <3>4. th[t].num >= ackd[th[t].key]
      BY <2>2, <3>2, <3>3
    <3> QED BY <2>2, <3>1, <3>4
  <2>4. CASE s # n
    BY <1>0, <2>1, <2>2, <2>4 DEF TypeOK
  <2> QED BY <2>3, <2>4
<1>c. ASSUME NEW S, session' = Delete(S), ackd' = ackd
      PROVE  session'[s].seen >= ackd'[session'[s].key]
  BY <1>0, <1>c, DeleteFact
<1>d. ASSUME NEW t \in Threads, EndSessions(t)
      PROVE  session'[s].seen >= ackd'[session'[s].key]
  <2>1. session' = Delete(SessionsOf(th[t].key)) /\ th[t] \in ThreadStates
    BY <1>d DEF EndSessions, TypeOK
  <2>2. session[s].state = "live" /\ s \notin SessionsOf(th[t].key)
        /\ session'[s].key = session[s].key /\ session'[s].seen = session[s].seen
        /\ session'[s].late = session[s].late
    BY <2>1, DeleteFact
  <2>3. session[s].key # th[t].key
    BY <2>2 DEF SessionsOf, Live
  <2>4. ackd'[session[s].key] = ackd[session[s].key]
    BY <1>d, <2>3 DEF EndSessions, TypeOK, Sessions
  <2> QED BY <1>0, <2>2, <2>4
<1>e. CASE Next
  BY <1>a, <1>b, <1>c, <1>d, <1>e, SessionChanges
<1> QED BY <1>a, <1>e DEF vars

\* However threads interleave and die, once a suspend, revoke or rotate has
\* returned, only sessions stored after it are open on its key
\* (key_service.set_status, key_service.rotate).
THEOREM SettledSessionsEnd == Spec => []SettledSessionsDieWithTheirKey
BY TypeCorrect, SettledInit, SettledStep, PTL DEF Spec

-----------------------------------------------------------------------------
(* Logins against the status of the key *)

LEMMA SawActiveInit == Init => LoginSawActive
BY AdminAssumption DEF Init, LoginSawActive, NoSession, IdleThread

\* No step lowers a count of lockouts, and a step that locks a key counts it.
LEMMA KeyStep ==
  ASSUME TypeOK, Next, NEW k \in KeyIds
  PROVE  /\ lockouts'[k] >= lockouts[k]
         /\ lockouts'[k] = lockouts[k] /\ row[k].status = "active" =>
              row'[k].status = "active"
<1> DEFINE Fine == /\ lockouts'[k] >= lockouts[k]
                   /\ lockouts'[k] = lockouts[k] /\ row[k].status = "active" =>
                        row'[k].status = "active"
<1>0. row \in [KeyIds -> Rows] /\ lockouts \in [KeyIds -> Nat] /\ row[k] \in Rows
      /\ lockouts[k] \in Nat
  BY DEF TypeOK
<1>1. ASSUME NEW t \in Threads, NEW j \in KeyIds, Activate(t, j)
      PROVE  Fine
  BY <1>0, <1>1 DEF Activate, Rows
<1>2. ASSUME NEW t \in Threads, NEW j \in KeyIds, NEW status \in Inactive,
             Lockout(t, j, status)
      PROVE  Fine
  BY <1>0, <1>2 DEF Lockout
<1>3. ASSUME NEW t \in Threads, NEW j \in KeyIds, Rotate(t, j)
      PROVE  Fine
  BY <1>0, <1>3 DEF Rotate
<1>4. ASSUME NEW t \in Threads, CreateInsert(t)
      PROVE  Fine
  BY <1>0, <1>4 DEF CreateInsert, Rows
<1>5. ASSUME NEW dead \in (SUBSET Threads) \ {{}}, WorkerRestarts(dead)
      PROVE  Fine
  BY <1>0, <1>5 DEF WorkerRestarts, EnsureAdminKey, Rows
<1>6. \/ UNCHANGED <<row, lockouts>>
      \/ \E t \in Threads, j \in KeyIds :
           Activate(t, j) \/ Rotate(t, j) \/ \E status \in Inactive : Lockout(t, j, status)
      \/ \E t \in Threads : CreateInsert(t)
      \/ \E dead \in (SUBSET Threads) \ {{}} : WorkerRestarts(dead)
  BY DEF Next, Handler, LoginCheck, CreateCheck, OtpSelect, OtpMark, SessionInsert,
     CreateAnswers, EndSessions, MintOtp, OtpExpires, SessionEnds, LogoutEverywhere
<1>7. ASSUME UNCHANGED <<row, lockouts>> PROVE Fine
  BY <1>0, <1>7
<1> HIDE DEF Fine
<1>8. Fine
  BY <1>1, <1>2, <1>3, <1>4, <1>5, <1>6, <1>7
<1> QED BY <1>8 DEF Fine

\* A session after a step has the key, the opening and the lockout count it had
\* before, or those of the thread that just stored it.
LEMMA SessionStep ==
  ASSUME TypeOK, Next, NEW s \in Tokens
  PROVE  \/ /\ session'[s].key = session[s].key /\ session'[s].via = session[s].via
            /\ session'[s].seen = session[s].seen
         \/ \E t \in Threads :
              /\ session'[s].key = th[t].key /\ session'[s].via = th[t].via
              /\ session'[s].seen = th[t].num
<1>1. ASSUME NEW t \in Threads, SessionInsert(t)
      PROVE  \/ session'[s] = session[s]
             \/ /\ session'[s].key = th[t].key /\ session'[s].via = th[t].via
                /\ session'[s].seen = th[t].num
  <2>1. PICK n \in Tokens : session' = [session EXCEPT ![n] =
            [state |-> "live", key |-> th[t].key, via |-> th[t].via,
             seen |-> th[t].num, late |-> th[t].num < ackd[th[t].key]]]
    BY <1>1 DEF SessionInsert
  <2>2. DOMAIN session = Tokens
    BY DEF TypeOK
  <2>3. CASE s = n
    BY <2>1, <2>2, <2>3
  <2>4. CASE s # n
    BY <2>1, <2>2, <2>4
  <2> QED BY <2>3, <2>4
<1>2. \/ session' = session
      \/ \E t \in Threads : SessionInsert(t)
      \/ \E S \in SUBSET Tokens : session' = Delete(S)
  <2>1. \A t \in Threads : SessionsOf(th[t].key) \in SUBSET Tokens
    BY DEF SessionsOf
  <2> QED BY <2>1, SessionChanges DEF EndSessions
<1> QED BY <1>1, <1>2, DeleteFact

\* A thread after a step stands for the login it stood for before, or for none, or
\* for one that just found its key active.
LEMMA ThreadStep ==
  ASSUME TypeOK, Next, NEW t \in Threads
  PROVE  \/ /\ th'[t].key = th[t].key /\ th'[t].via = th[t].via /\ th'[t].num = th[t].num
         \/ /\ th'[t].key \in KeyIds /\ th'[t].via # "login"
            /\ th'[t].num \in 0 .. lockouts'[th'[t].key]
         \/ /\ th'[t].key \in KeyIds /\ th'[t].num = lockouts[th'[t].key]
            /\ row[th'[t].key].status = "active" /\ UNCHANGED <<row, lockouts>>
<1> DEFINE Kept == th'[t].key = th[t].key /\ th'[t].via = th[t].via /\ th'[t].num = th[t].num
           NoLogin == th'[t].key \in KeyIds /\ th'[t].via # "login"
                        /\ th'[t].num \in 0 .. lockouts'[th'[t].key]
           Fresh == th'[t].key \in KeyIds /\ th'[t].num = lockouts[th'[t].key]
                      /\ row[th'[t].key].status = "active" /\ UNCHANGED <<row, lockouts>>
<1>0. th \in [Threads -> ThreadStates] /\ lockouts \in [KeyIds -> Nat]
      /\ th[t].key \in KeyIds
  BY DEF TypeOK, ThreadStates
<1>1. ASSUME th'[t] = IdleThread, lockouts' = lockouts PROVE NoLogin
  BY <1>0, <1>1, AdminAssumption DEF IdleThread
<1>2. ASSUME NEW u \in Threads, NEW k \in KeyIds, LoginCheck(u, k) PROVE Kept \/ Fresh
  BY <1>0, <1>2 DEF LoginCheck, Go
<1>3. ASSUME NEW u \in Threads, NEW k \in KeyIds, CreateCheck(u, k) PROVE Kept \/ NoLogin
  BY <1>0, <1>3 DEF CreateCheck, Go
<1>4. ASSUME NEW u \in Threads, NEW k \in KeyIds, NEW status \in Inactive,
             Lockout(u, k, status)
      PROVE  Kept \/ NoLogin
  BY <1>0, <1>4 DEF Lockout, Go
<1>5. ASSUME NEW u \in Threads, NEW k \in KeyIds, Rotate(u, k) PROVE Kept \/ NoLogin
  BY <1>0, <1>5 DEF Rotate, Go
<1>6. ASSUME NEW u \in Threads, NEW o \in Otps, OtpSelect(u, o) PROVE Kept \/ NoLogin
  BY <1>0, <1>6, ViaAssumption, AdminAssumption DEF OtpSelect, Go
<1>7. ASSUME NEW u \in Threads, OtpMark(u) PROVE Kept
  BY <1>0, <1>7 DEF OtpMark, Go
<1>8. ASSUME NEW u \in Threads, CreateInsert(u) PROVE Kept \/ NoLogin
  <2>1. th'[t] = th[t] \/ th'[t] = IdleThread
        \/ th'[t] = [at |-> "create_raised", key |-> th[t].key, via |-> "none", num |-> 0]
    BY <1>0, <1>8 DEF CreateInsert, Go, Done
  <2>2. lockouts' = lockouts /\ lockouts[th[t].key] \in Nat
    BY <1>0, <1>8 DEF CreateInsert
  <2> QED BY <1>0, <1>1, <2>1, <2>2
<1>9. ASSUME NEW u \in Threads, SessionInsert(u) \/ CreateAnswers(u) \/ EndSessions(u)
      PROVE  Kept \/ NoLogin
  BY <1>0, <1>1, <1>9 DEF SessionInsert, CreateAnswers, EndSessions, Done
<1>10. ASSUME NEW dead \in (SUBSET Threads) \ {{}}, WorkerRestarts(dead)
       PROVE  Kept \/ NoLogin
  BY <1>0, <1>1, <1>10 DEF WorkerRestarts
<1>11. ASSUME UNCHANGED th PROVE Kept
  BY <1>11
<1> HIDE DEF Kept, NoLogin, Fresh
<1>12. Kept \/ NoLogin \/ Fresh
  BY <1>2, <1>3, <1>4, <1>5, <1>6, <1>7, <1>8, <1>9, <1>10, <1>11
     DEF Next, Handler, Activate, MintOtp, OtpExpires, SessionEnds, LogoutEverywhere
<1> QED BY <1>12 DEF Kept, NoLogin, Fresh

LEMMA SawActiveStep == TypeOK /\ LoginSawActive /\ [Next]_vars => LoginSawActive'
<1> SUFFICES ASSUME TypeOK, LoginSawActive, [Next]_vars PROVE LoginSawActive'
  OBVIOUS
<1> DEFINE Saw(k, via, n) == n <= lockouts[k]
             /\ (via = "login" /\ n = lockouts[k] => row[k].status = "active")
           Saws(k, via, n) == n <= lockouts'[k]
             /\ (via = "login" /\ n = lockouts'[k] => row'[k].status = "active")
<1>1. CASE UNCHANGED vars
  BY <1>1 DEF vars, LoginSawActive
<1>2. CASE Next
  <2>0. lockouts' \in [KeyIds -> Nat]
    BY NextTypeOK DEF TypeOK
  <2>1. ASSUME NEW k \in KeyIds, NEW via, NEW n \in Nat, Saw(k, via, n)
        PROVE  Saws(k, via, n)
    <3>1. /\ lockouts'[k] >= lockouts[k]
          /\ lockouts'[k] = lockouts[k] /\ row[k].status = "active" => row'[k].status = "active"
      BY <1>2, KeyStep
    <3>2. lockouts[k] \in Nat /\ lockouts'[k] \in Nat
      BY <2>0 DEF TypeOK
    <3> QED BY <2>1, <3>1, <3>2
  <2>2. ASSUME NEW t \in Threads PROVE Saw(th[t].key, th[t].via, th[t].num)
    BY DEF LoginSawActive
  <2>3. ASSUME NEW t \in Threads PROVE th[t].key \in KeyIds /\ th[t].num \in Nat
    BY DEF TypeOK, ThreadStates
  <2>4. ASSUME NEW s \in Tokens PROVE Saw(session[s].key, session[s].via, session[s].seen)
    BY DEF LoginSawActive
  <2>5. ASSUME NEW s \in Tokens PROVE session[s].key \in KeyIds /\ session[s].seen \in Nat
    BY DEF TypeOK, Sessions
  <2> HIDE DEF Saw
  <2>6. ASSUME NEW s \in Tokens
        PROVE  Saws(session'[s].key, session'[s].via, session'[s].seen)
    BY <1>2, <2>1, <2>2, <2>3, <2>4, <2>5, SessionStep
  <2>7. ASSUME NEW t \in Threads PROVE Saws(th'[t].key, th'[t].via, th'[t].num)
    <3>1. CASE th'[t].key = th[t].key /\ th'[t].via = th[t].via /\ th'[t].num = th[t].num
      BY <2>1, <2>2, <2>3, <3>1
    <3>2. CASE th'[t].key \in KeyIds /\ th'[t].via # "login"
               /\ th'[t].num \in 0 .. lockouts'[th'[t].key]
      BY <2>0, <3>2
    <3>3. CASE th'[t].key \in KeyIds /\ th'[t].num = lockouts[th'[t].key]
               /\ row[th'[t].key].status = "active" /\ UNCHANGED <<row, lockouts>>
      BY <2>0, <3>3
    <3> QED BY <1>2, <3>1, <3>2, <3>3, ThreadStep
  <2> QED BY <2>6, <2>7 DEF LoginSawActive
<1> QED BY <1>1, <1>2

\* A suspend or revoke that has returned leaves no settled login open
\* (key_service.set_status, sqlite_store.validate_api_key).
THEOREM LockedKeysHaveNoSettledLogin == Spec => []LockedKeyHasNoSettledLogin
<1>1. TypeOK /\ SettledSessionsDieWithTheirKey /\ LoginSawActive => LockedKeyHasNoSettledLogin
  <2> SUFFICES ASSUME TypeOK, SettledSessionsDieWithTheirKey, LoginSawActive,
                      NEW s \in Tokens, Live(s), session[s].via = "login",
                      ~session[s].late, row[session[s].key].status \in Inactive
               PROVE  ackd[session[s].key] < lockouts[session[s].key]
    BY DEF LockedKeyHasNoSettledLogin
  <2>1. session[s].seen \in Nat /\ ackd[session[s].key] \in Nat
        /\ lockouts[session[s].key] \in Nat
    BY DEF TypeOK, Sessions
  <2>2. session[s].seen >= ackd[session[s].key]
    BY DEF SettledSessionsDieWithTheirKey
  <2>3. session[s].seen <= lockouts[session[s].key]
        /\ session[s].seen # lockouts[session[s].key]
    BY DEF LoginSawActive, Inactive
  <2> QED BY <2>1, <2>2, <2>3
<1> QED BY <1>1, TypeCorrect, SettledSessionsEnd, SawActiveInit, SawActiveStep, PTL DEF Spec

-----------------------------------------------------------------------------
(* Secrets *)

\* A label, once created, exists for good: no statement deletes from api_keys.
AdminExists == row[Admin].status # "absent"

\* Only a fresh secret replaces a secret, and a label stays.
LEMMA RowStep ==
  ASSUME TypeOK, AdminExists, Next, NEW k \in KeyIds
  PROVE  /\ row'[k].secret # row[k].secret => row'[k].secret > issued
         /\ row[k].status # "absent" => row'[k].status # "absent"
<1>0. row \in [KeyIds -> Rows] /\ row[k] \in Rows /\ issued \in Nat
  BY DEF TypeOK
<1>1. ASSUME NEW t \in Threads, NEW j \in KeyIds, Activate(t, j)
      PROVE  row'[k].secret = row[k].secret /\ (row'[k] = row[k] \/ row'[k].status = "active")
  BY <1>0, <1>1 DEF Activate, Rows
<1>2. ASSUME NEW t \in Threads, NEW j \in KeyIds, NEW status \in Inactive,
             Lockout(t, j, status)
      PROVE  row'[k].secret = row[k].secret /\ (row'[k] = row[k] \/ row'[k].status = status)
  BY <1>0, <1>2 DEF Lockout, Rows
<1>3. ASSUME NEW t \in Threads, NEW j \in KeyIds, Rotate(t, j)
      PROVE  row'[k] = row[k] \/ row'[k] = [status |-> "active", secret |-> issued + 1]
  BY <1>0, <1>3 DEF Rotate
<1>4. ASSUME NEW t \in Threads, CreateInsert(t)
      PROVE  row'[k] = row[k] \/ row'[k] = [status |-> "active", secret |-> issued + 1]
  BY <1>0, <1>4 DEF CreateInsert
<1>5. ASSUME NEW dead \in (SUBSET Threads) \ {{}}, WorkerRestarts(dead)
      PROVE  row' = row
  BY <1>5 DEF WorkerRestarts, EnsureAdminKey, AdminExists, Exists
<1>6. \/ row' = row
      \/ \E t \in Threads, j \in KeyIds :
           Activate(t, j) \/ Rotate(t, j) \/ \E status \in Inactive : Lockout(t, j, status)
      \/ \E t \in Threads : CreateInsert(t)
      \/ \E dead \in (SUBSET Threads) \ {{}} : WorkerRestarts(dead)
  BY DEF Next, Handler, LoginCheck, CreateCheck, OtpSelect, OtpMark, SessionInsert,
     CreateAnswers, EndSessions, MintOtp, OtpExpires, SessionEnds, LogoutEverywhere
<1>7. [status |-> "active", secret |-> issued + 1].secret > issued
  BY <1>0
<1> DEFINE Fine == /\ row'[k].secret # row[k].secret => row'[k].secret > issued
                   /\ row[k].status # "absent" => row'[k].status # "absent"
<1>8. ASSUME row'[k] = row[k] \/ row'[k] = [status |-> "active", secret |-> issued + 1]
      PROVE  Fine
  BY <1>7, <1>8
<1>9. ASSUME row'[k].secret = row[k].secret,
             row'[k] = row[k] \/ row'[k].status \in Inactive \cup {"active"}
      PROVE  Fine
  BY <1>9 DEF Inactive
<1> HIDE DEF Fine
<1>10. ASSUME NEW t \in Threads, NEW j \in KeyIds,
              Activate(t, j) \/ Rotate(t, j) \/ \E status \in Inactive : Lockout(t, j, status)
       PROVE  Fine
  BY <1>1, <1>2, <1>3, <1>8, <1>9, <1>10
<1>11. ASSUME NEW t \in Threads, CreateInsert(t) PROVE Fine
  BY <1>4, <1>8, <1>11
<1>12. ASSUME row' = row PROVE Fine
  BY <1>8, <1>12
<1>13. Fine
  BY <1>5, <1>6, <1>10, <1>11, <1>12
<1> QED BY <1>13 DEF Fine

LEMMA AdminExistsStep == TypeOK /\ AdminExists /\ [Next]_vars => AdminExists'
BY AdminAssumption, RowStep DEF AdminExists, vars

\* A rotated secret, the bootstrap one included, never comes back
\* (sqlite_store.ensure_admin_key, sqlite_store.rotate_api_key).
THEOREM SecretsStayRetired == Spec => RetiredSecretStaysRetired
<1>1. TypeOK /\ AdminExists /\ [Next]_vars =>
        [\A k \in KeyIds : row'[k].secret # row[k].secret => row'[k].secret > issued]_vars
  BY RowStep DEF vars
<1>2. Init => AdminExists
  BY AdminAssumption DEF Init, AdminExists
<1> QED BY <1>1, <1>2, TypeCorrect, AdminExistsStep, PTL DEF Spec, RetiredSecretStaysRetired

-----------------------------------------------------------------------------
(* One-time links *)

LEMMA OtpSpentInit == Init => OtpIsSpentFirst
BY ViaAssumption DEF Init, OtpIsSpentFirst, At, NoSession, IdleThread

\* A spent link stays spent.
LEMMA SpentStays ==
  ASSUME TypeOK, Next, NEW o \in Otps, otp[o] = "spent"
  PROVE  otp'[o] = "spent"
<1>1. ASSUME NEW p \in Otps, MintOtp(p) \/ OtpExpires(p) PROVE otp'[o] = "spent"
  BY <1>1 DEF TypeOK, MintOtp, OtpExpires
<1>2. ASSUME NEW t \in Threads, OtpMark(t) PROVE otp'[o] = "spent"
  BY <1>2 DEF TypeOK, OtpMark
<1>3. \/ otp' = otp
      \/ \E p \in Otps : MintOtp(p) \/ OtpExpires(p)
      \/ \E t \in Threads : OtpMark(t)
  <2>1. CASE \E t \in Threads : Handler(t)
    BY <2>1 DEF Handler, LoginCheck, CreateCheck, Activate, Lockout, Rotate, OtpSelect,
                CreateInsert, CreateAnswers, SessionInsert, EndSessions
  <2>2. CASE ~\E t \in Threads : Handler(t)
    BY <2>2 DEF Next, SessionEnds, LogoutEverywhere, WorkerRestarts
  <2> QED BY <2>1, <2>2
<1> QED BY <1>1, <1>2, <1>3

\* The session a step stores is that of a thread about to store one.
LEMMA OpenedBy ==
  ASSUME TypeOK, Next, NEW s \in Tokens
  PROVE  \/ session'[s].via = session[s].via
         \/ \E t \in Threads : At(t, "session_insert") /\ session'[s].via = th[t].via
<1>1. ASSUME NEW t \in Threads, SessionInsert(t)
      PROVE  session'[s].via = session[s].via \/ session'[s].via = th[t].via
  BY <1>1 DEF TypeOK, SessionInsert
<1>2. ASSUME NEW S, session' = Delete(S) PROVE session'[s].via = session[s].via
  BY <1>2, DeleteFact
<1>3. \/ session' = session
      \/ \E t \in Threads : SessionInsert(t)
      \/ \E S \in SUBSET Tokens : session' = Delete(S)
  <2>1. \A t \in Threads : SessionsOf(th[t].key) \in SUBSET Tokens
    BY DEF SessionsOf
  <2> QED BY <2>1, SessionChanges DEF EndSessions
<1> QED BY <1>1, <1>2, <1>3 DEF SessionInsert

\* A thread gets to store a session after it validated a login or marked its link.
LEMMA ReachesInsert ==
  ASSUME TypeOK, Next, NEW t \in Threads, th'[t].at = "session_insert"
  PROVE  \/ th'[t].via = "login"
         \/ At(t, "session_insert") /\ th'[t].via = th[t].via
         \/ th'[t].via \in Otps /\ otp'[th'[t].via] = "spent"
<1> DEFINE Goal == \/ th'[t].via = "login"
                   \/ At(t, "session_insert") /\ th'[t].via = th[t].via
                   \/ th'[t].via \in Otps /\ otp'[th'[t].via] = "spent"
<1>0. th \in [Threads -> ThreadStates]
  BY DEF TypeOK
<1>1. ASSUME th'[t] = th[t] PROVE Goal
  BY <1>1 DEF At
<1>2. ASSUME NEW u \in Threads, NEW k \in KeyIds, LoginCheck(u, k) PROVE Goal
  BY <1>0, <1>1, <1>2 DEF LoginCheck, Go
<1>3. ASSUME NEW u \in Threads, OtpMark(u) PROVE Goal
  <2>1. CASE u = t
    <3>1. th'[t].via = th[t].via /\ th[t].via \in Otps /\ otp'[th[t].via] = "spent"
      BY <1>0, <1>3, <2>1 DEF OtpMark, Go, TypeOK
    <3> QED BY <3>1
  <2>2. CASE u # t
    BY <1>0, <1>1, <1>3, <2>2 DEF OtpMark, Go
  <2> QED BY <2>1, <2>2
<1>4. ASSUME NEW u \in Threads, Done(u) PROVE Goal
  BY <1>0, <1>1, <1>4 DEF Done, IdleThread
<1>5. ASSUME NEW u \in Threads, NEW place, NEW k, NEW via, NEW n, place # "session_insert",
             Go(u, place, k, via, n)
      PROVE  Goal
  BY <1>0, <1>1, <1>5 DEF Go
<1>6. ASSUME NEW dead \in (SUBSET Threads) \ {{}}, WorkerRestarts(dead) PROVE Goal
  BY <1>0, <1>1, <1>6 DEF WorkerRestarts, IdleThread
<1>7. \/ th' = th
      \/ \E u \in Threads, k \in KeyIds : LoginCheck(u, k)
      \/ \E u \in Threads : OtpMark(u) \/ Done(u)
      \/ \E u \in Threads, place \in Places \ {"session_insert"}, k \in KeyIds, via \in Vias, n \in Nat :
           Go(u, place, k, via, n)
      \/ \E dead \in (SUBSET Threads) \ {{}} : WorkerRestarts(dead)
  <2>1. ASSUME NEW u \in Threads, NEW k \in KeyIds, CreateCheck(u, k)
        PROVE  \E place \in Places \ {"session_insert"} : Go(u, place, k, "none", 0)
    BY <2>1 DEF CreateCheck, Places
  <2>2. ASSUME NEW u \in Threads, NEW k \in KeyIds, Rotate(u, k) \/ \E status \in Inactive : Lockout(u, k, status)
        PROVE  \E n \in Nat : Go(u, "end_sessions", k, "none", n)
    BY <2>2 DEF Rotate, Lockout, TypeOK
  <2>3. ASSUME NEW u \in Threads, NEW o \in Otps, OtpSelect(u, o)
        PROVE  \E n \in Nat : Go(u, "otp_mark", Admin, o, n)
    BY <2>3, AdminAssumption DEF OtpSelect, TypeOK
  <2>4. ASSUME NEW u \in Threads, CreateInsert(u)
        PROVE  Done(u) \/ (Go(u, "create_raised", th[u].key, "none", 0) /\ th[u].key \in KeyIds)
    BY <1>0, <2>4 DEF CreateInsert, ThreadStates
  <2> QED BY <2>1, <2>2, <2>3, <2>4, AdminAssumption
             DEF Next, Handler, Activate, SessionInsert, CreateAnswers, EndSessions, MintOtp,
                 OtpExpires, SessionEnds, LogoutEverywhere, Places, Vias
<1> HIDE DEF Goal
<1>8. Goal
  BY <1>1, <1>2, <1>3, <1>4, <1>5, <1>6, <1>7
<1> QED BY <1>8 DEF Goal

LEMMA OtpSpentStep == TypeOK /\ OtpIsSpentFirst /\ [Next]_vars => OtpIsSpentFirst'
<1> SUFFICES ASSUME TypeOK, OtpIsSpentFirst, [Next]_vars PROVE OtpIsSpentFirst'
  OBVIOUS
<1>1. CASE UNCHANGED vars
  BY <1>1 DEF vars, OtpIsSpentFirst, At
<1>2. CASE Next
  <2>1. ASSUME NEW s \in Tokens, session'[s].via \in Otps PROVE otp'[session'[s].via] = "spent"
    <3>1. otp[session'[s].via] = "spent"
      BY <1>2, <2>1, OpenedBy DEF OtpIsSpentFirst
    <3> QED BY <1>2, <2>1, <3>1, SpentStays
  <2>2. ASSUME NEW t \in Threads, th'[t].at = "session_insert", th'[t].via \in Otps
        PROVE  otp'[th'[t].via] = "spent"
    <3>1. CASE At(t, "session_insert") /\ th'[t].via = th[t].via
      <4>1. otp[th'[t].via] = "spent"
        BY <2>2, <3>1 DEF OtpIsSpentFirst
      <4> QED BY <1>2, <2>2, <4>1, SpentStays
    <3> QED BY <1>2, <2>2, <3>1, ReachesInsert, ViaAssumption
  <2> QED BY <2>1, <2>2 DEF OtpIsSpentFirst, At
<1> QED BY <1>1, <1>2

\* For any number of links, threads and worker deaths: a link that a session was opened
\* with, or is about to be, is spent for good (sqlite_store.consume_setup_otp).
THEOREM LinksAreSpentFirst == Spec => []OtpIsSpentFirst
BY TypeCorrect, OtpSpentInit, OtpSpentStep, PTL DEF Spec

-----------------------------------------------------------------------------
(* The setup wizard: type correctness *)

\* The draft that a form loaded is one.
LEMMA LoadedDraft ==
  ASSUME WizardTypeOK, NEW a \in Admins, NEW form, Handling(a, form), form \in Forms
  PROVE  loop.draft \in Drafts
BY DEF WizardTypeOK, Handling, Idle, Forms

\* A saved draft is a row of the table.
LEMMA SavedRow ==
  ASSUME WizardTypeOK, NEW a \in Admins, NEW d \in Drafts, NEW step \in Steps, Save(a, d, step)
  PROVE  stored' \in [Admins -> DraftRows]
BY DEF WizardTypeOK, Save, DraftRows

LEMMA NewDraftIsDraft == NewDraft \in Drafts /\ Absent \in DraftRows
BY DEF NewDraft, Drafts, Absent, DraftRows, Types, Modes, Auths, Fields

LEMMA StoredDraft ==
  ASSUME WizardTypeOK, NEW a \in Admins
  PROVE  Load(a) \in Drafts
BY NewDraftIsDraft DEF WizardTypeOK, Load, DraftRows, Absent

LEMMA FormIsDraft ==
  ASSUME NEW d \in Drafts, NEW e \in BackendForms(d)
  PROVE  e \in Drafts
<1>1. PICK url \in BOOLEAN, type \in Types, mode \in {"none", "basic"}, typed \in BOOLEAN :
        e = FromBackendForm(d, url, type, mode, typed)
  BY DEF BackendForms
<1> DEFINE auth == IF mode = "none" THEN "none"
                   ELSE IF typed \/ d.auth = "secret" THEN "secret" ELSE "bare"
<1>2. auth \in Auths
  BY DEF Auths
<1>3. e = [NewDraft EXCEPT !.url = url, !.type = type, !.index = d.index, !.fields = d.fields,
             !.mapping = d.mapping, !.auth = auth]
  BY <1>1 DEF FromBackendForm
<1> HIDE DEF auth
<1> QED BY <1>2, <1>3, NewDraftIsDraft DEF Drafts

LEMMA ProposalIsDraft ==
  ASSUME NEW d \in Drafts
  PROVE  WithProposal(d) \in Drafts /\ WithProposal(d).mode = d.mode /\ SameBackend(WithProposal(d), d)
BY DEF WithProposal, Propose, Drafts, SameBackend

\* Of these forms each saves the draft it loaded, or nothing, with another answer to its own
\* screen: the backend and the public mode stay what they were.
Screens(a) ==
  \/ SubmitSource(a) \/ SetProfile(a) \/ SubmitMapping(a) \/ SubmitExposure(a)
  \/ SubmitKeys(a) \/ SubmitTest(a)
KeepsChoices(d) == d.mode = loop.draft.mode /\ SameBackend(d, loop.draft)
SavesOnly(a) ==
  \/ stored' = stored
  \/ \E d \in Drafts, step \in Steps : Save(a, d, step) /\ KeepsChoices(d)

LEMMA ScreensKeepChoices ==
  ASSUME WizardTypeOK, NEW a \in Admins, Screens(a)
  PROVE  /\ SavesOnly(a) /\ \E form \in Forms : Handling(a, form)
         /\ Handled /\ UNCHANGED <<config, shown, told, adopted, chosen, intact>>
<1>1. loop.draft \in Drafts
  BY LoadedDraft DEF Screens, SubmitSource, SetProfile, SubmitMapping, SubmitExposure, SubmitKeys,
                     SubmitTest, Forms
<1>2. Handled /\ UNCHANGED <<config, shown, told, adopted, chosen, intact>>
  BY DEF Screens, SubmitSource, SetProfile, SubmitMapping, SubmitExposure, SubmitKeys, SubmitTest
<1>3. \E form \in Forms : Handling(a, form)
  BY DEF Screens, SubmitSource, SetProfile, SubmitMapping, SubmitExposure, SubmitKeys, SubmitTest,
         Forms
<1> SUFFICES SavesOnly(a)
  BY <1>2, <1>3
<1>4. ASSUME NEW index \in BOOLEAN
      PROVE  /\ [loop.draft EXCEPT !.index = index] \in Drafts
             /\ KeepsChoices([loop.draft EXCEPT !.index = index])
  BY <1>1 DEF Drafts, KeepsChoices, SameBackend
<1>5. ASSUME NEW index \in BOOLEAN, NEW fields \in SUBSET Fields
      PROVE  /\ [loop.draft EXCEPT !.index = index, !.fields = fields] \in Drafts
             /\ KeepsChoices([loop.draft EXCEPT !.index = index, !.fields = fields])
  BY <1>1 DEF Drafts, KeepsChoices, SameBackend
<1>6. CASE SubmitSource(a)
  <2>1. CASE stored' = stored
    BY <2>1 DEF SavesOnly
  <2>2. CASE \E index \in BOOLEAN : Save(a, [loop.draft EXCEPT !.index = index], "source")
    BY <1>4, <2>2 DEF SavesOnly, Steps
  <2>3. CASE \E index \in BOOLEAN, fields \in SUBSET Fields, only \in BOOLEAN :
               Save(a, [loop.draft EXCEPT !.index = index \/ only, !.fields = fields], "source")
    <3>1. PICK index \in BOOLEAN, fields \in SUBSET Fields, only \in BOOLEAN :
            Save(a, [loop.draft EXCEPT !.index = index \/ only, !.fields = fields], "source")
      BY <2>3
    <3>2. PICK known \in BOOLEAN : [loop.draft EXCEPT !.index = index \/ only, !.fields = fields]
                                  = [loop.draft EXCEPT !.index = known, !.fields = fields]
      OBVIOUS
    <3>3. Save(a, [loop.draft EXCEPT !.index = known, !.fields = fields], "source")
      BY <3>1, <3>2
    <3> QED BY <1>5, <3>3 DEF SavesOnly, Steps
  <2>4. CASE Save(a, WithProposal([loop.draft EXCEPT !.index = TRUE]), "mapping")
    <3>1. KeepsChoices(WithProposal([loop.draft EXCEPT !.index = TRUE]))
      BY <1>4, ProposalIsDraft DEF KeepsChoices, SameBackend
    <3> QED BY <1>4, <2>4, <3>1, ProposalIsDraft DEF SavesOnly, Steps
  <2> QED BY <1>6, <2>1, <2>2, <2>3, <2>4 DEF SubmitSource
<1>7. CASE SetProfile(a)
  <2>1. PICK custom \in BOOLEAN :
          LET d == [loop.draft EXCEPT !.custom = custom] IN
          Save(a, IF custom \/ d.fields # {} THEN [d EXCEPT !.mapping = Propose(d)] ELSE d, "mapping")
    BY <1>7 DEF SetProfile
  <2> DEFINE d == [loop.draft EXCEPT !.custom = custom]
             e == IF custom \/ d.fields # {} THEN [d EXCEPT !.mapping = Propose(d)] ELSE d
  <2>2. d \in Drafts /\ KeepsChoices(d)
    BY <1>1 DEF Drafts, KeepsChoices, SameBackend
  <2>3. e \in Drafts /\ KeepsChoices(e)
    <3> HIDE DEF d
    <3> QED BY <2>2 DEF Drafts, KeepsChoices, SameBackend, Propose
  <2>4. Save(a, e, "mapping")
    BY <2>1
  <2> QED BY <2>3, <2>4 DEF SavesOnly, Steps
<1>8. CASE SubmitMapping(a)
  <2>1. \A m \in SUBSET Fields : /\ [loop.draft EXCEPT !.mapping = m] \in Drafts
                                /\ KeepsChoices([loop.draft EXCEPT !.mapping = m])
    BY <1>1 DEF Drafts, KeepsChoices, SameBackend
  <2> QED BY <1>8, <2>1 DEF SubmitMapping, SavesOnly, Steps
<1>9. CASE SubmitExposure(a)
  <2>1. \A include \in SUBSET Extras : /\ [loop.draft EXCEPT !.include = include] \in Drafts
                                      /\ KeepsChoices([loop.draft EXCEPT !.include = include])
    BY <1>1 DEF Drafts, KeepsChoices, SameBackend
  <2> QED BY <1>9, <2>1 DEF SubmitExposure, SavesOnly, Steps
<1>10. CASE SubmitKeys(a)
  <2>1. /\ [loop.draft EXCEPT !.key = TRUE] \in Drafts /\ KeepsChoices([loop.draft EXCEPT !.key = TRUE])
        /\ KeepsChoices(loop.draft)
    BY <1>1 DEF Drafts, KeepsChoices, SameBackend
  <2> QED BY <1>1, <1>10, <2>1 DEF SubmitKeys, SavesOnly, Steps
<1>11. CASE SubmitTest(a)
  <2>1. KeepsChoices(loop.draft)
    BY DEF KeepsChoices, SameBackend
  <2> QED BY <1>1, <1>11, <2>1 DEF SubmitTest, SavesOnly, Steps
<1> QED BY <1>6, <1>7, <1>8, <1>9, <1>10, <1>11 DEF Screens

LEMMA InitWizardTypeOK == WizardInit => WizardTypeOK
BY NewDraftIsDraft, PostsAssumption
   DEF WizardInit, WizardTypeOK, Configs, Modes, Fields

LEMMA NextWizardTypeOK == WizardTypeOK /\ [WizardNext]_wizard => WizardTypeOK'
<1> SUFFICES ASSUME WizardTypeOK, [WizardNext]_wizard PROVE WizardTypeOK'
  OBVIOUS
<1>a. Absent \in DraftRows /\ NewDraft \in Drafts
  BY NewDraftIsDraft
<1>b. ASSUME NEW a \in Admins, NEW d \in Drafts, NEW step \in Steps, Save(a, d, step), Handled,
             UNCHANGED <<config, shown, told>>,
             adopted' \in [Admins -> BOOLEAN], intact' \in [Admins -> BOOLEAN], chosen' \in [Admins -> Modes]
      PROVE  WizardTypeOK'
  BY <1>b, SavedRow DEF WizardTypeOK, Handled
<1>c. ASSUME stored' = stored, Handled, UNCHANGED <<config, shown, told>>,
             adopted' \in [Admins -> BOOLEAN], intact' \in [Admins -> BOOLEAN], chosen' \in [Admins -> Modes]
      PROVE  WizardTypeOK'
  BY <1>c DEF WizardTypeOK, Handled
<1>d. /\ adopted \in [Admins -> BOOLEAN] /\ intact \in [Admins -> BOOLEAN] /\ chosen \in [Admins -> Modes]
      /\ {"backend", "source", "mapping", "security", "exposure", "keys", "test", "done"} = Steps
  BY DEF WizardTypeOK, Steps
<1>e. \A a \in Admins, form \in Forms : Handling(a, form) => loop.draft \in Drafts
  BY LoadedDraft
<1>f. ASSUME NEW b \in [Admins -> BOOLEAN], NEW a \in Admins, NEW v \in BOOLEAN
      PROVE  [b EXCEPT ![a] = v] \in [Admins -> BOOLEAN]
  OBVIOUS
<1>1. ASSUME NEW a \in Admins, Post(a) PROVE WizardTypeOK'
  BY <1>1, StoredDraft, PostsAssumption DEF Post, WizardTypeOK
<1>2. ASSUME NEW a \in Admins, StartDraft(a) PROVE WizardTypeOK'
  BY <1>2, <1>a, <1>b, <1>d, <1>f DEF StartDraft
<1>3. ASSUME NEW a \in Admins, ResetDraft(a) PROVE WizardTypeOK'
  BY <1>3, <1>a DEF ResetDraft, WizardTypeOK, Handled
<1>4. ASSUME NEW a \in Admins, SetLanguage(a) PROVE WizardTypeOK'
  <2>1. config' \in Configs
    BY <1>4 DEF SetLanguage, WizardTypeOK, Configs
  <2> QED BY <1>4, <2>1 DEF SetLanguage, WizardTypeOK, Handled
<1>5. ASSUME NEW a \in Admins, Discover(a) PROVE WizardTypeOK'
  <2>1. Probe(server) \in {"ok", "needs_auth", "unsupported_version", "unreachable", "raises"}
    BY DEF Probe, Interpret
  <2> HIDE DEF Probe
  <2> QED BY <1>5, <2>1 DEF Discover, WizardTypeOK, Handled
<1>6. ASSUME NEW a \in Admins, UseCandidate(a) PROVE WizardTypeOK'
  <2>1. loop.draft \in Drafts
    BY <1>6, LoadedDraft DEF UseCandidate, Forms
  <2>2. [loop.draft EXCEPT !.url = TRUE,
           !.type = IF server.product = "opensearch" THEN "opensearch" ELSE "elasticsearch"] \in Drafts
    BY <2>1 DEF Drafts, Types
  <2> QED BY <1>6, <1>b, <1>d, <1>f, <2>2 DEF UseCandidate
<1>7. ASSUME NEW a \in Admins, NoCandidate(a) PROVE WizardTypeOK'
  BY <1>7, <1>c, <1>d DEF NoCandidate
<1>8. ASSUME NEW a \in Admins, TestBackend(a) PROVE WizardTypeOK'
  <2>1. loop.draft \in Drafts
    BY <1>8, LoadedDraft DEF TestBackend, Forms
  <2>2. PICK d \in BackendForms(loop.draft) :
          /\ Save(a, d, "backend")
          /\ \E ok \in Detects(d) : told' = [told EXCEPT ![a] = IF ok THEN "ok" ELSE "failed"]
          /\ adopted' = [adopted EXCEPT ![a] = adopted[a] /\ SameBackend(d, loop.draft)]
    BY <1>8 DEF TestBackend
  <2>3. stored' \in [Admins -> DraftRows]
    BY <1>d, <2>1, <2>2, FormIsDraft, SavedRow
  <2>4. told' \in [Admins -> {"nothing", "ok", "failed"}]
    BY <2>2 DEF WizardTypeOK
  <2>5. adopted' \in [Admins -> BOOLEAN]
    BY <1>d, <2>2 DEF SameBackend
  <2> QED BY <1>8, <2>3, <2>4, <2>5 DEF TestBackend, WizardTypeOK, Handled
<1>9. ASSUME NEW a \in Admins, SubmitBackend(a) PROVE WizardTypeOK'
  <2>1. loop.draft \in Drafts
    BY <1>9, LoadedDraft DEF SubmitBackend, Forms
  <2>2. PICK d \in BackendForms(loop.draft) :
          \/ /\ Save(a, d, "source")
             /\ adopted' = [adopted EXCEPT ![a] = adopted[a] /\ SameBackend(d, loop.draft)]
             /\ intact' = [intact EXCEPT ![a] = FALSE]
          \/ UNCHANGED <<stored, adopted, intact>>
    BY <1>9 DEF SubmitBackend
  <2>3. d \in Drafts
    BY <2>1, FormIsDraft
  <2>4. adopted' \in [Admins -> BOOLEAN] /\ intact' \in [Admins -> BOOLEAN]
    BY <1>d, <2>2 DEF SameBackend
  <2> QED BY <1>9, <1>b, <1>c, <1>d, <2>2, <2>3, <2>4 DEF SubmitBackend
<1>10. ASSUME NEW a \in Admins, Screens(a) PROVE WizardTypeOK'
  BY <1>10, <1>b, <1>c, <1>d, ScreensKeepChoices DEF SavesOnly
<1>11. ASSUME NEW a \in Admins, PageProposes(a) PROVE WizardTypeOK'
  BY <1>11, StoredDraft, ProposalIsDraft DEF PageProposes, WizardTypeOK
<1>12. ASSUME NEW a \in Admins, PageSaves(a) PROVE WizardTypeOK'
  <2>1. PICK d \in page[a] :
          /\ Save(a, d, "mapping")
          /\ page' = [page EXCEPT ![a] = @ \ {d}]
          /\ adopted' = [adopted EXCEPT ![a] = @ /\ SameBackend(d, Load(a))]
          /\ intact' = [intact EXCEPT ![a] = @ /\ d.mode = chosen[a]]
    BY <1>12 DEF PageSaves
  <2>2. d \in Drafts /\ page' \in [Admins -> SUBSET Drafts]
    BY <2>1 DEF WizardTypeOK
  <2>3. stored' \in [Admins -> DraftRows]
    BY <1>d, <2>1, <2>2, SavedRow
  <2>4. adopted' \in [Admins -> BOOLEAN] /\ intact' \in [Admins -> BOOLEAN]
    BY <1>d, <2>1 DEF SameBackend
  <2> QED BY <1>12, <2>2, <2>3, <2>4 DEF PageSaves, WizardTypeOK
<1>13. ASSUME NEW a \in Admins, SubmitSecurity(a) PROVE WizardTypeOK'
  <2>1. loop.draft \in Drafts
    BY <1>13, LoadedDraft DEF SubmitSecurity, Forms
  <2>2. PICK m \in Modes : Save(a, [loop.draft EXCEPT !.mode = m], "exposure")
                           /\ chosen' = [chosen EXCEPT ![a] = m]
    BY <1>13 DEF SubmitSecurity
  <2>3. [loop.draft EXCEPT !.mode = m] \in Drafts
    BY <2>1 DEF Drafts
  <2>4. chosen' \in [Admins -> Modes]
    BY <1>d, <2>2
  <2> QED BY <1>13, <1>b, <1>d, <1>f, <2>2, <2>3, <2>4 DEF SubmitSecurity
<1>14. ASSUME NEW a \in Admins, Publish(a) \/ PublishHalfway(a) PROVE WizardTypeOK'
  <2>1. loop.draft \in Drafts /\ loop.draft.auth # "bare"
    BY <1>14, LoadedDraft DEF Publish, PublishHalfway, Forms, Validates, DraftToConfig
  <2>2. config' \in Configs
    BY <1>14, <2>1 DEF Publish, PublishHalfway, DraftToConfig, Configs, Drafts, Auths, Fields
  <2>3. CASE Publish(a)
    BY <1>a, <2>2, <2>3 DEF Publish, WizardTypeOK, Handled
  <2>4. CASE PublishHalfway(a)
    BY <2>2, <2>4 DEF PublishHalfway, WizardTypeOK, Handled
  <2> QED BY <1>14, <2>3, <2>4
<1>15. ASSUME NEW a \in Admins, PublishRefused(a) PROVE WizardTypeOK'
  BY <1>15, <1>c, <1>d DEF PublishRefused
<1>16. CASE UNCHANGED wizard
  BY <1>16 DEF wizard, WizardTypeOK
<1> QED BY <1>1, <1>2, <1>3, <1>4, <1>5, <1>6, <1>7, <1>8, <1>9, <1>10, <1>11, <1>12, <1>13, <1>14,
           <1>15, <1>16 DEF WizardNext, Screens

\* The variables of the wizard keep their types for any number of administrators and forms.
THEOREM WizardTypeCorrect == WizardSpec => []WizardTypeOK
BY InitWizardTypeOK, NextWizardTypeOK, PTL DEF WizardSpec

-----------------------------------------------------------------------------
(* What is published *)

\* A choice that nothing has undone is in the draft, also in the one a form has loaded.
ChoiceKept ==
  \A a \in Admins : intact[a] =>
    /\ Load(a).mode = chosen[a]
    /\ \A form \in Forms : Handling(a, form) => loop.draft.mode = chosen[a]

\* The draft's backend is the one the search looks at: its address, its product, no
\* credentials.
Adopts(d) ==
  /\ d.url /\ d.auth = "none"
  /\ d.type = IF server.product = "opensearch" THEN "opensearch" ELSE "elasticsearch"

\* What the search reports as ok is, and an adopted backend is in the draft and in the one a
\* form has loaded.
AdoptedFits ==
  \A a \in Admins :
    /\ shown[a] = "ok" => Probe(server) = "ok"
    /\ adopted[a] => /\ Probe(server) = "ok" /\ Adopts(Load(a))
                     /\ \A form \in Forms : Handling(a, form) => Adopts(loop.draft)

\* Saving a draft changes it for its administrator and for nobody else.
LEMMA SaveLoads ==
  ASSUME WizardTypeOK, NEW a \in Admins, NEW d, NEW step, Save(a, d, step)
  PROVE  Load(a)' = d /\ \A b \in Admins \ {a} : Load(b)' = Load(b)
BY DEF WizardTypeOK, Save, Load

\* After a form there is none.
LEMMA HandledIsIdle ==
  ASSUME Handled
  PROVE  \A b \in Admins, form \in Forms : ~Handling(b, form)'
BY DEF Handled, Handling, Idle, Forms

LEMMA NextChoiceKept ==
  WizardTypeOK /\ ChoiceKept /\ [WizardNext]_wizard => ChoiceKept'
<1> DEFINE Kept(b) == /\ Load(b)'.mode = chosen'[b]
                      /\ \A form \in Forms : Handling(b, form)' => loop'.draft.mode = chosen'[b]
<1> SUFFICES ASSUME WizardTypeOK, ChoiceKept, [WizardNext]_wizard, NEW b \in Admins, intact'[b]
             PROVE  Kept(b)
  BY DEF ChoiceKept
<1>t. intact \in [Admins -> BOOLEAN] /\ chosen \in [Admins -> Modes] /\ stored \in [Admins -> DraftRows]
  BY DEF WizardTypeOK
<1>a. ASSUME UNCHANGED <<stored, chosen>>, intact[b], Handled \/ UNCHANGED loop PROVE Kept(b)
  BY <1>a, HandledIsIdle DEF ChoiceKept, Load, Handling
<1>b. ASSUME NEW a \in Admins, NEW form \in Forms, Handling(a, form), NEW d, NEW step, Save(a, d, step),
             d.mode = loop.draft.mode, Handled, UNCHANGED <<chosen, intact>>
      PROVE  Kept(b)
  <2>1. \A f \in Forms : ~Handling(b, f)'
    BY <1>b, HandledIsIdle
  <2>2. CASE a = b
    BY <1>b, <2>1, <2>2, SaveLoads DEF ChoiceKept
  <2>3. CASE a # b
    BY <1>b, <2>1, <2>3, SaveLoads DEF ChoiceKept
  <2> QED BY <2>2, <2>3
<1>c. ASSUME NEW a \in Admins, intact' = [intact EXCEPT ![a] = FALSE], Handled, UNCHANGED chosen,
             \A c \in Admins \ {a} : Load(c)' = Load(c)
      PROVE  Kept(b)
  <2>1. b # a /\ intact[b]
    BY <1>c, <1>t
  <2> QED BY <1>c, <2>1, HandledIsIdle DEF ChoiceKept
<1>1. ASSUME NEW a \in Admins, Post(a) PROVE Kept(b)
  <2>1. PICK form \in Forms : loop' = [form |-> form, by |-> a, draft |-> Load(a)]
    BY <1>1 DEF Post
  <2>2. UNCHANGED <<stored, chosen, intact>>
    BY <1>1 DEF Post
  <2>3. Load(b)' = Load(b)
    BY <2>2 DEF Load
  <2>4. \A f \in Forms : Handling(b, f)' => a = b
    BY <2>1 DEF Handling
  <2> QED BY <2>1, <2>2, <2>3, <2>4 DEF ChoiceKept
<1>2. ASSUME NEW a \in Admins, StartDraft(a) PROVE Kept(b)
  BY <1>2, <1>c, SaveLoads DEF StartDraft
<1>3. ASSUME NEW a \in Admins, ResetDraft(a) \/ Publish(a) PROVE Kept(b)
  BY <1>3, <1>c, <1>t DEF ResetDraft, Publish, Load
<1>4. ASSUME NEW a \in Admins, SetLanguage(a) \/ Discover(a) \/ NoCandidate(a) \/ PublishRefused(a)
                               \/ PublishHalfway(a)
      PROVE  Kept(b)
  BY <1>4, <1>a DEF SetLanguage, Discover, NoCandidate, PublishRefused, PublishHalfway
<1>5. ASSUME NEW a \in Admins, UseCandidate(a) PROVE Kept(b)
  <2>1. loop.draft \in Drafts /\ Handling(a, "use") /\ "use" \in Forms
    BY <1>5, LoadedDraft DEF UseCandidate, Forms
  <2>2. [loop.draft EXCEPT !.url = TRUE,
           !.type = IF server.product = "opensearch" THEN "opensearch" ELSE "elasticsearch"].mode
        = loop.draft.mode
    BY <2>1 DEF Drafts
  <2> QED BY <1>5, <1>b, <2>1, <2>2 DEF UseCandidate
<1>6. ASSUME NEW a \in Admins, TestBackend(a) PROVE Kept(b)
  BY <1>6, <1>c, SaveLoads DEF TestBackend
<1>7. ASSUME NEW a \in Admins, SubmitBackend(a) PROVE Kept(b)
  BY <1>7, <1>a, <1>c, SaveLoads DEF SubmitBackend
<1>8. ASSUME NEW a \in Admins, Screens(a) PROVE Kept(b)
  <2>1. /\ SavesOnly(a) /\ Handled /\ UNCHANGED <<chosen, intact>>
        /\ \E form \in Forms : Handling(a, form)
    BY <1>8, ScreensKeepChoices
  <2>2. CASE stored' = stored
    BY <1>a, <2>1, <2>2
  <2>3. CASE \E d \in Drafts, step \in Steps : Save(a, d, step) /\ KeepsChoices(d)
    BY <1>b, <2>1, <2>3 DEF KeepsChoices
  <2> QED BY <2>1, <2>2, <2>3 DEF SavesOnly
<1>9. ASSUME NEW a \in Admins, PageProposes(a) PROVE Kept(b)
  BY <1>9, <1>a DEF PageProposes
<1>10. ASSUME NEW a \in Admins, PageSaves(a) PROVE Kept(b)
  <2>1. PICK d \in page[a] : /\ Save(a, d, "mapping")
                             /\ intact' = [intact EXCEPT ![a] = @ /\ d.mode = chosen[a]]
    BY <1>10 DEF PageSaves
  <2>2. UNCHANGED <<loop, chosen>>
    BY <1>10 DEF PageSaves
  <2>3. intact[b] /\ (a = b => d.mode = chosen[a])
    BY <1>t, <2>1
  <2>4. Load(b)'.mode = chosen[b]
    BY <2>1, <2>3, SaveLoads DEF ChoiceKept
  <2> QED BY <2>2, <2>3, <2>4 DEF ChoiceKept, Handling
<1>11. ASSUME NEW a \in Admins, SubmitSecurity(a) PROVE Kept(b)
  <2>1. loop.draft \in Drafts
    BY <1>11, LoadedDraft DEF SubmitSecurity, Forms
  <2>2. PICK m \in Modes : /\ Save(a, [loop.draft EXCEPT !.mode = m], "exposure")
                           /\ chosen' = [chosen EXCEPT ![a] = m]
    BY <1>11 DEF SubmitSecurity
  <2>3. Handled /\ intact' = [intact EXCEPT ![a] = TRUE]
    BY <1>11 DEF SubmitSecurity
  <2>4. \A f \in Forms : ~Handling(b, f)'
    BY <2>3, HandledIsIdle
  <2>5. [loop.draft EXCEPT !.mode = m].mode = m
    BY <2>1 DEF Drafts
  <2>6. CASE a = b
    BY <1>t, <2>2, <2>4, <2>5, <2>6, SaveLoads
  <2>7. CASE a # b
    BY <1>t, <2>2, <2>3, <2>4, <2>7, SaveLoads DEF ChoiceKept
  <2> QED BY <2>6, <2>7
<1>12. CASE UNCHANGED wizard
  BY <1>12, <1>a DEF wizard
<1> QED BY <1>1, <1>2, <1>3, <1>4, <1>5, <1>6, <1>7, <1>8, <1>9, <1>10, <1>11, <1>12
        DEF WizardNext, Screens

LEMMA InitChoiceKept == WizardInit => ChoiceKept
BY DEF WizardInit, ChoiceKept

\* A configuration changes with the language or a publication.
LEMMA ConfigChanges ==
  ASSUME WizardTypeOK, [WizardNext]_wizard, config' # config
  PROVE  \E a \in Admins : SetLanguage(a) \/ Publish(a) \/ PublishHalfway(a)
<1>1. \A a \in Admins : Screens(a) => config' = config
  BY ScreensKeepChoices
<1> QED BY <1>1
  DEF WizardNext, wizard, Screens, Post, StartDraft, ResetDraft, Discover, UseCandidate, NoCandidate,
      TestBackend, SubmitBackend, PageProposes, PageSaves, SubmitSecurity, PublishRefused

LEMMA PublishesChoice ==
  ASSUME WizardTypeOK, ChoiceKept, [WizardNext]_wizard,
         NEW a \in Admins, Handling(a, "publish"), config' # config, intact[a]
  PROVE  config'.mode = chosen[a]
<1>1. PICK b \in Admins : SetLanguage(b) \/ Publish(b) \/ PublishHalfway(b)
  BY ConfigChanges
<1>2. config' = DraftToConfig(loop.draft)
  BY <1>1 DEF SetLanguage, Publish, PublishHalfway, Handling
<1>3. loop.draft.mode = chosen[a]
  BY DEF ChoiceKept, Forms
<1> QED BY <1>2, <1>3 DEF DraftToConfig

\* The mode that is published is the one submitted last, as long as nothing has undone it.
THEOREM ChoicesArePublished == WizardSpec => ChoiceIsPublished
<1>1. WizardTypeOK /\ ChoiceKept /\ [WizardNext]_wizard =>
        [\A a \in Admins :
           Handling(a, "publish") /\ config' # config /\ intact[a] => config'.mode = chosen[a]]_wizard
  BY PublishesChoice
<1> QED BY <1>1, InitWizardTypeOK, NextWizardTypeOK, InitChoiceKept, NextChoiceKept, PTL
        DEF WizardSpec, ChoiceIsPublished

-----------------------------------------------------------------------------
(* An adopted backend *)

LEMMA InitAdoptedFits == WizardInit => AdoptedFits
BY DEF WizardInit, AdoptedFits

\* A draft with the same backend is adopted with it.
LEMMA SameBackendAdopts ==
  ASSUME NEW d, NEW e, SameBackend(d, e), Adopts(e)
  PROVE  Adopts(d)
BY DEF SameBackend, Adopts

LEMMA NextAdoptedFits ==
  WizardTypeOK /\ AdoptedFits /\ [WizardNext]_wizard => AdoptedFits'
<1> DEFINE Fits(b) == adopted'[b] => /\ Probe(server) = "ok" /\ Adopts(Load(b)')
                                     /\ \A form \in Forms : Handling(b, form)' => Adopts(loop'.draft)
           Shown(b) == shown'[b] = "ok" => Probe(server) = "ok"
<1> SUFFICES ASSUME WizardTypeOK, AdoptedFits, [WizardNext]_wizard, NEW b \in Admins
             PROVE  server' = server /\ Shown(b) /\ Fits(b)
  BY DEF AdoptedFits, Adopts, Probe, Interpret
<1>t. /\ adopted \in [Admins -> BOOLEAN] /\ stored \in [Admins -> DraftRows]
      /\ shown \in [Admins -> {"nothing", "ok", "needs_auth", "unsupported_version", "unreachable"}]
  BY DEF WizardTypeOK
<1>s. server' = server
  <2>1. \A a \in Admins : Screens(a) => server' = server
    BY ScreensKeepChoices DEF Handled
  <2> QED BY <2>1
    DEF WizardNext, wizard, Screens, Handled, Post, StartDraft, ResetDraft, SetLanguage, Discover,
        UseCandidate, NoCandidate, TestBackend, SubmitBackend, PageProposes, PageSaves, SubmitSecurity,
        Publish, PublishRefused, PublishHalfway
<1>h. Shown(b)
  <2>1. \A a \in Admins : Screens(a) => shown' = shown
    BY ScreensKeepChoices
  <2>2. ASSUME NEW a \in Admins, Discover(a) PROVE Shown(b)
    BY <1>t, <2>2 DEF Discover, AdoptedFits
  <2>3. CASE shown' = shown
    BY <2>3 DEF AdoptedFits
  <2> QED BY <2>1, <2>2, <2>3
    DEF WizardNext, wizard, Screens, Post, StartDraft, ResetDraft, SetLanguage, UseCandidate, NoCandidate,
        TestBackend, SubmitBackend, PageProposes, PageSaves, SubmitSecurity, Publish, PublishRefused,
        PublishHalfway
<1> SUFFICES ASSUME adopted'[b] PROVE Fits(b)
  BY <1>s, <1>h
<1>a. ASSUME UNCHANGED <<stored, adopted>>, Handled \/ UNCHANGED loop PROVE Fits(b)
  BY <1>a, HandledIsIdle DEF AdoptedFits, Load, Handling
<1>b. ASSUME NEW a \in Admins, NEW form \in Forms, Handling(a, form), NEW d, NEW step, Save(a, d, step),
             SameBackend(d, loop.draft), Handled, adopted[b]
      PROVE  Fits(b)
  <2>1. \A f \in Forms : ~Handling(b, f)'
    BY <1>b, HandledIsIdle
  <2>2. CASE a = b
    BY <1>b, <2>1, <2>2, SaveLoads, SameBackendAdopts DEF AdoptedFits
  <2>3. CASE a # b
    BY <1>b, <2>1, <2>3, SaveLoads DEF AdoptedFits
  <2> QED BY <2>2, <2>3
<1>c. ASSUME NEW a \in Admins, a # b, adopted[b], Handled, \A c \in Admins \ {a} : Load(c)' = Load(c)
      PROVE  Fits(b)
  BY <1>c, HandledIsIdle DEF AdoptedFits
<1>1. ASSUME NEW a \in Admins, Post(a) PROVE Fits(b)
  <2>1. PICK form \in Forms : loop' = [form |-> form, by |-> a, draft |-> Load(a)]
    BY <1>1 DEF Post
  <2>2. UNCHANGED <<stored, adopted>>
    BY <1>1 DEF Post
  <2>3. Load(b)' = Load(b)
    BY <2>2 DEF Load
  <2>4. \A f \in Forms : Handling(b, f)' => a = b
    BY <2>1 DEF Handling
  <2> QED BY <2>1, <2>2, <2>3, <2>4 DEF AdoptedFits
<1>2. ASSUME NEW a \in Admins, StartDraft(a) PROVE Fits(b)
  <2>1. a # b /\ adopted[b]
    BY <1>2, <1>t DEF StartDraft
  <2> QED BY <1>2, <1>c, <2>1, SaveLoads DEF StartDraft
<1>3. ASSUME NEW a \in Admins, ResetDraft(a) \/ Publish(a) PROVE Fits(b)
  <2>1. a # b /\ adopted[b]
    BY <1>3, <1>t DEF ResetDraft, Publish
  <2>2. \A c \in Admins \ {a} : Load(c)' = Load(c)
    BY <1>3, <1>t DEF ResetDraft, Publish, Load
  <2> QED BY <1>3, <1>c, <2>1, <2>2 DEF ResetDraft, Publish
<1>4. ASSUME NEW a \in Admins, SetLanguage(a) \/ Discover(a) \/ NoCandidate(a) \/ PublishRefused(a)
                               \/ PublishHalfway(a)
      PROVE  Fits(b)
  BY <1>4, <1>a DEF SetLanguage, Discover, NoCandidate, PublishRefused, PublishHalfway
<1>5. ASSUME NEW a \in Admins, UseCandidate(a) PROVE Fits(b)
  <2> DEFINE d == [loop.draft EXCEPT !.url = TRUE,
                     !.type = IF server.product = "opensearch" THEN "opensearch" ELSE "elasticsearch"]
  <2>1. loop.draft \in Drafts /\ Save(a, d, "backend") /\ Handled
    BY <1>5, LoadedDraft DEF UseCandidate, Forms
  <2>2. adopted' = [adopted EXCEPT ![a] = shown[a] = "ok" /\ loop.draft.auth = "none"]
    BY <1>5 DEF UseCandidate
  <2>3. CASE a = b
    <3>1. shown[a] = "ok" /\ loop.draft.auth = "none"
      BY <1>t, <2>2, <2>3
    <3>2. Probe(server) = "ok"
      BY <3>1 DEF AdoptedFits
    <3>3. Adopts(d)
      BY <2>1, <3>1 DEF Adopts, Drafts, Types
    <3>4. Load(b)' = d
      BY <2>1, <2>3, SaveLoads
    <3> QED BY <2>1, <3>2, <3>3, <3>4, HandledIsIdle
  <2>4. CASE a # b
    <3>1. adopted[b]
      BY <1>t, <2>2, <2>4
    <3> QED BY <1>c, <2>1, <2>4, <3>1, SaveLoads
  <2> QED BY <2>3, <2>4
<1>6. ASSUME NEW a \in Admins, TestBackend(a) \/ SubmitBackend(a) PROVE Fits(b)
  <2>1. Handled /\ Handling(a, "backend") /\ "backend" \in Forms
    BY <1>6 DEF TestBackend, SubmitBackend, Forms
  <2>2. CASE UNCHANGED <<stored, adopted>>
    BY <1>a, <2>1, <2>2
  <2>3. CASE \E d \in BackendForms(loop.draft), step \in Steps :
               /\ Save(a, d, step)
               /\ adopted' = [adopted EXCEPT ![a] = adopted[a] /\ SameBackend(d, loop.draft)]
    <3>1. PICK d \in BackendForms(loop.draft), step \in Steps :
                 /\ Save(a, d, step)
                 /\ adopted' = [adopted EXCEPT ![a] = adopted[a] /\ SameBackend(d, loop.draft)]
      BY <2>3
    <3>2. adopted[b] /\ (a = b => SameBackend(d, loop.draft))
      BY <1>t, <3>1
    <3>3. CASE a = b
      BY <1>b, <2>1, <3>1, <3>2, <3>3
    <3>4. CASE a # b
      BY <1>c, <2>1, <3>1, <3>2, <3>4, SaveLoads
    <3> QED BY <3>3, <3>4
  <2> QED BY <1>6, <2>2, <2>3 DEF TestBackend, SubmitBackend, Steps
<1>7. ASSUME NEW a \in Admins, Screens(a) PROVE Fits(b)
  <2>1. /\ SavesOnly(a) /\ Handled /\ UNCHANGED adopted
        /\ \E form \in Forms : Handling(a, form)
    BY <1>7, ScreensKeepChoices
  <2>2. CASE stored' = stored
    BY <1>a, <2>1, <2>2
  <2>3. CASE \E d \in Drafts, step \in Steps : Save(a, d, step) /\ KeepsChoices(d)
    BY <1>b, <2>1, <2>3 DEF KeepsChoices
  <2> QED BY <2>1, <2>2, <2>3 DEF SavesOnly
<1>8. ASSUME NEW a \in Admins, PageProposes(a) PROVE Fits(b)
  BY <1>8, <1>a DEF PageProposes
<1>9. ASSUME NEW a \in Admins, PageSaves(a) PROVE Fits(b)
  <2>1. PICK d \in page[a] : /\ Save(a, d, "mapping")
                             /\ adopted' = [adopted EXCEPT ![a] = @ /\ SameBackend(d, Load(a))]
    BY <1>9 DEF PageSaves
  <2>2. UNCHANGED loop
    BY <1>9 DEF PageSaves
  <2>3. adopted[b] /\ (a = b => SameBackend(d, Load(a)))
    BY <1>t, <2>1
  <2>4. Adopts(Load(b)')
    BY <2>1, <2>3, SaveLoads, SameBackendAdopts DEF AdoptedFits
  <2> QED BY <2>2, <2>3, <2>4 DEF AdoptedFits, Handling
<1>10. ASSUME NEW a \in Admins, SubmitSecurity(a) PROVE Fits(b)
  <2>1. loop.draft \in Drafts /\ Handling(a, "security") /\ "security" \in Forms
    BY <1>10, LoadedDraft DEF SubmitSecurity, Forms
  <2>2. PICK m \in Modes : Save(a, [loop.draft EXCEPT !.mode = m], "exposure")
    BY <1>10 DEF SubmitSecurity
  <2>3. SameBackend([loop.draft EXCEPT !.mode = m], loop.draft)
    BY <2>1 DEF Drafts, SameBackend
  <2>4. Handled /\ UNCHANGED adopted
    BY <1>10 DEF SubmitSecurity
  <2> QED BY <1>b, <2>1, <2>2, <2>3, <2>4
<1>11. CASE UNCHANGED wizard
  BY <1>11, <1>a DEF wizard
<1> QED BY <1>1, <1>2, <1>3, <1>4, <1>5, <1>6, <1>7, <1>8, <1>9, <1>10, <1>11
        DEF WizardNext, Screens

\* The gates of the search are those of the adapters: what it reports as ok is detected.
LEMMA OkIsDetected ==
  ASSUME server \in Hosts, Probe(server) = "ok", NEW d, Adopts(d)
  PROVE  Detects(d) = {TRUE}
<1>1. server \in Servers
  BY HostsAssumption
<1>2. server.answer = "json" /\ server.product \in Types /\ server.major \in Nat \cup {-1}
  BY <1>1 DEF Servers, Answers, Products, Types, Probe, Interpret
<1>3. server.major <= 0 \/ server.major >= (IF server.product = "elasticsearch" THEN 7 ELSE 1)
  BY <1>2 DEF Probe, Interpret, Types
<1>4. Reaches(d)
  BY <1>2 DEF Reaches, Adopts
<1>5. d.type = server.product
  BY <1>2 DEF Adopts, Types
<1> DEFINE good == server.major <= 0 \/ server.major >= (IF d.type = "elasticsearch" THEN 7 ELSE 1)
<1>6. Detects(d) = {good}
  BY <1>2, <1>4 DEF Detects
<1>7. good = TRUE
  BY <1>2, <1>3, <1>5
<1> QED BY <1>6, <1>7

LEMMA TestConnects ==
  ASSUME WizardTypeOK, AdoptedFits, NEW a \in Admins, adopted[a], adopted'[a], TestBackend(a)
  PROVE  told'[a] = "ok"
<1>1. PICK d \in BackendForms(loop.draft) :
        /\ \E ok \in Detects(d) : told' = [told EXCEPT ![a] = IF ok THEN "ok" ELSE "failed"]
        /\ adopted' = [adopted EXCEPT ![a] = adopted[a] /\ SameBackend(d, loop.draft)]
  BY DEF TestBackend
<1>2. SameBackend(d, loop.draft)
  BY <1>1 DEF WizardTypeOK
<1>3. Probe(server) = "ok" /\ Adopts(loop.draft)
  BY DEF AdoptedFits, TestBackend, Forms
<1>4. Detects(d) = {TRUE}
  BY <1>2, <1>3, OkIsDetected, SameBackendAdopts DEF WizardTypeOK
<1> QED BY <1>1, <1>4 DEF WizardTypeOK

\* Whatever the host found and the forms before, an adopted backend passes its test.
THEOREM AdoptedBackendConnects == WizardSpec => AdoptedConnects
<1>1. WizardTypeOK /\ AdoptedFits /\ [WizardNext]_wizard =>
        [\A a \in Admins : adopted[a] /\ adopted'[a] /\ TestBackend(a) => told'[a] = "ok"]_wizard
  BY TestConnects
<1> QED BY <1>1, InitWizardTypeOK, NextWizardTypeOK, InitAdoptedFits, NextAdoptedFits, PTL
        DEF WizardSpec, AdoptedConnects
===============================================================================
