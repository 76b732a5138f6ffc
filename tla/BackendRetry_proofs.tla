-------------------------- MODULE BackendRetry_proofs --------------------------
(***************************************************************************)
(* Theorems about BackendRetry for any retry settings, timeouts, documents *)
(* and number of calls.                                                    *)
(***************************************************************************)
EXTENDS BackendRetry, TLAPS

-----------------------------------------------------------------------------
(* Type correctness *)

Outcomes == {"none", "result", "no_record", "http_error", "unsupported_backend_version",
             "backend_unavailable"}

\* A pause follows only an attempt that was not the last; attempts, pauses and reports
\* belong to a call, and one under way has not reported.
InCall ==
  /\ at = "pause" => attempt < setting.maxRetries
  /\ at # "idle" \/ counted # {} => call \in Calls
  /\ at # "idle" => counted = {}
TypeInv == TypeOK /\ InCall

LEMMA SettingFacts ==
  ASSUME setting \in Settings
  PROVE  /\ setting.maxRetries \in Nat /\ setting.backoff \in Nat /\ setting.cap \in Nat
         /\ setting.deadline \in Nat
BY SettingsAssumption DEF SettingType

LEMMA SettingIsKept == [Next]_vars => setting' = setting
BY DEF Next, vars, Call, Answered, TransientError, OtherError, Pause, Delivers, Ended

\* No pause is longer than the cap and the jitter on top of it.
LEMMA PauseIsBounded ==
  ASSUME setting \in Settings, NEW ticks \in ComputeSleep
  PROVE  ticks \in 0 .. LongestPause
<1>1. setting.backoff \in Nat /\ setting.cap \in Nat
  BY SettingFacts
<1>2. Capped \in 0 .. setting.cap
  BY <1>1 DEF Capped
<1>3. CASE setting.backoff = 0
  BY <1>3 DEF ComputeSleep, LongestPause
<1>4. CASE setting.backoff # 0
  <2>1. ticks \in (3 * Capped) \div 4 .. (5 * Capped + 3) \div 4
    BY <1>4 DEF ComputeSleep
  <2>2. LongestPause = (5 * setting.cap + 3) \div 4
    BY <1>4 DEF LongestPause
  <2> HIDE DEF Capped
  <2> QED BY <1>1, <1>2, <2>1, <2>2
<1> QED BY <1>3, <1>4

\* An operation that makes its result of an answer is over.
LEMMA FinishEnds ==
  ASSUME TypeInv, at # "idle", NEW status, NEW items, Finish(status, items)
  PROVE  at' = "idle" /\ outcome' \in Outcomes /\ counted' \in SUBSET Docs
<1>1. \A how \in Outcomes : \A docs \in SUBSET Docs :
        Ends(how, docs) => at' = "idle" /\ outcome' \in Outcomes /\ counted' \in SUBSET Docs
  BY DEF Ends
<1>2. {} \in SUBSET Docs /\ batches[call] \in SUBSET Docs
  BY DEF TypeInv, InCall, TypeOK
<1> QED BY <1>1, <1>2 DEF Finish, Outcomes

\* The documents indexed for a call are counted in copies.
LEMMA IndexesAdds ==
  ASSUME TypeOK, NEW c \in Calls, NEW docs \in SUBSET Docs, Indexes(c, docs)
  PROVE  /\ copies' \in [Calls \X Docs -> Nat]
         /\ \A e \in Calls, d \in Docs :
              copies'[<<e, d>>] = IF e = c /\ d \in docs THEN copies[<<e, d>>] + 1 ELSE copies[<<e, d>>]
<1>1. DOMAIN copies = Calls \X Docs /\ \A p \in Calls \X Docs : copies[p] \in Nat
  BY DEF TypeOK
<1>2. copies' = [p \in Calls \X Docs |->
                   IF p[1] = c /\ p[2] \in docs THEN copies[p] + 1 ELSE copies[p]]
  BY <1>1 DEF Indexes
<1>3. copies' \in [Calls \X Docs -> Nat]
  BY ONLY <1>1, <1>2
<1>4. ASSUME NEW e \in Calls, NEW d \in Docs
      PROVE  copies'[<<e, d>>] = IF e = c /\ d \in docs THEN copies[<<e, d>>] + 1
                                 ELSE copies[<<e, d>>]
  BY ONLY <1>2
<1> QED BY <1>3, <1>4

\* An attempt without an answer keeps both types.
LEMMA UnansweredAdds ==
  ASSUME TypeOK, call \in Calls, Unanswered
  PROVE  pending' \in [Calls -> Nat] /\ copies' \in [Calls \X Docs -> Nat]
<1>1. batches[call] \in SUBSET Docs /\ pending \in [Calls -> Nat] /\ copies \in [Calls \X Docs -> Nat]
  BY DEF TypeOK
<1> QED BY <1>1, IndexesAdds DEF Unanswered

LEMMA InitTypeInv == Init => TypeInv
<1> SUFFICES ASSUME Init PROVE TypeInv
  OBVIOUS
<1>1. setting.maxRetries \in Nat
  BY SettingFacts DEF Init
<1>2. blank \in BOOLEAN
  BY Zenon DEF Init
<1>3. /\ setting \in Settings /\ call = 0 /\ op = "detect" /\ batches = [c \in Calls |-> {}]
      /\ at = "idle" /\ attempt = 0 /\ elapsed = 0 /\ outcome = "none" /\ counted = {}
      /\ pending = [c \in Calls |-> 0] /\ copies = [p \in Calls \X Docs |-> 0]
  BY DEF Init
<1> QED BY ONLY <1>1, <1>2, <1>3, TimeAssumption DEF TypeInv, TypeOK, InCall, Calls, Operations

LEMMA NextTypeInv == TypeInv /\ [Next]_vars => TypeInv'
<1> SUFFICES ASSUME TypeInv, [Next]_vars PROVE TypeInv'
  OBVIOUS
<1> USE DEF TypeInv, InCall, TypeOK
<1>0. setting' = setting /\ setting.maxRetries \in Nat /\ AttemptTime \in Nat
  BY SettingIsKept, SettingFacts, TimeAssumption
<1>1. CASE Call
  <2>1. call' = call + 1 /\ call' \in Calls /\ attempt' = 0 /\ elapsed' = 0
    BY <1>1, TimeAssumption DEF Call, Calls
  <2>2. PICK o \in Operations, docs \in SUBSET Docs :
          /\ op' = o /\ batches' = [batches EXCEPT ![call + 1] = docs]
          /\ \/ at' = "request" /\ outcome' = "none"
             \/ at' = "idle" /\ outcome' = "result"
          /\ counted' = {}
    BY ONLY <1>1 DEF Call, Ends
  <2>3. UNCHANGED <<setting, pending, copies>> /\ blank' \in BOOLEAN
    BY <1>1, Zenon DEF Call
  <2> QED BY <1>0, <2>1, <2>2, <2>3 DEF Calls
<1>2. CASE Answered
  <2>1. UNCHANGED <<setting, call, op, batches, attempt, pending>> /\ elapsed' \in Nat
        /\ at = "request" /\ call \in Calls
    BY <1>0, <1>2 DEF Answered, TimePasses
  <2>b. blank' \in BOOLEAN
    BY ONLY <1>2, Zenon DEF Answered
  <2>2. PICK status \in Statuses, docs \in SUBSET batches[call] :
          /\ Indexes(call, docs)
          /\ \/ attempt + 1 < Attempts /\ PausesNext
             \/ Ends("backend_unavailable", {}) \/ Ends("http_error", {})
             \/ \E items : Finish(status, items)
    BY ONLY <1>2, Zenon DEF Answered
  <2>3. copies' \in [Calls \X Docs -> Nat]
    BY <2>1, <2>2, IndexesAdds
  <2>4. CASE attempt + 1 < Attempts /\ PausesNext
    BY <1>0, <2>1, <2>b, <2>3, <2>4 DEF Attempts, PausesNext
  <2>5. CASE Ends("backend_unavailable", {}) \/ Ends("http_error", {})
    BY <1>0, <2>1, <2>b, <2>3, <2>5 DEF Ends
  <2>6. CASE \E items : Finish(status, items)
    <3>1. at' = "idle" /\ outcome' \in Outcomes /\ counted' \in SUBSET Docs
      BY <2>1, <2>6, FinishEnds
    <3> QED BY <1>0, <2>1, <2>b, <2>3, <3>1 DEF Outcomes
  <2> QED BY <2>2, <2>4, <2>5, <2>6
<1>3. CASE TransientError
  <2>1. UNCHANGED <<setting, call, op, batches, attempt, blank>> /\ elapsed' \in Nat
        /\ at = "request" /\ call \in Calls
    BY <1>0, <1>3 DEF TransientError, TimePasses
  <2>2. pending' \in [Calls -> Nat] /\ copies' \in [Calls \X Docs -> Nat]
    BY <1>3, <2>1, UnansweredAdds DEF TransientError
  <2>3. CASE attempt + 1 < Attempts /\ PausesNext
    BY <1>0, <2>1, <2>2, <2>3 DEF Attempts, PausesNext
  <2>4. CASE Ends("backend_unavailable", {})
    BY <1>0, <2>1, <2>2, <2>4 DEF Ends
  <2> QED BY <1>0, <1>3, <2>1, <2>3, <2>4 DEF TransientError, Attempts
<1>4. CASE OtherError
  <2>1. UNCHANGED <<setting, call, op, batches, attempt, blank>> /\ elapsed' \in Nat
        /\ call \in Calls
    BY <1>0, <1>4 DEF OtherError, TimePasses
  <2>2. pending' \in [Calls -> Nat] /\ copies' \in [Calls \X Docs -> Nat]
    BY <1>4, <2>1, UnansweredAdds DEF OtherError
  <2> QED BY <1>0, <1>4, <2>1, <2>2 DEF OtherError, Ends
<1>5. CASE Pause
  <2>1. elapsed' \in Nat
    <3>1. PICK ticks \in ComputeSleep : elapsed' = elapsed + ticks
      BY <1>5 DEF Pause
    <3>2. ticks \in 0 .. LongestPause
      BY <3>1, PauseIsBounded
    <3> QED BY <3>1, <3>2
  <2> QED BY <1>0, <1>5, <2>1 DEF Pause
<1>6. CASE Delivers
  <2>1. PICK c \in Calls :
          /\ pending[c] > 0 /\ pending' = [pending EXCEPT ![c] = @ - 1]
          /\ \E docs \in SUBSET batches[c] : Indexes(c, docs)
    BY <1>6 DEF Delivers
  <2>2. copies' \in [Calls \X Docs -> Nat] /\ pending' \in [Calls -> Nat]
    BY <2>1, IndexesAdds
  <2> QED BY <1>6, <2>2 DEF Delivers
<1>7. CASE UNCHANGED vars
  BY <1>7 DEF vars
<1> QED BY <1>1, <1>2, <1>3, <1>4, <1>5, <1>6, <1>7 DEF Next, Ended

\* Whatever the settings, the variables keep their types.
THEOREM TypeCorrect == Spec => []TypeOK
<1>1. TypeInv => TypeOK
  BY DEF TypeInv
<1> QED BY <1>1, InitTypeInv, NextTypeInv, PTL DEF Spec

-----------------------------------------------------------------------------
(* Copies *)

\* What each step does to the copies of a call and its requests under way: an attempt adds
\* one of either, and a delivery turns one into the other.
Load(c, d) == copies[<<c, d>>] + pending[c]
LoadLater(c, d) == copies'[<<c, d>>] + pending'[c]

\* A call that has not begun has left nothing; the current one at most one copy for each
\* attempt it has made.
AttemptsPay ==
  /\ \A c \in Calls : c > call => pending[c] = 0 /\ \A d \in Docs : copies[<<c, d>>] = 0
  /\ at = "request" => \A d \in Docs : Load(call, d) <= attempt
  /\ at = "pause" => \A d \in Docs : Load(call, d) <= attempt + 1
CopiesInv == AttemptsPay /\ CopiesAreBounded

LEMMA InitCopiesInv == Init => CopiesInv
BY SettingFacts DEF Init, CopiesInv, AttemptsPay, CopiesAreBounded

\* An attempt of the current call: answered, or failed.
LEMMA AttemptLoads ==
  ASSUME TypeInv, Answered \/ TransientError \/ OtherError, NEW c \in Calls, NEW d \in Docs
  PROVE  /\ LoadLater(c, d) <= IF c = call THEN Load(c, d) + 1 ELSE Load(c, d)
         /\ c # call => copies'[<<c, d>>] = copies[<<c, d>>] /\ pending'[c] = pending[c]
<1>0. /\ call \in Calls /\ copies \in [Calls \X Docs -> Nat] /\ pending \in [Calls -> Nat]
      /\ batches[call] \in SUBSET Docs /\ copies[<<c, d>>] \in Nat /\ pending[c] \in Nat
  BY DEF TypeInv, InCall, TypeOK, Answered, TransientError, OtherError
<1>1. ASSUME NEW docs \in SUBSET batches[call], Indexes(call, docs), pending' = pending
      PROVE  /\ LoadLater(c, d) <= IF c = call THEN Load(c, d) + 1 ELSE Load(c, d)
             /\ c # call => copies'[<<c, d>>] = copies[<<c, d>>] /\ pending'[c] = pending[c]
  <2>1. copies'[<<c, d>>] = IF c = call /\ d \in docs THEN copies[<<c, d>>] + 1
                            ELSE copies[<<c, d>>]
    BY <1>0, <1>1, IndexesAdds DEF TypeInv
  <2> QED BY <1>0, <1>1, <2>1 DEF Load, LoadLater
<1>2. ASSUME pending' = [pending EXCEPT ![call] = @ + 1], copies' = copies
      PROVE  /\ LoadLater(c, d) <= IF c = call THEN Load(c, d) + 1 ELSE Load(c, d)
             /\ c # call => copies'[<<c, d>>] = copies[<<c, d>>] /\ pending'[c] = pending[c]
  BY <1>0, <1>2 DEF Load, LoadLater
<1>3. CASE Answered
  BY <1>1, <1>3 DEF Answered
<1>4. CASE TransientError
  BY <1>1, <1>2, <1>4 DEF TransientError, Unanswered
<1>5. CASE OtherError
  BY <1>1, <1>2, <1>5 DEF OtherError, Unanswered
<1> QED BY <1>3, <1>4, <1>5

\* After an attempt the call pauses, with an attempt left, or is over.
LEMMA AfterAttempt ==
  ASSUME TypeInv, Answered \/ TransientError \/ OtherError
  PROVE  /\ at = "request" /\ call' = call /\ attempt' = attempt
         /\ TimePasses
         /\ at' = "idle" \/ (at' = "pause" /\ attempt < setting.maxRetries
                             /\ (setting.deadline > 0 => elapsed' < setting.deadline))
<1>0. /\ at = "request" /\ call' = call /\ attempt' = attempt /\ TimePasses
      /\ attempt \in Nat /\ setting.maxRetries \in Nat /\ setting.deadline \in Nat
      /\ elapsed' \in Nat
  BY SettingFacts, TimeAssumption DEF TypeInv, TypeOK, TimePasses, Answered, TransientError, OtherError
<1>1. ASSUME attempt + 1 < Attempts, ~DeadlinePassed
      PROVE  attempt < setting.maxRetries /\ (setting.deadline > 0 => elapsed' < setting.deadline)
  BY <1>0, <1>1 DEF Attempts, DeadlinePassed
<1>2. CASE Answered
  <2>1. \/ attempt + 1 < Attempts /\ ~DeadlinePassed /\ PausesNext
        \/ Ends("backend_unavailable", {}) \/ Ends("http_error", {})
        \/ \E status, items : Finish(status, items)
    BY ONLY <1>2, Zenon DEF Answered
  <2> QED BY <1>0, <1>1, <2>1, FinishEnds DEF PausesNext, Ends
<1>3. CASE TransientError
  <2>1. \/ ~(attempt + 1 >= Attempts) /\ ~DeadlinePassed /\ PausesNext
        \/ Ends("backend_unavailable", {})
    BY <1>3 DEF TransientError
  <2>2. ~(attempt + 1 >= Attempts) => attempt + 1 < Attempts
    BY <1>0 DEF Attempts
  <2> QED BY <1>0, <1>1, <2>1, <2>2 DEF PausesNext, Ends
<1>4. CASE OtherError
  BY <1>0, <1>4 DEF OtherError, Ends
<1> QED BY <1>2, <1>3, <1>4

LEMMA NextCopiesInv == TypeInv /\ CopiesInv /\ [Next]_vars => CopiesInv'
<1> SUFFICES ASSUME TypeInv, CopiesInv, [Next]_vars PROVE CopiesInv'
  OBVIOUS
<1> USE DEF CopiesInv, AttemptsPay, CopiesAreBounded
<1>0. /\ setting' = setting /\ setting.maxRetries \in Nat
      /\ attempt \in 0 .. setting.maxRetries /\ call \in 0 .. MaxCalls /\ MaxCalls \in Nat
  BY SettingIsKept, SettingFacts, TimeAssumption DEF TypeInv, TypeOK
<1>t. ASSUME NEW c \in Calls, NEW d \in Docs
      PROVE  copies[<<c, d>>] \in Nat /\ pending[c] \in Nat
  BY DEF TypeInv, TypeOK
<1>l. ASSUME NEW c \in Calls, NEW d \in Docs
      PROVE  copies'[<<c, d>>] \in Nat /\ pending'[c] \in Nat
  BY NextTypeInv DEF TypeInv, TypeOK
<1>1. CASE Call
  <2>1. call' = call + 1 /\ call' \in Calls /\ attempt' = 0 /\ copies' = copies /\ pending' = pending
        /\ at' \in {"request", "idle"}
    BY <1>0, <1>1 DEF Call, Calls, Ends
  <2>2. \A d \in Docs : Load(call', d) = 0
    BY <1>0, <2>1 DEF Load, Calls
  <2> QED BY <1>0, <2>1, <2>2 DEF Load, Calls
<1>2. CASE Answered \/ TransientError \/ OtherError
  <2>1. at = "request" /\ call' = call /\ attempt' = attempt /\ at' \in {"idle", "pause"}
        /\ call \in Calls
    BY <1>2, AfterAttempt DEF TypeInv, InCall
  <2>2. ASSUME NEW d \in Docs PROVE LoadLater(call, d) <= attempt + 1
    BY <1>0, <1>2, <1>t, <1>l, <2>1, AttemptLoads DEF Load, LoadLater
  <2>3. ASSUME NEW c \in Calls, NEW d \in Docs PROVE LoadLater(c, d) <= setting.maxRetries + 1
    <3>1. CASE c = call
      BY <1>0, <1>l, <2>1, <2>2, <3>1 DEF LoadLater
    <3>2. CASE c # call
      BY <1>2, <3>2, AttemptLoads DEF Load, LoadLater
    <3> QED BY <3>1, <3>2
  <2>4. ASSUME NEW c \in Calls, c > call
        PROVE  pending'[c] = 0 /\ \A d \in Docs : copies'[<<c, d>>] = 0
    <3>1. c # call
      BY <1>0, <2>4
    <3>2. \A d \in Docs : copies'[<<c, d>>] = copies[<<c, d>>]
      BY <1>2, <3>1, AttemptLoads
    <3>3. pending'[c] = pending[c]
      BY <1>2, <2>1, <3>1 DEF Answered, TransientError, OtherError, Unanswered, TypeInv, TypeOK
    <3> QED BY <2>4, <3>2, <3>3
  <2> QED BY <1>0, <2>1, <2>2, <2>3, <2>4 DEF Load, LoadLater
<1>5. CASE Pause
  BY <1>0, <1>5 DEF Pause, Load
<1>6. CASE Delivers
  <2>1. PICK c \in Calls :
          /\ pending[c] > 0 /\ pending' = [pending EXCEPT ![c] = @ - 1]
          /\ \E docs \in SUBSET batches[c] : Indexes(c, docs)
    BY <1>6 DEF Delivers
  <2>2. PICK docs \in SUBSET Docs : Indexes(c, docs)
    BY <2>1 DEF TypeInv, TypeOK
  <2>3. \A e \in Calls : pending'[e] = IF e = c THEN pending[e] - 1 ELSE pending[e]
    BY <2>1 DEF TypeInv, TypeOK
  <2>4. \A e \in Calls, d \in Docs :
          copies'[<<e, d>>] = IF e = c /\ d \in docs THEN copies[<<e, d>>] + 1 ELSE copies[<<e, d>>]
    BY <2>2, IndexesAdds DEF TypeInv
  <2>5. UNCHANGED <<call, at, attempt>>
    BY <1>6 DEF Delivers
  <2>6. ASSUME NEW e \in Calls, NEW d \in Docs PROVE LoadLater(e, d) <= Load(e, d)
    BY <1>t, <1>l, <2>3, <2>4 DEF Load, LoadLater
  <2>7. ASSUME NEW e \in Calls, e > call
        PROVE  pending'[e] = 0 /\ \A d \in Docs : copies'[<<e, d>>] = 0
    BY <1>t, <2>1, <2>3, <2>4, <2>7
  <2>8. ASSUME NEW e \in Calls, NEW d \in Docs, NEW n \in Nat, Load(e, d) <= n
        PROVE  LoadLater(e, d) <= n
    BY <1>t, <1>l, <2>6, <2>8 DEF Load, LoadLater
  <2>9. at # "idle" => call \in Calls
    BY DEF TypeInv, InCall
  <2>10. CopiesAreBounded'
    <3>1. ASSUME NEW e \in Calls, NEW d \in Docs PROVE LoadLater(e, d) <= setting.maxRetries + 1
      <4>1. Load(e, d) <= setting.maxRetries + 1 /\ setting.maxRetries + 1 \in Nat
        BY <1>0 DEF Load
      <4> QED BY <2>8, <4>1
    <3> QED BY <1>0, <3>1 DEF LoadLater
  <2>11. at' = "request" => \A d \in Docs : LoadLater(call', d) <= attempt'
    BY <1>0, <2>5, <2>8, <2>9
  <2>12. at' = "pause" => \A d \in Docs : LoadLater(call', d) <= attempt' + 1
    BY <1>0, <2>5, <2>8, <2>9
  <2> QED BY <2>5, <2>7, <2>10, <2>11, <2>12 DEF Load, LoadLater
<1>7. CASE UNCHANGED vars
  BY <1>7 DEF vars, Load
<1> QED BY <1>1, <1>2, <1>5, <1>6, <1>7 DEF Next, Ended

\* Whatever the network does with the attempts of a call, it leaves at most one copy per
\* attempt of a document without an id (the loop of _request).
THEOREM CopiesStayBounded == Spec => []CopiesAreBounded
<1>1. CopiesInv => CopiesAreBounded
  BY DEF CopiesInv
<1> QED BY <1>1, InitTypeInv, NextTypeInv, InitCopiesInv, NextCopiesInv, PTL DEF Spec

-----------------------------------------------------------------------------
(* What a call reports *)

\* What an operation reports of an answer that lists the documents and how they fared.
LEMMA FinishCounts ==
  ASSUME NEW status, NEW docs, NEW items,
         NEW lists \in BOOLEAN, status = "2xx" => lists,
         items = IF status = "2xx" /\ lists THEN {<<d, d \in docs>> : d \in batches[call]} ELSE {},
         Finish(status, items), NEW d \in counted'
  PROVE  d \in batches[call] /\ d \in docs
<1>1. \A how, given : Ends(how, given) => counted' = given
  BY DEF Ends
<1>2. ~RaisesForStatus(status) => status = "2xx"
  BY DEF RaisesForStatus
<1>3. status = "2xx"
      /\ counted' = IF items = {} THEN batches[call] ELSE {e \in batches[call] : <<e, TRUE>> \in items}
  BY <1>1, <1>2 DEF Finish
<1>4. CASE items = {}
  BY <1>3, <1>4
<1>5. CASE items # {}
  <2>1. d \in batches[call] /\ <<d, TRUE>> \in items
    BY <1>3, <1>5
  <2>2. PICK e \in batches[call] : <<d, TRUE>> = <<e, e \in docs>>
    BY <1>3, <2>1
  <2>3. d = e /\ TRUE = (e \in docs)
    BY <2>2
  <2> QED BY <2>1, <2>3
<1> QED BY <1>4, <1>5

LEMMA InitCounted == Init => CountedIsIndexed
BY DEF Init, CountedIsIndexed

LEMMA NextCounted == TypeInv /\ CountedIsIndexed /\ [Next]_vars => CountedIsIndexed'
<1> SUFFICES ASSUME TypeInv, CountedIsIndexed, [Next]_vars, ~blank', NEW d \in counted'
             PROVE  copies'[<<call', d>>] > 0
  BY DEF CountedIsIndexed
<1>t. copies \in [Calls \X Docs -> Nat] /\ counted \in SUBSET Docs /\ TypeOK
  BY DEF TypeInv, TypeOK
<1>1. CASE Call
  BY <1>1 DEF Call, Ends
<1>2. CASE Answered
  <2>1. PICK status \in Statuses, docs \in SUBSET batches[call], lists \in BOOLEAN :
          /\ Indexes(call, docs)
          /\ blank' = (status = "2xx" /\ ~lists)
          /\ \/ PausesNext
             \/ Ends("backend_unavailable", {}) \/ Ends("http_error", {})
             \/ Finish(status, IF status = "2xx" /\ lists
                               THEN {<<e, e \in docs>> : e \in batches[call]} ELSE {})
    BY ONLY <1>2, Zenon DEF Answered
  <2>2. call' = call /\ call \in Calls /\ batches[call] \in SUBSET Docs
    BY <1>2 DEF Answered, TypeInv, InCall, TypeOK
  <2>3. ASSUME NEW e \in Docs
        PROVE  copies'[<<call, e>>] = IF e \in docs THEN copies[<<call, e>>] + 1 ELSE copies[<<call, e>>]
    BY <1>t, <2>1, <2>2, IndexesAdds
  <2>4. CASE PausesNext
    BY <1>2, <2>4 DEF PausesNext, Answered, TypeInv, InCall
  <2>5. CASE Ends("backend_unavailable", {}) \/ Ends("http_error", {})
    BY <2>5 DEF Ends
  <2>6. CASE Finish(status, IF status = "2xx" /\ lists
                           THEN {<<e, e \in docs>> : e \in batches[call]} ELSE {})
    <3>0. status = "2xx" => lists
      BY <2>1
    <3>1. d \in batches[call] /\ d \in docs
      BY <2>6, <3>0, FinishCounts
    <3>2. copies'[<<call, d>>] = copies[<<call, d>>] + 1 /\ copies[<<call, d>>] \in Nat
      BY <1>t, <2>2, <2>3, <3>1
    <3> QED BY <2>2, <3>2
  <2> QED BY <2>1, <2>4, <2>5, <2>6
<1>3. ASSUME NEW c \in Calls, NEW docs \in SUBSET Docs, Indexes(c, docs),
             UNCHANGED <<counted, call, blank>>
      PROVE  copies'[<<call', d>>] > 0
  <2>1. copies[<<call, d>>] > 0 /\ copies[<<call, d>>] \in Nat /\ d \in Docs /\ call \in Calls
    BY <1>t, <1>3 DEF CountedIsIndexed, TypeInv, InCall
  <2>2. copies'[<<call, d>>] = IF call = c /\ d \in docs THEN copies[<<call, d>>] + 1
                               ELSE copies[<<call, d>>]
    BY <1>t, <1>3, <2>1, IndexesAdds
  <2> QED BY <1>3, <2>1, <2>2
<1>4. ASSUME UNCHANGED <<copies, counted, call, blank>> PROVE copies'[<<call', d>>] > 0
  BY <1>4 DEF CountedIsIndexed
<1>5. CASE TransientError
  BY <1>5 DEF TransientError, Ends, PausesNext, TypeInv, InCall
<1>6. CASE OtherError
  BY <1>6 DEF OtherError, Ends
<1>7. CASE Pause
  BY <1>4, <1>7 DEF Pause
<1>8. CASE Delivers
  <2>1. PICK c \in Calls : \E docs \in SUBSET batches[c] : Indexes(c, docs)
    BY <1>8 DEF Delivers
  <2>2. batches[c] \in SUBSET Docs /\ UNCHANGED <<counted, call, blank>>
    BY <1>8 DEF Delivers, TypeInv, TypeOK
  <2> QED BY <1>3, <2>1, <2>2
<1> QED BY <1>1, <1>2, <1>4, <1>5, <1>6, <1>7, <1>8 DEF Next, Ended, vars

\* Whatever a bulk_index reports as ingested from an answer that lists documents the backend
\* has indexed for that call, however many of its attempts failed, were executed without an
\* answer or arrived late (bulk_index, raise_for_status).
THEOREM CountsAreEarned == Spec => []CountedIsIndexed
BY InitTypeInv, NextTypeInv, InitCounted, NextCounted, PTL DEF Spec

-----------------------------------------------------------------------------
(* How long a call takes *)

\* The time and the pauses of n attempts, the last of them with or without its pause.
Spent(n, p) == n * AttemptTime + p * LongestPause

\* While a call goes on it has taken no more than the attempts and pauses it has made, and
\* with a deadline it is at most a pause past it.
TimeIsSpent ==
  /\ at = "request" =>
       /\ elapsed <= Spent(attempt, attempt)
       /\ setting.deadline > 0 => elapsed < setting.deadline + LongestPause
  /\ at = "pause" =>
       /\ elapsed <= Spent(attempt + 1, attempt)
       /\ setting.deadline > 0 => elapsed < setting.deadline
WaitInv == TimeIsSpent /\ WaitIsBounded

LEMMA TimesAreNatural ==
  ASSUME setting \in Settings
  PROVE  /\ AttemptTime \in Nat /\ LongestPause \in Nat
         /\ setting.maxRetries \in Nat /\ setting.deadline \in Nat
<1>1. LongestPause \in Nat
  BY SettingFacts DEF LongestPause
<1> QED BY <1>1, SettingFacts, TimeAssumption

LEMMA SpentGrows ==
  ASSUME NEW a \in Nat, NEW l \in Nat, NEW n \in Nat, NEW m \in Nat, n <= m
  PROVE  /\ n * a \in Nat /\ n * a <= m * a
         /\ (n + 1) * a = n * a + a
<1>1. PICK k \in Nat : m = n + k
  BY SMT
<1>2. (n + k) * a = n * a + k * a /\ k * a \in Nat /\ n * a \in Nat
  BY SMT
<1> QED BY <1>1, <1>2

\* An attempt and a pause add their times to what was spent; the most is spent with all of
\* them.
LEMMA SpentSteps ==
  ASSUME setting \in Settings, NEW n \in 0 .. setting.maxRetries
  PROVE  /\ Spent(n, n) \in Nat /\ Spent(n + 1, n) \in Nat
         /\ Spent(n + 1, n) = Spent(n, n) + AttemptTime
         /\ Spent(n + 1, n + 1) = Spent(n + 1, n) + LongestPause
         /\ Spent(n, n) <= Spent(setting.maxRetries + 1, setting.maxRetries)
         /\ Spent(n + 1, n) <= Spent(setting.maxRetries + 1, setting.maxRetries)
<1> DEFINE m == setting.maxRetries
<1>1. AttemptTime \in Nat /\ LongestPause \in Nat /\ m \in Nat /\ n \in Nat /\ n <= m
  BY TimesAreNatural
<1> HIDE DEF m, LongestPause
<1>2. /\ n * AttemptTime \in Nat /\ (n + 1) * AttemptTime = n * AttemptTime + AttemptTime
      /\ (n + 1) * AttemptTime <= (m + 1) * AttemptTime
      /\ (m + 1) * AttemptTime \in Nat
  BY ONLY <1>1, SpentGrows
<1>3. /\ n * LongestPause \in Nat /\ (n + 1) * LongestPause = n * LongestPause + LongestPause
      /\ n * LongestPause <= m * LongestPause /\ m * LongestPause \in Nat
  BY ONLY <1>1, SpentGrows
<1>4. /\ Spent(n, n) = n * AttemptTime + n * LongestPause
      /\ Spent(n + 1, n) = (n + 1) * AttemptTime + n * LongestPause
      /\ Spent(n + 1, n + 1) = (n + 1) * AttemptTime + (n + 1) * LongestPause
      /\ Spent(m + 1, m) = (m + 1) * AttemptTime + m * LongestPause
  BY DEF Spent
<1>5. /\ Spent(n, n) \in Nat /\ Spent(n + 1, n) \in Nat
      /\ Spent(n + 1, n) = Spent(n, n) + AttemptTime
      /\ Spent(n + 1, n + 1) = Spent(n + 1, n) + LongestPause
      /\ Spent(n, n) <= Spent(m + 1, m) /\ Spent(n + 1, n) <= Spent(m + 1, m)
  BY ONLY <1>1, <1>2, <1>3, <1>4
<1> QED BY <1>5 DEF m

LEMMA InitWaitInv == Init => WaitInv
<1> SUFFICES ASSUME Init PROVE WaitInv
  OBVIOUS
<1>1. elapsed = 0 /\ at = "idle" /\ setting \in Settings
  BY DEF Init
<1>2. Spent(setting.maxRetries + 1, setting.maxRetries) >= 0
  <2>1. setting.maxRetries \in Nat /\ setting.maxRetries \in 0 .. setting.maxRetries
    BY <1>1, SettingFacts
  <2> QED BY <1>1, <2>1, SpentSteps
<1>3. AttemptTime \in Nat /\ LongestPause \in Nat /\ setting.deadline \in Nat
  BY <1>1, TimesAreNatural
<1> QED BY <1>1, <1>2, <1>3 DEF WaitInv, TimeIsSpent, WaitIsBounded, Spent

LEMMA NextWaitInv == TypeInv /\ WaitInv /\ [Next]_vars => WaitInv'
<1> SUFFICES ASSUME TypeInv, WaitInv, [Next]_vars PROVE WaitInv'
  OBVIOUS
<1> DEFINE Most == Spent(setting.maxRetries + 1, setting.maxRetries)
<1>0. /\ setting' = setting /\ setting \in Settings
      /\ attempt \in 0 .. setting.maxRetries /\ elapsed \in Nat
      /\ AttemptTime \in Nat /\ LongestPause \in Nat /\ LongestPause' = LongestPause
      /\ setting.maxRetries \in Nat /\ setting.deadline \in Nat
  BY SettingIsKept, TimesAreNatural DEF TypeInv, TypeOK, LongestPause
<1>m. Most \in Nat
  BY <1>0, SpentSteps
<1>e. elapsed <= Most /\ (setting.deadline > 0 => elapsed < setting.deadline + LongestPause + AttemptTime)
  BY DEF WaitInv, WaitIsBounded, Spent
<1>s. /\ Spent(attempt, attempt) \in Nat /\ Spent(attempt + 1, attempt) \in Nat
      /\ Spent(attempt + 1, attempt) = Spent(attempt, attempt) + AttemptTime
      /\ Spent(attempt + 1, attempt + 1) = Spent(attempt + 1, attempt) + LongestPause
      /\ Spent(attempt, attempt) <= Most /\ Spent(attempt + 1, attempt) <= Most
  BY <1>0, SpentSteps
<1>p. \A n, p : Spent(n, p)' = Spent(n, p)
  BY <1>0 DEF Spent
<1>w. ASSUME /\ elapsed' <= Most
             /\ setting.deadline > 0 => elapsed' < setting.deadline + LongestPause + AttemptTime
      PROVE  WaitIsBounded'
  BY <1>0, <1>w DEF WaitIsBounded, Spent
<1> HIDE DEF LongestPause, Most, Spent
<1>1. CASE Call
  <2>1. elapsed' = 0 /\ attempt' = 0 /\ at' \in {"request", "idle"}
    BY <1>1 DEF Call, Ends
  <2>2. WaitIsBounded'
    BY <1>0, <1>m, <1>w, <2>1
  <2>3. Spent(0, 0) \in Nat
    BY <1>0, SpentSteps
  <2> QED BY <1>0, <1>p, <2>1, <2>2, <2>3 DEF WaitInv, TimeIsSpent
<1>2. CASE Answered \/ TransientError \/ OtherError
  <2>1. /\ at = "request" /\ attempt' = attempt /\ TimePasses
        /\ at' = "idle" \/ (at' = "pause" /\ attempt < setting.maxRetries
                            /\ (setting.deadline > 0 => elapsed' < setting.deadline))
    BY <1>2, AfterAttempt
  <2>2. elapsed' \in elapsed .. elapsed + AttemptTime
    BY <2>1 DEF TimePasses
  <2>3. /\ elapsed <= Spent(attempt, attempt)
        /\ setting.deadline > 0 => elapsed < setting.deadline + LongestPause
    BY <2>1 DEF WaitInv, TimeIsSpent
  <2>4. elapsed' <= Spent(attempt + 1, attempt)
    BY <1>0, <1>s, <2>2, <2>3
  <2>5. elapsed' <= Most
    BY <1>0, <1>m, <1>s, <2>2, <2>4
  <2>6. setting.deadline > 0 => elapsed' < setting.deadline + LongestPause + AttemptTime
    BY <1>0, <2>2, <2>3
  <2>7. WaitIsBounded'
    BY <1>w, <2>5, <2>6
  <2> QED BY <1>0, <1>p, <2>1, <2>4, <2>7 DEF WaitInv, TimeIsSpent
<1>3. CASE Pause
  <2>1. PICK ticks \in ComputeSleep : elapsed' = elapsed + ticks
    BY <1>3 DEF Pause
  <2>2. ticks \in 0 .. LongestPause
    BY <1>0, PauseIsBounded
  <2>3. at = "pause" /\ at' = "request" /\ attempt' = attempt + 1 /\ attempt < setting.maxRetries
    BY <1>3 DEF Pause, TypeInv, InCall
  <2>4. elapsed <= Spent(attempt + 1, attempt) /\ (setting.deadline > 0 => elapsed < setting.deadline)
    BY <2>3 DEF WaitInv, TimeIsSpent
  <2>5. elapsed' <= Spent(attempt', attempt')
    BY <1>0, <1>s, <2>1, <2>2, <2>3, <2>4
  <2>6. setting.deadline > 0 => elapsed' < setting.deadline + LongestPause
    BY <1>0, <2>1, <2>2, <2>4
  <2>7. attempt' \in 0 .. setting.maxRetries
    BY <1>0, <2>3
  <2>8. Spent(attempt', attempt') <= Most /\ Spent(attempt', attempt') \in Nat
    BY <1>0, <2>7, SpentSteps DEF Most
  <2>9. elapsed' \in Nat
    BY <1>0, <2>1, <2>2
  <2>10. WaitIsBounded'
    BY <1>0, <1>m, <1>w, <2>5, <2>6, <2>8, <2>9
  <2> QED BY <1>0, <1>p, <2>3, <2>5, <2>6, <2>10 DEF WaitInv, TimeIsSpent
<1>4. CASE UNCHANGED <<at, attempt, elapsed>>
  <2>1. WaitIsBounded'
    BY <1>4, <1>e, <1>w
  <2> QED BY <1>0, <1>4, <1>p, <2>1 DEF WaitInv, TimeIsSpent
<1> QED BY <1>1, <1>2, <1>3, <1>4 DEF Next, Delivers, Ended, vars

\* A call ends within its attempts and pauses, and within a pause and an attempt of its
\* deadline, for any settings (_request, _compute_sleep).
THEOREM CallsAreTimely == Spec => []WaitIsBounded
<1>1. WaitInv => WaitIsBounded
  BY DEF WaitInv
<1> QED BY <1>1, InitTypeInv, NextTypeInv, InitWaitInv, NextWaitInv, PTL DEF Spec
=============================================================================
