----------------------------- MODULE BackendRetry -----------------------------
(***************************************************************************)
(* One adapter at work: calls to the search backend, each of them a loop   *)
(* of attempts with a growing pause between two, until an answer counts as *)
(* final, the attempts are used up or the deadline has passed.             *)
(*                                                                         *)
(* The network may lose a request, lose its answer, or deliver a request   *)
(* after its caller gave up on it.  The POST of a bulk request is tried    *)
(* again like any other: a document that has an id is replaced by itself,  *)
(* one that has none is a new document each time.                          *)
(*                                                                         *)
(* Time is counted in ticks since the call began.                          *)
(***************************************************************************)
EXTENDS Integers, FiniteSets, FiniteSetsExt

CONSTANTS
  Settings,     \* records of the retry settings of the adapter
  AttemptTime,  \* ticks after which an attempt has timed out
  Named,        \* documents with an id
  Nameless,     \* documents without one
  Majors,       \* major versions a backend may report
  MaxCalls      \* bound: calls

Docs == Named \cup Nameless

\* Settings of BackendConfig: retries, first pause, longest pause, deadline (0: none), and
\* the type of the backend.
SettingType == [maxRetries : Nat, backoff : Nat, cap : Nat, deadline : Nat,
                type : {"elasticsearch", "opensearch"}]

ASSUME SettingsAssumption == Settings \subseteq SettingType
ASSUME TimeAssumption == AttemptTime \in Nat /\ MaxCalls \in Nat
ASSUME DocsAssumption == IsFiniteSet(Docs) /\ Named \cap Nameless = {} /\ Majors \subseteq Nat

Operations ==
  {"detect", "health", "scan_fields", "search", "get_record", "suggest", "get_facets", "bulk_index"}
Statuses == {"2xx", "404", "4xx", "5xx"}

VARIABLES
  setting,  \* the settings in force
  call,     \* number of the current call, or of the last
  op,       \* its operation
  batches,  \* call -> its documents, if it is a bulk_index
  at,       \* "idle", "request", "pause"
  attempt,  \* of _request, from 0
  elapsed,  \* ticks since the call began
  outcome,  \* how the last call ended
  counted,  \* documents it counted as ingested
  blank,    \* history: it was answered by a 2xx that lists no document
  pending,  \* call -> attempts the network still holds
  copies    \* history: call and document -> times the backend indexed it for that call

vars == <<setting, call, op, batches, at, attempt, elapsed, outcome, counted, blank, pending,
          copies>>

Calls == 1..MaxCalls

Init ==
  /\ setting \in Settings
  /\ call = 0
  /\ op = "detect"
  /\ batches = [c \in Calls |-> {}]
  /\ at = "idle"
  /\ attempt = 0
  /\ elapsed = 0
  /\ outcome = "none"
  /\ counted = {}
  /\ blank = FALSE
  /\ pending = [c \in Calls |-> 0]
  /\ copies = [p \in Calls \X Docs |-> 0]

\* Mutant: the loop runs once more.
AttemptsOneMore == setting.maxRetries + 2

\* The attempts of _request.
Attempts == setting.maxRetries + 1

\* Pauses between the attempts, _compute_sleep: the first doubles with every attempt up to
\* the cap; the jitter, a quarter either way, comes on top of it.
Capped == LET nominal == setting.backoff * 2^attempt
          IN IF nominal \in 0 .. setting.cap THEN nominal ELSE setting.cap
ComputeSleep == IF setting.backoff = 0 THEN {0} ELSE (3 * Capped) \div 4 .. (5 * Capped + 3) \div 4

\* Mutant: the deadline is not looked at.
DeadlinePassedNever == FALSE

DeadlinePassed == setting.deadline > 0 /\ elapsed' >= setting.deadline

-----------------------------------------------------------------------------
(* A call *)

Ends(how, docs) ==
  /\ at' = "idle" /\ outcome' = how /\ counted' = docs

\* An operation is called.  bulk_index of no document and suggest of an empty prefix are
\* over at once.
Call ==
  /\ at = "idle" /\ call < MaxCalls
  /\ call' = call + 1
  /\ \E o \in Operations, docs \in SUBSET Docs :
       /\ o # "bulk_index" => docs = {}
       /\ op' = o /\ batches' = [batches EXCEPT ![call + 1] = docs]
       /\ \/ /\ o = "bulk_index" => docs # {}
             /\ at' = "request" /\ outcome' = "none" /\ counted' = {}
          \/ o = "suggest" /\ Ends("result", {})
          \/ o = "bulk_index" /\ docs = {} /\ Ends("result", {})
  /\ attempt' = 0 /\ elapsed' = 0 /\ blank' = FALSE
  /\ UNCHANGED <<setting, pending, copies>>

\* The backend indexes documents for call c.
Indexes(c, docs) ==
  copies' = [p \in DOMAIN copies |-> IF p[1] = c /\ p[2] \in docs THEN copies[p] + 1 ELSE copies[p]]

\* An attempt takes its time.
TimePasses == elapsed' \in elapsed .. elapsed + AttemptTime

\* time.sleep(_compute_sleep(attempt)) comes next.
PausesNext == at' = "pause" /\ UNCHANGED <<outcome, counted>>

\* Mutant: the status of the answer is not looked at.
RaisesForStatusNever(status) == FALSE

\* raise_for_status.
RaisesForStatus(status) == status # "2xx"

\* The lowest version detect accepts.
Floor == IF setting.type = "opensearch" THEN 1 ELSE 7

\* The operation makes its result of an answer; items are the documents a bulk answer
\* lists, with whether they were indexed.  When it lists none, or has no body, all count as
\* ingested.
Finish(status, items) ==
  CASE op = "bulk_index" /\ ~RaisesForStatus(status) ->
         Ends("result", IF items = {} THEN batches[call] ELSE {d \in batches[call] : <<d, TRUE>> \in items})
    [] op = "get_record" /\ status = "404" -> Ends("no_record", {})
    [] op = "scan_fields" /\ RaisesForStatus(status) -> Ends("http_error", {})
    [] op = "detect" /\ ~RaisesForStatus(status) ->
         \E major \in Majors : Ends(IF major < Floor THEN "unsupported_backend_version" ELSE "result", {})
    [] OTHER -> Ends(IF RaisesForStatus(status) THEN "backend_unavailable" ELSE "result", {})

\* The answer comes in time.  A 5xx is not final while attempts are left, but ends the call
\* once the deadline has passed.  A gateway may answer 5xx for a bulk request that the
\* backend has executed, and a 2xx need not list the documents (a filter on the answer, no
\* body) nor be JSON, which raises.
Answered ==
  /\ at = "request"
  /\ TimePasses
  /\ \E status \in Statuses, docs \in SUBSET batches[call], lists, json \in BOOLEAN :
       /\ status \notin {"2xx", "5xx"} => docs = {}
       /\ Indexes(call, docs)
       /\ blank' = (status = "2xx" /\ ~lists)
       /\ CASE status = "5xx" /\ attempt + 1 < Attempts /\ ~DeadlinePassed -> PausesNext
            [] status = "5xx" /\ attempt + 1 < Attempts /\ DeadlinePassed -> Ends("backend_unavailable", {})
            [] status = "2xx" /\ ~json -> Ends("http_error", {})
            [] OTHER -> Finish(status, IF status = "2xx" /\ lists
                                       THEN {<<d, d \in docs>> : d \in batches[call]} ELSE {})
  /\ UNCHANGED <<setting, call, op, batches, attempt, pending>>

\* What may become of an attempt that has no answer: the connection failed, or the backend
\* executed the request, or the network still holds it.
Unanswered ==
  \/ \E docs \in SUBSET batches[call] : Indexes(call, docs) /\ UNCHANGED pending
  \/ pending' = [pending EXCEPT ![call] = @ + 1] /\ UNCHANGED copies

\* A transient exception.
TransientError ==
  /\ at = "request"
  /\ TimePasses
  /\ Unanswered
  /\ IF attempt + 1 >= Attempts \/ DeadlinePassed THEN Ends("backend_unavailable", {}) ELSE PausesNext
  /\ UNCHANGED <<setting, call, op, batches, attempt, blank>>

\* Another exception of httpx is not caught, such as one over how the answer is encoded.
OtherError ==
  /\ at = "request"
  /\ TimePasses
  /\ Unanswered
  /\ Ends("http_error", {})
  /\ UNCHANGED <<setting, call, op, batches, attempt, blank>>

Pause ==
  /\ at = "pause"
  /\ \E ticks \in ComputeSleep : elapsed' = elapsed + ticks
  /\ attempt' = attempt + 1
  /\ at' = "request"
  /\ UNCHANGED <<setting, call, op, batches, outcome, counted, blank, pending, copies>>

\* The network delivers a request whose caller no longer waits, or drops it.
Delivers ==
  \E c \in Calls :
    /\ pending[c] > 0
    /\ pending' = [pending EXCEPT ![c] = @ - 1]
    /\ \E docs \in SUBSET batches[c] : Indexes(c, docs)
    /\ UNCHANGED <<setting, call, op, batches, at, attempt, elapsed, outcome, counted, blank>>

Ended == at = "idle" /\ call = MaxCalls /\ UNCHANGED vars

Next == Call \/ Answered \/ TransientError \/ OtherError \/ Pause \/ Delivers \/ Ended

Spec == Init /\ [][Next]_vars

-----------------------------------------------------------------------------
(* Properties *)

\* Every variable keeps to its values.
TypeOK ==
  /\ setting \in Settings /\ call \in 0..MaxCalls /\ op \in Operations
  /\ batches \in [Calls -> SUBSET Docs]
  /\ at \in {"idle", "request", "pause"}
  /\ attempt \in 0..setting.maxRetries /\ elapsed \in Nat
  /\ outcome \in {"none", "result", "no_record", "http_error", "unsupported_backend_version",
                  "backend_unavailable"}
  /\ counted \in SUBSET Docs /\ blank \in BOOLEAN
  /\ pending \in [Calls -> Nat] /\ copies \in [Calls \X Docs -> Nat]

\* What bulk_index counts as ingested the backend has indexed for this call, however many of
\* its attempts failed or were executed without an answer, unless the answer is a 2xx that
\* lists no document: that one counts them all, whatever became of them (bulk_index).
CountedIsIndexed == ~blank => \A d \in counted : copies[<<call, d>>] > 0

\* A call leaves at most one copy per attempt of a document that has no id, whatever the
\* network does with the attempts (the loop of _request).
CopiesAreBounded ==
  \A c \in Calls : \A d \in Docs : copies[<<c, d>>] + pending[c] <= setting.maxRetries + 1

\* A call takes at most: its attempts and the pauses between them; and with a deadline one
\* pause and one attempt after it (retry_deadline_seconds is only looked at between an
\* attempt and its pause).
LongestPause == IF setting.backoff = 0 THEN 0 ELSE (5 * setting.cap + 3) \div 4
WaitIsBounded ==
  /\ elapsed <= (setting.maxRetries + 1) * AttemptTime + setting.maxRetries * LongestPause
  /\ setting.deadline > 0 =>
       elapsed < setting.deadline + LongestPause + AttemptTime
=============================================================================
