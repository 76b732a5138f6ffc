----------------------------- MODULE RequestGate -----------------------------
(***************************************************************************)
(* What stands between a public request and the backend: the lockout of    *)
(* addresses after bad credentials, the API key, the rate limit and the    *)
(* query policy (QueryPolicy).                                             *)
(*                                                                         *)
(* The lockout is consulted by a middleware in the event loop, before the  *)
(* request and after it; any number of requests is between the two.  The   *)
(* key, the limiter and the handler run in a thread of the pool, which     *)
(* bounds how many are there at a time.  The in-memory limiter has no      *)
(* lock: between two calls it makes the interpreter may run another        *)
(* thread.  A reload puts new limiters and then a new lockout in place; a  *)
(* request goes on with those it took.                                     *)
(*                                                                         *)
(* Time is counted in seconds from the start.                              *)
(***************************************************************************)
EXTENDS Integers, Sequences, FiniteSets, SequencesExt, QueryPolicy

CONSTANTS
  Requests,    \* requests in flight at a time
  PoolSize,    \* threads of the pool
  Hosts,       \* addresses of clients
  Keys,        \* API keys
  Modes,       \* values of auth.public_mode configured
  Limiters,    \* kinds of rate limiter installed: "memory", "redis"
  MaxRequests, \* public_max_requests
  Window,      \* public_window_seconds
  Threshold,   \* public_401_lockout_threshold, 0 for none
  LockWindow,  \* public_401_lockout_window_seconds
  Profile,     \* the security profile
  Queries,     \* parameters of the requests
  MaxTime,     \* bound: seconds
  MaxReloads   \* bound: reloads of the configuration

ASSUME LimitsAssumption ==
  /\ IsFiniteSet(Requests) /\ Requests # {} /\ PoolSize \in Nat \ {0}
  /\ MaxRequests \in Nat /\ Window \in Nat \ {0}
  /\ Threshold \in Nat /\ LockWindow \in Nat \ {0} /\ MaxTime \in Nat /\ MaxReloads \in Nat
ASSUME ModesAssumption ==
  /\ Modes \subseteq {"anonymous_allowed", "api_key_optional", "api_key_required"}
  /\ Limiters \subseteq {"memory", "redis"} /\ Hosts \cap Keys = {}
ASSUME PolicyAssumption == Profile \in ProfileType /\ Queries \subseteq QueryType

Subjects == Hosts \cup Keys
Credentials == Keys \cup {"none", "wrong"}
Times == 0..MaxTime
NoBody == [size |-> 0, after |-> FALSE, from |-> 0, facets |-> 0]

VARIABLES
  now,
  limiter,   \* the kind of rate limiter
  mode,      \* public_mode of the configuration in memory
  reloads,
  swapping,  \* a reload has put its limiters in place but not its lockout
  buckets,   \* subject -> times let through, of the in-memory limiter in force
  counters,  \* subject and start of a window -> count in Redis, up to one above the limit
  events,    \* host -> times of its 401s, of the lockout in force
  req,       \* request -> how far it is
  admitted,  \* history: subject -> times of the requests the limiter in force let through
  failures   \* history: host -> times it was answered 401, under the lockout in force

vars == <<now, limiter, mode, reloads, swapping, buckets, counters, events, req, admitted, failures>>

\* A request: where it is; whether a reload has replaced the lockout it took, as long as it
\* may be answered 401, and the limiter it took, as long as that decides; when it asked the
\* limiter; what it asks the backend.
Idle == [at |-> "idle", host |-> "none", oldLockout |-> FALSE, oldLimiter |-> FALSE,
         subject |-> "none", saw |-> 0, body |-> NoBody]

Init ==
  /\ now = 0
  /\ limiter \in Limiters
  /\ mode \in Modes
  /\ reloads = 0
  /\ swapping = FALSE
  /\ buckets = [s \in Subjects |-> <<>>]
  /\ counters = [c \in Subjects \X Times |-> 0]
  /\ events = [h \in Hosts |-> <<>>]
  /\ req = [r \in Requests |-> Idle]
  /\ admitted = [s \in Subjects |-> <<>>]
  /\ failures = [h \in Hosts |-> <<>>]

Limits == <<buckets, counters, admitted>>
Lockouts == <<events, failures>>
Settings == <<limiter, mode, reloads, swapping>>

\* The times from oldest on: what is before it leaves at the head, one by one.
Since(times, oldest) ==
  LET gone == CHOOSE n \in 0..Len(times) : /\ \A i \in 1..n : times[i] < oldest
                                           /\ n < Len(times) => times[n + 1] >= oldest
  IN SubSeq(times, gone + 1, Len(times))

\* The clock.  A counter of Redis expires within two windows of its start; what has left the
\* window leaves the histories.
Tick ==
  /\ now < MaxTime
  /\ now' = now + 1
  /\ admitted' = [s \in Subjects |-> Since(admitted[s], now' - Window + 1)]
  /\ failures' = [h \in Hosts |-> Since(failures[h], now' - LockWindow + 1)]
  /\ counters' = [c \in DOMAIN counters |-> IF c[2] + 2 * Window <= now' THEN 0 ELSE counters[c]]
  /\ UNCHANGED <<Settings, buckets, events, req>>

\* ConfigManager.save: the mode counts from here on, before the reload and without it.
SaveMode ==
  /\ reloads < MaxReloads
  /\ mode' \in Modes \ {mode}
  /\ UNCHANGED <<now, limiter, reloads, swapping, req, Limits, Lockouts>>

\* Container.reload: limiters of the new configuration, empty but for what is in Redis,
\* then its lockout.
ReloadState ==
  /\ reloads < MaxReloads /\ ~swapping
  /\ reloads' = reloads + 1 /\ swapping' = TRUE
  /\ buckets' = [s \in Subjects |-> <<>>]
  /\ admitted' = IF limiter = "redis" THEN admitted ELSE [s \in Subjects |-> <<>>]
  /\ req' = [r \in Requests |-> IF req[r].at \in {"limiter", "append"}
                                THEN [req[r] EXCEPT !.oldLimiter = TRUE] ELSE req[r]]
  /\ UNCHANGED <<now, limiter, mode, counters, Lockouts>>

ReloadLockout ==
  /\ swapping /\ swapping' = FALSE
  /\ events' = [h \in Hosts |-> <<>>]
  /\ failures' = [h \in Hosts |-> <<>>]
  /\ req' = [r \in Requests |-> IF req[r].at \in {"auth", "unauthorized"}
                                THEN [req[r] EXCEPT !.oldLockout = TRUE] ELSE req[r]]
  /\ UNCHANGED <<now, limiter, mode, reloads, Limits>>

-----------------------------------------------------------------------------
(* The lockout *)

\* _evict: events leave the deque once they are as old as the window.
Evict(times) == Since(times, now - LockWindow + 1)

\* Mutant: one failure more is tolerated.
LockedLate(h) == Threshold > 0 /\ Len(Evict(events[h])) > Threshold

\* is_locked.
Locked(h) == Threshold > 0 /\ Len(Evict(events[h])) >= Threshold

\* Mutant: requests refused by the lockout count as well.
CountsRefused(status) == status \in {401, 429}

\* The answers record_failure is called for.
Counts(status) == status = 401

\* record_failure on the lockout in force.
Record(h, status) ==
  /\ events' = [events EXCEPT ![h] = IF Counts(status) /\ Threshold > 0 THEN Append(Evict(@), now)
                                     ELSE Evict(@)]
  /\ failures' = IF status = 401 THEN [failures EXCEPT ![h] = Append(@, now)] ELSE failures

\* A request comes in; the middleware takes the lockout and refuses a locked address.
Arrive(r) ==
  /\ req[r].at = "idle"
  /\ \E h \in Hosts :
       IF Locked(h)
       THEN Record(h, 429) /\ UNCHANGED req
       ELSE /\ req' = [req EXCEPT ![r] = [Idle EXCEPT !.at = "auth", !.host = h]]
            /\ events' = [events EXCEPT ![h] = Evict(@)]
            /\ UNCHANGED failures
  /\ UNCHANGED <<now, Settings, Limits>>

\* The requests that hold a thread of the pool, and whether one is left for another.
InPool == {r \in Requests : req[r].at \in {"limiter", "append", "backend"}}
ThreadFree == Cardinality(InPool) < PoolSize

\* The limiter let the request through: what it needed for that is past, its thread too.
Passed(r) == req' = [req EXCEPT ![r] = [Idle EXCEPT !.at = "parse", !.host = req[r].host]]

\* The middleware after the request: its 401 is recorded in the lockout it took before,
\* which nobody consults once a reload has replaced it.
Leave(r, status) ==
  /\ IF Counts(status) /\ ~req[r].oldLockout THEN Record(req[r].host, status) ELSE UNCHANGED Lockouts
  /\ req' = [req EXCEPT ![r] = Idle]

-----------------------------------------------------------------------------
(* The key and the rate limit *)

\* The credential does not do under the mode in force.
Refused(c) ==
  \/ mode = "api_key_required" /\ c \notin Keys
  \/ mode = "api_key_optional" /\ c = "wrong"

\* enforce_public_auth, in a thread: 401, or the limiter is asked about the key or else the
\* address.
Authenticate(r) ==
  /\ req[r].at = "auth" /\ ThreadFree
  /\ \E c \in Credentials :
       req' = IF Refused(c)
              THEN [req EXCEPT ![r].at = "unauthorized"]
              ELSE [req EXCEPT ![r].at = "limiter", ![r].oldLockout = FALSE, ![r].saw = now,
                               ![r].subject = IF c \in Keys THEN c ELSE req[r].host]
  /\ UNCHANGED <<now, Settings, Limits, Lockouts>>

Unauthorized(r) ==
  /\ req[r].at = "unauthorized"
  /\ Leave(r, 401)
  /\ UNCHANGED <<now, Settings, Limits>>

Bucket(r) == buckets[req[r].subject]
Expired(r) == Bucket(r) # <<>> /\ req[r].saw - Head(Bucket(r)) > Window

Admit(r) ==
  admitted' = [admitted EXCEPT ![req[r].subject] = Since(Append(@, req[r].saw), now - Window + 1)]

\* InMemoryRateLimiter.allow: expired times are evicted one by one,
EvictOne(r) ==
  /\ req[r].at = "limiter" /\ limiter = "memory" /\ ~req[r].oldLimiter /\ Expired(r)
  /\ buckets' = [buckets EXCEPT ![req[r].subject] = Tail(@)]
  /\ UNCHANGED <<now, Settings, counters, req, admitted, Lockouts>>

\* Mutant: one request more is let through.
FullLate(r) == Len(Bucket(r)) > MaxRequests

Full(r) == Len(Bucket(r)) >= MaxRequests

\* the others counted,
Measure(r) ==
  /\ req[r].at = "limiter" /\ limiter = "memory" /\ ~req[r].oldLimiter /\ ~Expired(r)
  /\ IF Full(r) THEN Leave(r, 429)
     ELSE req' = [req EXCEPT ![r].at = "append"] /\ UNCHANGED Lockouts
  /\ UNCHANGED <<now, Settings, Limits>>

\* and this one, with the time it came, put at the end.
AppendTime(r) ==
  /\ req[r].at = "append" /\ ~req[r].oldLimiter
  /\ buckets' = [buckets EXCEPT ![req[r].subject] = Append(@, req[r].saw)]
  /\ Admit(r)
  /\ Passed(r)
  /\ UNCHANGED <<now, Settings, counters, Lockouts>>

\* The in-memory limiter of before a reload decides one way or the other.
AllowOld(r) ==
  /\ req[r].at \in {"limiter", "append"} /\ limiter = "memory" /\ req[r].oldLimiter
  /\ \/ Passed(r) /\ UNCHANGED Lockouts
     \/ req[r].at = "limiter" /\ Leave(r, 429)
  /\ UNCHANGED <<now, Settings, Limits>>

\* RedisRateLimiter.allow: the count of the fixed window the request came in.
Increment(r) ==
  /\ req[r].at = "limiter" /\ limiter = "redis"
  /\ LET start == req[r].saw - (req[r].saw % Window)
         count == counters[<<req[r].subject, start>>] + 1
     IN /\ counters' = [counters EXCEPT ![<<req[r].subject, start>>] =
                                      IF @ <= MaxRequests THEN count ELSE @]
        /\ IF count <= MaxRequests
           THEN Admit(r) /\ Passed(r) /\ UNCHANGED Lockouts
           ELSE Leave(r, 429) /\ UNCHANGED admitted
  /\ UNCHANGED <<now, Settings, buckets>>

\* Redis does not answer: the request passes, uncounted.
RedisDown(r) ==
  /\ req[r].at = "limiter" /\ limiter = "redis"
  /\ Passed(r)
  /\ UNCHANGED <<now, Settings, Limits, Lockouts>>

-----------------------------------------------------------------------------
(* The query *)

\* search or facets, in a thread: the parameters are parsed and translated, and the backend
\* asked.
Parse(r) ==
  /\ req[r].at = "parse" /\ ThreadFree
  /\ \E p \in Queries, facetsOnly \in BOOLEAN :
       IF ParseError(p, Profile) # "none" \/ TranslateError(p) # "none"
       THEN Leave(r, 400)
       ELSE /\ req' = [req EXCEPT ![r].at = "backend", ![r].body = Body(p, Profile, facetsOnly)]
            /\ UNCHANGED Lockouts
  /\ UNCHANGED <<now, Settings, Limits>>

Answer(r) ==
  /\ req[r].at = "backend"
  /\ Leave(r, 200)
  /\ UNCHANGED <<now, Settings, Limits>>

Serve(r) ==
  \/ Authenticate(r) \/ Unauthorized(r) \/ EvictOne(r) \/ Measure(r) \/ AppendTime(r)
  \/ AllowOld(r) \/ Increment(r) \/ RedisDown(r) \/ Parse(r) \/ Answer(r)

Next == Tick \/ SaveMode \/ ReloadState \/ ReloadLockout \/ \E r \in Requests : Arrive(r) \/ Serve(r)

Spec == Init /\ [][Next]_vars

-----------------------------------------------------------------------------
(* Properties *)

\* Every variable keeps to its values.
TypeOK ==
  /\ now \in Times /\ limiter \in Limiters /\ mode \in Modes
  /\ reloads \in 0..MaxReloads /\ swapping \in BOOLEAN
  /\ buckets \in [Subjects -> Seq(Times)]
  /\ counters \in [Subjects \X Times -> 0..MaxRequests + 1]
  /\ events \in [Hosts -> Seq(Times)]
  /\ admitted \in [Subjects -> Seq(Times)] /\ failures \in [Hosts -> Seq(Times)]

\* What the limiter let through for a subject within the window that ends now.
Recent(s) == {i \in DOMAIN admitted[s] : now - admitted[s][i] < Window}

\* In no window does a limiter let a subject through more often than configured, but for
\* one request per other thread of the pool, which measures the bucket before this one is in
\* it; with Redis, whose windows are fixed, for twice as often (allow, without a lock).
QuotaHolds ==
  \A s \in Subjects :
    Cardinality(Recent(s)) <= IF limiter = "memory" THEN MaxRequests + PoolSize - 1
                              ELSE 2 * MaxRequests

\* Once an address has as many 401s as the threshold it gets no further one before they
\* expire, but for one per other request that was in flight by then: however many those are,
\* the pool does not bound them (is_locked before the request, record_failure after it).
LockoutHolds ==
  \A h \in Hosts : Threshold > 0 => Len(failures[h]) <= Threshold + Cardinality(Requests) - 1

\* An address is locked out only for 401s it was answered within the window: what the
\* lockout itself refuses does not prolong it.
LockIsEarned ==
  \A h \in Hosts : Locked(h) => Len(failures[h]) >= Threshold

\* No request makes the backend search more than the profile admits, whatever its
\* combination of page, size, cursor and facets (parse, then translate_query).
BackendIsSpared == \A r \in Requests : req[r].at = "backend" => Spared(req[r].body, Profile)
=============================================================================
