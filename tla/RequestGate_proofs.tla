-------------------------- MODULE RequestGate_proofs --------------------------
(***************************************************************************)
(* Theorems about RequestGate for any number of requests in flight,        *)
(* threads, addresses, keys and reloads, any limits, windows and queries.  *)
(***************************************************************************)
EXTENDS RequestGate, FiniteSetTheorems, SequenceTheorems, WellFoundedInduction, TLAPS

-----------------------------------------------------------------------------
(* Times that leave at the head *)

LEMMA LeastNumber ==
  ASSUME NEW S \in SUBSET Nat, S # {}
  PROVE  \E m \in S : \A y \in S : m <= y
<1>1. PICK x \in S : \A y \in S : ~ (<<y, x>> \in OpToRel(<, Nat))
  BY NatLessThanWellFounded, WFMin, Zenon
<1>2. \A y \in S : ~(y < x)
  BY <1>1 DEF OpToRel
<1> QED BY <1>2

\* How many leave.
Gone(times, oldest, n) ==
  /\ \A i \in 1..n : times[i] < oldest
  /\ n < Len(times) => times[n + 1] >= oldest

LEMMA SomeGone ==
  ASSUME NEW times \in Seq(Nat), NEW oldest \in Int
  PROVE  \E n \in 0..Len(times) : Gone(times, oldest, n)
<1> DEFINE Stays == {n \in 0..Len(times) : n < Len(times) => times[n + 1] >= oldest}
<1>1. Len(times) \in Stays /\ Stays \in SUBSET Nat
  OBVIOUS
<1>2. PICK m \in Stays : \A y \in Stays : m <= y
  BY <1>1, LeastNumber
<1>3. ASSUME NEW i \in 1..m PROVE times[i] < oldest
  <2>1. i - 1 \in 0..Len(times) /\ i - 1 < m /\ times[i] \in Nat
    <3>1. m \in 0..Len(times)
      BY <1>2
    <3> QED BY <3>1
  <2>2. i - 1 \notin Stays
    <3>1. ~(m <= i - 1)
      BY <2>1
    <3> QED BY ONLY <1>2, <3>1
  <2>3. i - 1 + 1 = i
    OBVIOUS
  <2> QED BY <2>1, <2>2, <2>3
<1> QED BY <1>2, <1>3 DEF Gone

LEMMA OneGone ==
  ASSUME NEW times \in Seq(Nat), NEW oldest \in Int,
         NEW n \in 0..Len(times), Gone(times, oldest, n)
  PROVE  Since(times, oldest) = SubSeq(times, n + 1, Len(times))
<1>1. \A k \in 0..Len(times) : Gone(times, oldest, k) => k = n
  <2> SUFFICES ASSUME NEW k \in 0..Len(times), Gone(times, oldest, k), k # n PROVE FALSE
    OBVIOUS
  <2>1. \A i \in 1..Len(times) : times[i] \in Nat
    OBVIOUS
  <2>2. CASE k < n
    <3>1. k + 1 \in 1..n /\ k + 1 \in 1..Len(times) /\ k < Len(times)
      BY <2>2
    <3> QED BY <2>1, <3>1 DEF Gone
  <2>3. CASE n < k
    <3>1. n + 1 \in 1..k /\ n + 1 \in 1..Len(times) /\ n < Len(times)
      BY <2>3
    <3> QED BY <2>1, <3>1 DEF Gone
  <2> QED BY <2>2, <2>3
<1>2. (CHOOSE k \in 0..Len(times) : Gone(times, oldest, k)) = n
  BY <1>1
<1> QED BY <1>2 DEF Since, Gone

LEMMA SinceIs ==
  ASSUME NEW S \in SUBSET Nat, NEW times \in Seq(S), NEW oldest \in Int
  PROVE  \E n \in 0..Len(times) :
           /\ Gone(times, oldest, n)
           /\ Since(times, oldest) \in Seq(S) /\ Len(Since(times, oldest)) = Len(times) - n
           /\ \A j \in 1..(Len(times) - n) : Since(times, oldest)[j] = times[n + j]
<1>1. times \in Seq(Nat) /\ Len(times) \in Nat /\ \A i \in 1..Len(times) : times[i] \in S
  BY ElementOfSeq, LenProperties, SeqMonotonic
<1>2. PICK n \in 0..Len(times) : Gone(times, oldest, n)
  BY <1>1, SomeGone
<1>3. Since(times, oldest) = SubSeq(times, n + 1, Len(times))
  BY <1>1, <1>2, OneGone
<1> DEFINE rest == SubSeq(times, n + 1, Len(times))
<1>4. /\ rest \in Seq(S)
      /\ Len(rest) = (IF n + 1 <= Len(times) THEN Len(times) - (n + 1) + 1 ELSE 0)
      /\ \A j \in 1..(Len(times) - (n + 1) + 1) : rest[j] = times[(n + 1) + j - 1]
  <2>1. n + 1 \in Int /\ Len(times) \in Int /\ \A i \in n + 1 .. Len(times) : times[i] \in S
    BY <1>1
  <2> QED BY <2>1, SubSeqProperties
<1> HIDE DEF rest
<1>5. Len(rest) = Len(times) - n /\ \A j \in 1..(Len(times) - n) : rest[j] = times[n + j]
  <2>1. n \in Nat /\ n <= Len(times)
    BY <1>1, <1>2
  <2>2. Len(times) - (n + 1) + 1 = Len(times) - n
    BY <1>1, <2>1
  <2>3. ASSUME NEW j \in 1..(Len(times) - n) PROVE rest[j] = times[n + j]
    <3>1. (n + 1) + j - 1 = n + j
      BY <2>1
    <3> QED BY <1>4, <2>2, <3>1
  <2> QED BY <1>1, <1>4, <2>1, <2>3
<1> QED BY <1>2, <1>3, <1>4, <1>5 DEF rest

LEMMA SinceOfNumbers ==
  ASSUME NEW times \in Seq(Nat), NEW oldest \in Int
  PROVE  \E n \in 0..Len(times) :
           /\ Gone(times, oldest, n)
           /\ Since(times, oldest) \in Seq(Nat) /\ Len(Since(times, oldest)) = Len(times) - n
           /\ \A j \in 1..(Len(times) - n) : Since(times, oldest)[j] = times[n + j]
<1>1. Nat \in SUBSET Nat
  OBVIOUS
<1> QED BY <1>1, SinceIs, Zenon

LEMMA SinceOfNone ==
  ASSUME NEW oldest \in Int
  PROVE  Since(<<>>, oldest) = <<>>
<1>1. <<>> \in Seq(Nat) /\ Len(<<>>) = 0
  BY EmptySeq
<1>2. PICK n \in 0..Len(<<>>) :
        Since(<<>>, oldest) \in Seq(Nat) /\ Len(Since(<<>>, oldest)) = Len(<<>>) - n
  BY <1>1, SinceOfNumbers, Zenon
<1>3. Len(Since(<<>>, oldest)) = 0
  BY <1>1, <1>2
<1> QED BY <1>2, <1>3, EmptySeq

\* When two limits are applied one after the other, the later one counts.
LEMMA SinceTwice ==
  ASSUME NEW times \in Seq(Nat), NEW early \in Int, NEW late \in Int, early <= late
  PROVE  Since(Since(times, early), late) = Since(times, late)
<1> DEFINE first == Since(times, early)
           both == Since(first, late)
           once == Since(times, late)
           l == Len(times)
<1>0. l \in Nat /\ \A i \in 1..l : times[i] \in Nat
  BY ElementOfSeq, LenProperties
<1>1. PICK n \in 0..l : /\ Gone(times, early, n)
                        /\ first \in Seq(Nat) /\ Len(first) = l - n
                        /\ \A j \in 1..(l - n) : first[j] = times[n + j]
  BY SinceOfNumbers, Zenon
<1> HIDE DEF first
<1>2. PICK m \in 0..Len(first) : /\ Gone(first, late, m)
                                 /\ both \in Seq(Nat) /\ Len(both) = Len(first) - m
                                 /\ \A j \in 1..(Len(first) - m) : both[j] = first[m + j]
  BY <1>1, SinceOfNumbers, Zenon
<1> HIDE DEF both
<1>3. n \in Nat /\ m \in Nat /\ n + m <= l
  BY <1>0, <1>1, <1>2
<1>4. Gone(times, late, n + m)
  <2>1. ASSUME NEW i \in 1..(n + m) PROVE times[i] < late
    <3>1. i \in 1..l /\ times[i] \in Nat
      BY <1>0, <1>3
    <3>2. CASE i <= n
      BY <1>1, <3>1, <3>2 DEF Gone
    <3>3. CASE i > n
      <4>1. i - n \in 1..m /\ i - n \in 1..(l - n) /\ n + (i - n) = i
        BY <1>0, <1>3, <3>1, <3>3
      <4>2. first[i - n] = times[i] /\ first[i - n] < late
        BY <1>1, <1>2, <4>1 DEF Gone
      <4> QED BY <4>2
    <3> QED BY <1>3, <3>2, <3>3
  <2>2. ASSUME n + m < l PROVE times[n + m + 1] >= late
    <3>1. m < Len(first) /\ m + 1 \in 1..(l - n) /\ n + (m + 1) = n + m + 1
      BY <1>0, <1>1, <1>3, <2>2
    <3>2. first[m + 1] >= late
      BY ONLY <1>2, <3>1 DEF Gone
    <3>3. first[m + 1] = times[n + (m + 1)]
      BY ONLY <1>1, <3>1
    <3> QED BY ONLY <3>1, <3>2, <3>3
  <2> QED BY <2>1, <2>2 DEF Gone
<1>5. PICK k \in 0..l : /\ Gone(times, late, k)
                        /\ once \in Seq(Nat) /\ Len(once) = l - k
                        /\ \A j \in 1..(l - k) : once[j] = times[k + j]
  BY SinceOfNumbers, Zenon
<1>6. k = n + m
  <2>1. n + m \in 0..l
    BY <1>0, <1>3
  <2>2. CASE k < n + m
    <3>1. k + 1 \in 1..(n + m) /\ k < l /\ k + 1 \in 1..l
      BY <1>0, <1>3, <1>5, <2>2
    <3> QED BY <1>0, <1>4, <1>5, <3>1 DEF Gone
  <2>3. CASE n + m < k
    <3>1. n + m + 1 \in 1..k /\ n + m < l /\ n + m + 1 \in 1..l
      BY <1>0, <1>3, <1>5, <2>3
    <3> QED BY <1>0, <1>4, <1>5, <3>1 DEF Gone
  <2> QED BY <1>0, <1>3, <1>5, <2>2, <2>3
<1> HIDE DEF once
<1>7. Len(both) = Len(once)
  BY <1>0, <1>1, <1>2, <1>3, <1>5, <1>6
<1>8. ASSUME NEW j \in 1..Len(both) PROVE both[j] = once[j]
  <2>1. j \in 1..(Len(first) - m) /\ m + j \in 1..(l - n) /\ j \in 1..(l - k)
        /\ n + (m + j) = k + j
    BY <1>0, <1>1, <1>2, <1>3, <1>5, <1>6
  <2> QED BY <1>1, <1>2, <1>5, <2>1
<1>9. both = once
  BY <1>2, <1>5, <1>7, <1>8, SeqEqual
<1> QED BY <1>9 DEF both, once, first

\* Where nothing leaves, nothing leaves either once a time that stays is appended.
LEMMA SinceAppend ==
  ASSUME NEW times \in Seq(Nat), NEW time \in Nat, NEW oldest \in Int,
         Since(times, oldest) = times, time >= oldest
  PROVE  Since(Append(times, time), oldest) = Append(times, time)
<1> DEFINE more == Append(times, time)
<1>1. /\ more \in Seq(Nat) /\ Len(more) = Len(times) + 1 /\ Len(times) \in Nat
      /\ \A i \in 1..Len(times) : more[i] = times[i]
      /\ more[Len(times) + 1] = time
  BY AppendProperties, LenProperties
<1>2. Gone(times, oldest, 0)
  <2>1. PICK n \in 0..Len(times) : Gone(times, oldest, n) /\ Len(Since(times, oldest)) = Len(times) - n
    BY SinceIs
  <2>2. n = 0
    BY <1>1, <2>1
  <2> QED BY <2>1, <2>2
<1> HIDE DEF more
<1>3. Gone(more, oldest, 0)
  <2>1. CASE Len(times) = 0
    BY <1>1, <2>1 DEF Gone
  <2>2. CASE Len(times) # 0
    BY <1>1, <1>2, <2>2 DEF Gone
  <2> QED BY <2>1, <2>2
<1>4. Since(more, oldest) = SubSeq(more, 0 + 1, Len(more))
  <2>1. 0 \in 0..Len(more)
    BY <1>1
  <2> QED BY <1>1, <1>3, <2>1, OneGone
<1>5. SubSeq(more, 1, Len(more)) = more
  BY <1>1, SubSeqFull
<1> QED BY <1>4, <1>5 DEF more

-----------------------------------------------------------------------------
(* Type correctness *)

Bodies == {NoBody} \cup {Body(p, Profile, facetsOnly) : p \in Queries, facetsOnly \in BOOLEAN}
Places == {"idle", "auth", "unauthorized", "limiter", "append", "parse", "backend"}
RequestType == [at : Places, host : Hosts \cup {"none"}, oldLockout : BOOLEAN,
                oldLimiter : BOOLEAN, subject : Subjects \cup {"none"}, saw : Times, body : Bodies]

\* A request has an address from the start; it asks the limiter about a subject, and asked
\* in the past.
InFlight ==
  \A t \in Requests :
    /\ req[t].at # "idle" => req[t].host \in Hosts
    /\ req[t].at \in {"limiter", "append"} => req[t].subject \in Subjects
    /\ req[t].at = "append" => limiter = "memory"
    /\ req[t].saw <= now

TypeInv == TypeOK /\ req \in [Requests -> RequestType] /\ InFlight

LEMMA LimitFacts ==
  /\ MaxRequests \in Nat /\ Window \in Nat \ {0} /\ Threshold \in Nat /\ LockWindow \in Nat \ {0}
  /\ MaxTime \in Nat /\ MaxReloads \in Nat /\ Times \in SUBSET Nat /\ PoolSize \in Nat \ {0}
BY LimitsAssumption DEF Times

LEMMA SinceOfTimes ==
  ASSUME NEW times \in Seq(Times), NEW oldest \in Int
  PROVE  Since(times, oldest) \in Seq(Times)
BY LimitFacts, SinceIs

LEMMA EvictOfTimes ==
  ASSUME TypeOK, NEW times \in Seq(Times)
  PROVE  Evict(times) \in Seq(Times)
<1>1. now - LockWindow + 1 \in Int
  BY LimitFacts DEF TypeOK
<1> QED BY <1>1, SinceOfTimes DEF Evict

LEMMA RecordKeepsTypes ==
  ASSUME TypeOK, NEW h \in Hosts, NEW status, Record(h, status)
  PROVE  events' \in [Hosts -> Seq(Times)] /\ failures' \in [Hosts -> Seq(Times)]
<1>1. events[h] \in Seq(Times) /\ failures[h] \in Seq(Times) /\ now \in Times
  BY DEF TypeOK
<1>2. Evict(events[h]) \in Seq(Times)
  BY <1>1, EvictOfTimes
<1>3. Append(Evict(events[h]), now) \in Seq(Times) /\ Append(failures[h], now) \in Seq(Times)
  BY <1>1, <1>2, AppendProperties
<1> QED BY <1>2, <1>3 DEF Record, TypeOK

LEMMA LeaveKeepsTypes ==
  ASSUME TypeInv, NEW t \in Requests, req[t].at # "idle", NEW status, Leave(t, status)
  PROVE  /\ events' \in [Hosts -> Seq(Times)] /\ failures' \in [Hosts -> Seq(Times)]
         /\ req' = [req EXCEPT ![t] = Idle]
<1>1. req[t].host \in Hosts /\ TypeOK
  BY DEF TypeInv, InFlight
<1>2. CASE UNCHANGED Lockouts
  BY <1>1, <1>2 DEF Leave, Lockouts, TypeOK
<1>3. CASE Record(req[t].host, status)
  BY <1>1, <1>3, RecordKeepsTypes DEF Leave
<1> QED BY <1>2, <1>3 DEF Leave

LEMMA IdleIsRequest == Idle \in RequestType /\ Idle.at = "idle" /\ Idle.saw = 0
BY LimitFacts DEF Idle, RequestType, Places, Bodies, Times

\* A request that is replaced by one of its type.
LEMMA ReqTypes ==
  ASSUME req \in [Requests -> RequestType], NEW t \in Requests, NEW r \in RequestType,
         req' = [req EXCEPT ![t] = r]
  PROVE  req' \in [Requests -> RequestType] /\ req'[t] = r /\ \A u \in Requests \ {t} : req'[u] = req[u]
OBVIOUS

LEMMA InitTypeInv == Init => TypeInv
<1> SUFFICES ASSUME Init PROVE TypeInv
  OBVIOUS
<1>1. 0 \in Times /\ <<>> \in Seq(Times)
  BY LimitFacts, EmptySeq DEF Times
<1>2. req \in [Requests -> RequestType] /\ InFlight
  BY <1>1, IdleIsRequest DEF Init, InFlight
<1>3. counters \in [Subjects \X Times -> 0..MaxRequests + 1]
  BY LimitFacts DEF Init
<1>4. /\ buckets \in [Subjects -> Seq(Times)] /\ admitted \in [Subjects -> Seq(Times)]
      /\ events \in [Hosts -> Seq(Times)] /\ failures \in [Hosts -> Seq(Times)]
  BY <1>1 DEF Init
<1>5. now \in Times /\ limiter \in Limiters /\ mode \in Modes /\ swapping \in BOOLEAN
  BY <1>1 DEF Init
<1>6. reloads \in 0..MaxReloads
  BY LimitFacts DEF Init
<1> QED BY <1>2, <1>3, <1>4, <1>5, <1>6 DEF TypeInv, TypeOK

\* A step of one request, which leaves the settings alone.
LEMMA OneRequest ==
  ASSUME TypeInv, NEW t \in Requests, NEW r \in RequestType, req' = [req EXCEPT ![t] = r],
         UNCHANGED <<now, Settings>>,
         r.at # "idle" => r.host \in Hosts,
         r.at \in {"limiter", "append"} => r.subject \in Subjects,
         r.at = "append" => limiter = "memory",
         r.saw <= now,
         buckets' \in [Subjects -> Seq(Times)], admitted' \in [Subjects -> Seq(Times)],
         counters' \in [Subjects \X Times -> 0..MaxRequests + 1],
         events' \in [Hosts -> Seq(Times)], failures' \in [Hosts -> Seq(Times)]
  PROVE  TypeInv'
<1>1. req' \in [Requests -> RequestType] /\ req'[t] = r /\ \A u \in Requests \ {t} : req'[u] = req[u]
  BY ReqTypes DEF TypeInv
<1>2. InFlight'
  BY <1>1 DEF TypeInv, InFlight, Settings
<1> QED BY <1>1, <1>2 DEF TypeInv, TypeOK, Settings

\* enforce_public_auth: 401, or a subject for the limiter.
LEMMA AuthenticateDoes ==
  ASSUME TypeInv, NEW t \in Requests, Authenticate(t)
  PROVE  \/ req' = [req EXCEPT ![t].at = "unauthorized"]
         \/ \E sub \in Subjects :
              req' = [req EXCEPT ![t].at = "limiter", ![t].oldLockout = FALSE, ![t].saw = now,
                                 ![t].subject = sub]
<1>1. PICK c \in Credentials :
        req' = IF Refused(c)
               THEN [req EXCEPT ![t].at = "unauthorized"]
               ELSE [req EXCEPT ![t].at = "limiter", ![t].oldLockout = FALSE, ![t].saw = now,
                                ![t].subject = IF c \in Keys THEN c ELSE req[t].host]
  BY DEF Authenticate
<1> DEFINE sub == IF c \in Keys THEN c ELSE req[t].host
<1>2. sub \in Subjects
  BY DEF Authenticate, TypeInv, InFlight, Subjects
<1> HIDE DEF sub
<1>3. CASE Refused(c)
  BY <1>1, <1>3
<1>4. CASE ~Refused(c)
  <2>1. req' = [req EXCEPT ![t].at = "limiter", ![t].oldLockout = FALSE, ![t].saw = now, ![t].subject = sub]
    BY <1>1, <1>4 DEF sub
  <2> QED BY <1>2, <2>1
<1> QED BY <1>3, <1>4

\* Either way only this request changes, and it asks the backend nothing yet.
LEMMA AuthenticateChanges ==
  ASSUME TypeInv, NEW t \in Requests, Authenticate(t)
  PROVE  \E r : req' = [req EXCEPT ![t] = r] /\ r.at \in {"unauthorized", "limiter"}
<1>1. req \in [Requests -> RequestType] /\ req[t] \in RequestType
  BY DEF TypeInv
<1>2. CASE req' = [req EXCEPT ![t].at = "unauthorized"]
  <2> DEFINE r == [req[t] EXCEPT !.at = "unauthorized"]
  <2>1. req' = [req EXCEPT ![t] = r] /\ r.at = "unauthorized"
    BY <1>1, <1>2 DEF RequestType
  <2> HIDE DEF r
  <2> QED BY <2>1
<1>3. ASSUME NEW sub \in Subjects,
             req' = [req EXCEPT ![t].at = "limiter", ![t].oldLockout = FALSE, ![t].saw = now,
                                ![t].subject = sub]
      PROVE  \E r : req' = [req EXCEPT ![t] = r] /\ r.at \in {"unauthorized", "limiter"}
  <2> DEFINE r == [req[t] EXCEPT !.at = "limiter", !.oldLockout = FALSE, !.saw = now, !.subject = sub]
  <2>1. req' = [req EXCEPT ![t] = r] /\ r.at = "limiter"
    BY <1>1, <1>3 DEF RequestType
  <2> HIDE DEF r
  <2> QED BY <2>1
<1> QED BY <1>2, <1>3, AuthenticateDoes

LEMMA NextTypeInv == TypeInv /\ [Next]_vars => TypeInv'
<1> SUFFICES ASSUME TypeInv, [Next]_vars PROVE TypeInv'
  OBVIOUS
<1>0. /\ TypeOK /\ req \in [Requests -> RequestType] /\ InFlight
      /\ now \in Nat /\ now <= now /\ 0 <= now
      /\ Idle \in RequestType /\ Idle.at = "idle" /\ Idle.saw = 0
      /\ \A t \in Requests : req[t] \in RequestType /\ req[t].saw \in Times
  BY LimitFacts, IdleIsRequest DEF TypeInv, TypeOK, RequestType
<1>00. /\ buckets \in [Subjects -> Seq(Times)] /\ admitted \in [Subjects -> Seq(Times)]
       /\ counters \in [Subjects \X Times -> 0..MaxRequests + 1]
       /\ events \in [Hosts -> Seq(Times)] /\ failures \in [Hosts -> Seq(Times)]
  BY <1>0 DEF TypeOK
<1>1. CASE Tick
  <2>1. now' = now + 1 /\ now' \in Times /\ UNCHANGED <<limiter, mode, reloads, swapping, buckets, events, req>>
    BY <1>0, <1>1, LimitFacts DEF Tick, Settings, Times
  <2>2. now' - Window + 1 \in Int /\ now' - LockWindow + 1 \in Int
    BY <1>0, <2>1, LimitFacts
  <2>3. admitted' \in [Subjects -> Seq(Times)] /\ failures' \in [Hosts -> Seq(Times)]
    BY <1>1, <1>00, <2>2, SinceOfTimes DEF Tick
  <2>4. counters' \in [Subjects \X Times -> 0..MaxRequests + 1]
    BY <1>1, <1>00, LimitFacts DEF Tick
  <2>5. InFlight'
    <3>1. \A t \in Requests : req[t].saw \in Nat
      BY <1>0, LimitFacts
    <3> QED BY <1>0, <2>1, <3>1 DEF InFlight
  <2> QED BY <1>0, <1>00, <2>1, <2>3, <2>4, <2>5 DEF TypeInv, TypeOK
<1>2. CASE ReloadState
  <2>1. reloads' \in 0..MaxReloads
    BY <1>0, <1>2, LimitFacts DEF ReloadState, TypeOK
  <2>2. buckets' \in [Subjects -> Seq(Times)] /\ admitted' \in [Subjects -> Seq(Times)]
    <3>1. <<>> \in Seq(Times)
      BY EmptySeq
    <3> QED BY <1>2, <1>00, <3>1 DEF ReloadState
  <2>3. req' \in [Requests -> RequestType] /\ InFlight'
    <3>1. /\ req' = [t \in Requests |-> IF req[t].at \in {"limiter", "append"}
                                       THEN [req[t] EXCEPT !.oldLimiter = TRUE] ELSE req[t]]
          /\ now' = now /\ limiter' = limiter
      BY <1>2 DEF ReloadState
    <3>2. ASSUME NEW t \in Requests
          PROVE  LET r == [req[t] EXCEPT !.oldLimiter = TRUE]
                 IN r \in RequestType /\ r.at = req[t].at /\ r.host = req[t].host
                    /\ r.subject = req[t].subject /\ r.saw = req[t].saw
      BY <1>0 DEF RequestType
    <3> QED BY <1>0, <3>1, <3>2 DEF InFlight
  <2> QED BY <1>2, <1>0, <1>00, <2>1, <2>2, <2>3 DEF ReloadState, Lockouts, TypeInv, TypeOK
<1>2a. CASE SaveMode
  <2>1. mode' \in Modes /\ UNCHANGED <<now, limiter, reloads, swapping, req, Limits, Lockouts>>
    BY <1>2a DEF SaveMode
  <2> QED BY <1>0, <1>00, <2>1 DEF TypeInv, TypeOK, InFlight, Limits, Lockouts
<1>3. CASE ReloadLockout
  <2>1. events' \in [Hosts -> Seq(Times)] /\ failures' \in [Hosts -> Seq(Times)]
    <3>1. <<>> \in Seq(Times)
      BY EmptySeq
    <3> QED BY <1>3, <3>1 DEF ReloadLockout
  <2>2. req' \in [Requests -> RequestType] /\ InFlight'
    <3>1. /\ req' = [t \in Requests |-> IF req[t].at \in {"auth", "unauthorized"}
                                       THEN [req[t] EXCEPT !.oldLockout = TRUE] ELSE req[t]]
          /\ now' = now /\ limiter' = limiter
      BY <1>3 DEF ReloadLockout
    <3>2. ASSUME NEW t \in Requests
          PROVE  LET r == [req[t] EXCEPT !.oldLockout = TRUE]
                 IN r \in RequestType /\ r.at = req[t].at /\ r.host = req[t].host
                    /\ r.subject = req[t].subject /\ r.saw = req[t].saw
      BY <1>0 DEF RequestType
    <3> QED BY <1>0, <3>1, <3>2 DEF InFlight
  <2> QED BY <1>3, <1>0, <1>00, <2>1, <2>2 DEF ReloadLockout, Limits, TypeInv, TypeOK
<1>4. ASSUME NEW t \in Requests, Arrive(t) PROVE TypeInv'
  <2>1. PICK h \in Hosts :
          IF Locked(h)
          THEN Record(h, 429) /\ UNCHANGED req
          ELSE /\ req' = [req EXCEPT ![t] = [Idle EXCEPT !.at = "auth", !.host = h]]
               /\ events' = [events EXCEPT ![h] = Evict(@)]
               /\ UNCHANGED failures
    BY <1>4 DEF Arrive
  <2>2. UNCHANGED <<now, Settings, Limits>>
    BY <1>4 DEF Arrive
  <2>3. CASE Locked(h)
    <3>1. events' \in [Hosts -> Seq(Times)] /\ failures' \in [Hosts -> Seq(Times)]
      BY <1>0, <2>1, <2>3, RecordKeepsTypes
    <3> QED BY <1>0, <1>00, <2>1, <2>2, <2>3, <3>1 DEF TypeInv, TypeOK, InFlight, Settings, Limits
  <2>4. CASE ~Locked(h)
    <3> DEFINE r == [Idle EXCEPT !.at = "auth", !.host = h]
    <3>1. r \in RequestType /\ r.at = "auth" /\ r.host \in Hosts /\ r.saw = 0
      BY <1>0 DEF RequestType, Places
    <3>2. events' \in [Hosts -> Seq(Times)] /\ failures' \in [Hosts -> Seq(Times)]
      <4>1. Evict(events[h]) \in Seq(Times)
        BY <1>0, <1>00, EvictOfTimes
      <4> QED BY <1>00, <2>1, <2>4, <4>1
    <3>3. req' = [req EXCEPT ![t] = r]
      BY <2>1, <2>4
    <3> HIDE DEF r
    <3> QED BY <1>0, <1>00, <2>2, <3>1, <3>2, <3>3, OneRequest DEF Limits
  <2> QED BY <2>3, <2>4
<1>5. ASSUME NEW t \in Requests, NEW status, req[t].at # "idle", Leave(t, status),
             UNCHANGED <<now, Settings>>,
             buckets' \in [Subjects -> Seq(Times)], admitted' \in [Subjects -> Seq(Times)],
             counters' \in [Subjects \X Times -> 0..MaxRequests + 1]
      PROVE  TypeInv'
  <2>1. /\ events' \in [Hosts -> Seq(Times)] /\ failures' \in [Hosts -> Seq(Times)]
        /\ req' = [req EXCEPT ![t] = Idle]
    BY <1>5, LeaveKeepsTypes
  <2> QED BY <1>0, <1>5, <2>1, OneRequest
<1>6. ASSUME NEW t \in Requests, req[t].at # "idle", Passed(t), UNCHANGED <<now, Settings, Lockouts>>,
             buckets' \in [Subjects -> Seq(Times)], admitted' \in [Subjects -> Seq(Times)],
             counters' \in [Subjects \X Times -> 0..MaxRequests + 1]
      PROVE  TypeInv'
  <2> DEFINE r == [Idle EXCEPT !.at = "parse", !.host = req[t].host]
  <2>1. req[t].host \in Hosts
    BY <1>0, <1>6 DEF InFlight
  <2>2. r \in RequestType /\ r.at = "parse" /\ r.host \in Hosts /\ r.saw = 0
    BY <1>0, <2>1 DEF RequestType, Places
  <2>3. req' = [req EXCEPT ![t] = r]
    BY <1>6 DEF Passed
  <2> HIDE DEF r
  <2> QED BY <1>0, <1>00, <1>6, <2>2, <2>3, OneRequest DEF Lockouts
<1>7. ASSUME NEW t \in Requests, Authenticate(t) PROVE TypeInv'
  <2>1. /\ req[t].at = "auth" /\ UNCHANGED <<now, Settings, Limits, Lockouts>> /\ req[t].host \in Hosts
        /\ req[t] \in RequestType
    BY <1>0, <1>7 DEF Authenticate, InFlight
  <2>2. CASE req' = [req EXCEPT ![t].at = "unauthorized"]
    <3> DEFINE r == [req[t] EXCEPT !.at = "unauthorized"]
    <3>1. r \in RequestType /\ r.at = "unauthorized" /\ r.host \in Hosts /\ r.saw = req[t].saw
      BY <2>1 DEF RequestType, Places
    <3>2. req' = [req EXCEPT ![t] = r]
      BY <2>2
    <3>3. r.saw <= now
      BY <1>0, <3>1 DEF InFlight
    <3> HIDE DEF r
    <3> QED BY <1>0, <1>00, <2>1, <3>1, <3>2, <3>3, OneRequest DEF Limits, Lockouts
  <2>3. ASSUME NEW sub \in Subjects,
               req' = [req EXCEPT ![t].at = "limiter", ![t].oldLockout = FALSE, ![t].saw = now,
                                  ![t].subject = sub]
        PROVE  TypeInv'
    <3> DEFINE r == [req[t] EXCEPT !.at = "limiter", !.oldLockout = FALSE, !.saw = now, !.subject = sub]
    <3>1. now \in Times
      BY <1>0 DEF TypeOK
    <3>2. req' = [req EXCEPT ![t] = r]
      BY <2>3
    <3>3. r \in RequestType /\ r.at = "limiter" /\ r.host \in Hosts /\ r.saw = now /\ r.subject \in Subjects
      BY <2>1, <3>1 DEF RequestType, Places
    <3> HIDE DEF r
    <3> QED BY <1>0, <1>00, <2>1, <3>2, <3>3, OneRequest DEF Limits, Lockouts
  <2> QED BY <1>7, <2>2, <2>3, AuthenticateDoes
<1>8. ASSUME NEW t \in Requests, Unauthorized(t) PROVE TypeInv'
  BY <1>00, <1>5, <1>8 DEF Unauthorized, Limits
<1>9. ASSUME NEW t \in Requests, EvictOne(t) PROVE TypeInv'
  <2>1. /\ req[t].at = "limiter" /\ req[t].subject \in Subjects /\ Bucket(t) # <<>>
        /\ UNCHANGED <<now, Settings, counters, req, admitted, Lockouts>>
        /\ buckets' = [buckets EXCEPT ![req[t].subject] = Tail(@)]
    BY <1>0, <1>9 DEF EvictOne, Expired, InFlight
  <2>2. Tail(Bucket(t)) \in Seq(Times)
    BY <1>00, <2>1, HeadTailProperties DEF Bucket
  <2>3. buckets' \in [Subjects -> Seq(Times)]
    BY <1>00, <2>1, <2>2 DEF Bucket
  <2> QED BY <1>0, <1>00, <2>1, <2>3 DEF TypeInv, TypeOK, InFlight, Settings, Lockouts
<1>10. ASSUME NEW t \in Requests, Measure(t) PROVE TypeInv'
  <2>1. req[t].at = "limiter" /\ limiter = "memory" /\ UNCHANGED <<now, Settings, Limits>>
    BY <1>10 DEF Measure
  <2>2. CASE Full(t)
    <3>1. Leave(t, 429) /\ UNCHANGED <<buckets, counters, admitted>>
      BY <1>10, <2>1, <2>2 DEF Measure, Limits
    <3> QED BY <1>00, <1>5, <2>1, <3>1
  <2>3. CASE ~Full(t)
    <3> DEFINE r == [req[t] EXCEPT !.at = "append"]
    <3>1. req' = [req EXCEPT ![t] = r] /\ UNCHANGED Lockouts
      BY <1>10, <2>3 DEF Measure
    <3>2. r \in RequestType /\ r.at = "append" /\ r.host = req[t].host /\ r.saw = req[t].saw /\ r.subject = req[t].subject
      BY <1>0 DEF RequestType, Places
    <3>3. r.host \in Hosts /\ r.subject \in Subjects /\ r.saw <= now
      BY <1>0, <2>1, <3>2 DEF InFlight
    <3> HIDE DEF r
    <3> QED BY <1>0, <1>00, <2>1, <3>1, <3>2, <3>3, OneRequest DEF Limits, Lockouts
  <2> QED BY <2>2, <2>3
<1>11. ASSUME NEW t \in Requests, req[t].at \in {"limiter", "append"}, Admit(t), UNCHANGED now
       PROVE  admitted' \in [Subjects -> Seq(Times)]
  <2>1. req[t].subject \in Subjects /\ req[t].saw \in Times
    BY <1>0, <1>11 DEF InFlight
  <2>2. Append(admitted[req[t].subject], req[t].saw) \in Seq(Times)
    BY <1>00, <2>1, AppendProperties
  <2>3. now - Window + 1 \in Int
    BY <1>0, LimitFacts
  <2>4. Since(Append(admitted[req[t].subject], req[t].saw), now - Window + 1) \in Seq(Times)
    BY <2>2, <2>3, SinceOfTimes
  <2> QED BY <1>00, <1>11, <2>1, <2>4 DEF Admit
<1>12. ASSUME NEW t \in Requests, AppendTime(t) PROVE TypeInv'
  <2>1. /\ req[t].at = "append" /\ Admit(t) /\ Passed(t) /\ UNCHANGED <<now, Settings, counters, Lockouts>>
        /\ buckets' = [buckets EXCEPT ![req[t].subject] = Append(@, req[t].saw)]
    BY <1>12 DEF AppendTime
  <2>2. req[t].subject \in Subjects /\ req[t].saw \in Times
    BY <1>0, <2>1 DEF InFlight
  <2>3. Append(buckets[req[t].subject], req[t].saw) \in Seq(Times)
    BY <1>00, <2>2, AppendProperties
  <2>4. buckets' \in [Subjects -> Seq(Times)] /\ counters' \in [Subjects \X Times -> 0..MaxRequests + 1]
    BY <1>00, <2>1, <2>2, <2>3
  <2> QED BY <1>6, <1>11, <2>1, <2>4
<1>13. ASSUME NEW t \in Requests, AllowOld(t) PROVE TypeInv'
  <2>1. /\ req[t].at \in {"limiter", "append"} /\ UNCHANGED <<now, Settings>>
        /\ buckets' = buckets /\ counters' = counters /\ admitted' = admitted
    BY <1>13 DEF AllowOld, Limits
  <2>2. CASE Passed(t) /\ UNCHANGED Lockouts
    BY <1>00, <1>6, <2>1, <2>2
  <2>3. CASE Leave(t, 429)
    BY <1>00, <1>5, <2>1, <2>3
  <2> QED BY <1>13, <2>2, <2>3 DEF AllowOld
<1>14. ASSUME NEW t \in Requests, Increment(t) PROVE TypeInv'
  <2> DEFINE start == req[t].saw - (req[t].saw % Window)
             slot == <<req[t].subject, start>>
             count == counters[slot] + 1
  <2>1. /\ req[t].at = "limiter" /\ UNCHANGED <<now, Settings, buckets>>
        /\ counters' = [counters EXCEPT ![slot] = IF @ <= MaxRequests THEN count ELSE @]
        /\ IF count <= MaxRequests
           THEN Admit(t) /\ Passed(t) /\ UNCHANGED Lockouts
           ELSE Leave(t, 429) /\ UNCHANGED admitted
    BY <1>14 DEF Increment
  <2> HIDE DEF slot
  <2>2. counters' \in [Subjects \X Times -> 0..MaxRequests + 1]
    <3> DEFINE v == IF counters[slot] <= MaxRequests THEN count ELSE counters[slot]
               S == Subjects \X Times
               N == 0..MaxRequests + 1
    <3>1. ASSUME slot \in S PROVE v \in N
      <4>1. counters[slot] \in N
        BY <1>00, <3>1
      <4> QED BY <4>1, LimitFacts
    <3>2. counters' = [counters EXCEPT ![slot] = v] /\ counters \in [S -> N]
      BY <1>00, <2>1
    <3> HIDE DEF v, S, N
    <3>3. counters' \in [S -> N]
      BY <3>1, <3>2
    <3> QED BY <3>3 DEF S, N
  <2>3. CASE count <= MaxRequests
    BY <1>00, <1>6, <1>11, <2>1, <2>2, <2>3
  <2>4. CASE ~(count <= MaxRequests)
    <3>1. Leave(t, 429) /\ req[t].at # "idle" /\ admitted' \in [Subjects -> Seq(Times)]
      BY <1>00, <2>1, <2>4
    <3>2. buckets' \in [Subjects -> Seq(Times)] /\ UNCHANGED <<now, Settings>>
      BY <1>00, <2>1
    <3> QED BY ONLY <1>5, <2>2, <3>1, <3>2
  <2> QED BY <2>3, <2>4
<1>15. ASSUME NEW t \in Requests, RedisDown(t) PROVE TypeInv'
  BY <1>00, <1>6, <1>15 DEF RedisDown, Limits
<1>16. ASSUME NEW t \in Requests, Parse(t) PROVE TypeInv'
  <2>1. PICK p \in Queries, facetsOnly \in BOOLEAN :
          IF ParseError(p, Profile) # "none" \/ TranslateError(p) # "none"
          THEN Leave(t, 400)
          ELSE /\ req' = [req EXCEPT ![t].at = "backend", ![t].body = Body(p, Profile, facetsOnly)]
               /\ UNCHANGED Lockouts
    BY <1>16 DEF Parse
  <2>2. req[t].at = "parse" /\ UNCHANGED <<now, Settings, Limits>>
    BY <1>16 DEF Parse
  <2>3. CASE Leave(t, 400)
    BY <1>00, <1>5, <2>2, <2>3 DEF Limits
  <2>4. CASE req' = [req EXCEPT ![t].at = "backend", ![t].body = Body(p, Profile, facetsOnly)]
             /\ UNCHANGED Lockouts
    <3> DEFINE b == Body(p, Profile, facetsOnly)
               r == [req[t] EXCEPT !.at = "backend", !.body = b]
    <3>1. b \in Bodies
      BY DEF Bodies
    <3>2. req' = [req EXCEPT ![t] = r]
      BY <2>4
    <3> HIDE DEF b
    <3>3. r \in RequestType /\ r.at = "backend" /\ r.host = req[t].host /\ r.saw = req[t].saw
      BY <1>0, <3>1 DEF RequestType, Places
    <3>4. r.host \in Hosts /\ r.saw <= now
      BY <1>0, <2>2, <3>3 DEF InFlight
    <3> HIDE DEF r
    <3> QED BY <1>0, <1>00, <2>2, <2>4, <3>2, <3>3, <3>4, OneRequest DEF Limits, Lockouts
  <2> QED BY <2>1, <2>3, <2>4
<1>17. ASSUME NEW t \in Requests, Answer(t) PROVE TypeInv'
  BY <1>00, <1>5, <1>17 DEF Answer, Limits
<1>18. CASE UNCHANGED vars
  BY <1>18 DEF vars, TypeInv, TypeOK, InFlight
<1> QED BY <1>1, <1>2, <1>2a, <1>3, <1>4, <1>7, <1>8, <1>9, <1>10, <1>12, <1>13, <1>14, <1>15, <1>16, <1>17,
       <1>18 DEF Next, Serve

LEMMA TypeInvHolds == Spec => []TypeInv
BY InitTypeInv, NextTypeInv, PTL DEF Spec

\* The clock, the limiters, the lockout and the histories keep their types.
THEOREM TypeCorrect == Spec => []TypeOK
<1>1. TypeInv => TypeOK
  BY DEF TypeInv
<1> QED BY <1>1, TypeInvHolds, PTL

-----------------------------------------------------------------------------
(* The query policy *)

LEMMA ChecksAre ==
  ASSUME NEW p, NEW profile
  PROVE  /\ Len(Checks(p, profile)) = 14
         /\ \A i \in 1..14 : Checks(p, profile)[i][2] # "none"
         /\ Checks(p, profile)[4][1] = (p.page < 1 \/ PageSize(p, profile) < 1)
         /\ Checks(p, profile)[5][1] = (PageSize(p, profile) > profile.pageSizeMax)
         /\ Checks(p, profile)[6][1] = TooDeep(p, profile)
         /\ Checks(p, profile)[8][1] = (p.facets.count > profile.maxFacets)
BY DEF Checks

\* Without an error no check fails.
LEMMA NoErrorNoFailure ==
  ASSUME NEW p, NEW profile, ParseError(p, profile) = "none"
  PROVE  \A i \in 1..14 : ~Checks(p, profile)[i][1]
<1> DEFINE failing == {i \in 1..Len(Checks(p, profile)) : Checks(p, profile)[i][1]}
           first == IF failing # {} THEN Min(failing) ELSE 0
<1>1. ParseError(p, profile) = IF first = 0 THEN "none" ELSE Checks(p, profile)[first][2]
  BY DEF ParseError, SelectInSeq
<1>2. failing = {}
  <2> SUFFICES ASSUME failing # {} PROVE FALSE
    OBVIOUS
  <2>0. Len(Checks(p, profile)) = 14
    BY ChecksAre
  <2>1. failing \in SUBSET Nat /\ failing \subseteq 1..14
    BY <2>0
  <2>2. \E m \in failing : \A i \in failing : m <= i
    BY <2>1, LeastNumber
  <2>3. first \in failing
    BY <2>2 DEF Min
  <2>4. first \in 1..14 /\ first # 0
    BY <2>1, <2>3
  <2> QED BY <1>1, <2>4, ChecksAre
<1> QED BY <1>2, ChecksAre

\* A window of rows ends where its page does.
LEMMA PageEnds ==
  ASSUME NEW page \in Nat \ {0}, NEW size \in Nat
  PROVE  (page - 1) * size + size = page * size /\ (page - 1) * size \in Nat
<1>1. page - 1 \in Nat
  OBVIOUS
<1> DEFINE before == page - 1
<1>2. (before + 1) * size = before * size + size /\ before * size \in Nat
  <2> HIDE DEF before
  <2>1. before \in Nat
    BY <1>1 DEF before
  <2> QED BY <2>1
<1>3. before + 1 = page
  OBVIOUS
<1> QED BY <1>2, <1>3

LEMMA ParsedIsSpared ==
  ASSUME NEW p \in QueryType, NEW profile \in ProfileType, NEW facetsOnly \in BOOLEAN,
         ParseError(p, profile) = "none", TranslateError(p) = "none"
  PROVE  Spared(Body(p, profile, facetsOnly), profile)
<1> DEFINE size == PageSize(p, profile)
           body == Body(p, profile, facetsOnly)
<1>1. /\ p.page \in Nat /\ p.pageSize \in Nat \cup {Absent} /\ p.facets.count \in Nat
      /\ p.cursor \in {"absent", "empty", "token", "garbled"}
      /\ profile.pageSizeDefault \in Nat /\ profile.pageSizeMax \in Nat
      /\ profile.maxDepth \in Nat /\ profile.maxFacets \in Nat
  BY DEF QueryType, ProfileType, Names
<1>2. /\ ~(p.page < 1 \/ size < 1) /\ ~(size > profile.pageSizeMax)
      /\ ~TooDeep(p, profile) /\ ~(p.facets.count > profile.maxFacets)
  <2>1. \A i \in 1..14 : ~Checks(p, profile)[i][1]
    BY NoErrorNoFailure
  <2>2. /\ ~Checks(p, profile)[4][1] /\ ~Checks(p, profile)[5][1]
        /\ ~Checks(p, profile)[6][1] /\ ~Checks(p, profile)[8][1]
    BY <2>1
  <2>3. /\ Checks(p, profile)[4][1] = (p.page < 1 \/ size < 1)
        /\ Checks(p, profile)[5][1] = (size > profile.pageSizeMax)
        /\ Checks(p, profile)[6][1] = TooDeep(p, profile)
        /\ Checks(p, profile)[8][1] = (p.facets.count > profile.maxFacets)
    BY ChecksAre
  <2> QED BY <2>2, <2>3
<1>3. size \in Nat
  BY <1>1 DEF PageSize
<1>4. /\ body.size = (IF facetsOnly THEN 0 ELSE size) /\ body.after = (p.cursor = "token")
      /\ body.from = (IF p.cursor = "token" THEN 0 ELSE (p.page - 1) * size)
      /\ body.facets = p.facets.count
  BY DEF Body
<1> HIDE DEF size, body
<1>5. body.size <= size /\ body.size \in Nat
  BY <1>3, <1>4
<1>6. body.after \/ body.from + body.size <= profile.maxDepth
  <2> SUFFICES ASSUME p.cursor # "token" PROVE body.from + body.size <= profile.maxDepth
    BY <1>4
  <2>1. Cursor(p) = "none"
    BY <1>1 DEF TranslateError, Cursor
  <2>2. ~(p.page * size > profile.maxDepth)
    BY <1>2, <2>1 DEF TooDeep, size
  <2>3. body.from = (p.page - 1) * size
    BY <1>4
  <2>4. p.page \in Nat \ {0}
    BY <1>1, <1>2
  <2>5. (p.page - 1) * size + size = p.page * size /\ (p.page - 1) * size \in Nat
    BY <1>3, <2>4, PageEnds
  <2> DEFINE before == (p.page - 1) * size
             upTo == p.page * size
  <2>6. before + size = upTo /\ before \in Nat /\ upTo \in Nat
    BY <1>3, <2>5
  <2>7. body.from = before /\ ~(upTo > profile.maxDepth)
    BY <2>2, <2>3
  <2> HIDE DEF before, upTo
  <2> QED BY <1>1, <1>3, <1>5, <2>6, <2>7
<1>7. body.size <= profile.pageSizeMax /\ body.facets <= profile.maxFacets
  BY <1>1, <1>2, <1>3, <1>4, <1>5
<1> QED BY <1>6, <1>7 DEF Spared, body

BodiesSpared == TypeInv /\ BackendIsSpared

\* Only parse makes a request one to the backend.
LEMMA NextSpared == BodiesSpared /\ [Next]_vars => BackendIsSpared'
<1> SUFFICES ASSUME TypeInv, BackendIsSpared, [Next]_vars, NEW u \in Requests, req'[u].at = "backend"
             PROVE  Spared(req'[u].body, Profile)
  BY DEF BodiesSpared, BackendIsSpared
<1>0. req \in [Requests -> RequestType] /\ (req[u].at = "backend" => Spared(req[u].body, Profile))
      /\ \A t \in Requests : req[t] \in RequestType
  BY DEF TypeInv, BackendIsSpared
<1>1. CASE req'[u] = req[u]
  BY <1>0, <1>1
<1>2. CASE ReloadState \/ ReloadLockout
  <2>1. \/ req'[u] = req[u]
        \/ req'[u] = [req[u] EXCEPT !.oldLimiter = TRUE]
        \/ req'[u] = [req[u] EXCEPT !.oldLockout = TRUE]
    BY <1>2 DEF ReloadState, ReloadLockout
  <2>2. req'[u].body = req[u].body /\ req[u].at = "backend"
    BY <1>0, <2>1 DEF RequestType
  <2> QED BY <1>0, <2>2
<1>3. ASSUME NEW t \in Requests, NEW status, Leave(t, status) PROVE req'[u] = req[u]
  <2>1. req' = [req EXCEPT ![t] = Idle]
    BY <1>3 DEF Leave
  <2> QED BY <1>0, <2>1 DEF Idle
<1>4. ASSUME NEW t \in Requests, Passed(t) PROVE req'[u] = req[u]
  BY <1>0, <1>4 DEF Passed, Idle
<1>5. ASSUME NEW t \in Requests, Arrive(t) PROVE req'[u] = req[u]
  BY <1>0, <1>5 DEF Arrive, Idle
<1>6. ASSUME NEW t \in Requests, Authenticate(t) PROVE req'[u] = req[u]
  <2>1. PICK r : req' = [req EXCEPT ![t] = r] /\ r.at \in {"unauthorized", "limiter"}
    BY <1>6, AuthenticateChanges
  <2> QED BY <1>0, <2>1
<1>7. ASSUME NEW t \in Requests, Measure(t) PROVE req'[u] = req[u]
  BY <1>0, <1>3, <1>7 DEF Measure, RequestType
<1>8. ASSUME NEW t \in Requests, Parse(t) PROVE Spared(req'[u].body, Profile)
  <2>1. CASE \E status : Leave(t, status)
    BY <1>1, <1>3, <2>1
  <2>2. CASE \E p \in Queries, facetsOnly \in BOOLEAN :
               /\ ParseError(p, Profile) = "none" /\ TranslateError(p) = "none"
               /\ req' = [req EXCEPT ![t].at = "backend", ![t].body = Body(p, Profile, facetsOnly)]
    <3>1. PICK p \in Queries, facetsOnly \in BOOLEAN :
               /\ ParseError(p, Profile) = "none" /\ TranslateError(p) = "none"
               /\ req' = [req EXCEPT ![t].at = "backend", ![t].body = Body(p, Profile, facetsOnly)]
      BY <2>2
    <3> DEFINE b == Body(p, Profile, facetsOnly)
    <3>2. Spared(b, Profile)
      BY <3>1, PolicyAssumption, ParsedIsSpared
    <3> HIDE DEF b
    <3>3. req' = [req EXCEPT ![t].at = "backend", ![t].body = b]
      BY <3>1 DEF b
    <3>4. CASE u = t
      BY <1>0, <3>2, <3>3, <3>4 DEF RequestType
    <3>5. CASE u # t
      BY <1>0, <1>1, <3>3, <3>5
    <3> QED BY <3>4, <3>5
  <2> QED BY <1>8, <2>1, <2>2 DEF Parse
<1>9. ASSUME NEW t \in Requests, Serve(t) PROVE Spared(req'[u].body, Profile)
  <2>1. CASE Unauthorized(t) \/ Answer(t)
    BY <1>1, <1>3, <2>1 DEF Unauthorized, Answer
  <2>2. CASE EvictOne(t)
    BY <1>1, <2>2 DEF EvictOne
  <2>3. CASE AppendTime(t) \/ RedisDown(t)
    BY <1>1, <1>4, <2>3 DEF AppendTime, RedisDown
  <2>4. CASE AllowOld(t)
    BY <1>1, <1>3, <1>4, <2>4 DEF AllowOld
  <2>5. CASE Increment(t)
    <3>1. Passed(t) \/ Leave(t, 429)
      BY <2>5 DEF Increment
    <3> QED BY <1>1, <1>3, <1>4, <3>1
  <2> QED BY <1>1, <1>6, <1>7, <1>8, <1>9, <2>1, <2>2, <2>3, <2>4, <2>5 DEF Serve
<1> QED BY <1>1, <1>2, <1>5, <1>9 DEF Next, Tick, SaveMode, vars

\* No request makes the backend search more than the profile admits, whatever its parameters
\* (parse, then translate_query).
THEOREM BackendStaysSpared == Spec => []BackendIsSpared
<1>1. Init => BackendIsSpared
  BY DEF Init, BackendIsSpared, Idle
<1>2. Spec => []BodiesSpared
  <2>1. Init => BodiesSpared
    BY <1>1, InitTypeInv DEF BodiesSpared
  <2>2. BodiesSpared /\ [Next]_vars => BodiesSpared'
    BY NextSpared, NextTypeInv DEF BodiesSpared
  <2> QED BY <2>1, <2>2, PTL DEF Spec
<1>3. BodiesSpared => BackendIsSpared
  BY DEF BodiesSpared
<1> QED BY <1>2, <1>3, PTL

-----------------------------------------------------------------------------
(* The lockout *)

\* The requests of an address whose failure would count in the lockout in force.
MayFail(u) == req[u].at \in {"auth", "unauthorized"} /\ ~req[u].oldLockout
Holding(h) == {u \in Requests : MayFail(u) /\ req[u].host = h}

\* What the lockout has, once evicted, are the failures of the window.
Matched == Threshold > 0 => \A h \in Hosts : Evict(events[h]) = failures[h]

\* A request under way can add a failure, one that comes in only while the address has fewer
\* failures than the threshold.
Bounded ==
  Threshold > 0 => \A h \in Hosts :
    Len(failures[h]) + Cardinality(Holding(h)) <= Threshold - 1 + Cardinality(Requests)

\* A step that adds nothing to the lockout and no request that may.
Keeps ==
  /\ UNCHANGED <<now, Lockouts>>
  /\ \A u \in Requests : MayFail(u)' => MayFail(u) /\ req'[u].host = req[u].host

LEMMA LockoutSteps ==
  ASSUME TypeInv, [Next]_vars
  PROVE  Tick \/ ReloadLockout \/ Keeps \/ \E t \in Requests : Arrive(t) \/ Unauthorized(t)
<1>0. req \in [Requests -> RequestType] /\ \A t \in Requests : req[t] \in RequestType
  BY DEF TypeInv
<1>1. ASSUME UNCHANGED <<now, req, Lockouts>> PROVE Keeps
  BY <1>1 DEF Keeps, MayFail
<1>2. CASE ReloadState
  <2>1. \A u \in Requests : req'[u] = req[u] \/ req'[u] = [req[u] EXCEPT !.oldLimiter = TRUE]
    BY <1>2 DEF ReloadState
  <2>2. ASSUME NEW u \in Requests, MayFail(u)' PROVE MayFail(u) /\ req'[u].host = req[u].host
    <3>1. CASE req'[u] = req[u]
      BY <2>2, <3>1 DEF MayFail
    <3>2. CASE req'[u] = [req[u] EXCEPT !.oldLimiter = TRUE]
      <4>1. req'[u].at = req[u].at /\ req'[u].host = req[u].host /\ req'[u].oldLockout = req[u].oldLockout
        BY <1>0, <3>2 DEF RequestType
      <4> QED BY <2>2, <4>1, Zenon DEF MayFail
    <3> QED BY <2>1, <3>1, <3>2
  <2> QED BY <1>2, <2>2 DEF ReloadState, Keeps
<1>3. ASSUME NEW t \in Requests, UNCHANGED <<now, Lockouts>>, NEW r,
             req' = [req EXCEPT ![t] = r], r.at \notin {"auth", "unauthorized"}
      PROVE  Keeps
  BY <1>0, <1>3 DEF Keeps, MayFail
<1>4. ASSUME NEW t \in Requests, Passed(t), UNCHANGED <<now, Lockouts>> PROVE Keeps
  <2> DEFINE r == [Idle EXCEPT !.at = "parse", !.host = req[t].host]
  <2>1. req' = [req EXCEPT ![t] = r] /\ r.at = "parse"
    BY <1>4 DEF Passed, Idle
  <2> HIDE DEF r
  <2> QED BY <1>3, <1>4, <2>1
<1>5. ASSUME NEW t \in Requests, NEW status, Leave(t, status), status # 401, UNCHANGED now PROVE Keeps
  <2>1. req' = [req EXCEPT ![t] = Idle] /\ UNCHANGED Lockouts
    BY <1>5 DEF Leave, Counts
  <2> QED BY <1>3, <1>5, <2>1, IdleIsRequest
<1>6. ASSUME NEW t \in Requests, Authenticate(t) PROVE Keeps
  <2>1. req[t].at = "auth" /\ UNCHANGED <<now, Lockouts>> /\ req[t] \in RequestType
    BY <1>0, <1>6 DEF Authenticate
  <2>2. CASE req' = [req EXCEPT ![t].at = "unauthorized"]
    BY <1>0, <2>1, <2>2 DEF Keeps, MayFail, RequestType
  <2>3. ASSUME NEW sub \in Subjects,
               req' = [req EXCEPT ![t].at = "limiter", ![t].oldLockout = FALSE, ![t].saw = now,
                                  ![t].subject = sub]
        PROVE  Keeps
    <3> DEFINE r == [req[t] EXCEPT !.at = "limiter", !.oldLockout = FALSE, !.saw = now, !.subject = sub]
    <3>1. req' = [req EXCEPT ![t] = r] /\ r.at = "limiter"
      BY <2>1, <2>3 DEF RequestType
    <3> HIDE DEF r
    <3> QED BY <1>3, <2>1, <3>1
  <2> QED BY <1>6, <2>2, <2>3, AuthenticateDoes
<1>7. ASSUME NEW t \in Requests, Measure(t) PROVE Keeps
  <2>1. CASE req' = [req EXCEPT ![t].at = "append"] /\ UNCHANGED <<now, Lockouts>>
    <3> DEFINE r == [req[t] EXCEPT !.at = "append"]
    <3>1. req' = [req EXCEPT ![t] = r] /\ r.at = "append"
      BY <1>0, <2>1 DEF RequestType
    <3> HIDE DEF r
    <3> QED BY <1>3, <2>1, <3>1
  <2> QED BY <1>5, <1>7, <2>1 DEF Measure
<1>8. ASSUME NEW t \in Requests, Parse(t) PROVE Keeps
  <2>1. ASSUME NEW p \in Queries, NEW facetsOnly \in BOOLEAN, UNCHANGED <<now, Lockouts>>,
               req' = [req EXCEPT ![t].at = "backend", ![t].body = Body(p, Profile, facetsOnly)]
        PROVE  Keeps
    <3> DEFINE b == Body(p, Profile, facetsOnly)
               r == [req[t] EXCEPT !.at = "backend", !.body = b]
    <3>1. req' = [req EXCEPT ![t] = r]
      BY <2>1
    <3> HIDE DEF b
    <3>2. r.at = "backend"
      BY <1>0 DEF RequestType
    <3> HIDE DEF r
    <3> QED BY <1>3, <2>1, <3>1, <3>2
  <2> QED BY <1>5, <1>8, <2>1 DEF Parse
<1>9. ASSUME NEW t \in Requests, AppendTime(t) \/ RedisDown(t) \/ EvictOne(t) \/ AllowOld(t) \/ Answer(t)
      PROVE  Keeps
  <2>1. CASE EvictOne(t)
    <3>1. UNCHANGED <<now, req, Lockouts>>
      BY <2>1 DEF EvictOne
    <3> QED BY <1>1, <3>1
  <2>2. CASE AppendTime(t) \/ RedisDown(t)
    BY <1>4, <2>2 DEF AppendTime, RedisDown
  <2>3. CASE AllowOld(t)
    BY <1>4, <1>5, <2>3 DEF AllowOld
  <2>4. CASE Answer(t)
    BY <1>5, <2>4 DEF Answer
  <2> QED BY <1>9, <2>1, <2>2, <2>3, <2>4
<1>10. ASSUME NEW t \in Requests, Increment(t) PROVE Keeps
  <2>1. ((Passed(t) /\ UNCHANGED Lockouts) \/ Leave(t, 429)) /\ UNCHANGED now
    BY <1>10 DEF Increment
  <2> QED BY <1>4, <1>5, <2>1
<1>11. CASE UNCHANGED vars \/ SaveMode
  BY <1>1, <1>11 DEF vars, SaveMode, Lockouts
<1> QED BY <1>2, <1>6, <1>7, <1>8, <1>9, <1>10, <1>11 DEF Next, Serve

LEMMA EvictTwice ==
  ASSUME TypeOK, NEW times \in Seq(Times)
  PROVE  Evict(Evict(times)) = Evict(times)
<1>1. times \in Seq(Nat)
  BY LimitFacts, SeqMonotonic
<1>2. now - LockWindow + 1 \in Int /\ now - LockWindow + 1 <= now - LockWindow + 1
  <2>1. now \in Nat /\ LockWindow \in Nat
    BY LimitFacts DEF TypeOK
  <2> QED BY <2>1
<1> QED BY <1>1, <1>2, SinceTwice DEF Evict

\* record_failure keeps the lockout and the history matched.
LEMMA RecordMatches ==
  ASSUME TypeOK, Threshold > 0, Matched, NEW h \in Hosts, NEW status, Record(h, status), UNCHANGED now
  PROVE  /\ Matched'
         /\ \A g \in Hosts \ {h} : failures'[g] = failures[g]
         /\ Len(failures'[h]) = (IF status = 401 THEN Len(failures[h]) + 1 ELSE Len(failures[h]))
<1>0. /\ events \in [Hosts -> Seq(Times)] /\ failures \in [Hosts -> Seq(Times)]
      /\ now \in Nat /\ now \in Times /\ now - LockWindow + 1 \in Int /\ now >= now - LockWindow + 1
  BY LimitFacts DEF TypeOK
<1>1. Evict(events[h]) = failures[h] /\ Evict(failures[h]) = failures[h]
  BY <1>0, EvictTwice DEF Matched
<1>3. CASE status = 401
  <2>1. /\ events' = [events EXCEPT ![h] = Append(failures[h], now)]
        /\ failures' = [failures EXCEPT ![h] = Append(failures[h], now)]
    BY <1>1, <1>3, LimitFacts DEF Record, Counts
  <2>2. failures[h] \in Seq(Nat)
    BY <1>0, LimitFacts, SeqMonotonic
  <2>3. Evict(Append(failures[h], now)) = Append(failures[h], now)
    BY <1>0, <1>1, <2>2, SinceAppend DEF Evict
  <2>4. Len(Append(failures[h], now)) = Len(failures[h]) + 1
    BY <2>2, <1>0, AppendProperties
  <2>5. ASSUME NEW g \in Hosts PROVE Since(events'[g], now - LockWindow + 1) = failures'[g]
    BY <1>0, <2>1, <2>3, <2>5 DEF Matched, Evict
  <2> QED BY <1>0, <1>3, <2>1, <2>4, <2>5 DEF Matched, Evict
<1>4. CASE status # 401
  <2>1. events' = [events EXCEPT ![h] = failures[h]] /\ failures' = failures
    BY <1>1, <1>4 DEF Record, Counts
  <2>2. ASSUME NEW g \in Hosts PROVE Since(events'[g], now - LockWindow + 1) = failures'[g]
    BY <1>0, <1>1, <2>1 DEF Matched, Evict
  <2> QED BY <1>0, <1>4, <2>1, <2>2 DEF Matched, Evict
<1> QED BY <1>3, <1>4

LEMMA NextMatched == TypeInv /\ Matched /\ [Next]_vars => Matched'
<1> SUFFICES ASSUME TypeInv, Matched, [Next]_vars, Threshold > 0 PROVE Matched'
  BY DEF Matched
<1>0. /\ TypeOK /\ now \in Nat /\ LockWindow \in Nat \ {0}
      /\ events \in [Hosts -> Seq(Times)] /\ failures \in [Hosts -> Seq(Times)]
      /\ \A h \in Hosts : Since(events[h], now - LockWindow + 1) = failures[h]
  BY LimitFacts DEF TypeInv, TypeOK, Matched, Evict
<1>1. CASE Tick
  <2>1. now' = now + 1 /\ events' = events
        /\ failures' = [h \in Hosts |-> Since(failures[h], now' - LockWindow + 1)]
    BY <1>1 DEF Tick
  <2>2. ASSUME NEW h \in Hosts PROVE Since(events'[h], now' - LockWindow + 1) = failures'[h]
    <3>1. events[h] \in Seq(Nat)
      BY <1>0, LimitFacts, SeqMonotonic
    <3>2. now - LockWindow + 1 \in Int /\ now' - LockWindow + 1 \in Int
          /\ now - LockWindow + 1 <= now' - LockWindow + 1
      BY <1>0, <2>1
    <3>3. Since(Since(events[h], now - LockWindow + 1), now' - LockWindow + 1)
            = Since(events[h], now' - LockWindow + 1)
      BY <3>1, <3>2, SinceTwice
    <3> QED BY <1>0, <2>1, <3>3
  <2> QED BY <2>2 DEF Matched, Evict
<1>2. CASE ReloadLockout
  <2>1. now' - LockWindow + 1 \in Int
    BY <1>0, <1>2 DEF ReloadLockout
  <2>2. ASSUME NEW h \in Hosts PROVE Since(events'[h], now' - LockWindow + 1) = failures'[h]
    BY <1>2, <2>1, SinceOfNone DEF ReloadLockout
  <2> QED BY <2>2 DEF Matched, Evict
<1>3. CASE UNCHANGED <<now, Lockouts>>
  BY <1>3 DEF Matched, Evict, Lockouts
<1>4. ASSUME NEW t \in Requests, Arrive(t) PROVE Matched'
  <2>1. PICK h \in Hosts :
          IF Locked(h)
          THEN Record(h, 429) /\ UNCHANGED req
          ELSE /\ req' = [req EXCEPT ![t] = [Idle EXCEPT !.at = "auth", !.host = h]]
               /\ events' = [events EXCEPT ![h] = Evict(@)]
               /\ UNCHANGED failures
    BY <1>4 DEF Arrive
  <2>2. Record(h, 429)
    BY <2>1 DEF Record, Counts
  <2> QED BY <1>0, <1>4, <2>2, RecordMatches DEF Arrive
<1>5. ASSUME NEW t \in Requests, Unauthorized(t) PROVE Matched'
  <2>1. req[t].host \in Hosts /\ Leave(t, 401) /\ UNCHANGED now
    BY <1>5 DEF TypeInv, InFlight, Unauthorized
  <2>2. CASE UNCHANGED Lockouts
    BY <1>3, <2>1, <2>2
  <2>3. CASE Record(req[t].host, 401)
    BY <1>0, <2>1, <2>3, RecordMatches
  <2> QED BY <2>1, <2>2, <2>3 DEF Leave
<1> QED BY <1>1, <1>2, <1>3, <1>4, <1>5, LockoutSteps DEF Keeps

LEMMA InitMatched == Init => Matched
<1> SUFFICES ASSUME Init PROVE Matched
  OBVIOUS
<1>1. now - LockWindow + 1 \in Int
  BY LimitFacts DEF Init
<1>2. \A h \in Hosts : Since(events[h], now - LockWindow + 1) = failures[h]
  BY <1>1, SinceOfNone DEF Init
<1> QED BY <1>2 DEF Matched, Evict

\* An address is locked out only for 401s it was answered within the window: what the
\* lockout itself refuses does not prolong it (is_locked, record_failure).
THEOREM LockoutIsEarned == Spec => []LockIsEarned
<1>1. Spec => [](TypeInv /\ Matched)
  BY InitTypeInv, InitMatched, NextTypeInv, NextMatched, PTL DEF Spec
<1>2. Matched => LockIsEarned
  BY DEF Matched, LockIsEarned, Locked
<1> QED BY <1>1, <1>2, PTL

LEMMA HoldingFinite ==
  ASSUME NEW S \in SUBSET Requests
  PROVE  /\ IsFiniteSet(S) /\ Cardinality(S) \in Nat
         /\ Cardinality(S) <= Cardinality(Requests) /\ Cardinality(Requests) \in Nat
BY LimitsAssumption, FS_Subset, FS_CardinalityType

\* No address gets a failure and no request comes in: the bound stands.
LEMMA FewerIsBounded ==
  ASSUME Bounded, Threshold > 0, NEW h \in Hosts,
         Len(failures[h]) \in Nat, Len(failures'[h]) \in Nat,
         Len(failures'[h]) <= Len(failures[h]),
         \A u \in Requests : u \in Holding(h)' => u \in Holding(h)
  PROVE  Len(failures'[h]) + Cardinality(Holding(h)') <= Threshold - 1 + Cardinality(Requests)
<1> DEFINE H == Holding(h)
           K == Holding(h)'
<1>1. H \in SUBSET Requests /\ K \in SUBSET Requests
  BY DEF Holding
<1>2. K \in SUBSET H
  BY <1>1
<1>3. Len(failures[h]) + Cardinality(H) <= Threshold - 1 + Cardinality(Requests)
  BY DEF Bounded
<1> HIDE DEF H, K
<1>4. Cardinality(K) <= Cardinality(H) /\ Cardinality(K) \in Nat /\ Cardinality(H) \in Nat
      /\ Cardinality(Requests) \in Nat
  BY <1>1, <1>2, HoldingFinite, FS_Subset
<1>5. Len(failures'[h]) + Cardinality(K) <= Threshold - 1 + Cardinality(Requests)
  BY <1>3, <1>4, LimitFacts
<1> QED BY <1>5 DEF K

LEMMA NextBounded == TypeInv /\ Matched /\ Bounded /\ [Next]_vars => Bounded'
<1> SUFFICES ASSUME TypeInv, Matched, Bounded, [Next]_vars, Threshold > 0, NEW h \in Hosts
             PROVE  Len(failures'[h]) + Cardinality(Holding(h)') <= Threshold - 1 + Cardinality(Requests)
  BY DEF Bounded
<1>0. /\ TypeOK /\ now \in Nat /\ failures \in [Hosts -> Seq(Times)] /\ failures[h] \in Seq(Times)
      /\ \A t \in Requests : req[t] \in RequestType
  BY LimitFacts DEF TypeInv, TypeOK
<1>00. failures' \in [Hosts -> Seq(Times)] /\ Len(failures[h]) \in Nat /\ Len(failures'[h]) \in Nat
  <2>1. TypeInv'
    BY NextTypeInv
  <2>2. failures' \in [Hosts -> Seq(Times)]
    BY <2>1 DEF TypeInv, TypeOK
  <2> QED BY <1>0, <2>2, LenProperties
<1>1. CASE Len(failures'[h]) <= Len(failures[h]) /\ \A u \in Requests : u \in Holding(h)' => u \in Holding(h)
  BY <1>00, <1>1, FewerIsBounded
<1>2. CASE Tick
  <2>1. failures'[h] = Since(failures[h], now' - LockWindow + 1) /\ req' = req /\ now' - LockWindow + 1 \in Int
    BY <1>0, <1>2, LimitFacts DEF Tick
  <2>2. PICK n \in 0..Len(failures[h]) : Len(Since(failures[h], now' - LockWindow + 1)) = Len(failures[h]) - n
    <3>1. Times \in SUBSET Nat
      BY LimitFacts
    <3> QED BY <1>0, <2>1, <3>1, SinceIs, Zenon
  <2>3. Len(failures'[h]) <= Len(failures[h])
    BY <1>00, <2>1, <2>2
  <2> QED BY <1>1, <2>1, <2>3 DEF Holding, MayFail
<1>3. CASE ReloadLockout
  <2>1. failures'[h] = <<>> /\ \A u \in Requests : ~MayFail(u)'
    BY <1>0, <1>3 DEF ReloadLockout, MayFail, RequestType
  <2>2. \A u \in Requests : u \in Holding(h)' => u \in Holding(h)
    BY <2>1 DEF Holding
  <2> QED BY <1>00, <1>1, <2>1, <2>2
<1>4. CASE Keeps
  <2>1. failures' = failures
    BY <1>4 DEF Keeps, Lockouts
  <2>2. \A u \in Requests : u \in Holding(h)' => u \in Holding(h)
    BY <1>4 DEF Keeps, Holding
  <2> QED BY <1>00, <1>1, <2>1, <2>2
<1>5. ASSUME NEW t \in Requests, Arrive(t)
      PROVE  Len(failures'[h]) + Cardinality(Holding(h)') <= Threshold - 1 + Cardinality(Requests)
  <2>1. PICK g \in Hosts :
          IF Locked(g)
          THEN Record(g, 429) /\ UNCHANGED req
          ELSE /\ req' = [req EXCEPT ![t] = [Idle EXCEPT !.at = "auth", !.host = g]]
               /\ events' = [events EXCEPT ![g] = Evict(@)]
               /\ UNCHANGED failures
    BY <1>5 DEF Arrive
  <2>2. failures' = failures
    BY <2>1 DEF Record
  <2>3. CASE req' = req
    BY <1>00, <1>1, <2>2, <2>3 DEF Holding, MayFail
  <2>4. CASE ~Locked(g) /\ g = h
    <3>1. Len(failures[h]) < Threshold
      BY <1>00, <2>4, LimitFacts DEF Locked, Matched
    <3> DEFINE K == Holding(h)'
    <3>2. K \in SUBSET Requests
      BY DEF Holding
    <3> HIDE DEF K
    <3>3. Cardinality(K) \in Nat /\ Cardinality(Requests) \in Nat /\ Cardinality(K) <= Cardinality(Requests)
      BY <3>2, HoldingFinite
    <3>4. Len(failures'[h]) + Cardinality(K) <= Threshold - 1 + Cardinality(Requests)
      BY <1>00, <2>2, <3>1, <3>3, LimitFacts
    <3> QED BY <3>4 DEF K
  <2>5. CASE ~Locked(g) /\ g # h
    <3>1. req' = [req EXCEPT ![t] = [Idle EXCEPT !.at = "auth", !.host = g]]
      BY <2>1, <2>5
    <3>2. \A u \in Requests : req'[u] = req[u] \/ req'[u].host = g
      BY <3>1 DEF TypeInv, Idle
    <3>3. \A u \in Requests : u \in Holding(h)' => u \in Holding(h)
      BY <2>5, <3>2 DEF Holding, MayFail
    <3> QED BY <1>00, <1>1, <2>2, <3>3
  <2> QED BY <2>1, <2>3, <2>4, <2>5
<1>6. ASSUME NEW t \in Requests, Unauthorized(t)
      PROVE  Len(failures'[h]) + Cardinality(Holding(h)') <= Threshold - 1 + Cardinality(Requests)
  <2>1. /\ req[t].at = "unauthorized" /\ req' = [req EXCEPT ![t] = Idle] /\ Leave(t, 401)
        /\ req \in [Requests -> RequestType] /\ UNCHANGED now
    BY <1>6 DEF Unauthorized, Leave, TypeInv
  <2>2. t \notin Holding(h)' /\ \A u \in Requests : u \in Holding(h)' => u \in Holding(h)
    BY <2>1, IdleIsRequest DEF Holding, MayFail
  <2>3. CASE failures'[h] = failures[h]
    BY <1>00, <1>1, <2>2, <2>3
  <2>4. CASE failures'[h] # failures[h]
    <3>1. ~req[t].oldLockout /\ Record(req[t].host, 401) /\ req[t].host \in Hosts
      BY <2>1, <2>4 DEF Leave, Lockouts, TypeInv, InFlight
    <3>2. req[t].host = h /\ Len(failures'[h]) <= Len(failures[h]) + 1
      BY <1>0, <1>00, <2>1, <2>4, <3>1, RecordMatches
    <3> DEFINE H == Holding(h)
               K == Holding(h)'
    <3>3. t \in H /\ H \in SUBSET Requests /\ K \in SUBSET (H \ {t})
      BY <2>1, <2>2, <3>1, <3>2 DEF Holding, MayFail
    <3>4. Len(failures[h]) + Cardinality(H) <= Threshold - 1 + Cardinality(Requests)
      BY DEF Bounded
    <3> HIDE DEF H, K
    <3>5. IsFiniteSet(H) /\ Cardinality(H) \in Nat /\ Cardinality(Requests) \in Nat
      BY <3>3, HoldingFinite
    <3>6. IsFiniteSet(H \ {t}) /\ Cardinality(H \ {t}) = Cardinality(H) - 1
      BY <3>3, <3>5, FS_RemoveElement
    <3>7. Cardinality(K) <= Cardinality(H \ {t}) /\ Cardinality(K) \in Nat
      BY <3>3, <3>6, FS_Subset, FS_CardinalityType
    <3>8. Len(failures'[h]) + Cardinality(K) <= Threshold - 1 + Cardinality(Requests)
      BY <1>00, <3>2, <3>4, <3>5, <3>6, <3>7, LimitFacts
    <3> QED BY <3>8 DEF K
  <2> QED BY <2>3, <2>4
<1> QED BY <1>2, <1>3, <1>4, <1>5, <1>6, LockoutSteps

LEMMA SomeRequest == Cardinality(Requests) \in Nat /\ Cardinality(Requests) >= 1
<1>1. Cardinality(Requests) \in Nat /\ Cardinality(Requests) # 0
  BY LimitsAssumption, FS_CardinalityType, FS_EmptySet
<1> QED BY <1>1

LEMMA InitBounded == Init => Bounded
<1> SUFFICES ASSUME Init, Threshold > 0, NEW h \in Hosts
             PROVE  Len(failures[h]) + Cardinality(Holding(h)) <= Threshold - 1 + Cardinality(Requests)
  BY DEF Bounded
<1>1. Holding(h) = {} /\ failures[h] = <<>>
  BY DEF Init, Holding, MayFail, Idle
<1>2. Cardinality(Holding(h)) = 0 /\ Len(failures[h]) = 0
  BY <1>1, FS_EmptySet
<1> QED BY <1>2, SomeRequest, LimitFacts

\* Once an address has as many 401s as the threshold it gets no further one before they
\* expire, but for one per other request that was in flight by then (is_locked before the
\* request, record_failure after it).
THEOREM LockoutIsKept == Spec => []LockoutHolds
<1>1. Spec => [](TypeInv /\ Matched /\ Bounded)
  BY InitTypeInv, InitMatched, InitBounded, NextTypeInv, NextMatched, NextBounded, PTL DEF Spec
<1>2. TypeInv /\ Bounded => LockoutHolds
  <2> SUFFICES ASSUME TypeInv, Bounded, NEW h \in Hosts, Threshold > 0
               PROVE  Len(failures[h]) <= Threshold + Cardinality(Requests) - 1
    BY DEF LockoutHolds
  <2>1. failures[h] \in Seq(Times) /\ Holding(h) \in SUBSET Requests
    BY DEF TypeInv, TypeOK, Holding
  <2>2. Len(failures[h]) \in Nat /\ Cardinality(Holding(h)) \in Nat
    BY <2>1, LenProperties, HoldingFinite
  <2>3. Len(failures[h]) + Cardinality(Holding(h)) <= Threshold - 1 + Cardinality(Requests)
    BY DEF Bounded
  <2> QED BY <2>2, <2>3, SomeRequest, LimitFacts
<1> QED BY <1>1, <1>2, PTL

-----------------------------------------------------------------------------
(* The in-memory limiter *)

\* A request that was let through but whose time is not in the bucket yet.
Appending(u) == req[u].at = "append" /\ ~req[u].oldLimiter
Measured(s) == {u \in Requests : Appending(u) /\ req[u].subject = s}

\* Each of these, and each time in the bucket, was measured against the limit.
Quota ==
  limiter = "memory" => \A s \in Subjects :
    Len(buckets[s]) + Cardinality(Measured(s)) <= MaxRequests - 1 + PoolSize

\* The times let through end with those in the bucket; those before them are not recent.
Follows(times, bucket, time) ==
  \A i \in 1..Len(times) :
    IF i <= Len(times) - Len(bucket) THEN time - times[i] >= Window
    ELSE times[i] = bucket[i - (Len(times) - Len(bucket))]

Remembered == limiter = "memory" => \A s \in Subjects : Follows(admitted[s], buckets[s], now)

\* A step that measures and admits nothing.
Quiet ==
  /\ UNCHANGED <<now, limiter, Limits>>
  /\ \A u \in Requests : Appending(u)' => Appending(u) /\ req'[u].subject = req[u].subject

LEMMA LimiterSteps ==
  ASSUME TypeInv, [Next]_vars
  PROVE  \/ Tick \/ ReloadState \/ Quiet
         \/ \E t \in Requests : EvictOne(t) \/ (Measure(t) /\ ~Full(t)) \/ AppendTime(t) \/ Increment(t)
<1>0. req \in [Requests -> RequestType] /\ \A t \in Requests : req[t] \in RequestType
  BY DEF TypeInv
<1>1. CASE UNCHANGED vars
  BY <1>1 DEF vars, Quiet, Appending, Limits
<1>2. CASE ReloadLockout
  <2>1. \A u \in Requests : Appending(u)' => Appending(u) /\ req'[u].subject = req[u].subject
    <3>1. \A u \in Requests : req'[u] = req[u] \/ req'[u] = [req[u] EXCEPT !.oldLockout = TRUE]
      BY <1>2 DEF ReloadLockout
    <3>2. \A u \in Requests : /\ req'[u].at = req[u].at /\ req'[u].subject = req[u].subject
                              /\ req'[u].oldLimiter = req[u].oldLimiter
      BY <1>0, <3>1 DEF RequestType
    <3> QED BY <3>2, Zenon DEF Appending
  <2>2. UNCHANGED <<now, limiter, Limits>>
    BY <1>2 DEF ReloadLockout
  <2> QED BY <2>1, <2>2 DEF Quiet
<1>3. ASSUME NEW t \in Requests, NEW r, req' = [req EXCEPT ![t] = r], r.at # "append"
      PROVE  \A u \in Requests : Appending(u)' => Appending(u) /\ req'[u].subject = req[u].subject
  BY <1>0, <1>3 DEF Appending
<1>4. ASSUME NEW t \in Requests, NEW status, Leave(t, status)
      PROVE  \A u \in Requests : Appending(u)' => Appending(u) /\ req'[u].subject = req[u].subject
  <2>1. req' = [req EXCEPT ![t] = Idle]
    BY <1>4 DEF Leave
  <2> QED BY <1>3, <2>1, IdleIsRequest
<1>5. ASSUME NEW t \in Requests, Passed(t)
      PROVE  \A u \in Requests : Appending(u)' => Appending(u) /\ req'[u].subject = req[u].subject
  <2> DEFINE r == [Idle EXCEPT !.at = "parse", !.host = req[t].host]
  <2>1. req' = [req EXCEPT ![t] = r] /\ r.at = "parse"
    BY <1>5 DEF Passed, Idle
  <2> HIDE DEF r
  <2> QED BY <1>3, <2>1
<1>6. ASSUME NEW t \in Requests, Arrive(t) PROVE Quiet
  <2>1. UNCHANGED <<now, Settings, Limits>>
    BY <1>6 DEF Arrive
  <2>2. \A u \in Requests : Appending(u)' => Appending(u) /\ req'[u].subject = req[u].subject
    BY <1>0, <1>6 DEF Arrive, Appending, Idle
  <2> QED BY <2>1, <2>2 DEF Quiet, Settings
<1>7. ASSUME NEW t \in Requests, Authenticate(t) PROVE Quiet
  <2>1. UNCHANGED <<now, Settings, Limits>> /\ req[t] \in RequestType
    BY <1>0, <1>7 DEF Authenticate
  <2>2. \A u \in Requests : Appending(u)' => Appending(u) /\ req'[u].subject = req[u].subject
    <3>1. PICK r : req' = [req EXCEPT ![t] = r] /\ r.at \in {"unauthorized", "limiter"}
      BY <1>7, AuthenticateChanges
    <3> QED BY <1>3, <3>1
  <2> QED BY <2>1, <2>2 DEF Quiet, Settings
<1>8. ASSUME NEW t \in Requests, Parse(t) PROVE Quiet
  <2>1. UNCHANGED <<now, Settings, Limits>>
    BY <1>8 DEF Parse
  <2>2. CASE Leave(t, 400)
    BY <1>4, <2>1, <2>2 DEF Quiet, Settings
  <2>3. ASSUME NEW p \in Queries, NEW facetsOnly \in BOOLEAN,
               req' = [req EXCEPT ![t].at = "backend", ![t].body = Body(p, Profile, facetsOnly)]
        PROVE  Quiet
    <3> DEFINE b == Body(p, Profile, facetsOnly)
               r == [req[t] EXCEPT !.at = "backend", !.body = b]
    <3>1. req' = [req EXCEPT ![t] = r]
      BY <2>3
    <3> HIDE DEF b
    <3>2. r.at = "backend"
      BY <1>0 DEF RequestType
    <3> HIDE DEF r
    <3> QED BY <1>3, <2>1, <3>1, <3>2 DEF Quiet, Settings
  <2> QED BY <1>8, <2>2, <2>3 DEF Parse
<1>9. ASSUME NEW t \in Requests, Unauthorized(t) \/ Answer(t) \/ RedisDown(t) \/ AllowOld(t)
      PROVE  Quiet
  <2>1. UNCHANGED <<now, Settings, Limits>>
    BY <1>9 DEF Unauthorized, Answer, RedisDown, AllowOld
  <2>2. Passed(t) \/ \E status : Leave(t, status)
    BY <1>9 DEF Unauthorized, Answer, RedisDown, AllowOld
  <2> QED BY <1>4, <1>5, <2>1, <2>2 DEF Quiet, Settings
<1>10. ASSUME NEW t \in Requests, Measure(t), Full(t) PROVE Quiet
  <2>1. UNCHANGED <<now, Settings, Limits>> /\ Leave(t, 429)
    BY <1>10 DEF Measure
  <2> QED BY <1>4, <2>1 DEF Quiet, Settings
<1>11. CASE SaveMode
  BY <1>11 DEF SaveMode, Quiet, Appending
<1> QED BY <1>1, <1>2, <1>6, <1>7, <1>8, <1>9, <1>10, <1>11 DEF Next, Serve

\* What leaves the history of the window leaves it where it follows the bucket.
LEMMA SinceFollows ==
  ASSUME NEW times \in Seq(Times), NEW bucket \in Seq(Times), NEW time \in Nat, NEW later \in Nat,
         time <= later, NEW oldest \in Int, Follows(times, bucket, time)
  PROVE  Follows(Since(times, oldest), bucket, later)
<1> DEFINE rest == Since(times, oldest)
           l == Len(times)
           b == Len(bucket)
<1>1. l \in Nat /\ b \in Nat /\ \A i \in 1..l : times[i] \in Nat
  BY LimitFacts, LenProperties, ElementOfSeq
<1>2. PICK n \in 0..l : Len(rest) = l - n /\ \A j \in 1..(l - n) : rest[j] = times[n + j]
  BY LimitFacts, SinceIs
<1> HIDE DEF rest
<1>3. ASSUME NEW j \in 1..Len(rest)
      PROVE  IF j <= Len(rest) - b THEN later - rest[j] >= Window
             ELSE rest[j] = bucket[j - (Len(rest) - b)]
  <2>1. n + j \in 1..l /\ rest[j] = times[n + j] /\ (j <= Len(rest) - b <=> n + j <= l - b)
        /\ n + j - (l - b) = j - (Len(rest) - b)
    BY <1>1, <1>2
  <2>2. IF n + j <= l - b THEN time - times[n + j] >= Window
        ELSE times[n + j] = bucket[n + j - (l - b)]
    BY <2>1 DEF Follows
  <2>3. time - times[n + j] >= Window => later - times[n + j] >= Window
    BY <1>1, <2>1, LimitFacts
  <2> QED BY <2>1, <2>2, <2>3
<1> QED BY <1>3 DEF Follows, rest, b

LEMMA AppendFollows ==
  ASSUME NEW times \in Seq(Times), NEW bucket \in Seq(Times), NEW time \in Nat, NEW x \in Times,
         Follows(times, bucket, time)
  PROVE  Follows(Append(times, x), Append(bucket, x), time)
<1> DEFINE more == Append(times, x)
           fuller == Append(bucket, x)
           l == Len(times)
           b == Len(bucket)
<1>1. l \in Nat /\ b \in Nat /\ Len(more) = l + 1 /\ Len(fuller) = b + 1
      /\ (\A i \in 1..l : more[i] = times[i]) /\ more[l + 1] = x
      /\ (\A i \in 1..b : fuller[i] = bucket[i]) /\ fuller[b + 1] = x
  BY LenProperties, AppendProperties
<1> HIDE DEF more, fuller
<1>2. ASSUME NEW i \in 1..Len(more)
      PROVE  IF i <= Len(more) - Len(fuller) THEN time - more[i] >= Window
             ELSE more[i] = fuller[i - (Len(more) - Len(fuller))]
  <2>1. Len(more) - Len(fuller) = l - b
    BY <1>1
  <2>2. CASE i \in 1..l
    <3>1. more[i] = times[i] /\ (~(i <= l - b) => i - (l - b) \in 1..b)
      BY <1>1, <2>2
    <3> QED BY <1>1, <2>1, <2>2, <3>1 DEF Follows
  <2>3. CASE i = l + 1
    BY <1>1, <2>1, <2>3
  <2> QED BY <1>1, <2>2, <2>3
<1> QED BY <1>2 DEF Follows, more, fuller

LEMMA TailFollows ==
  ASSUME NEW times \in Seq(Times), NEW bucket \in Seq(Times), NEW time \in Nat, bucket # <<>>,
         time - Head(bucket) >= Window, Follows(times, bucket, time)
  PROVE  Follows(times, Tail(bucket), time)
<1> DEFINE less == Tail(bucket)
           l == Len(times)
           b == Len(bucket)
<1>1. l \in Nat /\ b \in Nat /\ Len(less) = b - 1 /\ Head(bucket) = bucket[1]
      /\ \A i \in 1..Len(less) : less[i] = bucket[i + 1]
  BY LenProperties, HeadTailProperties
<1> HIDE DEF less
<1>2. ASSUME NEW i \in 1..l
      PROVE  IF i <= l - Len(less) THEN time - times[i] >= Window
             ELSE times[i] = less[i - (l - Len(less))]
  <2>0. IF i <= l - b THEN time - times[i] >= Window ELSE times[i] = bucket[i - (l - b)]
    BY DEF Follows
  <2>1. l - Len(less) = l - b + 1
    BY <1>1
  <2>2. CASE i <= l - b
    BY <1>1, <2>0, <2>1, <2>2
  <2>3. CASE i = l - b + 1
    <3>1. i - (l - b) = 1 /\ ~(i <= l - b)
      BY <1>1, <2>3
    <3>2. times[i] = Head(bucket)
      BY ONLY <1>1, <2>0, <3>1
    <3>3. i <= l - Len(less)
      BY <2>1, <2>3
    <3> QED BY <3>2, <3>3
  <2>4. CASE i > l - b + 1
    <3> DEFINE k == i - (l - Len(less))
    <3>1. k \in 1..Len(less) /\ k + 1 = i - (l - b) /\ ~(i <= l - b) /\ ~(i <= l - Len(less))
      BY <1>1, <2>1, <2>4
    <3> HIDE DEF k
    <3>2. less[k] = bucket[k + 1] /\ times[i] = bucket[i - (l - b)]
      BY ONLY <1>1, <2>0, <3>1
    <3>3. times[i] = less[k] /\ ~(i <= l - Len(less))
      BY ONLY <3>1, <3>2
    <3> QED BY ONLY <3>3 DEF k
  <2>5. i <= l - b \/ i = l - b + 1 \/ i > l - b + 1
    <3>1. i \in Int /\ l - b \in Int
      BY ONLY <1>1, i \in 1..l
    <3> QED BY ONLY <3>1
  <2> QED BY ONLY <2>2, <2>3, <2>4, <2>5
<1> QED BY <1>2 DEF Follows, less

\* The times in the bucket are as many as the recent ones, or more.
LEMMA RecentAreInBucket ==
  ASSUME NEW times \in Seq(Times), NEW bucket \in Seq(Times), NEW time \in Nat,
         Follows(times, bucket, time)
  PROVE  Cardinality({i \in 1..Len(times) : time - times[i] < Window}) <= Len(bucket)
<1> DEFINE l == Len(times)
           b == Len(bucket)
           first == IF b <= l THEN l - b + 1 ELSE 1
           recent == {i \in 1..l : time - times[i] < Window}
<1>1. l \in Nat /\ b \in Nat /\ \A i \in 1..l : times[i] \in Nat
  BY LimitFacts, LenProperties, ElementOfSeq
<1>0. \A i \in 1..l : i <= l - b => time - times[i] >= Window
  BY DEF Follows
<1> HIDE DEF l, b
<1>2. recent \in SUBSET (first..l)
  <2> SUFFICES ASSUME NEW i \in recent PROVE i \in first..l
    OBVIOUS
  <2>1. i \in 1..l /\ time - times[i] < Window /\ times[i] \in Nat
    BY <1>1
  <2>2. ~(time - times[i] >= Window)
    BY <2>1, LimitFacts
  <2>3. ~(i <= l - b)
    BY <1>0, <2>1, <2>2
  <2> QED BY <1>1, <2>1, <2>3
<1>3. IsFiniteSet(first..l) /\ Cardinality(first..l) = IF first > l THEN 0 ELSE l - first + 1
  <2>1. first \in Int /\ l \in Int
    BY <1>1
  <2> HIDE DEF first
  <2> QED BY ONLY <2>1, FS_Interval
<1>4. Cardinality(first..l) <= b /\ Cardinality(first..l) \in Nat
  <2> DEFINE c == Cardinality(first..l)
  <2>1. c = (IF first > l THEN 0 ELSE l - first + 1) /\ first = (IF b <= l THEN l - b + 1 ELSE 1)
    BY <1>3
  <2> HIDE DEF c, first
  <2>2. c <= b /\ c \in Nat
    BY ONLY <1>1, <2>1
  <2> QED BY <2>2 DEF c
<1> HIDE DEF recent, first
<1>5. Cardinality(recent) <= Cardinality(first..l) /\ Cardinality(recent) \in Nat
  BY <1>2, <1>3, FS_Subset, FS_CardinalityType
<1>6. Cardinality(recent) <= b
  BY <1>1, <1>4, <1>5
<1> QED BY <1>6 DEF recent, l, b

LEMMA NextRemembered == TypeInv /\ Remembered /\ [Next]_vars => Remembered'
<1> SUFFICES ASSUME TypeInv, Remembered, [Next]_vars, limiter' = "memory", NEW s \in Subjects
             PROVE  Follows(admitted'[s], buckets'[s], now')
  BY DEF Remembered
<1>0. /\ now \in Nat /\ \A t \in Requests : req[t] \in RequestType
      /\ admitted \in [Subjects -> Seq(Times)] /\ buckets \in [Subjects -> Seq(Times)]
      /\ admitted[s] \in Seq(Times) /\ buckets[s] \in Seq(Times)
      /\ limiter = "memory" => Follows(admitted[s], buckets[s], now)
  BY LimitFacts DEF TypeInv, TypeOK, Remembered
<1>1. CASE Tick
  <2>1. now' = now + 1 /\ limiter' = limiter /\ buckets' = buckets
        /\ admitted'[s] = Since(admitted[s], now' - Window + 1)
    BY <1>1 DEF Tick, Settings
  <2>2. now' \in Nat /\ now <= now' /\ now' - Window + 1 \in Int
    BY <1>0, <2>1, LimitFacts
  <2> QED BY <1>0, <2>1, <2>2, SinceFollows
<1>2. CASE ReloadState
  <2>1. admitted'[s] = <<>> /\ buckets'[s] = <<>>
    BY <1>2 DEF ReloadState
  <2> QED BY <2>1 DEF Follows
<1>3. CASE Quiet
  BY <1>0, <1>3 DEF Quiet, Limits
<1>4. ASSUME NEW t \in Requests, EvictOne(t) PROVE Follows(admitted'[s], buckets'[s], now')
  <2>1. /\ limiter = "memory" /\ UNCHANGED <<now, admitted>> /\ Bucket(t) # <<>>
        /\ req[t].saw - Head(Bucket(t)) > Window /\ req[t].saw <= now /\ req[t].saw \in Nat
        /\ buckets' = [buckets EXCEPT ![req[t].subject] = Tail(@)]
    BY <1>0, <1>4, LimitFacts DEF EvictOne, Expired, TypeInv, InFlight, RequestType
  <2>2. CASE s = req[t].subject
    <3>1. buckets[s] # <<>> /\ buckets'[s] = Tail(buckets[s]) /\ req[t].saw - Head(buckets[s]) > Window
      BY <1>0, <2>1, <2>2 DEF Bucket
    <3>2. Head(buckets[s]) \in Nat
      BY <1>0, <3>1, LimitFacts, HeadTailProperties
    <3>3. now - Head(buckets[s]) >= Window
      BY <1>0, <2>1, <3>1, <3>2, LimitFacts
    <3> QED BY <1>0, <2>1, <3>1, <3>3, TailFollows
  <2>3. CASE s # req[t].subject
    BY <1>0, <2>1, <2>3
  <2> QED BY <2>2, <2>3
<1>5. ASSUME NEW t \in Requests, Measure(t), ~Full(t) PROVE Follows(admitted'[s], buckets'[s], now')
  BY <1>0, <1>5 DEF Measure, Limits
<1>6. ASSUME NEW t \in Requests, AppendTime(t) PROVE Follows(admitted'[s], buckets'[s], now')
  <2>1. /\ limiter' = limiter /\ now' = now /\ req[t].saw \in Times
        /\ buckets' = [buckets EXCEPT ![req[t].subject] = Append(@, req[t].saw)]
        /\ admitted' = [admitted EXCEPT ![req[t].subject] = Since(Append(@, req[t].saw), now - Window + 1)]
    BY <1>0, <1>6 DEF AppendTime, Settings, Admit, RequestType
  <2>2. CASE s = req[t].subject
    <3>1. /\ buckets'[s] = Append(buckets[s], req[t].saw)
          /\ admitted'[s] = Since(Append(admitted[s], req[t].saw), now - Window + 1)
      BY <1>0, <2>1, <2>2
    <3>2. Follows(Append(admitted[s], req[t].saw), Append(buckets[s], req[t].saw), now)
      BY <1>0, <2>1, AppendFollows
    <3>3. /\ Append(admitted[s], req[t].saw) \in Seq(Times) /\ Append(buckets[s], req[t].saw) \in Seq(Times)
          /\ now - Window + 1 \in Int /\ now <= now
      BY <1>0, <2>1, LimitFacts, AppendProperties
    <3> QED BY <1>0, <2>1, <3>1, <3>2, <3>3, SinceFollows
  <2>3. CASE s # req[t].subject
    BY <1>0, <2>1, <2>3
  <2> QED BY <2>2, <2>3
<1>7. ASSUME NEW t \in Requests, Increment(t) PROVE Follows(admitted'[s], buckets'[s], now')
  BY <1>7 DEF Increment, Settings
<1> QED BY <1>1, <1>2, <1>3, <1>4, <1>5, <1>6, <1>7, LimiterSteps

\* No time is appended and no request let through: the bound stands.
LEMMA FewerIsQuota ==
  ASSUME Quota, limiter = "memory", NEW s \in Subjects,
         Len(buckets[s]) \in Nat, Len(buckets'[s]) \in Nat,
         Len(buckets'[s]) <= Len(buckets[s]),
         \A u \in Requests : u \in Measured(s)' => u \in Measured(s)
  PROVE  Len(buckets'[s]) + Cardinality(Measured(s)') <= MaxRequests - 1 + PoolSize
<1> DEFINE H == Measured(s)
           K == Measured(s)'
<1>1. H \in SUBSET Requests /\ K \in SUBSET Requests
  BY DEF Measured
<1>2. K \in SUBSET H
  BY <1>1
<1>3. Len(buckets[s]) + Cardinality(H) <= MaxRequests - 1 + PoolSize
  BY DEF Quota
<1> HIDE DEF H, K
<1>4. Cardinality(K) <= Cardinality(H) /\ Cardinality(K) \in Nat /\ Cardinality(H) \in Nat
  BY <1>1, <1>2, HoldingFinite, FS_Subset
<1>5. Len(buckets'[s]) + Cardinality(K) <= MaxRequests - 1 + PoolSize
  BY <1>3, <1>4, LimitFacts
<1> QED BY <1>5 DEF K

\* A thread is taken only while one is free.
PoolHolds == Cardinality(InPool) <= PoolSize

LEMMA NextPool == TypeInv /\ PoolHolds /\ [Next]_vars => PoolHolds'
<1> SUFFICES ASSUME TypeInv, PoolHolds, [Next]_vars PROVE Cardinality(InPool') <= PoolSize
  BY DEF PoolHolds
<1> DEFINE I == InPool
           J == InPool'
<1>0. /\ req \in [Requests -> RequestType] /\ \A t \in Requests : req[t] \in RequestType
      /\ I \in SUBSET Requests /\ Cardinality(I) <= PoolSize
  BY DEF TypeInv, InPool, PoolHolds
<1>00. IsFiniteSet(I) /\ Cardinality(I) \in Nat /\ PoolSize \in Nat
  BY <1>0, HoldingFinite, LimitFacts
<1>1. ASSUME J \in SUBSET I PROVE Cardinality(J) <= PoolSize
  <2> HIDE DEF I, J
  <2>1. Cardinality(J) <= Cardinality(I) /\ Cardinality(J) \in Nat
    BY <1>00, <1>1, FS_Subset, FS_CardinalityType
  <2> QED BY <1>0, <1>00, <2>1
<1>2. ASSUME NEW t \in Requests, ThreadFree, J \in SUBSET (I \cup {t}) PROVE Cardinality(J) <= PoolSize
  <2>1. Cardinality(I) < PoolSize
    BY <1>2 DEF ThreadFree
  <2> HIDE DEF I, J
  <2>2. IsFiniteSet(I \cup {t}) /\ Cardinality(I \cup {t}) \in Nat /\ Cardinality(I \cup {t}) <= Cardinality(I) + 1
    BY <1>00, FS_AddElement, FS_CardinalityType
  <2>3. Cardinality(J) <= Cardinality(I \cup {t}) /\ Cardinality(J) \in Nat
    BY <1>2, <2>2, FS_Subset, FS_CardinalityType
  <2> QED BY <1>00, <2>1, <2>2, <2>3
<1>3. ASSUME NEW t \in Requests, NEW r, req' = [req EXCEPT ![t] = r],
             r.at \in {"limiter", "append", "backend"} => t \in I
      PROVE  J \in SUBSET I
  BY <1>0, <1>3 DEF InPool
<1>4. CASE req' = req
  BY <1>1, <1>4 DEF InPool
<1>5. CASE ReloadState \/ ReloadLockout
  <2>1. \A u \in Requests : \/ req'[u] = req[u]
                            \/ req'[u] = [req[u] EXCEPT !.oldLimiter = TRUE]
                            \/ req'[u] = [req[u] EXCEPT !.oldLockout = TRUE]
    BY <1>5 DEF ReloadState, ReloadLockout
  <2>2. \A u \in Requests : req'[u].at = req[u].at
    BY <1>0, <2>1 DEF RequestType
  <2> QED BY <1>1, <2>2 DEF InPool
<1>6. ASSUME NEW t \in Requests, NEW status, Leave(t, status) PROVE J \in SUBSET I
  <2>1. req' = [req EXCEPT ![t] = Idle]
    BY <1>6 DEF Leave
  <2> QED BY <1>3, <2>1, IdleIsRequest
<1>7. ASSUME NEW t \in Requests, Passed(t) PROVE J \in SUBSET I
  <2> DEFINE r == [Idle EXCEPT !.at = "parse", !.host = req[t].host]
  <2>1. req' = [req EXCEPT ![t] = r] /\ r.at = "parse"
    BY <1>7 DEF Passed, Idle
  <2> HIDE DEF r
  <2> QED BY <1>3, <2>1
<1>8. ASSUME NEW t \in Requests, Arrive(t) PROVE J \in SUBSET I
  <2>1. PICK h \in Hosts : req' = req \/ req' = [req EXCEPT ![t] = [Idle EXCEPT !.at = "auth", !.host = h]]
    BY <1>8 DEF Arrive
  <2> DEFINE r == [Idle EXCEPT !.at = "auth", !.host = h]
  <2>2. r.at = "auth"
    BY DEF Idle
  <2>3. req' = req \/ req' = [req EXCEPT ![t] = r]
    BY <2>1
  <2> HIDE DEF r
  <2> QED BY <1>3, <2>2, <2>3 DEF InPool
<1>9. ASSUME NEW t \in Requests, Authenticate(t) \/ Parse(t) PROVE Cardinality(J) <= PoolSize
  <2>1. ThreadFree
    BY <1>9 DEF Authenticate, Parse
  <2>2. \A u \in Requests \ {t} : req'[u] = req[u]
    <3>1. CASE Authenticate(t)
      BY <1>0, <3>1, AuthenticateChanges
    <3>2. CASE Parse(t)
      BY <1>0, <3>2 DEF Parse, Leave
    <3> QED BY <1>9, <3>1, <3>2
  <2>3. J \in SUBSET (I \cup {t})
    BY <2>2 DEF InPool
  <2> QED BY <1>2, <2>1, <2>3
<1>10. ASSUME NEW t \in Requests, Measure(t) PROVE J \in SUBSET I
  <2>1. CASE req' = [req EXCEPT ![t].at = "append"]
    <3>1. t \in I
      BY <1>10 DEF Measure, InPool
    <3>2. \A u \in Requests \ {t} : req'[u] = req[u]
      BY <1>0, <2>1
    <3> QED BY <3>1, <3>2 DEF InPool
  <2> QED BY <1>6, <1>10, <2>1 DEF Measure
<1>11. ASSUME NEW t \in Requests,
              Unauthorized(t) \/ Answer(t) \/ AppendTime(t) \/ RedisDown(t) \/ AllowOld(t) \/ Increment(t)
       PROVE  J \in SUBSET I
  <2>1. CASE Unauthorized(t) \/ Answer(t)
    BY <1>6, <2>1 DEF Unauthorized, Answer
  <2>2. CASE AppendTime(t) \/ RedisDown(t)
    BY <1>7, <2>2 DEF AppendTime, RedisDown
  <2>3. CASE AllowOld(t)
    BY <1>6, <1>7, <2>3 DEF AllowOld
  <2>4. CASE Increment(t)
    <3>1. Passed(t) \/ Leave(t, 429)
      BY <2>4 DEF Increment
    <3> QED BY <1>6, <1>7, <3>1
  <2> QED BY <1>11, <2>1, <2>2, <2>3, <2>4
<1>12. ASSUME NEW t \in Requests, Serve(t) PROVE Cardinality(J) <= PoolSize
  <2>1. CASE EvictOne(t)
    BY <1>4, <2>1 DEF EvictOne
  <2> QED BY <1>1, <1>9, <1>10, <1>11, <1>12, <2>1 DEF Serve
<1> QED BY <1>1, <1>4, <1>5, <1>8, <1>12 DEF Next, Tick, SaveMode, vars

LEMMA NextQuota == TypeInv /\ PoolHolds' /\ Quota /\ [Next]_vars => Quota'
<1> SUFFICES ASSUME TypeInv, PoolHolds', Quota, [Next]_vars, limiter' = "memory", NEW s \in Subjects
             PROVE  Len(buckets'[s]) + Cardinality(Measured(s)') <= MaxRequests - 1 + PoolSize
  BY DEF Quota
<1>0. /\ now \in Nat /\ req \in [Requests -> RequestType] /\ \A t \in Requests : req[t] \in RequestType
      /\ buckets \in [Subjects -> Seq(Times)] /\ buckets[s] \in Seq(Times)
  BY LimitFacts DEF TypeInv, TypeOK
<1>00. Len(buckets[s]) \in Nat /\ Len(buckets'[s]) \in Nat /\ buckets'[s] \in Seq(Times)
  <2>1. TypeInv'
    BY NextTypeInv
  <2>2. buckets' \in [Subjects -> Seq(Times)]
    BY <2>1 DEF TypeInv, TypeOK
  <2> QED BY <1>0, <2>2, LenProperties
<1>1. limiter = "memory"
  BY LimiterSteps DEF Tick, ReloadState, Quiet, EvictOne, Measure, AppendTime, Increment, Settings
<1>2. CASE Len(buckets'[s]) <= Len(buckets[s]) /\ \A u \in Requests : u \in Measured(s)' => u \in Measured(s)
  BY <1>00, <1>1, <1>2, FewerIsQuota
<1>3. CASE buckets' = buckets /\ req' = req
  BY <1>00, <1>2, <1>3 DEF Measured, Appending
<1>4. CASE ReloadState
  <2>1. buckets'[s] = <<>> /\ \A t \in Requests : req'[t].at # "append" \/ req'[t].oldLimiter
    BY <1>0, <1>4 DEF ReloadState, RequestType
  <2>2. \A u \in Requests : u \in Measured(s)' => u \in Measured(s)
    BY <2>1 DEF Measured, Appending
  <2> QED BY <1>00, <1>2, <2>1, <2>2
<1>5. CASE Quiet
  <2>1. buckets' = buckets
    BY <1>5 DEF Quiet, Limits
  <2>2. \A u \in Requests : u \in Measured(s)' => u \in Measured(s)
    BY <1>5 DEF Quiet, Measured
  <2> QED BY <1>00, <1>2, <2>1, <2>2
<1>6. ASSUME NEW t \in Requests, EvictOne(t)
      PROVE  Len(buckets'[s]) + Cardinality(Measured(s)') <= MaxRequests - 1 + PoolSize
  <2>1. /\ req' = req /\ Bucket(t) # <<>> /\ req[t].subject \in Subjects
        /\ buckets' = [buckets EXCEPT ![req[t].subject] = Tail(@)]
    BY <1>6 DEF EvictOne, Expired, TypeInv, InFlight
  <2>2. buckets[req[t].subject] \in Seq(Times) /\ buckets[req[t].subject] # <<>>
    BY <1>0, <2>1 DEF Bucket
  <2>3. Len(Tail(buckets[req[t].subject])) = Len(buckets[req[t].subject]) - 1
    BY <2>2, HeadTailProperties
  <2>4. Len(buckets'[s]) <= Len(buckets[s])
    BY <1>0, <1>00, <2>1, <2>3
  <2> QED BY <1>00, <1>2, <2>1, <2>4 DEF Measured, Appending
<1>7. ASSUME NEW t \in Requests, Measure(t), ~Full(t)
      PROVE  Len(buckets'[s]) + Cardinality(Measured(s)') <= MaxRequests - 1 + PoolSize
  <2>1. buckets' = buckets /\ req' = [req EXCEPT ![t] = [req[t] EXCEPT !.at = "append"]]
    BY <1>7 DEF Measure, Limits
  <2>2. req'[t].subject = req[t].subject /\ \A u \in Requests \ {t} : req'[u] = req[u]
    BY <1>0, <2>1 DEF RequestType
  <2>3. CASE s = req[t].subject
    <3>1. Len(buckets[s]) < MaxRequests
      BY <1>00, <1>7, <2>3, LimitFacts DEF Full, Bucket
    <3> DEFINE K == Measured(s)'
               I == InPool'
    <3>2. K \in SUBSET I /\ I \in SUBSET Requests /\ Cardinality(I) <= PoolSize
      BY DEF Measured, Appending, InPool, PoolHolds
    <3> HIDE DEF K, I
    <3>3. Cardinality(K) \in Nat /\ Cardinality(K) <= PoolSize
      <4>1. IsFiniteSet(I) /\ Cardinality(I) \in Nat
        BY <3>2, HoldingFinite
      <4>2. Cardinality(K) \in Nat /\ Cardinality(K) <= Cardinality(I)
        BY <3>2, <4>1, FS_Subset, FS_CardinalityType
      <4> QED BY <3>2, <4>1, <4>2, LimitFacts
    <3>4. Len(buckets'[s]) + Cardinality(K) <= MaxRequests - 1 + PoolSize
      BY <1>00, <2>1, <3>1, <3>3, LimitFacts
    <3> QED BY <3>4 DEF K
  <2>4. CASE s # req[t].subject
    <3>1. \A u \in Requests : u \in Measured(s)' => u \in Measured(s)
      BY <2>2, <2>4 DEF Measured, Appending
    <3> QED BY <1>00, <1>2, <2>1, <3>1
  <2> QED BY <2>3, <2>4
<1>8. ASSUME NEW t \in Requests, AppendTime(t)
      PROVE  Len(buckets'[s]) + Cardinality(Measured(s)') <= MaxRequests - 1 + PoolSize
  <2>1. /\ req[t].at = "append" /\ ~req[t].oldLimiter /\ req[t].saw \in Times /\ Passed(t)
        /\ buckets' = [buckets EXCEPT ![req[t].subject] = Append(@, req[t].saw)]
    BY <1>0, <1>8 DEF AppendTime, RequestType
  <2>2. req'[t].at = "parse" /\ \A u \in Requests \ {t} : req'[u] = req[u]
    BY <1>0, <2>1 DEF Passed, Idle
  <2>3. t \notin Measured(s)' /\ \A u \in Requests : u \in Measured(s)' => u \in Measured(s)
    BY <2>2 DEF Measured, Appending
  <2>4. CASE s = req[t].subject
    <3>1. Len(buckets'[s]) = Len(buckets[s]) + 1
      BY <1>0, <2>1, <2>4, AppendProperties
    <3> DEFINE H == Measured(s)
               K == Measured(s)'
    <3>2. t \in H /\ H \in SUBSET Requests /\ K \in SUBSET (H \ {t})
      BY <2>1, <2>3, <2>4 DEF Measured, Appending
    <3>3. Len(buckets[s]) + Cardinality(H) <= MaxRequests - 1 + PoolSize
      BY <1>1 DEF Quota
    <3> HIDE DEF H, K
    <3>4. IsFiniteSet(H) /\ Cardinality(H) \in Nat
      BY <3>2, HoldingFinite
    <3>5. IsFiniteSet(H \ {t}) /\ Cardinality(H \ {t}) = Cardinality(H) - 1
      BY <3>2, <3>4, FS_RemoveElement
    <3>6. Cardinality(K) <= Cardinality(H \ {t}) /\ Cardinality(K) \in Nat
      BY <3>2, <3>5, FS_Subset, FS_CardinalityType
    <3>7. Len(buckets'[s]) + Cardinality(K) <= MaxRequests - 1 + PoolSize
      BY <1>00, <3>1, <3>3, <3>4, <3>5, <3>6, LimitFacts
    <3> QED BY <3>7 DEF K
  <2>5. CASE s # req[t].subject
    <3>1. buckets'[s] = buckets[s]
      BY <1>0, <2>1, <2>5
    <3> QED BY <1>00, <1>2, <2>3, <3>1
  <2> QED BY <2>4, <2>5
<1>9. CASE \E t \in Requests : Increment(t)
  BY <1>1, <1>9 DEF Increment
<1>10. CASE Tick
  BY <1>3, <1>10 DEF Tick
<1> QED BY <1>4, <1>5, <1>6, <1>7, <1>8, <1>9, <1>10, LimiterSteps

-----------------------------------------------------------------------------
(* The limiter in Redis *)

\* The start of the window a time is in.
Start(x) == x - (x % Window)

LEMMA StartIs ==
  ASSUME NEW x \in Nat
  PROVE  /\ Start(x) \in Nat /\ Start(x) <= x /\ x < Start(x) + Window
         /\ \E q \in Nat : Start(x) = q * Window
<1>1. Window \in Nat \ {0}
  BY LimitFacts
<1>2. x % Window \in 0..(Window - 1) /\ x \div Window \in Nat /\ x = Window * (x \div Window) + (x % Window)
  BY <1>1
<1> DEFINE r == x % Window
           q == x \div Window
           p == q * Window
<1>3. r \in 0..(Window - 1) /\ q \in Nat /\ p \in Nat /\ x = p + r
  BY <1>1, <1>2
<1> HIDE DEF r, p
<1>4. x - r = p /\ x - r \in Nat /\ x - r <= x /\ x < x - r + Window
  BY <1>1, <1>3
<1> QED BY <1>3, <1>4 DEF Start, r, p

\* Two windows do not overlap.
LEMMA MultiplesApart ==
  ASSUME NEW a \in Nat, NEW b \in Nat, NEW w \in Nat, a * w < b * w
  PROVE  a * w + w <= b * w
<1>1. a < b
  <2> SUFFICES ASSUME b <= a PROVE FALSE
    OBVIOUS
  <2>1. PICK d \in Nat : a = b + d
    <3>1. a - b \in Nat /\ a = b + (a - b)
      OBVIOUS
    <3> QED BY <3>1
  <2>2. a * w = b * w + d * w /\ d * w \in Nat /\ b * w \in Nat
    BY <2>1
  <2> DEFINE p == a * w
             q == b * w
             r == d * w
  <2>3. p < q /\ p = q + r /\ q \in Nat /\ r \in Nat
    BY <2>2
  <2> HIDE DEF p, q, r
  <2> QED BY <2>3
<1>2. PICK d \in Nat : b = a + 1 + d
  <2>1. b - a - 1 \in Nat /\ b = a + 1 + (b - a - 1)
    BY <1>1
  <2> QED BY <2>1
<1>3. b * w = a * w + w + d * w /\ d * w \in Nat /\ a * w \in Nat
  BY <1>2
<1> DEFINE p == a * w
           q == b * w
           r == d * w
<1>4. q = p + w + r /\ p \in Nat /\ r \in Nat
  BY <1>3
<1> HIDE DEF p, q, r
<1>5. p + w <= q
  BY <1>4
<1> QED BY <1>5 DEF p, q

LEMMA StartsApart ==
  ASSUME NEW x \in Nat, NEW y \in Nat, Start(x) < Start(y)
  PROVE  Start(x) + Window <= Start(y)
<1>1. PICK a \in Nat, b \in Nat : Start(x) = a * Window /\ Start(y) = b * Window
  BY StartIs
<1>2. Window \in Nat
  BY LimitFacts
<1> QED BY <1>1, <1>2, MultiplesApart

\* The window that ends now meets two fixed windows.
LEMMA TwoStarts ==
  ASSUME NEW time \in Nat, NEW x \in Nat, x <= time, time - x < Window
  PROVE  Start(x) = Start(time) \/ Start(x) = Start(time) - Window
<1> DEFINE w == Start(x)
           z == Start(time)
<1>1. /\ w \in Nat /\ w <= x /\ x < w + Window /\ z \in Nat /\ z <= time /\ time < z + Window
      /\ Window \in Nat \ {0}
  BY StartIs, LimitFacts
<1>2. /\ w < z => w + Window <= z
      /\ z < w => z + Window <= w
  BY StartsApart
<1> HIDE DEF w, z
<1>3. w <= z
  BY <1>1, <1>2
<1>4. ASSUME w + Window < z PROVE FALSE
  <2> DEFINE y == w + Window
  <2>1. PICK a \in Nat, b \in Nat : w = a * Window /\ z = b * Window
    BY StartIs DEF w, z
  <2>2. (a + 1) * Window = w + Window /\ a + 1 \in Nat
    BY <1>1, <2>1
  <2>3. (a + 1) * Window < b * Window
    BY <1>4, <2>1, <2>2
  <2>4. (a + 1) * Window + Window <= b * Window
    BY <1>1, <2>1, <2>2, <2>3, MultiplesApart
  <2>5. w + Window + Window <= z
    BY <2>1, <2>2, <2>4
  <2> QED BY <1>1, <2>5
<1>5. w = z \/ w = z - Window
  BY <1>1, <1>2, <1>3, <1>4
<1> QED BY <1>5 DEF w, z

\* The recent times of a fixed window.
InWindow(times, time, w) == {i \in 1..Len(times) : time - times[i] < Window /\ Start(times[i]) = w}

LEMMA InWindowFinite ==
  ASSUME NEW times \in Seq(Times), NEW time, NEW w
  PROVE  IsFiniteSet(InWindow(times, time, w)) /\ Cardinality(InWindow(times, time, w)) \in Nat
<1>1. InWindow(times, time, w) \in SUBSET (1..Len(times)) /\ 1 \in Int /\ Len(times) \in Int
  BY LenProperties DEF InWindow
<1>2. IsFiniteSet(1..Len(times))
  BY <1>1, FS_Interval
<1> QED BY <1>1, <1>2, FS_Subset, FS_CardinalityType

\* As time passes and what has left the window is dropped, they become fewer.
LEMMA SinceInWindow ==
  ASSUME NEW times \in Seq(Times), NEW time \in Nat, NEW later \in Nat, time <= later,
         NEW oldest \in Int, NEW w
  PROVE  Cardinality(InWindow(Since(times, oldest), later, w)) <= Cardinality(InWindow(times, time, w))
<1> DEFINE rest == Since(times, oldest)
           l == Len(times)
           A == InWindow(rest, later, w)
           B == InWindow(times, time, w)
<1>1. l \in Nat /\ \A i \in 1..l : times[i] \in Nat
  BY LimitFacts, LenProperties, ElementOfSeq
<1>2. PICK n \in 0..l : Len(rest) = l - n /\ \A j \in 1..(l - n) : rest[j] = times[n + j]
  BY LimitFacts, SinceIs
<1> DEFINE f == [j \in A |-> n + j]
<1>3. \A j \in A : n + j \in B
  <2> SUFFICES ASSUME NEW j \in 1..(l - n), later - rest[j] < Window, Start(rest[j]) = w
               PROVE  n + j \in B
    BY <1>2 DEF InWindow
  <2>1. n + j \in 1..l /\ rest[j] = times[n + j] /\ times[n + j] \in Nat
    BY <1>1, <1>2
  <2>2. time - times[n + j] < Window
    BY <2>1, LimitFacts
  <2> QED BY <2>1, <2>2 DEF InWindow
<1>4. IsFiniteSet(B)
  BY InWindowFinite
<1>5. A \in SUBSET Int
  BY DEF InWindow
<1> HIDE DEF A, B
<1>6. f \in Injection(A, B)
  <2>1. f \in [A -> B]
    BY <1>3
  <2>2. \A i, j \in A : f[i] = f[j] => i = j
    BY <1>1, <1>2, <1>5
  <2> HIDE DEF f
  <2> QED BY <2>1, <2>2 DEF Injection, IsInjective
<1>7. Cardinality(A) <= Cardinality(B)
  BY <1>4, <1>6, FS_Injection
<1> QED BY <1>7 DEF A, B, rest

\* A time put at the end adds one to its own window.
LEMMA AppendInWindow ==
  ASSUME NEW times \in Seq(Times), NEW x \in Times, NEW time \in Nat, NEW w
  PROVE  Cardinality(InWindow(Append(times, x), time, w))
           <= Cardinality(InWindow(times, time, w)) + (IF Start(x) = w THEN 1 ELSE 0)
<1> DEFINE more == Append(times, x)
           l == Len(times)
           A == InWindow(more, time, w)
           B == InWindow(times, time, w)
<1>1. l \in Nat /\ Len(more) = l + 1 /\ (\A i \in 1..l : more[i] = times[i]) /\ more[l + 1] = x
  BY LenProperties, AppendProperties
<1> HIDE DEF more
<1>2. \A i \in A : i \in B \/ (i = l + 1 /\ Start(x) = w)
  <2> SUFFICES ASSUME NEW i \in 1..(l + 1), time - more[i] < Window, Start(more[i]) = w, i # l + 1
               PROVE  i \in B
    BY <1>1 DEF InWindow
  <2>1. i \in 1..l
    BY <1>1
  <2> QED BY <1>1, <2>1 DEF InWindow
<1>3. IsFiniteSet(B) /\ Cardinality(B) \in Nat
  BY InWindowFinite
<1> HIDE DEF A, B
<1>4. CASE Start(x) = w
  <2>1. A \in SUBSET (B \cup {l + 1})
    BY <1>2
  <2>2. IsFiniteSet(B \cup {l + 1}) /\ Cardinality(B \cup {l + 1}) <= Cardinality(B) + 1
        /\ Cardinality(B \cup {l + 1}) \in Nat
    <3>1. /\ IsFiniteSet(B \cup {l + 1})
          /\ Cardinality(B \cup {l + 1}) = IF l + 1 \in B THEN Cardinality(B) ELSE Cardinality(B) + 1
      BY <1>3, FS_AddElement, Zenon
    <3> QED BY <1>3, <3>1
  <2>3. Cardinality(A) <= Cardinality(B \cup {l + 1}) /\ Cardinality(A) \in Nat
    BY <2>1, <2>2, FS_Subset, FS_CardinalityType
  <2>4. Cardinality(A) <= Cardinality(B) + 1
    BY <1>3, <2>2, <2>3
  <2> QED BY <1>4, <2>4 DEF A, B, more
<1>5. CASE Start(x) # w
  <2>1. A \in SUBSET B
    BY <1>2, <1>5
  <2>2. Cardinality(A) <= Cardinality(B)
    BY <1>3, <2>1, FS_Subset
  <2>3. Cardinality(A) <= Cardinality(B) + 0
    BY <1>3, <2>2
  <2> QED BY <1>5, <2>3 DEF A, B, more
<1> QED BY <1>4, <1>5

\* No time let through is in the future.
Past == \A s \in Subjects : \A i \in 1..Len(admitted[s]) : admitted[s][i] <= now

\* Of each fixed window no more recent requests were let through than its counter says, nor
\* than the limit.
Counted ==
  limiter = "redis" => \A s \in Subjects, w \in Times :
    /\ Cardinality(InWindow(admitted[s], now, w)) <= counters[<<s, w>>]
    /\ Cardinality(InWindow(admitted[s], now, w)) <= MaxRequests

LEMMA SincePast ==
  ASSUME NEW times \in Seq(Times), NEW time \in Nat, NEW oldest \in Int,
         \A i \in 1..Len(times) : times[i] <= time,
         NEW i \in 1..Len(Since(times, oldest))
  PROVE  Since(times, oldest)[i] <= time
<1>1. PICK n \in 0..Len(times) : /\ Len(Since(times, oldest)) = Len(times) - n
                                 /\ \A j \in 1..(Len(times) - n) : Since(times, oldest)[j] = times[n + j]
  BY LimitFacts, SinceIs
<1>2. n + i \in 1..Len(times)
  BY <1>1
<1> QED BY <1>1, <1>2

\* What admits a request does, to any of the histories.
LEMMA AdmitDoes ==
  ASSUME TypeInv, NEW t \in Requests, Admit(t), req[t].at \in {"limiter", "append"}, NEW s \in Subjects
  PROVE  IF s = req[t].subject
         THEN admitted'[s] = Since(Append(admitted[s], req[t].saw), now - Window + 1)
         ELSE admitted'[s] = admitted[s]
BY DEF TypeInv, TypeOK, Admit

LEMMA NextPast == TypeInv /\ Past /\ [Next]_vars => Past'
<1> SUFFICES ASSUME TypeInv, Past, [Next]_vars, NEW s \in Subjects, NEW i \in 1..Len(admitted'[s])
             PROVE  admitted'[s][i] <= now'
  BY DEF Past
<1>0. /\ now \in Nat /\ admitted \in [Subjects -> Seq(Times)] /\ admitted[s] \in Seq(Times)
      /\ (\A j \in 1..Len(admitted[s]) : admitted[s][j] <= now)
      /\ (\A t \in Requests : req[t] \in RequestType /\ req[t].saw \in Times /\ req[t].saw <= now)
      /\ \A j \in 1..Len(admitted[s]) : admitted[s][j] \in Nat
  <2>1. admitted[s] \in Seq(Times) /\ (\A t \in Requests : req[t] \in RequestType)
    BY DEF TypeInv, TypeOK
  <2>2. \A j \in 1..Len(admitted[s]) : admitted[s][j] \in Nat
    BY <2>1, LimitFacts, ElementOfSeq
  <2> QED BY <2>1, <2>2, LimitFacts DEF TypeInv, TypeOK, Past, InFlight, RequestType
<1>1. CASE Tick
  <2>1. now' = now + 1 /\ admitted'[s] = Since(admitted[s], now' - Window + 1) /\ now' - Window + 1 \in Int
    BY <1>0, <1>1, LimitFacts DEF Tick
  <2>2. \A j \in 1..Len(admitted[s]) : admitted[s][j] <= now'
    BY <1>0, <2>1
  <2>3. now' \in Nat
    BY <1>0, <2>1
  <2> QED BY <1>0, <2>1, <2>2, <2>3, SincePast
<1>2. CASE admitted'[s] = admitted[s] /\ now' = now
  BY <1>0, <1>2
<1>3. CASE ReloadState
  <2>1. now' = now /\ (admitted'[s] = admitted[s] \/ admitted'[s] = <<>>)
    BY <1>3 DEF ReloadState
  <2> QED BY <1>0, <2>1
<1>4. CASE Quiet
  BY <1>2, <1>4 DEF Quiet, Limits
<1>5. ASSUME NEW t \in Requests, Admit(t), req[t].at \in {"limiter", "append"}, now' = now
      PROVE  admitted'[s][i] <= now'
  <2>1. CASE s # req[t].subject
    BY <1>2, <1>5, <2>1, AdmitDoes
  <2>2. CASE s = req[t].subject
    <3> DEFINE x == req[t].saw
               more == Append(admitted[s], x)
    <3>1. admitted'[s] = Since(more, now - Window + 1)
      BY <1>5, <2>2, AdmitDoes
    <3>2. /\ more \in Seq(Times) /\ Len(more) = Len(admitted[s]) + 1 /\ Len(admitted[s]) \in Nat
          /\ (\A j \in 1..Len(admitted[s]) : more[j] = admitted[s][j]) /\ more[Len(admitted[s]) + 1] = x
      BY <1>0, AppendProperties, LenProperties
    <3>3. \A j \in 1..Len(more) : more[j] <= now
      BY <1>0, <3>2
    <3>4. now - Window + 1 \in Int
      BY <1>0, LimitFacts
    <3> HIDE DEF more
    <3> QED BY <1>0, <1>5, <3>1, <3>2, <3>3, <3>4, SincePast
  <2> QED BY <2>1, <2>2
<1>6. ASSUME NEW t \in Requests, EvictOne(t) \/ Measure(t) PROVE admitted'[s][i] <= now'
  BY <1>2, <1>6 DEF EvictOne, Measure, Limits
<1>7. ASSUME NEW t \in Requests, AppendTime(t) PROVE admitted'[s][i] <= now'
  BY <1>5, <1>7 DEF AppendTime
<1>8. ASSUME NEW t \in Requests, Increment(t) PROVE admitted'[s][i] <= now'
  <2>1. req[t].at = "limiter" /\ now' = now /\ (Admit(t) \/ admitted' = admitted)
    BY <1>8 DEF Increment
  <2> QED BY <1>2, <1>5, <2>1
<1> QED BY <1>1, <1>3, <1>4, <1>6, <1>7, <1>8, LimiterSteps

\* Once a counter has expired, the times of its window are not recent.
LEMMA ExpiredIsGone ==
  ASSUME NEW times \in Seq(Times), NEW time \in Nat, NEW w \in Nat, w + 2 * Window <= time
  PROVE  InWindow(times, time, w) = {}
<1> SUFFICES ASSUME NEW i \in 1..Len(times), time - times[i] < Window, Start(times[i]) = w
             PROVE  FALSE
  BY DEF InWindow
<1>1. PICK x \in Nat : x = times[i]
  BY LimitFacts, ElementOfSeq
<1>2. time - x < Window /\ x < w + Window
  BY <1>1, StartIs
<1>3. Window \in Nat
  BY LimitFacts
<1> QED BY <1>2, <1>3

LEMMA NextCounted == TypeInv /\ Counted /\ [Next]_vars => Counted'
<1> SUFFICES ASSUME TypeInv, Counted, [Next]_vars, limiter' = "redis", NEW s \in Subjects, NEW w \in Times
             PROVE  /\ Cardinality(InWindow(admitted'[s], now', w)) <= counters'[<<s, w>>]
                    /\ Cardinality(InWindow(admitted'[s], now', w)) <= MaxRequests
  BY DEF Counted
<1>0. /\ now \in Nat /\ w \in Nat /\ admitted[s] \in Seq(Times)
      /\ counters \in [Subjects \X Times -> 0..MaxRequests + 1] /\ <<s, w>> \in Subjects \X Times
      /\ \A t \in Requests : req[t] \in RequestType /\ req[t].saw \in Times
  <2>1. w \in Nat /\ now \in Nat
    BY LimitFacts DEF TypeInv, TypeOK
  <2> QED BY <2>1 DEF TypeInv, TypeOK, RequestType
<1>00. limiter = "redis"
  BY LimiterSteps DEF Tick, ReloadState, Quiet, EvictOne, Measure, AppendTime, Increment, Settings
<1> DEFINE before == Cardinality(InWindow(admitted[s], now, w))
           after == Cardinality(InWindow(admitted'[s], now', w))
           c == counters[<<s, w>>]
           d == counters'[<<s, w>>]
<1>000. before \in Nat /\ after \in Nat /\ before <= c /\ before <= MaxRequests /\ c \in Nat
  <2>1. admitted'[s] \in Seq(Times)
    <3>1. TypeInv'
      BY NextTypeInv
    <3> QED BY <3>1 DEF TypeInv, TypeOK
  <2>2. c \in Nat
    <3>1. c \in 0..MaxRequests + 1
      BY <1>0
    <3> QED BY <3>1, LimitFacts
  <2> QED BY <1>0, <1>00, <2>1, <2>2, InWindowFinite DEF Counted
<1> HIDE DEF before, after, c, d
<1> SUFFICES after <= d /\ after <= MaxRequests
  BY DEF after, d
<1>1. CASE Tick
  <2>1. /\ now' = now + 1 /\ admitted'[s] = Since(admitted[s], now' - Window + 1)
        /\ d = IF w + 2 * Window <= now' THEN 0 ELSE c
    BY <1>0, <1>1 DEF Tick, c, d
  <2>2. now' \in Nat /\ now <= now' /\ now' - Window + 1 \in Int
    BY <1>0, <2>1, LimitFacts
  <2>3. after <= before
    BY <1>0, <2>1, <2>2, SinceInWindow DEF after, before
  <2>4. CASE w + 2 * Window <= now'
    <3>1. admitted'[s] \in Seq(Times)
      BY <1>0, <2>1, <2>2, SinceOfTimes
    <3>2. InWindow(admitted'[s], now', w) = {}
      BY <1>0, <2>2, <2>4, <3>1, ExpiredIsGone
    <3>4. after = 0
      BY <3>2, FS_EmptySet DEF after
    <3> QED BY <2>1, <2>4, <3>4, LimitFacts
  <2>5. CASE ~(w + 2 * Window <= now')
    BY <1>000, <2>1, <2>3, <2>5, LimitFacts
  <2> QED BY <2>4, <2>5
<1>2. CASE UNCHANGED <<now, counters, admitted>>
  BY <1>2, <1>000 DEF after, before, c, d
<1>3. CASE ReloadState \/ Quiet
  BY <1>2, <1>3, <1>00 DEF ReloadState, Quiet, Limits
<1>4. ASSUME NEW t \in Requests, EvictOne(t) \/ Measure(t) \/ AppendTime(t) PROVE FALSE
  BY <1>4, <1>00 DEF EvictOne, Measure, AppendTime, TypeInv, InFlight
<1>5. ASSUME NEW t \in Requests, Increment(t) PROVE after <= d /\ after <= MaxRequests
  <2> DEFINE subject == req[t].subject
             x == req[t].saw
             slot == <<subject, Start(x)>>
             count == counters[slot] + 1
  <2>1. /\ req[t].at = "limiter" /\ now' = now
        /\ counters' = [counters EXCEPT ![slot] = IF @ <= MaxRequests THEN count ELSE @]
        /\ IF count <= MaxRequests THEN Admit(t) ELSE UNCHANGED admitted
    BY <1>5 DEF Increment, Start
  <2>2. subject \in Subjects /\ x \in Times /\ x \in Nat
    BY <1>0, <2>1, LimitFacts DEF TypeInv, InFlight
  <2>3. Start(x) \in Times
    <3>1. Start(x) \in Nat /\ Start(x) <= x /\ x <= MaxTime
      BY <2>2, StartIs DEF Times
    <3> DEFINE z == Start(x)
    <3>2. z \in Nat /\ z <= x /\ x <= MaxTime /\ x \in Nat /\ MaxTime \in Nat
      BY <2>2, <3>1, LimitFacts
    <3> HIDE DEF z
    <3>3. z \in 0..MaxTime
      BY ONLY <3>2
    <3> QED BY <3>3 DEF z, Times
  <2>4. slot \in Subjects \X Times /\ counters[slot] \in 0..MaxRequests + 1 /\ (slot = <<s, w>> <=> s = subject /\ w = Start(x))
    BY <1>0, <2>2, <2>3
  <2>5. d = (IF slot = <<s, w>> /\ c <= MaxRequests THEN c + 1 ELSE c)
    <3> DEFINE v == IF counters[slot] <= MaxRequests THEN count ELSE counters[slot]
    <3>1. counters' = [counters EXCEPT ![slot] = v] /\ v = IF counters[slot] <= MaxRequests THEN counters[slot] + 1 ELSE counters[slot]
      BY <2>1
    <3> HIDE DEF v, slot
    <3>2. counters'[<<s, w>>] = IF slot = <<s, w>> THEN v ELSE counters[<<s, w>>]
      BY <1>0, <2>4, <3>1
    <3> QED BY <3>1, <3>2 DEF c, d
  <2>6. slot = <<s, w>> => count = c + 1
    BY DEF c
  <2> HIDE DEF slot, count
  <2>7. CASE ~(count <= MaxRequests)
    <3>1. after = before /\ c <= d
      BY <1>000, <2>1, <2>5, <2>7 DEF after, before
    <3> QED BY <1>000, <2>5, <3>1, LimitFacts
  <2>8. CASE count <= MaxRequests /\ s # subject
    <3>1. after = before
      BY <2>1, <2>8, AdmitDoes DEF after, before
    <3> QED BY <1>000, <2>5, <3>1, LimitFacts
  <2>9. CASE count <= MaxRequests /\ s = subject
    <3> DEFINE more == Append(admitted[s], x)
               middle == Cardinality(InWindow(more, now, w))
               own == IF Start(x) = w THEN 1 ELSE 0
    <3>1. admitted'[s] = Since(more, now - Window + 1) /\ more \in Seq(Times) /\ now - Window + 1 \in Int
      BY <1>0, <2>1, <2>2, <2>9, LimitFacts, AdmitDoes, AppendProperties
    <3>2. after <= middle
      <4>1. now <= now
        BY <1>0
      <4> HIDE DEF more
      <4> QED BY <1>0, <2>1, <3>1, <4>1, SinceInWindow DEF after
    <3>3. middle <= before + own /\ middle \in Nat
      BY <1>0, <2>2, <3>1, AppendInWindow, InWindowFinite DEF before
    <3> HIDE DEF middle, more
    <3>4. CASE Start(x) = w
      <4>1. slot = <<s, w>> /\ count = c + 1
        BY <2>4, <2>6, <2>9, <3>4
      <4>2. d = c + 1 /\ c + 1 <= MaxRequests /\ middle <= before + 1
        BY <1>000, <2>5, <2>9, <3>3, <3>4, <4>1, LimitFacts
      <4> QED BY <1>000, <3>2, <3>3, <4>2, LimitFacts
    <3>5. CASE Start(x) # w
      <4>1. slot # <<s, w>> /\ d = c /\ middle <= before
        BY <1>000, <2>4, <2>5, <3>3, <3>5
      <4> QED BY <1>000, <3>2, <3>3, <4>1, LimitFacts
    <3> QED BY <3>4, <3>5
  <2> QED BY <2>7, <2>8, <2>9
<1> QED BY <1>1, <1>3, <1>4, <1>5, LimiterSteps

LEMMA RecentIs ==
  ASSUME TypeOK, NEW s \in Subjects
  PROVE  /\ admitted[s] \in Seq(Times)
         /\ Recent(s) = {i \in 1..Len(admitted[s]) : now - admitted[s][i] < Window}
<1>1. admitted[s] \in Seq(Times)
  BY DEF TypeOK
<1>2. DOMAIN admitted[s] = 1..Len(admitted[s])
  BY <1>1, LenProperties
<1> QED BY <1>1, <1>2 DEF Recent

\* The recent times are of two windows, each within the limit.
LEMMA CountedIsQuota ==
  ASSUME TypeOK, Past, Counted, limiter = "redis", NEW s \in Subjects
  PROVE  Cardinality(Recent(s)) <= 2 * MaxRequests
<1>0. /\ admitted[s] \in Seq(Times) /\ now \in Nat /\ MaxRequests \in Nat
      /\ (\A i \in 1..Len(admitted[s]) : admitted[s][i] \in Nat /\ admitted[s][i] \in Times /\ admitted[s][i] <= now)
      /\ Recent(s) = {i \in 1..Len(admitted[s]) : now - admitted[s][i] < Window}
  <2>1. admitted[s] \in Seq(Times) /\ now \in Nat /\ MaxRequests \in Nat
    BY LimitFacts DEF TypeOK
  <2>2. \A i \in 1..Len(admitted[s]) : admitted[s][i] \in Times /\ admitted[s][i] \in Nat
    BY <2>1, LimitFacts, ElementOfSeq
  <2>3. \A i \in 1..Len(admitted[s]) : admitted[s][i] <= now
    BY DEF Past
  <2> QED BY <2>1, <2>2, <2>3, RecentIs
<1> DEFINE this == InWindow(admitted[s], now, Start(now))
           last == InWindow(admitted[s], now, Start(now) - Window)
<1>1. Recent(s) \in SUBSET (this \cup last)
  BY <1>0, TwoStarts DEF InWindow
<1>2. ASSUME NEW w
      PROVE  /\ IsFiniteSet(InWindow(admitted[s], now, w))
             /\ Cardinality(InWindow(admitted[s], now, w)) \in Nat
             /\ Cardinality(InWindow(admitted[s], now, w)) <= MaxRequests
  <2>1. CASE w \in Times
    BY <1>0, <2>1, InWindowFinite DEF Counted
  <2>2. CASE w \notin Times
    <3>1. ASSUME NEW i \in InWindow(admitted[s], now, w) PROVE FALSE
      <4> DEFINE x == admitted[s][i]
      <4>1. x \in Nat /\ x <= MaxTime /\ Start(x) = w
        BY <1>0, <3>1 DEF InWindow, Times
      <4> HIDE DEF x
      <4>2. w \in Nat /\ w <= x
        BY <4>1, StartIs
      <4>3. w \in 0..MaxTime
        BY <4>1, <4>2, LimitFacts
      <4> QED BY <2>2, <4>3 DEF Times
    <3>2. InWindow(admitted[s], now, w) = {}
      BY <3>1
    <3>3. Cardinality(InWindow(admitted[s], now, w)) = 0
      BY <3>2, FS_EmptySet
    <3> QED BY <1>0, <3>3, InWindowFinite
  <2> QED BY <2>1, <2>2
<1>3. /\ IsFiniteSet(this) /\ Cardinality(this) \in Nat /\ Cardinality(this) <= MaxRequests
      /\ IsFiniteSet(last) /\ Cardinality(last) \in Nat /\ Cardinality(last) <= MaxRequests
  BY <1>2
<1> HIDE DEF this, last
<1>4. /\ IsFiniteSet(this \cup last) /\ Cardinality(this \cup last) \in Nat
      /\ Cardinality(this \cup last) <= Cardinality(this) + Cardinality(last)
  <2>1. IsFiniteSet(this \cup last)
        /\ Cardinality(this \cup last) = Cardinality(this) + Cardinality(last) - Cardinality(this \cap last)
    BY <1>3, FS_Union
  <2>2. this \cap last \in SUBSET this
    OBVIOUS
  <2>3. Cardinality(this \cap last) \in Nat
    BY <1>3, <2>2, FS_Subset, FS_CardinalityType
  <2>4. Cardinality(this \cup last) \in Nat
    BY <2>1, FS_CardinalityType
  <2> QED BY <1>3, <2>1, <2>3, <2>4
<1>5. Cardinality(Recent(s)) <= Cardinality(this \cup last) /\ Cardinality(Recent(s)) \in Nat
  BY <1>1, <1>4, FS_Subset, FS_CardinalityType
<1> QED BY <1>0, <1>3, <1>4, <1>5

LEMMA RememberedIsQuota ==
  ASSUME TypeOK, Remembered, Quota, limiter = "memory", NEW s \in Subjects
  PROVE  Cardinality(Recent(s)) <= MaxRequests + PoolSize - 1
<1>1. /\ admitted[s] \in Seq(Times) /\ buckets[s] \in Seq(Times) /\ now \in Nat
      /\ Follows(admitted[s], buckets[s], now) /\ Measured(s) \in SUBSET Requests
  BY LimitFacts DEF TypeOK, Remembered, Measured
<1>2. Cardinality({i \in 1..Len(admitted[s]) : now - admitted[s][i] < Window}) <= Len(buckets[s])
  BY <1>1, RecentAreInBucket
<1>3. Cardinality(Recent(s)) <= Len(buckets[s])
  BY <1>2, RecentIs
<1>4. Cardinality(Recent(s)) \in Nat
  <2>1. Recent(s) \in SUBSET (1..Len(admitted[s])) /\ 1 \in Int /\ Len(admitted[s]) \in Int
    BY <1>1, RecentIs, LenProperties
  <2>2. IsFiniteSet(1..Len(admitted[s]))
    BY <2>1, FS_Interval
  <2> QED BY <2>1, <2>2, FS_Subset, FS_CardinalityType
<1>5. Len(buckets[s]) \in Nat /\ Cardinality(Measured(s)) \in Nat
  BY <1>1, LenProperties, HoldingFinite
<1>6. Len(buckets[s]) + Cardinality(Measured(s)) <= MaxRequests - 1 + PoolSize
  BY DEF Quota
<1> QED BY <1>3, <1>4, <1>5, <1>6, LimitFacts

LEMMA InitQuota == Init => Past /\ Remembered /\ PoolHolds /\ Quota /\ Counted
<1> SUFFICES ASSUME Init PROVE Past /\ Remembered /\ PoolHolds /\ Quota /\ Counted
  OBVIOUS
<1>0. PoolHolds
  <2>1. InPool = {}
    BY DEF Init, InPool, Idle
  <2> QED BY <2>1, FS_EmptySet, LimitFacts DEF PoolHolds
<1>1. \A s \in Subjects : admitted[s] = <<>> /\ buckets[s] = <<>> /\ Len(admitted[s]) = 0
  BY DEF Init
<1>2. Past /\ Remembered
  <2>1. \A s \in Subjects : 1..Len(admitted[s]) = {}
    BY <1>1
  <2> QED BY <2>1 DEF Past, Remembered, Follows
<1>3. ASSUME NEW s \in Subjects
      PROVE  Len(buckets[s]) + Cardinality(Measured(s)) <= MaxRequests - 1 + PoolSize
  <2>1. Measured(s) = {}
    BY DEF Init, Measured, Appending, Idle
  <2>2. Cardinality(Measured(s)) = 0 /\ Len(buckets[s]) = 0
    BY <1>1, <2>1, FS_EmptySet
  <2> QED BY <2>2, LimitFacts
<1>4. ASSUME NEW s \in Subjects, NEW w \in Times
      PROVE  /\ Cardinality(InWindow(admitted[s], now, w)) <= counters[<<s, w>>]
             /\ Cardinality(InWindow(admitted[s], now, w)) <= MaxRequests
  <2>1. InWindow(admitted[s], now, w) = {}
    BY <1>1 DEF InWindow
  <2>2. Cardinality(InWindow(admitted[s], now, w)) = 0 /\ counters[<<s, w>>] = 0
    BY <2>1, FS_EmptySet DEF Init
  <2> QED BY <2>2, LimitFacts
<1> QED BY <1>0, <1>2, <1>3, <1>4 DEF Quota, Counted

\* In no window does the in-memory limiter let a subject through more often than configured,
\* but for one request per other thread of the pool, and the one in Redis more than twice as
\* often (allow).
THEOREM QuotaIsKept == Spec => []QuotaHolds
<1> DEFINE Kept == TypeInv /\ Past /\ Remembered /\ PoolHolds /\ Quota /\ Counted
<1>1. Init => Kept
  BY InitTypeInv, InitQuota
<1>2. Kept /\ [Next]_vars => Kept'
  BY NextTypeInv, NextPast, NextRemembered, NextPool, NextQuota, NextCounted
<1>3. Kept => QuotaHolds
  <2> SUFFICES ASSUME Kept, NEW s \in Subjects
               PROVE  Cardinality(Recent(s)) <= IF limiter = "memory" THEN MaxRequests + PoolSize - 1
                                                ELSE 2 * MaxRequests
    BY DEF QuotaHolds
  <2>1. TypeOK /\ limiter \in {"memory", "redis"}
    BY ModesAssumption DEF TypeInv, TypeOK
  <2> QED BY <2>1, RememberedIsQuota, CountedIsQuota
<1> QED BY <1>1, <1>2, <1>3, PTL DEF Spec
=============================================================================
