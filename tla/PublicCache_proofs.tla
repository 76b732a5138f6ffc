-------------------------- MODULE PublicCache_proofs --------------------------
(***************************************************************************)
(* Theorems about PublicCache for any number of writers, clients and       *)
(* writes.                                                                 *)
(***************************************************************************)
EXTENDS PublicCache, FiniteSetTheorems, TLAPS

-----------------------------------------------------------------------------
(* Type correctness *)

LEMMA InitTypeOK == Init => TypeOK
BY BoundsAssumption DEF Init, TypeOK, Requests, Entries, Answers, Version,
   EntryFormats, NotShipping, NoRequest, NoEntry, AllFormats

LEMMA NextTypeOK == TypeOK /\ [Next]_vars => TypeOK'
<1> SUFFICES ASSUME TypeOK, [Next]_vars PROVE TypeOK'
  OBVIOUS
<1> USE BoundsAssumption, KindsAssumption, FormatsAssumption
        DEF TypeOK, Requests, Entries, Answers, Version, EntryFormats,
            AllFormats, AllKinds
<1>1. ASSUME NEW w \in Writers, BulkApply(w) PROVE TypeOK'
  BY <1>1 DEF BulkApply
<1>2. ASSUME NEW w \in Writers, BulkReject(w) PROVE TypeOK'
  BY <1>2 DEF BulkReject
<1>3. ASSUME NEW w \in Writers, BulkReturn(w) PROVE TypeOK'
  BY <1>3 DEF BulkReturn, NotShipping, Max2, BumpsEpoch
<1>4. CASE Refresh
  BY <1>4 DEF Refresh
<1>5. CASE SwitchBackend
  BY <1>5 DEF SwitchBackend
<1>6. CASE Restart
  BY <1>6 DEF Restart, NotShipping, NoRequest
<1>7. ASSUME NEW c \in Clients, NEW k \in Kinds, NEW f \in Formats, NotModified(c, k, f)
      PROVE  TypeOK'
  <2>1. answer' \in [Clients -> Answers]
    BY <1>7 DEF NotModified, Served
  <2> QED BY <1>7, <2>1 DEF NotModified
<1>8. ASSUME NEW c \in Clients, NEW k \in Kinds, NEW f \in Formats, Ask(c, k, f)
      PROVE  TypeOK'
  BY <1>8 DEF Ask
<1>9. ASSUME NEW c \in Clients, Fetch(c) PROVE TypeOK'
  <2>1. Visible(req[c].kind) \in Version
    <3>1. committed \in Version /\ searchable \in 0 .. committed
      OBVIOUS
    <3> QED BY ONLY <3>1, BoundsAssumption DEF Visible, Version
  <2> DEFINE r == [req[c] EXCEPT !.state = "fetched", !.version = Visible(req[c].kind)]
  <2>2. req[c] \in Requests /\ req \in [Clients -> Requests]
    OBVIOUS
  <2>3. r \in Requests
    BY ONLY <2>1, <2>2 DEF Requests
  <2>4. req' = [req EXCEPT ![c] = r]
    BY ONLY <1>9, <2>2 DEF Fetch, Requests
  <2>5. req' \in [Clients -> Requests]
    BY ONLY <2>2, <2>3, <2>4
  <2> QED BY <1>9, <2>5 DEF Fetch
<1>10. ASSUME NEW c \in Clients, Reply(c) PROVE TypeOK'
  <2> DEFINE e == Stored(req[c])
  <2>1. req[c] \in Requests
    OBVIOUS
  <2>2. e \in Entries
    BY <2>1 DEF Stored, EtagFormat, Served
  <2>3. cache' = [cache EXCEPT ![c][req[c].kind] = e]
    BY <1>10 DEF Reply
  <2>4. cache \in [Clients -> [Kinds -> Entries]]
    OBVIOUS
  <2>5. cache' \in [Clients -> [Kinds -> Entries]]
    <3> HIDE DEF Entries, e, TypeOK
    <3> QED BY <2>2, <2>3, <2>4
  <2>6. answer' \in [Clients -> Answers]
    BY <1>10, <2>1 DEF Reply, Served
  <2>7. req' \in [Clients -> Requests]
    BY <1>10 DEF Reply, NoRequest
  <2> QED BY <1>10, <2>5, <2>6, <2>7 DEF Reply
<1>11. ASSUME NEW c \in Clients, FetchFails(c) PROVE TypeOK'
  BY <1>11 DEF FetchFails, NoRequest
<1>12. CASE UNCHANGED vars
  BY <1>12 DEF vars
<1> QED
  BY <1>1, <1>2, <1>3, <1>4, <1>5, <1>6, <1>7, <1>8, <1>9, <1>10, <1>11, <1>12
     DEF Next, Poll

\* The variables of the cache protocol keep their types, whatever the bounds.
THEOREM TypeCorrect == Spec => []TypeOK
BY InitTypeOK, NextTypeOK, PTL DEF Spec
-----------------------------------------------------------------------------
(* The epoch counts applied writes *)

LEMMA UnbumpedFinite == IsFiniteSet(Unbumped) /\ Cardinality(Unbumped) \in Nat
BY WritersAssumption, FS_Subset, FS_CardinalityType DEF Unbumped

LEMMA UnbumpedFiniteNext == IsFiniteSet(Unbumped') /\ Cardinality(Unbumped') \in Nat
BY WritersAssumption, FS_Subset, FS_CardinalityType DEF Unbumped

LEMMA NextEpochIsEarned == TypeOK /\ EpochIsEarned /\ [Next]_vars => EpochIsEarned'
<1> SUFFICES ASSUME TypeOK, EpochIsEarned, [Next]_vars PROVE EpochIsEarned'
  OBVIOUS
<1> DEFINE n == Cardinality(Unbumped)
           m == Cardinality(Unbumped')
<1>1. /\ epoch \in Nat /\ committed \in Nat /\ ship \in [Writers ->
            [state: {"idle", "some", "none", "lost"}, version: 0 .. committed]]
      /\ n \in Nat /\ m \in Nat /\ epoch + n <= committed
  BY UnbumpedFinite, UnbumpedFiniteNext, BoundsAssumption DEF TypeOK, Version, EpochIsEarned
<1>2. ASSUME NEW w \in Writers, BulkApply(w) PROVE EpochIsEarned'
  <2>1. Unbumped' = Unbumped \cup {w} \/ Unbumped' = Unbumped
    BY <1>1, <1>2 DEF BulkApply, Unbumped
  <2>2. Cardinality(Unbumped \cup {w}) = IF w \in Unbumped THEN n ELSE n + 1
    BY UnbumpedFinite, FS_AddElement
  <2>3. m <= n + 1
    <3>1. n \in Nat /\ m \in Nat
      BY <1>1
    <3>2. m = Cardinality(Unbumped \cup {w}) \/ m = n
      BY <2>1
    <3> QED BY ONLY <2>2, <3>1, <3>2
  <2> QED BY <1>1, <1>2, <2>3 DEF BulkApply, EpochIsEarned
<1>3. ASSUME NEW w \in Writers, BulkReject(w) PROVE EpochIsEarned'
  <2>1. Unbumped' = Unbumped
    BY <1>1, <1>3 DEF BulkReject, Unbumped
  <2> QED BY <1>1, <1>3, <2>1 DEF BulkReject, EpochIsEarned
<1>4. ASSUME NEW w \in Writers, BulkReturn(w) PROVE EpochIsEarned'
  <2>1. Unbumped' = Unbumped \ {w}
    BY <1>1, <1>4 DEF BulkReturn, Unbumped, NotShipping
  <2>2. CASE w \in Unbumped
    <3>1. m = n - 1
      BY <2>1, <2>2, UnbumpedFinite, FS_RemoveElement
    <3>2. epoch' <= epoch + 1 /\ epoch' \in Nat /\ committed' = committed
      BY <1>1, <1>4 DEF BulkReturn
    <3> QED BY <1>1, <3>1, <3>2 DEF EpochIsEarned
  <2>3. CASE w \notin Unbumped
    <3>1. epoch' = epoch /\ committed' = committed
      BY <1>4, <2>3 DEF BulkReturn, BumpsEpoch, Unbumped
    <3>2. m = n
      BY <2>1, <2>3
    <3> QED BY <1>1, <3>1, <3>2 DEF EpochIsEarned
  <2> QED BY <2>2, <2>3
<1>5. CASE SwitchBackend
  BY <1>1, <1>5 DEF SwitchBackend, EpochIsEarned, Unbumped
<1>6. CASE Restart
  <2>1. Unbumped' = {}
    BY <1>6 DEF Restart, Unbumped, NotShipping
  <2> QED BY <1>1, <1>6, <2>1, FS_EmptySet DEF Restart, EpochIsEarned
<1>7. ASSUME UNCHANGED <<epoch, committed, ship>> PROVE EpochIsEarned'
  BY <1>1, <1>7 DEF EpochIsEarned, Unbumped
<1>8. ASSUME Refresh \/ UNCHANGED vars \/ \E c \in Clients : Poll(c) \/ Fetch(c)
                \/ Reply(c) \/ FetchFails(c)
      PROVE  UNCHANGED <<epoch, committed, ship>>
  BY <1>8 DEF Refresh, vars, Poll, NotModified, Ask, Fetch, Reply, FetchFails
<1> QED
  BY <1>2, <1>3, <1>4, <1>5, <1>6, <1>7, <1>8 DEF Next

\* Each bump of _index_epoch is paid for by a write the backend applied.
THEOREM EpochCountsWrites == Spec => []EpochIsEarned
<1>1. Init => EpochIsEarned
  <2>1. ASSUME Init PROVE Unbumped = {}
    BY <2>1 DEF Init, Unbumped, NotShipping
  <2> QED BY <2>1, FS_EmptySet DEF Init, EpochIsEarned
<1> QED
  BY <1>1, NextEpochIsEarned, TypeCorrect, PTL DEF Spec

-----------------------------------------------------------------------------
(* Answers are never older than the acknowledged writes *)

RegularInv == FreshIfCurrent /\ ReadsAreRegular

LEMMA InitRegularInv == Init => RegularInv
BY DEF Init, RegularInv, FreshIfCurrent, ReadsAreRegular, NoRequest, NoEntry

LEMMA NextRegularInv ==
  ASSUME OnlyIngestWrites, Kinds \subseteq {"record"},
         TypeOK, RegularInv, [Next]_vars
  PROVE  RegularInv'
<1> USE DEF RegularInv, FreshIfCurrent, ReadsAreRegular
<1>t. /\ committed \in Nat /\ acked \in Nat /\ acked <= committed /\ epoch \in Nat
      /\ req \in [Clients -> Requests]
      /\ cache \in [Clients -> [Kinds -> Entries]]
      /\ answer \in [Clients -> Answers]
  BY BoundsAssumption DEF TypeOK, Version
<1> USE DEF Requests, Entries, Answers, Version
<1>1. ASSUME NEW w \in Writers, BulkApply(w) \/ BulkReject(w) PROVE RegularInv'
  BY <1>t, <1>1 DEF BulkApply, BulkReject
<1>2. ASSUME NEW w \in Writers, BulkReturn(w) PROVE RegularInv'
  <2>1. w \in Ingesters
    BY DEF OnlyIngestWrites, Writers
  <2>2. ship[w].version \in Nat
    BY DEF TypeOK
  <2>3. /\ acked' \in Nat /\ acked' >= acked
        /\ \/ epoch' = epoch + 1
           \/ epoch' = epoch /\ acked' = acked
        /\ req' = req /\ cache' = cache /\ answer' = answer /\ committed' = committed
    BY <1>t, <1>2, <2>1, <2>2 DEF BulkReturn, BumpsEpoch, Max2
  <2>4. ASSUME NEW c \in Clients, NEW k \in Kinds
        PROVE  cache[c][k].epoch \in Int /\ cache[c][k].version \in Int
    <3>1. cache[c][k] \in Entries
      BY <1>t
    <3> QED BY ONLY <3>1, BoundsAssumption DEF Entries, Version
  <2>5. ASSUME NEW c \in Clients, NEW k \in Kinds
        PROVE  /\ cache'[c][k].epoch <= epoch' /\ cache'[c][k].version <= committed'
               /\ cache'[c][k].epoch = epoch' => cache'[c][k].version >= acked'
    BY <1>t, <2>3, <2>4
  <2>6. ASSUME NEW c \in Clients
        PROVE  /\ req'[c].epoch <= epoch' /\ req'[c].version <= committed'
               /\ req'[c].state # "idle" =>
                    req'[c].kind \in Kinds /\ req'[c].floor <= acked'
               /\ req'[c].state = "fetched" =>
                    /\ req'[c].version >= req'[c].floor
                    /\ req'[c].epoch = epoch' => req'[c].version >= acked'
    <3>1. /\ req[c].epoch \in Int /\ req[c].version \in Int
          /\ req[c].floor \in Int
      <4>1. req[c] \in Requests
        BY <1>t
      <4> QED BY ONLY <4>1, BoundsAssumption DEF Requests, Version
    <3> QED BY <1>t, <2>3, <3>1
  <2> QED BY <2>3, <2>5, <2>6
<1>3. CASE Refresh
  BY <1>t, <1>3 DEF Refresh
<1>4. ~SwitchBackend /\ ~Restart
  BY DEF SwitchBackend, Restart, OnlyIngestWrites, TypeOK
<1>5. ASSUME NEW c \in Clients, NEW k \in Kinds, NEW f \in Formats, NotModified(c, k, f)
      PROVE  RegularInv'
  <2>1. cache[c][k].version >= acked
    BY <1>5 DEF NotModified, EtagMatches
  <2>2. ReadsAreRegular'
    BY <1>t, <1>5, <2>1 DEF NotModified
  <2> QED BY <1>t, <1>5, <2>2 DEF NotModified
<1>6. ASSUME NEW c \in Clients, NEW k \in Kinds, NEW f \in Formats, Ask(c, k, f)
      PROVE  RegularInv'
  BY <1>t, <1>6 DEF Ask
<1>7. ASSUME NEW c \in Clients, Fetch(c) PROVE RegularInv'
  <2>1. req[c].kind = "record"
    BY <1>t, <1>7 DEF Fetch
  <2> QED BY <1>t, <1>7, <2>1 DEF Fetch, Visible
<1>8. ASSUME NEW c \in Clients, Reply(c) PROVE RegularInv'
  BY <1>t, <1>8 DEF Reply, Stored, NoRequest
<1>9. ASSUME NEW c \in Clients, FetchFails(c) PROVE RegularInv'
  BY <1>t, <1>9 DEF FetchFails, NoRequest
<1>10. CASE UNCHANGED vars
  BY <1>10 DEF vars
<1> QED
  BY <1>1, <1>2, <1>3, <1>4, <1>5, <1>6, <1>7, <1>8, <1>9, <1>10 DEF Next, Poll

\* On the record endpoint, when every write goes through Container.ingest, no
\* answer is older than what its caller could already know to be indexed.
THEOREM RecordReadsAreRegular ==
  ASSUME OnlyIngestWrites, Kinds \subseteq {"record"}
  PROVE  Spec => []ReadsAreRegular
<1>1. RegularInv => ReadsAreRegular
  BY DEF RegularInv
<1> QED
  BY <1>1, InitRegularInv, NextRegularInv, TypeCorrect, PTL DEF Spec

-----------------------------------------------------------------------------
(* When the writes have come back, a copy that 304 would keep is current *)

SettledInv == FreshIfCurrent /\ ReadsAreRegular /\ LagIsInFlight

LEMMA NextLagIsInFlight ==
  ASSUME OnlyIngestWrites, Kinds \subseteq {"record"}, LosesReplies = FALSE,
         TypeOK, FreshIfCurrent, LagIsInFlight, [Next]_vars
  PROVE  LagIsInFlight'
<1>t. /\ committed \in Nat /\ epoch \in Nat
      /\ req \in [Clients -> Requests]
      /\ cache \in [Clients -> [Kinds -> Entries]]
  BY BoundsAssumption DEF TypeOK, Version
<1>s. ship \in [Writers -> [state: {"idle", "some", "none", "lost"}, version: 0 .. committed]]
  BY DEF TypeOK
<1>u. /\ \A c \in Clients, k \in Kinds : cache[c][k].epoch \in Int /\ cache[c][k].version \in Int
      /\ \A c \in Clients : req[c].epoch \in Int /\ req[c].version \in Int
  <2>1. \A c \in Clients, k \in Kinds : cache[c][k] \in Entries
    BY <1>t
  <2>2. \A c \in Clients : req[c] \in Requests
    BY <1>t
  <2> QED BY ONLY <2>1, <2>2, BoundsAssumption DEF Entries, Requests, Version
\* Steps that leave writers, contents and epoch alone keep what InFlight says.
<1>k. ASSUME ship' = ship, committed' = committed, epoch' = epoch
      PROVE  \A x : InFlight(x)' <=> InFlight(x)
  BY <1>k DEF InFlight
<1>1. ASSUME NEW w \in Writers, BulkApply(w) PROVE LagIsInFlight'
  <2>1. /\ committed' = committed + 1 /\ epoch' = epoch /\ req' = req /\ cache' = cache
        /\ ship[w].state = "idle"
        /\ ship' = [ship EXCEPT ![w] = [state |-> "some", version |-> committed + 1]]
    BY <1>1 DEF BulkApply
  <2>2. \A x : x = committed + 1 => InFlight(x)'
    <3>1. ship'[w].state = "some" /\ ship'[w].version = committed + 1
      BY <1>s, <2>1
    <3> QED BY <3>1 DEF InFlight
  <2>3. ASSUME NEW x, InFlight(x) PROVE InFlight(x)'
    <3>1. PICK v \in Writers : ship[v].state = "some" /\ ship[v].version = x
      BY <2>3 DEF InFlight
    <3>2. v # w
      BY <2>1, <3>1
    <3>3. ship'[v] = ship[v]
      BY <1>s, <2>1, <3>2
    <3> QED BY <3>1, <3>3 DEF InFlight
  <2>4. ASSUME NEW n \in Int, \A x \in (n + 1) .. committed : InFlight(x),
               NEW x \in (n + 1) .. committed'
        PROVE  InFlight(x)'
    <3>1. x = committed + 1 \/ x \in (n + 1) .. committed
      <4>1. x \in (n + 1) .. (committed + 1)
        BY <2>1, <2>4
      <4> QED BY ONLY <1>t, <4>1, n \in Int
    <3> QED BY <2>2, <2>3, <2>4, <3>1
  <2> QED BY <1>u, <2>1, <2>4 DEF LagIsInFlight
<1>2. ASSUME NEW w \in Writers, BulkReject(w) PROVE LagIsInFlight'
  <2>1. ASSUME NEW x, InFlight(x) PROVE InFlight(x)'
    <3>1. PICK v \in Writers : ship[v].state = "some" /\ ship[v].version = x
      BY <2>1 DEF InFlight
    <3>2. ship'[v] = ship[v]
      BY <1>s, <1>2, <3>1 DEF BulkReject
    <3> QED BY <3>1, <3>2 DEF InFlight
  <2>2. committed' = committed /\ epoch' = epoch /\ req' = req /\ cache' = cache
    BY <1>2 DEF BulkReject
  <2> QED BY <2>1, <2>2 DEF LagIsInFlight
<1>3. ASSUME NEW w \in Writers, BulkReturn(w) PROVE LagIsInFlight'
  <2>1. w \in Ingesters
    BY DEF OnlyIngestWrites, Writers
  <2>2. CASE ship[w].state = "some"
    <3>1. epoch' = epoch + 1 /\ req' = req /\ cache' = cache
      BY <1>3, <2>1, <2>2 DEF BulkReturn, BumpsEpoch
    <3>2. \A c \in Clients : req[c].epoch # epoch' /\ \A k \in Kinds : cache[c][k].epoch # epoch'
      BY <1>t, <1>u, <3>1 DEF FreshIfCurrent
    <3> QED BY <3>1, <3>2 DEF LagIsInFlight
  <2>3. CASE ship[w].state # "some"
    <3>1. committed' = committed /\ epoch' = epoch /\ req' = req /\ cache' = cache
      BY <1>3, <2>3 DEF BulkReturn, BumpsEpoch
    <3>2. ASSUME NEW x, InFlight(x) PROVE InFlight(x)'
      <4>1. PICK v \in Writers : ship[v].state = "some" /\ ship[v].version = x
        BY <3>2 DEF InFlight
      <4>2. ship'[v] = ship[v]
        BY <1>s, <1>3, <2>3, <4>1 DEF BulkReturn
      <4> QED BY <4>1, <4>2 DEF InFlight
    <3> QED BY <3>1, <3>2 DEF LagIsInFlight
  <2> QED BY <2>2, <2>3
<1>4. ~SwitchBackend /\ ~Restart
  BY DEF SwitchBackend, Restart, OnlyIngestWrites, TypeOK
<1>5. ASSUME NEW c \in Clients, NEW k \in Kinds, NEW f \in Formats, Ask(c, k, f)
      PROVE  LagIsInFlight'
  <2>1. /\ req' = [req EXCEPT ![c] = [state |-> "asked", kind |-> k, fmt |-> f,
                     epoch |-> epoch, floor |-> acked, version |-> 0]]
        /\ ship' = ship /\ committed' = committed /\ epoch' = epoch /\ cache' = cache
    BY <1>5 DEF Ask
  <2>2. \A d \in Clients : req'[d].state = "fetched" => req'[d] = req[d]
    BY <1>t, <2>1
  <2> QED BY <1>k, <2>1, <2>2 DEF LagIsInFlight
<1>6. ASSUME NEW c \in Clients, Fetch(c) PROVE LagIsInFlight'
  <2>1. req[c].kind = "record" /\ req[c].state = "asked"
    BY <1>6 DEF Fetch, FreshIfCurrent
  <2>2. /\ req' = [req EXCEPT ![c].state = "fetched", ![c].version = committed]
        /\ ship' = ship /\ committed' = committed /\ epoch' = epoch /\ cache' = cache
    BY <1>6, <2>1 DEF Fetch, Visible
  <2>3. \A d \in Clients : d # c => req'[d] = req[d]
    BY <1>t, <2>2
  <2>4. req'[c].version = committed
    BY <1>t, <2>2 DEF Requests
  <2>5. ASSUME NEW d \in Clients, req'[d].state = "fetched", req'[d].epoch = epoch',
               NEW x \in (req'[d].version + 1) .. committed'
        PROVE  InFlight(x)'
    <3>1. CASE d = c
      BY <1>t, <2>2, <2>4, <2>5, <3>1
    <3>2. CASE d # c
      BY <1>k, <2>2, <2>3, <2>5, <3>2 DEF LagIsInFlight
    <3> QED BY <3>1, <3>2
  <2> QED BY <1>k, <2>2, <2>5 DEF LagIsInFlight
<1>7. ASSUME NEW c \in Clients, Reply(c) PROVE LagIsInFlight'
  <2>1. /\ req[c].state = "fetched" /\ req[c].kind \in Kinds
        /\ cache' = [cache EXCEPT ![c][req[c].kind] = Stored(req[c])]
        /\ req' = [req EXCEPT ![c] = NoRequest]
        /\ ship' = ship /\ committed' = committed /\ epoch' = epoch
    BY <1>7 DEF Reply, FreshIfCurrent
  <2>2. \A d \in Clients : req'[d].state = "fetched" => req'[d] = req[d]
    BY <1>t, <2>1 DEF NoRequest
  <2>3. ASSUME NEW d \in Clients, NEW k \in Kinds
        PROVE  \/ cache'[d][k] = cache[d][k]
               \/ /\ cache'[d][k].epoch = req[c].epoch
                  /\ cache'[d][k].version = req[c].version
    BY <1>t, <2>1 DEF Stored
  <2> QED BY <1>k, <2>1, <2>2, <2>3 DEF LagIsInFlight
<1>8. ASSUME NEW c \in Clients, FetchFails(c) PROVE LagIsInFlight'
  <2>1. /\ req' = [req EXCEPT ![c] = NoRequest]
        /\ ship' = ship /\ committed' = committed /\ epoch' = epoch /\ cache' = cache
    BY <1>8 DEF FetchFails
  <2>2. \A d \in Clients : req'[d].state = "fetched" => req'[d] = req[d]
    BY <1>t, <2>1 DEF NoRequest
  <2> QED BY <1>k, <2>1, <2>2 DEF LagIsInFlight
<1>9. ASSUME \/ Refresh \/ UNCHANGED vars
             \/ \E c \in Clients, k \in Kinds, f \in Formats : NotModified(c, k, f)
      PROVE  LagIsInFlight'
  <2>1. ship' = ship /\ committed' = committed /\ epoch' = epoch /\ cache' = cache /\ req' = req
    BY <1>9 DEF Refresh, vars, NotModified
  <2> QED BY <1>k, <2>1 DEF LagIsInFlight
<1> QED
  BY <1>1, <1>2, <1>3, <1>4, <1>5, <1>6, <1>7, <1>8, <1>9 DEF Next, Poll

\* On the record endpoint, when every write goes through Container.ingest and
\* replies are not lost, an idle server never lets a 304 keep an old copy alive.
THEOREM SettledRecordsAreCurrent ==
  ASSUME OnlyIngestWrites, Kinds \subseteq {"record"}, LosesReplies = FALSE
  PROVE  Spec => []SettledCacheIsCurrent
<1>1. Init => LagIsInFlight
  BY DEF Init, LagIsInFlight, NoRequest, NoEntry
<1>2. TypeOK /\ FreshIfCurrent /\ LagIsInFlight => SettledCacheIsCurrent
  <2> SUFFICES ASSUME TypeOK, FreshIfCurrent, LagIsInFlight, Settled, NEW c \in Clients, NEW k \in Kinds,
                      cache[c][k].epoch = epoch
               PROVE  cache[c][k].version = committed
    BY DEF SettledCacheIsCurrent
  <2>1. \A x : ~InFlight(x)
    BY DEF Settled, InFlight
  <2>2. cache[c][k].version \in 0 .. committed /\ committed \in Nat
    <3>1. cache[c][k] \in Entries /\ committed \in Version
      BY DEF TypeOK
    <3>2. cache[c][k].version <= committed
      BY DEF FreshIfCurrent
    <3> QED BY ONLY <3>1, <3>2, BoundsAssumption DEF Entries, Version
  <2>3. ASSUME cache[c][k].version # committed PROVE FALSE
    <3>1. committed \in (cache[c][k].version + 1) .. committed
      BY <2>2, <2>3
    <3>2. InFlight(committed)
      BY <3>1 DEF LagIsInFlight
    <3> QED BY <2>1, <3>2
  <2> QED BY <2>3
<1> QED
  BY <1>1, <1>2, InitRegularInv, NextRegularInv, NextLagIsInFlight, TypeCorrect, PTL
     DEF Spec, RegularInv

-----------------------------------------------------------------------------
(* The record endpoint implements a regular register *)

Pending == [c \in Clients |-> IF req[c].state = "idle" THEN -1 ELSE req[c].floor]
Got == [c \in Clients |-> [version |-> answer[c].version, due |-> answer[c].floor]]

LEMMA StepRefines ==
  ASSUME OnlyIngestWrites, Kinds \subseteq {"record"},
         TypeOK, RegularInv, [Next]_vars
  PROVE  [Abs!Next]_(Abs!vars)
<1>t. /\ committed \in Nat /\ acked \in Nat /\ acked <= committed /\ epoch \in Nat
      /\ req \in [Clients -> Requests]
      /\ cache \in [Clients -> [Kinds -> Entries]]
      /\ answer \in [Clients -> Answers]
      /\ ship \in [Writers -> [state: {"idle", "some", "none", "lost"},
                               version: 0 .. committed]]
  BY BoundsAssumption DEF TypeOK, Version
<1>u. /\ \A c \in Clients, k \in Kinds : cache[c][k].epoch \in Int /\ cache[c][k].version \in Nat
      /\ \A c \in Clients : req[c].floor \in Nat /\ req[c].version \in Nat
  <2>1. /\ \A c \in Clients, k \in Kinds : cache[c][k] \in Entries
        /\ \A c \in Clients : req[c] \in Requests
    BY <1>t
  <2> QED BY ONLY <2>1, BoundsAssumption DEF Entries, Requests, Version
<1>1. ASSUME NEW w \in Writers, BulkApply(w) PROVE Abs!Next
  <2>1. committed' = committed + 1 /\ acked' = acked /\ req' = req /\ answer' = answer
    BY <1>1 DEF BulkApply
  <2> QED BY <2>1 DEF Abs!Next, Abs!Publish
<1>2. ASSUME NEW w \in Writers, BulkReturn(w) PROVE Abs!Next
  <2>1. committed' = committed /\ req' = req /\ answer' = answer
    BY <1>2 DEF BulkReturn
  <2>2. acked' \in acked .. committed
    BY <1>t, <1>2 DEF BulkReturn, Max2
  <2> QED BY <2>1, <2>2 DEF Abs!Next, Abs!Acknowledge
<1>3. ASSUME NEW w \in Writers, BulkReject(w) PROVE UNCHANGED Abs!vars
  BY <1>3 DEF BulkReject, Abs!vars
<1>4. CASE Refresh
  BY <1>4 DEF Refresh, Abs!vars
<1>5. ~SwitchBackend /\ ~Restart
  BY DEF SwitchBackend, Restart, OnlyIngestWrites, TypeOK
<1>6. ASSUME NEW c \in Clients, NEW k \in Kinds, NEW f \in Formats, NotModified(c, k, f)
      PROVE  Abs!Next
  <2>1. committed' = committed /\ acked' = acked /\ req' = req /\ req[c].state = "idle"
    BY <1>6 DEF NotModified
  <2>2. Pending[c] = -1
    BY <2>1 DEF Pending
  <2>3. cache[c][k].version \in acked .. committed
    BY <1>t, <1>u, <1>6 DEF NotModified, EtagMatches, RegularInv, FreshIfCurrent
  <2>4. Got' = [Got EXCEPT ![c] = [version |-> cache[c][k].version, due |-> acked]]
    BY <1>t, <1>6 DEF NotModified, Got
  <2>5. Abs!AnswerAtOnce(c)
    BY <2>1, <2>2, <2>3, <2>4 DEF Abs!AnswerAtOnce, Abs!Idle, Pending, Got
  <2> QED BY <2>5 DEF Abs!Next
<1>7. ASSUME NEW c \in Clients, NEW k \in Kinds, NEW f \in Formats, Ask(c, k, f)
      PROVE  Abs!Next
  <2>1. committed' = committed /\ acked' = acked /\ answer' = answer /\ req[c].state = "idle"
    BY <1>7 DEF Ask
  <2>2. Pending' = [Pending EXCEPT ![c] = acked]
    BY <1>t, <1>7 DEF Ask, Pending
  <2>3. Abs!Begin(c)
    BY <2>1, <2>2 DEF Abs!Begin, Abs!Idle, Pending
  <2> QED BY <2>3 DEF Abs!Next
<1>8. ASSUME NEW c \in Clients, Fetch(c) PROVE UNCHANGED Abs!vars
  <2>1. committed' = committed /\ acked' = acked /\ answer' = answer
    BY <1>8 DEF Fetch
  <2>2. Pending' = Pending
    BY <1>t, <1>8 DEF Fetch, Pending, Requests
  <2> QED BY <2>1, <2>2 DEF Abs!vars, Pending
<1>9. ASSUME NEW c \in Clients, Reply(c) PROVE Abs!Next
  <2>1. committed' = committed /\ acked' = acked /\ req[c].state = "fetched"
    BY <1>9 DEF Reply
  <2>2. req[c].version \in req[c].floor .. committed
    BY <1>t, <1>u, <2>1 DEF RegularInv, FreshIfCurrent
  <2>3. Pending' = [Pending EXCEPT ![c] = -1] /\ Pending[c] = req[c].floor
    BY <1>t, <1>9, <2>1 DEF Reply, Pending, NoRequest
  <2>4. Got' = [Got EXCEPT ![c] = [version |-> req[c].version, due |-> req[c].floor]]
    BY <1>t, <1>9 DEF Reply, Got
  <2>5. Pending[c] # -1
    BY <1>u, <2>3
  <2>6. Abs!Answer(c)
    BY <2>1, <2>2, <2>3, <2>4, <2>5 DEF Abs!Answer, Abs!Idle, Pending, Got
  <2> QED BY <2>6 DEF Abs!Next
<1>10. ASSUME NEW c \in Clients, FetchFails(c) PROVE Abs!Next
  <2>1. committed' = committed /\ acked' = acked /\ answer' = answer /\ req[c].state = "asked"
    BY <1>10 DEF FetchFails
  <2>2. Pending' = [Pending EXCEPT ![c] = -1] /\ Pending[c] = req[c].floor
    BY <1>t, <1>10, <2>1 DEF FetchFails, Pending, NoRequest
  <2>4. Pending[c] # -1
    BY <1>u, <2>2
  <2>3. Abs!Abandon(c)
    BY <2>1, <2>2, <2>4 DEF Abs!Abandon, Abs!Idle, Pending
  <2> QED BY <2>3 DEF Abs!Next
<1>11. CASE UNCHANGED vars
  BY <1>11 DEF vars, Abs!vars
<1> QED
  BY <1>1, <1>2, <1>3, <1>4, <1>5, <1>6, <1>7, <1>8, <1>9, <1>10, <1>11 DEF Next, Poll

\* Under the same assumptions the endpoint implements the abstract register:
\* every step of handlers and ingesting threads is a step of RegularReads.
THEOREM RecordsImplementRegister ==
  ASSUME OnlyIngestWrites, Kinds \subseteq {"record"}
  PROVE  Spec => RegularRegister
<1>1. Init => Abs!Init
  BY DEF Init, Abs!Init, Abs!Idle, NoRequest
<1> QED
  BY <1>1, InitRegularInv, NextRegularInv, StepRefines, TypeCorrect, PTL
     DEF Spec, RegularRegister, Abs!Spec

-----------------------------------------------------------------------------
(* A 304 confirms a copy in the representation asked for *)

\* A copy is in the representation its ETag stands for, and a request is for an endpoint
\* and a format there are.
CopiesMatchTags ==
  /\ \A c \in Clients, k \in Kinds :
       cache[c][k].epoch >= 0 =>
         \A f \in Formats : cache[c][k].tagfmt = EtagFormat(k, f) => cache[c][k].fmt = Served(k, f)
  /\ \A c \in Clients :
       req[c].state # "idle" => req[c].kind \in Kinds /\ req[c].fmt \in Formats
NegotiationInv == CopiesMatchTags /\ NegotiationRespected

\* Where a record is served in one representation only, requests for which the ETag is the
\* same are served the same.
LEMMA TagsNameRepresentations ==
  ASSUME "record" \notin Kinds \/ "jsonld" \notin Formats,
         NEW k \in Kinds, NEW f \in Formats, NEW g \in Formats,
         EtagFormat(k, f) = EtagFormat(k, g)
  PROVE  Served(k, f) = Served(k, g)
BY DEF EtagFormat, Served

LEMMA InitNegotiationInv == Init => NegotiationInv
BY DEF Init, NegotiationInv, CopiesMatchTags, NegotiationRespected, NoRequest, NoEntry

LEMMA NextNegotiationInv ==
  ASSUME "record" \notin Kinds \/ "jsonld" \notin Formats,
         TypeOK, NegotiationInv, [Next]_vars
  PROVE  NegotiationInv'
<1> USE DEF NegotiationInv, CopiesMatchTags, NegotiationRespected
<1>t. /\ epoch \in Nat
      /\ req \in [Clients -> Requests]
      /\ cache \in [Clients -> [Kinds -> Entries]]
      /\ answer \in [Clients -> Answers]
  BY DEF TypeOK
<1>1. CASE UNCHANGED <<req, cache, answer>>
  BY <1>1
<1>2. CASE Restart
  BY <1>2 DEF Restart, NoRequest
<1>3. ASSUME NEW c \in Clients, NEW k \in Kinds, NEW f \in Formats, NotModified(c, k, f)
      PROVE  NegotiationInv'
  <2>1. cache[c][k].fmt = Served(k, f)
    BY <1>t, <1>3 DEF NotModified, EtagMatches
  <2>2. NegotiationRespected'
    BY <1>t, <1>3, <2>1 DEF NotModified
  <2> QED BY <1>3, <2>2 DEF NotModified
<1>4. ASSUME NEW c \in Clients, NEW k \in Kinds, NEW f \in Formats, Ask(c, k, f)
      PROVE  NegotiationInv'
  BY <1>t, <1>4 DEF Ask
<1>5. ASSUME NEW c \in Clients, Fetch(c) PROVE NegotiationInv'
  BY <1>t, <1>5 DEF Fetch, Requests
<1>6. ASSUME NEW c \in Clients, Reply(c) PROVE NegotiationInv'
  <2> DEFINE r == req[c]
  <2>1. r \in Requests /\ r.kind \in Kinds /\ r.fmt \in Formats
    BY <1>t, <1>6 DEF Reply
  <2>2. cache' = [cache EXCEPT ![c][r.kind] = Stored(r)] /\ req' = [req EXCEPT ![c] = NoRequest]
    BY <1>6 DEF Reply
  <2>3. Stored(r).tagfmt = EtagFormat(r.kind, r.fmt) /\ Stored(r).fmt = Served(r.kind, r.fmt)
    BY DEF Stored
  <2> HIDE DEF r
  <2>4. ASSUME NEW d \in Clients, NEW k \in Kinds, cache'[d][k].epoch >= 0,
               NEW f \in Formats, cache'[d][k].tagfmt = EtagFormat(k, f)
        PROVE  cache'[d][k].fmt = Served(k, f)
    <3>1. CASE d = c /\ k = r.kind
      <4>1. cache'[d][k] = Stored(r)
        BY ONLY <1>t, <2>1, <2>2, <3>1
      <4> QED BY <2>1, <2>3, <2>4, <3>1, <4>1, TagsNameRepresentations
    <3>2. CASE ~(d = c /\ k = r.kind)
      <4>1. cache'[d][k] = cache[d][k]
        BY ONLY <1>t, <2>1, <2>2, <3>2
      <4> QED BY <2>4, <4>1
    <3> QED BY <3>1, <3>2
  <2>5. NegotiationRespected'
    BY <1>t, <1>6 DEF Reply
  <2>6. ASSUME NEW d \in Clients, req'[d].state # "idle"
        PROVE  req'[d].kind \in Kinds /\ req'[d].fmt \in Formats
    BY <1>t, <2>2, <2>6 DEF NoRequest
  <2> QED BY <2>4, <2>5, <2>6
<1>7. ASSUME NEW c \in Clients, FetchFails(c) PROVE NegotiationInv'
  BY <1>t, <1>7 DEF FetchFails, NoRequest
<1>8. \/ UNCHANGED <<req, cache, answer>>
      \/ Restart
      \/ \E c \in Clients : Fetch(c) \/ Reply(c) \/ FetchFails(c)
      \/ \E c \in Clients, k \in Kinds, f \in Formats : NotModified(c, k, f) \/ Ask(c, k, f)
  BY DEF Next, vars, Poll, BulkApply, BulkReject, BulkReturn, Refresh, SwitchBackend
<1> QED BY <1>1, <1>2, <1>3, <1>4, <1>5, <1>6, <1>7, <1>8

\* Wherever JSON-LD records are not negotiated, a client told 304 goes on with a copy in the
\* representation it asked for, across restarts, reloads and raw writes
\* (public_api/routes.py, search: the ETag names the format).
THEOREM NegotiationIsRespected ==
  ASSUME "record" \notin Kinds \/ "jsonld" \notin Formats
  PROVE  Spec => []NegotiationRespected
<1>1. NegotiationInv => NegotiationRespected
  BY DEF NegotiationInv
<1> QED
  BY <1>1, InitNegotiationInv, NextNegotiationInv, TypeCorrect, PTL DEF Spec
=============================================================================
