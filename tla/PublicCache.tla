----------------------------- MODULE PublicCache -----------------------------
(***************************************************************************)
(* ETag revalidation of the public read endpoints against the writes that  *)
(* change the search index.                                                *)
(*                                                                         *)
(* Container.ingest ships a batch to the backend and then bumps the        *)
(* in-process counter _index_epoch; every public ETag ends in that         *)
(* counter.  A request handler computes its ETag before it calls the       *)
(* backend, answers 304 when If-None-Match holds that ETag, and otherwise  *)
(* answers 200 with whatever the backend returns.                          *)
(*                                                                         *)
(* Contents of the index are abstracted to a version number: each bulk     *)
(* write the backend applies makes a new version.  max-age, during which a *)
(* client does not ask at all, is left out: it only delays requests.       *)
(***************************************************************************)
EXTENDS Integers, FiniteSets

CONSTANTS
  Ingesters,     \* threads that write through Container.ingest (REST run, scheduler)
  RawIngesters,  \* threads that call adapter.bulk_index directly (admin UI "Run now")
  Clients,       \* HTTP clients that keep a cache keyed by URL
  Kinds,         \* the endpoints in use, a subset of AllKinds
  Formats,       \* the representations asked for, a subset of AllFormats
  LosesReplies,  \* TRUE when the reply to an applied bulk write may be lost for good
  MaxVersion,    \* bound: writes the backend applies
  MaxRestarts,   \* bound: restarts of the API process
  MaxSwitches    \* bound: configuration reloads that point at another index

AllKinds == {"search", "facets", "record"}
AllFormats == {"json", "jsonld", "csv"}
Writers == Ingesters \cup RawIngesters

ASSUME WritersAssumption == IsFiniteSet(Writers)
ASSUME KindsAssumption == Kinds \subseteq AllKinds
ASSUME FormatsAssumption == Formats \subseteq AllFormats
ASSUME RepliesAssumption == LosesReplies \in BOOLEAN
ASSUME BoundsAssumption ==
  MaxVersion \in Nat /\ MaxRestarts \in Nat /\ MaxSwitches \in Nat

VARIABLES
  committed,   \* version of the index contents
  searchable,  \* version _search sees: the backend refreshes in the background
  epoch,       \* Container._index_epoch
  ship,        \* writer -> its bulk_index call
  req,         \* client -> its open request
  cache,       \* client -> endpoint -> the response it stored
  acked,       \* history: highest version a caller was told is indexed
  answer,      \* history: client -> the last answer it was given
  restarts,
  switches

vars == <<committed, searchable, epoch, ship, req, cache, acked, answer,
          restarts, switches>>

Max2(a, b) == IF a > b THEN a ELSE b

NotShipping == [state |-> "idle", version |-> 0]
NoRequest == [state |-> "idle", kind |-> "none", fmt |-> "none",
              epoch |-> -1, floor |-> 0, version |-> 0]
NoEntry == [tagfmt |-> "none", epoch |-> -1, fmt |-> "none", version |-> 0]

\* Mutant: the search ETag forgets the representation.
EtagFormatMissing(k, f) == "any"

\* The part of the ETag that names the representation: search puts the format
\* in it, record and facets do not.
EtagFormat(k, f) == IF k = "search" THEN f ELSE "any"

\* The representation a 200 carries: facets are always JSON, a record is JSON
\* unless JSON-LD was negotiated, search has all three.
Served(k, f) ==
  IF k = "search" \/ (k = "record" /\ f = "jsonld") THEN f ELSE "json"

\* GET _doc/{id} is real-time, _search sees the last refresh.
Visible(k) == IF k = "record" THEN committed ELSE searchable

Init ==
  /\ committed = 0
  /\ searchable = 0
  /\ epoch = 0
  /\ ship = [w \in Writers |-> NotShipping]
  /\ req = [c \in Clients |-> NoRequest]
  /\ cache = [c \in Clients |-> [k \in Kinds |-> NoEntry]]
  /\ acked = 0
  /\ answer = [c \in Clients |-> [version |-> 0, floor |-> 0,
                                  want |-> "none", sent |-> "none"]]
  /\ restarts = 0
  /\ switches = 0

-----------------------------------------------------------------------------
(* Writers *)

\* The backend applies at least one document of the batch; the reply says so,
\* or is lost and every retry fails.
BulkApply(w) ==
  /\ ship[w].state = "idle"
  /\ committed < MaxVersion
  /\ committed' = committed + 1
  /\ \E s \in {"some"} \cup (IF LosesReplies THEN {"lost"} ELSE {}) :
       ship' = [ship EXCEPT ![w] = [state |-> s, version |-> committed + 1]]
  /\ UNCHANGED <<searchable, epoch, req, cache, acked, answer, restarts, switches>>

\* The backend rejects every document of the batch (ingested = 0).
BulkReject(w) ==
  /\ ship[w].state = "idle"
  /\ ship' = [ship EXCEPT ![w] = [state |-> "none", version |-> 0]]
  /\ UNCHANGED <<committed, searchable, epoch, req, cache, acked, answer,
                 restarts, switches>>

\* Mutants of the bump: whatever the backend reported, and never.
BumpsOnAnyReply(w) == w \in Ingesters /\ ship[w].state # "lost"
BumpsNever(w) == FALSE

\* Container.ingest bumps the epoch when ingested > 0; bulk_index on its own
\* does not.
BumpsEpoch(w) == w \in Ingesters /\ ship[w].state = "some"

\* The call comes back; the caller learns that its documents are indexed.  A lost
\* reply raises out of ingest before the bump.
BulkReturn(w) ==
  /\ ship[w].state # "idle"
  /\ ship' = [ship EXCEPT ![w] = NotShipping]
  /\ epoch' = IF BumpsEpoch(w) THEN epoch + 1 ELSE epoch
  /\ acked' = IF ship[w].state = "some" THEN Max2(acked, ship[w].version) ELSE acked
  /\ UNCHANGED <<committed, searchable, req, cache, answer, restarts, switches>>

\* Mutant: a refresh shows a write that is not applied yet.
RefreshTooFar ==
  /\ searchable # committed
  /\ searchable' = committed + 1
  /\ UNCHANGED <<committed, epoch, ship, req, cache, acked, answer, restarts, switches>>

\* The backend makes what is committed visible to _search.
Refresh ==
  /\ searchable # committed
  /\ searchable' = committed
  /\ UNCHANGED <<committed, epoch, ship, req, cache, acked, answer, restarts, switches>>

\* Container.reload with a configuration that names another index: what the
\* endpoints serve changes, the epoch survives.
SwitchBackend ==
  /\ switches < MaxSwitches
  /\ committed < MaxVersion
  /\ switches' = switches + 1
  /\ committed' = committed + 1
  /\ searchable' = committed + 1
  /\ acked' = committed + 1
  /\ UNCHANGED <<epoch, ship, req, cache, answer, restarts>>

\* The process is restarted: the counter is in memory, client caches are not.
Restart ==
  /\ restarts < MaxRestarts
  /\ restarts' = restarts + 1
  /\ epoch' = 0
  /\ ship' = [w \in Writers |-> NotShipping]
  /\ req' = [c \in Clients |-> NoRequest]
  /\ UNCHANGED <<committed, searchable, cache, acked, answer, switches>>

-----------------------------------------------------------------------------
(* Clients and request handlers *)

\* Mutant: the comparison ignores the epoch suffix.
EtagMatchesAnyEpoch(c, k, f) ==
  /\ cache[c][k].epoch >= 0
  /\ cache[c][k].tagfmt = EtagFormat(k, f)

\* _etag_matches: the stored ETag is the one the handler just computed.
EtagMatches(c, k, f) ==
  /\ cache[c][k].epoch = epoch
  /\ cache[c][k].tagfmt = EtagFormat(k, f)

\* The handler answers 304 and the client goes on using its copy.
NotModified(c, k, f) ==
  /\ req[c].state = "idle"
  /\ EtagMatches(c, k, f)
  /\ answer' = [answer EXCEPT ![c] =
       [version |-> cache[c][k].version, floor |-> acked,
        want |-> Served(k, f), sent |-> cache[c][k].fmt]]
  /\ UNCHANGED <<committed, searchable, epoch, ship, req, cache, acked,
                 restarts, switches>>

\* No match: the ETag is fixed here, the backend is called later.
Ask(c, k, f) ==
  /\ req[c].state = "idle"
  /\ ~EtagMatches(c, k, f)
  /\ req' = [req EXCEPT ![c] = [state |-> "asked", kind |-> k, fmt |-> f,
                                epoch |-> epoch, floor |-> acked, version |-> 0]]
  /\ UNCHANGED <<committed, searchable, epoch, ship, cache, acked, answer,
                 restarts, switches>>

\* The backend answers the search, facets or record call.
Fetch(c) ==
  /\ req[c].state = "asked"
  /\ req' = [req EXCEPT ![c].state = "fetched", ![c].version = Visible(req[c].kind)]
  /\ UNCHANGED <<committed, searchable, epoch, ship, cache, acked, answer,
                 restarts, switches>>

\* Mutant: the ETag is computed once the backend has answered.
StoredLateEtag(r) == [tagfmt |-> EtagFormat(r.kind, r.fmt), epoch |-> epoch,
                      fmt |-> Served(r.kind, r.fmt), version |-> r.version]

\* The 200, with the ETag computed before the backend call.
Stored(r) == [tagfmt |-> EtagFormat(r.kind, r.fmt), epoch |-> r.epoch,
              fmt |-> Served(r.kind, r.fmt), version |-> r.version]

\* The client receives the 200 and stores it under the URL.
Reply(c) ==
  LET r == req[c] IN
  /\ r.state = "fetched"
  /\ cache' = [cache EXCEPT ![c][r.kind] = Stored(r)]
  /\ answer' = [answer EXCEPT ![c] =
       [version |-> r.version, floor |-> r.floor,
        want |-> Served(r.kind, r.fmt), sent |-> Served(r.kind, r.fmt)]]
  /\ req' = [req EXCEPT ![c] = NoRequest]
  /\ UNCHANGED <<committed, searchable, epoch, ship, acked, restarts, switches>>

\* The backend call ends in an AppError (404, 502, 503): nothing is stored.
FetchFails(c) ==
  /\ req[c].state = "asked"
  /\ req' = [req EXCEPT ![c] = NoRequest]
  /\ UNCHANGED <<committed, searchable, epoch, ship, cache, acked, answer,
                 restarts, switches>>

Poll(c) == \E k \in Kinds, f \in Formats : NotModified(c, k, f) \/ Ask(c, k, f)

Next ==
  \/ \E w \in Writers : BulkApply(w) \/ BulkReject(w) \/ BulkReturn(w)
  \/ Refresh
  \/ SwitchBackend
  \/ Restart
  \/ \E c \in Clients : Poll(c) \/ Fetch(c) \/ Reply(c) \/ FetchFails(c)

Spec == Init /\ [][Next]_vars

\* A started call comes back (httpx timeouts and the retry deadline bound it),
\* a polling client asks again, and the backend does not fail for ever.
FairSpec ==
  /\ Spec
  /\ \A w \in Writers : WF_vars(BulkReturn(w))
  /\ \A c \in Clients : WF_vars(Poll(c)) /\ SF_vars(Fetch(c)) /\ WF_vars(Reply(c))
-----------------------------------------------------------------------------
(* Properties *)

EntryFormats == AllFormats \cup {"any", "none"}
Version == 0 .. MaxVersion

Requests == [state: {"idle", "asked", "fetched"}, kind: Kinds \cup {"none"},
             fmt: EntryFormats, epoch: Nat \cup {-1}, floor: Version, version: Version]
Entries == [tagfmt: EntryFormats, epoch: Nat \cup {-1}, fmt: EntryFormats, version: Version]
Answers == [version: Version, floor: Version, want: EntryFormats, sent: EntryFormats]

\* The variables keep their types; no one sees or is promised contents that the
\* backend has not applied.
TypeOK ==
  /\ committed \in Version
  /\ searchable \in 0 .. committed
  /\ epoch \in Nat
  /\ ship \in [Writers -> [state: {"idle", "some", "none", "lost"}, version: 0 .. committed]]
  /\ req \in [Clients -> Requests]
  /\ cache \in [Clients -> [Kinds -> Entries]]
  /\ acked \in 0 .. committed
  /\ answer \in [Clients -> Answers]
  /\ restarts \in 0 .. MaxRestarts
  /\ switches \in 0 .. MaxSwitches

\* The epoch counts applied writes, each at most once: a batch the backend
\* rejected as a whole rotates no ETag (Container.ingest, dependencies.py).
Unbumped == {w \in Writers : ship[w].state = "some"}
EpochIsEarned == epoch + Cardinality(Unbumped) <= committed

\* No answer, 304 or 200, carries contents older than a write whose caller had
\* been told it was indexed before the request began (http_cache.py: an ingest
\* rotates every cached 304, clients re-fetch on the next call).
ReadsAreRegular == \A c \in Clients : answer[c].version >= answer[c].floor

\* Once no write is in flight and the backend has refreshed, an entry that would
\* be revalidated with a 304 is the current contents of the index
\* (public_api/routes.py: a 304 never outlives the backend state).
Settled == (\A w \in Writers : ship[w].state = "idle") /\ searchable = committed
SettledCacheIsCurrent ==
  Settled => \A c \in Clients, k \in Kinds :
               cache[c][k].epoch = epoch => cache[c][k].version = committed

\* A client told 304 goes on with a copy in the representation it asked for
\* (public_api/routes.py negotiates JSON-LD by the Accept header).
NegotiationRespected == \A c \in Clients : answer[c].sent = answer[c].want

\* A polling client is eventually given every write that was acknowledged: the
\* ETag never pins it to an old copy for ever.
PollingClientCatchesUp ==
  \A c \in Clients, v \in 1 .. MaxVersion :
    acked >= v ~> answer[c].version >= v

\* The endpoints implement a regular register over the versions of the index.
Abs == INSTANCE RegularReads WITH
  pending <- [c \in Clients |-> IF req[c].state = "idle" THEN -1 ELSE req[c].floor],
  got <- [c \in Clients |-> [version |-> answer[c].version, due |-> answer[c].floor]]
RegularRegister == Abs!Spec

\* The deployments for which the two freshness properties hold: every write goes
\* through Container.ingest, and the process neither restarts nor is pointed at
\* another index while clients keep their copies.
OnlyIngestWrites == RawIngesters = {} /\ MaxRestarts = 0 /\ MaxSwitches = 0

\* The strengthening behind ReadsAreRegular: a copy, stored or on its way, whose
\* ETag is still current is at least as new as the last acknowledged write.
FreshIfCurrent ==
  /\ \A c \in Clients, k \in Kinds :
       /\ cache[c][k].epoch <= epoch /\ cache[c][k].version <= committed
       /\ cache[c][k].epoch = epoch => cache[c][k].version >= acked
  /\ \A c \in Clients :
       /\ req[c].epoch <= epoch /\ req[c].version <= committed
       /\ req[c].state # "idle" => req[c].kind \in Kinds /\ req[c].floor <= acked
       /\ req[c].state = "fetched" =>
            /\ req[c].version >= req[c].floor
            /\ req[c].epoch = epoch => req[c].version >= acked

\* The strengthening behind SettledCacheIsCurrent: every version a copy with the
\* current ETag lacks belongs to a write that has not come back yet, and will
\* bump the epoch when it does.
InFlight(x) == \E w \in Writers : ship[w].state = "some" /\ ship[w].version = x
LagIsInFlight ==
  /\ \A c \in Clients, k \in Kinds : cache[c][k].epoch = epoch =>
       \A x \in (cache[c][k].version + 1) .. committed : InFlight(x)
  /\ \A c \in Clients : req[c].state = "fetched" /\ req[c].epoch = epoch =>
       \A x \in (req[c].version + 1) .. committed : InFlight(x)
=============================================================================
