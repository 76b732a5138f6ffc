----------------------------- MODULE QueryPolicy -----------------------------
(***************************************************************************)
(* What the query policy makes of the parameters of a search, and what the *)
(* adapter makes of the result: from an HTTP query to the body of a search *)
(* request.                                                                *)
(*                                                                         *)
(* A parameter is reduced to what is tested about it.  A page or a size    *)
(* that is no number or not positive is 0: the answer is the same.         *)
(***************************************************************************)
EXTENDS Integers, Sequences, SequencesExt

\* The security profile, SecurityProfile, and the caps of the engine itself.
ProfileType == [allowEmptyQuery : BOOLEAN, pageSizeDefault : Nat \ {0}, pageSizeMax : Nat \ {0},
                maxDepth : Nat \ {0}, maxFacets : Nat, maxIncludeFields : Nat, maxFilterValues : Nat]

Absent == -1

\* Names asked for, of facets or of fields: how many, and whether all are allowed.
Names == [count : Nat, allowed : BOOLEAN]

\* The parameters of a request.
QueryType == [unknown : BOOLEAN, q : {"absent", "short", "long"}, page : Nat,
              pageSize : Nat \cup {Absent}, cursor : {"absent", "empty", "token", "garbled"},
              sort : {"absent", "allowed", "other"}, facets : Names, includeFields : Names,
              filterValues : Nat, longValue : BOOLEAN, flag : {"absent", "boolean", "other"}]

\* Mutant: an empty cursor is taken for one.
CursorEmptyCounts(p) == IF p.cursor = "absent" THEN "none" ELSE p.cursor

\* An empty cursor is none: qp.get("cursor") or None.
Cursor(p) == IF p.cursor \in {"absent", "empty"} THEN "none" ELSE p.cursor

PageSize(p, profile) == IF p.pageSize = Absent THEN profile.pageSizeDefault ELSE p.pageSize

\* Deep pages are forbidden unless they are reached with a cursor.
TooDeep(p, profile) == Cursor(p) = "none" /\ p.page * PageSize(p, profile) > profile.maxDepth

\* The checks of parse in their order: whether one fails, and with which code.
Checks(p, profile) ==
  << <<p.unknown, "invalid_parameter">>,
     <<p.q = "absent" /\ ~profile.allowEmptyQuery, "missing_parameter">>,
     <<p.q = "long", "invalid_parameter">>,
     <<p.page < 1 \/ PageSize(p, profile) < 1, "invalid_parameter">>,
     <<PageSize(p, profile) > profile.pageSizeMax, "invalid_parameter">>,
     <<TooDeep(p, profile), "unsupported_operation">>,
     <<p.sort = "other", "forbidden">>,
     <<p.facets.count > profile.maxFacets, "invalid_parameter">>,
     <<p.facets.count > 0 /\ ~p.facets.allowed, "forbidden">>,
     <<p.includeFields.count > profile.maxIncludeFields, "invalid_parameter">>,
     <<p.includeFields.count > 0 /\ ~p.includeFields.allowed, "forbidden">>,
     <<p.filterValues > profile.maxFilterValues, "invalid_parameter">>,
     <<p.filterValues > 0 /\ p.longValue, "invalid_parameter">>,
     <<p.flag = "other", "invalid_parameter">> >>

\* QueryPolicyEngine.parse: the code of the first check that fails, or "none".
ParseError(p, profile) ==
  LET failing == SelectInSeq(Checks(p, profile), LAMBDA check : check[1])
  IN IF failing = 0 THEN "none" ELSE Checks(p, profile)[failing][2]

\* translate_query for search, or with size_override for facets: the window and the facets
\* the backend is asked for; with a cursor, search_after takes the place of from.
Body(p, profile, facetsOnly) ==
  [size |-> IF facetsOnly THEN 0 ELSE PageSize(p, profile),
   after |-> p.cursor = "token",
   from |-> IF p.cursor = "token" THEN 0 ELSE (p.page - 1) * PageSize(p, profile),
   facets |-> p.facets.count]

\* A cursor that does not decode is an error of the request.
TranslateError(p) == IF p.cursor = "garbled" THEN "invalid_parameter" ELSE "none"

\* The backend is asked for no more than the profile admits: a page size, a depth unless
\* the search goes on from a cursor, and a number of facets.
Spared(body, profile) ==
  /\ body.size <= profile.pageSizeMax
  /\ body.after \/ body.from + body.size <= profile.maxDepth
  /\ body.facets <= profile.maxFacets
=============================================================================
