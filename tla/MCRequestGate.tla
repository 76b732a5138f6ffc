---------------------------- MODULE MCRequestGate ----------------------------
(* A profile of small numbers, and requests at its limits and beyond. *)
EXTENDS RequestGate

MCProfile == [allowEmptyQuery |-> FALSE, pageSizeDefault |-> 2, pageSizeMax |-> 3, maxDepth |-> 4,
              maxFacets |-> 1, maxIncludeFields |-> 1, maxFilterValues |-> 1]

Plain == [unknown |-> FALSE, q |-> "short", page |-> 1, pageSize |-> Absent,
          cursor |-> "absent", sort |-> "absent", facets |-> [count |-> 0, allowed |-> TRUE],
          includeFields |-> [count |-> 0, allowed |-> TRUE], filterValues |-> 0,
          longValue |-> FALSE, flag |-> "absent"]

MCQueries ==
  {[Plain EXCEPT !.page = 3, !.pageSize = size, !.cursor = cursor] :
     size \in {Absent, 4}, cursor \in {"absent", "empty", "token"}} \cup
  {[Plain EXCEPT !.page = 2, !.facets = [count |-> n, allowed |-> n < 2]] : n \in 1..2} \cup
  {[Plain EXCEPT !.unknown = TRUE, !.q = "absent"], [Plain EXCEPT !.cursor = "garbled"],
   [Plain EXCEPT !.sort = "other", !.flag = "other"]}

Symmetric == Permutations(Requests)
=============================================================================
