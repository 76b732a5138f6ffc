---------------------------- MODULE MCBackendRetry ----------------------------
(* No retry; retries without a deadline and with one; no pause. *)
EXTENDS BackendRetry

Setting(n, backoff, deadline, type) ==
  [maxRetries |-> n, backoff |-> backoff, cap |-> 3, deadline |-> deadline, type |-> type]

MCSettings ==
  {Setting(0, 2, 0, "elasticsearch"), Setting(2, 2, 0, "opensearch"),
   Setting(2, 2, 4, "elasticsearch"), Setting(2, 0, 4, "opensearch")}
=============================================================================
