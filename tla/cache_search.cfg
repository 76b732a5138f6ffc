\* The search and facets endpoints under restarts, reloads and raw writes.
SPECIFICATION Spec
CONSTANTS
  Ingesters = {i1}
  RawIngesters = {r1}
  Clients = {c1}
  Kinds = {"search", "facets"}
  Formats = {"json", "jsonld"}
  LosesReplies = TRUE
  MaxVersion = 2
  MaxRestarts = 1
  MaxSwitches = 1
INVARIANTS NegotiationRespected
