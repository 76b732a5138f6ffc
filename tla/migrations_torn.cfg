\* One process, which may die inside the first script.
SPECIFICATION Spec
CONSTANTS
  Processes = {p1}
  None = None
  TornBaseline = TRUE
  MaxDeaths = 1
INVARIANT BaselineIsTrue
