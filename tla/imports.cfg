\* Two sources that share ticks, one scheduler and one "Run now" handler.
SPECIFICATION FairSpec
CONSTANTS
  harvest = harvest
  nightly = nightly
  manual = manual
  Sources = {harvest, nightly}
  Cadence <- Periods
  Schedulers = {w1}
  w1 = w1
  Callers = {c1}
  c1 = c1
  MaxTime = 2
  MaxCalls = 1
  MaxFaults = 1
INVARIANTS
  TypeOK
  RunsAreOwned
  CadenceIsKept
  ScheduledRunsAreSpaced
PROPERTIES
  OutcomesAreFinal
  DueSourcesRun
  RunsEnd
