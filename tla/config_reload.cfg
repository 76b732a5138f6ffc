\* Two threads that reload, one of them the event loop, and a public request.  A
\* process that cannot start again stops.
SPECIFICATION FairSpec
CONSTANTS
  factory = factory
  edited = edited
  Versions = {factory, edited}
  Factory = factory
  Submitted <- MCSubmitted
  RestThreads = {t1}
  UiThreads = {loop}
  t1 = t1
  loop = loop
  Readers = {r1}
  r1 = r1
  MaxBuilds = 3
  MaxFaults = 1
  MaxCrashes = 1
CHECK_DEADLOCK FALSE
INVARIANT TypeOK
INVARIANT QuietAgreement
INVARIANT ClientsAreReleased
PROPERTY OrderedReplacement
PROPERTY ReloadsEnd
