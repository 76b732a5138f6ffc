\* Three requests and two threads, one reload, and a clock of two windows.
SPECIFICATION Spec
SYMMETRY Symmetric
CONSTANTS
  r1 = r1
  r2 = r2
  r3 = r3
  Requests = {r1, r2, r3}
  PoolSize = 2
  Hosts = {"host"}
  Keys = {"key"}
  Modes = {"anonymous_allowed", "api_key_required"}
  Limiters = {"memory", "redis"}
  MaxRequests = 1
  Window = 1
  Threshold = 1
  LockWindow = 2
  Profile <- MCProfile
  Queries <- MCQueries
  MaxTime = 2
  MaxReloads = 1
INVARIANTS
  QuotaHolds
  LockoutHolds
  LockIsEarned
  BackendIsSpared
