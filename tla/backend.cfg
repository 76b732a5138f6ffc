SPECIFICATION Spec
CONSTANTS
  Settings <- MCSettings
  AttemptTime = 2
  Named = {"a"}
  Nameless = {"x"}
  Majors = {0, 6, 7}
  MaxCalls = 2
INVARIANTS
  CountedIsIndexed
  CopiesAreBounded
  WaitIsBounded
