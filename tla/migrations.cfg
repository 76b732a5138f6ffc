\* Three processes, and deaths at any statement but inside the first script.
SPECIFICATION Spec
CONSTANTS
  Processes = {p1, p2, p3}
  None = None
  TornBaseline = FALSE
  MaxDeaths = 2

  
PROPERTIES
  SessionsSurvive
  StartsSucceed
