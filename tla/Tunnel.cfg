SPECIFICATION FairSpec
CONSTANTS
  Callers = {p1, p2}
  MaxBinds = 2
  MaxRetryCount = 1
CHECK_DEADLOCK FALSE
INVARIANTS CounterMatches NoDoubleBind NegativeOnlyInAdd
PROPERTIES GivesUpAtTheCount BindReleasesCallers  
