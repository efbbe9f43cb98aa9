SPECIFICATION FairSpec
CONSTANTS
  MaxTimers = 2
  MaxTime = 3
  Dates = {0, 2}
  Counts = {0, 2}
  Intervals = {1}
  Envs = {{}, {"end"}, {"cancel", "end"}}
INVARIANTS HeadIsEarliest NoOversleep FiresAsOrdered ClosedOnce NeverUndefined
PROPERTIES TimersFire StopEnds
