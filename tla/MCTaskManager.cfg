\* Three tasks; delays below MinDelay (none), in range, and above MaxDelay (cut).
CONSTANTS
  t1 = t1
  t2 = t2
  t3 = t3
  Task = {t1, t2, t3}
  NoTask = NoTask
  Delays = {1, 2, 9}
  MinDelay = 2
  MaxDelay = 3
  MaxTime = 3
SPECIFICATION Spec
INVARIANTS TypeOK ListIsPath ListIsSorted NothingLost RepeaterOffList
PROPERTY ImplementsTimerQueue
SYMMETRY Symmetry
