\* Both tasks, a dashboard hand-off, a USB drive and all ways to sleep.
SPECIFICATION Spec
CONSTANTS
  Idle = 2
  Timeout = 3
INVARIANTS FlagFollowsClock RadioAtFullSpeed StaleLowIsBrief
