\* Fair scheduling; shared state is written under a RenderLock only.
SPECIFICATION FairSpec
CONSTANTS
  h = h
  p = p
  x = x
  a = a
  b = b
  Activity = {h, a}
  Home = {h}
  LightPanel = {}
  ExclusiveStorage = {}
  None = None
  MaxDepth = 1
  MaxNotify = 1
  LockedWrites = TRUE
PROPERTIES WaitShowsWrittenState UpdateReachesPanel WaiterIsWoken NavigationIsDispatched
