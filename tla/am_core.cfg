\* All kinds of activity, two levels of stack.
SPECIFICATION Spec
CONSTANTS
  h = h
  p = p
  x = x
  a = a
  b = b
  Activity = {h, p, x, a, b}
  Home = {h}
  LightPanel = {p}
  ExclusiveStorage = {x}
  None = None
  MaxDepth = 2
  MaxNotify = 1
  LockedWrites = FALSE
INVARIANTS TypeOK RenderedIsAlive EnteredExactlyOwned ResultReachesLauncher
PROPERTIES StorageOwnerStays ImplementsNavStack
