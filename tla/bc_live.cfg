\* Fair scheduling, on a board with touch whose cold boots count as presses of the power button and that
\* sleeps again on USB power; goToSleep() may return before the activity has left.
SPECIFICATION FairSpec
CONSTANTS
  b1 = b1
  weather = weather
  tempest = tempest
  Book = {b1}
  Dashboard = {weather}
  Tempest = {}
  None = None
  HasTouch = TRUE
  ColdBootImpliesPowerButton = TRUE
  StaysAwakeOnUsb = FALSE
  ClickWakes = FALSE
  SleepScreens = {"static", "lock"}
  GoToSleepDispatches = FALSE
PROPERTIES UnattendedSleeps SleepCompletes
