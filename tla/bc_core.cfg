\* A board that tells a cold boot from a wake-up and stays awake on USB: every setting, crash and power failure.
SPECIFICATION Spec
CONSTANTS
  b1 = b1
  weather = weather
  tempest = tempest
  Book = {b1}
  Dashboard = {weather, tempest}
  Tempest = {tempest}
  None = None
  HasTouch = FALSE
  ColdBootImpliesPowerButton = FALSE
  StaysAwakeOnUsb = TRUE
  ClickWakes = FALSE
  SleepScreens = {"static", "quick", "lock"}
  GoToSleepDispatches = TRUE
INVARIANTS TypeOK NoBootLoop SplashlessOverSleepFrame TimerFindsDashboard
PROPERTIES SleepIsFinal ResumesBook
