\* A ghost press of the power button ends the polling while the dashboard stays on the panel.
SPECIFICATION Spec
CONSTANTS
  b1 = b1
  weather = weather
  tempest = tempest
  Book = {b1}
  Dashboard = {weather}
  Tempest = {}
  None = None
  HasTouch = FALSE
  ColdBootImpliesPowerButton = FALSE
  StaysAwakeOnUsb = TRUE
  ClickWakes = FALSE
  SleepScreens = {"static"}
  GoToSleepDispatches = TRUE
INVARIANT DashboardStaysPolled
