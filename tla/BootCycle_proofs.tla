------------------------- MODULE BootCycle_proofs -------------------------
(***************************************************************************)
(* Waking up and going to sleep, for every set of books and dashboards and *)
(* every kind of board: the types, the finality of a deep sleep, the mode  *)
(* the timer finds, and the bound on how often a book that crashes the     *)
(* reader is opened again.                                                 *)
(***************************************************************************)
EXTENDS BootCycle, TLAPS

\* What an activity record is about, by its kind.
Shaped(activity) ==
    /\ activity.kind \in {"reader", "sync"} => activity.about \in Book
    /\ activity.kind = "dashboard" => activity.about \in Dashboard
Shapes == Shaped(current) /\ Shaped(pending)

\* enterDeepSleep() is under way exactly while its sleep screen is the one to come.
Committed ==
    /\ pending.kind = "sleepScreen" => pc \in {"sleep", "halting"}
    /\ pc = "sleep" => pending = Screen("sleepScreen") /\ sleepScreen # "lock"

\* setup() starts with no activity; the RTC flag is read before anything else and nothing is saved earlier.
FreshStart ==
    /\ pc \in {"halted", "setup", "wake", "present", "frame"} => current = NoActivity /\ pending = NoActivity
    /\ pc = "route" => current.kind \in {"none", "boot"} /\ pending = NoActivity
    /\ rtc # "none" => pc = "setup"
    /\ saving => pc \notin {"halted", "setup"}

\* The timer is armed only once the card names the dashboard.
Armed ==
    /\ timer => pc = "halted" /\ disk \in AppState /\ disk.activeDashboardMode # None
    /\ pc = "timed" => ram.activeDashboardMode # None /\ (saving \/ disk = ram)

\* The sync is reached by leaving the reader in order, which ends a row of crashes.
SyncIsOrderly ==
    /\ current.kind = "sync" => crashes = 0
    /\ pending.kind = "sync" => IsReader \/ crashes = 0
    /\ rtc = "reader" => crashes = 0
    /\ boot.silent = "reader" /\ pc \in {"wake", "present", "frame", "route"} => crashes = 0

\* A state from which setup() opens no book: none is named, or its load was counted.
Harmless(s) == s.openEpubPath = None \/ s.readerActivityLoadCount = 1
Counted == ram.readerActivityLoadCount = 1 /\ (disk = Unreadable \/ disk.readerActivityLoadCount = 1)

\* A book opened again after a crash is counted on the card, and after the second crash none is opened.
CrashesAreCounted ==
    /\ crashes <= 2
    /\ (crashes >= 1 /\ (current.kind = "reader" \/ pending.kind = "reader")) => Counted
    /\ crashes = 2 => /\ current.kind # "reader" /\ pending.kind # "reader"
                      /\ Harmless(Loaded)
                      /\ pc \notin {"halted", "setup"} => Harmless(ram)


\* TypeOK in four parts.
StateTypes == ram \in AppState /\ disk \in AppState \cup {Unreadable}
ActivityTypes == /\ current \in ActivityType /\ pending \in ActivityType
                 /\ boot \in [silent : {"none", "home", "reader"}, dashboard : Dashboard \cup {None}]
                 /\ reading \in Book \cup {None}
BooleanTypes == /\ timer \in BOOLEAN /\ held \in BOOLEAN /\ saving \in BOOLEAN /\ latch \in BOOLEAN
                /\ wifi \in BOOLEAN /\ frame \in BOOLEAN /\ selfOpened \in BOOLEAN
OtherTypes ==
    /\ power \in {"on", "sleep", "off"}
    /\ cause \in {"button", "cold", "usb", "flash", "timer", "software", "panic", "watchdog"}
    /\ pc \in {"halted", "setup", "wake", "present", "frame", "route", "loop", "sleep", "halting", "timed", "powerOff"}
    /\ rtc \in {"none", "home", "reader"}
    /\ state \in {"none", "Connecting", "Fetching", "Showing", "Failed"}
    /\ panel \in {"ui", "static", "quick", "dashboard", "lowBattery"}
    /\ sleepScreen \in SleepScreens
    /\ crashes \in Nat
    /\ (power = "on") <=> (pc # "halted")
    /\ latch => pc \in {"sleep", "halting", "timed", "powerOff"}

IInv == TypeOK /\ Shapes /\ Committed /\ FreshStart /\ Armed /\ SyncIsOrderly /\ CrashesAreCounted

USE BootAssumption

\* TypeOK is the conjunction of its parts.
LEMMA TypeParts == TypeOK <=> StateTypes /\ ActivityTypes /\ BooleanTypes /\ OtherTypes
  BY DEF TypeOK, StateTypes, ActivityTypes, BooleanTypes, OtherTypes

\* The values the steps give to records.
LEMMA TypesGood ==
    /\ Default \in AppState
    /\ StateTypes => Loaded \in AppState
    /\ NoActivity \in ActivityType /\ Home \in ActivityType
  BY DEF StateTypes, Loaded, AppState, Default, NoActivity, Home, Screen, Activity, ActivityType, RunMode

\* The state setup() saves before it opens a book.
LEMMA BookTakenType == ASSUME ram \in AppState, OpensBook PROVE BookTaken \in AppState
<1> DEFINE unnamed == [ram EXCEPT !.openEpubPath = None]
<1>1. ram.readerActivityLoadCount + 1 = 1
  BY DEF OpensBook
<1>2. unnamed \in AppState
  BY DEF AppState
<1>3. BookTaken = [unnamed EXCEPT !.readerActivityLoadCount = 1]
  BY <1>1 DEF BookTaken, AppState
<1> HIDE DEF unnamed
<1>4. QED
  BY <1>2, <1>3 DEF AppState

\* Whether a sleep starts in the reader is a truth value.
LEMMA SleeperType == IsReader \in BOOLEAN
  BY DEF IsReader

\* Every step keeps the types of the state and its file.
LEMMA StateTypesStep ==
    IInv /\ [Next]_vars => StateTypes'
<1> SUFFICES ASSUME IInv, [Next]_vars
             PROVE  StateTypes'
  OBVIOUS
<1>0. StateTypes /\ Shapes /\ Default \in AppState /\ Loaded \in AppState /\ IsReader \in BOOLEAN
  BY TypeParts, TypesGood, SleeperType DEF IInv
<1> USE <1>0
<1> USE DEF StateTypes, AppState, Shapes, Shaped, OpensBook
<1>1. CASE Wake
  BY <1>1 DEF Wake, PowerButton, TimerWake, UsbPlugged, FlashBoot, Starts, hardware, store, ui, history
<1>2. CASE Fail
  BY <1>2 DEF Fail, PowerLoss, Crash, InBook, Down, Reset, LoseRam, hardware, store, ui, history
<1>3. CASE SaveCompletes
  BY <1>3 DEF SaveCompletes, hardware, store, ui, history
<1>4. CASE Setup
  <2>1. CASE LoadState
    BY <2>1 DEF LoadState, LeftMode, DashboardLeft, Save, hardware, store, ui, history
  <2>2. CASE SleepAgain
    BY <2>2 DEF SleepAgain, Down, LoseRam, hardware, store, ui, history
  <2>3. CASE StayAwake
    BY <2>3 DEF StayAwake, hardware, store, ui, history
  <2>4. CASE PresentSilent
    BY <2>4 DEF PresentSilent, hardware, store, ui, history
  <2>5. CASE PresentSplashless
    BY <2>5 DEF PresentSplashless, Save, hardware, store, ui, history
  <2>6. CASE LoadFrame
    BY <2>6 DEF LoadFrame, hardware, store, ui, history
  <2>7. CASE PresentSplash
    BY <2>7 DEF PresentSplash, hardware, store, ui, history
  <2>8. CASE \E recovery, back \in BOOLEAN : Route(recovery, back)
    <3>1. PICK recovery, back \in BOOLEAN : Route(recovery, back)
      BY <2>8
    <3>2. OpensBook => BookTaken \in AppState
      BY BookTakenType
    <3>3. QED
      BY <3>1, <3>2 DEF Route, Save, hardware, store, ui, history
  <2>9. QED
    BY <1>4, <2>1, <2>2, <2>3, <2>4, <2>5, <2>6, <2>7, <2>8 DEF Setup
<1>5. CASE Change
  <2>1. CASE ReaderExits
    BY <2>1 DEF ReaderExits, Leaving, BookLeft, Save, hardware, store, ui, history
  <2>2. CASE SilentRestart
    BY <2>2 DEF SilentRestart, Leaving, Restarts, UsesWifi, Reset, LoseRam, hardware, store, ui, history
  <2>3. CASE OtherExits
    BY <2>3 DEF OtherExits, Leaving, Restarts, UsesWifi, hardware, store, ui, history
  <2>4. CASE OtherEnters
    BY <2>4 DEF OtherEnters, Entering, Enter, hardware, store, ui, history
  <2>5. CASE BookOpens
    BY <2>5 DEF BookOpens, Entering, Enter, Save, hardware, store, ui, history
  <2>6. CASE BookMissing
    BY <2>6 DEF BookMissing, Entering, hardware, store, ui, history
  <2>7. QED
    BY <1>5, <2>1, <2>2, <2>3, <2>4, <2>5, <2>6 DEF Change
<1>6. CASE User
  <2>1. CASE \E b \in Book : OpenBook(b)
    <3>1. PICK b \in Book : OpenBook(b)
      BY <2>1
    <3>2. QED
      BY <3>1 DEF OpenBook, GoTo, Idle, hardware, store, ui, history
  <2>2. CASE OpenScreen
    BY <2>2 DEF OpenScreen, GoTo, Idle, hardware, store, ui, history
  <2>3. CASE GoHome
    BY <2>3 DEF GoHome, GoTo, Idle, hardware, store, ui, history
  <2>4. CASE StartSync
    BY <2>4 DEF StartSync, GoTo, Idle, IsReader, hardware, store, ui, history
  <2>5. CASE SyncEnds
    BY <2>5 DEF SyncEnds, GoTo, Idle, hardware, store, ui, history
  <2>6. CASE WifiConnects
    BY <2>6 DEF WifiConnects, Idle, hardware, store, ui, history
  <2>7. CASE UpdateRestarts
    BY <2>7 DEF UpdateRestarts, Idle, Reset, LoseRam, hardware, store, ui, history
  <2>8. CASE ChooseSleepScreen
    BY <2>8 DEF ChooseSleepScreen, Idle, hardware, store, ui, history
  <2>9. QED
    BY <1>6, <2>1, <2>2, <2>3, <2>4, <2>5, <2>6, <2>7, <2>8 DEF User
<1>7. CASE Sleep
  <2>1. CASE \E fromTimeout \in BOOLEAN : EnterDeepSleep(fromTimeout)
    <3>1. PICK fromTimeout \in BOOLEAN : EnterDeepSleep(fromTimeout)
      BY <2>1
    <3>2. QED
      BY <3>1 DEF EnterDeepSleep, Gesture, Idle, Save, hardware, store, ui, history
  <2>2. CASE \E fromTimeout \in BOOLEAN, d \in Dashboard : LockScreenSleep(fromTimeout, d)
    <3>1. PICK fromTimeout \in BOOLEAN, d \in Dashboard : LockScreenSleep(fromTimeout, d)
      BY <2>2
    <3>2. QED
      BY <3>1 DEF LockScreenSleep, Gesture, Idle, Save, hardware, store, ui, history
  <2>3. CASE SleepScreenEnters
    BY <2>3 DEF SleepScreenEnters, Entering, Enter, hardware, store, ui, history
  <2>4. CASE GoToSleepReturnsEarly
    BY <2>4 DEF GoToSleepReturnsEarly, hardware, store, ui, history
  <2>5. CASE StartDeepSleep
    BY <2>5 DEF StartDeepSleep, KeepsFrame, Down, LoseRam, hardware, store, ui, history
  <2>6. QED
    BY <1>7, <2>1, <2>2, <2>3, <2>4, <2>5 DEF Sleep
<1>8. CASE Poll
  <2>1. CASE DashboardUnconfigured
    BY <2>1 DEF DashboardUnconfigured, EnterDashboard, Entering, Still, Save, hardware, store, ui, history
  <2>2. CASE BatteryCritical
    BY <2>2 DEF BatteryCritical, EnterDashboard, Entering, Enter, Still, Save, hardware, store, ui, history
  <2>3. CASE NoCredentials
    BY <2>3 DEF NoCredentials, EnterDashboard, Entering, Enter, Still, ShowConnecting, hardware, store, ui,
      history
  <2>4. CASE StartConnecting
    BY <2>4 DEF StartConnecting, EnterDashboard, Entering, Enter, Still, ShowConnecting, hardware, store, ui,
      history
  <2>5. CASE Connected
    BY <2>5 DEF Connected, Dash, Idle, Still, hardware, store, ui, history
  <2>6. CASE WifiCancelled
    BY <2>6 DEF WifiCancelled, Dash, Idle, Still, hardware, store, ui, history
  <2>7. CASE ConnectTimesOut
    BY <2>7 DEF ConnectTimesOut, TimesOut, Dash, Idle, InDashboard, Still, Arm, Save, hardware, store, ui,
      history
  <2>8. CASE Fetched
    BY <2>8 DEF Fetched, Dash, Idle, InDashboard, Still, Arm, Save, hardware, store, ui, history
  <2>9. CASE FetchFails
    BY <2>9 DEF FetchFails, Dash, Idle, InDashboard, Still, Arm, Save, hardware, store, ui, history
  <2>10. CASE ShowsFailure
    BY <2>10 DEF ShowsFailure, Dash, Idle, InDashboard, Still, Arm, Save, hardware, store, ui, history
  <2>11. CASE GraceOver
    BY <2>11 DEF GraceOver, Dash, Idle, InDashboard, Still, Arm, Save, hardware, store, ui, history
  <2>12. CASE ExitDashboard
    BY <2>12 DEF ExitDashboard, Dash, Idle, Still, Save, hardware, store, ui, history
  <2>13. CASE Reconfigured
    BY <2>13 DEF Reconfigured, Dash, Idle, Still, hardware, store, ui, history
  <2>14. CASE TimedSleep
    BY <2>14 DEF TimedSleep, Down, LoseRam, hardware, store, ui, history
  <2>15. CASE DashboardPowerOff
    BY <2>15 DEF DashboardPowerOff, Down, LoseRam, hardware, store, ui, history
  <2>16. QED
    BY <1>8, <2>1, <2>2, <2>3, <2>4, <2>5, <2>6, <2>7, <2>8, <2>9, <2>10, <2>11, <2>12, <2>13, <2>14, <2>15 DEF
      Poll, EnterUnattended, Fetch, PowersDown
<1>9. CASE UNCHANGED vars
  BY <1>9 DEF vars, hardware, store, ui, history
<1>10. QED
  BY <1>1, <1>2, <1>3, <1>4, <1>5, <1>6, <1>7, <1>8, <1>9 DEF Next

\* Every step keeps the types of the activities, of what setup() took over and of the history's book.
LEMMA ActivityTypesStep ==
    IInv /\ [Next]_vars => ActivityTypes'
<1> SUFFICES ASSUME IInv, [Next]_vars
             PROVE  ActivityTypes'
  OBVIOUS
<1>0. /\ ActivityTypes /\ Shapes
      /\ ram \in AppState /\ Loaded \in AppState /\ rtc \in {"none", "home", "reader"}
  BY TypeParts, TypesGood, SleeperType DEF IInv, TypeOK, StateTypes
<1> USE <1>0
<1> USE DEF ActivityTypes, ActivityType, RunMode, AppState, IsReader, WasReading, Shapes, Shaped, Activity,
      Screen, NoActivity, Home, Reader, Sync
<1>1. CASE Wake
  BY <1>1 DEF Wake, PowerButton, TimerWake, UsbPlugged, FlashBoot, Starts, hardware, store, ui, history
<1>2. CASE Fail
  BY <1>2 DEF Fail, PowerLoss, Crash, InBook, Down, Reset, LoseRam, hardware, store, ui, history
<1>3. CASE SaveCompletes
  BY <1>3 DEF SaveCompletes, hardware, store, ui, history
<1>4. CASE Setup
  <2>1. CASE LoadState
    BY <2>1 DEF LoadState, LeftMode, DashboardLeft, Save, hardware, store, ui, history
  <2>2. CASE SleepAgain
    BY <2>2 DEF SleepAgain, Down, LoseRam, hardware, store, ui, history
  <2>3. CASE StayAwake
    BY <2>3 DEF StayAwake, hardware, store, ui, history
  <2>4. CASE PresentSilent
    BY <2>4 DEF PresentSilent, hardware, store, ui, history
  <2>5. CASE PresentSplashless
    BY <2>5 DEF PresentSplashless, Save, hardware, store, ui, history
  <2>6. CASE LoadFrame
    BY <2>6 DEF LoadFrame, hardware, store, ui, history
  <2>7. CASE PresentSplash
    BY <2>7 DEF PresentSplash, hardware, store, ui, history
  <2>8. CASE \E recovery, back \in BOOLEAN : Route(recovery, back)
    <3>1. PICK recovery, back \in BOOLEAN : Route(recovery, back)
      BY <2>8
    <3>2. QED
      BY <3>1 DEF Route, BookTaken, Save, hardware, store, ui, history
  <2>9. QED
    BY <1>4, <2>1, <2>2, <2>3, <2>4, <2>5, <2>6, <2>7, <2>8 DEF Setup
<1>5. CASE Change
  <2>1. CASE ReaderExits
    BY <2>1 DEF ReaderExits, Leaving, BookLeft, Save, hardware, store, ui, history
  <2>2. CASE SilentRestart
    BY <2>2 DEF SilentRestart, Leaving, Restarts, UsesWifi, Reset, LoseRam, hardware, store, ui, history
  <2>3. CASE OtherExits
    BY <2>3 DEF OtherExits, Leaving, Restarts, UsesWifi, hardware, store, ui, history
  <2>4. CASE OtherEnters
    BY <2>4 DEF OtherEnters, Entering, Enter, hardware, store, ui, history
  <2>5. CASE BookOpens
    BY <2>5 DEF BookOpens, Entering, Enter, Save, hardware, store, ui, history
  <2>6. CASE BookMissing
    BY <2>6 DEF BookMissing, Entering, hardware, store, ui, history
  <2>7. QED
    BY <1>5, <2>1, <2>2, <2>3, <2>4, <2>5, <2>6 DEF Change
<1>6. CASE User
  <2>1. CASE \E b \in Book : OpenBook(b)
    <3>1. PICK b \in Book : OpenBook(b)
      BY <2>1
    <3>2. QED
      BY <3>1 DEF OpenBook, GoTo, Idle, hardware, store, ui, history
  <2>2. CASE OpenScreen
    BY <2>2 DEF OpenScreen, GoTo, Idle, hardware, store, ui, history
  <2>3. CASE GoHome
    BY <2>3 DEF GoHome, GoTo, Idle, hardware, store, ui, history
  <2>4. CASE StartSync
    BY <2>4 DEF StartSync, GoTo, Idle, IsReader, hardware, store, ui, history
  <2>5. CASE SyncEnds
    BY <2>5 DEF SyncEnds, GoTo, Idle, hardware, store, ui, history
  <2>6. CASE WifiConnects
    BY <2>6 DEF WifiConnects, Idle, hardware, store, ui, history
  <2>7. CASE UpdateRestarts
    BY <2>7 DEF UpdateRestarts, Idle, Reset, LoseRam, hardware, store, ui, history
  <2>8. CASE ChooseSleepScreen
    BY <2>8 DEF ChooseSleepScreen, Idle, hardware, store, ui, history
  <2>9. QED
    BY <1>6, <2>1, <2>2, <2>3, <2>4, <2>5, <2>6, <2>7, <2>8 DEF User
<1>7. CASE Sleep
  <2>1. CASE \E fromTimeout \in BOOLEAN : EnterDeepSleep(fromTimeout)
    <3>1. PICK fromTimeout \in BOOLEAN : EnterDeepSleep(fromTimeout)
      BY <2>1
    <3>2. QED
      BY <3>1 DEF EnterDeepSleep, Gesture, Idle, Save, hardware, store, ui, history
  <2>2. CASE \E fromTimeout \in BOOLEAN, d \in Dashboard : LockScreenSleep(fromTimeout, d)
    <3>1. PICK fromTimeout \in BOOLEAN, d \in Dashboard : LockScreenSleep(fromTimeout, d)
      BY <2>2
    <3>2. QED
      BY <3>1 DEF LockScreenSleep, Gesture, Idle, Save, hardware, store, ui, history
  <2>3. CASE SleepScreenEnters
    BY <2>3 DEF SleepScreenEnters, Entering, Enter, hardware, store, ui, history
  <2>4. CASE GoToSleepReturnsEarly
    BY <2>4 DEF GoToSleepReturnsEarly, hardware, store, ui, history
  <2>5. CASE StartDeepSleep
    BY <2>5 DEF StartDeepSleep, KeepsFrame, Down, LoseRam, hardware, store, ui, history
  <2>6. QED
    BY <1>7, <2>1, <2>2, <2>3, <2>4, <2>5 DEF Sleep
<1>8. CASE Poll
  <2>1. CASE DashboardUnconfigured
    BY <2>1 DEF DashboardUnconfigured, EnterDashboard, Entering, Still, Save, hardware, store, ui, history
  <2>2. CASE BatteryCritical
    BY <2>2 DEF BatteryCritical, EnterDashboard, Entering, Enter, Still, Save, hardware, store, ui, history
  <2>3. CASE NoCredentials
    BY <2>3 DEF NoCredentials, EnterDashboard, Entering, Enter, Still, ShowConnecting, hardware, store, ui,
      history
  <2>4. CASE StartConnecting
    BY <2>4 DEF StartConnecting, EnterDashboard, Entering, Enter, Still, ShowConnecting, hardware, store, ui,
      history
  <2>5. CASE Connected
    BY <2>5 DEF Connected, Dash, Idle, Still, hardware, store, ui, history
  <2>6. CASE WifiCancelled
    BY <2>6 DEF WifiCancelled, Dash, Idle, Still, hardware, store, ui, history
  <2>7. CASE ConnectTimesOut
    BY <2>7 DEF ConnectTimesOut, TimesOut, Dash, Idle, InDashboard, Still, Arm, Save, hardware, store, ui,
      history
  <2>8. CASE Fetched
    BY <2>8 DEF Fetched, Dash, Idle, InDashboard, Still, Arm, Save, hardware, store, ui, history
  <2>9. CASE FetchFails
    BY <2>9 DEF FetchFails, Dash, Idle, InDashboard, Still, Arm, Save, hardware, store, ui, history
  <2>10. CASE ShowsFailure
    BY <2>10 DEF ShowsFailure, Dash, Idle, InDashboard, Still, Arm, Save, hardware, store, ui, history
  <2>11. CASE GraceOver
    BY <2>11 DEF GraceOver, Dash, Idle, InDashboard, Still, Arm, Save, hardware, store, ui, history
  <2>12. CASE ExitDashboard
    BY <2>12 DEF ExitDashboard, Dash, Idle, Still, Save, hardware, store, ui, history
  <2>13. CASE Reconfigured
    BY <2>13 DEF Reconfigured, Dash, Idle, Still, hardware, store, ui, history
  <2>14. CASE TimedSleep
    BY <2>14 DEF TimedSleep, Down, LoseRam, hardware, store, ui, history
  <2>15. CASE DashboardPowerOff
    BY <2>15 DEF DashboardPowerOff, Down, LoseRam, hardware, store, ui, history
  <2>16. QED
    BY <1>8, <2>1, <2>2, <2>3, <2>4, <2>5, <2>6, <2>7, <2>8, <2>9, <2>10, <2>11, <2>12, <2>13, <2>14, <2>15 DEF
      Poll, EnterUnattended, Fetch, PowersDown
<1>9. CASE UNCHANGED vars
  BY <1>9 DEF vars, hardware, store, ui, history
<1>10. QED
  BY <1>1, <1>2, <1>3, <1>4, <1>5, <1>6, <1>7, <1>8, <1>9 DEF Next

\* Every step keeps the flags Boolean.
LEMMA BooleanTypesStep ==
    IInv /\ [Next]_vars => BooleanTypes'
<1> SUFFICES ASSUME IInv, [Next]_vars
             PROVE  BooleanTypes'
  OBVIOUS
<1>0. BooleanTypes
  BY TypeParts, TypesGood, SleeperType DEF IInv
<1> USE <1>0
<1> USE DEF BooleanTypes
<1>1. CASE Wake
  BY <1>1 DEF Wake, PowerButton, TimerWake, UsbPlugged, FlashBoot, Starts, hardware, store, ui, history
<1>2. CASE Fail
  BY <1>2 DEF Fail, PowerLoss, Crash, InBook, Down, Reset, LoseRam, hardware, store, ui, history
<1>3. CASE SaveCompletes
  BY <1>3 DEF SaveCompletes, hardware, store, ui, history
<1>4. CASE Setup
  <2>1. CASE LoadState
    BY <2>1 DEF LoadState, LeftMode, DashboardLeft, Save, hardware, store, ui, history
  <2>2. CASE SleepAgain
    BY <2>2 DEF SleepAgain, Down, LoseRam, hardware, store, ui, history
  <2>3. CASE StayAwake
    BY <2>3 DEF StayAwake, hardware, store, ui, history
  <2>4. CASE PresentSilent
    BY <2>4 DEF PresentSilent, hardware, store, ui, history
  <2>5. CASE PresentSplashless
    BY <2>5 DEF PresentSplashless, Save, hardware, store, ui, history
  <2>6. CASE LoadFrame
    BY <2>6 DEF LoadFrame, hardware, store, ui, history
  <2>7. CASE PresentSplash
    BY <2>7 DEF PresentSplash, hardware, store, ui, history
  <2>8. CASE \E recovery, back \in BOOLEAN : Route(recovery, back)
    <3>1. PICK recovery, back \in BOOLEAN : Route(recovery, back)
      BY <2>8
    <3>2. QED
      BY <3>1 DEF Route, BookTaken, Save, hardware, store, ui, history
  <2>9. QED
    BY <1>4, <2>1, <2>2, <2>3, <2>4, <2>5, <2>6, <2>7, <2>8 DEF Setup
<1>5. CASE Change
  <2>1. CASE ReaderExits
    BY <2>1 DEF ReaderExits, Leaving, BookLeft, Save, hardware, store, ui, history
  <2>2. CASE SilentRestart
    BY <2>2 DEF SilentRestart, Leaving, Restarts, UsesWifi, Reset, LoseRam, hardware, store, ui, history
  <2>3. CASE OtherExits
    BY <2>3 DEF OtherExits, Leaving, Restarts, UsesWifi, hardware, store, ui, history
  <2>4. CASE OtherEnters
    BY <2>4 DEF OtherEnters, Entering, Enter, hardware, store, ui, history
  <2>5. CASE BookOpens
    BY <2>5 DEF BookOpens, Entering, Enter, Save, hardware, store, ui, history
  <2>6. CASE BookMissing
    BY <2>6 DEF BookMissing, Entering, hardware, store, ui, history
  <2>7. QED
    BY <1>5, <2>1, <2>2, <2>3, <2>4, <2>5, <2>6 DEF Change
<1>6. CASE User
  <2>1. CASE \E b \in Book : OpenBook(b)
    <3>1. PICK b \in Book : OpenBook(b)
      BY <2>1
    <3>2. QED
      BY <3>1 DEF OpenBook, GoTo, Idle, hardware, store, ui, history
  <2>2. CASE OpenScreen
    BY <2>2 DEF OpenScreen, GoTo, Idle, hardware, store, ui, history
  <2>3. CASE GoHome
    BY <2>3 DEF GoHome, GoTo, Idle, hardware, store, ui, history
  <2>4. CASE StartSync
    BY <2>4 DEF StartSync, GoTo, Idle, IsReader, hardware, store, ui, history
  <2>5. CASE SyncEnds
    BY <2>5 DEF SyncEnds, GoTo, Idle, hardware, store, ui, history
  <2>6. CASE WifiConnects
    BY <2>6 DEF WifiConnects, Idle, hardware, store, ui, history
  <2>7. CASE UpdateRestarts
    BY <2>7 DEF UpdateRestarts, Idle, Reset, LoseRam, hardware, store, ui, history
  <2>8. CASE ChooseSleepScreen
    BY <2>8 DEF ChooseSleepScreen, Idle, hardware, store, ui, history
  <2>9. QED
    BY <1>6, <2>1, <2>2, <2>3, <2>4, <2>5, <2>6, <2>7, <2>8 DEF User
<1>7. CASE Sleep
  <2>1. CASE \E fromTimeout \in BOOLEAN : EnterDeepSleep(fromTimeout)
    <3>1. PICK fromTimeout \in BOOLEAN : EnterDeepSleep(fromTimeout)
      BY <2>1
    <3>2. QED
      BY <3>1 DEF EnterDeepSleep, Gesture, Idle, Save, hardware, store, ui, history
  <2>2. CASE \E fromTimeout \in BOOLEAN, d \in Dashboard : LockScreenSleep(fromTimeout, d)
    <3>1. PICK fromTimeout \in BOOLEAN, d \in Dashboard : LockScreenSleep(fromTimeout, d)
      BY <2>2
    <3>2. QED
      BY <3>1 DEF LockScreenSleep, Gesture, Idle, Save, hardware, store, ui, history
  <2>3. CASE SleepScreenEnters
    BY <2>3 DEF SleepScreenEnters, Entering, Enter, hardware, store, ui, history
  <2>4. CASE GoToSleepReturnsEarly
    BY <2>4 DEF GoToSleepReturnsEarly, hardware, store, ui, history
  <2>5. CASE StartDeepSleep
    BY <2>5 DEF StartDeepSleep, KeepsFrame, Down, LoseRam, hardware, store, ui, history
  <2>6. QED
    BY <1>7, <2>1, <2>2, <2>3, <2>4, <2>5 DEF Sleep
<1>8. CASE Poll
  <2>1. CASE DashboardUnconfigured
    BY <2>1 DEF DashboardUnconfigured, EnterDashboard, Entering, Still, Save, hardware, store, ui, history
  <2>2. CASE BatteryCritical
    BY <2>2 DEF BatteryCritical, EnterDashboard, Entering, Enter, Still, Save, hardware, store, ui, history
  <2>3. CASE NoCredentials
    BY <2>3 DEF NoCredentials, EnterDashboard, Entering, Enter, Still, ShowConnecting, hardware, store, ui,
      history
  <2>4. CASE StartConnecting
    BY <2>4 DEF StartConnecting, EnterDashboard, Entering, Enter, Still, ShowConnecting, hardware, store, ui,
      history
  <2>5. CASE Connected
    BY <2>5 DEF Connected, Dash, Idle, Still, hardware, store, ui, history
  <2>6. CASE WifiCancelled
    BY <2>6 DEF WifiCancelled, Dash, Idle, Still, hardware, store, ui, history
  <2>7. CASE ConnectTimesOut
    BY <2>7 DEF ConnectTimesOut, TimesOut, Dash, Idle, InDashboard, Still, Arm, Save, hardware, store, ui,
      history
  <2>8. CASE Fetched
    BY <2>8 DEF Fetched, Dash, Idle, InDashboard, Still, Arm, Save, hardware, store, ui, history
  <2>9. CASE FetchFails
    BY <2>9 DEF FetchFails, Dash, Idle, InDashboard, Still, Arm, Save, hardware, store, ui, history
  <2>10. CASE ShowsFailure
    BY <2>10 DEF ShowsFailure, Dash, Idle, InDashboard, Still, Arm, Save, hardware, store, ui, history
  <2>11. CASE GraceOver
    BY <2>11 DEF GraceOver, Dash, Idle, InDashboard, Still, Arm, Save, hardware, store, ui, history
  <2>12. CASE ExitDashboard
    BY <2>12 DEF ExitDashboard, Dash, Idle, Still, Save, hardware, store, ui, history
  <2>13. CASE Reconfigured
    BY <2>13 DEF Reconfigured, Dash, Idle, Still, hardware, store, ui, history
  <2>14. CASE TimedSleep
    BY <2>14 DEF TimedSleep, Down, LoseRam, hardware, store, ui, history
  <2>15. CASE DashboardPowerOff
    BY <2>15 DEF DashboardPowerOff, Down, LoseRam, hardware, store, ui, history
  <2>16. QED
    BY <1>8, <2>1, <2>2, <2>3, <2>4, <2>5, <2>6, <2>7, <2>8, <2>9, <2>10, <2>11, <2>12, <2>13, <2>14, <2>15 DEF
      Poll, EnterUnattended, Fetch, PowersDown
<1>9. CASE UNCHANGED vars
  BY <1>9 DEF vars, hardware, store, ui, history
<1>10. QED
  BY <1>1, <1>2, <1>3, <1>4, <1>5, <1>6, <1>7, <1>8, <1>9 DEF Next

\* Every step keeps the other types, and a latch means a deep sleep under way.
LEMMA OtherTypesStep ==
    IInv /\ [Next]_vars => OtherTypes'
<1> SUFFICES ASSUME IInv, [Next]_vars
             PROVE  OtherTypes'
  OBVIOUS
<1>0. OtherTypes /\ FreshStart /\ Committed
  BY TypeParts, TypesGood, SleeperType DEF IInv
<1> USE <1>0
<1> USE DEF OtherTypes, Committed, Screen, NoActivity, Activity
<1>1. CASE Wake
  BY <1>1 DEF Wake, PowerButton, TimerWake, UsbPlugged, FlashBoot, Starts, hardware, store, ui, history
<1>2. CASE Fail
  BY <1>2 DEF Fail, PowerLoss, Crash, InBook, Down, Reset, LoseRam, hardware, store, ui, history
<1>3. CASE SaveCompletes
  BY <1>3 DEF SaveCompletes, hardware, store, ui, history
<1>4. CASE Setup
  <2>1. CASE LoadState
    BY <2>1 DEF LoadState, LeftMode, DashboardLeft, Save, hardware, store, ui, history
  <2>2. CASE SleepAgain
    BY <2>2 DEF SleepAgain, Down, LoseRam, hardware, store, ui, history
  <2>3. CASE StayAwake
    BY <2>3 DEF StayAwake, hardware, store, ui, history
  <2>4. CASE PresentSilent
    BY <2>4 DEF PresentSilent, hardware, store, ui, history
  <2>5. CASE PresentSplashless
    BY <2>5 DEF PresentSplashless, Save, hardware, store, ui, history
  <2>6. CASE LoadFrame
    BY <2>6 DEF LoadFrame, hardware, store, ui, history
  <2>7. CASE PresentSplash
    BY <2>7 DEF PresentSplash, hardware, store, ui, history
  <2>8. CASE \E recovery, back \in BOOLEAN : Route(recovery, back)
    <3>1. PICK recovery, back \in BOOLEAN : Route(recovery, back)
      BY <2>8
    <3>2. QED
      BY <3>1 DEF Route, BookTaken, Save, hardware, store, ui, history
  <2>9. QED
    BY <1>4, <2>1, <2>2, <2>3, <2>4, <2>5, <2>6, <2>7, <2>8 DEF Setup
<1>5. CASE Change
  <2>1. CASE ReaderExits
    BY <2>1 DEF ReaderExits, Leaving, BookLeft, Save, hardware, store, ui, history
  <2>2. CASE SilentRestart
    BY <2>2 DEF SilentRestart, Leaving, Restarts, UsesWifi, Reset, LoseRam, hardware, store, ui, history
  <2>3. CASE OtherExits
    BY <2>3 DEF OtherExits, Leaving, Restarts, UsesWifi, hardware, store, ui, history
  <2>4. CASE OtherEnters
    BY <2>4 DEF OtherEnters, Entering, Enter, hardware, store, ui, history
  <2>5. CASE BookOpens
    BY <2>5 DEF BookOpens, Entering, Enter, Save, hardware, store, ui, history
  <2>6. CASE BookMissing
    BY <2>6 DEF BookMissing, Entering, hardware, store, ui, history
  <2>7. QED
    BY <1>5, <2>1, <2>2, <2>3, <2>4, <2>5, <2>6 DEF Change
<1>6. CASE User
  <2>1. CASE \E b \in Book : OpenBook(b)
    <3>1. PICK b \in Book : OpenBook(b)
      BY <2>1
    <3>2. QED
      BY <3>1 DEF OpenBook, GoTo, Idle, hardware, store, ui, history
  <2>2. CASE OpenScreen
    BY <2>2 DEF OpenScreen, GoTo, Idle, hardware, store, ui, history
  <2>3. CASE GoHome
    BY <2>3 DEF GoHome, GoTo, Idle, hardware, store, ui, history
  <2>4. CASE StartSync
    BY <2>4 DEF StartSync, GoTo, Idle, IsReader, hardware, store, ui, history
  <2>5. CASE SyncEnds
    BY <2>5 DEF SyncEnds, GoTo, Idle, hardware, store, ui, history
  <2>6. CASE WifiConnects
    BY <2>6 DEF WifiConnects, Idle, hardware, store, ui, history
  <2>7. CASE UpdateRestarts
    BY <2>7 DEF UpdateRestarts, Idle, Reset, LoseRam, hardware, store, ui, history
  <2>8. CASE ChooseSleepScreen
    BY <2>8 DEF ChooseSleepScreen, Idle, hardware, store, ui, history
  <2>9. QED
    BY <1>6, <2>1, <2>2, <2>3, <2>4, <2>5, <2>6, <2>7, <2>8 DEF User
<1>7. CASE Sleep
  <2>1. CASE \E fromTimeout \in BOOLEAN : EnterDeepSleep(fromTimeout)
    <3>1. PICK fromTimeout \in BOOLEAN : EnterDeepSleep(fromTimeout)
      BY <2>1
    <3>2. QED
      BY <3>1 DEF EnterDeepSleep, Gesture, Idle, Save, hardware, store, ui, history
  <2>2. CASE \E fromTimeout \in BOOLEAN, d \in Dashboard : LockScreenSleep(fromTimeout, d)
    <3>1. PICK fromTimeout \in BOOLEAN, d \in Dashboard : LockScreenSleep(fromTimeout, d)
      BY <2>2
    <3>2. QED
      BY <3>1 DEF LockScreenSleep, Gesture, Idle, Save, hardware, store, ui, history
  <2>3. CASE SleepScreenEnters
    BY <2>3 DEF SleepScreenEnters, Entering, Enter, hardware, store, ui, history
  <2>4. CASE GoToSleepReturnsEarly
    BY <2>4 DEF GoToSleepReturnsEarly, hardware, store, ui, history
  <2>5. CASE StartDeepSleep
    BY <2>5 DEF StartDeepSleep, KeepsFrame, Down, LoseRam, hardware, store, ui, history
  <2>6. QED
    BY <1>7, <2>1, <2>2, <2>3, <2>4, <2>5 DEF Sleep
<1>8. CASE Poll
  <2>1. CASE DashboardUnconfigured
    BY <2>1 DEF DashboardUnconfigured, EnterDashboard, Entering, Still, Save, hardware, store, ui, history
  <2>2. CASE BatteryCritical
    BY <2>2 DEF BatteryCritical, EnterDashboard, Entering, Enter, Still, Save, hardware, store, ui, history
  <2>3. CASE NoCredentials
    BY <2>3 DEF NoCredentials, EnterDashboard, Entering, Enter, Still, ShowConnecting, hardware, store, ui,
      history
  <2>4. CASE StartConnecting
    BY <2>4 DEF StartConnecting, EnterDashboard, Entering, Enter, Still, ShowConnecting, hardware, store, ui,
      history
  <2>5. CASE Connected
    BY <2>5 DEF Connected, Dash, Idle, Still, hardware, store, ui, history
  <2>6. CASE WifiCancelled
    BY <2>6 DEF WifiCancelled, Dash, Idle, Still, hardware, store, ui, history
  <2>7. CASE ConnectTimesOut
    BY <2>7 DEF ConnectTimesOut, TimesOut, Dash, Idle, InDashboard, Still, Arm, Save, hardware, store, ui,
      history
  <2>8. CASE Fetched
    BY <2>8 DEF Fetched, Dash, Idle, InDashboard, Still, Arm, Save, hardware, store, ui, history
  <2>9. CASE FetchFails
    BY <2>9 DEF FetchFails, Dash, Idle, InDashboard, Still, Arm, Save, hardware, store, ui, history
  <2>10. CASE ShowsFailure
    BY <2>10 DEF ShowsFailure, Dash, Idle, InDashboard, Still, Arm, Save, hardware, store, ui, history
  <2>11. CASE GraceOver
    BY <2>11 DEF GraceOver, Dash, Idle, InDashboard, Still, Arm, Save, hardware, store, ui, history
  <2>12. CASE ExitDashboard
    BY <2>12 DEF ExitDashboard, Dash, Idle, Still, Save, hardware, store, ui, history
  <2>13. CASE Reconfigured
    BY <2>13 DEF Reconfigured, Dash, Idle, Still, hardware, store, ui, history
  <2>14. CASE TimedSleep
    BY <2>14 DEF TimedSleep, Down, LoseRam, hardware, store, ui, history
  <2>15. CASE DashboardPowerOff
    BY <2>15 DEF DashboardPowerOff, Down, LoseRam, hardware, store, ui, history
  <2>16. QED
    BY <1>8, <2>1, <2>2, <2>3, <2>4, <2>5, <2>6, <2>7, <2>8, <2>9, <2>10, <2>11, <2>12, <2>13, <2>14, <2>15 DEF
      Poll, EnterUnattended, Fetch, PowersDown
<1>9. CASE UNCHANGED vars
  BY <1>9 DEF vars, hardware, store, ui, history
<1>10. QED
  BY <1>1, <1>2, <1>3, <1>4, <1>5, <1>6, <1>7, <1>8, <1>9 DEF Next

\* Every step keeps what the two activities are about.
LEMMA ShapesStep ==
    IInv /\ [Next]_vars => Shapes'
<1> SUFFICES ASSUME IInv, [Next]_vars
             PROVE  Shapes'
  OBVIOUS
<1> USE DEF IInv, TypeOK, AppState, Default, Unreadable, Loaded, Shapes, Shaped, Committed, FreshStart,
      ActivityType, RunMode, Activity, Screen, NoActivity, Home, Reader, Sync, OpensBook, Silent
<1>1. CASE Wake
  BY <1>1 DEF Wake, PowerButton, TimerWake, UsbPlugged, FlashBoot, Starts, hardware, store, ui, history
<1>2. CASE Fail
  BY <1>2 DEF Fail, PowerLoss, Crash, InBook, Down, Reset, LoseRam, hardware, store, ui, history
<1>3. CASE SaveCompletes
  BY <1>3 DEF SaveCompletes, hardware, store, ui, history
<1>4. CASE Setup
  <2>1. CASE LoadState
    BY <2>1 DEF LoadState, LeftMode, DashboardLeft, Save, hardware, store, ui, history
  <2>2. CASE SleepAgain
    BY <2>2 DEF SleepAgain, Down, LoseRam, hardware, store, ui, history
  <2>3. CASE StayAwake
    BY <2>3 DEF StayAwake, hardware, store, ui, history
  <2>4. CASE PresentSilent
    BY <2>4 DEF PresentSilent, hardware, store, ui, history
  <2>5. CASE PresentSplashless
    BY <2>5 DEF PresentSplashless, Save, hardware, store, ui, history
  <2>6. CASE LoadFrame
    BY <2>6 DEF LoadFrame, hardware, store, ui, history
  <2>7. CASE PresentSplash
    BY <2>7 DEF PresentSplash, hardware, store, ui, history
  <2>8. CASE \E recovery, back \in BOOLEAN : Route(recovery, back)
    <3>1. PICK recovery, back \in BOOLEAN : Route(recovery, back)
      BY <2>8
    <3>2. QED
      BY <3>1 DEF Route, BookTaken, Save, hardware, store, ui, history
  <2>9. QED
    BY <1>4, <2>1, <2>2, <2>3, <2>4, <2>5, <2>6, <2>7, <2>8 DEF Setup
<1>5. CASE Change
  BY <1>5 DEF Change, ReaderExits, Leaving, BookLeft, Save, SilentRestart, Restarts, UsesWifi, Reset, LoseRam,
      OtherExits, OtherEnters, Entering, Enter, BookOpens, BookMissing, hardware, store, ui, history
<1>6. CASE User
  <2>1. CASE \E b \in Book : OpenBook(b)
    <3>1. PICK b \in Book : OpenBook(b)
      BY <2>1
    <3>2. QED
      BY <3>1 DEF OpenBook, GoTo, Idle, hardware, store, ui, history
  <2>2. CASE OpenScreen
    BY <2>2 DEF OpenScreen, GoTo, Idle, hardware, store, ui, history
  <2>3. CASE GoHome
    BY <2>3 DEF GoHome, GoTo, Idle, hardware, store, ui, history
  <2>4. CASE StartSync
    BY <2>4 DEF StartSync, GoTo, Idle, IsReader, hardware, store, ui, history
  <2>5. CASE SyncEnds
    BY <2>5 DEF SyncEnds, GoTo, Idle, hardware, store, ui, history
  <2>6. CASE WifiConnects
    BY <2>6 DEF WifiConnects, Idle, hardware, store, ui, history
  <2>7. CASE UpdateRestarts
    BY <2>7 DEF UpdateRestarts, Idle, Reset, LoseRam, hardware, store, ui, history
  <2>8. CASE ChooseSleepScreen
    BY <2>8 DEF ChooseSleepScreen, Idle, hardware, store, ui, history
  <2>9. QED
    BY <1>6, <2>1, <2>2, <2>3, <2>4, <2>5, <2>6, <2>7, <2>8 DEF User
<1>7. CASE Sleep
  BY <1>7 DEF Sleep, EnterDeepSleep, Gesture, Idle, Save, LockScreenSleep, SleepScreenEnters, Entering, Enter,
      GoToSleepReturnsEarly, StartDeepSleep, KeepsFrame, Down, LoseRam, hardware, store, ui, history
<1>8. CASE Poll
  <2>1. CASE DashboardUnconfigured
    BY <2>1 DEF DashboardUnconfigured, EnterDashboard, Entering, Still, Save, hardware, store, ui, history
  <2>2. CASE BatteryCritical
    BY <2>2 DEF BatteryCritical, EnterDashboard, Entering, Enter, Still, Save, hardware, store, ui, history
  <2>3. CASE NoCredentials
    BY <2>3 DEF NoCredentials, EnterDashboard, Entering, Enter, Still, ShowConnecting, hardware, store, ui,
      history
  <2>4. CASE StartConnecting
    BY <2>4 DEF StartConnecting, EnterDashboard, Entering, Enter, Still, ShowConnecting, hardware, store, ui,
      history
  <2>5. CASE Connected
    BY <2>5 DEF Connected, Dash, Idle, Still, hardware, store, ui, history
  <2>6. CASE WifiCancelled
    BY <2>6 DEF WifiCancelled, Dash, Idle, Still, hardware, store, ui, history
  <2>7. CASE ConnectTimesOut
    BY <2>7 DEF ConnectTimesOut, TimesOut, Dash, Idle, InDashboard, Still, Arm, Save, hardware, store, ui,
      history
  <2>8. CASE Fetched
    BY <2>8 DEF Fetched, Dash, Idle, InDashboard, Still, Arm, Save, hardware, store, ui, history
  <2>9. CASE FetchFails
    BY <2>9 DEF FetchFails, Dash, Idle, InDashboard, Still, Arm, Save, hardware, store, ui, history
  <2>10. CASE ShowsFailure
    BY <2>10 DEF ShowsFailure, Dash, Idle, InDashboard, Still, Arm, Save, hardware, store, ui, history
  <2>11. CASE GraceOver
    BY <2>11 DEF GraceOver, Dash, Idle, InDashboard, Still, Arm, Save, hardware, store, ui, history
  <2>12. CASE ExitDashboard
    BY <2>12 DEF ExitDashboard, Dash, Idle, Still, Save, hardware, store, ui, history
  <2>13. CASE Reconfigured
    BY <2>13 DEF Reconfigured, Dash, Idle, Still, hardware, store, ui, history
  <2>14. CASE TimedSleep
    BY <2>14 DEF TimedSleep, Down, LoseRam, hardware, store, ui, history
  <2>15. CASE DashboardPowerOff
    BY <2>15 DEF DashboardPowerOff, Down, LoseRam, hardware, store, ui, history
  <2>16. QED
    BY <1>8, <2>1, <2>2, <2>3, <2>4, <2>5, <2>6, <2>7, <2>8, <2>9, <2>10, <2>11, <2>12, <2>13, <2>14, <2>15 DEF
      Poll, EnterUnattended, Fetch, PowersDown
<1>9. CASE UNCHANGED vars
  BY <1>9 DEF vars, hardware, store, ui, history
<1>10. QED
  BY <1>1, <1>2, <1>3, <1>4, <1>5, <1>6, <1>7, <1>8, <1>9 DEF Next

\* No step but goToSleep() brings the sleep screen, and none replaces it.
LEMMA CommittedStep ==
    IInv /\ [Next]_vars => Committed'
<1> SUFFICES ASSUME IInv, [Next]_vars
             PROVE  Committed'
  OBVIOUS
<1> USE DEF IInv, TypeOK, AppState, Default, Unreadable, Loaded, Shapes, Shaped, Committed, FreshStart,
      ActivityType, RunMode, Activity, Screen, NoActivity, Home, Reader, Sync
<1>1. CASE Wake
  BY <1>1 DEF Wake, PowerButton, TimerWake, UsbPlugged, FlashBoot, Starts, hardware, store, ui, history
<1>2. CASE Fail
  BY <1>2 DEF Fail, PowerLoss, Crash, InBook, Down, Reset, LoseRam, hardware, store, ui, history
<1>3. CASE SaveCompletes
  BY <1>3 DEF SaveCompletes, hardware, store, ui, history
<1>4. CASE Setup
  BY <1>4 DEF Setup, LoadState, LeftMode, DashboardLeft, Save, SleepAgain, Down, LoseRam, StayAwake,
      PresentSilent, PresentSplashless, LoadFrame, PresentSplash, Route, BookTaken, hardware, store, ui,
      history
<1>5. CASE Change
  BY <1>5 DEF Change, ReaderExits, Leaving, BookLeft, Save, SilentRestart, Restarts, UsesWifi, Reset, LoseRam,
      OtherExits, OtherEnters, Entering, Enter, BookOpens, BookMissing, hardware, store, ui, history
<1>6. CASE User
  BY <1>6 DEF User, OpenBook, GoTo, Idle, OpenScreen, GoHome, StartSync, IsReader, SyncEnds, WifiConnects,
      UpdateRestarts, Reset, LoseRam, ChooseSleepScreen, hardware, store, ui, history
<1>7. CASE Sleep
  BY <1>7 DEF Sleep, EnterDeepSleep, Gesture, Idle, Save, LockScreenSleep, SleepScreenEnters, Entering, Enter,
      GoToSleepReturnsEarly, StartDeepSleep, KeepsFrame, Down, LoseRam, hardware, store, ui, history
<1>8. CASE Poll
  <2>1. CASE DashboardUnconfigured
    BY <2>1 DEF DashboardUnconfigured, EnterDashboard, Entering, Still, Save, hardware, store, ui, history
  <2>2. CASE BatteryCritical
    BY <2>2 DEF BatteryCritical, EnterDashboard, Entering, Enter, Still, Save, hardware, store, ui, history
  <2>3. CASE NoCredentials
    BY <2>3 DEF NoCredentials, EnterDashboard, Entering, Enter, Still, ShowConnecting, hardware, store, ui,
      history
  <2>4. CASE StartConnecting
    BY <2>4 DEF StartConnecting, EnterDashboard, Entering, Enter, Still, ShowConnecting, hardware, store, ui,
      history
  <2>5. CASE Connected
    BY <2>5 DEF Connected, Dash, Idle, Still, hardware, store, ui, history
  <2>6. CASE WifiCancelled
    BY <2>6 DEF WifiCancelled, Dash, Idle, Still, hardware, store, ui, history
  <2>7. CASE ConnectTimesOut
    BY <2>7 DEF ConnectTimesOut, TimesOut, Dash, Idle, InDashboard, Still, Arm, Save, hardware, store, ui,
      history
  <2>8. CASE Fetched
    BY <2>8 DEF Fetched, Dash, Idle, InDashboard, Still, Arm, Save, hardware, store, ui, history
  <2>9. CASE FetchFails
    BY <2>9 DEF FetchFails, Dash, Idle, InDashboard, Still, Arm, Save, hardware, store, ui, history
  <2>10. CASE ShowsFailure
    BY <2>10 DEF ShowsFailure, Dash, Idle, InDashboard, Still, Arm, Save, hardware, store, ui, history
  <2>11. CASE GraceOver
    BY <2>11 DEF GraceOver, Dash, Idle, InDashboard, Still, Arm, Save, hardware, store, ui, history
  <2>12. CASE ExitDashboard
    BY <2>12 DEF ExitDashboard, Dash, Idle, Still, Save, hardware, store, ui, history
  <2>13. CASE Reconfigured
    BY <2>13 DEF Reconfigured, Dash, Idle, Still, hardware, store, ui, history
  <2>14. CASE TimedSleep
    BY <2>14 DEF TimedSleep, Down, LoseRam, hardware, store, ui, history
  <2>15. CASE DashboardPowerOff
    BY <2>15 DEF DashboardPowerOff, Down, LoseRam, hardware, store, ui, history
  <2>16. QED
    BY <1>8, <2>1, <2>2, <2>3, <2>4, <2>5, <2>6, <2>7, <2>8, <2>9, <2>10, <2>11, <2>12, <2>13, <2>14, <2>15 DEF
      Poll, EnterUnattended, Fetch, PowersDown
<1>9. CASE UNCHANGED vars
  BY <1>9 DEF vars, hardware, store, ui, history
<1>10. QED
  BY <1>1, <1>2, <1>3, <1>4, <1>5, <1>6, <1>7, <1>8, <1>9 DEF Next

\* Every reset leaves a device without activities, flag or save under way.
LEMMA FreshStartStep ==
    IInv /\ [Next]_vars => FreshStart'
<1> SUFFICES ASSUME IInv, [Next]_vars
             PROVE  FreshStart'
  OBVIOUS
<1> USE DEF IInv, TypeOK, AppState, Default, Unreadable, Loaded, Shapes, Shaped, Committed, FreshStart,
      ActivityType, RunMode, Activity, Screen, NoActivity, Home, Reader, Sync
<1>1. CASE Wake
  BY <1>1 DEF Wake, PowerButton, TimerWake, UsbPlugged, FlashBoot, Starts, hardware, store, ui, history
<1>2. CASE Fail
  BY <1>2 DEF Fail, PowerLoss, Crash, InBook, Down, Reset, LoseRam, hardware, store, ui, history
<1>3. CASE SaveCompletes
  BY <1>3 DEF SaveCompletes, hardware, store, ui, history
<1>4. CASE Setup
  BY <1>4 DEF Setup, LoadState, LeftMode, DashboardLeft, Save, SleepAgain, Down, LoseRam, StayAwake,
      PresentSilent, PresentSplashless, LoadFrame, PresentSplash, Route, BookTaken, hardware, store, ui,
      history
<1>5. CASE Change
  BY <1>5 DEF Change, ReaderExits, Leaving, BookLeft, Save, SilentRestart, Restarts, UsesWifi, Reset, LoseRam,
      OtherExits, OtherEnters, Entering, Enter, BookOpens, BookMissing, hardware, store, ui, history
<1>6. CASE User
  BY <1>6 DEF User, OpenBook, GoTo, Idle, OpenScreen, GoHome, StartSync, IsReader, SyncEnds, WifiConnects,
      UpdateRestarts, Reset, LoseRam, ChooseSleepScreen, hardware, store, ui, history
<1>7. CASE Sleep
  BY <1>7 DEF Sleep, EnterDeepSleep, Gesture, Idle, Save, LockScreenSleep, SleepScreenEnters, Entering, Enter,
      GoToSleepReturnsEarly, StartDeepSleep, KeepsFrame, Down, LoseRam, hardware, store, ui, history
<1>8. CASE Poll
  BY <1>8 DEF Poll, EnterUnattended, Fetch, PowersDown, DashboardUnconfigured, EnterDashboard, Entering, Still,
      Save, BatteryCritical, Enter, NoCredentials, ShowConnecting, StartConnecting, Connected, Dash, Idle,
      WifiCancelled, ConnectTimesOut, TimesOut, InDashboard, Arm, Fetched, FetchFails, ShowsFailure, GraceOver,
      ExitDashboard, Reconfigured, TimedSleep, Down, LoseRam, DashboardPowerOff, hardware, store, ui, history
<1>9. CASE UNCHANGED vars
  BY <1>9 DEF vars, hardware, store, ui, history
<1>10. QED
  BY <1>1, <1>2, <1>3, <1>4, <1>5, <1>6, <1>7, <1>8, <1>9 DEF Next

\* The timer is armed by a dashboard that saved its mode, and disarmed by every wake-up.
LEMMA ArmedStep ==
    IInv /\ [Next]_vars => Armed'
<1> SUFFICES ASSUME IInv, [Next]_vars
             PROVE  Armed'
  OBVIOUS
<1> USE DEF IInv, TypeOK, AppState, Default, Unreadable, Loaded, Shapes, Shaped, Committed, FreshStart,
      ActivityType, RunMode, Activity, Screen, NoActivity, Home, Reader, Sync, Armed
<1>1. CASE Wake
  BY <1>1 DEF Wake, PowerButton, TimerWake, UsbPlugged, FlashBoot, Starts, hardware, store, ui, history
<1>2. CASE Fail
  BY <1>2 DEF Fail, PowerLoss, Crash, InBook, Down, Reset, LoseRam, hardware, store, ui, history
<1>3. CASE SaveCompletes
  BY <1>3 DEF SaveCompletes, hardware, store, ui, history
<1>4. CASE Setup
  BY <1>4 DEF Setup, LoadState, LeftMode, DashboardLeft, Save, SleepAgain, Down, LoseRam, StayAwake,
      PresentSilent, PresentSplashless, LoadFrame, PresentSplash, Route, BookTaken, hardware, store, ui,
      history
<1>5. CASE Change
  BY <1>5 DEF Change, ReaderExits, Leaving, BookLeft, Save, SilentRestart, Restarts, UsesWifi, Reset, LoseRam,
      OtherExits, OtherEnters, Entering, Enter, BookOpens, BookMissing, hardware, store, ui, history
<1>6. CASE User
  BY <1>6 DEF User, OpenBook, GoTo, Idle, OpenScreen, GoHome, StartSync, IsReader, SyncEnds, WifiConnects,
      UpdateRestarts, Reset, LoseRam, ChooseSleepScreen, hardware, store, ui, history
<1>7. CASE Sleep
  BY <1>7 DEF Sleep, EnterDeepSleep, Gesture, Idle, Save, LockScreenSleep, SleepScreenEnters, Entering, Enter,
      GoToSleepReturnsEarly, StartDeepSleep, KeepsFrame, Down, LoseRam, hardware, store, ui, history
<1>8. CASE Poll
  <2>1. CASE DashboardUnconfigured
    BY <2>1 DEF DashboardUnconfigured, EnterDashboard, Entering, Still, Save, hardware, store, ui, history
  <2>2. CASE BatteryCritical
    BY <2>2 DEF BatteryCritical, EnterDashboard, Entering, Enter, Still, Save, hardware, store, ui, history
  <2>3. CASE NoCredentials
    BY <2>3 DEF NoCredentials, EnterDashboard, Entering, Enter, Still, ShowConnecting, hardware, store, ui,
      history
  <2>4. CASE StartConnecting
    BY <2>4 DEF StartConnecting, EnterDashboard, Entering, Enter, Still, ShowConnecting, hardware, store, ui,
      history
  <2>5. CASE Connected
    BY <2>5 DEF Connected, Dash, Idle, Still, hardware, store, ui, history
  <2>6. CASE WifiCancelled
    BY <2>6 DEF WifiCancelled, Dash, Idle, Still, hardware, store, ui, history
  <2>7. CASE ConnectTimesOut
    BY <2>7 DEF ConnectTimesOut, TimesOut, Dash, Idle, InDashboard, Still, Arm, Save, hardware, store, ui,
      history
  <2>8. CASE Fetched
    BY <2>8 DEF Fetched, Dash, Idle, InDashboard, Still, Arm, Save, hardware, store, ui, history
  <2>9. CASE FetchFails
    BY <2>9 DEF FetchFails, Dash, Idle, InDashboard, Still, Arm, Save, hardware, store, ui, history
  <2>10. CASE ShowsFailure
    BY <2>10 DEF ShowsFailure, Dash, Idle, InDashboard, Still, Arm, Save, hardware, store, ui, history
  <2>11. CASE GraceOver
    BY <2>11 DEF GraceOver, Dash, Idle, InDashboard, Still, Arm, Save, hardware, store, ui, history
  <2>12. CASE ExitDashboard
    BY <2>12 DEF ExitDashboard, Dash, Idle, Still, Save, hardware, store, ui, history
  <2>13. CASE Reconfigured
    BY <2>13 DEF Reconfigured, Dash, Idle, Still, hardware, store, ui, history
  <2>14. CASE TimedSleep
    BY <2>14 DEF TimedSleep, Down, LoseRam, hardware, store, ui, history
  <2>15. CASE DashboardPowerOff
    BY <2>15 DEF DashboardPowerOff, Down, LoseRam, hardware, store, ui, history
  <2>16. QED
    BY <1>8, <2>1, <2>2, <2>3, <2>4, <2>5, <2>6, <2>7, <2>8, <2>9, <2>10, <2>11, <2>12, <2>13, <2>14, <2>15 DEF
      Poll, EnterUnattended, Fetch, PowersDown
<1>9. CASE UNCHANGED vars
  BY <1>9 DEF vars, hardware, store, ui, history
<1>10. QED
  BY <1>1, <1>2, <1>3, <1>4, <1>5, <1>6, <1>7, <1>8, <1>9 DEF Next

\* The sync, and the restart back into the book after it, follow an orderly exit of the reader.
LEMMA SyncStep ==
    IInv /\ [Next]_vars => SyncIsOrderly'
<1> SUFFICES ASSUME IInv, [Next]_vars
             PROVE  SyncIsOrderly'
  OBVIOUS
<1> USE DEF IInv, TypeOK, AppState, Default, Unreadable, Loaded, Shapes, Shaped, Committed, FreshStart,
      ActivityType, RunMode, Activity, Screen, NoActivity, Home, Reader, Sync, SyncIsOrderly, IsReader
<1>1. CASE Wake
  BY <1>1 DEF Wake, PowerButton, TimerWake, UsbPlugged, FlashBoot, Starts, hardware, store, ui, history
<1>2. CASE Fail
  BY <1>2 DEF Fail, PowerLoss, Crash, InBook, Down, Reset, LoseRam, hardware, store, ui, history
<1>3. CASE SaveCompletes
  BY <1>3 DEF SaveCompletes, hardware, store, ui, history
<1>4. CASE Setup
  BY <1>4 DEF Setup, LoadState, LeftMode, DashboardLeft, Save, SleepAgain, Down, LoseRam, StayAwake,
      PresentSilent, PresentSplashless, LoadFrame, PresentSplash, Route, BookTaken, hardware, store, ui,
      history
<1>5. CASE Change
  BY <1>5 DEF Change, ReaderExits, Leaving, BookLeft, Save, SilentRestart, Restarts, UsesWifi, Reset, LoseRam,
      OtherExits, OtherEnters, Entering, Enter, BookOpens, BookMissing, hardware, store, ui, history
<1>6. CASE User
  BY <1>6 DEF User, OpenBook, GoTo, Idle, OpenScreen, GoHome, StartSync, IsReader, SyncEnds, WifiConnects,
      UpdateRestarts, Reset, LoseRam, ChooseSleepScreen, hardware, store, ui, history
<1>7. CASE Sleep
  BY <1>7 DEF Sleep, EnterDeepSleep, Gesture, Idle, Save, LockScreenSleep, SleepScreenEnters, Entering, Enter,
      GoToSleepReturnsEarly, StartDeepSleep, KeepsFrame, Down, LoseRam, hardware, store, ui, history
<1>8. CASE Poll
  <2>1. CASE DashboardUnconfigured
    BY <2>1 DEF DashboardUnconfigured, EnterDashboard, Entering, Still, Save, hardware, store, ui, history
  <2>2. CASE BatteryCritical
    BY <2>2 DEF BatteryCritical, EnterDashboard, Entering, Enter, Still, Save, hardware, store, ui, history
  <2>3. CASE NoCredentials
    BY <2>3 DEF NoCredentials, EnterDashboard, Entering, Enter, Still, ShowConnecting, hardware, store, ui,
      history
  <2>4. CASE StartConnecting
    BY <2>4 DEF StartConnecting, EnterDashboard, Entering, Enter, Still, ShowConnecting, hardware, store, ui,
      history
  <2>5. CASE Connected
    BY <2>5 DEF Connected, Dash, Idle, Still, hardware, store, ui, history
  <2>6. CASE WifiCancelled
    BY <2>6 DEF WifiCancelled, Dash, Idle, Still, hardware, store, ui, history
  <2>7. CASE ConnectTimesOut
    BY <2>7 DEF ConnectTimesOut, TimesOut, Dash, Idle, InDashboard, Still, Arm, Save, hardware, store, ui,
      history
  <2>8. CASE Fetched
    BY <2>8 DEF Fetched, Dash, Idle, InDashboard, Still, Arm, Save, hardware, store, ui, history
  <2>9. CASE FetchFails
    BY <2>9 DEF FetchFails, Dash, Idle, InDashboard, Still, Arm, Save, hardware, store, ui, history
  <2>10. CASE ShowsFailure
    BY <2>10 DEF ShowsFailure, Dash, Idle, InDashboard, Still, Arm, Save, hardware, store, ui, history
  <2>11. CASE GraceOver
    BY <2>11 DEF GraceOver, Dash, Idle, InDashboard, Still, Arm, Save, hardware, store, ui, history
  <2>12. CASE ExitDashboard
    BY <2>12 DEF ExitDashboard, Dash, Idle, Still, Save, hardware, store, ui, history
  <2>13. CASE Reconfigured
    BY <2>13 DEF Reconfigured, Dash, Idle, Still, hardware, store, ui, history
  <2>14. CASE TimedSleep
    BY <2>14 DEF TimedSleep, Down, LoseRam, hardware, store, ui, history
  <2>15. CASE DashboardPowerOff
    BY <2>15 DEF DashboardPowerOff, Down, LoseRam, hardware, store, ui, history
  <2>16. QED
    BY <1>8, <2>1, <2>2, <2>3, <2>4, <2>5, <2>6, <2>7, <2>8, <2>9, <2>10, <2>11, <2>12, <2>13, <2>14, <2>15 DEF
      Poll, EnterUnattended, Fetch, PowersDown
<1>9. CASE UNCHANGED vars
  BY <1>9 DEF vars, hardware, store, ui, history
<1>10. QED
  BY <1>1, <1>2, <1>3, <1>4, <1>5, <1>6, <1>7, <1>8, <1>9 DEF Next

\* Every step keeps the account of the crashes.
LEMMA CrashesStep ==
    IInv /\ [Next]_vars => CrashesAreCounted'
<1> SUFFICES ASSUME IInv, [Next]_vars
             PROVE  CrashesAreCounted'
  OBVIOUS
<1> USE DEF IInv, TypeOK, AppState, Default, Unreadable, Loaded, Shapes, Shaped, Committed, FreshStart,
      ActivityType, RunMode, Activity, Screen, NoActivity, Home, Reader, Sync, SyncIsOrderly,
      CrashesAreCounted, Counted, Harmless, IsReader, OpensBook, Silent
<1>1. CASE Wake
  BY <1>1 DEF Wake, PowerButton, TimerWake, UsbPlugged, FlashBoot, Starts, hardware, store, ui, history
<1>2. CASE Fail
  BY <1>2 DEF Fail, PowerLoss, Crash, InBook, Down, Reset, LoseRam, hardware, store, ui, history
<1>3. CASE SaveCompletes
  BY <1>3 DEF SaveCompletes, hardware, store, ui, history
<1>4. CASE Setup
  <2>1. CASE LoadState
    BY <2>1 DEF LoadState, LeftMode, DashboardLeft, Save, hardware, store, ui, history
  <2>2. CASE SleepAgain
    BY <2>2 DEF SleepAgain, Down, LoseRam, hardware, store, ui, history
  <2>3. CASE StayAwake
    BY <2>3 DEF StayAwake, hardware, store, ui, history
  <2>4. CASE PresentSilent
    BY <2>4 DEF PresentSilent, hardware, store, ui, history
  <2>5. CASE PresentSplashless
    BY <2>5 DEF PresentSplashless, Save, hardware, store, ui, history
  <2>6. CASE LoadFrame
    BY <2>6 DEF LoadFrame, hardware, store, ui, history
  <2>7. CASE PresentSplash
    BY <2>7 DEF PresentSplash, hardware, store, ui, history
  <2>8. CASE \E recovery, back \in BOOLEAN : Route(recovery, back)
    <3>1. PICK recovery, back \in BOOLEAN : Route(recovery, back)
      BY <2>8
    <3>2. CASE pending' = Reader(ram.openEpubPath) /\ boot.silent # "reader"
      <4>1. OpensBook /\ ram' = BookTaken /\ disk' = Unreadable
        BY <3>1, <3>2 DEF Route, Save
      <4>2. ram'.readerActivityLoadCount = 1
        BY <4>1 DEF BookTaken
      <4>3. crashes # 2
        BY <3>1, <4>1 DEF Route
      <4>4. QED
        BY <3>1, <4>1, <4>2, <4>3 DEF Route, hardware, store, ui, history
    <3>3. CASE boot.silent = "reader"
      <4>1. crashes' = 0
        BY <3>1, <3>3 DEF Route, history
      <4>2. QED
        BY <4>1
    <3>4. CASE pending' # Reader(ram.openEpubPath) /\ boot.silent # "reader"
      <4>1. pending'.kind # "reader" /\ UNCHANGED <<ram, disk, current, crashes>>
        BY <3>1, <3>4 DEF Route, store
      <4>2. QED
        BY <3>1, <4>1 DEF Route
    <3>5. QED
      BY <3>2, <3>3, <3>4
  <2>9. QED
    BY <1>4, <2>1, <2>2, <2>3, <2>4, <2>5, <2>6, <2>7, <2>8 DEF Setup
<1>5. CASE Change
  <2>1. CASE ReaderExits
    BY <2>1 DEF ReaderExits, Leaving, BookLeft, Save, hardware, store, ui, history
  <2>2. CASE SilentRestart
    BY <2>2 DEF SilentRestart, Leaving, Restarts, UsesWifi, Reset, LoseRam, hardware, store, ui, history
  <2>3. CASE OtherExits
    BY <2>3 DEF OtherExits, Leaving, Restarts, UsesWifi, hardware, store, ui, history
  <2>4. CASE OtherEnters
    BY <2>4 DEF OtherEnters, Entering, Enter, hardware, store, ui, history
  <2>5. CASE BookOpens
    BY <2>5 DEF BookOpens, Entering, Enter, Save, hardware, store, ui, history
  <2>6. CASE BookMissing
    BY <2>6 DEF BookMissing, Entering, hardware, store, ui, history
  <2>7. QED
    BY <1>5, <2>1, <2>2, <2>3, <2>4, <2>5, <2>6 DEF Change
<1>6. CASE User
  <2>1. CASE \E b \in Book : OpenBook(b)
    <3>1. PICK b \in Book : OpenBook(b)
      BY <2>1
    <3>2. QED
      BY <3>1 DEF OpenBook, GoTo, Idle, hardware, store, ui, history
  <2>2. CASE OpenScreen
    BY <2>2 DEF OpenScreen, GoTo, Idle, hardware, store, ui, history
  <2>3. CASE GoHome
    BY <2>3 DEF GoHome, GoTo, Idle, hardware, store, ui, history
  <2>4. CASE StartSync
    BY <2>4 DEF StartSync, GoTo, Idle, IsReader, hardware, store, ui, history
  <2>5. CASE SyncEnds
    BY <2>5 DEF SyncEnds, GoTo, Idle, hardware, store, ui, history
  <2>6. CASE WifiConnects
    BY <2>6 DEF WifiConnects, Idle, hardware, store, ui, history
  <2>7. CASE UpdateRestarts
    BY <2>7 DEF UpdateRestarts, Idle, Reset, LoseRam, hardware, store, ui, history
  <2>8. CASE ChooseSleepScreen
    BY <2>8 DEF ChooseSleepScreen, Idle, hardware, store, ui, history
  <2>9. QED
    BY <1>6, <2>1, <2>2, <2>3, <2>4, <2>5, <2>6, <2>7, <2>8 DEF User
<1>7. CASE Sleep
  <2>1. CASE \E fromTimeout \in BOOLEAN : EnterDeepSleep(fromTimeout)
    <3>1. PICK fromTimeout \in BOOLEAN : EnterDeepSleep(fromTimeout)
      BY <2>1
    <3>2. QED
      BY <3>1 DEF EnterDeepSleep, Gesture, Idle, Save, hardware, store, ui, history
  <2>2. CASE \E fromTimeout \in BOOLEAN, d \in Dashboard : LockScreenSleep(fromTimeout, d)
    <3>1. PICK fromTimeout \in BOOLEAN, d \in Dashboard : LockScreenSleep(fromTimeout, d)
      BY <2>2
    <3>2. QED
      BY <3>1 DEF LockScreenSleep, Gesture, Idle, Save, hardware, store, ui, history
  <2>3. CASE SleepScreenEnters
    BY <2>3 DEF SleepScreenEnters, Entering, Enter, hardware, store, ui, history
  <2>4. CASE GoToSleepReturnsEarly
    BY <2>4 DEF GoToSleepReturnsEarly, hardware, store, ui, history
  <2>5. CASE StartDeepSleep
    BY <2>5 DEF StartDeepSleep, KeepsFrame, Down, LoseRam, hardware, store, ui, history
  <2>6. QED
    BY <1>7, <2>1, <2>2, <2>3, <2>4, <2>5 DEF Sleep
<1>8. CASE Poll
  <2>1. CASE DashboardUnconfigured
    BY <2>1 DEF DashboardUnconfigured, EnterDashboard, Entering, Still, Save, hardware, store, ui, history
  <2>2. CASE BatteryCritical
    BY <2>2 DEF BatteryCritical, EnterDashboard, Entering, Enter, Still, Save, hardware, store, ui, history
  <2>3. CASE NoCredentials
    BY <2>3 DEF NoCredentials, EnterDashboard, Entering, Enter, Still, ShowConnecting, hardware, store, ui,
      history
  <2>4. CASE StartConnecting
    BY <2>4 DEF StartConnecting, EnterDashboard, Entering, Enter, Still, ShowConnecting, hardware, store, ui,
      history
  <2>5. CASE Connected
    BY <2>5 DEF Connected, Dash, Idle, Still, hardware, store, ui, history
  <2>6. CASE WifiCancelled
    BY <2>6 DEF WifiCancelled, Dash, Idle, Still, hardware, store, ui, history
  <2>7. CASE ConnectTimesOut
    BY <2>7 DEF ConnectTimesOut, TimesOut, Dash, Idle, InDashboard, Still, Arm, Save, hardware, store, ui,
      history
  <2>8. CASE Fetched
    BY <2>8 DEF Fetched, Dash, Idle, InDashboard, Still, Arm, Save, hardware, store, ui, history
  <2>9. CASE FetchFails
    BY <2>9 DEF FetchFails, Dash, Idle, InDashboard, Still, Arm, Save, hardware, store, ui, history
  <2>10. CASE ShowsFailure
    BY <2>10 DEF ShowsFailure, Dash, Idle, InDashboard, Still, Arm, Save, hardware, store, ui, history
  <2>11. CASE GraceOver
    BY <2>11 DEF GraceOver, Dash, Idle, InDashboard, Still, Arm, Save, hardware, store, ui, history
  <2>12. CASE ExitDashboard
    BY <2>12 DEF ExitDashboard, Dash, Idle, Still, Save, hardware, store, ui, history
  <2>13. CASE Reconfigured
    BY <2>13 DEF Reconfigured, Dash, Idle, Still, hardware, store, ui, history
  <2>14. CASE TimedSleep
    BY <2>14 DEF TimedSleep, Down, LoseRam, hardware, store, ui, history
  <2>15. CASE DashboardPowerOff
    BY <2>15 DEF DashboardPowerOff, Down, LoseRam, hardware, store, ui, history
  <2>16. QED
    BY <1>8, <2>1, <2>2, <2>3, <2>4, <2>5, <2>6, <2>7, <2>8, <2>9, <2>10, <2>11, <2>12, <2>13, <2>14, <2>15 DEF
      Poll, EnterUnattended, Fetch, PowersDown
<1>9. CASE UNCHANGED vars
  BY <1>9 DEF vars, hardware, store, ui, history
<1>10. QED
  BY <1>1, <1>2, <1>3, <1>4, <1>5, <1>6, <1>7, <1>8, <1>9 DEF Next

\* A device that was never switched on satisfies the invariant.
LEMMA InitIInv == Init => IInv
<1> SUFFICES ASSUME Init PROVE IInv
  OBVIOUS
<1> USE DEF Init
<1>1. StateTypes /\ ActivityTypes
  BY TypesGood DEF StateTypes, ActivityTypes
<1>2. BooleanTypes /\ OtherTypes
  BY DEF BooleanTypes, OtherTypes
<1>3. Shapes /\ Committed /\ FreshStart /\ Armed
  BY DEF Shapes, Shaped, Committed, FreshStart, Armed, NoActivity, Screen, Activity
<1>4. SyncIsOrderly /\ CrashesAreCounted
  BY DEF SyncIsOrderly, CrashesAreCounted, NoActivity, Screen, Activity
<1>5. QED
  BY <1>1, <1>2, <1>3, <1>4, TypeParts DEF IInv

\* The invariant is inductive.
LEMMA NextIInv == IInv /\ [Next]_vars => IInv'
<1> SUFFICES ASSUME IInv, [Next]_vars PROVE IInv'
  OBVIOUS
<1>1. (TypeOK <=> StateTypes /\ ActivityTypes /\ BooleanTypes /\ OtherTypes)'
  BY TypeParts, PTL
<1>2. StateTypes' /\ ActivityTypes' /\ BooleanTypes' /\ OtherTypes'
  BY StateTypesStep, ActivityTypesStep, BooleanTypesStep, OtherTypesStep
<1>3. Shapes' /\ Committed' /\ FreshStart'
  BY ShapesStep, CommittedStep, FreshStartStep
<1>4. Armed' /\ SyncIsOrderly' /\ CrashesAreCounted'
  BY ArmedStep, SyncStep, CrashesStep
<1>5. QED
  BY <1>1, <1>2, <1>3, <1>4 DEF IInv

\* So it holds in every state of every behaviour.
LEMMA Inductive == Spec => []IInv
  BY InitIInv, NextIInv, PTL DEF Spec

\* Type correctness of the boot and sleep cycle: in particular the load count in the state never exceeds one,
\* and the latch of enterDeepSleep() stands only while that deep sleep is under way.
THEOREM BootTypeCorrect == Spec => []TypeOK
  BY Inductive, PTL DEF IInv

\* A device that committed to deep sleep is not brought back by a restart in an onExit(): main.cpp's latch
\* makes silentRestart() and silentRestartToReader() return.
THEOREM SleepFinality == Spec => SleepIsFinal
<1>1. TypeOK /\ [Next]_vars => [latch /\ pc' = "setup" => cause' \in {"panic", "watchdog"}]_vars
  <2> SUFFICES ASSUME TypeOK, [Next]_vars, latch, pc' = "setup", vars' # vars
               PROVE  cause' \in {"panic", "watchdog"}
    OBVIOUS
  <2>1. power = "on" /\ pc \in {"sleep", "halting", "timed", "powerOff"}
    BY DEF TypeOK
  <2>2. Next
    OBVIOUS
  <2>3. CASE Wake
    BY <2>1, <2>3 DEF Wake, PowerButton, TimerWake, UsbPlugged, FlashBoot, Starts
  <2>4. CASE Fail
    BY <2>1, <2>4 DEF Fail, PowerLoss, Crash, Down, Reset
  <2>5. CASE SaveCompletes \/ Setup
    BY <2>1, <2>5 DEF SaveCompletes, Setup, LoadState, SleepAgain, StayAwake, PresentSilent, PresentSplashless,
          LoadFrame, PresentSplash, Route
  <2>6. CASE Change
    BY <2>1, <2>6 DEF Change, ReaderExits, SilentRestart, Restarts, OtherExits, OtherEnters, BookOpens, BookMissing
  <2>7. CASE User
    BY <2>1, <2>7 DEF User, OpenBook, OpenScreen, GoHome, StartSync, SyncEnds, GoTo, WifiConnects, UpdateRestarts,
          ChooseSleepScreen, Idle
  <2>8. CASE Sleep
    BY <2>1, <2>8 DEF Sleep, EnterDeepSleep, LockScreenSleep, Gesture, Idle, SleepScreenEnters,
          GoToSleepReturnsEarly, StartDeepSleep, Down
  <2>9. CASE Poll
    BY <2>1, <2>9 DEF Poll, EnterUnattended, Fetch, PowersDown, DashboardUnconfigured, BatteryCritical,
          NoCredentials, StartConnecting, EnterDashboard, Connected, WifiCancelled, ConnectTimesOut, Fetched,
          FetchFails, ShowsFailure, GraceOver, ExitDashboard, Reconfigured, Dash, Idle, Arm, TimedSleep,
          DashboardPowerOff, Down
  <2>10. QED
    BY <2>2, <2>3, <2>4, <2>5, <2>6, <2>7, <2>8, <2>9 DEF Next
<1>2. QED
  BY <1>1, BootTypeCorrect, PTL DEF Spec, SleepIsFinal

\* goToSleepAndPoll() saves the mode before it arms the timer, and nothing changes the card while the device
\* sleeps: the poll the timer wakes the device for always finds its dashboard.
THEOREM TimerSound == Spec => []TimerFindsDashboard
<1>1. IInv => TimerFindsDashboard
  BY DEF IInv, Armed, TimerFindsDashboard
<1>2. QED
  BY <1>1, Inductive, PTL

\* The load count bounds how often setup() opens a book that crashes the reader, whatever the power does
\* between the crashes.
THEOREM CrashBound == Spec => []NoBootLoop
<1>1. IInv => NoBootLoop
  BY DEF IInv, CrashesAreCounted, NoBootLoop
<1>2. QED
  BY <1>1, Inductive, PTL

-----------------------------------------------------------------------------
(***************************************************************************)
(* What one life of the RAM leaves to the next: the book and the frame.    *)
(***************************************************************************)

Resets == {"panic", "watchdog", "software"}

\* What a life knows of how it began, and the traces a dashboard leaves.
Lives ==
    /\ saving \/ pc \in {"halted", "setup"} \/ ram = Loaded
    /\ boot.dashboard # None => cause = "timer" /\ pc \notin {"halted", "setup", "frame"}
    /\ boot.silent # "none" => cause \in Resets
    /\ pc \in {"halted", "setup"} => boot.silent = "none"
    /\ rtc # "none" => cause \in Resets
    /\ timer => power = "sleep"
    /\ current.auto # "attended" => current.kind = "dashboard"
    /\ pending.auto # "attended" => pending.kind = "dashboard"
    /\ state # "none" => current.kind = "dashboard"

\* The book of the last sleep gesture is the one a state would have setup() open.
Named(s) == s.openEpubPath = reading /\ s.lastSleepFromReader /\ s.readerActivityLoadCount = 0

\* From the gesture to the wake-up that opens it: in RAM while the reader leaves and the sleep is prepared,
\* on the card while the device is down, in RAM again in setup() and while a dashboard polls unattended.
BookKept ==
    /\ IsReader /\ pending = NoActivity => ram.openEpubPath = current.about
    /\ reading # None =>
         /\ power # "on" => Named(Loaded)
         /\ pc = "setup" /\ cause \notin Resets => Named(Loaded)
         /\ pc \in {"wake", "present", "frame", "route"} /\ cause \notin Resets => Named(ram)
         /\ pc = "sleep" \/ pending.auto = "handOff" =>
              /\ ram.openEpubPath = reading /\ ram.lastSleepFromReader
              /\ current.kind # "reader" => ram.readerActivityLoadCount = 0
         /\ pc \in {"halting", "powerOff"} \/ current.auto # "attended" \/ pending.auto = "timerWake" => Named(ram)
    /\ pc = "halting" => ~saving

\* The panel holds the picture of a sleep; if a frame is on the card, it is not of an earlier one.
SleepFrame == panel \in {"static", "quick", "dashboard", "lowBattery"} /\ (frame => panel # "static")

\* Where showBootScreen is off, the panel holds the picture of a sleep.
FrameKept ==
    /\ power = "sleep" \/ (pc = "setup" /\ cause \in {"button", "timer"}) => Loaded.showBootScreen \/ SleepFrame
    /\ (pc \in {"wake", "present"} /\ cause = "button") \/ (pc \in {"wake", "present", "route"} /\ boot.dashboard # None)
          => ram.showBootScreen \/ SleepFrame
    /\ pc = "frame" => SleepFrame
    /\ pc = "halting" => panel = sleepScreen /\ sleepScreen # "lock"
    /\ pc = "powerOff" => panel = "lowBattery"
    /\ pc = "timed" => ram.showBootScreen \/ SleepFrame
    /\ state = "Showing" => panel = "dashboard"
    /\ pc = "loop" /\ "timerWake" \in {current.auto, pending.auto} => ram.showBootScreen \/ SleepFrame
    /\ pc = "loop" /\ "handOff" \in {current.auto, pending.auto} => ram.showBootScreen

\* What the card reads back as.
LEMMA SavedReadsBack ==
    ASSUME IInv, IInv'
    PROVE  /\ disk' = Unreadable => Loaded' = Default
           /\ disk' = ram' => Loaded' = ram'
           /\ disk' = disk => Loaded' = Loaded
<1>1. ram' \in AppState
  BY DEF IInv, TypeOK
<1>2. ram' # Unreadable
  BY <1>1 DEF AppState, Unreadable
<1>3. QED
  BY <1>2 DEF Loaded

\* Every step keeps the traces.
LEMMA LivesStep ==
    IInv /\ Lives /\ [Next]_vars => Lives'
<1> SUFFICES ASSUME IInv, Lives, [Next]_vars
             PROVE  Lives'
  OBVIOUS
<1>0. /\ ActivityTypes /\ OtherTypes /\ FreshStart /\ SyncIsOrderly
      /\ ram \in AppState /\ Loaded \in AppState /\ ram # Unreadable
  BY TypeParts, TypesGood DEF IInv, StateTypes, AppState, Unreadable
<1> USE <1>0
<1> USE DEF Lives, Resets, Loaded, Default, FreshStart, Shapes, Shaped, Activity, Screen, NoActivity, Home, Reader, Sync
<1>1. CASE Wake
  BY <1>1 DEF OtherTypes, Wake, PowerButton, TimerWake, UsbPlugged, FlashBoot, Starts, hardware, store, ui, history
<1>2. CASE Fail
  BY <1>2 DEF Fail, PowerLoss, Crash, InBook, Down, Reset, LoseRam, hardware, store, ui, history
<1>3. CASE SaveCompletes
  BY <1>3 DEF SaveCompletes, hardware, store, ui, history
<1>4. CASE Setup
  <2>1. CASE LoadState
    BY <2>1 DEF LoadState, LeftMode, DashboardLeft, Save, hardware, store, ui, history
  <2>2. CASE SleepAgain
    BY <2>2 DEF SleepAgain, Down, LoseRam, hardware, store, ui, history
  <2>3. CASE StayAwake
    BY <2>3 DEF StayAwake, hardware, store, ui, history
  <2>4. CASE PresentSilent
    BY <2>4 DEF PresentSilent, hardware, store, ui, history
  <2>5. CASE PresentSplashless
    BY <2>5 DEF PresentSplashless, Save, hardware, store, ui, history
  <2>6. CASE LoadFrame
    BY <2>6 DEF LoadFrame, hardware, store, ui, history
  <2>7. CASE PresentSplash
    BY <2>7 DEF PresentSplash, hardware, store, ui, history
  <2>8. CASE \E recovery, back \in BOOLEAN : Route(recovery, back)
    <3>1. PICK recovery, back \in BOOLEAN : Route(recovery, back)
      BY <2>8
    <3>2. QED
      BY <3>1 DEF Route, BookTaken, Save, hardware, store, ui, history
  <2>9. QED
    BY <1>4, <2>1, <2>2, <2>3, <2>4, <2>5, <2>6, <2>7, <2>8 DEF Setup
<1>5. CASE Change
  <2>1. CASE ReaderExits
    BY <2>1 DEF ReaderExits, Leaving, IsReader, BookLeft, Save, hardware, store, ui, history
  <2>2. CASE SilentRestart
    BY <2>2 DEF SilentRestart, Leaving, Restarts, UsesWifi, Reset, LoseRam, hardware, store, ui, history
  <2>3. CASE OtherExits
    BY <2>3 DEF OtherExits, Leaving, Restarts, UsesWifi, hardware, store, ui, history
  <2>4. CASE OtherEnters
    BY <2>4 DEF OtherEnters, Entering, Enter, hardware, store, ui, history
  <2>5. CASE BookOpens
    BY <2>5 DEF BookOpens, Entering, Enter, Save, hardware, store, ui, history
  <2>6. CASE BookMissing
    BY <2>6 DEF BookMissing, Entering, hardware, store, ui, history
  <2>7. QED
    BY <1>5, <2>1, <2>2, <2>3, <2>4, <2>5, <2>6 DEF Change
<1>6. CASE User
  <2>1. CASE \E b \in Book : OpenBook(b)
    <3>1. PICK b \in Book : OpenBook(b)
      BY <2>1
    <3>2. QED
      BY <3>1 DEF OpenBook, GoTo, Idle, hardware, store, ui, history
  <2>2. CASE OpenScreen
    BY <2>2 DEF OpenScreen, GoTo, Idle, hardware, store, ui, history
  <2>3. CASE GoHome
    BY <2>3 DEF GoHome, GoTo, Idle, hardware, store, ui, history
  <2>4. CASE StartSync
    BY <2>4 DEF StartSync, GoTo, Idle, IsReader, hardware, store, ui, history
  <2>5. CASE SyncEnds
    BY <2>5 DEF SyncEnds, GoTo, Idle, hardware, store, ui, history
  <2>6. CASE WifiConnects
    BY <2>6 DEF WifiConnects, Idle, hardware, store, ui, history
  <2>7. CASE UpdateRestarts
    BY <2>7 DEF UpdateRestarts, Idle, Reset, LoseRam, hardware, store, ui, history
  <2>8. CASE ChooseSleepScreen
    BY <2>8 DEF ChooseSleepScreen, Idle, hardware, store, ui, history
  <2>9. QED
    BY <1>6, <2>1, <2>2, <2>3, <2>4, <2>5, <2>6, <2>7, <2>8 DEF User
<1>7. CASE Sleep
  <2>1. CASE \E fromTimeout \in BOOLEAN : EnterDeepSleep(fromTimeout)
    <3>1. PICK fromTimeout \in BOOLEAN : EnterDeepSleep(fromTimeout)
      BY <2>1
    <3>2. QED
      BY <3>1 DEF EnterDeepSleep, Gesture, Idle, Save, hardware, store, ui, history
  <2>2. CASE \E fromTimeout \in BOOLEAN, d \in Dashboard : LockScreenSleep(fromTimeout, d)
    <3>1. PICK fromTimeout \in BOOLEAN, d \in Dashboard : LockScreenSleep(fromTimeout, d)
      BY <2>2
    <3>2. QED
      BY <3>1 DEF LockScreenSleep, Gesture, Idle, Save, hardware, store, ui, history
  <2>3. CASE SleepScreenEnters
    BY <2>3 DEF SleepScreenEnters, Entering, Enter, hardware, store, ui, history
  <2>4. CASE GoToSleepReturnsEarly
    BY <2>4 DEF GoToSleepReturnsEarly, hardware, store, ui, history
  <2>5. CASE StartDeepSleep
    BY <2>5 DEF StartDeepSleep, KeepsFrame, Down, LoseRam, hardware, store, ui, history
  <2>6. QED
    BY <1>7, <2>1, <2>2, <2>3, <2>4, <2>5 DEF Sleep
<1>8. CASE Poll
  <2>1. CASE DashboardUnconfigured
    BY <2>1 DEF DashboardUnconfigured, EnterDashboard, Entering, Still, Save, hardware, store, ui, history
  <2>2. CASE BatteryCritical
    BY <2>2 DEF BatteryCritical, EnterDashboard, Entering, Enter, Still, Save, hardware, store, ui, history
  <2>3. CASE NoCredentials
    BY <2>3 DEF NoCredentials, EnterDashboard, Entering, Enter, Still, ShowConnecting, hardware, store, ui,
      history
  <2>4. CASE StartConnecting
    BY <2>4 DEF StartConnecting, EnterDashboard, Entering, Enter, Still, ShowConnecting, hardware, store, ui,
      history
  <2>5. CASE Connected
    BY <2>5 DEF Connected, Dash, Idle, Still, hardware, store, ui, history
  <2>6. CASE WifiCancelled
    BY <2>6 DEF WifiCancelled, Dash, Idle, Still, hardware, store, ui, history
  <2>7. CASE ConnectTimesOut
    BY <2>7 DEF ConnectTimesOut, TimesOut, Dash, Idle, InDashboard, Still, Arm, Save, hardware, store, ui,
      history
  <2>8. CASE Fetched
    BY <2>8 DEF Fetched, Dash, Idle, InDashboard, Still, Arm, Save, hardware, store, ui, history
  <2>9. CASE FetchFails
    BY <2>9 DEF FetchFails, Dash, Idle, InDashboard, Still, Arm, Save, hardware, store, ui, history
  <2>10. CASE ShowsFailure
    BY <2>10 DEF ShowsFailure, Dash, Idle, InDashboard, Still, Arm, Save, hardware, store, ui, history
  <2>11. CASE GraceOver
    BY <2>11 DEF GraceOver, Dash, Idle, InDashboard, Still, Arm, Save, hardware, store, ui, history
  <2>12. CASE ExitDashboard
    BY <2>12 DEF ExitDashboard, Dash, Idle, Still, Save, hardware, store, ui, history
  <2>13. CASE Reconfigured
    BY <2>13 DEF Reconfigured, Dash, Idle, Still, hardware, store, ui, history
  <2>14. CASE TimedSleep
    BY <2>14 DEF TimedSleep, Down, LoseRam, hardware, store, ui, history
  <2>15. CASE DashboardPowerOff
    BY <2>15 DEF DashboardPowerOff, Down, LoseRam, hardware, store, ui, history
  <2>16. QED
    BY <1>8, <2>1, <2>2, <2>3, <2>4, <2>5, <2>6, <2>7, <2>8, <2>9, <2>10, <2>11, <2>12, <2>13, <2>14, <2>15 DEF
      Poll, EnterUnattended, Fetch, PowersDown
<1>9. CASE UNCHANGED vars
  BY <1>9 DEF vars, hardware, store, ui, history
<1>10. QED
  BY <1>1, <1>2, <1>3, <1>4, <1>5, <1>6, <1>7, <1>8, <1>9 DEF Next

\* A board whose cold boots are not taken for the button and that stays awake on USB power, so that it wakes up
\* to the button of a sleep only; its goToSleep() reaches the sleep screen.
TellsWakesApart == ~ColdBootImpliesPowerButton /\ StaysAwakeOnUsb /\ GoToSleepDispatches

\* A board whose goToSleep() reaches the sleep screen keeps the book.
LEMMA BookStep ==
    GoToSleepDispatches /\ IInv /\ Lives /\ BookKept /\ IInv' /\ [Next]_vars => BookKept'
<1> SUFFICES ASSUME GoToSleepDispatches, IInv, Lives, BookKept, IInv', [Next]_vars
             PROVE  BookKept'
  OBVIOUS
<1>0. /\ ActivityTypes /\ OtherTypes /\ FreshStart /\ Committed /\ Shapes /\ GoToSleepDispatches
      /\ ram \in AppState /\ ram' \in AppState /\ Loaded \in AppState /\ (power = "on" <=> pc # "halted")
      /\ current.auto \in RunMode /\ pending.auto \in RunMode /\ sleepScreen \in {"static", "quick", "lock"}
      /\ disk' = Unreadable => Loaded' = Default
      /\ disk' = ram' => Loaded' = ram'
      /\ disk' = disk => Loaded' = Loaded
  BY TypeParts, TypesGood, SavedReadsBack DEF IInv, TypeOK, ActivityType
<1> USE <1>0
<1> USE DEF BookKept, Named, Lives, Resets, AppState, Default, RunMode, FreshStart, Committed, IsReader, Activity, Screen, NoActivity,
      Home, Reader, Sync
<1>1. CASE Wake
  BY <1>1 DEF Wake, PowerButton, TimerWake, UsbPlugged, FlashBoot, Starts, hardware, store, ui, history
<1>2. CASE Fail
  BY <1>2 DEF Fail, PowerLoss, Crash, InBook, Down, Reset, LoseRam, hardware, store, ui, history
<1>3. CASE SaveCompletes
  BY <1>3 DEF SaveCompletes, hardware, store, ui, history
<1>4. CASE Setup
  <2>1. CASE LoadState
    BY <2>1 DEF LoadState, LeftMode, DashboardLeft, Save, hardware, store, ui, history
  <2>2. CASE SleepAgain
    BY <2>2 DEF SleepAgain, StaysAsleep, WakeupReason, Down, LoseRam, hardware, store, ui, history
  <2>3. CASE StayAwake
    BY <2>3 DEF StayAwake, hardware, store, ui, history
  <2>4. CASE PresentSilent
    BY <2>4 DEF PresentSilent, hardware, store, ui, history
  <2>5. CASE PresentSplashless
    BY <2>5 DEF PresentSplashless, Save, hardware, store, ui, history
  <2>6. CASE LoadFrame
    BY <2>6 DEF LoadFrame, hardware, store, ui, history
  <2>7. CASE PresentSplash
    BY <2>7 DEF PresentSplash, hardware, store, ui, history
  <2>8. CASE \E recovery, back \in BOOLEAN : Route(recovery, back)
    <3>1. PICK recovery, back \in BOOLEAN : Route(recovery, back)
      BY <2>8
    <3>2. QED
      BY <3>1 DEF Route, BookTaken, Save, hardware, store, ui, history
  <2>9. QED
    BY <1>4, <2>1, <2>2, <2>3, <2>4, <2>5, <2>6, <2>7, <2>8 DEF Setup
<1>5. CASE Change
  <2>1. CASE ReaderExits
    BY <2>1 DEF ReaderExits, Leaving, BookLeft, Save, hardware, store, ui, history
  <2>2. CASE SilentRestart
    BY <2>2 DEF SilentRestart, Leaving, Restarts, UsesWifi, Reset, LoseRam, hardware, store, ui, history
  <2>3. CASE OtherExits
    BY <2>3 DEF OtherExits, Leaving, Restarts, UsesWifi, hardware, store, ui, history
  <2>4. CASE OtherEnters
    BY <2>4 DEF OtherEnters, Entering, Enter, hardware, store, ui, history
  <2>5. CASE BookOpens
    BY <2>5 DEF BookOpens, Entering, Enter, Save, hardware, store, ui, history
  <2>6. CASE BookMissing
    BY <2>6 DEF BookMissing, Entering, hardware, store, ui, history
  <2>7. QED
    BY <1>5, <2>1, <2>2, <2>3, <2>4, <2>5, <2>6 DEF Change
<1>6. CASE User
  <2>1. CASE \E b \in Book : OpenBook(b)
    <3>1. PICK b \in Book : OpenBook(b)
      BY <2>1
    <3>2. QED
      BY <3>1 DEF OpenBook, GoTo, Idle, hardware, store, ui, history
  <2>2. CASE OpenScreen
    BY <2>2 DEF OpenScreen, GoTo, Idle, hardware, store, ui, history
  <2>3. CASE GoHome
    BY <2>3 DEF GoHome, GoTo, Idle, hardware, store, ui, history
  <2>4. CASE StartSync
    BY <2>4 DEF StartSync, GoTo, Idle, IsReader, hardware, store, ui, history
  <2>5. CASE SyncEnds
    BY <2>5 DEF SyncEnds, GoTo, Idle, hardware, store, ui, history
  <2>6. CASE WifiConnects
    BY <2>6 DEF WifiConnects, Idle, hardware, store, ui, history
  <2>7. CASE UpdateRestarts
    BY <2>7 DEF UpdateRestarts, Idle, Reset, LoseRam, hardware, store, ui, history
  <2>8. CASE ChooseSleepScreen
    BY <2>8 DEF ChooseSleepScreen, Idle, hardware, store, ui, history
  <2>9. QED
    BY <1>6, <2>1, <2>2, <2>3, <2>4, <2>5, <2>6, <2>7, <2>8 DEF User
<1>7. CASE Sleep
  <2>1. CASE \E fromTimeout \in BOOLEAN : EnterDeepSleep(fromTimeout)
    <3>1. PICK fromTimeout \in BOOLEAN : EnterDeepSleep(fromTimeout)
      BY <2>1
    <3>2. QED
      BY <3>1 DEF EnterDeepSleep, WasReading, Gesture, Idle, Save, hardware, store, ui, history
  <2>2. CASE \E fromTimeout \in BOOLEAN, d \in Dashboard : LockScreenSleep(fromTimeout, d)
    <3>1. PICK fromTimeout \in BOOLEAN, d \in Dashboard : LockScreenSleep(fromTimeout, d)
      BY <2>2
    <3>2. QED
      BY <3>1 DEF LockScreenSleep, WasReading, Gesture, Idle, Save, hardware, store, ui, history
  <2>3. CASE SleepScreenEnters
    BY <2>3 DEF SleepScreenEnters, Entering, Enter, hardware, store, ui, history
  <2>4. CASE GoToSleepReturnsEarly
    BY <2>4 DEF GoToSleepReturnsEarly, hardware, store, ui, history
  <2>5. CASE StartDeepSleep
    BY <2>5 DEF StartDeepSleep, KeepsFrame, Down, LoseRam, hardware, store, ui, history
  <2>6. QED
    BY <1>7, <2>1, <2>2, <2>3, <2>4, <2>5 DEF Sleep
<1>8. CASE Poll
  <2>1. CASE DashboardUnconfigured
    BY <2>1 DEF DashboardUnconfigured, EnterDashboard, Entering, Still, Save, hardware, store, ui, history
  <2>2. CASE BatteryCritical
    BY <2>2 DEF BatteryCritical, EnterDashboard, Entering, Enter, Still, Save, hardware, store, ui, history
  <2>3. CASE NoCredentials
    BY <2>3 DEF NoCredentials, EnterDashboard, Entering, Enter, Still, ShowConnecting, hardware, store, ui,
      history
  <2>4. CASE StartConnecting
    BY <2>4 DEF StartConnecting, EnterDashboard, Entering, Enter, Still, ShowConnecting, hardware, store, ui,
      history
  <2>5. CASE Connected
    BY <2>5 DEF Connected, Dash, Idle, Still, hardware, store, ui, history
  <2>6. CASE WifiCancelled
    BY <2>6 DEF WifiCancelled, Dash, Idle, Still, hardware, store, ui, history
  <2>7. CASE ConnectTimesOut
    BY <2>7 DEF ConnectTimesOut, TimesOut, Dash, Idle, InDashboard, Still, Arm, Save, hardware, store, ui,
      history
  <2>8. CASE Fetched
    BY <2>8 DEF Fetched, Dash, Idle, InDashboard, Still, Arm, Save, hardware, store, ui, history
  <2>9. CASE FetchFails
    BY <2>9 DEF FetchFails, Dash, Idle, InDashboard, Still, Arm, Save, hardware, store, ui, history
  <2>10. CASE ShowsFailure
    BY <2>10 DEF ShowsFailure, Dash, Idle, InDashboard, Still, Arm, Save, hardware, store, ui, history
  <2>11. CASE GraceOver
    BY <2>11 DEF GraceOver, Dash, Idle, InDashboard, Still, Arm, Save, hardware, store, ui, history
  <2>12. CASE ExitDashboard
    BY <2>12 DEF ExitDashboard, Dash, Idle, Still, Save, hardware, store, ui, history
  <2>13. CASE Reconfigured
    BY <2>13 DEF Reconfigured, Dash, Idle, Still, hardware, store, ui, history
  <2>14. CASE TimedSleep
    BY <2>14 DEF TimedSleep, Unattended, InDashboard, Down, LoseRam, hardware, store, ui, history
  <2>15. CASE DashboardPowerOff
    BY <2>15 DEF DashboardPowerOff, Down, LoseRam, hardware, store, ui, history
  <2>16. QED
    BY <1>8, <2>1, <2>2, <2>3, <2>4, <2>5, <2>6, <2>7, <2>8, <2>9, <2>10, <2>11, <2>12, <2>13, <2>14, <2>15 DEF
      Poll, EnterUnattended, Fetch, PowersDown
<1>9. CASE UNCHANGED vars
  BY <1>9 DEF vars, hardware, store, ui, history
<1>10. QED
  BY <1>1, <1>2, <1>3, <1>4, <1>5, <1>6, <1>7, <1>8, <1>9 DEF Next
\* A board that tells a cold boot from a wake-up and stays awake on USB keeps the frame.
LEMMA FrameStep ==
    TellsWakesApart /\ IInv /\ Lives /\ FrameKept /\ IInv' /\ [Next]_vars => FrameKept'
<1> SUFFICES ASSUME TellsWakesApart, IInv, Lives, FrameKept, IInv', [Next]_vars
             PROVE  FrameKept'
  OBVIOUS
<1>0. /\ ActivityTypes /\ OtherTypes /\ FreshStart /\ Committed /\ Armed /\ TellsWakesApart
      /\ ram \in AppState /\ ram' \in AppState /\ Loaded \in AppState /\ (power = "on" <=> pc # "halted")
      /\ current.auto \in RunMode /\ pending.auto \in RunMode /\ sleepScreen \in {"static", "quick", "lock"}
      /\ disk' = Unreadable => Loaded' = Default
      /\ disk' = ram' => Loaded' = ram'
      /\ disk' = disk => Loaded' = Loaded
  BY TypeParts, TypesGood, SavedReadsBack DEF IInv, TypeOK, ActivityType
<1> USE <1>0
<1> USE DEF TellsWakesApart, FrameKept, SleepFrame, Lives, Resets, AppState, Default, RunMode, FreshStart, Committed, Armed, WakeupReason, Activity,
      Screen, NoActivity, Home, Reader, Sync
<1>1. CASE Wake
  BY <1>1 DEF Wake, PowerButton, TimerWake, UsbPlugged, FlashBoot, Starts, hardware, store, ui, history
<1>2. CASE Fail
  BY <1>2 DEF Fail, PowerLoss, Crash, InBook, Down, Reset, LoseRam, hardware, store, ui, history
<1>3. CASE SaveCompletes
  BY <1>3 DEF SaveCompletes, hardware, store, ui, history
<1>4. CASE Setup
  <2>1. CASE LoadState
    BY <2>1 DEF LoadState, LeftMode, DashboardLeft, Save, hardware, store, ui, history
  <2>2. CASE SleepAgain
    BY <2>2 DEF SleepAgain, StaysAsleep, Down, LoseRam, hardware, store, ui, history
  <2>3. CASE StayAwake
    BY <2>3 DEF StayAwake, hardware, store, ui, history
  <2>4. CASE PresentSilent
    BY <2>4 DEF PresentSilent, hardware, store, ui, history
  <2>5. CASE PresentSplashless
    BY <2>5 DEF PresentSplashless, SplashlessWake, Save, hardware, store, ui, history
  <2>6. CASE LoadFrame
    BY <2>6 DEF LoadFrame, hardware, store, ui, history
  <2>7. CASE PresentSplash
    BY <2>7 DEF PresentSplash, hardware, store, ui, history
  <2>8. CASE \E recovery, back \in BOOLEAN : Route(recovery, back)
    <3>1. PICK recovery, back \in BOOLEAN : Route(recovery, back)
      BY <2>8
    <3>2. QED
      BY <3>1 DEF Route, BookTaken, Save, hardware, store, ui, history
  <2>9. QED
    BY <1>4, <2>1, <2>2, <2>3, <2>4, <2>5, <2>6, <2>7, <2>8 DEF Setup
<1>5. CASE Change
  <2>1. CASE ReaderExits
    BY <2>1 DEF ReaderExits, Leaving, BookLeft, Save, hardware, store, ui, history
  <2>2. CASE SilentRestart
    BY <2>2 DEF SilentRestart, Leaving, Restarts, UsesWifi, Reset, LoseRam, hardware, store, ui, history
  <2>3. CASE OtherExits
    BY <2>3 DEF OtherExits, Leaving, Restarts, UsesWifi, hardware, store, ui, history
  <2>4. CASE OtherEnters
    BY <2>4 DEF OtherEnters, Entering, Enter, hardware, store, ui, history
  <2>5. CASE BookOpens
    BY <2>5 DEF BookOpens, Entering, Enter, Save, hardware, store, ui, history
  <2>6. CASE BookMissing
    BY <2>6 DEF BookMissing, Entering, hardware, store, ui, history
  <2>7. QED
    BY <1>5, <2>1, <2>2, <2>3, <2>4, <2>5, <2>6 DEF Change
<1>6. CASE User
  <2>1. CASE \E b \in Book : OpenBook(b)
    <3>1. PICK b \in Book : OpenBook(b)
      BY <2>1
    <3>2. QED
      BY <3>1 DEF OpenBook, GoTo, Idle, hardware, store, ui, history
  <2>2. CASE OpenScreen
    BY <2>2 DEF OpenScreen, GoTo, Idle, hardware, store, ui, history
  <2>3. CASE GoHome
    BY <2>3 DEF GoHome, GoTo, Idle, hardware, store, ui, history
  <2>4. CASE StartSync
    BY <2>4 DEF StartSync, GoTo, Idle, IsReader, hardware, store, ui, history
  <2>5. CASE SyncEnds
    BY <2>5 DEF SyncEnds, GoTo, Idle, hardware, store, ui, history
  <2>6. CASE WifiConnects
    BY <2>6 DEF WifiConnects, Idle, hardware, store, ui, history
  <2>7. CASE UpdateRestarts
    BY <2>7 DEF UpdateRestarts, Idle, Reset, LoseRam, hardware, store, ui, history
  <2>8. CASE ChooseSleepScreen
    BY <2>8 DEF ChooseSleepScreen, Idle, hardware, store, ui, history
  <2>9. QED
    BY <1>6, <2>1, <2>2, <2>3, <2>4, <2>5, <2>6, <2>7, <2>8 DEF User
<1>7. CASE Sleep
  <2>1. CASE \E fromTimeout \in BOOLEAN : EnterDeepSleep(fromTimeout)
    <3>1. PICK fromTimeout \in BOOLEAN : EnterDeepSleep(fromTimeout)
      BY <2>1
    <3>2. QED
      BY <3>1 DEF EnterDeepSleep, Gesture, Idle, Save, hardware, store, ui, history
  <2>2. CASE \E fromTimeout \in BOOLEAN, d \in Dashboard : LockScreenSleep(fromTimeout, d)
    <3>1. PICK fromTimeout \in BOOLEAN, d \in Dashboard : LockScreenSleep(fromTimeout, d)
      BY <2>2
    <3>2. QED
      BY <3>1 DEF LockScreenSleep, Gesture, Idle, Save, hardware, store, ui, history
  <2>3. CASE SleepScreenEnters
    BY <2>3 DEF SleepScreenEnters, Entering, Enter, hardware, store, ui, history
  <2>4. CASE GoToSleepReturnsEarly
    BY <2>4 DEF GoToSleepReturnsEarly, hardware, store, ui, history
  <2>5. CASE StartDeepSleep
    BY <2>5 DEF StartDeepSleep, KeepsFrame, Down, LoseRam, hardware, store, ui, history
  <2>6. QED
    BY <1>7, <2>1, <2>2, <2>3, <2>4, <2>5 DEF Sleep
<1>8. CASE Poll
  <2>1. CASE DashboardUnconfigured
    BY <2>1 DEF DashboardUnconfigured, EnterDashboard, Entering, Still, Save, hardware, store, ui, history
  <2>2. CASE BatteryCritical
    BY <2>2 DEF BatteryCritical, EnterDashboard, Entering, Enter, Still, Save, hardware, store, ui, history
  <2>3. CASE NoCredentials
    BY <2>3 DEF NoCredentials, EnterDashboard, Entering, Enter, Still, ShowConnecting, hardware, store, ui,
      history
  <2>4. CASE StartConnecting
    BY <2>4 DEF StartConnecting, EnterDashboard, Entering, Enter, Still, ShowConnecting, hardware, store, ui,
      history
  <2>5. CASE Connected
    BY <2>5 DEF Connected, Dash, Idle, Still, hardware, store, ui, history
  <2>6. CASE WifiCancelled
    BY <2>6 DEF WifiCancelled, Dash, Idle, Still, hardware, store, ui, history
  <2>7. CASE ConnectTimesOut
    BY <2>7 DEF ConnectTimesOut, TimesOut, Unattended, Dash, Idle, InDashboard, Still, Arm, Save, hardware, store, ui,
      history
  <2>8. CASE Fetched
    BY <2>8 DEF Fetched, Dash, Idle, InDashboard, Still, Arm, Save, hardware, store, ui, history
  <2>9. CASE FetchFails
    BY <2>9 DEF FetchFails, Unattended, Dash, Idle, InDashboard, Still, Arm, Save, hardware, store, ui, history
  <2>10. CASE ShowsFailure
    BY <2>10 DEF ShowsFailure, Dash, Idle, InDashboard, Still, Arm, Save, hardware, store, ui, history
  <2>11. CASE GraceOver
    BY <2>11 DEF GraceOver, Dash, Idle, InDashboard, Still, Arm, Save, hardware, store, ui, history
  <2>12. CASE ExitDashboard
    BY <2>12 DEF ExitDashboard, Dash, Idle, Still, Save, hardware, store, ui, history
  <2>13. CASE Reconfigured
    BY <2>13 DEF Reconfigured, Unattended, InDashboard, Dash, Idle, Still, hardware, store, ui, history
  <2>14. CASE TimedSleep
    BY <2>14 DEF TimedSleep, Down, LoseRam, hardware, store, ui, history
  <2>15. CASE DashboardPowerOff
    BY <2>15 DEF DashboardPowerOff, Down, LoseRam, hardware, store, ui, history
  <2>16. QED
    BY <1>8, <2>1, <2>2, <2>3, <2>4, <2>5, <2>6, <2>7, <2>8, <2>9, <2>10, <2>11, <2>12, <2>13, <2>14, <2>15 DEF
      Poll, EnterUnattended, Fetch, PowersDown
<1>9. CASE UNCHANGED vars
  BY <1>9 DEF vars, hardware, store, ui, history
<1>10. QED
  BY <1>1, <1>2, <1>3, <1>4, <1>5, <1>6, <1>7, <1>8, <1>9 DEF Next

\* A device that was never switched on has no book to come back to, and its panel shows the maker's picture.
LEMMA InitLives == Init => Lives /\ BookKept /\ FrameKept
  BY DEF Init, Lives, BookKept, FrameKept, SleepFrame, IsReader, Activity, Screen, NoActivity

\* How a life began is known on every board.
LEMMA LivesInductive == Spec => [](IInv /\ Lives)
<1>1. Init => IInv /\ Lives
  BY InitIInv, InitLives
<1>2. IInv /\ Lives /\ [Next]_vars => (IInv /\ Lives)'
  BY NextIInv, LivesStep
<1>3. QED
  BY <1>1, <1>2, PTL DEF Spec

\* Route() with nothing else asked for opens the book that is kept.
LEMMA RouteOpensBook ==
    ASSUME IInv, Lives, BookKept, Route(FALSE, FALSE), cause = "button", reading # None
    PROVE  pending' = Reader(reading)
<1>1. boot.dashboard = None /\ boot.silent = "none" /\ pc = "route" /\ cause \notin Resets
  BY DEF Lives, Resets, Route
<1>2. Named(ram)
  BY <1>1 DEF BookKept
<1>3. OpensBook /\ ram.openEpubPath = reading
  BY <1>2 DEF Named, OpensBook
<1>4. QED
  BY <1>1, <1>3 DEF Route, Silent

\* The book the user was reading at his last sleep gesture is what a press of the power button brings back, on
\* every board and after any number of polls, crashes and failures, provided goToSleep() reaches the sleep
\* screen: if its loop() returns early the reader has not left, and its load still counts as a crash.
THEOREM BookComesBack == ASSUME GoToSleepDispatches PROVE Spec => ResumesBook
<1>1. Init => BookKept
  BY InitLives
<1>2. (IInv /\ Lives) /\ (IInv /\ Lives)' /\ BookKept /\ [Next]_vars => BookKept'
  BY BookStep
<1>3. (IInv /\ Lives) /\ BookKept /\ [Next]_vars
        => [Route(FALSE, FALSE) /\ cause = "button" /\ reading # None => pending' = Reader(reading)]_vars
  BY RouteOpensBook
<1>4. QED
  BY <1>1, <1>2, <1>3, LivesInductive, PTL DEF Spec, ResumesBook

\* The splash is left out over a complete frame of a sleep only, on a board that cannot take a cold boot for the
\* end of a sleep.  Elsewhere showBootScreen may be left over from a sleep that did not end.
THEOREM SplashSkippedOverFrame == ASSUME TellsWakesApart PROVE Spec => []SplashlessOverSleepFrame
<1>1. Init => FrameKept
  BY InitLives
<1>2. (IInv /\ Lives) /\ (IInv /\ Lives)' /\ FrameKept /\ [Next]_vars => FrameKept'
  BY FrameStep
<1>3. FrameKept => SplashlessOverSleepFrame
  BY DEF FrameKept, SleepFrame, SplashlessOverSleepFrame
<1>4. QED
  BY <1>1, <1>2, <1>3, LivesInductive, PTL DEF Spec

=============================================================================
