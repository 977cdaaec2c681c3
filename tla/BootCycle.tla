------------------------------ MODULE BootCycle ------------------------------
(***************************************************************************)
(* How the device comes to life, what it opens, and how it goes back to    *)
(* sleep: setup() and loop() of main.cpp with the persistent application   *)
(* state (CrossPointState), the reader's and the dashboards' part in it.   *)
(*                                                                         *)
(* RAM is lost at every sleep, restart, crash and power failure; the card  *)
(* (disk, frame), the RTC flag of a silent restart (rtc) and the picture   *)
(* on the panel survive, the flag only while there is power.               *)
(***************************************************************************)
EXTENDS Naturals

CONSTANTS Book, Dashboard, Tempest, None,
          HasTouch,                   \* BoardConfig::hasTouch()
          ColdBootImpliesPowerButton, \* HalGPIO::coldBootImpliesPowerButton()
          StaysAwakeOnUsb,            \* boards that boot on USB power
          ClickWakes,                 \* shortPwrBtn = SLEEP
          SleepScreens,               \* the sleep screen settings the user may choose
          GoToSleepDispatches         \* goToSleep()'s loop() always reaches the sleep screen

ASSUME BootAssumption ==
    /\ Tempest \subseteq Dashboard
    /\ None \notin Book \cup Dashboard
    /\ {HasTouch, ColdBootImpliesPowerButton, StaysAwakeOnUsb, ClickWakes, GoToSleepDispatches} \subseteq BOOLEAN
    /\ SleepScreens \subseteq {"static", "quick", "lock"}

VARIABLES
    power, timer,     \* "on", "sleep" (deep sleep) or "off"; the RTC timer is armed
    cause, held,      \* what reset the chip; the wake press was held through verification
    pc, boot,         \* where the main task is; what setup() took from the RTC flag and the mode
    ram, disk, saving,\* APP_STATE, its file, a save under way
    rtc,              \* silentRebootMagic and silentRebootTarget
    latch,            \* deepSleepInProgress
    current, pending, \* the activity and the one about to replace it
    state, wifi,      \* the dashboard's State; the radio is on
    panel, frame,     \* what the panel shows; sleep_frame.bin exists
    sleepScreen,      \* SETTINGS.sleepScreen
    reading,          \* history: the book open at the user's last sleep gesture
    selfOpened,       \* history: setup() opened the book, not the user
    crashes           \* history: how often in a row a book setup() opened has crashed

hardware == <<power, timer, cause, held>>
store    == <<ram, disk, saving>>
ui       == <<current, pending, state>>
history  == <<reading, selfOpened, crashes>>
vars     == <<hardware, pc, boot, store, rtc, latch, ui, wifi, panel, frame, sleepScreen, history>>
-----------------------------------------------------------------------------
(* CrossPointState *)
AppState == [openEpubPath : Book \cup {None}, readerActivityLoadCount : 0..1, lastSleepFromReader : BOOLEAN,
             showBootScreen : BOOLEAN, activeDashboardMode : Dashboard \cup {None}]
Default  == [openEpubPath |-> None, readerActivityLoadCount |-> 0, lastSleepFromReader |-> FALSE,
             showBootScreen |-> TRUE, activeDashboardMode |-> None]
Unreadable == [openEpubPath |-> None]   \* missing or cut short: it does not parse

Loaded == IF disk = Unreadable THEN Default ELSE disk

\* saveToFile() truncates the file and writes it anew.
Save(s) == ram' = s /\ disk' = Unreadable /\ saving' = TRUE
SaveCompletes == saving /\ saving' = FALSE /\ disk' = ram
                 /\ UNCHANGED <<hardware, pc, boot, ram, rtc, latch, ui, wifi, panel, frame, sleepScreen, history>>

(* Activities; auto says how a dashboard runs unattended. *)
RunMode == {"attended", "timerWake", "handOff"}
Activity(kind, about, auto) == [kind |-> kind, about |-> about, auto |-> auto]
Screen(kind) == Activity(kind, None, "attended")
Reader(b)    == Activity("reader", b, "attended")
Sync(b)      == Activity("sync", b, "attended")
NoActivity   == Screen("none")
Home         == Screen("home")

IsReader     == current.kind = "reader"
InDashboard  == current.kind = "dashboard"
Unattended   == InDashboard /\ current.auto # "attended"
UsesWifi     == wifi /\ current.kind \in {"network", "sync", "dashboard"}
PreventAutoSleep == InDashboard /\ (Unattended \/ state # "Failed")

(* What every loss of power or reset does to RAM. *)
LoseRamKeepsLatch == /\ ram' = Default /\ saving' = FALSE /\ UNCHANGED latch
                     /\ current' = NoActivity /\ pending' = NoActivity /\ state' = "none" /\ wifi' = FALSE
                     /\ boot' = [silent |-> "none", dashboard |-> None]
LoseRam == /\ ram' = Default /\ saving' = FALSE /\ latch' = FALSE
           /\ current' = NoActivity /\ pending' = NoActivity /\ state' = "none" /\ wifi' = FALSE
           /\ boot' = [silent |-> "none", dashboard |-> None]
Down(p, t)  == power' = p /\ timer' = t /\ pc' = "halted" /\ LoseRam
Reset(c, target) == cause' = c /\ rtc' = target /\ pc' = "setup" /\ LoseRam

Init == /\ power = "off" /\ timer = FALSE /\ cause = "cold" /\ held = TRUE
        /\ pc = "halted" /\ boot = [silent |-> "none", dashboard |-> None]
        /\ ram = Default /\ disk = Unreadable /\ saving = FALSE
        /\ rtc = "none" /\ latch = FALSE
        /\ current = NoActivity /\ pending = NoActivity /\ state = "none" /\ wifi = FALSE
        /\ panel = "static" /\ frame = FALSE /\ sleepScreen \in SleepScreens
        /\ reading = None /\ selfOpened = FALSE /\ crashes = 0
-----------------------------------------------------------------------------
(* Waking up *)

\* HalGPIO::getWakeupReason()
WakeupReason == IF cause = "button" \/ (cause = "cold" /\ ColdBootImpliesPowerButton) THEN "PowerButton"
                ELSE IF cause = "usb" THEN "AfterUSBPower"
                ELSE IF cause = "flash" THEN "AfterFlash" ELSE "Other"

Starts(c) == /\ power # "on"
             /\ power' = "on" /\ pc' = "setup" /\ cause' = c /\ timer' = FALSE
             /\ UNCHANGED <<boot, store, rtc, latch, ui, wifi, panel, frame, sleepScreen, history>>
PowerButton == Starts(IF power = "sleep" THEN "button" ELSE "cold") /\ held' \in BOOLEAN
TimerWake   == timer /\ Starts("timer") /\ UNCHANGED held
UsbPlugged  == ~timer /\ Starts("usb") /\ UNCHANGED held
FlashBoot   == Starts("flash") /\ UNCHANGED held

PowerLoss == /\ power # "off"
             /\ Down("off", FALSE) /\ rtc' = "none"
             /\ reading' = IF power = "on" THEN None ELSE reading
             /\ UNCHANGED <<cause, held, disk, panel, frame, sleepScreen, selfOpened, crashes>>

InBook == IsReader \/ (current = NoActivity /\ pending.kind = "reader")
Crash(c) == /\ power = "on"
            /\ Reset(c, rtc)
            /\ crashes' = IF InBook /\ selfOpened THEN crashes + 1 ELSE crashes
            /\ UNCHANGED <<power, timer, held, disk, panel, frame, sleepScreen, reading, selfOpened>>

\* setup() up to the dashboard mode: read and clear the flag, load the state, leave the mode unless the timer fired.
DashboardLeft == [Loaded EXCEPT !.activeDashboardMode = None]
LeftMode == Loaded.activeDashboardMode # None /\ cause # "timer"
LoadState ==
    /\ pc = "setup"
    /\ pc' = "wake" /\ rtc' = "none"
    /\ boot' = [silent |-> rtc, dashboard |-> IF cause = "timer" THEN Loaded.activeDashboardMode ELSE None]
    /\ IF LeftMode THEN Save(DashboardLeft)
                   ELSE ram' = Loaded /\ UNCHANGED <<disk, saving>>
    /\ UNCHANGED <<hardware, latch, ui, wifi, panel, frame, sleepScreen, history>>

\* setup()'s switch over wakeupReason
StaysAsleep == \/ WakeupReason = "PowerButton" /\ ~held /\ ~ClickWakes
               \/ WakeupReason = "AfterUSBPower" /\ ~StaysAwakeOnUsb
SleepAgain == /\ pc = "wake" /\ ~saving /\ StaysAsleep
              /\ Down("sleep", FALSE)
              /\ UNCHANGED <<cause, held, disk, rtc, panel, frame, sleepScreen, history>>
StayAwake  == /\ pc = "wake" /\ ~saving /\ ~StaysAsleep
              /\ pc' = "present"
              /\ UNCHANGED <<hardware, boot, store, rtc, latch, ui, wifi, panel, frame, sleepScreen, history>>

\* BootResume: silent, without the splash over the sleep frame, or with it
Silent == boot.silent # "none"
SplashlessWake == WakeupReason = "PowerButton" /\ ~ram.showBootScreen
PresentSilent ==
    /\ pc = "present" /\ (Silent \/ boot.dashboard # None)
    /\ pc' = "route"
    /\ UNCHANGED <<hardware, boot, store, rtc, latch, ui, wifi, panel, frame, sleepScreen, history>>
PresentSplashless ==
    /\ pc = "present" /\ ~Silent /\ boot.dashboard = None /\ SplashlessWake
    /\ Save([ram EXCEPT !.showBootScreen = TRUE])
    /\ pc' = "frame"
    /\ UNCHANGED <<hardware, boot, rtc, latch, ui, wifi, panel, frame, sleepScreen, history>>
LoadFrame ==
    /\ pc = "frame" /\ ~saving
    /\ frame' = FALSE /\ panel' = (IF frame THEN "ui" ELSE panel)
    /\ pc' = "route"
    /\ UNCHANGED <<hardware, boot, store, rtc, latch, ui, wifi, sleepScreen, history>>
PresentSplash ==
    /\ pc = "present" /\ ~Silent /\ boot.dashboard = None /\ ~SplashlessWake
    /\ current' = Screen("boot") /\ panel' = "ui"
    /\ pc' = "route"
    /\ UNCHANGED <<hardware, boot, store, rtc, latch, pending, state, wifi, frame, sleepScreen, history>>

\* The last part of setup(): which activity comes first
OpensBook == ram.openEpubPath # None /\ ram.lastSleepFromReader /\ ram.readerActivityLoadCount = 0
BookTakenUncounted == [ram EXCEPT !.openEpubPath = None]
BookTaken == [ram EXCEPT !.openEpubPath = None, !.readerActivityLoadCount = @ + 1]
Route(recovery, back) ==
    /\ pc = "route"
    /\ recovery => WakeupReason = "PowerButton"
    /\ pc' = "loop"
    /\ IF ~Silent /\ boot.dashboard = None /\ ~recovery /\ cause # "panic" /\ OpensBook /\ ~back
       THEN /\ Save(BookTaken)
            /\ pending' = Reader(ram.openEpubPath)
       ELSE /\ pending' = IF boot.dashboard # None THEN Activity("dashboard", boot.dashboard, "timerWake")
                          ELSE IF recovery THEN Screen("recovery")
                          ELSE IF cause = "panic" THEN Screen("crash")
                          ELSE IF boot.silent = "reader" /\ ram.openEpubPath # None THEN Reader(ram.openEpubPath)
                          ELSE Home
            /\ UNCHANGED store
    /\ reading' = IF boot.dashboard # None THEN reading ELSE None
    /\ selfOpened' = (pending'.kind = "reader")
    /\ UNCHANGED <<hardware, boot, rtc, latch, current, state, wifi, panel, frame, sleepScreen, crashes>>

Setup == \/ LoadState \/ SleepAgain \/ StayAwake
         \/ PresentSilent \/ PresentSplashless \/ LoadFrame \/ PresentSplash
         \/ (\E recovery, back \in BOOLEAN : Route(recovery, back))
-----------------------------------------------------------------------------
(* Changing activities: the outgoing one's onExit(), then the other's onEnter() *)
LeavingInLoop == pc = "loop" /\ ~saving /\ pending # NoActivity /\ current # NoActivity
Leaving  == pc \in {"loop", "sleep"} /\ ~saving /\ pending # NoActivity /\ current # NoActivity
Entering == pc \in {"loop", "sleep"} /\ ~saving /\ pending # NoActivity /\ current = NoActivity

BookLeftCounted == ram
BookLeft == [ram EXCEPT !.readerActivityLoadCount = 0]
ReaderExits ==
    /\ Leaving /\ IsReader
    /\ current' = NoActivity
    /\ Save(BookLeft)
    /\ crashes' = 0
    /\ UNCHANGED <<hardware, pc, boot, rtc, latch, pending, state, wifi, panel, frame, sleepScreen, reading, selfOpened>>

\* silentRestart(), silentRestartToReader(): sleeping supersedes them, and a board with touch only drops the radio.
RestartsAnyway == UsesWifi /\ ~HasTouch
Restarts == UsesWifi /\ ~latch /\ ~HasTouch
SilentRestart ==
    /\ Leaving /\ Restarts
    /\ Reset("software", IF current.kind = "sync" THEN "reader" ELSE "home")
    /\ panel' = "ui"
    /\ UNCHANGED <<power, timer, held, disk, frame, sleepScreen, history>>
OtherExits ==
    /\ Leaving /\ ~IsReader /\ ~Restarts
    /\ current' = NoActivity /\ state' = "none"
    /\ wifi' = (wifi /\ latch)
    /\ UNCHANGED <<hardware, pc, boot, store, rtc, latch, pending, panel, frame, sleepScreen, history>>

Enter == current' = pending /\ pending' = NoActivity
OtherEnters ==
    /\ Entering /\ pending.kind \notin {"reader", "dashboard", "sleepScreen"}
    /\ Enter /\ panel' = "ui"
    /\ UNCHANGED <<hardware, pc, boot, store, rtc, latch, state, wifi, frame, sleepScreen, history>>

\* ReaderActivity::onEnter(): the book is there and loads, or the activity finishes and home comes next.
BookOpens ==
    /\ Entering /\ pending.kind = "reader"
    /\ Enter /\ panel' = "ui"
    /\ Save([ram EXCEPT !.openEpubPath = pending.about])
    /\ UNCHANGED <<hardware, pc, boot, rtc, latch, state, wifi, frame, sleepScreen, history>>
BookMissing ==
    /\ Entering /\ pending.kind = "reader"
    /\ current' = pending /\ pending' = Home
    /\ UNCHANGED <<hardware, pc, boot, store, rtc, latch, state, wifi, panel, frame, sleepScreen, history>>

Change == ReaderExits \/ SilentRestart \/ OtherExits \/ OtherEnters \/ BookOpens \/ BookMissing
-----------------------------------------------------------------------------
(* The user and the running activities *)
Idle == pc = "loop" /\ ~saving /\ pending = NoActivity /\ current # NoActivity
GoTo(activity) == /\ Idle /\ pending' = activity
                  /\ UNCHANGED <<hardware, pc, boot, store, rtc, latch, current, state, wifi, panel, frame,
                                 sleepScreen, reading>>

OpenBook(b) == /\ current.kind \in {"home", "reader"}
               /\ GoTo(Reader(b)) /\ selfOpened' = FALSE /\ crashes' = 0
OpenScreen  == /\ current = Home
               /\ \E next \in {Screen("network")} \cup {Activity("dashboard", d, "attended") : d \in Dashboard} : GoTo(next)
               /\ UNCHANGED <<selfOpened, crashes>>
\* Back on most screens; on a board with touch the home gesture leaves any of them.
GoHome      == /\ current # Home
               /\ HasTouch \/ current.kind \in {"reader", "network", "crash"}
               /\ GoTo(Home) /\ UNCHANGED <<selfOpened, crashes>>
StartSync   == /\ IsReader
               /\ GoTo(Sync(current.about)) /\ UNCHANGED <<selfOpened, crashes>>
SyncEnds    == /\ current.kind = "sync"
               /\ GoTo(Reader(current.about)) /\ UNCHANGED <<selfOpened, crashes>>
WifiConnects == /\ Idle /\ current.kind \in {"network", "sync"}
                /\ wifi' = TRUE
                /\ UNCHANGED <<hardware, pc, boot, store, rtc, latch, ui, panel, frame, sleepScreen, history>>
\* ESP.restart() after an update, from the recovery screen or the network
UpdateRestarts == /\ Idle /\ current.kind \in {"recovery", "network"}
                  /\ Reset("software", rtc)
                  /\ UNCHANGED <<power, timer, held, disk, panel, frame, sleepScreen, history>>
ChooseSleepScreen == /\ Idle /\ current = Home
                     /\ sleepScreen' \in SleepScreens
                     /\ UNCHANGED <<hardware, pc, boot, store, rtc, latch, ui, wifi, panel, frame, history>>

User == \/ (\E b \in Book : OpenBook(b))
        \/ OpenScreen \/ GoHome \/ StartSync \/ SyncEnds \/ WifiConnects \/ UpdateRestarts \/ ChooseSleepScreen
-----------------------------------------------------------------------------
(* Going to sleep *)
Gesture(fromTimeout) == Idle /\ (fromTimeout => ~PreventAutoSleep)
WasReading == IF IsReader THEN current.about ELSE None

\* enterLockScreenSleep(): hand over to a dashboard that is set up; without one the setting acts as "static".
LockScreenSleep(fromTimeout, d) ==
    /\ Gesture(fromTimeout) /\ sleepScreen = "lock"
    /\ Save([ram EXCEPT !.lastSleepFromReader = IsReader, !.showBootScreen = TRUE])
    /\ pending' = Activity("dashboard", d, "handOff")
    /\ reading' = WasReading
    /\ UNCHANGED <<hardware, pc, boot, rtc, latch, current, state, wifi, panel, frame, sleepScreen, selfOpened, crashes>>

\* enterDeepSleep(): commit, replace the activity by the sleep screen, keep or drop the frame, power down.
EnterDeepSleep(fromTimeout) ==
    /\ Gesture(fromTimeout) /\ sleepScreen # "lock"
    /\ Save([ram EXCEPT !.lastSleepFromReader = IsReader, !.showBootScreen = FALSE])
    /\ latch' = TRUE
    /\ pending' = Screen("sleepScreen")
    /\ pc' = "sleep"
    /\ reading' = WasReading
    /\ UNCHANGED <<hardware, boot, rtc, current, state, wifi, panel, frame, sleepScreen, selfOpened, crashes>>
SleepScreenEnters ==
    /\ Entering /\ pending.kind = "sleepScreen"
    /\ Enter /\ panel' = sleepScreen
    /\ pc' = "halting"
    /\ UNCHANGED <<hardware, boot, store, rtc, latch, state, wifi, frame, sleepScreen, history>>
GoToSleepReturnsEarly ==
    /\ ~GoToSleepDispatches
    /\ pc = "sleep" /\ ~saving /\ current # NoActivity
    /\ pc' = "halting"
    /\ UNCHANGED <<hardware, boot, store, rtc, latch, ui, wifi, panel, frame, sleepScreen, history>>
KeepsStaleFrame == sleepScreen = "quick" \/ frame
KeepsFrame == sleepScreen = "quick"
StartDeepSleep ==
    /\ pc = "halting"
    /\ Down("sleep", FALSE)
    /\ frame' = KeepsFrame
    /\ UNCHANGED <<cause, held, disk, rtc, panel, sleepScreen, history>>

Sleep == \/ (\E fromTimeout \in BOOLEAN : EnterDeepSleep(fromTimeout) \/ (\E d \in Dashboard : LockScreenSleep(fromTimeout, d)))
         \/ SleepScreenEnters \/ GoToSleepReturnsEarly \/ StartDeepSleep
-----------------------------------------------------------------------------
(* The dashboards *)
Dash(s) == Idle /\ InDashboard /\ state = s
Still   == UNCHANGED <<hardware, boot, rtc, frame, sleepScreen, history>>

\* onEnter() and beginUpdate()
EnterDashboard == Entering /\ pending.kind = "dashboard" /\ Still
ShowConnecting == panel' = IF pending.auto = "timerWake" THEN panel ELSE "ui"
DashboardUnconfigured ==
    /\ EnterDashboard /\ pending.auto # "attended" /\ pending.about \notin Tempest
    /\ current' = pending /\ pending' = Home
    /\ IF ram.activeDashboardMode = pending.about THEN Save([ram EXCEPT !.activeDashboardMode = None])
                                                  ELSE UNCHANGED store
    /\ UNCHANGED <<pc, latch, state, wifi, panel>>
BatteryCritical ==
    /\ EnterDashboard /\ pending.auto # "attended"
    /\ Enter /\ state' = "Failed" /\ panel' = "lowBattery"
    /\ Save(ram) /\ pc' = "powerOff" /\ latch' = TRUE
    /\ UNCHANGED wifi
NoCredentials ==
    /\ EnterDashboard /\ pending.auto # "attended"
    /\ Enter /\ state' = "Failed" /\ ShowConnecting
    /\ UNCHANGED <<pc, store, latch, wifi>>
StartConnecting ==
    /\ EnterDashboard
    /\ Enter /\ state' = "Connecting" /\ ShowConnecting
    /\ wifi' = (wifi \/ pending.auto # "attended")
    /\ UNCHANGED <<pc, store, latch>>

\* goToSleepAndPoll() and enterDashboardSleep()
ArmUnsaved == /\ ram' = [ram EXCEPT !.activeDashboardMode = current.about] /\ UNCHANGED <<disk, saving>>
              /\ latch' = TRUE /\ pc' = "timed"
Arm == Save([ram EXCEPT !.activeDashboardMode = current.about]) /\ latch' = TRUE /\ pc' = "timed"
TimedSleep ==
    /\ pc = "timed" /\ ~saving
    /\ Down("sleep", TRUE)
    /\ reading' = IF Unattended THEN reading ELSE None
    /\ UNCHANGED <<cause, held, disk, rtc, panel, frame, sleepScreen, selfOpened, crashes>>
\* enterDashboardPowerOff()
DashboardPowerOff ==
    /\ pc = "powerOff" /\ ~saving
    /\ Down("sleep", FALSE)
    /\ UNCHANGED <<cause, held, disk, rtc, panel, frame, sleepScreen, history>>

\* loop() and runFetch()
Connected == /\ Dash("Connecting")
             /\ wifi' = TRUE /\ state' = "Fetching"
             /\ UNCHANGED <<pc, store, latch, current, pending, panel>> /\ Still
WifiCancelled == /\ Dash("Connecting") /\ ~Unattended
                 /\ pending' = Home /\ wifi' \in {wifi, TRUE}
                 /\ UNCHANGED <<pc, store, latch, current, state, panel>> /\ Still
TimesOutOffline == Unattended /\ ~wifi
TimesOut == Unattended
ConnectTimesOut == /\ Dash("Connecting") /\ TimesOut
                   /\ Arm
                   /\ panel' = (IF current.about \in Tempest THEN panel ELSE "dashboard")
                   /\ UNCHANGED <<ui, wifi>> /\ Still
Fetched == /\ Dash("Fetching")
           /\ state' = "Showing" /\ panel' = "dashboard"
           /\ IF Unattended THEN Arm ELSE UNCHANGED <<pc, store, latch>>
           /\ UNCHANGED <<current, pending, wifi>> /\ Still
FetchFails == /\ Dash("Fetching")
              /\ state' = "Failed"
              /\ IF Unattended
                 THEN Arm /\ panel' = (IF current.about \in Tempest THEN panel ELSE "dashboard")
                 ELSE panel' = "ui" /\ UNCHANGED <<pc, store, latch>>
              /\ UNCHANGED <<current, pending, wifi>> /\ Still
ShowsFailure == /\ Dash("Failed") /\ Unattended
                /\ Arm /\ panel' = "dashboard"
                /\ UNCHANGED <<ui, wifi>> /\ Still
GraceOver == /\ Dash("Showing") /\ ~Unattended
             /\ Arm
             /\ UNCHANGED <<ui, wifi, panel>> /\ Still
ExitDashboard == /\ (Dash("Showing") \/ Dash("Failed")) /\ ~Unattended
                 /\ pending' = Home
                 /\ IF ram.activeDashboardMode = current.about THEN Save([ram EXCEPT !.activeDashboardMode = None])
                                                               ELSE UNCHANGED store
                 /\ UNCHANGED <<pc, latch, current, state, wifi, panel>> /\ Still
Reconfigured == /\ (Dash("Showing") \/ Dash("Failed")) /\ ~Unattended /\ current.about \notin Tempest
                /\ state' = (IF wifi THEN "Fetching" ELSE "Connecting") /\ panel' = "ui"
                /\ UNCHANGED <<pc, store, latch, current, pending, wifi>> /\ Still

Fetch == Fetched \/ FetchFails
EnterUnattended == DashboardUnconfigured \/ BatteryCritical \/ NoCredentials \/ StartConnecting
PowersDown == TimedSleep \/ DashboardPowerOff
Poll == \/ EnterUnattended \/ Connected \/ WifiCancelled \/ ConnectTimesOut \/ Fetch \/ ShowsFailure
        \/ GraceOver \/ ExitDashboard \/ Reconfigured \/ PowersDown
-----------------------------------------------------------------------------
Wake == PowerButton \/ TimerWake \/ UsbPlugged \/ FlashBoot
Fail == PowerLoss \/ Crash("panic") \/ Crash("watchdog")
Next == Wake \/ Fail \/ SaveCompletes \/ Setup \/ Change \/ User \/ Sleep \/ Poll

Spec == Init /\ [][Next]_vars

\* The main task keeps running: setup(), activity changes and saves end, timeouts expire, and so do downloads.
\* Strong where the user may come between two steps, but not for ever.
FairSpec == /\ Spec
            /\ WF_vars(SaveCompletes) /\ WF_vars(Setup)
            /\ SF_vars(Change) /\ SF_vars(EnterUnattended)
            /\ SF_vars(ConnectTimesOut) /\ SF_vars(Fetch) /\ SF_vars(ShowsFailure)
            /\ WF_vars(PowersDown) /\ WF_vars(SleepScreenEnters) /\ WF_vars(StartDeepSleep)
-----------------------------------------------------------------------------
ActivityType == [kind : {"none", "boot", "home", "reader", "sync", "network", "dashboard", "crash", "recovery",
                         "sleepScreen"},
                 about : Book \cup Dashboard \cup {None}, auto : RunMode]

\* The types, and: the load count never passes 1, a halted device holds nothing in RAM, a latch means a
\* deep sleep under way, a file is cut short only while it is being written or when power failed.
TypeOK ==
    /\ power \in {"on", "sleep", "off"} /\ timer \in BOOLEAN /\ held \in BOOLEAN
    /\ cause \in {"button", "cold", "usb", "flash", "timer", "software", "panic", "watchdog"}
    /\ pc \in {"halted", "setup", "wake", "present", "frame", "route", "loop", "sleep", "halting", "timed", "powerOff"}
    /\ boot \in [silent : {"none", "home", "reader"}, dashboard : Dashboard \cup {None}]
    /\ ram \in AppState /\ disk \in AppState \cup {Unreadable} /\ saving \in BOOLEAN
    /\ rtc \in {"none", "home", "reader"} /\ latch \in BOOLEAN
    /\ current \in ActivityType /\ pending \in ActivityType
    /\ state \in {"none", "Connecting", "Fetching", "Showing", "Failed"} /\ wifi \in BOOLEAN
    /\ panel \in {"ui", "static", "quick", "dashboard", "lowBattery"} /\ frame \in BOOLEAN
    /\ sleepScreen \in SleepScreens
    /\ reading \in Book \cup {None} /\ selfOpened \in BOOLEAN /\ crashes \in Nat
    /\ (power = "on") <=> (pc # "halted")
    /\ latch => pc \in {"sleep", "halting", "timed", "powerOff"}

\* A book that crashes the reader is opened by setup() at most twice in a row (once after a silent restart
\* from the sync, which does not count loads, and once by a wake-up): then the device stays at home.
NoBootLoop == crashes <= 2

\* Once a deep sleep is committed, only a crash can bring the device back up before it sleeps: no
\* onExit() of a WiFi activity restarts it.
SleepIsFinal == [][latch /\ pc' = "setup" => cause' \in {"panic", "watchdog"}]_vars

\* The book the user was reading at his last sleep gesture is what a press of the power button brings back,
\* also after any number of dashboard polls in between, unless he asks for something else at the wake-up.
ResumesBook == [][Route(FALSE, FALSE) /\ cause = "button" /\ reading # None => pending' = Reader(reading)]_vars

\* The splash is left out only when the panel holds a complete frame of a sleep, and a frame saved for
\* Quick Resume never replaces another sleep screen.
SplashlessOverSleepFrame == pc = "frame" => panel \in {"static", "quick", "dashboard", "lowBattery"}
                                            /\ (frame => panel # "static")

\* When the timer is armed the card says which dashboard it is for, whatever happened before.
TimerFindsDashboard == timer => disk \in AppState /\ disk.activeDashboardMode # None

\* A dashboard running unattended powers the device down in the end, unless it crashes or the user takes over.
UnattendedSleeps == Unattended ~> power # "on" \/ pc = "setup" \/ current.kind \notin {"none", "dashboard"}

\* A deep sleep that was committed comes to its end.
SleepCompletes == latch ~> ~latch

\* main.cpp:316-318: while the dashboard frame stays on the panel the RTC timer wakes the device for the next poll.
DashboardStaysPolled == power = "sleep" /\ panel = "dashboard" => timer
=============================================================================
