--------------------------- MODULE ActivityManager ---------------------------
(***************************************************************************)
(* The activity manager of src/src/activities/ActivityManager.cpp: the     *)
(* main task (Arduino loop) drives one current activity, a stack of        *)
(* suspended ones and at most one pending navigation; the render task      *)
(* sleeps on a task notification, takes the rendering mutex and draws      *)
(* whatever activity is current.  Both tasks run at priority 1 and may be  *)
(* switched between any two steps.                                         *)
(*                                                                         *)
(* The code of an activity (loop, onEnter, a result handler) is external   *)
(* to the manager: it may make any sequence of the calls Activity.h        *)
(* offers.  An activity is an identity; an identity that is destroyed may  *)
(* be constructed again.  What it shows on the panel is abstracted to one  *)
(* bit: whether the last finished frame shows its present state.           *)
(***************************************************************************)
EXTENDS Naturals, Sequences

CONSTANTS
    Activity,          \* activity objects
    Home,              \* those whose isHomeActivity() holds
    LightPanel,        \* FrontlightPanelActivity objects
    ExclusiveStorage,  \* those whose requiresExclusiveStorageLoop() holds
    None,              \* nullptr
    MaxDepth,          \* bound: length of stackActivities
    MaxNotify,         \* bound: the render task's notification count saturates
    LockedWrites       \* TRUE: activities write what render() reads only under a
                       \* RenderLock, as docs/activity-manager.md requires

ASSUME NoneIsNoActivity == None \notin Activity
ASSUME KindsAreDisjoint ==
    /\ Home \cup LightPanel \cup ExclusiveStorage \subseteq Activity
    /\ Home \cap LightPanel = {}
    /\ (Home \cup LightPanel) \cap ExclusiveStorage = {}
ASSUME BoundsAreNaturals == MaxDepth \in Nat /\ MaxNotify \in Nat \ {0}
ASSUME LockedWritesIsBoolean == LockedWrites \in BOOLEAN

VARIABLES
    stackActivities,  \* suspended activities, the last one on top
    currentActivity,
    pendingActivity,
    pendingAction,
    resultHandler,    \* the child each activity registered a handler for, or None
    entered,          \* activities between onEnter() and onExit()
    popped,           \* the child whose result is being delivered
    sleepScreen,      \* the SleepActivity goToSleep() constructed, or None
    requestedUpdate,
    renderNotify,     \* notification count of the render task
    mainNotify,       \* notification count of the main task
    waitingTask,      \* waitingTaskHandle # nullptr
    mutex,            \* holder of renderingMutex
    mpc,              \* where the main task is
    ctx,              \* which activity callback the main task is running
    rpc,              \* where the render task is
    drawing,          \* the object render() was called on
    stale,            \* the panel does not show the current activity's state
    frameFresh        \* the frame being drawn has seen every write so far

navVars  == <<stackActivities, currentActivity, pendingActivity, pendingAction,
              resultHandler, entered, popped, sleepScreen>>
noticeVars == <<requestedUpdate, renderNotify, mainNotify, waitingTask>>
syncVars == <<noticeVars, mutex>>
viewVars == <<drawing, stale, frameFresh>>
vars == <<navVars, syncVars, viewVars, mpc, ctx, rpc>>

MaybeActivity == Activity \cup {None}
Plain == Activity \ (Home \cup LightPanel \cup ExclusiveStorage)
Elements(s) == {s[i] : i \in 1 .. Len(s)}

\* Objects some unique_ptr owns; the others may be constructed.
Owned == (Elements(stackActivities) \cup {currentActivity, pendingActivity, popped}) \ {None}
Unborn == Activity \ Owned

Init ==
    /\ stackActivities = <<>>
    /\ currentActivity = None
    /\ pendingActivity = None
    /\ pendingAction = "None"
    /\ resultHandler = [a \in Activity |-> None]
    /\ entered = {}
    /\ popped = None
    /\ sleepScreen = None
    /\ requestedUpdate = FALSE
    /\ renderNotify = 0
    /\ mainNotify = 0
    /\ waitingTask = FALSE
    /\ mutex = "free"
    /\ mpc = "setup"
    /\ ctx = "setup"
    /\ rpc = "idle"
    /\ drawing = None
    /\ stale = TRUE
    /\ frameFresh = FALSE

-----------------------------------------------------------------------------
(* Helpers: FreeRTOS primitives and the manager's one-line operations. *)

NotifyRenderTask ==
    renderNotify' = IF renderNotify < MaxNotify THEN renderNotify + 1 ELSE renderNotify

\* Here and below, a definition that precedes the one it resembles is a faulty
\* variant of it, for checking that the properties can fail.
MainTakesMutexUnguarded == mutex' = "main"
MainTakesMutex == mutex = "free" /\ mutex' = "main"
MainGivesMutex == mutex = "main" /\ mutex' = "free"

\* A different activity becomes current, or the current one changes its state.
PanelOutdated == stale' = TRUE /\ frameFresh' = FALSE

\* ActivityManager::loop() returns: to main.cpp's loop(), or to goToSleep(),
\* whose caller powers the device down.
LoopReturns == mpc' = IF sleepScreen = None THEN "loopTop" ELSE "off"

\* currentActivity = a; a->onEnter()
Launch(a) ==
    /\ currentActivity' = a
    /\ entered' = entered \cup {a}
    /\ resultHandler' = [resultHandler EXCEPT ![a] = None]
    /\ mpc' = "run"
    /\ PanelOutdated

\* A navigation is recorded, to be carried out by loop(); the one pending before
\* it is dropped.
Defer(a, action) ==
    /\ pendingActivity' = a
    /\ pendingAction' = action
    /\ UNCHANGED <<stackActivities, currentActivity, entered, popped>>

DeferReplace(a) == Defer(a, "Replace")

DeferPushKeepsFirst(a) == Defer(IF pendingActivity = None THEN a ELSE pendingActivity, "Push")
DeferPush(a) == Defer(a, "Push")

DeferPop == Defer(None, "Pop")

-----------------------------------------------------------------------------
(* main.cpp: setup() and what loop() does around ActivityManager::loop().   *)

\* The first replaceActivity() of setup() finds no current activity and
\* launches at once, without the mutex.
SetupLaunch(a) ==
    /\ mpc = "setup"
    /\ a \in Unborn \ LightPanel
    /\ Launch(a)
    /\ ctx' = "setup"
    /\ UNCHANGED <<stackActivities, pendingActivity, pendingAction, popped, sleepScreen,
                   syncVars, rpc, drawing>>

\* loop() goes on: an exclusive-storage activity makes it return early.
MainLoopIgnoresHost == mpc = "loopTop" /\ sleepScreen = None
MainLoopContinues ==
    /\ mpc = "loopTop"
    /\ currentActivity \notin ExclusiveStorage
    /\ sleepScreen = None

\* Outside an exclusive-storage activity main.cpp may ask for a render (USB
\* state change) ...
UsbStateChanged ==
    /\ MainLoopContinues
    /\ requestedUpdate' = TRUE
    /\ UNCHANGED <<navVars, renderNotify, mainNotify, waitingTask, mutex, viewVars, mpc, ctx, rpc>>

\* ... or use the frame buffer itself, under a RenderLock (screenshot, forced
\* half refresh).
TakeScreenshot ==
    /\ MainLoopContinues
    /\ MainTakesMutex
    /\ mpc' = "shot"
    /\ UNCHANGED <<navVars, noticeVars, viewVars, ctx, rpc>>

ScreenshotDone ==
    /\ mpc = "shot"
    /\ MainGivesMutex
    /\ mpc' = "loopTop"
    /\ UNCHANGED <<navVars, noticeVars, viewVars, ctx, rpc>>

\* enterLockScreenSleep() -> goToLockScreenDashboard() -> replaceActivity();
\* main.cpp falls through to loop() for the swap.
LockScreenHandOff(a) ==
    /\ MainLoopContinues
    /\ a \in Unborn \cap Plain
    /\ DeferReplace(a)
    /\ UNCHANGED <<resultHandler, sleepScreen, syncVars, viewVars, mpc, ctx, rpc>>

\* enterDeepSleep() -> goToSleep(): replaceActivity(SleepActivity), then one
\* nested loop(), after which the device is powered down.
GoToSleep(a) ==
    /\ MainLoopContinues
    /\ a \in Unborn \cap Plain
    /\ DeferReplace(a)
    /\ sleepScreen' = a
    /\ UNCHANGED <<resultHandler, syncVars, viewVars, mpc, ctx, rpc>>

-----------------------------------------------------------------------------
(* ActivityManager::loop(), up to the activity's own loop(). *)

\* A suppressed button release makes loop() return at once.
SuppressedRelease ==
    /\ mpc = "loopTop"
    /\ LoopReturns
    /\ UNCHANGED <<navVars, syncVars, viewVars, ctx, rpc>>

\* Home gesture, not handled by the activity: goHome() is deferred and loop()
\* returns before it is processed.
HomeGesture(a) ==
    /\ mpc = "loopTop"
    /\ currentActivity \notin ExclusiveStorage \cup Home
    /\ a \in Unborn \cap Home
    /\ DeferReplace(a)
    /\ LoopReturns
    /\ UNCHANGED <<resultHandler, sleepScreen, syncVars, viewVars, ctx, rpc>>

\* Home gesture, handled by the activity (light panel, reader menu): it finishes,
\* and again loop() returns before that is processed.
HomeGestureHandled ==
    /\ mpc = "loopTop"
    /\ currentActivity \notin ExclusiveStorage \cup Home
    /\ DeferPop
    /\ LoopReturns
    /\ UNCHANGED <<resultHandler, sleepScreen, syncVars, viewVars, ctx, rpc>>

\* Light panel gesture or status-bar tap: the panel is pushed without a result
\* handler and loop() returns before the push is processed.
LightPanelGesture(a) ==
    /\ mpc = "loopTop"
    /\ currentActivity \notin ExclusiveStorage \cup LightPanel
    /\ a \in Unborn \cap LightPanel
    /\ Len(stackActivities) < MaxDepth
    /\ DeferPush(a)
    /\ LoopReturns
    /\ UNCHANGED <<resultHandler, sleepScreen, syncVars, viewVars, ctx, rpc>>

\* currentActivity->loop(), without the mutex.
LoopContextExclusive == "exclusive"
LoopContext == IF currentActivity \in ExclusiveStorage THEN "exclusive" ELSE "loop"

RunActivityLoop ==
    /\ mpc = "loopTop"
    /\ mpc' = "run"
    /\ ctx' = LoopContext
    /\ UNCHANGED <<navVars, syncVars, viewVars, rpc>>

-----------------------------------------------------------------------------
(* What activity code may call: Activity.h and the goTo... functions.  The   *)
(* one exclusive-storage activity, UsbDriveActivity, never navigates: it     *)
(* leaves by restarting the device.                                          *)

RequestUpdate ==
    /\ mpc = "run"
    /\ requestedUpdate' = TRUE
    /\ UNCHANGED <<navVars, renderNotify, mainNotify, waitingTask, mutex, viewVars, mpc, ctx, rpc>>

RequestUpdateNow ==
    /\ mpc = "run"
    /\ NotifyRenderTask
    /\ UNCHANGED <<navVars, requestedUpdate, mainNotify, waitingTask, mutex, viewVars, mpc, ctx,
                   rpc>>

\* The waiter may not defer its request to the end of loop(), which never comes.
NotifyAtLoopEnd == requestedUpdate' = TRUE /\ UNCHANGED renderNotify
NotifyAtOnce == NotifyRenderTask /\ UNCHANGED requestedUpdate

\* requestUpdateAndWait(): registers as the waiter, notifies, then blocks.  Home
\* never calls it, setup() does once Home is current.
RequestUpdateAndWait ==
    /\ mpc = "run"
    /\ currentActivity \notin Home \/ ctx = "setup"
    /\ waitingTask' = TRUE
    /\ NotifyAtOnce
    /\ mpc' = "wait"
    /\ UNCHANGED <<navVars, mainNotify, mutex, viewVars, ctx, rpc>>

WaitReturns ==
    /\ mpc = "wait"
    /\ mainNotify > 0
    /\ mainNotify' = 0
    /\ mpc' = "run"
    /\ UNCHANGED <<navVars, requestedUpdate, renderNotify, waitingTask, mutex, viewVars, ctx, rpc>>

StartActivityForResult(c) ==
    /\ mpc = "run"
    /\ currentActivity \notin ExclusiveStorage
    /\ c \in Unborn \cap Plain
    /\ Len(stackActivities) < MaxDepth
    /\ resultHandler' = [resultHandler EXCEPT ![currentActivity] = c]
    /\ DeferPush(c)
    /\ UNCHANGED <<sleepScreen, syncVars, viewVars, mpc, ctx, rpc>>

Finish ==
    /\ mpc = "run"
    /\ currentActivity \notin ExclusiveStorage
    /\ DeferPop
    /\ UNCHANGED <<resultHandler, sleepScreen, syncVars, viewVars, mpc, ctx, rpc>>

ReplaceActivity(c) ==
    /\ mpc = "run"
    /\ currentActivity \notin ExclusiveStorage
    /\ c \in Unborn \ LightPanel
    /\ DeferReplace(c)
    /\ UNCHANGED <<resultHandler, sleepScreen, syncVars, viewVars, mpc, ctx, rpc>>

\* { RenderLock lock; state = ...; }
LockState ==
    /\ mpc = "run"
    /\ MainTakesMutex
    /\ mpc' = "write"
    /\ UNCHANGED <<navVars, noticeVars, viewVars, ctx, rpc>>

WriteState ==
    /\ mpc = "write"
    /\ MainGivesMutex
    /\ PanelOutdated
    /\ mpc' = "run"
    /\ UNCHANGED <<navVars, noticeVars, drawing, ctx, rpc>>

\* state = ...; with no RenderLock, as the dashboards do.
WriteStateUnlocked ==
    /\ mpc = "run"
    /\ ~LockedWrites
    /\ PanelOutdated
    /\ UNCHANGED <<navVars, syncVars, drawing, mpc, ctx, rpc>>

\* The callback returns to the manager.  After a result handler the manager asks
\* for a render unless the handler navigated.
CallbackReturns ==
    /\ mpc = "run"
    /\ mpc' = CASE ctx = "setup"     -> "loopTop"
                [] ctx = "exclusive" -> "flush"
                [] OTHER             -> "dispatch"
    /\ requestedUpdate' = (requestedUpdate \/ (ctx = "handler" /\ pendingAction = "None"))
    /\ UNCHANGED <<navVars, renderNotify, mainNotify, waitingTask, mutex, viewVars, ctx, rpc>>

-----------------------------------------------------------------------------
(* ActivityManager::loop(): while (pendingAction != None) { ... } *)

\* RenderLock lock;
DispatchLocks ==
    /\ mpc = "dispatch"
    /\ pendingAction # "None"
    /\ MainTakesMutex
    /\ mpc' = "locked"
    /\ UNCHANGED <<navVars, noticeVars, viewVars, ctx, rpc>>

\* Pop: take the result, onExit(), destroy.
PopExits ==
    /\ mpc = "locked"
    /\ pendingAction = "Pop"
    /\ popped' = currentActivity
    /\ entered' = entered \ {currentActivity}
    /\ currentActivity' = None
    /\ pendingAction' = "None"
    /\ mpc' = "popped"
    /\ UNCHANGED <<stackActivities, pendingActivity, resultHandler, sleepScreen,
                   syncVars, viewVars, ctx, rpc>>

ParentOldest == stackActivities[1]
Parent == stackActivities[Len(stackActivities)]

\* Pop: the parent becomes current again; its handler, if any, runs unlocked
\* after it has been cleared.
PopResumesParent ==
    /\ mpc = "popped"
    /\ stackActivities # <<>>
    /\ currentActivity' = Parent
    /\ stackActivities' = SubSeq(stackActivities, 1, Len(stackActivities) - 1)
    /\ resultHandler' = [resultHandler EXCEPT ![Parent] = None]
    /\ popped' = None
    /\ MainGivesMutex
    /\ PanelOutdated
    /\ IF resultHandler[Parent] # None
         THEN /\ mpc' = "run"
              /\ ctx' = "handler"
              /\ UNCHANGED requestedUpdate
         ELSE /\ mpc' = "dispatch"
              /\ requestedUpdate' = TRUE
              /\ UNCHANGED ctx
    /\ UNCHANGED <<pendingActivity, pendingAction, entered, sleepScreen,
                   renderNotify, mainNotify, waitingTask, rpc, drawing>>

\* Pop of the last activity: the mutex is released first, then goHome() finds no
\* current activity and launches Home at once.
PopReleasesForHome ==
    /\ mpc = "popped"
    /\ stackActivities = <<>>
    /\ popped' = None
    /\ MainGivesMutex
    /\ mpc' = "launchHome"
    /\ UNCHANGED <<stackActivities, currentActivity, pendingActivity, pendingAction,
                   resultHandler, entered, sleepScreen,
                   noticeVars, viewVars, ctx, rpc>>

LaunchHome(a) ==
    /\ mpc = "launchHome"
    /\ a \in Unborn \cap Home
    /\ Launch(a)
    /\ ctx' = "enter"
    /\ UNCHANGED <<stackActivities, pendingActivity, pendingAction, popped, sleepScreen,
                   syncVars, rpc, drawing>>

\* Replace: onExit() and destroy the current activity and every suspended one.
ReplacedTop == {currentActivity}
Replaced == {currentActivity} \cup Elements(stackActivities)

ReplaceExits ==
    /\ mpc = "locked"
    /\ pendingAction = "Replace"
    /\ entered' = entered \ Replaced
    /\ currentActivity' = None
    /\ stackActivities' = <<>>
    /\ mpc' = "install"
    /\ UNCHANGED <<pendingActivity, pendingAction, resultHandler, popped, sleepScreen,
                   syncVars, viewVars, ctx, rpc>>

\* Push: the current activity moves to the stack.
PushSuspends ==
    /\ mpc = "locked"
    /\ pendingAction = "Push"
    /\ stackActivities' = Append(stackActivities, currentActivity)
    /\ currentActivity' = None
    /\ mpc' = "install"
    /\ UNCHANGED <<pendingActivity, pendingAction, resultHandler, entered, popped, sleepScreen,
                   syncVars, viewVars, ctx, rpc>>

\* The pending activity becomes current; the mutex is released before onEnter().
InstallPending ==
    /\ mpc = "install"
    /\ Launch(pendingActivity)
    /\ pendingActivity' = None
    /\ pendingAction' = "None"
    /\ MainGivesMutex
    /\ ctx' = "enter"
    /\ UNCHANGED <<stackActivities, popped, sleepScreen,
                   noticeVars, rpc, drawing>>

DispatchDone ==
    /\ mpc = "dispatch"
    /\ pendingAction = "None"
    /\ mpc' = "flush"
    /\ UNCHANGED <<navVars, syncVars, viewVars, ctx, rpc>>

\* if (requestedUpdate.exchange(false)) notify; then loop() returns.
FlushNotifiesUnlessBusy == requestedUpdate /\ mutex = "free"
FlushNotifies == requestedUpdate

FlushUpdate ==
    /\ mpc = "flush"
    /\ requestedUpdate' = FALSE
    /\ IF FlushNotifies THEN NotifyRenderTask ELSE UNCHANGED renderNotify
    /\ LoopReturns
    /\ UNCHANGED <<navVars, mainNotify, waitingTask, mutex, viewVars, ctx, rpc>>

-----------------------------------------------------------------------------
(* ActivityManager::renderTaskLoop(). *)

\* ulTaskNotifyTake(pdTRUE): clears the whole count.
RenderWakesWaiter ==
    /\ rpc = "idle" /\ renderNotify > 0
    /\ renderNotify' = 0 /\ rpc' = "woken" /\ waitingTask' = FALSE
    /\ mainNotify' = IF waitingTask THEN mainNotify + 1 ELSE mainNotify
    /\ UNCHANGED <<navVars, requestedUpdate, mutex, viewVars, mpc, ctx>>
RenderWakes ==
    /\ rpc = "idle"
    /\ renderNotify > 0
    /\ renderNotify' = 0
    /\ rpc' = "woken"
    /\ UNCHANGED <<navVars, requestedUpdate, mainNotify, waitingTask, mutex, viewVars, mpc, ctx>>

\* RenderLock lock; if (currentActivity) currentActivity->render(...)
RenderBegins ==
    /\ rpc = "woken"
    /\ mutex = "free"
    /\ mutex' = "render"
    /\ drawing' = currentActivity
    /\ frameFresh' = TRUE
    /\ rpc' = "drawing"
    /\ UNCHANGED <<navVars, noticeVars, stale, mpc, ctx>>

\* render() itself may call requestUpdate() (HomeActivity, EpubReaderActivity).
RenderRequestsUpdate ==
    /\ rpc = "drawing"
    /\ drawing # None
    /\ requestedUpdate' = TRUE
    /\ UNCHANGED <<navVars, renderNotify, mainNotify, waitingTask, mutex, viewVars, mpc, ctx, rpc>>

\* render() returns.  Its parameter is a reference, so the mutex stays held.
RenderKeepsMutex == UNCHANGED mutex

RenderEnds ==
    /\ rpc = "drawing"
    /\ stale' = (stale /\ ~(drawing # None /\ frameFresh))
    /\ drawing' = None
    /\ RenderKeepsMutex
    /\ rpc' = "drawn"
    /\ UNCHANGED <<navVars, noticeVars, frameFresh, mpc, ctx>>

\* Critical section: take the waiter, if any, and notify it.
WaiterKept == UNCHANGED waitingTask
WaiterTaken == waitingTask' = FALSE

RenderNotifiesWaiter ==
    /\ rpc = "drawn"
    /\ mainNotify' = IF waitingTask THEN mainNotify + 1 ELSE mainNotify
    /\ WaiterTaken
    /\ rpc' = "unlocking"
    /\ UNCHANGED <<navVars, requestedUpdate, renderNotify, mutex, viewVars, mpc, ctx>>

\* The iteration ends and with it the scope of the RenderLock.
RenderUnlocks ==
    /\ rpc = "unlocking"
    /\ mutex' = "free"
    /\ rpc' = "idle"
    /\ UNCHANGED <<navVars, noticeVars, viewVars, mpc, ctx>>

-----------------------------------------------------------------------------
(* Power: deep sleep and ESP.restart() lose all RAM; both tasks stop where they are. *)

Reboot ==
    /\ mpc \in {"off", "run"}
    /\ stackActivities' = <<>>
    /\ currentActivity' = None
    /\ pendingActivity' = None
    /\ pendingAction' = "None"
    /\ resultHandler' = [a \in Activity |-> None]
    /\ entered' = {}
    /\ popped' = None
    /\ sleepScreen' = None
    /\ requestedUpdate' = FALSE
    /\ renderNotify' = 0
    /\ mainNotify' = 0
    /\ waitingTask' = FALSE
    /\ mutex' = "free"
    /\ mpc' = "setup"
    /\ ctx' = "setup"
    /\ rpc' = "idle"
    /\ drawing' = None
    /\ stale' = TRUE
    /\ frameFresh' = FALSE

ActivityCode ==
    \/ RequestUpdate \/ RequestUpdateNow \/ RequestUpdateAndWait \/ WaitReturns
    \/ Finish \/ LockState \/ WriteState \/ WriteStateUnlocked
    \/ \E c \in Activity : StartActivityForResult(c) \/ ReplaceActivity(c)

Dispatch ==
    \/ DispatchLocks \/ PopExits \/ PopResumesParent \/ PopReleasesForHome
    \/ \E a \in Activity : LaunchHome(a)
    \/ ReplaceExits \/ PushSuspends \/ InstallPending \/ DispatchDone

Outside ==
    \/ UsbStateChanged \/ TakeScreenshot \/ ScreenshotDone
    \/ SuppressedRelease \/ HomeGestureHandled
    \/ \E a \in Activity :
         \/ SetupLaunch(a) \/ LockScreenHandOff(a) \/ GoToSleep(a)
         \/ HomeGesture(a) \/ LightPanelGesture(a)

Main == Outside \/ RunActivityLoop \/ ActivityCode \/ CallbackReturns \/ Dispatch \/ FlushUpdate

RenderTask ==
    \/ RenderWakes \/ RenderBegins \/ RenderEnds \/ RenderNotifiesWaiter \/ RenderUnlocks

Next == Main \/ RenderTask \/ RenderRequestsUpdate \/ Reboot

Spec == Init /\ [][Next]_vars

\* Scheduling.  Both tasks have priority 1 and are time-sliced, and a mutex taken
\* by both is not kept from either for ever (SF on the steps that take it).  An
\* activity's callback returns; gestures do not arrive in every iteration for
\* ever; and not every callback navigates for ever.
Fairness ==
    /\ SF_vars(RenderTask)
    /\ SF_vars(Dispatch)
    /\ WF_vars(FlushUpdate \/ WaitReturns \/ WriteState \/ ScreenshotDone)
    /\ SF_vars(RunActivityLoop)
    /\ SF_vars(CallbackReturns)
    /\ SF_vars(CallbackReturns /\ pendingAction = "None")

FairSpec == Spec /\ Fairness
-----------------------------------------------------------------------------
(* Properties. *)

\* Every variable has its type; in particular the main task is never notified
\* twice for one wait, and a handler is only registered for another activity.
TypeOK ==
    /\ stackActivities \in Seq(Activity)
    /\ currentActivity \in MaybeActivity
    /\ pendingActivity \in MaybeActivity
    /\ pendingAction \in {"None", "Push", "Pop", "Replace"}
    /\ resultHandler \in [Activity -> MaybeActivity]
    /\ entered \subseteq Activity
    /\ popped \in MaybeActivity
    /\ sleepScreen \in MaybeActivity
    /\ requestedUpdate \in BOOLEAN
    /\ renderNotify \in 0 .. MaxNotify
    /\ mainNotify \in 0 .. 1
    /\ waitingTask \in BOOLEAN
    /\ mutex \in {"free", "main", "render"}
    /\ mpc \in {"setup", "loopTop", "shot", "run", "write", "wait", "dispatch", "locked",
                "popped", "launchHome", "install", "flush", "off"}
    /\ ctx \in {"setup", "loop", "exclusive", "enter", "handler"}
    /\ rpc \in {"idle", "woken", "drawing", "drawn", "unlocking"}
    /\ drawing \in MaybeActivity
    /\ stale \in BOOLEAN
    /\ frameFresh \in BOOLEAN

\* The activity render() runs on is the current one and between its onEnter()
\* and its onExit(): it is never destroyed, suspended or replaced under the
\* render task (renderTaskLoop's lock against the dispatch of loop()).
RenderedIsAlive ==
    rpc = "drawing" /\ drawing # None =>
        drawing = currentActivity /\ drawing \in entered

\* Between two dispatches, exactly the current and the suspended activities have
\* been entered and not exited: none is dropped without its onExit(), none is
\* exited twice, and no activity is on the stack twice.
EnteredExactlyOwned ==
    /\ entered = (Elements(stackActivities) \cup {currentActivity}) \ {None}
    /\ currentActivity \notin Elements(stackActivities)
    /\ \A i, j \in 1 .. Len(stackActivities) :
         stackActivities[i] = stackActivities[j] => i = j

\* The result a parent's handler receives is the result of the child it was
\* registered for (or of a light panel the manager pushed over it).
ResultReachesLauncher ==
    mpc = "popped" /\ stackActivities # <<>> =>
        resultHandler[Parent] \in {None, popped} \/ popped \in LightPanel

\* Push and Replace always carry an activity: otherwise the dispatch loop of
\* loop() would find nothing to do and spin for ever.
PendingHasActivity ==
    pendingAction \in {"Push", "Replace"} <=> pendingActivity # None

\* requestUpdateAndWait() returns only when the panel shows the state the caller
\* had written, provided it wrote it under a RenderLock.  (The waiter may be
\* woken by a render that was already running: the lock makes that harmless.)
WaitShowsWrittenState == [][WaitReturns => ~stale]_vars

\* Once the loop of an exclusive-storage activity owns the SD card, nothing but a
\* restart ends it: no gesture, no pending action, no deep sleep.
StorageOwnerStays ==
    [][\/ ctx # "exclusive"
       \/ currentActivity' = currentActivity /\ mpc' # "off"
       \/ mpc' = "setup"]_vars

\* The manager implements the abstract stack of NavStack: navigation is atomic,
\* level by level, never under a running render, and render() only ever runs on
\* the activity on top.
Nav == INSTANCE NavStack WITH
    nav <- IF currentActivity = None THEN stackActivities
                                     ELSE Append(stackActivities, currentActivity),
    drawn <- drawing

ImplementsNavStack == Nav!Spec

\* An update requested while the panel does not show the current activity reaches
\* the panel, unless that activity leaves the screen (every step that takes one
\* off goes through currentActivity = None) or the device is switched off first.
UpdateReachesPanel ==
    (stale /\ currentActivity # None /\ (requestedUpdate \/ renderNotify > 0))
        ~> (~stale \/ currentActivity = None \/ mpc = "off")

\* The task blocked in requestUpdateAndWait() is woken: no two-task deadlock.
WaiterIsWoken == (mpc = "wait") ~> (mpc # "wait")

\* A deferred navigation is carried out or replaced by a later one that is: the
\* manager always gets back to an empty slot.
NavigationIsDispatched ==
    (pendingAction # "None" /\ currentActivity \notin ExclusiveStorage)
        ~> (pendingAction = "None" \/ mpc = "off")

=============================================================================
