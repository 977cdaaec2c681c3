------------------------ MODULE ActivityManager_proofs ------------------------
(***************************************************************************)
(* The safety of the activity manager, for every set of activities, every  *)
(* stack depth and both write disciplines.  The inductive invariant is the *)
(* conjunction Inv of the type invariant, the ownership invariant of the   *)
(* runs and the parts below; each part is preserved by every step.         *)
(***************************************************************************)
EXTENDS ActivityManager, SequenceTheorems, TLAPS

\* Who holds the rendering mutex follows from where the two tasks are.
MutexHeld ==
    /\ mutex = "main" <=> mpc \in {"shot", "write", "locked", "popped", "install"}
    /\ mutex = "render" <=> rpc \in {"drawing", "drawn", "unlocking"}

\* At most one wake-up is outstanding, and only while the main task waits.
WaiterCounted ==
    /\ waitingTask => mpc = "wait" /\ mainNotify = 0
    /\ mainNotify > 0 => mpc = "wait"

\* The phases of a dispatch: when there is no current activity, and what is pending.
DispatchPhases ==
    /\ currentActivity = None <=> mpc \in {"setup", "popped", "launchHome", "install"}
    /\ popped # None <=> mpc = "popped"
    /\ mpc = "locked" => pendingAction # "None"
    /\ mpc = "install" => pendingAction \in {"Push", "Replace"}
    /\ mpc \in {"setup", "popped", "launchHome"} => pendingAction = "None"
    /\ mpc \in {"setup", "launchHome"} => stackActivities = <<>>
    /\ mpc = "install" /\ pendingAction = "Replace" => stackActivities = <<>>

\* The render task only has an object while it draws, and it is the current one.
DrawsCurrent ==
    /\ rpc # "drawing" => drawing = None
    /\ drawing # None => drawing = currentActivity

\* The pending activity and the popped one are owned by nobody else.
OwnersDiffer ==
    /\ pendingActivity # None => pendingActivity \notin entered \cup {popped}
    /\ popped \notin entered

\* A handler waits for the activity right above its owner.
HandlerFor(parent, child) == resultHandler[parent] \in {None, child} \/ child \in LightPanel

\* The activity above the stack: current, about to be installed, or just popped.
Above == CASE mpc = "install" -> pendingActivity
           [] mpc = "popped"  -> popped
           [] OTHER           -> currentActivity

HandlersMatch ==
    /\ \A i \in 1 .. Len(stackActivities) - 1 :
         HandlerFor(stackActivities[i], stackActivities[i + 1])
    /\ stackActivities # <<>> => HandlerFor(stackActivities[Len(stackActivities)], Above)
    /\ pendingAction = "Push" /\ currentActivity # None =>
         HandlerFor(currentActivity, pendingActivity)

ControlInv == TypeOK /\ MutexHeld /\ WaiterCounted /\ DispatchPhases /\ PendingHasActivity
OwnInv == EnteredExactlyOwned /\ OwnersDiffer /\ DrawsCurrent
Inv == ControlInv /\ OwnInv /\ HandlersMatch

USE NoneIsNoActivity, KindsAreDisjoint, BoundsAreNaturals

-----------------------------------------------------------------------------
(* Elements of a sequence. *)

\* Appending an activity adds it to the elements and moves nothing.
LEMMA ElementsOfAppend ==
    ASSUME NEW S, NEW s \in Seq(S), NEW e \in S
    PROVE  Elements(Append(s, e)) = Elements(s) \cup {e}
<1>1. /\ Len(Append(s, e)) = Len(s) + 1
      /\ \A i \in 1 .. Len(s) : Append(s, e)[i] = s[i]
      /\ Append(s, e)[Len(s) + 1] = e
      /\ Len(s) \in Nat
  BY AppendProperties, LenProperties
<1>2. 1 .. Len(s) + 1 = 1 .. Len(s) \cup {Len(s) + 1}
  BY <1>1
<1>3. QED
  BY <1>1, <1>2, Zenon DEF Elements

\* A prefix of a sequence has the length asked for and the same elements.
LEMMA PrefixProperties ==
    ASSUME NEW S, NEW s \in Seq(S), NEW n \in 0 .. Len(s)
    PROVE  /\ SubSeq(s, 1, n) \in Seq(S)
           /\ Len(SubSeq(s, 1, n)) = n
           /\ \A i \in 1 .. n : SubSeq(s, 1, n)[i] = s[i]
<1>1. Len(s) \in Nat
  BY LenProperties
<1>2. QED
  BY <1>1

\* Dropping the last element of a stack of distinct activities removes just it.
LEMMA ElementsOfFront ==
    ASSUME NEW S, NEW s \in Seq(S), s # <<>>,
           \A i, j \in 1 .. Len(s) : s[i] = s[j] => i = j
    PROVE  /\ Elements(SubSeq(s, 1, Len(s) - 1)) = Elements(s) \ {s[Len(s)]}
           /\ s[Len(s)] \in Elements(s)
           /\ s[Len(s)] \in S
           /\ SubSeq(s, 1, Len(s) - 1) \in Seq(S)
           /\ Len(SubSeq(s, 1, Len(s) - 1)) = Len(s) - 1
           /\ \A i \in 1 .. Len(s) - 1 : SubSeq(s, 1, Len(s) - 1)[i] = s[i]
<1> DEFINE front == SubSeq(s, 1, Len(s) - 1)
<1>1. Len(s) \in Nat /\ Len(s) > 0 /\ Len(s) \in 1 .. Len(s)
  BY EmptySeq
<1>2. /\ front \in Seq(S)
      /\ Len(front) = Len(s) - 1
      /\ \A i \in 1 .. Len(s) - 1 : front[i] = s[i]
  <2>1. Len(s) - 1 \in 0 .. Len(s)
    BY <1>1
  <2>2. QED
    BY <2>1, PrefixProperties
<1>3. \A i \in 1 .. Len(s) : i \in 1 .. Len(s) - 1 \/ i = Len(s)
  BY <1>1
<1>4. \A i \in 1 .. Len(s) - 1 : i \in 1 .. Len(s) /\ i # Len(s)
  BY <1>1
<1>5. Elements(front) = Elements(s) \ {s[Len(s)]}
  <2>1. ASSUME NEW e \in Elements(front) PROVE e \in Elements(s) \ {s[Len(s)]}
    BY <1>1, <1>2, <1>4 DEF Elements
  <2>2. ASSUME NEW e \in Elements(s) \ {s[Len(s)]} PROVE e \in Elements(front)
    BY <1>1, <1>2, <1>3 DEF Elements
  <2>3. QED
    BY <2>1, <2>2
<1>6. s[Len(s)] \in S
  BY <1>1, ElementOfSeq
<1>7. QED
  BY <1>1, <1>2, <1>5, <1>6 DEF Elements

-----------------------------------------------------------------------------
(* Init. *)

LEMMA InitInv == Init => Inv
<1> SUFFICES ASSUME Init PROVE Inv
  OBVIOUS
<1>1. TypeOK
  <2>1. stackActivities \in Seq(Activity)
    BY EmptySeq DEF Init
  <2>2. /\ requestedUpdate \in BOOLEAN /\ waitingTask \in BOOLEAN
        /\ stale \in BOOLEAN /\ frameFresh \in BOOLEAN
    BY Zenon DEF Init
  <2>3. QED
    BY <2>1, <2>2 DEF Init, TypeOK, MaybeActivity
<1>2. MutexHeld /\ DispatchPhases /\ PendingHasActivity
  BY DEF Init, MutexHeld, DispatchPhases, PendingHasActivity
<1>3. WaiterCounted
  BY DEF Init, WaiterCounted
<1>4. OwnInv
  BY EmptySeq DEF Init, OwnInv, EnteredExactlyOwned, OwnersDiffer, DrawsCurrent, Elements
<1>5. HandlersMatch
  BY EmptySeq DEF Init, HandlersMatch
<1>6. QED
  BY <1>1, <1>2, <1>3, <1>4, <1>5 DEF Inv, ControlInv

-----------------------------------------------------------------------------
(* Steps. *)

LEMMA MutexHeldStep == Inv /\ [Next]_vars => MutexHeld'
<1> SUFFICES ASSUME ControlInv, [Next]_vars PROVE MutexHeld'
  BY DEF Inv
<1> USE DEF ControlInv, TypeOK, MutexHeld
<1>1. CASE Outside
  BY <1>1 DEF Outside, UsbStateChanged, TakeScreenshot, ScreenshotDone, SuppressedRelease,
              HomeGestureHandled, SetupLaunch, LockScreenHandOff, GoToSleep, HomeGesture,
              LightPanelGesture, LoopReturns, Launch, MainTakesMutex, MainGivesMutex, syncVars,
              MainLoopContinues, noticeVars
<1>2. CASE RunActivityLoop \/ CallbackReturns \/ FlushUpdate
  BY <1>2 DEF RunActivityLoop, CallbackReturns, FlushUpdate, LoopReturns, syncVars, LoopContext,
              FlushNotifies, noticeVars
<1>3. CASE ActivityCode
  BY <1>3 DEF ActivityCode, RequestUpdate, RequestUpdateNow, RequestUpdateAndWait, WaitReturns,
              Finish, LockState, WriteState, WriteStateUnlocked, StartActivityForResult,
              ReplaceActivity, MainTakesMutex, MainGivesMutex, syncVars, NotifyAtOnce, noticeVars
<1>4. CASE Dispatch
  BY <1>4 DEF Dispatch, DispatchLocks, PopExits, PopResumesParent, PopReleasesForHome,
              LaunchHome, ReplaceExits, PushSuspends, InstallPending, DispatchDone, Launch,
              MainTakesMutex, MainGivesMutex, DispatchPhases, syncVars, Parent, Replaced,
              noticeVars
<1>5. CASE RenderTask
  BY <1>5 DEF RenderTask, RenderWakes, RenderBegins, RenderEnds, RenderNotifiesWaiter,
              RenderUnlocks, syncVars, RenderKeepsMutex, WaiterTaken, noticeVars
<1>6. CASE RenderRequestsUpdate \/ Reboot
  BY <1>6 DEF RenderRequestsUpdate, Reboot
<1>7. CASE UNCHANGED vars
  BY <1>7 DEF vars, syncVars, noticeVars
<1>8. QED
  BY <1>1, <1>2, <1>3, <1>4, <1>5, <1>6, <1>7 DEF Next, Main

LEMMA WaiterCountedStep == Inv /\ [Next]_vars => WaiterCounted'
<1> SUFFICES ASSUME ControlInv, [Next]_vars PROVE WaiterCounted'
  BY DEF Inv
<1> USE DEF ControlInv, TypeOK, WaiterCounted
<1>1. CASE Outside
  BY <1>1 DEF Outside, UsbStateChanged, TakeScreenshot, ScreenshotDone, SuppressedRelease,
              HomeGestureHandled, SetupLaunch, LockScreenHandOff, GoToSleep, HomeGesture,
              LightPanelGesture, LoopReturns, Launch, syncVars, MainLoopContinues, noticeVars
<1>2. CASE RunActivityLoop \/ CallbackReturns \/ FlushUpdate
  BY <1>2 DEF RunActivityLoop, CallbackReturns, FlushUpdate, LoopReturns, syncVars, LoopContext,
              FlushNotifies, noticeVars
<1>3. CASE ActivityCode
  BY <1>3 DEF ActivityCode, RequestUpdate, RequestUpdateNow, RequestUpdateAndWait, WaitReturns,
              Finish, LockState, WriteState, WriteStateUnlocked, StartActivityForResult,
              ReplaceActivity, syncVars, NotifyAtOnce, noticeVars
<1>4. CASE Dispatch
  BY <1>4 DEF Dispatch, DispatchLocks, PopExits, PopResumesParent, PopReleasesForHome,
              LaunchHome, ReplaceExits, PushSuspends, InstallPending, DispatchDone, Launch,
              syncVars, Parent, Replaced, noticeVars
<1>5. CASE RenderTask
  BY <1>5 DEF RenderTask, RenderWakes, RenderBegins, RenderEnds, RenderNotifiesWaiter,
              RenderUnlocks, syncVars, RenderKeepsMutex, WaiterTaken, noticeVars
<1>6. CASE RenderRequestsUpdate \/ Reboot
  BY <1>6 DEF RenderRequestsUpdate, Reboot
<1>7. CASE UNCHANGED vars
  BY <1>7 DEF vars, syncVars, noticeVars
<1>8. QED
  BY <1>1, <1>2, <1>3, <1>4, <1>5, <1>6, <1>7 DEF Next, Main

\* What a step does to navigation: nothing; a deferral; or one step of a launch
\* or of a dispatch.
Phases == {"setup", "locked", "popped", "launchHome", "install"}
KeepsPhase == mpc' = mpc \/ {mpc, mpc'} \cap Phases = {}
Quiet == UNCHANGED navVars /\ KeepsPhase
Defers ==
    /\ mpc \notin Phases /\ mpc' \notin Phases
    /\ UNCHANGED <<stackActivities, currentActivity, entered, popped>>
DefersReplace(a) == Defers /\ DeferReplace(a) /\ UNCHANGED resultHandler
DefersPush(a) ==
    /\ Defers
    /\ DeferPush(a)
    /\ \/ a \in LightPanel /\ UNCHANGED resultHandler
       \/ resultHandler' = [resultHandler EXCEPT ![currentActivity] = a]
DefersPop == Defers /\ DeferPop /\ UNCHANGED resultHandler

LEMMA NavSteps ==
    ASSUME Inv, [Next]_vars
    PROVE  \/ Quiet \/ DefersPop \/ Reboot
           \/ \E a \in Unborn : DefersReplace(a) \/ DefersPush(a)
           \/ \E a \in Unborn : SetupLaunch(a) \/ LaunchHome(a)
           \/ DispatchLocks \/ PopExits \/ PopResumesParent \/ PopReleasesForHome
           \/ ReplaceExits \/ PushSuspends \/ InstallPending
<1> USE DEF Phases, KeepsPhase, Quiet
<1>1. ASSUME UsbStateChanged \/ TakeScreenshot \/ ScreenshotDone \/ SuppressedRelease
      PROVE  Quiet
  BY <1>1 DEF UsbStateChanged, TakeScreenshot, ScreenshotDone, SuppressedRelease, LoopReturns,
              MainLoopContinues
<1>2. ASSUME HomeGestureHandled \/ Finish PROVE DefersPop
  BY <1>2 DEF HomeGestureHandled, Finish, LoopReturns, Defers, DefersPop, DeferPop, Defer
<1>3. ASSUME NEW a \in Activity,
             LockScreenHandOff(a) \/ GoToSleep(a) \/ HomeGesture(a) \/ ReplaceActivity(a)
      PROVE  a \in Unborn /\ DefersReplace(a)
  BY <1>3 DEF LockScreenHandOff, GoToSleep, HomeGesture, ReplaceActivity, LoopReturns, Defers,
              DefersReplace, MainLoopContinues, DeferReplace, Defer
<1>4. ASSUME NEW a \in Activity, LightPanelGesture(a) \/ StartActivityForResult(a)
      PROVE  a \in Unborn /\ DefersPush(a)
  BY <1>4 DEF LightPanelGesture, StartActivityForResult, LoopReturns, Defers, DefersPush,
              DeferPush, Defer
<1>5. ASSUME NEW a \in Activity, SetupLaunch(a) \/ LaunchHome(a)
      PROVE  a \in Unborn
  BY <1>5 DEF SetupLaunch, LaunchHome
<1>6. ASSUME RunActivityLoop \/ CallbackReturns \/ FlushUpdate \/ DispatchDone PROVE Quiet
  BY <1>6 DEF RunActivityLoop, CallbackReturns, FlushUpdate, DispatchDone, LoopReturns,
              LoopContext, FlushNotifies
<1>7. ASSUME \/ RequestUpdate \/ RequestUpdateNow \/ RequestUpdateAndWait \/ WaitReturns
             \/ LockState \/ WriteState \/ WriteStateUnlocked
      PROVE  Quiet
  BY <1>7 DEF RequestUpdate, RequestUpdateNow, RequestUpdateAndWait, WaitReturns, LockState,
              WriteState, WriteStateUnlocked, NotifyAtOnce
<1>8. ASSUME RenderTask \/ RenderRequestsUpdate PROVE Quiet
  BY <1>8 DEF RenderTask, RenderRequestsUpdate, RenderWakes, RenderBegins, RenderEnds,
              RenderNotifiesWaiter, RenderUnlocks, RenderKeepsMutex, WaiterTaken
<1>9. ASSUME UNCHANGED vars PROVE Quiet
  BY <1>9 DEF vars
<1> HIDE DEF Quiet
<1>10. CASE Outside
  BY <1>1, <1>2, <1>3, <1>4, <1>5, <1>10 DEF Outside
<1>11. CASE ActivityCode
  BY <1>2, <1>3, <1>4, <1>7, <1>11 DEF ActivityCode
<1>12. CASE Dispatch
  BY <1>5, <1>6, <1>12 DEF Dispatch
<1>13. QED
  BY <1>6, <1>8, <1>9, <1>10, <1>11, <1>12 DEF Next, Main

\* Where the dispatch is, and what is pending.
LEMMA DispatchPhasesStep == Inv /\ [Next]_vars => DispatchPhases' /\ PendingHasActivity'
<1> SUFFICES ASSUME Inv, [Next]_vars PROVE DispatchPhases' /\ PendingHasActivity'
  OBVIOUS
<1> USE DEF DispatchPhases, PendingHasActivity, Phases
<1>0. TypeOK /\ DispatchPhases /\ PendingHasActivity
  BY DEF Inv, ControlInv
<1>1. CASE Quiet
  BY <1>0, <1>1 DEF Quiet, KeepsPhase, navVars
<1>2. CASE DefersPop
  BY <1>0, <1>2 DEF DefersPop, Defers, DeferPop, Defer
<1>3. ASSUME NEW a \in Unborn, DefersReplace(a) \/ DefersPush(a)
      PROVE  DispatchPhases' /\ PendingHasActivity'
  BY <1>0, <1>3 DEF DefersReplace, DefersPush, Defers, DeferReplace, DeferPush, Unborn, Defer
<1>4. ASSUME NEW a \in Unborn, SetupLaunch(a) \/ LaunchHome(a)
      PROVE  DispatchPhases' /\ PendingHasActivity'
  BY <1>0, <1>4 DEF SetupLaunch, LaunchHome, Launch, Unborn
<1>5. CASE DispatchLocks \/ PopExits
  BY <1>0, <1>5 DEF DispatchLocks, PopExits, navVars, TypeOK, MaybeActivity
<1>6. CASE PopResumesParent
  <2>1. stackActivities[Len(stackActivities)] \in Activity
    BY <1>0, <1>6, EmptySeq, ElementOfSeq DEF PopResumesParent, TypeOK, Parent
  <2>2. QED
    BY <1>0, <1>6, <2>1 DEF PopResumesParent, Parent
<1>7. CASE PopReleasesForHome
  BY <1>0, <1>7 DEF PopReleasesForHome
<1>8. CASE ReplaceExits \/ PushSuspends
  BY <1>0, <1>8 DEF ReplaceExits, PushSuspends, Replaced
<1>9. CASE InstallPending
  BY <1>0, <1>9 DEF InstallPending, Launch
<1>10. CASE Reboot
  BY <1>10 DEF Reboot
<1>11. QED
  BY <1>1, <1>2, <1>3, <1>4, <1>5, <1>6, <1>7, <1>8, <1>9, <1>10, NavSteps

\* Who owns which activity.
LEMMA OwnershipStep == Inv /\ [Next]_vars => EnteredExactlyOwned' /\ OwnersDiffer'
<1> SUFFICES ASSUME Inv, [Next]_vars PROVE EnteredExactlyOwned' /\ OwnersDiffer'
  OBVIOUS
<1> USE DEF EnteredExactlyOwned, OwnersDiffer
<1>0. TypeOK /\ DispatchPhases /\ PendingHasActivity /\ EnteredExactlyOwned /\ OwnersDiffer
  BY DEF Inv, ControlInv, OwnInv
<1>1. CASE Quiet
  BY <1>0, <1>1 DEF Quiet, navVars, Elements
<1>2. CASE DefersPop
  BY <1>0, <1>2 DEF DefersPop, Defers, DeferPop, Elements, Defer
<1>3. ASSUME NEW a \in Unborn, DefersReplace(a) \/ DefersPush(a)
      PROVE  EnteredExactlyOwned' /\ OwnersDiffer'
  BY <1>0, <1>3 DEF DefersReplace, DefersPush, Defers, DeferReplace, DeferPush, Unborn, Owned,
              Elements, Defer
<1>4. ASSUME NEW a \in Unborn, SetupLaunch(a) \/ LaunchHome(a)
      PROVE  EnteredExactlyOwned' /\ OwnersDiffer'
  BY <1>0, <1>4 DEF SetupLaunch, LaunchHome, Launch, Unborn, Owned, DispatchPhases, Elements
<1>5. CASE DispatchLocks
  BY <1>0, <1>5 DEF DispatchLocks, navVars, Elements
<1>5a. CASE PopExits
  <2>1. /\ mpc = "locked" /\ pendingAction = "Pop" /\ pendingActivity = None
        /\ popped' = currentActivity /\ currentActivity' = None
        /\ entered' = entered \ {currentActivity}
        /\ UNCHANGED <<stackActivities, pendingActivity>>
    BY <1>0, <1>5a DEF PopExits, PendingHasActivity
  <2>2. /\ currentActivity # None
        /\ Elements(stackActivities') = Elements(stackActivities)
        /\ None \notin Elements(stackActivities)
    BY <1>0, <2>1, ElementOfSeq DEF DispatchPhases, TypeOK, Elements
  <2>3. QED
    BY <1>0, <2>1, <2>2
<1>6. CASE PopResumesParent
  <2> DEFINE top == stackActivities[Len(stackActivities)]
             front == SubSeq(stackActivities, 1, Len(stackActivities) - 1)
  <2>1. /\ stackActivities # <<>> /\ mpc = "popped"
        /\ stackActivities' = front /\ currentActivity' = top /\ popped' = None
        /\ UNCHANGED <<entered, pendingActivity>>
    BY <1>6 DEF PopResumesParent, Parent
  <2>2. /\ Elements(front) = Elements(stackActivities) \ {top}
        /\ top \in Elements(stackActivities) /\ top \in Activity
        /\ Len(front) = Len(stackActivities) - 1
        /\ \A i \in 1 .. Len(stackActivities) - 1 : front[i] = stackActivities[i]
    BY <1>0, <2>1, ElementsOfFront DEF TypeOK
  <2>3. currentActivity = None /\ None \notin entered
    BY <1>0, <2>1 DEF DispatchPhases
  <2>4. Elements(stackActivities') = Elements(stackActivities) \ {currentActivity'}
    BY <2>1, <2>2
  <2>5. entered' = (Elements(stackActivities') \cup {currentActivity'}) \ {None}
    BY <1>0, <2>1, <2>2, <2>3, <2>4
  <2>6. \A i, j \in 1 .. Len(front) : front[i] = front[j] => i = j
    <3>1. Len(stackActivities) \in Nat
      BY <1>0, LenProperties DEF TypeOK
    <3>2. \A i \in 1 .. Len(stackActivities) - 1 : i \in 1 .. Len(stackActivities)
      BY <3>1
    <3>3. QED
      BY <1>0, <2>2, <3>2
  <2>7. QED
    BY <1>0, <2>1, <2>3, <2>4, <2>5, <2>6
<1>7. CASE PopReleasesForHome
  BY <1>0, <1>7 DEF PopReleasesForHome, Elements
<1>8. CASE ReplaceExits
  BY <1>0, <1>8, EmptySeq DEF ReplaceExits, DispatchPhases, Elements, Replaced
<1>9. CASE PushSuspends
  <2>1. /\ mpc = "locked" /\ stackActivities' = Append(stackActivities, currentActivity)
        /\ currentActivity' = None
        /\ UNCHANGED <<entered, pendingActivity, popped>>
    BY <1>9 DEF PushSuspends
  <2>2. currentActivity \in Activity
    BY <1>0, <2>1 DEF DispatchPhases, TypeOK, MaybeActivity
  <2>3. /\ Elements(stackActivities') = Elements(stackActivities) \cup {currentActivity}
        /\ None \notin Elements(stackActivities)
    BY <1>0, <2>1, <2>2, ElementsOfAppend, ElementOfSeq DEF TypeOK, Elements
  <2>4. /\ Len(stackActivities') = Len(stackActivities) + 1
        /\ \A i \in 1 .. Len(stackActivities) : stackActivities'[i] = stackActivities[i]
        /\ stackActivities'[Len(stackActivities) + 1] = currentActivity
        /\ Len(stackActivities) \in Nat
    BY <1>0, <2>1, <2>2, AppendProperties, LenProperties DEF TypeOK
  <2>5. \A i \in 1 .. Len(stackActivities') :
          i \in 1 .. Len(stackActivities) \/ i = Len(stackActivities) + 1
    BY <2>4
  <2>6. \A i \in 1 .. Len(stackActivities) : stackActivities[i] # currentActivity
    BY <1>0 DEF Elements
  <2>7. \A i, j \in 1 .. Len(stackActivities') :
          stackActivities'[i] = stackActivities'[j] => i = j
    BY <1>0, <2>4, <2>5, <2>6
  <2>8. QED
    BY <1>0, <2>1, <2>2, <2>3, <2>7
<1>10. CASE InstallPending
  BY <1>0, <1>10 DEF InstallPending, Launch, DispatchPhases, PendingHasActivity, Elements
<1>11. CASE Reboot
  BY <1>11, EmptySeq DEF Reboot, Elements
<1>12. QED
  BY <1>1, <1>2, <1>3, <1>4, <1>5, <1>5a, <1>6, <1>7, <1>8, <1>9, <1>10, <1>11, NavSteps

\* The current activity only changes while the render task is not drawing.
LEMMA DrawsCurrentStep == Inv /\ [Next]_vars => DrawsCurrent'
<1> SUFFICES ASSUME Inv, [Next]_vars PROVE DrawsCurrent'
  OBVIOUS
<1> USE DEF DrawsCurrent
<1>0. TypeOK /\ MutexHeld /\ DispatchPhases /\ DrawsCurrent
  BY DEF Inv, ControlInv, OwnInv
<1>1. CASE Outside
  BY <1>0, <1>1 DEF Outside, UsbStateChanged, TakeScreenshot, ScreenshotDone, SuppressedRelease,
              HomeGestureHandled, SetupLaunch, LockScreenHandOff, GoToSleep, HomeGesture,
              LightPanelGesture, Launch, DispatchPhases, navVars, viewVars, MainLoopContinues,
              Defer, DeferPush, DeferReplace, DeferPop
<1>2. CASE RunActivityLoop \/ CallbackReturns \/ FlushUpdate
  BY <1>0, <1>2 DEF RunActivityLoop, CallbackReturns, FlushUpdate, navVars, viewVars,
              LoopContext, FlushNotifies
<1>3. CASE ActivityCode
  BY <1>0, <1>3 DEF ActivityCode, RequestUpdate, RequestUpdateNow, RequestUpdateAndWait,
              WaitReturns, Finish, LockState, WriteState, WriteStateUnlocked,
              StartActivityForResult, ReplaceActivity, navVars, viewVars, NotifyAtOnce, Defer,
              DeferPush, DeferReplace, DeferPop
<1>4. CASE Dispatch
  BY <1>0, <1>4 DEF Dispatch, DispatchLocks, PopExits, PopResumesParent, PopReleasesForHome,
              LaunchHome, ReplaceExits, PushSuspends, InstallPending, DispatchDone, Launch,
              MutexHeld, DispatchPhases, navVars, viewVars, Parent, Replaced
<1>5. CASE RenderTask
  BY <1>0, <1>5 DEF RenderTask, RenderWakes, RenderBegins, RenderEnds, RenderNotifiesWaiter,
              RenderUnlocks, navVars, viewVars, RenderKeepsMutex, WaiterTaken
<1>6. CASE RenderRequestsUpdate \/ Reboot
  BY <1>0, <1>6 DEF RenderRequestsUpdate, Reboot, navVars, viewVars
<1>7. CASE UNCHANGED vars
  BY <1>0, <1>7 DEF vars, navVars, viewVars
<1>8. QED
  BY <1>1, <1>2, <1>3, <1>4, <1>5, <1>6, <1>7 DEF Next, Main

\* The type invariant; the notification counters need the bounds above.
LEMMA TypeStep == Inv /\ [Next]_vars => TypeOK'
<1> SUFFICES ASSUME Inv, [Next]_vars PROVE TypeOK'
  OBVIOUS
<1>0. /\ TypeOK /\ WaiterCounted /\ DispatchPhases /\ PendingHasActivity /\ EnteredExactlyOwned
      /\ OwnersDiffer
  BY DEF Inv, ControlInv, OwnInv
<1> DEFINE NavTypes == /\ stackActivities \in Seq(Activity)
                       /\ currentActivity \in MaybeActivity
                       /\ pendingActivity \in MaybeActivity
                       /\ pendingAction \in {"None", "Push", "Pop", "Replace"}
                       /\ resultHandler \in [Activity -> MaybeActivity]
                       /\ entered \subseteq Activity
                       /\ popped \in MaybeActivity
<1>1. NavTypes'
  <2> USE DEF MaybeActivity
  <2>0. NavTypes
    BY <1>0 DEF TypeOK
  <2>1. CASE Quiet
    BY <2>0, <2>1 DEF Quiet, navVars
  <2>2. CASE DefersPop
    BY <2>0, <2>2 DEF DefersPop, Defers, DeferPop, Defer
  <2>3. ASSUME NEW a \in Unborn, DefersReplace(a) \/ DefersPush(a) PROVE NavTypes'
    BY <2>0, <2>3 DEF DefersReplace, DefersPush, Defers, DeferReplace, DeferPush, Unborn, Defer
  <2>4. ASSUME NEW a \in Unborn, SetupLaunch(a) \/ LaunchHome(a) PROVE NavTypes'
    BY <2>0, <2>4 DEF SetupLaunch, LaunchHome, Launch, Unborn
  <2>5. CASE DispatchLocks \/ PopExits \/ PopReleasesForHome
    BY <2>0, <2>5 DEF DispatchLocks, PopExits, PopReleasesForHome, navVars
  <2>6. CASE PopResumesParent
    <3>1. stackActivities # <<>>
      BY <2>6 DEF PopResumesParent, Parent
    <3>2. /\ stackActivities[Len(stackActivities)] \in Activity
          /\ SubSeq(stackActivities, 1, Len(stackActivities) - 1) \in Seq(Activity)
      BY <2>0, <3>1, <1>0, ElementsOfFront DEF EnteredExactlyOwned
    <3>3. QED
      BY <2>0, <2>6, <3>2 DEF PopResumesParent, Parent
  <2>7. CASE ReplaceExits
    BY <2>0, <2>7, EmptySeq DEF ReplaceExits, Replaced
  <2>8. CASE PushSuspends
    <3>1. currentActivity \in Activity
      BY <1>0, <2>0, <2>8 DEF PushSuspends, DispatchPhases
    <3>2. QED
      BY <2>0, <2>8, <3>1, AppendProperties DEF PushSuspends
  <2>9. CASE InstallPending
    <3>1. pendingActivity \in Activity
      BY <1>0, <2>0, <2>9 DEF InstallPending, DispatchPhases, PendingHasActivity
    <3>2. QED
      BY <2>0, <2>9, <3>1 DEF InstallPending, Launch
  <2>10. CASE Reboot
    BY <2>10, EmptySeq DEF Reboot
  <2>11. QED
    BY <2>1, <2>2, <2>3, <2>4, <2>5, <2>6, <2>7, <2>8, <2>9, <2>10, NavSteps
<1> DEFINE TaskTypes == /\ sleepScreen \in MaybeActivity
                        /\ renderNotify \in 0 .. MaxNotify
                        /\ mainNotify \in 0 .. 1
                        /\ mutex \in {"free", "main", "render"}
                        /\ mpc \in {"setup", "loopTop", "shot", "run", "write", "wait", "dispatch",
                                    "locked", "popped", "launchHome", "install", "flush", "off"}
                        /\ ctx \in {"setup", "loop", "exclusive", "enter", "handler"}
                        /\ rpc \in {"idle", "woken", "drawing", "drawn", "unlocking"}
                        /\ drawing \in MaybeActivity
<1>2. TaskTypes'
  <2> USE DEF MaybeActivity, navVars, syncVars, viewVars, WaiterCounted, noticeVars
  <2>0. TaskTypes /\ WaiterCounted /\ currentActivity \in MaybeActivity
    BY <1>0 DEF TypeOK
  <2>1. CASE Outside
    BY <2>0, <2>1 DEF Outside, UsbStateChanged, TakeScreenshot, ScreenshotDone,
              SuppressedRelease, HomeGestureHandled, SetupLaunch, LockScreenHandOff, GoToSleep,
              HomeGesture, LightPanelGesture, LoopReturns, Launch, PanelOutdated, MainTakesMutex,
              MainGivesMutex, Unborn, MainLoopContinues
  <2>2. CASE RunActivityLoop \/ CallbackReturns \/ FlushUpdate
    BY <2>0, <2>2 DEF RunActivityLoop, CallbackReturns, FlushUpdate, LoopReturns,
              NotifyRenderTask, LoopContext, FlushNotifies
  <2>3. CASE ActivityCode
    BY <2>0, <2>3 DEF ActivityCode, RequestUpdate, RequestUpdateNow, RequestUpdateAndWait,
              WaitReturns, Finish, LockState, WriteState, WriteStateUnlocked,
              StartActivityForResult, ReplaceActivity, NotifyRenderTask, PanelOutdated,
              MainTakesMutex, MainGivesMutex, NotifyAtOnce
  <2>4. CASE Dispatch
    BY <2>0, <2>4 DEF Dispatch, DispatchLocks, PopExits, PopResumesParent, PopReleasesForHome,
              LaunchHome, ReplaceExits, PushSuspends, InstallPending, DispatchDone, Launch,
              PanelOutdated, MainTakesMutex, MainGivesMutex, Parent, Replaced
  <2>5. CASE RenderTask
    BY <2>0, <2>5 DEF RenderTask, RenderWakes, RenderBegins, RenderEnds, RenderNotifiesWaiter,
              RenderUnlocks, RenderKeepsMutex, WaiterTaken
  <2>6. CASE RenderRequestsUpdate \/ Reboot
    BY <2>0, <2>6 DEF RenderRequestsUpdate, Reboot
  <2>7. CASE UNCHANGED vars
    BY <2>0, <2>7 DEF vars
  <2>8. QED
    BY <2>1, <2>2, <2>3, <2>4, <2>5, <2>6, <2>7 DEF Next, Main
<1> DEFINE FlagTypes == /\ requestedUpdate \in BOOLEAN
                        /\ waitingTask \in BOOLEAN
                        /\ stale \in BOOLEAN
                        /\ frameFresh \in BOOLEAN
<1>3. FlagTypes'
  <2> USE DEF syncVars, viewVars, noticeVars
  <2>0. FlagTypes
    BY <1>0 DEF TypeOK
  <2>1. CASE Outside
    BY <2>0, <2>1 DEF Outside, UsbStateChanged, TakeScreenshot, ScreenshotDone,
              SuppressedRelease, HomeGestureHandled, SetupLaunch, LockScreenHandOff, GoToSleep,
              HomeGesture, LightPanelGesture, LoopReturns, Launch, PanelOutdated, MainTakesMutex,
              MainGivesMutex, Unborn, MainLoopContinues
  <2>2. CASE RunActivityLoop \/ CallbackReturns \/ FlushUpdate
    BY <2>0, <2>2 DEF RunActivityLoop, CallbackReturns, FlushUpdate, LoopReturns,
              NotifyRenderTask, LoopContext, FlushNotifies
  <2>3. CASE ActivityCode
    BY <2>0, <2>3 DEF ActivityCode, RequestUpdate, RequestUpdateNow, RequestUpdateAndWait,
              WaitReturns, Finish, LockState, WriteState, WriteStateUnlocked,
              StartActivityForResult, ReplaceActivity, NotifyRenderTask, PanelOutdated,
              MainTakesMutex, MainGivesMutex, NotifyAtOnce
  <2>4. CASE Dispatch
    BY <2>0, <2>4 DEF Dispatch, DispatchLocks, PopExits, PopResumesParent, PopReleasesForHome,
              LaunchHome, ReplaceExits, PushSuspends, InstallPending, DispatchDone, Launch,
              PanelOutdated, MainTakesMutex, MainGivesMutex, Parent, Replaced
  <2>5. CASE RenderTask
    BY <2>0, <2>5 DEF RenderTask, RenderWakes, RenderBegins, RenderEnds, RenderNotifiesWaiter,
              RenderUnlocks, RenderKeepsMutex, WaiterTaken
  <2>6. CASE RenderRequestsUpdate \/ Reboot
    BY <2>0, <2>6 DEF RenderRequestsUpdate, Reboot
  <2>7. CASE UNCHANGED vars
    BY <2>0, <2>7 DEF vars
  <2>8. QED
    BY <2>1, <2>2, <2>3, <2>4, <2>5, <2>6, <2>7 DEF Next, Main
<1>4. QED
  BY <1>1, <1>2, <1>3 DEF TypeOK

\* Only the current activity registers a handler, and only for what it pushes.
LEMMA HandlersMatchStep == Inv /\ [Next]_vars => HandlersMatch'
<1> SUFFICES ASSUME Inv, [Next]_vars PROVE HandlersMatch'
  OBVIOUS
<1> USE DEF HandlersMatch, HandlerFor, Above, Phases
<1>0. /\ TypeOK /\ DispatchPhases /\ PendingHasActivity /\ EnteredExactlyOwned /\ OwnersDiffer
      /\ HandlersMatch
  BY DEF Inv, ControlInv, OwnInv
<1>a. /\ Len(stackActivities) \in Nat
      /\ \A i \in 1 .. Len(stackActivities) : stackActivities[i] \in Elements(stackActivities)
      /\ stackActivities # <<>> => Len(stackActivities) \in 1 .. Len(stackActivities)
      /\ \A i \in 1 .. Len(stackActivities) - 1 : i \in 1 .. Len(stackActivities)
      /\ \A i \in 1 .. Len(stackActivities) : stackActivities[i] \in Activity
  BY <1>0, LenProperties, EmptySeq, ElementOfSeq DEF TypeOK, Elements
<1>b. /\ Elements(stackActivities) \subseteq entered
      /\ currentActivity \notin Elements(stackActivities)
      /\ resultHandler \in [Activity -> MaybeActivity]
  BY <1>0, ElementOfSeq DEF EnteredExactlyOwned, TypeOK, Elements
<1>1. CASE Quiet
  BY <1>0, <1>1 DEF Quiet, KeepsPhase, navVars
<1>2. CASE DefersPop
  BY <1>0, <1>2 DEF DefersPop, Defers, DeferPop, Defer
<1>3. ASSUME NEW a \in Unborn, DefersReplace(a) PROVE HandlersMatch'
  BY <1>0, <1>3 DEF DefersReplace, Defers, DeferReplace, Defer
<1>4. ASSUME NEW a \in Unborn, DefersPush(a) PROVE HandlersMatch'
  <2>1. /\ mpc \notin Phases /\ mpc' \notin Phases
        /\ UNCHANGED <<stackActivities, currentActivity>>
        /\ pendingActivity' = a
        /\ \/ a \in LightPanel /\ resultHandler' = resultHandler
           \/ resultHandler' = [resultHandler EXCEPT ![currentActivity] = a]
    BY <1>4 DEF DefersPush, Defers, DeferPush, Defer
  <2>2. currentActivity \in Activity
    BY <1>0, <2>1 DEF DispatchPhases, TypeOK, MaybeActivity
  <2>3. \A i \in 1 .. Len(stackActivities) :
          resultHandler'[stackActivities[i]] = resultHandler[stackActivities[i]]
    BY <1>a, <1>b, <2>1
  <2>4. HandlerFor(currentActivity, a)'
    BY <1>b, <2>1, <2>2
  <2>5. QED
    BY <1>0, <1>a, <2>1, <2>3, <2>4
<1>5. ASSUME NEW a \in Unborn, SetupLaunch(a) \/ LaunchHome(a) PROVE HandlersMatch'
  <2>1. stackActivities' = <<>> /\ pendingAction' = "None"
    BY <1>0, <1>5 DEF SetupLaunch, LaunchHome, DispatchPhases
  <2>2. QED
    BY <2>1, EmptySeq
<1>6. CASE DispatchLocks
  BY <1>0, <1>6 DEF DispatchLocks, navVars
<1>7. CASE PopExits
  BY <1>0, <1>7 DEF PopExits
<1>8. CASE PopResumesParent
  <2> DEFINE top == stackActivities[Len(stackActivities)]
             front == SubSeq(stackActivities, 1, Len(stackActivities) - 1)
             NextHandlerFor(p, c) == resultHandler'[p] \in {None, c} \/ c \in LightPanel
  <2>1. /\ stackActivities # <<>> /\ mpc = "popped" /\ mpc' \notin Phases
        /\ stackActivities' = front /\ currentActivity' = top
        /\ resultHandler' = [resultHandler EXCEPT ![top] = None]
        /\ pendingAction' = pendingAction
    BY <1>8 DEF PopResumesParent, Parent
  <2>2. /\ top \in Activity
        /\ Len(front) = Len(stackActivities) - 1
        /\ \A i \in 1 .. Len(stackActivities) - 1 :
             front[i] = stackActivities[i] /\ front[i] # top
    <3>1. \A i \in 1 .. Len(stackActivities) - 1 : i # Len(stackActivities)
      BY <1>a
    <3>2. /\ top \in Activity
          /\ Len(front) = Len(stackActivities) - 1
          /\ \A i \in 1 .. Len(stackActivities) - 1 : front[i] = stackActivities[i]
      BY <1>0, <2>1, ElementsOfFront DEF TypeOK, EnteredExactlyOwned
    <3>3. \A i \in 1 .. Len(stackActivities) - 1 : stackActivities[i] # top
      BY <1>0, <1>a, <2>1, <3>1 DEF EnteredExactlyOwned
    <3>4. QED
      BY <3>2, <3>3
  <2>3. \A i \in 1 .. Len(front) : resultHandler'[front[i]] = resultHandler[front[i]]
    <3>1. \A i \in 1 .. Len(front) : front[i] \in Activity
      BY <1>0, <1>a, <2>2, ElementOfSeq DEF TypeOK
    <3>2. QED
      BY <1>b, <2>1, <2>2, <3>1
  <2>4. \A i \in 1 .. Len(front) - 1 : NextHandlerFor(front[i], front[i + 1])
    <3>1. ASSUME NEW i \in 1 .. Len(front) - 1
          PROVE  /\ i \in 1 .. Len(stackActivities) - 1
                 /\ i + 1 \in 1 .. Len(stackActivities) - 1
                 /\ i \in 1 .. Len(front)
      BY <1>a, <2>2
    <3>2. QED
      BY <1>0, <2>2, <2>3, <3>1
  <2>5. front # <<>> => NextHandlerFor(front[Len(front)], top)
    <3>1. SUFFICES ASSUME front # <<>> PROVE NextHandlerFor(front[Len(front)], top)
      OBVIOUS
    <3>2. Len(front) # 0
      BY <1>0, <2>1, <3>1, ElementsOfFront, EmptySeq DEF TypeOK, EnteredExactlyOwned
    <3>3. /\ Len(front) \in 1 .. Len(stackActivities) - 1
          /\ Len(front) \in 1 .. Len(front)
          /\ Len(front) + 1 = Len(stackActivities)
      BY <1>a, <2>2, <3>2
    <3>4. QED
      BY <1>0, <2>2, <2>3, <3>3
  <2>6. pendingAction' = "None"
    BY <1>0, <2>1 DEF DispatchPhases
  <2>7. QED
    BY <2>1, <2>4, <2>5, <2>6
<1>9. CASE PopReleasesForHome
  BY <1>0, <1>9, EmptySeq DEF PopReleasesForHome
<1>10. CASE ReplaceExits
  BY <1>10, EmptySeq DEF ReplaceExits, Replaced
<1>11. CASE PushSuspends
  <2>1. /\ mpc = "locked" /\ mpc' = "install" /\ pendingAction = "Push"
        /\ stackActivities' = Append(stackActivities, currentActivity)
        /\ currentActivity' = None
        /\ UNCHANGED <<pendingActivity, resultHandler>>
    BY <1>11 DEF PushSuspends
  <2>2. currentActivity \in Activity
    BY <1>0, <2>1 DEF DispatchPhases, TypeOK, MaybeActivity
  <2>3. /\ Len(stackActivities') = Len(stackActivities) + 1
        /\ \A i \in 1 .. Len(stackActivities) : stackActivities'[i] = stackActivities[i]
        /\ stackActivities'[Len(stackActivities) + 1] = currentActivity
    BY <1>0, <2>1, <2>2, AppendProperties DEF TypeOK
  <2>4. \A i \in 1 .. Len(stackActivities') - 1 :
          HandlerFor(stackActivities[i], stackActivities'[i + 1])
    <3>1. ASSUME NEW i \in 1 .. Len(stackActivities), i # Len(stackActivities)
          PROVE  HandlerFor(stackActivities[i], stackActivities'[i + 1])
      BY <1>0, <1>a, <2>3, <3>1
    <3>2. stackActivities # <<>> =>
            HandlerFor(stackActivities[Len(stackActivities)], currentActivity)
      BY <1>0, <2>1
    <3>3. Len(stackActivities) \in 1 .. Len(stackActivities) => stackActivities # <<>>
      BY EmptySeq
    <3>4. Len(stackActivities') - 1 = Len(stackActivities)
      BY <1>a, <2>3
    <3>5. QED
      BY <2>3, <3>1, <3>2, <3>3, <3>4
  <2>5. HandlerFor(currentActivity, pendingActivity)
    BY <1>0, <2>1, <2>2
  <2>6. QED
    BY <1>a, <2>1, <2>3, <2>4, <2>5
<1>12. CASE InstallPending
  <2>1. /\ mpc = "install" /\ mpc' = "run" /\ currentActivity' = pendingActivity
        /\ resultHandler' = [resultHandler EXCEPT ![pendingActivity] = None]
        /\ stackActivities' = stackActivities /\ pendingAction' = "None"
    BY <1>12 DEF InstallPending, Launch
  <2>2. pendingActivity # None /\ pendingActivity \notin Elements(stackActivities)
    BY <1>0, <1>b, <2>1 DEF DispatchPhases, PendingHasActivity, OwnersDiffer
  <2>3. \A i \in 1 .. Len(stackActivities) :
          resultHandler'[stackActivities[i]] = resultHandler[stackActivities[i]]
    BY <1>0, <1>a, <1>b, <2>1, <2>2, ElementOfSeq DEF TypeOK
  <2>4. QED
    BY <1>0, <1>a, <2>1, <2>3
<1>13. CASE Reboot
  BY <1>13, EmptySeq DEF Reboot
<1>14. QED
  BY <1>1, <1>2, <1>3, <1>4, <1>5, <1>6, <1>7, <1>8, <1>9, <1>10, <1>11, <1>12, <1>13, NavSteps

-----------------------------------------------------------------------------
(* The invariant and what follows from it. *)

\* Every part of the invariant is preserved by every step.
LEMMA Inductive == Inv /\ [Next]_vars => Inv'
BY TypeStep, MutexHeldStep, WaiterCountedStep, DispatchPhasesStep, OwnershipStep,
   DrawsCurrentStep, HandlersMatchStep
   DEF Inv, ControlInv, OwnInv

\* Inv holds in every reachable state.
THEOREM Invariance == Spec => []Inv
BY InitInv, Inductive, PTL DEF Spec

\* The type invariant of the runs: no step of either task leaves the types, and
\* one wait of requestUpdateAndWait() never collects two notifications.
THEOREM TypeCorrect == Spec => []TypeOK
<1>1. Inv => TypeOK
  BY DEF Inv, ControlInv
<1>2. QED
  BY <1>1, Invariance, PTL

\* Whatever the schedule, render() runs on the current activity, entered and not
\* yet exited: the main task never destroys or suspends it under the render task.
THEOREM RenderSafe == Spec => []RenderedIsAlive
<1>1. Inv => RenderedIsAlive
  BY DEF Inv, ControlInv, OwnInv, DrawsCurrent, EnteredExactlyOwned, RenderedIsAlive
<1>2. QED
  BY <1>1, Invariance, PTL

\* onEnter() and onExit() are paired for every activity, at every stack depth.
THEOREM Lifecycle == Spec => []EnteredExactlyOwned
<1>1. Inv => EnteredExactlyOwned
  BY DEF Inv, OwnInv
<1>2. QED
  BY <1>1, Invariance, PTL

\* The dispatch loop of loop() never spins on a Push or Replace without an activity.
THEOREM DispatchMakesProgress == Spec => []PendingHasActivity
<1>1. Inv => PendingHasActivity
  BY DEF Inv, ControlInv
<1>2. QED
  BY <1>1, Invariance, PTL

\* A result is delivered to the handler registered for that very child.
THEOREM ResultsAreRouted == Spec => []ResultReachesLauncher
<1>1. Inv => ResultReachesLauncher
  <2> SUFFICES ASSUME Inv, mpc = "popped", stackActivities # <<>>
               PROVE  \/ resultHandler[stackActivities[Len(stackActivities)]] \in {None, popped}
                      \/ popped \in LightPanel
    BY DEF ResultReachesLauncher, Parent
  <2>1. HandlerFor(stackActivities[Len(stackActivities)], Above)
    BY DEF Inv, HandlersMatch
  <2>2. Above = popped
    BY DEF Above
  <2>3. QED
    BY <2>1, <2>2 DEF HandlerFor
<1>2. QED
  BY <1>1, Invariance, PTL

-----------------------------------------------------------------------------
(* Refinement of NavStack. *)

\* Appending the last element to what precedes it gives the sequence back, and
\* dropping an appended element does too.
LEMMA AppendAndFront ==
    ASSUME NEW S, NEW s \in Seq(S)
    PROVE  /\ s # <<>> => Append(SubSeq(s, 1, Len(s) - 1), s[Len(s)]) = s
           /\ \A e \in S : /\ SubSeq(Append(s, e), 1, Len(Append(s, e)) - 1) = s
                           /\ Append(s, e) # <<>>
                           /\ Append(s, e)[Len(Append(s, e))] = e
<1>0. Len(s) \in Nat
  BY LenProperties
<1>1. ASSUME s # <<>> PROVE Append(SubSeq(s, 1, Len(s) - 1), s[Len(s)]) = s
  <2> DEFINE front == SubSeq(s, 1, Len(s) - 1)
  <2>1. Len(s) - 1 \in 0 .. Len(s) /\ Len(s) \in 1 .. Len(s)
    BY <1>0, <1>1, EmptySeq
  <2>2. /\ front \in Seq(S)
        /\ Len(front) = Len(s) - 1
        /\ \A i \in 1 .. Len(s) - 1 : front[i] = s[i]
    BY <2>1, PrefixProperties
  <2>2a. s[Len(s)] \in S
    BY <2>1, ElementOfSeq
  <2> HIDE DEF front
  <2>3. /\ Append(front, s[Len(s)]) \in Seq(S)
        /\ Len(Append(front, s[Len(s)])) = Len(s)
        /\ \A i \in 1 .. Len(s) - 1 : Append(front, s[Len(s)])[i] = s[i]
        /\ Append(front, s[Len(s)])[Len(s)] = s[Len(s)]
    BY <1>0, <2>2, <2>2a, AppendProperties
  <2>4. \A i \in 1 .. Len(s) : i \in 1 .. Len(s) - 1 \/ i = Len(s)
    BY <1>0
  <2>5. \A i \in 1 .. Len(s) : Append(front, s[Len(s)])[i] = s[i]
    BY <2>3, <2>4
  <2>6. Append(front, s[Len(s)]) = s
    BY <2>3, <2>5, SeqEqual
  <2>7. QED
    BY <2>6 DEF front
<1>2. ASSUME NEW e \in S
      PROVE  /\ SubSeq(Append(s, e), 1, Len(Append(s, e)) - 1) = s
             /\ Append(s, e) # <<>>
             /\ Append(s, e)[Len(Append(s, e))] = e
  <2>1. /\ Append(s, e) \in Seq(S) /\ Append(s, e) # <<>>
        /\ Len(Append(s, e)) = Len(s) + 1
        /\ \A i \in 1 .. Len(s) : Append(s, e)[i] = s[i]
        /\ Append(s, e)[Len(s) + 1] = e
    BY AppendProperties
  <2>2. Len(Append(s, e)) - 1 = Len(s) /\ Len(s) \in 0 .. Len(Append(s, e))
    BY <1>0, <2>1
  <2>3. /\ SubSeq(Append(s, e), 1, Len(s)) \in Seq(S)
        /\ Len(SubSeq(Append(s, e), 1, Len(s))) = Len(s)
        /\ \A i \in 1 .. Len(s) : SubSeq(Append(s, e), 1, Len(s))[i] = s[i]
    BY <2>1, <2>2, PrefixProperties
  <2>4. SubSeq(Append(s, e), 1, Len(s)) = s
    BY <2>3, SeqEqual
  <2>5. QED
    BY <2>1, <2>2, <2>4
<1>3. QED
  BY <1>1, <1>2

\* The stack of NavStack under the refinement mapping.
NavBar == IF currentActivity = None THEN stackActivities
                                    ELSE Append(stackActivities, currentActivity)

\* A step that leaves the mapped stack alone stutters, begins or ends a drawing.
LEMMA NavUnchanged ==
    ASSUME Inv, [Next]_vars, UNCHANGED <<stackActivities, currentActivity>>
    PROVE  [Nav!Next]_Nav!vars
<1>0. TypeOK /\ DrawsCurrent
  BY DEF Inv, ControlInv, OwnInv
<1>1. NavBar' = NavBar
  BY DEF NavBar
<1>2. \/ drawing' = drawing
      \/ drawing = None /\ drawing' = currentActivity
      \/ drawing # None /\ drawing' = None
  <2>1. CASE RenderTask
    BY <1>0, <2>1 DEF RenderTask, RenderWakes, RenderBegins, RenderEnds, RenderNotifiesWaiter,
              RenderUnlocks, viewVars, DrawsCurrent, RenderKeepsMutex, WaiterTaken
  <2>2. CASE Main
    BY <2>2 DEF Main, Outside, UsbStateChanged, TakeScreenshot, ScreenshotDone,
              SuppressedRelease, HomeGestureHandled, SetupLaunch, LockScreenHandOff, GoToSleep,
              HomeGesture, LightPanelGesture, RunActivityLoop, CallbackReturns, FlushUpdate,
              ActivityCode, RequestUpdate, RequestUpdateNow, RequestUpdateAndWait, WaitReturns,
              Finish, LockState, WriteState, WriteStateUnlocked, StartActivityForResult,
              ReplaceActivity, Dispatch, DispatchLocks, PopExits, PopResumesParent,
              PopReleasesForHome, LaunchHome, ReplaceExits, PushSuspends, InstallPending,
              DispatchDone, viewVars, MainLoopContinues, LoopContext, FlushNotifies,
              NotifyAtOnce, Parent, Replaced
  <2>3. CASE RenderRequestsUpdate \/ Reboot \/ UNCHANGED vars
    BY <2>3 DEF RenderRequestsUpdate, Reboot, vars, viewVars
  <2>4. QED
    BY <2>1, <2>2, <2>3 DEF Next
<1>3. CASE drawing' = drawing
  BY <1>1, <1>3 DEF Nav!vars, NavBar
<1>4. CASE drawing = None /\ drawing' = currentActivity /\ currentActivity # None
  <2>1. NavBar # <<>> /\ NavBar[Len(NavBar)] = currentActivity
    BY <1>0, <1>4, AppendAndFront DEF NavBar, TypeOK, MaybeActivity
  <2>2. Nav!BeginDraw
    BY <1>1, <1>4, <2>1 DEF Nav!BeginDraw, NavBar
  <2>3. QED
    BY <2>2 DEF Nav!Next
<1>5. CASE drawing # None /\ drawing' = None
  BY <1>1, <1>5 DEF Nav!EndDraw, Nav!Next, NavBar
<1>6. QED
  BY <1>2, <1>3, <1>4, <1>5

\* Every step of the two tasks is a step of NavStack or leaves it as it is.
LEMMA NavStep == Inv /\ [Next]_vars => [Nav!Next]_Nav!vars
<1> SUFFICES ASSUME Inv, [Next]_vars PROVE [Nav!Next]_Nav!vars
  OBVIOUS
<1>0. /\ TypeOK /\ DispatchPhases /\ PendingHasActivity /\ EnteredExactlyOwned /\ OwnersDiffer
      /\ DrawsCurrent /\ MutexHeld
  BY DEF Inv, ControlInv, OwnInv
<1>1. CASE Quiet \/ DefersPop \/ DispatchLocks \/ PopReleasesForHome
  <2>1. UNCHANGED <<stackActivities, currentActivity>>
    BY <1>1 DEF Quiet, DefersPop, Defers, DispatchLocks, PopReleasesForHome, navVars
  <2>2. QED
    BY <2>1, NavUnchanged
<1>2. ASSUME NEW a \in Unborn, DefersReplace(a) \/ DefersPush(a)
      PROVE  [Nav!Next]_Nav!vars
  BY <1>2, NavUnchanged DEF DefersReplace, DefersPush, Defers
<1>3. ASSUME NEW a \in Unborn, SetupLaunch(a) \/ LaunchHome(a)
      PROVE  [Nav!Next]_Nav!vars
  <2>1. /\ currentActivity = None /\ stackActivities = <<>> /\ drawing = None
        /\ currentActivity' = a /\ stackActivities' = <<>> /\ drawing' = None
        /\ a \in Activity /\ a # None
    BY <1>0, <1>3 DEF SetupLaunch, LaunchHome, Launch, DispatchPhases, DrawsCurrent, Unborn
  <2>2. NavBar = <<>> /\ NavBar' = <<a>>
    BY <2>1 DEF NavBar
  <2>3. Nav!Start(a)
    BY <2>1, <2>2 DEF Nav!Start, NavBar
  <2>4. QED
    BY <2>1, <2>3 DEF Nav!Next
<1>4. CASE PopExits
  <2>1. /\ currentActivity \in Activity /\ currentActivity # None /\ drawing = None
        /\ currentActivity' = None /\ stackActivities' = stackActivities /\ drawing' = None
    BY <1>0, <1>4 DEF PopExits, DispatchPhases, DrawsCurrent, MutexHeld, TypeOK, MaybeActivity,
                      viewVars
  <2>2. NavBar # <<>> /\ NavBar' = SubSeq(NavBar, 1, Len(NavBar) - 1)
    BY <1>0, <2>1, AppendAndFront DEF NavBar, TypeOK
  <2>3. Nav!Pop
    BY <2>1, <2>2 DEF Nav!Pop, NavBar
  <2>4. QED
    BY <2>3 DEF Nav!Next
<1>5. CASE PopResumesParent
  <2>1. /\ currentActivity = None /\ stackActivities # <<>> /\ UNCHANGED drawing
        /\ currentActivity' = stackActivities[Len(stackActivities)]
        /\ stackActivities' = SubSeq(stackActivities, 1, Len(stackActivities) - 1)
    BY <1>0, <1>5 DEF PopResumesParent, DispatchPhases, Parent
  <2>2. stackActivities[Len(stackActivities)] # None
    BY <1>0, <2>1, EmptySeq, ElementOfSeq DEF TypeOK
  <2>3. NavBar' = NavBar
    BY <1>0, <2>1, <2>2, AppendAndFront DEF NavBar, TypeOK
  <2>4. QED
    BY <2>1, <2>3 DEF Nav!vars, NavBar
<1>6. CASE ReplaceExits
  <2>1. /\ currentActivity' = None /\ stackActivities' = <<>> /\ drawing = None /\ drawing' = None
    BY <1>0, <1>6 DEF ReplaceExits, DrawsCurrent, MutexHeld, viewVars, Replaced
  <2>2. Nav!Clear
    BY <2>1 DEF Nav!Clear, NavBar
  <2>3. QED
    BY <2>2 DEF Nav!Next
<1>7. CASE PushSuspends
  <2>1. /\ currentActivity # None /\ currentActivity' = None /\ UNCHANGED drawing
        /\ stackActivities' = Append(stackActivities, currentActivity)
    BY <1>0, <1>7 DEF PushSuspends, DispatchPhases, viewVars
  <2>2. QED
    BY <2>1 DEF Nav!vars
<1>8. CASE InstallPending
  <2>1. /\ currentActivity = None /\ stackActivities' = stackActivities
        /\ currentActivity' = pendingActivity /\ pendingActivity # None
        /\ pendingActivity \in Activity
        /\ drawing = None /\ drawing' = None
    BY <1>0, <1>8 DEF InstallPending, Launch, DispatchPhases, PendingHasActivity, DrawsCurrent,
                      MutexHeld, TypeOK, MaybeActivity
  <2>2. pendingActivity \notin Elements(stackActivities)
    BY <1>0, <2>1, ElementOfSeq
       DEF EnteredExactlyOwned, OwnersDiffer, Elements, TypeOK
  <2>3. NavBar = stackActivities /\ NavBar' = Append(stackActivities, pendingActivity)
    BY <2>1 DEF NavBar
  <2>4. CASE stackActivities = <<>>
    <3>1. Nav!Start(pendingActivity)
      BY <2>1, <2>3, <2>4 DEF Nav!Start, NavBar
    <3>2. QED
      BY <2>1, <3>1 DEF Nav!Next
  <2>5. CASE stackActivities # <<>>
    <3>1. Nav!Push(pendingActivity)
      BY <2>1, <2>2, <2>3, <2>5 DEF Nav!Push, Nav!Alive, Elements, NavBar
    <3>2. QED
      BY <2>1, <3>1 DEF Nav!Next
  <2>6. QED
    BY <2>4, <2>5
<1>9. CASE Reboot
  <2>1. Nav!PowerLoss
    BY <1>9 DEF Reboot, Nav!PowerLoss
  <2>2. QED
    BY <2>1 DEF Nav!Next
<1>10. QED
  BY <1>1, <1>2, <1>3, <1>4, <1>5, <1>6, <1>7, <1>8, <1>9, NavSteps

\* Two tasks, a mutex, a pending slot and a swap in several steps look to
\* activities like the atomic stack of NavStack.
THEOREM Refinement == Spec => ImplementsNavStack
<1>1. Init => Nav!Init
  BY DEF Init, Nav!Init
<1>2. QED
  BY <1>1, Invariance, NavStep, PTL DEF Spec, ImplementsNavStack, Nav!Spec

-----------------------------------------------------------------------------
(* Exclusive storage. *)

\* A loop that owns the storage never coexists with a deep sleep under way.
StorageInv ==
    /\ ctx = "exclusive" =>
         /\ currentActivity \in ExclusiveStorage
         /\ sleepScreen = None
         /\ mpc \in {"loopTop", "run", "write", "wait", "flush"}
    /\ mpc = "loopTop" /\ sleepScreen # None => currentActivity \notin ExclusiveStorage
    /\ mpc \in {"setup", "shot"} => sleepScreen = None
    /\ ctx = "setup" /\ mpc \in {"run", "write", "wait"} => sleepScreen = None

StoragePart == [\/ ctx # "exclusive"
                \/ currentActivity' = currentActivity /\ mpc' # "off"
                \/ mpc' = "setup"]_vars

LEMMA StorageStep == Inv /\ StorageInv /\ [Next]_vars => StorageInv' /\ StoragePart
<1> SUFFICES ASSUME Inv, StorageInv, [Next]_vars PROVE StorageInv' /\ StoragePart
  OBVIOUS
<1>0. mpc = "locked" => pendingAction # "None"
  BY DEF Inv, ControlInv, DispatchPhases
<1> USE DEF StorageInv, StoragePart, navVars
<1>1. CASE Outside
  BY <1>0, <1>1 DEF Outside, UsbStateChanged, TakeScreenshot, ScreenshotDone, SuppressedRelease,
              HomeGestureHandled, SetupLaunch, LockScreenHandOff, GoToSleep, HomeGesture,
              LightPanelGesture, LoopReturns, Launch, MainLoopContinues, Defer, DeferPush,
              DeferReplace, DeferPop
<1>2. CASE RunActivityLoop \/ FlushUpdate
  BY <1>0, <1>2 DEF RunActivityLoop, FlushUpdate, LoopReturns, LoopContext, FlushNotifies
<1>2a. CASE CallbackReturns
  BY <1>0, <1>2a DEF CallbackReturns
<1>3. CASE ActivityCode
  BY <1>0, <1>3 DEF ActivityCode, RequestUpdate, RequestUpdateNow, RequestUpdateAndWait,
              WaitReturns, Finish, LockState, WriteState, WriteStateUnlocked,
              StartActivityForResult, ReplaceActivity, NotifyAtOnce
<1>4. CASE Dispatch
  <2>1. CASE DispatchLocks \/ DispatchDone
    BY <1>0, <2>1 DEF DispatchLocks, DispatchDone
  <2>2. CASE PopExits \/ PopResumesParent
    BY <1>0, <2>2 DEF PopExits, PopResumesParent, Parent
  <2>3. CASE PopReleasesForHome \/ ReplaceExits \/ PushSuspends
    BY <1>0, <2>3 DEF PopReleasesForHome, ReplaceExits, PushSuspends, Replaced
  <2>4. CASE InstallPending \/ \E a \in Activity : LaunchHome(a)
    BY <1>0, <2>4 DEF InstallPending, LaunchHome, Launch
  <2>5. QED
    BY <1>4, <2>1, <2>2, <2>3, <2>4 DEF Dispatch
<1>5. CASE RenderTask \/ RenderRequestsUpdate
  BY <1>0, <1>5 DEF RenderTask, RenderWakes, RenderBegins, RenderEnds, RenderNotifiesWaiter,
              RenderUnlocks, RenderRequestsUpdate, RenderKeepsMutex, WaiterTaken
<1>6. CASE Reboot
  BY <1>0, <1>6 DEF Reboot
<1>7. CASE UNCHANGED vars
  BY <1>7 DEF vars
<1>8. QED
  BY <1>1, <1>2, <1>2a, <1>3, <1>4, <1>5, <1>6, <1>7 DEF Next, Main

\* Once a USB host owns the card, only a restart ends the owner's turn.
THEOREM StorageOwnership == Spec => StorageOwnerStays
<1>1. Init => StorageInv
  BY DEF Init, StorageInv
<1>2. QED
  BY <1>1, Invariance, StorageStep, PTL DEF Spec, StorageOwnerStays, StoragePart

-----------------------------------------------------------------------------
(* requestUpdateAndWait(). *)

\* The current activity may wait for the panel (Home does so only in setup()).
MayWait == currentActivity # None /\ (ctx = "setup" \/ currentActivity \notin Home)

\* A frame of such an activity, once begun, is not overtaken by a write: writes
\* and swaps need the mutex the render task holds until it has woken the waiter.
ViewInv ==
    /\ mpc = "setup" => rpc = "idle" /\ renderNotify = 0
    /\ rpc = "drawing" /\ MayWait => drawing # None /\ frameFresh
    /\ rpc = "drawn" /\ MayWait => ~stale
    /\ mpc = "wait" => MayWait
    /\ mpc = "wait" /\ mainNotify > 0 => ~stale

LEMMA ViewStep ==
    ASSUME LockedWrites, Inv, ViewInv, [Next]_vars
    PROVE  ViewInv'
<1>0. /\ MutexHeld /\ DrawsCurrent /\ mainNotify \in 0 .. 1
      /\ waitingTask => mpc = "wait"
      /\ mainNotify > 0 => mpc = "wait"
      /\ currentActivity = None <=> mpc \in {"setup", "popped", "launchHome", "install"}
  BY DEF Inv, ControlInv, OwnInv, TypeOK, WaiterCounted, DispatchPhases
<1> USE DEF ViewInv, MayWait, navVars, viewVars, syncVars, noticeVars
<1>1. CASE \E a \in Activity : SetupLaunch(a)
  BY <1>0, <1>1 DEF SetupLaunch, Launch, PanelOutdated
<1>2. CASE \/ UsbStateChanged \/ TakeScreenshot \/ ScreenshotDone \/ SuppressedRelease
           \/ HomeGestureHandled
  BY <1>0, <1>2 DEF UsbStateChanged, TakeScreenshot, ScreenshotDone, SuppressedRelease,
              HomeGestureHandled, LoopReturns, MainLoopContinues
<1>3. CASE \E a \in Activity : \/ LockScreenHandOff(a) \/ GoToSleep(a)
                               \/ HomeGesture(a) \/ LightPanelGesture(a)
  BY <1>0, <1>3 DEF LockScreenHandOff, GoToSleep, HomeGesture, LightPanelGesture, LoopReturns,
              MainLoopContinues, Defer, DeferPush, DeferReplace
<1>4. CASE RunActivityLoop \/ FlushUpdate
  BY <1>0, <1>4 DEF RunActivityLoop, FlushUpdate, LoopReturns, LoopContext, FlushNotifies
<1>5. CASE CallbackReturns
  BY <1>0, <1>5 DEF CallbackReturns
<1>6. CASE RequestUpdate \/ RequestUpdateNow \/ RequestUpdateAndWait \/ WaitReturns
  BY <1>0, <1>6 DEF RequestUpdate, RequestUpdateNow, RequestUpdateAndWait, WaitReturns,
              NotifyAtOnce
<1>7. CASE LockState \/ WriteState \/ WriteStateUnlocked
  BY <1>0, <1>7 DEF LockState, WriteState, WriteStateUnlocked, PanelOutdated, MutexHeld
<1>8. CASE Finish \/ \E c \in Activity : StartActivityForResult(c) \/ ReplaceActivity(c)
  BY <1>0, <1>8 DEF Finish, StartActivityForResult, ReplaceActivity, Defer, DeferPush,
              DeferReplace, DeferPop
<1>9. CASE DispatchLocks \/ DispatchDone \/ PopExits \/ PopReleasesForHome
  BY <1>0, <1>9 DEF DispatchLocks, DispatchDone, PopExits, PopReleasesForHome
<1>10. CASE ReplaceExits \/ PushSuspends
  BY <1>0, <1>10 DEF ReplaceExits, PushSuspends, Replaced
<1>11. CASE PopResumesParent
  <2>1. mpc = "popped" /\ rpc \notin {"drawing", "drawn"} /\ UNCHANGED rpc
        /\ mpc' \in {"run", "dispatch"}
    BY <1>0, <1>11 DEF PopResumesParent, MutexHeld, Parent
  <2>2. QED
    BY <2>1 DEF PopResumesParent, Parent
<1>12. CASE InstallPending
  <2>1. mpc = "install" /\ mpc' = "run" /\ rpc \notin {"drawing", "drawn"} /\ UNCHANGED rpc
    BY <1>0, <1>12 DEF InstallPending, Launch, MutexHeld
  <2>2. QED
    BY <2>1, <1>12 DEF InstallPending
<1>13. CASE \E a \in Activity : LaunchHome(a)
  BY <1>0, <1>13 DEF LaunchHome, Launch
<1>14. CASE RenderWakes \/ RenderBegins
  BY <1>0, <1>14 DEF RenderWakes, RenderBegins
<1>15. CASE RenderEnds
  BY <1>0, <1>15 DEF RenderEnds, RenderKeepsMutex
<1>16. CASE RenderNotifiesWaiter \/ RenderUnlocks
  BY <1>0, <1>16 DEF RenderNotifiesWaiter, RenderUnlocks, WaiterTaken
<1>17. CASE RenderRequestsUpdate \/ Reboot
  BY <1>0, <1>17 DEF RenderRequestsUpdate, Reboot
<1>18. CASE UNCHANGED vars
  BY <1>18 DEF vars
<1>19. CASE Outside \/ ActivityCode
  BY <1>19, <1>1, <1>2, <1>3, <1>6, <1>7, <1>8 DEF Outside, ActivityCode
<1>20. CASE Dispatch \/ RenderTask
  BY <1>20, <1>9, <1>10, <1>11, <1>12, <1>13, <1>14, <1>15, <1>16 DEF Dispatch, RenderTask
<1>21. QED
  BY <1>4, <1>5, <1>17, <1>18, <1>19, <1>20 DEF Next, Main

\* Under the discipline docs/activity-manager.md asks for, requestUpdateAndWait()
\* returns with the caller's state on the panel, whichever render woke it.
THEOREM WaitIsSound ==
    ASSUME LockedWrites
    PROVE  Spec => WaitShowsWrittenState
<1>1. Init => ViewInv
  BY DEF Init, ViewInv
<1>2. Inv /\ ViewInv /\ [Next]_vars => ViewInv'
  BY ViewStep
<1>3. ViewInv => [WaitReturns => ~stale]_vars
  BY DEF ViewInv, WaitReturns
<1>4. QED
  BY <1>1, <1>2, <1>3, Invariance, PTL DEF Spec, WaitShowsWrittenState
=============================================================================
