------------------------------- MODULE PowerLock -------------------------------
(***************************************************************************)
(* HalPowerManager: the clock of the CPU, the flag isLowPower that says    *)
(* which clock it is, and the lock that keeps it fast, as two tasks use    *)
(* them: the main task (main.cpp, loop() and the ways to sleep) and the    *)
(* render task (ActivityManager::renderTaskLoop()).                        *)
(*                                                                         *)
(* setPowerSaving() holds no mutex, so each of its reads and writes is a   *)
(* step.  Time is counted in ticks since the last sign of activity; a      *)
(* callback may take any number of them, the delay that ends an iteration  *)
(* at most one.                                                            *)
(***************************************************************************)
EXTENDS Integers

CONSTANTS
  Idle,     \* ticks without activity after which the clock is lowered (IDLE_POWER_SAVING_MS)
  Timeout   \* ticks without activity after which the device sleeps (getSleepTimeoutMs())

ASSUME TicksAssumption == Idle \in Nat /\ Timeout \in Nat /\ 1 < Idle /\ Idle < Timeout

VARIABLES
  clock,       \* the frequency the CPU runs at
  isLowPower,
  currentLockMode,
  radio,       \* WiFi.getMode() # WIFI_MODE_NULL
  call,        \* call[t]: where task t is in setPowerSaving()
  mpc,         \* where the main task is
  rpc,         \* where the render task is
  valid,       \* Lock::valid of the render task's lock
  activity,    \* what main.cpp asks the current activity: plain, busy (preventAutoSleep()), usb
  input,       \* this iteration saw a button, a touch or a tilt
  handOff,     \* a lock-screen dashboard is pending
  idle,        \* ticks since lastActivityTime
  refused,     \* history: the last attempt to restore the clock failed
  slow         \* history: calls of the main task, refusals apart, that ended at the low clock under one lock

vars == <<clock, isLowPower, currentLockMode, radio, call, mpc, rpc, valid, activity, input, handOff, idle,
          refused, slow>>
power == <<clock, isLowPower, currentLockMode, refused>>
loopVars == <<radio, activity, input, handOff, idle>>

Task == {"main", "render"}
NoCall == [at |-> "none", enabled |-> FALSE, mode |-> "None"]

TypeOK ==
  /\ clock \in {"normal", "low"}
  /\ isLowPower \in BOOLEAN
  /\ currentLockMode \in {"None", "NormalSpeed"}
  /\ radio \in BOOLEAN
  /\ call \in [Task -> [at : {"none", "enter", "decide", "lower", "raise", "lowered", "raised"},
                        enabled : BOOLEAN, mode : {"None", "NormalSpeed"}]]
  /\ mpc \in {"top", "sleepCheck", "loop", "end", "prepare", "off"}
  /\ rpc \in {"idle", "drawing"}
  /\ valid \in BOOLEAN
  /\ activity \in {"plain", "busy", "usb"}
  /\ input \in BOOLEAN
  /\ handOff \in BOOLEAN
  /\ idle \in 0..Timeout
  /\ refused \in BOOLEAN
  /\ slow \in 0..2

Init ==
  /\ clock = "normal"
  /\ isLowPower = FALSE
  /\ currentLockMode = "None"
  /\ radio = FALSE
  /\ call = [t \in Task |-> NoCall]
  /\ mpc = "top"
  /\ rpc = "idle"
  /\ valid = FALSE
  /\ activity \in {"plain", "busy"}
  /\ input = FALSE
  /\ handOff = FALSE
  /\ idle = 0
  /\ refused = FALSE
  /\ slow = 0

(***************************************************************************)
(* setPowerSaving(), called by task t.                                     *)
(***************************************************************************)
Calls(t, enabled) == call' = [call EXCEPT ![t] = [at |-> "enter", enabled |-> enabled, mode |-> "None"]]

Goes(t, at) == call' = [call EXCEPT ![t].at = at]

Leaves(t) == call' = [call EXCEPT ![t] = NoCall]

Returns(t) ==
  /\ Leaves(t)
  /\ slow' = IF t = "main" /\ clock' = "low" /\ currentLockMode = "NormalSpeed" /\ slow < 2 THEN slow + 1 ELSE slow

\* The radio wins over the request; the lock is read once, without its mutex.
ReadsLock(t) ==
  /\ call[t].at = "enter"
  /\ call' = [call EXCEPT ![t].at = "decide", ![t].enabled = @ /\ ~radio, ![t].mode = currentLockMode]
  /\ UNCHANGED <<power, slow>>

\* A fault: the lock is looked at only by the branch that lowers the clock.
MustRestoreUnlocked(c) == ~c.enabled

MayLower(c) == c.mode = "None" /\ c.enabled
MustRestore(c) == ~c.enabled \/ c.mode # "None"

Decides(t) ==
  /\ call[t].at = "decide"
  /\ \/ MayLower(call[t]) /\ ~isLowPower /\ Goes(t, "lower") /\ UNCHANGED slow
     \/ MustRestore(call[t]) /\ isLowPower /\ Goes(t, "raise") /\ UNCHANGED slow
     \/ /\ ~(MayLower(call[t]) /\ ~isLowPower) /\ ~(MustRestore(call[t]) /\ isLowPower)
        /\ UNCHANGED clock
        /\ Returns(t)
  /\ UNCHANGED power

\* setCpuFrequencyMhz() may refuse; the flag then keeps its value.
ChangesClock(t) ==
  /\ \/ call[t].at = "lower" /\ clock' = "low" /\ Goes(t, "lowered") /\ UNCHANGED <<refused, slow>>
     \/ call[t].at = "raise" /\ clock' = "normal" /\ refused' = FALSE /\ Goes(t, "raised") /\ UNCHANGED slow
     \/ /\ call[t].at \in {"lower", "raise"}
        /\ refused' = (refused \/ call[t].at = "raise")
        /\ UNCHANGED <<clock, slow>>
        /\ Leaves(t)
  /\ UNCHANGED <<isLowPower, currentLockMode>>

ChangesFlag(t) ==
  /\ call[t].at \in {"lowered", "raised"}
  /\ isLowPower' = (call[t].at = "lowered")
  /\ UNCHANGED <<clock, currentLockMode, refused>>
  /\ Returns(t)

\* A fault: the flag is written before the clock, by its own step.
ChangesFlagFirst(t) ==
  \/ /\ call[t].at \in {"lower", "raise"} /\ isLowPower' = (call[t].at = "lower")
     /\ Goes(t, IF call[t].at = "lower" THEN "lowered" ELSE "raised")
     /\ UNCHANGED <<clock, currentLockMode, refused, slow>>
  \/ /\ call[t].at \in {"lowered", "raised"}
     /\ clock' = IF call[t].at = "lowered" THEN "low" ELSE "normal"
     /\ UNCHANGED <<isLowPower, currentLockMode, refused>>
     /\ Returns(t)

SetsClockAndFlag(t) == ChangesClock(t) \/ ChangesFlag(t)

SetPowerSaving(t) ==
  /\ mpc # "off"
  /\ ReadsLock(t) \/ Decides(t) \/ SetsClockAndFlag(t)
  /\ UNCHANGED <<loopVars, mpc, rpc, valid>>

(***************************************************************************)
(* The lock.  Its mutex makes each of the two halves one step; a lock that *)
(* finds another one in place is ignored.                                  *)
(***************************************************************************)
TakesLock(t, ok) ==
  /\ ok = (currentLockMode = "None")
  /\ currentLockMode' = "NormalSpeed"
  /\ slow' = IF ok THEN 0 ELSE slow
  /\ IF ok THEN Calls(t, FALSE) ELSE UNCHANGED call
  /\ UNCHANGED <<clock, isLowPower, refused>>

ReleasesLock ==
  /\ currentLockMode' = IF valid THEN "None" ELSE currentLockMode
  /\ slow' = IF valid THEN 0 ELSE slow
  /\ UNCHANGED <<clock, isLowPower, refused>>

(***************************************************************************)
(* The render task.                                                        *)
(***************************************************************************)
MainGoes(pc) == mpc' = pc /\ UNCHANGED <<rpc, valid>>
RenderGoes(pc) == rpc' = pc /\ UNCHANGED <<mpc, loopVars>>

RenderBegins ==
  /\ rpc = "idle" /\ mpc # "off"
  /\ \E ok \in BOOLEAN : TakesLock("render", ok) /\ valid' = ok
  /\ RenderGoes("drawing")

RenderEnds ==
  /\ rpc = "drawing" /\ call["render"] = NoCall /\ mpc # "off"
  /\ ReleasesLock
  /\ valid' = FALSE
  /\ UNCHANGED call
  /\ RenderGoes("idle")

(***************************************************************************)
(* The main task: one iteration of loop().                                 *)
(***************************************************************************)
MainAt(pc) == mpc = pc /\ call["main"] = NoCall

\* The delay that ends an iteration, and a callback.
AfterDelay == {i \in {idle, idle + 1} : i <= Timeout}
AfterCallback == idle..Timeout

\* The exclusive-storage iteration: only the activity's own loop.
UsbIteration ==
  /\ MainAt("top") /\ activity = "usb"
  /\ \E preventsSleep \in BOOLEAN : Calls("main", ~preventsSleep)
  /\ MainGoes("top")
  /\ UNCHANGED <<power, slow, loopVars>>

SeesInput ==
  /\ MainAt("top") /\ activity # "usb"
  /\ input' \in BOOLEAN
  /\ IF input' \/ activity = "busy" THEN idle' = 0 /\ Calls("main", FALSE) ELSE UNCHANGED <<idle, call>>
  /\ MainGoes("sleepCheck")
  /\ UNCHANGED <<power, slow, radio, activity, handOff>>

StaysAwake ==
  /\ MainAt("sleepCheck") /\ idle < Timeout
  /\ MainGoes("loop")
  /\ UNCHANGED <<power, slow, call, loopVars>>

\* A fault: the clock is left as the idle loop set it.
HandOffClockAsIs == UNCHANGED call

\* enterLockScreenSleep(), after the timeout or a long press of the power button: the clock is restored
\* before the dashboard, which starts the radio, is made the next activity.
HandOffClock == Calls("main", FALSE)

HandsOff ==
  /\ MainAt("sleepCheck")
  /\ HandOffClock
  /\ handOff' = TRUE
  /\ idle' = 0
  /\ MainGoes("loop")
  /\ UNCHANGED <<power, slow, radio, activity, input>>

\* ActivityManager::loop() returns early on a release or a gesture, which are input of this iteration.
LoopReturnsEarly ==
  /\ MainAt("loop") /\ input
  /\ MainGoes("end")
  /\ UNCHANGED <<power, slow, call, loopVars>>

\* The activity's own loop and the dispatch.  A plain activity starts the radio in answer to input,
\* a dashboard in its onEnter() or while it prevents sleep.
RunsActivity ==
  /\ MainAt("loop")
  /\ handOff' = FALSE
  /\ activity' \in IF handOff THEN {"busy"} ELSE {"plain", "busy", "usb"}
  /\ radio' \in IF handOff \/ input \/ activity = "busy" THEN BOOLEAN ELSE {radio, FALSE}
  /\ idle' \in AfterCallback
  /\ MainGoes("end")
  /\ UNCHANGED <<power, slow, call, input>>

IterationEnds ==
  /\ MainAt("end")
  /\ \/ Calls("main", FALSE)                       \* skipLoopDelay()
     \/ idle >= Idle /\ Calls("main", TRUE)
     \/ idle < Idle /\ UNCHANGED call
  /\ idle' \in AfterDelay
  /\ MainGoes("top")
  /\ UNCHANGED <<power, slow, radio, activity, input, handOff>>

\* enterDeepSleep() after the timeout or a long press, enterDashboardSleep() and enterDashboardPowerOff() from
\* a dashboard: each holds a lock until the power is gone.
GoesToSleep ==
  /\ MainAt("sleepCheck") \/ (MainAt("loop") /\ activity = "busy")
  /\ \E ok \in BOOLEAN : TakesLock("main", ok)
  /\ MainGoes("prepare")
  /\ UNCHANGED loopVars

PowersDown ==
  /\ MainAt("prepare")
  /\ radio' = FALSE
  /\ MainGoes("off")
  /\ UNCHANGED <<power, slow, call, activity, input, handOff, idle>>

\* A wake-up, or the restart that ends a USB drive: setup() and begin() anew.
Boots ==
  /\ MainAt("off") \/ (MainAt("top") /\ activity = "usb")
  /\ clock' = "normal" /\ isLowPower' = FALSE /\ currentLockMode' = "None" /\ radio' = FALSE
  /\ call' = [t \in Task |-> NoCall]
  /\ mpc' = "top" /\ rpc' = "idle" /\ valid' = FALSE
  /\ activity' \in {"plain", "busy"}
  /\ input' = FALSE /\ handOff' = FALSE /\ idle' = 0
  /\ refused' = FALSE /\ slow' = 0

Next ==
  \/ \E t \in Task : SetPowerSaving(t)
  \/ RenderBegins \/ RenderEnds
  \/ UsbIteration \/ SeesInput \/ StaysAwake \/ HandsOff \/ GoesToSleep
  \/ LoopReturnsEarly \/ RunsActivity \/ IterationEnds
  \/ PowersDown \/ Boots

Spec == Init /\ [][Next]_vars

(***************************************************************************)
(* Properties.                                                             *)
(***************************************************************************)

\* Whatever the two tasks do to each other inside setPowerSaving(), once neither is in it the flag says
\* which clock the CPU has: a flag left wrong would keep the CPU slow under every later lock.
FlagFollowsClock == (\A t \in Task : call[t] = NoCall) => (isLowPower <=> clock = "low")

\* The radio cannot be initialised at the low clock, where it blocks for ever (main.cpp:381): it is never on
\* while the CPU is slow, unless the CPU refused to be fast.
RadioAtFullSpeed == radio => clock = "normal" \/ refused

\* The stale read of the lock is harmless because it is brief (HalPowerManager.cpp:45): the main task ends
\* at most one call at the low clock under a lock, and the next one restores the clock.
StaleLowIsBrief == slow < 2
=============================================================================
