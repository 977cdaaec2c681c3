--------------------------- MODULE PowerLock_proofs ---------------------------
(***************************************************************************)
(* The clock of the CPU, for every pair of timeouts: although two tasks    *)
(* read and write it without a mutex, the flag follows the clock, the      *)
(* radio is on at full speed only, and a stale read of the lock harms one  *)
(* call at most.                                                           *)
(***************************************************************************)
EXTENDS PowerLock, TLAPS

USE TicksAssumption

-----------------------------------------------------------------------------
(* Types.                                                                  *)

Call == [at : {"none", "enter", "decide", "lower", "raise", "lowered", "raised"},
         enabled : BOOLEAN, mode : {"None", "NormalSpeed"}]

LEMMA NoCallType == NoCall \in Call
BY DEF NoCall, Call

LEMMA CallType == TypeOK => call \in [Task -> Call]
BY DEF TypeOK, Call

\* What each step of setPowerSaving() and each half of the lock does to a call.
LEMMA CallsType ==
    ASSUME TypeOK, NEW t \in Task, NEW b \in BOOLEAN, Calls(t, b)
    PROVE  call' \in [Task -> Call]
BY CallType DEF Calls, Call

LEMMA GoesType ==
    ASSUME TypeOK, NEW t \in Task, NEW at \in {"lower", "raise", "lowered", "raised"}, Goes(t, at)
    PROVE  call' \in [Task -> Call]
BY CallType DEF Goes, Call

LEMMA LeavesType == ASSUME TypeOK, NEW t \in Task, Leaves(t) PROVE call' \in [Task -> Call]
BY CallType, NoCallType DEF Leaves

LEMMA ReadsLockType == ASSUME TypeOK, NEW t \in Task, ReadsLock(t) PROVE call' \in [Task -> Call]
<1> DEFINE e == call[t].enabled /\ ~radio
           c == [call[t] EXCEPT !.at = "decide", !.enabled = e, !.mode = currentLockMode]
<1>1. call[t] \in Call
  BY CallType
<1>2. e \in BOOLEAN /\ currentLockMode \in {"None", "NormalSpeed"}
  BY DEF TypeOK
<1>3. c \in Call
  <2> HIDE DEF e
  <2> QED  BY <1>1, <1>2 DEF Call
<1>4. call' = [call EXCEPT ![t] = c]
  BY DEF ReadsLock
<1> HIDE DEF c
<1> QED  BY <1>3, <1>4, CallType

LEMMA ReturnsType == ASSUME TypeOK, NEW t \in Task, Returns(t) PROVE call' \in [Task -> Call] /\ slow' \in 0 .. 2
BY LeavesType DEF Returns, TypeOK

LEMMA TypeStep == TypeOK /\ [Next]_vars => TypeOK'
<1> SUFFICES ASSUME TypeOK, [Next]_vars PROVE TypeOK'
  OBVIOUS
<1> USE DEF power, loopVars
<1> DEFINE Rest == <<radio, activity, input, handOff, idle, mpc, rpc, valid>>
<1>1. ASSUME NEW t \in Task, SetPowerSaving(t) PROVE TypeOK'
  <2>1. CASE ReadsLock(t)
    <3>1. UNCHANGED <<clock, isLowPower, currentLockMode, refused, slow, Rest>>
      BY <1>1, <2>1 DEF ReadsLock, SetPowerSaving
    <3>2. call' \in [Task -> Call]
      BY <2>1, ReadsLockType
    <3> QED  BY <3>1, <3>2 DEF TypeOK, Call
  <2>2. CASE Decides(t)
    <3>1. UNCHANGED <<clock, isLowPower, currentLockMode, refused, Rest>>
      BY <1>1, <2>2 DEF Decides, SetPowerSaving
    <3>2. call' \in [Task -> Call] /\ slow' \in 0 .. 2
      BY <2>2, GoesType, ReturnsType DEF Decides, TypeOK
    <3> QED  BY <3>1, <3>2 DEF TypeOK, Call
  <2>3. CASE ChangesClock(t)
    <3>1. UNCHANGED <<isLowPower, currentLockMode, slow, Rest>>
      BY <1>1, <2>3 DEF ChangesClock, SetPowerSaving
    <3>2. call' \in [Task -> Call]
      BY <2>3, GoesType, LeavesType DEF ChangesClock
    <3>3. clock' \in {"normal", "low"} /\ refused' \in BOOLEAN
      BY <2>3 DEF ChangesClock, TypeOK
    <3> QED  BY <3>1, <3>2, <3>3 DEF TypeOK, Call
  <2>4. CASE ChangesFlag(t)
    <3>1. UNCHANGED <<clock, currentLockMode, refused, Rest>>
      BY <1>1, <2>4 DEF ChangesFlag, SetPowerSaving
    <3>2. call' \in [Task -> Call] /\ slow' \in 0 .. 2
      BY <2>4, ReturnsType DEF ChangesFlag
    <3>3. isLowPower' \in BOOLEAN
      BY <2>4 DEF ChangesFlag
    <3> QED  BY <3>1, <3>2, <3>3 DEF TypeOK, Call
  <2> QED
    BY <1>1, <2>1, <2>2, <2>3, <2>4 DEF SetPowerSaving, SetsClockAndFlag
<1>2. ASSUME NEW t \in Task, NEW ok \in BOOLEAN, TakesLock(t, ok)
      PROVE  /\ call' \in [Task -> Call] /\ slow' \in 0 .. 2
             /\ currentLockMode' \in {"None", "NormalSpeed"}
             /\ UNCHANGED <<clock, isLowPower, refused>>
  <2>1. call' \in [Task -> Call]
    BY <1>2, CallsType, CallType DEF TakesLock
  <2> QED  BY <1>2, <2>1 DEF TakesLock, TypeOK
<1>3. CASE RenderBegins
  <2>1. PICK ok \in BOOLEAN : TakesLock("render", ok) /\ valid' = ok
    BY <1>3 DEF RenderBegins
  <2> QED
    BY <1>3, <2>1, <1>2 DEF RenderBegins, RenderGoes, TypeOK, Call, Task
<1>4. CASE RenderEnds
  <2>1. currentLockMode' \in {"None", "NormalSpeed"}
    BY <1>4 DEF RenderEnds, ReleasesLock, TypeOK
  <2>2. slow' \in 0 .. 2
    BY <1>4 DEF RenderEnds, ReleasesLock, TypeOK
  <2>3. valid' \in BOOLEAN
    BY <1>4 DEF RenderEnds
  <2> QED  BY <1>4, <2>1, <2>2, <2>3 DEF RenderEnds, ReleasesLock, RenderGoes, TypeOK
<1>5. CASE UsbIteration
  <2>1. call' \in [Task -> Call]
    BY <1>5, CallsType DEF UsbIteration, Task
  <2> QED  BY <1>5, <2>1 DEF UsbIteration, MainGoes, TypeOK, Call
<1>6. CASE SeesInput
  <2>1. call' \in [Task -> Call]
    BY <1>6, CallsType, CallType DEF SeesInput, Task
  <2>2. idle' \in 0 .. Timeout
    <3>1. idle' = 0 \/ idle' = idle
      BY <1>6 DEF SeesInput
    <3> QED  BY <3>1 DEF TypeOK
  <2> QED  BY <1>6, <2>1, <2>2 DEF SeesInput, MainGoes, TypeOK, Call
<1>7. CASE StaysAwake
  BY <1>7 DEF StaysAwake, MainGoes, TypeOK
<1>8. CASE HandsOff
  <2>1. call' \in [Task -> Call]
    BY <1>8, CallsType DEF HandsOff, HandOffClock, Task
  <2> QED  BY <1>8, <2>1 DEF HandsOff, MainGoes, TypeOK, Call
<1>9. CASE GoesToSleep
  <2>1. PICK ok \in BOOLEAN : TakesLock("main", ok)
    BY <1>9 DEF GoesToSleep
  <2> QED
    BY <1>9, <2>1, <1>2 DEF GoesToSleep, MainGoes, TypeOK, Call, Task
<1>10. CASE LoopReturnsEarly
  BY <1>10 DEF LoopReturnsEarly, MainGoes, TypeOK
<1>11. CASE RunsActivity
  <2>1. radio' \in BOOLEAN
    <3>1. radio' \in BOOLEAN \/ radio' \in {radio, FALSE}
      BY <1>11 DEF RunsActivity
    <3>2. radio \in BOOLEAN
      BY DEF TypeOK
    <3> QED  BY <3>1, <3>2
  <2>2. activity' \in {"plain", "busy", "usb"}
    BY <1>11 DEF RunsActivity
  <2>3. idle' \in 0 .. Timeout
    BY <1>11 DEF RunsActivity, AfterCallback, TypeOK
  <2>4. handOff' \in BOOLEAN
    BY <1>11 DEF RunsActivity
  <2> QED  BY <1>11, <2>1, <2>2, <2>3, <2>4 DEF RunsActivity, MainGoes, TypeOK
<1>12. CASE IterationEnds
  <2>1. call' \in [Task -> Call]
    BY <1>12, CallsType, CallType DEF IterationEnds, Task
  <2>2. idle' \in 0 .. Timeout
    BY <1>12 DEF IterationEnds, AfterDelay, TypeOK
  <2> QED  BY <1>12, <2>1, <2>2 DEF IterationEnds, MainGoes, TypeOK, Call
<1>13. CASE PowersDown
  BY <1>13 DEF PowersDown, MainGoes, TypeOK
<1>14. CASE Boots
  <2>1. call' \in [Task -> Call]
    BY <1>14, NoCallType DEF Boots
  <2>2. /\ isLowPower' \in BOOLEAN /\ radio' \in BOOLEAN /\ valid' \in BOOLEAN
        /\ input' \in BOOLEAN /\ handOff' \in BOOLEAN /\ refused' \in BOOLEAN
    BY <1>14 DEF Boots
  <2> QED  BY <1>14, <2>1, <2>2 DEF Boots, TypeOK, Call
<1>15. CASE UNCHANGED vars
  BY <1>15 DEF vars, TypeOK
<1> QED
  BY <1>1, <1>3, <1>4, <1>5, <1>6, <1>7, <1>8, <1>9, <1>10, <1>11, <1>12, <1>13, <1>14, <1>15 DEF Next

LEMMA InitTypeOK == Init => TypeOK
<1> SUFFICES ASSUME Init PROVE TypeOK
  OBVIOUS
<1>1. call \in [Task -> Call]
  BY NoCallType DEF Init
<1>2. /\ isLowPower \in BOOLEAN /\ radio \in BOOLEAN /\ valid \in BOOLEAN
      /\ input \in BOOLEAN /\ handOff \in BOOLEAN /\ refused \in BOOLEAN
  BY DEF Init
<1>3. idle \in 0 .. Timeout /\ slow \in 0 .. 2
  BY DEF Init
<1>4. /\ clock \in {"normal", "low"} /\ currentLockMode \in {"None", "NormalSpeed"}
      /\ mpc \in {"top", "sleepCheck", "loop", "end", "prepare", "off"}
      /\ rpc \in {"idle", "drawing"} /\ activity \in {"plain", "busy", "usb"}
  BY DEF Init
<1> QED  BY <1>1, <1>2, <1>3, <1>4 DEF TypeOK, Call

\* Every variable of HalPowerManager, the loop and the render task keeps its type.
THEOREM PowerTypeCorrect == Spec => []TypeOK
BY InitTypeOK, TypeStep, PTL DEF Spec

-----------------------------------------------------------------------------
(* The invariant.                                                          *)

\* The render task is in setPowerSaving() only while it holds a lock, and only raises the clock.
RenderOnlyRaises ==
    /\ call["render"].at \in {"none", "enter", "decide", "raise", "raised"}
    /\ call["render"].at # "none" => valid /\ ~call["render"].enabled /\ rpc = "drawing"
    /\ valid => currentLockMode = "NormalSpeed"

\* While the main task lowers the clock the render task does not raise it: it would have seen the flag down.
MainLowersAlone ==
    /\ call["main"].at \in {"lower", "lowered"} =>
         /\ MayLower(call["main"]) /\ ~isLowPower
         /\ call["render"].at \notin {"raise", "raised"}
    /\ call["main"].at = "decide" /\ MayLower(call["main"]) /\ call["render"].at \in {"raise", "raised"} => isLowPower

\* Between the two writes the clock is ahead of the flag; everywhere else they agree.
ClockAndFlag ==
    /\ call["main"].at = "lowered" => clock = "low"
    /\ \A t \in Task : call[t].at = "raised" => clock = "normal"
    /\ call["main"].at # "lowered" /\ (\A t \in Task : call[t].at # "raised") => (isLowPower <=> clock = "low")

\* With the radio on, the main task cannot be about to lower the clock.
RadioKeepsSpeed ==
    radio => /\ clock = "normal" \/ refused
             /\ call["main"].at \notin {"lower", "lowered"}
             /\ ~(call["main"].at = "decide" /\ MayLower(call["main"]))

\* What may start the radio before the next restore: a dashboard that takes over, this iteration's
\* input, an activity that prevents sleep.
MayStartRadio == handOff \/ (mpc \in {"sleepCheck", "loop"} /\ (input \/ activity = "busy"))

\* Then the clock is at full speed, or a call that restores it is on its way.
FastBeforeRadio ==
    MayStartRadio => IF call["main"].at = "none" THEN clock = "normal" \/ refused ELSE ~call["main"].enabled

\* A hand-off is carried out before the device is idle again.
HandOffIsFresh ==
    /\ handOff => idle <= 1 /\ activity # "usb" /\ (mpc = "end" => idle = 0)
    /\ mpc \in {"sleepCheck", "loop"} => activity # "usb" /\ (input => idle = 0)

\* After a first call that read the lock too early, no other one is under way.
OneStaleRead ==
    slow # 0 =>
      /\ slow = 1
      /\ currentLockMode = "NormalSpeed"
      /\ call["main"].at \in {"decide", "lower", "lowered"} => call["main"].mode # "None"

PowerInv ==
    /\ RenderOnlyRaises /\ MainLowersAlone /\ ClockAndFlag
    /\ RadioKeepsSpeed /\ FastBeforeRadio /\ HandOffIsFresh /\ OneStaleRead

LEMMA InitPowerInv == Init => PowerInv
<1> SUFFICES ASSUME Init PROVE PowerInv
  OBVIOUS
<1>1. \A t \in Task : call[t].at = "none"
  BY DEF Init, NoCall
<1>2. "main" \in Task /\ "render" \in Task
  BY DEF Task
<1> QED
  BY <1>1, <1>2 DEF Init, PowerInv, RenderOnlyRaises, MainLowersAlone, ClockAndFlag, RadioKeepsSpeed,
       FastBeforeRadio, MayStartRadio, HandOffIsFresh, OneStaleRead

-----------------------------------------------------------------------------
(* What a step does to the calls.                                          *)

Others(t) == \A u \in Task : u # t => call'[u] = call[u]

LEMMA CallsFacts ==
    ASSUME TypeOK, NEW t \in Task, NEW b \in BOOLEAN, Calls(t, b)
    PROVE  call'[t].at = "enter" /\ call'[t].enabled = b /\ Others(t)
BY CallType DEF Calls, Others

LEMMA GoesFacts ==
    ASSUME TypeOK, NEW t \in Task, NEW at, Goes(t, at)
    PROVE  /\ call'[t].at = at /\ call'[t].enabled = call[t].enabled /\ call'[t].mode = call[t].mode
           /\ Others(t)
BY CallType DEF Goes, Others, Call

LEMMA LeavesFacts ==
    ASSUME TypeOK, NEW t \in Task, Leaves(t)
    PROVE  call'[t].at = "none" /\ Others(t)
BY CallType DEF Leaves, Others, NoCall

LEMMA ReadsLockFacts ==
    ASSUME TypeOK, NEW t \in Task, ReadsLock(t)
    PROVE  /\ call'[t].at = "decide" /\ call'[t].enabled = (call[t].enabled /\ ~radio)
           /\ call'[t].mode = currentLockMode /\ Others(t)
BY CallType DEF ReadsLock, Others, Call

LEMMA EnabledType == TypeOK => \A t \in Task : call[t].enabled \in BOOLEAN
BY CallType DEF Call

-----------------------------------------------------------------------------
(* Each step keeps the invariant.                                          *)

\* The main task in setPowerSaving().
LEMMA MainSetPowerSaving ==
    ASSUME TypeOK, TypeOK', PowerInv, SetPowerSaving("main") PROVE PowerInv'
<1> USE DEF power, loopVars
<1> "main" \in Task /\ "render" \in Task /\ "main" # "render" /\ \A t \in Task : t = "main" \/ t = "render"
  BY DEF Task
<1>u. UNCHANGED <<radio, activity, input, handOff, idle, mpc, rpc, valid>>
  BY DEF SetPowerSaving
<1>i. /\ RenderOnlyRaises /\ MainLowersAlone /\ ClockAndFlag
      /\ RadioKeepsSpeed /\ FastBeforeRadio /\ HandOffIsFresh /\ OneStaleRead
  BY DEF PowerInv
<1>e. /\ call["main"].enabled \in BOOLEAN /\ isLowPower \in BOOLEAN
  BY EnabledType DEF TypeOK
<1>h. HandOffIsFresh'
  BY <1>u, <1>i DEF HandOffIsFresh
<1>1. CASE ReadsLock("main")
  <2>1. /\ call'["main"].at = "decide" /\ call'["main"].enabled = (call["main"].enabled /\ ~radio)
        /\ call'["main"].mode = currentLockMode /\ call'["render"] = call["render"]
        /\ call["main"].at = "enter" /\ UNCHANGED <<power, slow>>
    BY <1>1, ReadsLockFacts DEF ReadsLock, Others
  <2>2. RenderOnlyRaises'
    BY <1>u, <1>i, <2>1 DEF RenderOnlyRaises
  <2>3. MainLowersAlone'
    BY <1>i, <2>1 DEF MainLowersAlone, RenderOnlyRaises, MayLower
  <2>4. ClockAndFlag'
    BY <1>i, <2>1 DEF ClockAndFlag
  <2>5. RadioKeepsSpeed'
    BY <1>u, <1>i, <2>1 DEF RadioKeepsSpeed, MayLower
  <2>6. FastBeforeRadio'
    BY <1>u, <1>i, <2>1 DEF FastBeforeRadio, MayStartRadio
  <2>7. OneStaleRead'
    BY <1>u, <1>i, <2>1 DEF OneStaleRead
  <2> QED  BY <1>h, <2>2, <2>3, <2>4, <2>5, <2>6, <2>7 DEF PowerInv
<1>2. ASSUME call["main"].at = "decide", UNCHANGED power,
             \/ MayLower(call["main"]) /\ ~isLowPower /\ Goes("main", "lower") /\ UNCHANGED slow
             \/ MustRestore(call["main"]) /\ isLowPower /\ Goes("main", "raise") /\ UNCHANGED slow
      PROVE  PowerInv'
  <2>1. /\ call'["main"].enabled = call["main"].enabled /\ call'["main"].mode = call["main"].mode
        /\ call'["render"] = call["render"] /\ UNCHANGED slow
        /\ \/ MayLower(call["main"]) /\ ~isLowPower /\ call'["main"].at = "lower"
           \/ isLowPower /\ call'["main"].at = "raise"
    BY <1>2, GoesFacts DEF Others
  <2>2. RenderOnlyRaises'
    BY <1>u, <1>i, <1>2, <2>1 DEF RenderOnlyRaises
  <2>3. MainLowersAlone'
    BY <1>i, <1>2, <2>1 DEF MainLowersAlone, MayLower
  <2>4. ClockAndFlag'
    BY <1>i, <1>2, <2>1 DEF ClockAndFlag
  <2>5. RadioKeepsSpeed'
    BY <1>u, <1>i, <1>2, <2>1 DEF RadioKeepsSpeed, MayLower
  <2>6. FastBeforeRadio'
    BY <1>u, <1>i, <1>2, <2>1 DEF FastBeforeRadio, MayStartRadio
  <2>7. OneStaleRead'
    BY <1>u, <1>i, <1>2, <2>1 DEF OneStaleRead
  <2> QED  BY <1>h, <2>2, <2>3, <2>4, <2>5, <2>6, <2>7 DEF PowerInv
\* The call ends: by doing nothing, by a refusal, by writing the flag.
<1>3. ASSUME Leaves("main"), UNCHANGED currentLockMode,
             ClockAndFlag', MayStartRadio => clock' = "normal" \/ refused',
             radio => clock' = "normal" \/ refused', OneStaleRead'
      PROVE  PowerInv'
  <2>1. call'["main"].at = "none" /\ call'["render"] = call["render"]
    BY <1>3, LeavesFacts DEF Others
  <2>2. RenderOnlyRaises'
    BY <1>u, <1>i, <1>3, <2>1 DEF RenderOnlyRaises
  <2>3. MainLowersAlone'
    BY <2>1 DEF MainLowersAlone
  <2>5. RadioKeepsSpeed'
    BY <1>u, <1>3, <2>1 DEF RadioKeepsSpeed
  <2>6. FastBeforeRadio'
    BY <1>u, <1>3, <2>1 DEF FastBeforeRadio, MayStartRadio
  <2> QED  BY <1>h, <1>3, <2>2, <2>3, <2>5, <2>6 DEF PowerInv
<1>4. CASE call["main"].at = "decide" /\ UNCHANGED power /\ Returns("main")
             /\ ~(MustRestore(call["main"]) /\ isLowPower)
  <2>1. Leaves("main") /\ call'["main"].at = "none" /\ call'["render"] = call["render"]
    BY <1>4, LeavesFacts DEF Returns, Others
  <2>2. ClockAndFlag'
    BY <1>i, <1>4, <2>1 DEF ClockAndFlag
  <2>3. MustRestore(call["main"]) => clock = "normal"
    BY <1>i, <1>4 DEF ClockAndFlag, TypeOK
  <2>4. MayStartRadio => clock' = "normal" \/ refused'
    BY <1>i, <1>4, <2>3 DEF FastBeforeRadio, MustRestore
  <2>5. radio => clock' = "normal" \/ refused'
    BY <1>i, <1>4 DEF RadioKeepsSpeed
  <2>6. slow' = IF clock = "low" /\ currentLockMode = "NormalSpeed" /\ slow < 2 THEN slow + 1 ELSE slow
    BY <1>4 DEF Returns
  <2>7. OneStaleRead'
    BY <1>i, <1>4, <2>1, <2>3, <2>6 DEF OneStaleRead, MustRestore
  <2> QED  BY <1>3, <1>4, <2>1, <2>2, <2>4, <2>5, <2>7
<1>5. CASE ChangesFlag("main")
  <2>1. /\ call["main"].at \in {"lowered", "raised"} /\ Returns("main")
        /\ isLowPower' = (call["main"].at = "lowered") /\ UNCHANGED <<clock, currentLockMode, refused>>
    BY <1>5 DEF ChangesFlag
  <2>2. Leaves("main") /\ call'["main"].at = "none" /\ call'["render"] = call["render"]
    BY <2>1, LeavesFacts DEF Returns, Others
  <2>3. ClockAndFlag'
    BY <1>i, <2>1, <2>2 DEF ClockAndFlag, MainLowersAlone
  <2>4. MayStartRadio => clock' = "normal" \/ refused'
    BY <1>i, <2>1 DEF FastBeforeRadio, MainLowersAlone, MayLower, ClockAndFlag
  <2>5. radio => clock' = "normal" \/ refused'
    BY <1>i, <2>1 DEF RadioKeepsSpeed
  <2>6. slow' = IF clock = "low" /\ currentLockMode = "NormalSpeed" /\ slow < 2 THEN slow + 1 ELSE slow
    BY <2>1 DEF Returns
  <2>7. OneStaleRead'
    BY <1>i, <2>1, <2>2, <2>6 DEF OneStaleRead, MainLowersAlone, MayLower, ClockAndFlag
  <2> QED  BY <1>3, <2>1, <2>2, <2>3, <2>4, <2>5, <2>7
\* setCpuFrequencyMhz() refuses.
<1>6. ASSUME call["main"].at \in {"lower", "raise"}, refused' = (refused \/ call["main"].at = "raise"),
             UNCHANGED <<clock, slow, isLowPower, currentLockMode>>, Leaves("main")
      PROVE  PowerInv'
  <2>1. call'["main"].at = "none" /\ call'["render"] = call["render"]
    BY <1>6, LeavesFacts DEF Others
  <2>2. ClockAndFlag'
    BY <1>i, <1>6, <2>1 DEF ClockAndFlag
  <2>3. MayStartRadio => clock' = "normal" \/ refused'
    BY <1>i, <1>6 DEF FastBeforeRadio, MainLowersAlone, MayLower
  <2>4. radio => clock' = "normal" \/ refused'
    BY <1>i, <1>6 DEF RadioKeepsSpeed
  <2>5. OneStaleRead'
    BY <1>i, <1>6, <2>1 DEF OneStaleRead
  <2> QED  BY <1>3, <1>6, <2>2, <2>3, <2>4, <2>5
<1>7. ASSUME \/ /\ call["main"].at = "lower" /\ clock' = "low" /\ Goes("main", "lowered")
                /\ UNCHANGED refused
             \/ /\ call["main"].at = "raise" /\ clock' = "normal" /\ Goes("main", "raised")
                /\ refused' = FALSE,
             UNCHANGED <<slow, isLowPower, currentLockMode>>
      PROVE  PowerInv'
  <2>1. /\ call'["main"].enabled = call["main"].enabled /\ call'["main"].mode = call["main"].mode
        /\ call'["render"] = call["render"]
        /\ \/ /\ call["main"].at = "lower" /\ clock' = "low" /\ call'["main"].at = "lowered"
              /\ UNCHANGED refused
           \/ call["main"].at = "raise" /\ clock' = "normal" /\ call'["main"].at = "raised"
    BY <1>7, GoesFacts DEF Others
  <2>2. RenderOnlyRaises'
    BY <1>u, <1>i, <1>7, <2>1 DEF RenderOnlyRaises
  <2>3. MainLowersAlone'
    BY <1>i, <1>7, <2>1 DEF MainLowersAlone, MayLower
  <2>4. ClockAndFlag'
    BY <1>i, <1>7, <2>1 DEF ClockAndFlag, MainLowersAlone
  <2>5. RadioKeepsSpeed'
    BY <1>u, <1>i, <1>7, <2>1 DEF RadioKeepsSpeed
  <2>6. FastBeforeRadio'
    BY <1>u, <1>i, <1>7, <2>1 DEF FastBeforeRadio, MayStartRadio
  <2>7. OneStaleRead'
    BY <1>i, <1>7, <2>1 DEF OneStaleRead
  <2> QED  BY <1>h, <2>2, <2>3, <2>4, <2>5, <2>6, <2>7 DEF PowerInv
<1>8. CASE Decides("main")
  BY <1>2, <1>4, <1>8 DEF Decides
<1>9. CASE ChangesClock("main")
  BY <1>6, <1>7, <1>9 DEF ChangesClock
<1> QED
  BY <1>1, <1>5, <1>8, <1>9 DEF SetPowerSaving, SetsClockAndFlag

\* The render task there: its lock has it raise the clock, nothing else.
LEMMA RenderSetPowerSaving ==
    ASSUME TypeOK, TypeOK', PowerInv, SetPowerSaving("render") PROVE PowerInv'
<1> USE DEF power, loopVars
<1> "main" \in Task /\ "render" \in Task /\ "main" # "render" /\ \A t \in Task : t = "main" \/ t = "render"
  BY DEF Task
<1>u. UNCHANGED <<radio, activity, input, handOff, idle, mpc, rpc, valid>>
  BY DEF SetPowerSaving
<1>i. /\ RenderOnlyRaises /\ MainLowersAlone /\ ClockAndFlag
      /\ RadioKeepsSpeed /\ FastBeforeRadio /\ HandOffIsFresh /\ OneStaleRead
  BY DEF PowerInv
<1>e. /\ call["render"].enabled \in BOOLEAN /\ isLowPower \in BOOLEAN
  BY EnabledType DEF TypeOK
<1>h. HandOffIsFresh'
  BY <1>u, <1>i DEF HandOffIsFresh
\* What is left to show in each case.
<1>1. ASSUME call'["main"] = call["main"], UNCHANGED <<slow, currentLockMode>>, call["render"].at # "none",
             call'["render"].at \in {"none", "decide", "raise", "raised"},
             call'["render"].at # "none" => ~call'["render"].enabled,
             MainLowersAlone', ClockAndFlag',
             clock' = "normal" \/ (UNCHANGED clock /\ (refused => refused'))
      PROVE  PowerInv'
  <2>1. RenderOnlyRaises'
    BY <1>u, <1>i, <1>1 DEF RenderOnlyRaises
  <2>2. RadioKeepsSpeed'
    BY <1>u, <1>i, <1>1 DEF RadioKeepsSpeed
  <2>3. FastBeforeRadio'
    BY <1>u, <1>i, <1>1 DEF FastBeforeRadio, MayStartRadio
  <2>4. OneStaleRead'
    BY <1>i, <1>1 DEF OneStaleRead
  <2> QED  BY <1>h, <1>1, <2>1, <2>2, <2>3, <2>4 DEF PowerInv
<1>2. CASE ReadsLock("render")
  <2>1. /\ call'["render"].at = "decide" /\ call'["render"].enabled = (call["render"].enabled /\ ~radio)
        /\ call'["main"] = call["main"] /\ call["render"].at = "enter" /\ UNCHANGED <<power, slow>>
    BY <1>2, ReadsLockFacts DEF ReadsLock, Others
  <2>2. ~call'["render"].enabled
    BY <1>i, <2>1 DEF RenderOnlyRaises
  <2>3. MainLowersAlone' /\ ClockAndFlag'
    BY <1>i, <2>1 DEF MainLowersAlone, ClockAndFlag
  <2> QED  BY <1>1, <2>1, <2>2, <2>3
<1>3. CASE Decides("render")
  <2>1. call["render"].at = "decide" /\ UNCHANGED power /\ ~call["render"].enabled
    BY <1>i, <1>3 DEF Decides, RenderOnlyRaises
  <2>2. CASE isLowPower /\ Goes("render", "raise") /\ UNCHANGED slow
    <3>1. /\ call'["render"].at = "raise" /\ call'["render"].enabled = call["render"].enabled
          /\ call'["main"] = call["main"]
      BY <2>2, GoesFacts DEF Others
    <3>2. MainLowersAlone' /\ ClockAndFlag'
      BY <1>i, <2>1, <2>2, <3>1 DEF MainLowersAlone, ClockAndFlag
    <3> QED  BY <1>1, <2>1, <2>2, <3>1, <3>2
  <2>3. CASE Returns("render")
    <3>1. call'["render"].at = "none" /\ call'["main"] = call["main"] /\ UNCHANGED slow
      BY <2>3, LeavesFacts DEF Returns, Others
    <3>2. MainLowersAlone' /\ ClockAndFlag'
      BY <1>i, <2>1, <3>1 DEF MainLowersAlone, ClockAndFlag
    <3> QED  BY <1>1, <2>1, <3>1, <3>2
  <2> QED
    BY <1>3, <2>1, <2>2, <2>3 DEF Decides, MayLower
<1>4. CASE ChangesClock("render")
  <2>1. call["render"].at = "raise" /\ UNCHANGED <<isLowPower, currentLockMode, slow>>
    BY <1>i, <1>4 DEF ChangesClock, RenderOnlyRaises
  <2>2. CASE clock' = "normal" /\ Goes("render", "raised")
    <3>1. /\ call'["render"].at = "raised" /\ call'["render"].enabled = call["render"].enabled
          /\ call'["main"] = call["main"]
      BY <2>2, GoesFacts DEF Others
    <3>2. ~call["render"].enabled
      BY <1>i, <2>1 DEF RenderOnlyRaises
    <3>3. MainLowersAlone' /\ ClockAndFlag'
      BY <1>i, <2>1, <2>2, <3>1 DEF MainLowersAlone, ClockAndFlag
    <3> QED  BY <1>1, <2>1, <2>2, <3>1, <3>2, <3>3
  <2>3. CASE refused' = (refused \/ call["render"].at = "raise") /\ UNCHANGED clock /\ Leaves("render")
    <3>1. call'["render"].at = "none" /\ call'["main"] = call["main"]
      BY <2>3, LeavesFacts DEF Others
    <3>2. MainLowersAlone' /\ ClockAndFlag'
      BY <1>i, <2>1, <2>3, <3>1 DEF MainLowersAlone, ClockAndFlag
    <3> QED  BY <1>1, <2>1, <2>3, <3>1, <3>2
  <2> QED  BY <1>4, <2>1, <2>2, <2>3 DEF ChangesClock
<1>5. CASE ChangesFlag("render")
  <2>1. /\ call["render"].at = "raised" /\ isLowPower' = FALSE /\ Returns("render")
        /\ UNCHANGED <<clock, currentLockMode, refused>>
    BY <1>i, <1>5 DEF ChangesFlag, RenderOnlyRaises
  <2>2. call'["render"].at = "none" /\ call'["main"] = call["main"] /\ UNCHANGED slow
    BY <2>1, LeavesFacts DEF Returns, Others
  <2>3. MainLowersAlone' /\ ClockAndFlag'
    BY <1>i, <2>1, <2>2 DEF MainLowersAlone, ClockAndFlag
  <2> QED  BY <1>1, <2>1, <2>2, <2>3
<1> QED
  BY <1>2, <1>3, <1>4, <1>5 DEF SetPowerSaving, SetsClockAndFlag

\* The render task takes a lock, or is ignored, and releases it.
LEMMA RenderLocks ==
    ASSUME TypeOK, TypeOK', PowerInv, RenderBegins \/ RenderEnds PROVE PowerInv'
<1> USE DEF power, loopVars
<1> "main" \in Task /\ "render" \in Task /\ "main" # "render" /\ \A t \in Task : t = "main" \/ t = "render"
  BY DEF Task
<1>i. /\ RenderOnlyRaises /\ MainLowersAlone /\ ClockAndFlag
      /\ RadioKeepsSpeed /\ FastBeforeRadio /\ HandOffIsFresh /\ OneStaleRead
  BY DEF PowerInv
<1>1. CASE RenderBegins
  <2>1. PICK ok \in BOOLEAN : TakesLock("render", ok) /\ valid' = ok
    BY <1>1 DEF RenderBegins
  <2>2. /\ rpc' = "drawing" /\ call["render"].at = "none" /\ call'["main"] = call["main"]
        /\ UNCHANGED <<clock, isLowPower, refused, mpc, radio, activity, input, handOff, idle>>
        /\ currentLockMode' = "NormalSpeed" /\ (ok <=> currentLockMode = "None")
        /\ slow' = (IF ok THEN 0 ELSE slow)
        /\ IF ok THEN call'["render"].at = "enter" /\ call'["render"].enabled = FALSE
           ELSE call'["render"] = call["render"]
    BY <1>1, <1>i, <2>1, CallsFacts DEF RenderBegins, RenderGoes, TakesLock, Others, RenderOnlyRaises
  <2>3. RenderOnlyRaises' /\ MainLowersAlone' /\ ClockAndFlag'
    BY <1>i, <2>1, <2>2 DEF RenderOnlyRaises, MainLowersAlone, ClockAndFlag
  <2>4. RadioKeepsSpeed' /\ FastBeforeRadio' /\ HandOffIsFresh'
    BY <1>i, <2>2 DEF RadioKeepsSpeed, FastBeforeRadio, MayStartRadio, HandOffIsFresh
  <2>5. OneStaleRead'
    BY <1>i, <2>2 DEF OneStaleRead
  <2> QED  BY <2>3, <2>4, <2>5 DEF PowerInv
<1>2. CASE RenderEnds
  <2>1. call["render"].at = "none" /\ UNCHANGED call /\ valid' = FALSE
    BY <1>2 DEF RenderEnds, NoCall
  <2>2. /\ UNCHANGED <<clock, isLowPower, refused, mpc, radio, activity, input, handOff, idle>>
        /\ currentLockMode' = (IF valid THEN "None" ELSE currentLockMode)
        /\ slow' = (IF valid THEN 0 ELSE slow)
    BY <1>2 DEF RenderEnds, RenderGoes, ReleasesLock
  <2>3. RenderOnlyRaises' /\ MainLowersAlone' /\ ClockAndFlag'
    BY <1>i, <2>1, <2>2 DEF RenderOnlyRaises, MainLowersAlone, ClockAndFlag
  <2>4. RadioKeepsSpeed' /\ FastBeforeRadio' /\ HandOffIsFresh'
    BY <1>i, <2>1, <2>2 DEF RadioKeepsSpeed, FastBeforeRadio, MayStartRadio, HandOffIsFresh
  <2>5. OneStaleRead'
    BY <1>i, <2>1, <2>2 DEF OneStaleRead
  <2> QED  BY <2>3, <2>4, <2>5 DEF PowerInv
<1> QED  BY <1>1, <1>2

\* The main task between two calls: nothing but the start of one happens to the clock.
LEMMA MainStep ==
    ASSUME TypeOK, TypeOK', PowerInv, call["main"].at = "none",
           UNCHANGED <<power, slow, rpc, valid>>,
           \/ UNCHANGED call
           \/ \E b \in BOOLEAN : Calls("main", b) /\ (MayStartRadio' => ~b),
           MayStartRadio' => MayStartRadio \/ \E b \in BOOLEAN : Calls("main", b),
           radio' => radio \/ MayStartRadio,
           HandOffIsFresh'
    PROVE  PowerInv'
<1> USE DEF power, loopVars
<1> "main" \in Task /\ "render" \in Task /\ "main" # "render" /\ \A t \in Task : t = "main" \/ t = "render"
  BY DEF Task
<1>i. /\ RenderOnlyRaises /\ MainLowersAlone /\ ClockAndFlag
      /\ RadioKeepsSpeed /\ FastBeforeRadio /\ HandOffIsFresh /\ OneStaleRead
  BY DEF PowerInv
<1>1. /\ call'["render"] = call["render"]
      /\ \/ UNCHANGED call
         \/ /\ call'["main"].at = "enter" /\ (MayStartRadio' => ~call'["main"].enabled)
            /\ \E b \in BOOLEAN : Calls("main", b)
  BY CallsFacts DEF Others
<1>2. RenderOnlyRaises' /\ MainLowersAlone' /\ ClockAndFlag'
  BY <1>i, <1>1 DEF RenderOnlyRaises, MainLowersAlone, ClockAndFlag
<1>3. RadioKeepsSpeed'
  BY <1>i, <1>1 DEF RadioKeepsSpeed, FastBeforeRadio
<1>4. FastBeforeRadio'
  <2>1. CASE UNCHANGED call /\ ~\E b \in BOOLEAN : Calls("main", b)
    BY <1>i, <2>1 DEF FastBeforeRadio
  <2>2. CASE \E b \in BOOLEAN : Calls("main", b)
    <3>1. call'["main"].at = "enter"
      BY <2>2, CallsFacts
    <3>2. MayStartRadio' => ~call'["main"].enabled
      BY <1>1, <3>1
    <3> QED  BY <3>1, <3>2 DEF FastBeforeRadio
  <2> QED  BY <1>1, <2>1, <2>2
<1>5. OneStaleRead'
  BY <1>i, <1>1 DEF OneStaleRead
<1> QED  BY <1>2, <1>3, <1>4, <1>5 DEF PowerInv

LEMMA LoopStep ==
    ASSUME TypeOK, TypeOK', PowerInv,
           \/ UsbIteration \/ SeesInput \/ StaysAwake \/ HandsOff
           \/ LoopReturnsEarly \/ RunsActivity \/ IterationEnds
    PROVE  PowerInv'
<1> USE DEF power, loopVars
<1> "main" \in Task /\ "render" \in Task /\ "main" # "render" /\ \A t \in Task : t = "main" \/ t = "render"
  BY DEF Task
<1>i. /\ RenderOnlyRaises /\ MainLowersAlone /\ ClockAndFlag
      /\ RadioKeepsSpeed /\ FastBeforeRadio /\ HandOffIsFresh /\ OneStaleRead
  BY DEF PowerInv
<1>m. MainAt("top") \/ MainAt("sleepCheck") \/ MainAt("loop") \/ MainAt("end") => call["main"].at = "none"
  BY DEF MainAt, NoCall
<1>n. idle \in 0 .. Timeout
  BY DEF TypeOK
<1>1. CASE UsbIteration
  <2>1. /\ mpc = "top" /\ activity = "usb" /\ mpc' = "top" /\ call["main"].at = "none"
        /\ UNCHANGED <<power, slow, rpc, valid, loopVars>>
        /\ \E b \in BOOLEAN : Calls("main", b)
    BY <1>1, <1>m DEF UsbIteration, MainGoes, MainAt
  <2>2. HandOffIsFresh' /\ ~MayStartRadio'
    BY <1>i, <2>1 DEF HandOffIsFresh, MayStartRadio
  <2> QED  BY <2>1, <2>2, MainStep
<1>2. CASE SeesInput
  <2>1. /\ mpc = "top" /\ activity # "usb" /\ mpc' = "sleepCheck" /\ call["main"].at = "none"
        /\ UNCHANGED <<power, slow, rpc, valid, radio, activity, handOff>>
        /\ IF input' \/ activity = "busy" THEN idle' = 0 /\ Calls("main", FALSE) ELSE UNCHANGED <<idle, call>>
    BY <1>2, <1>m DEF SeesInput, MainGoes, MainAt
  <2>2. HandOffIsFresh'
    <3>1. (input' => idle' = 0) /\ (idle' = 0 \/ idle' = idle)
      BY <2>1
    <3> QED  BY <1>i, <1>n, <2>1, <3>1 DEF HandOffIsFresh
  <2>3. MayStartRadio' => MayStartRadio \/ Calls("main", FALSE)
    BY <2>1 DEF MayStartRadio
  <2> QED  BY <2>1, <2>2, <2>3, MainStep
<1>3. CASE StaysAwake
  <2>1. /\ mpc = "sleepCheck" /\ mpc' = "loop" /\ call["main"].at = "none"
        /\ UNCHANGED <<power, slow, rpc, valid, loopVars, call>>
    BY <1>3, <1>m DEF StaysAwake, MainGoes, MainAt
  <2>2. HandOffIsFresh' /\ (MayStartRadio' => MayStartRadio)
    BY <1>i, <2>1 DEF HandOffIsFresh, MayStartRadio
  <2> QED  BY <2>1, <2>2, MainStep
<1>4. CASE HandsOff
  <2>1. /\ mpc = "sleepCheck" /\ mpc' = "loop" /\ call["main"].at = "none" /\ idle' = 0
        /\ UNCHANGED <<power, slow, rpc, valid, radio, activity, input>> /\ Calls("main", FALSE)
    BY <1>4, <1>m DEF HandsOff, HandOffClock, MainGoes, MainAt
  <2>2. HandOffIsFresh'
    BY <1>i, <2>1 DEF HandOffIsFresh
  <2> QED  BY <2>1, <2>2, MainStep
<1>5. CASE LoopReturnsEarly
  <2>1. /\ mpc = "loop" /\ mpc' = "end" /\ call["main"].at = "none" /\ input
        /\ UNCHANGED <<power, slow, rpc, valid, loopVars, call>>
    BY <1>5, <1>m DEF LoopReturnsEarly, MainGoes, MainAt
  <2>2. HandOffIsFresh' /\ (MayStartRadio' => MayStartRadio)
    BY <1>i, <2>1 DEF HandOffIsFresh, MayStartRadio
  <2> QED  BY <2>1, <2>2, MainStep
<1>6. CASE RunsActivity
  <2>1. /\ mpc = "loop" /\ mpc' = "end" /\ call["main"].at = "none" /\ handOff' = FALSE
        /\ radio' \in (IF handOff \/ input \/ activity = "busy" THEN BOOLEAN ELSE {radio, FALSE})
        /\ UNCHANGED <<power, slow, rpc, valid, call, input>>
    BY <1>6, <1>m DEF RunsActivity, MainGoes, MainAt
  <2>2. HandOffIsFresh' /\ ~MayStartRadio'
    BY <2>1 DEF HandOffIsFresh, MayStartRadio
  <2>3. radio' => radio \/ MayStartRadio
    BY <2>1 DEF MayStartRadio
  <2> QED  BY <2>1, <2>2, <2>3, MainStep
<1>7. CASE IterationEnds
  <2>1. /\ mpc = "end" /\ mpc' = "top" /\ call["main"].at = "none"
        /\ \/ Calls("main", FALSE)
           \/ idle >= Idle /\ Calls("main", TRUE)
           \/ UNCHANGED call
        /\ UNCHANGED <<power, slow, rpc, valid, radio, activity, input, handOff>>
    BY <1>7, <1>m DEF IterationEnds, MainGoes, MainAt
  <2>2. idle' = idle \/ idle' = idle + 1
    BY <1>7 DEF IterationEnds, AfterDelay
  <2>3. HandOffIsFresh'
    BY <1>i, <1>n, <2>1, <2>2 DEF HandOffIsFresh
  <2>4. MayStartRadio' => MayStartRadio /\ ~(idle >= Idle)
    BY <1>i, <1>n, <2>1 DEF MayStartRadio, HandOffIsFresh
  <2>5. \/ UNCHANGED call
        \/ \E b \in BOOLEAN : Calls("main", b) /\ (MayStartRadio' => ~b)
    BY <2>1, <2>4
  <2> QED  BY <2>1, <2>3, <2>4, <2>5, MainStep
<1> QED  BY <1>1, <1>2, <1>3, <1>4, <1>5, <1>6, <1>7

LEMMA SleepStep ==
    ASSUME TypeOK, TypeOK', PowerInv, GoesToSleep \/ PowersDown \/ Boots PROVE PowerInv'
<1> USE DEF power, loopVars
<1> "main" \in Task /\ "render" \in Task /\ "main" # "render" /\ \A t \in Task : t = "main" \/ t = "render"
  BY DEF Task
<1>i. /\ RenderOnlyRaises /\ MainLowersAlone /\ ClockAndFlag
      /\ RadioKeepsSpeed /\ FastBeforeRadio /\ HandOffIsFresh /\ OneStaleRead
  BY DEF PowerInv
<1>1. CASE GoesToSleep
  <2>1. PICK ok \in BOOLEAN : TakesLock("main", ok)
    BY <1>1 DEF GoesToSleep
  <2>2. /\ mpc' = "prepare" /\ UNCHANGED <<rpc, valid, loopVars, clock, isLowPower, refused>>
        /\ call["main"].at = "none" /\ call'["render"] = call["render"]
        /\ currentLockMode' = "NormalSpeed" /\ (ok <=> currentLockMode = "None")
        /\ slow' = (IF ok THEN 0 ELSE slow)
        /\ IF ok THEN call'["main"].at = "enter" /\ call'["main"].enabled = FALSE
           ELSE UNCHANGED call
    <3>1. call["main"].at = "none"
      BY <1>1 DEF GoesToSleep, MainAt, NoCall
    <3>2. mpc' = "prepare" /\ UNCHANGED <<rpc, valid, loopVars>>
      BY <1>1 DEF GoesToSleep, MainGoes
    <3>3. /\ currentLockMode' = "NormalSpeed" /\ (ok <=> currentLockMode = "None")
          /\ slow' = (IF ok THEN 0 ELSE slow) /\ UNCHANGED <<clock, isLowPower, refused>>
          /\ IF ok THEN Calls("main", FALSE) ELSE UNCHANGED call
      BY <2>1 DEF TakesLock
    <3>4. Calls("main", FALSE) =>
            call'["main"].at = "enter" /\ call'["main"].enabled = FALSE /\ call'["render"] = call["render"]
      BY CallsFacts DEF Others
    <3> QED  BY <3>1, <3>2, <3>3, <3>4
  <2>3. RenderOnlyRaises' /\ MainLowersAlone' /\ ClockAndFlag'
    BY <1>i, <2>2 DEF RenderOnlyRaises, MainLowersAlone, ClockAndFlag
  <2>4. RadioKeepsSpeed'
    BY <1>i, <2>2 DEF RadioKeepsSpeed
  <2>5. FastBeforeRadio' /\ HandOffIsFresh'
    BY <1>i, <2>2 DEF FastBeforeRadio, MayStartRadio, HandOffIsFresh
  <2>6. OneStaleRead'
    BY <1>i, <2>2 DEF OneStaleRead
  <2> QED  BY <2>3, <2>4, <2>5, <2>6 DEF PowerInv
<1>2. CASE PowersDown
  <2>1. /\ mpc' = "off" /\ radio' = FALSE
        /\ UNCHANGED <<power, slow, call, rpc, valid, activity, input, handOff, idle>>
    BY <1>2 DEF PowersDown, MainGoes
  <2>2. RenderOnlyRaises' /\ MainLowersAlone' /\ ClockAndFlag'
    BY <1>i, <2>1 DEF RenderOnlyRaises, MainLowersAlone, ClockAndFlag
  <2>3. RadioKeepsSpeed' /\ FastBeforeRadio' /\ HandOffIsFresh' /\ OneStaleRead'
    BY <1>i, <2>1 DEF RadioKeepsSpeed, FastBeforeRadio, MayStartRadio, HandOffIsFresh, OneStaleRead
  <2> QED  BY <2>2, <2>3 DEF PowerInv
<1>3. CASE Boots
  <2>1. \A t \in Task : call'[t].at = "none"
    BY <1>3 DEF Boots, NoCall
  <2> QED
    BY <1>3, <2>1 DEF Boots, PowerInv, RenderOnlyRaises, MainLowersAlone, ClockAndFlag, RadioKeepsSpeed,
         FastBeforeRadio, MayStartRadio, HandOffIsFresh, OneStaleRead
<1> QED  BY <1>1, <1>2, <1>3

LEMMA PowerStep == TypeOK /\ TypeOK' /\ PowerInv /\ [Next]_vars => PowerInv'
<1> SUFFICES ASSUME TypeOK, TypeOK', PowerInv, [Next]_vars PROVE PowerInv'
  OBVIOUS
<1>1. CASE UNCHANGED vars
  BY <1>1 DEF vars, PowerInv, RenderOnlyRaises, MainLowersAlone, ClockAndFlag, RadioKeepsSpeed,
       FastBeforeRadio, MayStartRadio, HandOffIsFresh, OneStaleRead
<1>2. CASE \E t \in Task : SetPowerSaving(t)
  <2>1. SetPowerSaving("main") \/ SetPowerSaving("render")
    BY <1>2 DEF Task
  <2> QED  BY <2>1, MainSetPowerSaving, RenderSetPowerSaving
<1> QED
  BY <1>1, <1>2, RenderLocks, LoopStep, SleepStep DEF Next

LEMMA PowerInvariant == Spec => [](TypeOK /\ PowerInv)
<1>1. Init => TypeOK /\ PowerInv
  BY InitTypeOK, InitPowerInv
<1>2. TypeOK /\ PowerInv /\ [Next]_vars => (TypeOK /\ PowerInv)'
  BY TypeStep, PowerStep
<1> QED  BY <1>1, <1>2, PTL DEF Spec

-----------------------------------------------------------------------------
(* The theorems.                                                           *)

\* setPowerSaving() without a mutex: when neither task is in it, isLowPower is the clock.
THEOREM ClockIsKnown == Spec => []FlagFollowsClock
<1>1. ClockAndFlag => FlagFollowsClock
  BY DEF ClockAndFlag, FlagFollowsClock, NoCall, Task
<1> QED  BY <1>1, PowerInvariant, PTL DEF PowerInv

\* enterLockScreenSleep() and loop() restore the clock before anything may start the radio.
THEOREM RadioIsSafe == Spec => []RadioAtFullSpeed
<1>1. RadioKeepsSpeed => RadioAtFullSpeed
  BY DEF RadioKeepsSpeed, RadioAtFullSpeed
<1> QED  BY <1>1, PowerInvariant, PTL DEF PowerInv

\* The lock is read without its mutex: at most one call of the main task ends slow under it.
THEOREM StaleReadIsHarmless == Spec => []StaleLowIsBrief
<1>1. OneStaleRead => StaleLowIsBrief
  BY DEF OneStaleRead, StaleLowIsBrief
<1> QED  BY <1>1, PowerInvariant, PTL DEF PowerInv
=============================================================================
