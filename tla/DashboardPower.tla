---------------------------- MODULE DashboardPower ----------------------------
(***************************************************************************)
(* The battery policy of the unattended dashboards (DashboardPower.cpp):   *)
(* the discharge history kept in RTC memory, the prediction made from it   *)
(* and what a poll does with the verdict, on a pack that drains steadily.  *)
(*                                                                         *)
(* Time is in hundredths of an hour and charge in hundredths of a percent, *)
(* so a pack that loses d %/h loses d units per tick.  Rates are kept in   *)
(* thousandths of a %/h, rounded down; the code has floats.  The epoch of  *)
(* the baseline is replaced by its age, which is all the code uses.        *)
(***************************************************************************)
EXTENDS Integers

CONSTANTS
  Drain,       \* rates of discharge, in %/h
  Charge,      \* charges of a pack taken off the charger, in units
  Interval,    \* configured poll intervals, in ticks
  Early,       \* times after which the user may have a sleeping dashboard poll again, in ticks
  Noise,       \* errors of a reading, in percent
  MaxUpsets,   \* bound on early polls, unseen charges, readings that are off and steps back of the clock, together
  MaxAge       \* bound on the age of the baseline

Hour == 100
Percent == 100
CRITICAL_PCT == 7
LOW_PCT == 20
LowMinInterval == 2 * Hour
MinDelta == 2                      \* MIN_DELTA_HOURS
MaxPlausibleRate == 50 * 1000
RiseNoise == 3

ASSUME PackAssumption ==
  /\ Drain \subseteq Nat \ {0} /\ Charge \subseteq 1..100 * Percent
  /\ Interval \subseteq Nat \ {0} /\ Early \subseteq Nat
  /\ Noise \subseteq Int
  /\ MaxUpsets \in Nat /\ MaxAge \in Nat

VARIABLES
  pc,        \* wake, assessed, off or dead
  charge,    \* what the pack really holds
  drain,     \* what it really loses per tick
  interval,  \* the configured interval
  usb,       \* on the charger
  clockSet,  \* the clock has been synchronised
  history,   \* the RTC words: have, age, pct, rate, samples
  status,    \* what assess() returned: pct, predicted, level
  upsets     \* early polls, unseen charges, bad readings and steps of the clock, so far

vars == <<pc, charge, drain, interval, usb, clockSet, history, status, upsets>>
pack == <<charge, drain, interval, usb>>

NoHistory == [have |-> FALSE, age |-> 0, pct |-> 0, rate |-> 0, samples |-> 0]
NoStatus == [pct |-> 100, predicted |-> FALSE, level |-> "Ok"]

TypeOK ==
  /\ pc \in {"wake", "assessed", "off", "dead"}
  /\ charge \in 0..100 * Percent
  /\ drain \in Drain /\ interval \in Interval
  /\ usb \in BOOLEAN /\ clockSet \in BOOLEAN
  /\ history \in [have : BOOLEAN, age : -1..MaxAge, pct : 0..100, rate : 0..MaxPlausibleRate - 1, samples : 0..255]
  /\ status \in [pct : 0..100, predicted : BOOLEAN, level : {"Ok", "Low", "Critical"}]
  /\ upsets \in 0..MaxUpsets

Init ==
  /\ pc = "wake"
  /\ charge \in Charge /\ drain \in Drain /\ interval \in Interval
  /\ usb = FALSE
  /\ clockSet \in BOOLEAN
  /\ history = NoHistory
  /\ status = NoStatus
  /\ upsets = 0

IsUpset == upsets < MaxUpsets /\ upsets' = upsets + 1

(***************************************************************************)
(* assess().                                                               *)
(***************************************************************************)
\* A fault: the percentage moves on and the time of the last change does not.
BaselineKeepsTime(h, p) == [h EXCEPT !.have = TRUE, !.pct = p]

Baseline(h, p) == [h EXCEPT !.have = TRUE, !.age = 0, !.pct = p]

\* A fault: a rise is noise, however large.
NeedsBaselineOnlyOnce(h, p) == ~h.have \/ h.age <= 0

\* No usable point, a clock that went back, or a rise too large to be noise.
NeedsBaseline(h, p) == ~h.have \/ h.age <= 0 \/ p > h.pct + RiseNoise

Rate(h, p) == ((h.pct - p) * Hour * 1000) \div h.age

Smoothed(old, new) == IF old > 0 THEN (old * 6 + new * 4) \div 10 ELSE new

\* A fault: any rate is believed.
PlausibleAny(rate) == rate > 0

Plausible(rate) == rate > 0 /\ rate < MaxPlausibleRate

\* A drop is measured over the time since the last change and moves the baseline.
Drops(h, p) ==
  LET rate == Rate(h, p) IN
    IF Plausible(rate)
    THEN Baseline([h EXCEPT !.rate = Smoothed(@, rate), !.samples = IF @ < 255 THEN @ + 1 ELSE @], p)
    ELSE Baseline(h, p)

Learned(h, p, charging) ==
  IF charging THEN [h EXCEPT !.rate = 0, !.have = FALSE, !.samples = 0]
  ELSE IF ~clockSet THEN h
  ELSE IF NeedsBaseline(h, p) THEN Baseline(h, p)
  ELSE IF p < h.pct /\ h.age >= MinDelta THEN Drops(h, p)
  ELSE h

Predicted(h, charging) == ~charging /\ h.rate > 0 /\ h.samples >= 2

\* The interval slept at most: a dashboard that is Low stretches its own.
LongestSleep == IF interval > LowMinInterval THEN interval ELSE LowMinInterval

\* hoursRemaining * 3600 < sleepS * SURVIVAL_MARGIN
WontSurvive(h, p, charging) == Predicted(h, charging) /\ p * 1000 * Hour * 2 < LongestSleep * 3 * h.rate

Level(h, p, charging) ==
  IF charging THEN "Ok"
  ELSE IF p <= CRITICAL_PCT \/ WontSurvive(h, p, charging) THEN "Critical"
  ELSE IF p <= LOW_PCT THEN "Low" ELSE "Ok"

\* getBatteryPercentage(), cut off at 100.
Reading(n) == LET p == charge \div Percent + n IN IF p > 100 THEN 100 ELSE IF p < 0 THEN 0 ELSE p

Assess ==
  /\ pc = "wake"
  /\ \E n \in {0} \cup Noise :
       /\ IF n = 0 THEN UNCHANGED upsets ELSE IsUpset
       /\ history' = Learned(history, Reading(n), usb)
       /\ status' = [pct |-> Reading(n), predicted |-> Predicted(history', usb),
                     level |-> Level(history', Reading(n), usb)]
  /\ pc' = "assessed"
  /\ UNCHANGED <<pack, clockSet>>

(***************************************************************************)
(* What the dashboard does with the verdict.                               *)
(***************************************************************************)
\* beginUpdate(): the warning stays on the panel, the RTC memory loses its power.
PowersOff ==
  /\ pc = "assessed" /\ status.level = "Critical"
  /\ pc' = "off"
  /\ UNCHANGED <<pack, clockSet, history, status, upsets>>

\* adjustIntervalSeconds().
AdjustInterval ==
  IF status.level = "Low" /\ interval < LowMinInterval THEN LowMinInterval ELSE interval

Aged(ticks) == [history EXCEPT !.age = IF @ < 0 THEN @ ELSE IF @ + ticks > MaxAge THEN MaxAge ELSE @ + ticks]

\* The fetch, which sets the clock if the network answers, and the timed sleep until the next poll.
Sleeps(ticks) ==
  /\ pc = "assessed" /\ status.level # "Critical"
  /\ clockSet' \in {clockSet, TRUE}
  /\ IF usb THEN UNCHANGED charge
     ELSE charge' = IF charge > drain * ticks THEN charge - drain * ticks ELSE 0
  /\ pc' = IF charge' = 0 THEN "dead" ELSE "wake"
  /\ history' = Aged(ticks)
  /\ UNCHANGED <<drain, interval, usb, status>>

SleepsThrough == Sleeps(AdjustInterval) /\ UNCHANGED upsets

\* The user wakes the device and locks it again.
IsWokenEarly ==
  /\ \E ticks \in Early : ticks < AdjustInterval /\ Sleeps(ticks)
  /\ IsUpset

(***************************************************************************)
(* The world while the device sleeps.                                      *)
(***************************************************************************)
PluggedIn ==
  /\ pc = "wake" /\ ~usb
  /\ usb' = TRUE
  /\ UNCHANGED <<pc, charge, drain, interval, clockSet, history, status, upsets>>

\* A poll has seen the cable; what the pack is used for afterwards may be something else.
Unplugged ==
  /\ pc = "wake" /\ usb /\ ~history.have
  /\ usb' = FALSE
  /\ charge' \in {c \in Charge : c >= charge}
  /\ drain' \in Drain
  /\ UNCHANGED <<pc, interval, clockSet, history, status, upsets>>

\* A charger came and went between two polls; a rise this large is taken for a charge.
ChargedUnseen ==
  /\ pc = "wake" /\ ~usb /\ history.have
  /\ charge' \in {c \in Charge : c >= charge /\ c \div Percent > history.pct + RiseNoise}
  /\ IsUpset
  /\ UNCHANGED <<pc, drain, interval, usb, clockSet, history, status>>

\* A synchronisation moved the clock to before the baseline.
ClockGoesBack ==
  /\ pc = "wake" /\ clockSet /\ history.have
  /\ history' = [history EXCEPT !.age = -1]
  /\ IsUpset
  /\ UNCHANGED <<pc, pack, clockSet, status>>

\* A press of the button after the pause: RTC memory and clock begin anew.
PowersOn ==
  /\ pc \in {"off", "dead"}
  /\ pc' = "wake"
  /\ charge' \in Charge /\ drain' \in Drain
  /\ usb' = FALSE /\ clockSet' = FALSE
  /\ history' = NoHistory /\ status' = NoStatus
  /\ UNCHANGED <<interval, upsets>>

Next ==
  \/ Assess \/ PowersOff \/ SleepsThrough \/ IsWokenEarly
  \/ PluggedIn \/ Unplugged \/ ChargedUnseen \/ ClockGoesBack \/ PowersOn

Spec == Init /\ [][Next]_vars

(***************************************************************************)
(* Properties.                                                             *)
(***************************************************************************)

\* A dashboard does not "die and you never know why" (DashboardPower.h:9): one whose discharge was predicted and that
\* polls more often than every hour and a half is not found dead with a frame that shows neither the low battery
\* nor the pause, however its polls, which learned the rate from whole percents, were spaced.
NoUnannouncedDeath == pc = "dead" /\ status.predicted => status.level = "Low" \/ 2 * interval >= 3 * Hour

\* A prediction is never far from the truth: a pack that was predicted and not paused holds three quarters of what
\* the longest sleep takes, however short the time was in which its drops were measured and whatever the phase of the
\* whole percents they are measured in (SURVIVAL_MARGIN is there for the rest).
PredictionIsNear ==
  pc = "assessed" /\ status.predicted /\ status.level # "Critical" => 3 * drain * LongestSleep <= 4 * charge

\* "A single noisy reading must never trigger a power-off" (DashboardPower.cpp:88): above the floor a pack is
\* only paused if it would not last the longest sleep three times over.
NoNeedlessPause ==
  pc = "assessed" /\ status.level = "Critical" /\ status.pct > CRITICAL_PCT
    => charge < 3 * drain * LongestSleep
=============================================================================
