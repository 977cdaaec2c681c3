------------------------ MODULE DashboardPower_proofs ------------------------
(***************************************************************************)
(* The battery policy, for any packs, intervals and numbers of polls: what *)
(* is kept in RTC memory stays in its range, whatever the errors of a      *)
(* reading; and when readings are exact to the percent they are rounded    *)
(* down to, how far a prediction is from the truth.                        *)
(***************************************************************************)
EXTENDS DashboardPower, TLAPS

USE PackAssumption

Ages == -1..MaxAge
Percents == 0..100
Rates == 0..MaxPlausibleRate - 1
Bytes == 0..255
Histories(A, P, R, S) == [have : BOOLEAN, age : A, pct : P, rate : R, samples : S]
HistoryType == Histories(Ages, Percents, Rates, Bytes)
StatusType == [pct : Percents, predicted : BOOLEAN, level : {"Ok", "Low", "Critical"}]

\* The constants of the code, by their ranges.
LEMMA Ranges == MaxPlausibleRate \in Nat \ {0} /\ Percent \in Nat \ {0} /\ 100 * Percent \in Nat
  BY DEF MaxPlausibleRate, Percent

\* getBatteryPercentage() is cut off at both ends.
LEMMA ReadingRange == ASSUME charge \in Nat, NEW n \in Int PROVE Reading(n) \in Percents
<1>1. charge \div Percent \in Int
  BY Ranges
<1>2. QED
  BY <1>1 DEF Reading, Percents

\* The fields of a history, and a change of some of them, whatever their ranges.
LEMMA Record ==
    ASSUME NEW A, NEW P, NEW R, NEW S, NEW h \in Histories(A, P, R, S),
           NEW have \in BOOLEAN, NEW age \in A, NEW pct \in P, NEW rate \in R, NEW samples \in S
    PROVE  /\ [h EXCEPT !.have = have, !.age = age, !.pct = pct] \in Histories(A, P, R, S)
           /\ [h EXCEPT !.rate = rate, !.have = have, !.samples = samples] \in Histories(A, P, R, S)
  BY DEF Histories
LEMMA OtherAge ==
    ASSUME NEW A, NEW P, NEW R, NEW S, NEW h \in Histories(A, P, R, S), NEW age \in A
    PROVE  [h EXCEPT !.age = age] \in Histories(A, P, R, S)
  BY DEF Histories
LEMMA OtherRate ==
    ASSUME NEW A, NEW P, NEW R, NEW S, NEW h \in Histories(A, P, R, S), NEW rate \in R, NEW samples \in S
    PROVE  [h EXCEPT !.rate = rate, !.samples = samples] \in Histories(A, P, R, S)
  BY DEF Histories
LEMMA Fields ==
    ASSUME NEW h \in HistoryType
    PROVE  h.have \in BOOLEAN /\ h.age \in Ages /\ h.pct \in Percents /\ h.rate \in Rates /\ h.samples \in Bytes
  BY DEF HistoryType, Histories

\* A baseline belongs to the history.
LEMMA BaselineType == ASSUME NEW h \in HistoryType, NEW p \in Percents PROVE Baseline(h, p) \in HistoryType
<1>1. 0 \in Ages
  BY DEF Ages
<1>2. QED
  BY <1>1, Fields, Record DEF Baseline, HistoryType

\* The smoothed rate lies between the old one and the new one, which is plausible.
LEMMA SmoothedRange ==
    ASSUME NEW old \in Rates, NEW new \in Int, Plausible(new)
    PROVE  Smoothed(old, new) \in Rates
<1>1. new \in 1..MaxPlausibleRate - 1
  BY Ranges DEF Plausible
<1>2. (old * 6 + new * 4) \div 10 \in Rates
  BY <1>1, Ranges DEF Rates
<1>3. QED
  BY <1>1, <1>2 DEF Smoothed, Rates

\* A drop leaves a history, believed or not.
LEMMA DropsType ==
    ASSUME NEW h \in HistoryType, NEW p \in Percents, h.age > 0
    PROVE  Drops(h, p) \in HistoryType
<1> DEFINE rate == Rate(h, p)
           more == IF h.samples < 255 THEN h.samples + 1 ELSE h.samples
           smooth == Smoothed(h.rate, rate)
<1>1. h.age \in Int /\ h.pct \in Int /\ p \in Int /\ h.rate \in Rates /\ h.samples \in Bytes
  BY Fields DEF Ages, Percents
<1>2. rate \in Int
  <2>1. (h.pct - p) * Hour * 1000 \in Int
    BY <1>1 DEF Hour
  <2> DEFINE dividend == (h.pct - p) * Hour * 1000
             age == h.age
  <2>2. dividend \in Int /\ age \in Int /\ age > 0
    BY <1>1, <2>1
  <2> HIDE DEF dividend, age
  <2>3. dividend \div age \in Int
    BY <2>2
  <2> QED
    BY <2>3 DEF Rate, dividend, age
<1>3. more \in Bytes
  BY <1>1 DEF Bytes
<1> HIDE DEF rate
<1>4. Plausible(rate) => smooth \in Rates
  BY <1>1, <1>2, SmoothedRange
<1> HIDE DEF more, smooth
<1>5. Plausible(rate) => [h EXCEPT !.rate = smooth, !.samples = more] \in HistoryType
  BY <1>3, <1>4, OtherRate DEF HistoryType
<1>6. Drops(h, p) = IF Plausible(rate) THEN Baseline([h EXCEPT !.rate = smooth, !.samples = more], p)
                                       ELSE Baseline(h, p)
  BY DEF Drops, rate, smooth, more, HistoryType, Histories
<1>7. QED
  BY <1>5, <1>6, BaselineType

\* So does a reading of any kind.
LEMMA LearnedType ==
    ASSUME NEW h \in HistoryType, NEW p \in Percents, NEW charging \in BOOLEAN
    PROVE  Learned(h, p, charging) \in HistoryType
<1>1. CASE charging
  <2>1. 0 \in Rates /\ 0 \in Bytes
    BY Ranges DEF Rates, Bytes
  <2> QED
    BY <1>1, <2>1, Fields, Record DEF Learned, HistoryType
<1>2. CASE ~charging
  <2>1. h.age \in Int /\ (~NeedsBaseline(h, p) => h.age > 0)
    BY Fields DEF NeedsBaseline, Ages
  <2> QED
    BY <1>2, <2>1, BaselineType, DropsType DEF Learned
<1>3. QED
  BY <1>1, <1>2

\* The verdict.
LEMMA VerdictType ==
    ASSUME NEW h \in HistoryType, NEW p \in Percents, NEW charging \in BOOLEAN
    PROVE  [pct |-> p, predicted |-> Predicted(h, charging), level |-> Level(h, p, charging)] \in StatusType
<1>1. Predicted(h, charging) \in BOOLEAN
  BY DEF Predicted
<1>2. Level(h, p, charging) \in {"Ok", "Low", "Critical"}
  BY DEF Level
<1>3. QED
  BY <1>1, <1>2 DEF StatusType

\* Time passes for the baseline only up to the bound.
LEMMA AgedType == ASSUME history \in HistoryType, NEW ticks \in Nat PROVE Aged(ticks) \in HistoryType
<1> DEFINE age == IF history.age < 0 THEN history.age
                  ELSE IF history.age + ticks > MaxAge THEN MaxAge ELSE history.age + ticks
<1>1. age \in Ages
  BY Fields DEF Ages
<1>2. Aged(ticks) = [history EXCEPT !.age = age]
  BY DEF Aged, HistoryType, Histories
<1> HIDE DEF age
<1>3. QED
  BY <1>1, <1>2, OtherAge DEF HistoryType

\* What a pack loses in its sleep is a charge.
LEMMA Drained ==
    ASSUME NEW d \in Nat, NEW ticks \in Nat, NEW c \in 0..100 * Percent
    PROVE  (IF c > d * ticks THEN c - d * ticks ELSE 0) \in 0..100 * Percent
<1> DEFINE loss == d * ticks
<1>1. loss \in Nat
  OBVIOUS
<1> HIDE DEF loss
<1>2. (IF c > loss THEN c - loss ELSE 0) \in 0..100 * Percent
  BY <1>1, Ranges
<1>3. QED
  BY <1>2 DEF loss

LEMMA NoneYet == NoHistory \in HistoryType /\ NoStatus \in StatusType
<1>1. 0 \in Ages /\ 0 \in Percents /\ 100 \in Percents /\ 0 \in Rates /\ 0 \in Bytes
  BY Ranges DEF Ages, Percents, Rates, Bytes
<1>2. QED
  BY <1>1 DEF NoHistory, NoStatus, HistoryType, StatusType, Histories

LEMMA Charges == Charge \subseteq 0..100 * Percent
<1>1. \A n \in Nat : 1..n \subseteq 0..n
  OBVIOUS
<1>2. QED
  BY <1>1, Ranges

PackType == charge \in 0..100 * Percent /\ drain \in Drain /\ interval \in Interval /\ usb \in BOOLEAN
RestType == /\ pc \in {"wake", "assessed", "off", "dead"} /\ clockSet \in BOOLEAN /\ history \in HistoryType
            /\ status \in StatusType /\ upsets \in 0..MaxUpsets
LEMMA TypeParts == TypeOK <=> PackType /\ RestType
  BY DEF TypeOK, PackType, RestType, HistoryType, StatusType, Histories, Ages, Percents, Rates, Bytes

LEMMA SleepsStep ==
    ASSUME PackType, RestType, NEW ticks \in Nat, Sleeps(ticks), upsets' \in 0..MaxUpsets
    PROVE  PackType' /\ RestType'
<1>1. charge' \in 0..100 * Percent
  BY Drained DEF PackType, Sleeps
<1>2. history' \in HistoryType
  BY AgedType DEF RestType, Sleeps
<1>3. clockSet' \in BOOLEAN
  BY DEF RestType, Sleeps
<1>4. QED
  BY <1>1, <1>2, <1>3 DEF PackType, RestType, Sleeps

LEMMA TypeStep == TypeOK /\ [Next]_vars => TypeOK'
<1> SUFFICES ASSUME PackType, RestType, [Next]_vars PROVE PackType' /\ RestType'
  <2>1. TypeOK' <=> PackType' /\ RestType'
    BY TypeParts, PTL
  <2> QED
    BY <2>1, TypeParts
<1>0. AdjustInterval \in Nat /\ \A u : IsUpset => upsets' \in 0..MaxUpsets
  BY DEF PackType, RestType, AdjustInterval, IsUpset, LowMinInterval, Hour
<1>1. CASE Assess
  <2>1. PICK n \in {0} \cup Noise :
            /\ IF n = 0 THEN UNCHANGED upsets ELSE IsUpset
            /\ history' = Learned(history, Reading(n), usb)
            /\ status' = [pct |-> Reading(n), predicted |-> Predicted(history', usb),
                          level |-> Level(history', Reading(n), usb)]
    BY <1>1 DEF Assess
  <2>2. Reading(n) \in Percents
    BY ReadingRange, Ranges DEF PackType
  <2>3. history' \in HistoryType
    BY <2>1, <2>2, LearnedType DEF PackType, RestType
  <2>4. status' \in StatusType
    BY <2>1, <2>2, <2>3, VerdictType DEF PackType
  <2>5. upsets' \in 0..MaxUpsets
    BY <1>0, <2>1 DEF RestType
  <2> QED
    BY <1>1, <2>3, <2>4, <2>5 DEF Assess, PackType, RestType, pack
<1>2. CASE PowersOff
  BY <1>2 DEF PowersOff, PackType, RestType, pack
<1>3. CASE SleepsThrough
  BY <1>0, <1>3, SleepsStep DEF SleepsThrough, RestType
<1>4. CASE IsWokenEarly
  BY <1>0, <1>4, SleepsStep DEF IsWokenEarly
<1>5. CASE PluggedIn
  BY <1>5 DEF PluggedIn, PackType, RestType
<1>6. CASE Unplugged
  BY <1>6, Charges DEF Unplugged, PackType, RestType
<1>7. CASE ClockGoesBack
  <2>1. history' \in HistoryType
    <3>1. -1 \in Ages
      BY DEF Ages
    <3> QED
      BY <1>7, <3>1, OtherAge DEF ClockGoesBack, RestType, HistoryType
  <2> QED
    BY <1>0, <1>7, <2>1 DEF ClockGoesBack, PackType, RestType, pack
<1>8. CASE PowersOn
  <2>1. NoHistory \in HistoryType /\ NoStatus \in StatusType
    BY NoneYet
  <2> QED
    BY <1>8, <2>1, Charges DEF PowersOn, PackType, RestType
<1>9. CASE ChargedUnseen
  BY <1>0, <1>9, Charges DEF ChargedUnseen, PackType, RestType
<1>10. CASE UNCHANGED vars
  BY <1>10 DEF vars, PackType, RestType
<1>11. QED
  BY <1>1, <1>2, <1>3, <1>4, <1>5, <1>6, <1>7, <1>8, <1>9, <1>10 DEF Next

LEMMA TypeInit == Init => TypeOK
<1> SUFFICES ASSUME Init PROVE TypeOK
  OBVIOUS
<1>1. NoHistory \in HistoryType /\ NoStatus \in StatusType
  BY NoneYet
<1>2. PackType
  BY Charges DEF Init, PackType
<1>3. RestType
  BY <1>1 DEF Init, RestType
<1>4. QED
  BY <1>2, <1>3, TypeParts

\* DashboardPower::assess(): whatever is read and whenever, the discharge rate it keeps is below the largest
\* plausible one, the samples stay in their byte, and the verdict is about a percentage.
THEOREM HistoryInRange == Spec => []TypeOK
  BY TypeInit, TypeStep, PTL DEF Spec

-----------------------------------------------------------------------------
(* How far a prediction is from the truth, when readings are exact.        *)

\* A reading is off by less than the percent it is rounded down to.
Exact == Noise \subseteq {0}

LEMMA DivisionBound ==
    ASSUME NEW a \in Int, NEW b \in Nat \ {0}, NEW q \in Int, q * b <= a
    PROVE  q <= a \div b
<1> DEFINE d == a \div b
           r == a % b
<1>1. d \in Int /\ r \in Int /\ a = b * d + r /\ r < b
  OBVIOUS
<1> HIDE DEF d, r
<1>2. SUFFICES ASSUME d <= q - 1 PROVE FALSE
  BY <1>1 DEF d
<1>3. b * d <= b * (q - 1)
  BY <1>1, <1>2
<1>4. b * (q - 1) = q * b - b
  OBVIOUS
<1>5. QED
  BY <1>1, <1>3, <1>4

\* The mean of two rates is not below both.
LEMMA SmoothedBound ==
    ASSUME NEW q \in Int, NEW old \in Rates, NEW new \in Int, old > 0 => q <= old, q <= new
    PROVE  q <= Smoothed(old, new)
<1>1. CASE old > 0
  <2>1. q * 10 <= old * 6 + new * 4
    BY <1>1 DEF Rates
  <2>2. q <= (old * 6 + new * 4) \div 10
    BY <2>1 DEF Rates
  <2> QED
    BY <1>1, <2>2 DEF Smoothed
<1>2. QED
  BY <1>1 DEF Smoothed

\* A reading below the baseline is of a pack that lost at least what a baseline rounded up would have lost.
Measures(h, c, d) == d * h.age + c < (h.pct + 1) * Percent

LEMMA Monotone == ASSUME NEW a \in Int, NEW b \in Int, a <= b, NEW k \in Nat PROVE k * a <= k * b
  OBVIOUS

\* The drop of a percent or more, over the time it took, shows half of the rate or more.
LEMMA DropShowsHalf ==
    ASSUME NEW n \in Nat \ {0}, NEW age \in Nat \ {0}, NEW d \in Nat, d * age < (n + 1) * 100
    PROVE  500 * d <= (n * 100 * 1000) \div age
<1>1. 500 * (d * age) <= 500 * (200 * n)
  <2>1. d * age \in Int /\ d * age <= 200 * n
    OBVIOUS
  <2> HIDE <2>1
  <2> QED
    BY <2>1
<1>2. (500 * d) * age = 500 * (d * age) /\ n * 100 * 1000 = 500 * (200 * n)
  OBVIOUS
<1>3. (500 * d) * age <= n * 100 * 1000
  BY <1>1, <1>2
<1>4. QED
  BY <1>3, DivisionBound

\* What is learned from an exact reading is not below a rate every drop shows.
LEMMA LearnedRate ==
    ASSUME NEW h \in HistoryType, NEW p \in Percents, NEW q \in Int, h.rate > 0 => q <= h.rate,
           h.age > 0 /\ p < h.pct => q <= Rate(h, p)
    PROVE  Learned(h, p, usb).rate > 0 => q <= Learned(h, p, usb).rate
<1> DEFINE r == Rate(h, p)
           more == IF h.samples < 255 THEN h.samples + 1 ELSE h.samples
<1>1. h.rate \in Rates /\ h.age \in Int /\ h.pct \in Int /\ p \in Int
  BY Fields DEF Ages, Percents
<1>2. \A g : g \in HistoryType => Baseline(g, p).rate = g.rate
  BY DEF Baseline, HistoryType, Histories
<1>3. CASE usb
  <2>1. Learned(h, p, usb).rate = 0
    BY <1>3 DEF Learned, HistoryType, Histories
  <2> QED
    BY <2>1
<1>4. CASE ~usb /\ ~NeedsBaseline(h, p) /\ clockSet /\ p < h.pct /\ h.age >= MinDelta
  <2>1. Learned(h, p, usb) = Drops(h, p) /\ h.age > 0 /\ q <= r
    BY <1>1, <1>4 DEF Learned, NeedsBaseline
  <2>2. r \in Int
    <3>1. (h.pct - p) * Hour * 1000 \in Int
      BY <1>1 DEF Hour
    <3> DEFINE dividend == (h.pct - p) * Hour * 1000
               age == h.age
    <3>2. dividend \in Int /\ age \in Int /\ age > 0
      BY <1>1, <2>1, <3>1
    <3> HIDE DEF dividend, age
    <3>3. dividend \div age \in Int
      BY <3>2
    <3> QED
      BY <3>3 DEF Rate, dividend, age
  <2>3. CASE ~Plausible(r)
    BY <1>2, <2>1, <2>3 DEF Drops
  <2>4. CASE Plausible(r)
    <3> DEFINE smooth == Smoothed(h.rate, r)
               g == [h EXCEPT !.rate = smooth, !.samples = more]
    <3>1. smooth \in Rates /\ q <= smooth
      <4> HIDE DEF r
      <4> QED
        BY <1>1, <2>1, <2>2, <2>4, SmoothedRange, SmoothedBound
    <3>2. more \in Bytes
      BY Fields DEF Bytes
    <3>3. g \in HistoryType /\ g.rate = smooth
      <4> HIDE DEF smooth, more
      <4> QED
        BY <3>1, <3>2, OtherRate DEF HistoryType, Histories
    <3>4. Drops(h, p) = Baseline(g, p)
      BY <2>4 DEF Drops, HistoryType, Histories
    <3> HIDE DEF g, smooth
    <3> QED
      BY <1>2, <2>1, <3>1, <3>3, <3>4
  <2> QED
    BY <2>3, <2>4
<1>5. CASE ~usb /\ ~(~NeedsBaseline(h, p) /\ clockSet /\ p < h.pct /\ h.age >= MinDelta)
  <2>1. Learned(h, p, usb) \in {h, Baseline(h, p)}
    BY <1>5 DEF Learned
  <2> QED
    BY <1>2, <2>1
<1>6. QED
  BY <1>3, <1>4, <1>5

\* A new baseline is that of the reading; otherwise the old one stays, or none is left.
LEMMA LearnedBaseline ==
    ASSUME NEW h \in HistoryType, NEW p \in Percents
    PROVE  LET g == Learned(h, p, usb) IN
           \/ g = h /\ ~usb
           \/ g.have /\ g.age = 0 /\ g.pct = p /\ ~usb
           \/ ~g.have /\ g.rate = 0 /\ usb
<1> DEFINE g == Learned(h, p, usb)
<1>1. \A k \in HistoryType : Baseline(k, p).have /\ Baseline(k, p).age = 0 /\ Baseline(k, p).pct = p
  BY DEF Baseline, HistoryType, Histories
<1>2. CASE usb
  <2>1. g.have = FALSE /\ g.rate = 0
    BY <1>2 DEF Learned, HistoryType, Histories
  <2> QED
    BY <1>2, <2>1
<1>3. CASE ~usb /\ g \in {h, Baseline(h, p)}
  BY <1>1, <1>3
<1>4. CASE ~usb /\ g = Drops(h, p) /\ h.age > 0
  <2> DEFINE r == Rate(h, p)
             more == IF h.samples < 255 THEN h.samples + 1 ELSE h.samples
             k == [h EXCEPT !.rate = Smoothed(h.rate, r), !.samples = more]
  <2>1. Drops(h, p) \in {Baseline(k, p), Baseline(h, p)}
    BY DEF Drops, HistoryType, Histories
  <2>2. Baseline(k, p).have /\ Baseline(k, p).age = 0 /\ Baseline(k, p).pct = p
    BY DEF Baseline, HistoryType, Histories
  <2> HIDE DEF k, g
  <2> QED
    BY <1>1, <1>4, <2>1, <2>2 DEF g
<1>5. ~usb => g \in {h, Baseline(h, p)} \/ (g = Drops(h, p) /\ h.age > 0)
  BY Fields DEF Learned, NeedsBaseline, Ages
<1> HIDE DEF g
<1>6. QED
  BY <1>2, <1>3, <1>4, <1>5 DEF g

\* An exact reading.
LEMMA ExactReading ==
    ASSUME charge \in 0..100 * Percent
    PROVE  Reading(0) \in Percents /\ Reading(0) * 100 <= charge /\ charge < (Reading(0) + 1) * 100
  BY DEF Reading, Percents, Percent

LEMMA SleepFacts ==
    ASSUME interval \in Nat
    PROVE  LongestSleep \in Nat /\ AdjustInterval \in Nat /\ interval <= AdjustInterval /\ AdjustInterval <= LongestSleep
  BY DEF LongestSleep, AdjustInterval, LowMinInterval, Hour

\* What a prediction that does not pause the dashboard says.
LEMMA VerdictFacts ==
    ASSUME interval \in Nat, NEW h \in HistoryType, NEW p \in Percents, NEW charging \in BOOLEAN,
           Predicted(h, charging), Level(h, p, charging) # "Critical"
    PROVE  ~charging /\ p >= 8 /\ h.rate > 0 /\ LongestSleep * 3 * h.rate <= p * 200000
<1>1. ~charging /\ h.rate > 0 /\ ~(p <= CRITICAL_PCT) /\ ~WontSurvive(h, p, charging)
  BY DEF Predicted, Level
<1>2. LongestSleep * 3 * h.rate \in Int /\ p * 1000 * Hour * 2 = p * 200000
  BY SleepFacts, Fields DEF Rates, Percents, Hour
<1>3. ~(p * 1000 * Hour * 2 < LongestSleep * 3 * h.rate)
  BY <1>1 DEF WontSurvive, Predicted
<1>4. LongestSleep * 3 * h.rate <= p * 200000
  <2> DEFINE x == LongestSleep * 3 * h.rate
             y == p * 200000
  <2>1. x \in Int /\ y \in Int /\ ~(y < x)
    BY <1>2, <1>3 DEF Percents
  <2> HIDE DEF x, y
  <2>2. x <= y
    BY <2>1
  <2> QED
    BY <2>2 DEF x, y
<1>5. QED
  BY <1>1, <1>4 DEF CRITICAL_PCT, Percents

\* Three rates of a sleep.
LEMMA ThreeSleeps ==
    ASSUME NEW l \in Nat, NEW rate \in Int, NEW q \in Int, q <= rate
    PROVE  l * (3 * q) <= l * 3 * rate
<1>1. l * (3 * q) <= l * (3 * rate)
  BY Monotone
<1>2. l * (3 * rate) = l * 3 * rate
  OBVIOUS
<1>3. QED
  BY <1>1, <1>2

LEMMA HalfIsNear ==
    ASSUME NEW l \in Nat, NEW d \in Nat, NEW rate \in Int, NEW p \in Nat, NEW c \in Nat,
           500 * d <= rate, l * 3 * rate <= p * 200000, p * 100 <= c
    PROVE  3 * d * l <= 4 * c
<1> DEFINE x == d * l
           y == l * 3 * rate
<1>1. l * (3 * (500 * d)) <= y
  <2>1. 500 * d \in Int
    OBVIOUS
  <2> QED
    BY <2>1, ThreeSleeps
<1>2. l * (3 * (500 * d)) = 1500 * x /\ x \in Int /\ y \in Int /\ 3 * d * l = 3 * x
  OBVIOUS
<1> HIDE DEF x, y
<1>3. 3 * x <= 4 * c
  BY <1>1, <1>2 DEF y
<1>4. QED
  BY <1>2, <1>3

-----------------------------------------------------------------------------
(* The invariant: what the history says  of the pack, wherever the phase   *)
(* of the whole percents and whatever the charger and the clock do.        *)

Runs == pc \in {"wake", "assessed"}

\* A pack charged between two polls, which the next one tells from noise.
Risen == pc = "wake" /\ history.pct + RiseNoise < charge \div Percent

\* The baseline was read off a pack that lost at least what this one lost since, unless the next poll replaces it,
\* and the rate is half of what the pack loses or more; after a charge that a poll saw there is none.
HistoryIsOfPack ==
    /\ Runs /\ history.have /\ history.age >= 0 => Risen \/ Measures(history, charge, drain)
    /\ history.have => clockSet
    /\ Runs /\ history.rate > 0 => 500 * drain <= history.rate
    /\ ~history.have => history.rate = 0
    /\ pc = "assessed" /\ usb => ~history.have /\ ~status.predicted

NearInv == PackType /\ RestType /\ HistoryIsOfPack /\ PredictionIsNear /\ NoUnannouncedDeath

\* The step of assess(): the reading is exact.
LEMMA AssessFacts ==
    ASSUME PackType, RestType, Exact, Assess
    PROVE  \E p \in Percents :
              /\ p * 100 <= charge /\ charge < (p + 1) * 100
              /\ history' = Learned(history, p, usb) /\ history' \in HistoryType
              /\ status' = [pct |-> p, predicted |-> Predicted(history', usb), level |-> Level(history', p, usb)]
              /\ pc = "wake" /\ pc' = "assessed" /\ UNCHANGED <<charge, drain, interval, usb>>
<1>1. PICK n \in {0} \cup Noise :
          /\ history' = Learned(history, Reading(n), usb)
          /\ status' = [pct |-> Reading(n), predicted |-> Predicted(history', usb),
                        level |-> Level(history', Reading(n), usb)]
  BY DEF Assess
<1>2. n = 0
  BY DEF Exact
<1>3. Reading(0) \in Percents /\ Reading(0) * 100 <= charge /\ charge < (Reading(0) + 1) * 100
  BY ExactReading DEF PackType
<1>4. history' \in HistoryType
  BY <1>1, <1>2, <1>3, LearnedType DEF PackType, RestType
<1>5. pc = "wake" /\ pc' = "assessed" /\ UNCHANGED <<charge, drain, interval, usb>>
  BY DEF Assess, pack
<1>6. QED
  BY <1>1, <1>2, <1>3, <1>4, <1>5

LEMMA Numbers ==
    ASSUME PackType, RestType
    PROVE  /\ charge \in Nat /\ drain \in Nat \ {0} /\ interval \in Nat \ {0}
           /\ history \in HistoryType /\ history.age \in Int /\ history.pct \in Nat /\ history.rate \in Nat
           /\ LongestSleep \in Nat \ {0} /\ drain * LongestSleep \in Nat
<1>1. charge \in Nat /\ drain \in Nat \ {0} /\ interval \in Nat \ {0} /\ history \in HistoryType
  BY Ranges DEF PackType, RestType
<1>2. LongestSleep \in Nat \ {0}
  BY <1>1 DEF LongestSleep, LowMinInterval, Hour
<1>3. drain * LongestSleep \in Nat
  BY <1>1, <1>2
<1>4. QED
  BY <1>1, <1>2, <1>3, Fields DEF Ages, Percents, Rates

\* A new rate is one that the drop shows.
LEMMA AssessRate ==
    ASSUME PackType, RestType, NEW p \in Percents, p * 100 <= charge, history.have /\ history.age >= 0 => Measures(history, charge, drain),
           history.age > 0, history.have, p < history.pct
    PROVE  500 * drain <= Rate(history, p)
<1> DEFINE n == history.pct - p
           age == history.age
<1>1. n \in Nat \ {0} /\ age \in Nat \ {0} /\ drain \in Nat \ {0} /\ charge \in Nat /\ p \in Nat
  BY Numbers DEF Percents
<1>2. drain * age < (n + 1) * 100
  <2> DEFINE x == drain * age
  <2>1. x \in Nat
    BY <1>1
  <2>2. x + charge < (history.pct + 1) * 100
    <3>1. Measures(history, charge, drain)
      BY <1>1
    <3> QED
      BY <3>1 DEF Measures, Percent
  <2> HIDE DEF x
  <2>3. x < (n + 1) * 100
    BY <1>1, <2>1, <2>2, Numbers
  <2> QED
    BY <2>3 DEF x
<1>3. Rate(history, p) = (n * 100 * 1000) \div age
  BY DEF Rate, Hour
<1> HIDE DEF n, age
<1>4. 500 * drain <= (n * 100 * 1000) \div age
  BY <1>1, <1>2, DropShowsHalf
<1>5. QED
  BY <1>3, <1>4

LEMMA AssessNear == ASSUME NearInv, Exact, Assess PROVE HistoryIsOfPack' /\ PredictionIsNear' /\ NoUnannouncedDeath'
<1>1. PICK p \in Percents :
          /\ p * 100 <= charge /\ charge < (p + 1) * 100
          /\ history' = Learned(history, p, usb) /\ history' \in HistoryType
          /\ status' = [pct |-> p, predicted |-> Predicted(history', usb), level |-> Level(history', p, usb)]
          /\ pc = "wake" /\ pc' = "assessed" /\ UNCHANGED <<charge, drain, interval, usb>>
  BY AssessFacts DEF NearInv
<1>2. /\ charge \in Nat /\ drain \in Nat \ {0} /\ interval \in Nat /\ history \in HistoryType
      /\ history'.age \in Int /\ history'.rate \in Nat /\ usb \in BOOLEAN /\ LongestSleep \in Nat
      /\ p \in Nat
  BY <1>1, Numbers, Fields DEF NearInv, PackType, Ages, Rates, Percents
<1>3. \/ history' = history /\ ~usb
      \/ history'.have /\ history'.age = 0 /\ history'.pct = p /\ ~usb
      \/ ~history'.have /\ history'.rate = 0 /\ usb
  BY <1>1, <1>2, LearnedBaseline
<1>31. Risen => history.pct + RiseNoise < p
  <2>1. charge \div Percent <= p
    BY <1>1, <1>2 DEF Percent
  <2>2. charge \div Percent \in Int
    BY <1>2, Ranges
  <2> QED
    BY <1>2, <2>1, <2>2, Numbers DEF Risen, RiseNoise, NearInv
<1>32. Risen /\ history.have /\ ~usb => history'.age = 0 /\ history'.pct = p
  <2>1. SUFFICES ASSUME Risen, history.have, ~usb PROVE history' = Baseline(history, p)
    BY <1>2 DEF Baseline, HistoryType, Histories
  <2>2. clockSet /\ NeedsBaseline(history, p)
    BY <1>1, <1>2, <1>31, <2>1, Numbers DEF NearInv, HistoryIsOfPack, NeedsBaseline, RiseNoise
  <2> QED
    BY <1>1, <2>1, <2>2 DEF Learned
<1>4. Measures(history', charge, drain) \/ ~history'.have \/ history'.age < 0
  <2>1. CASE history' = history /\ ~Risen
    <3>1. history.have /\ history.age >= 0 => Measures(history, charge, drain)
      BY <1>1, <2>1 DEF NearInv, HistoryIsOfPack, Runs
    <3> HIDE DEF Measures
    <3> QED
      BY <1>2, <2>1, <3>1
  <2>2. CASE history'.age = 0 /\ history'.pct = p
    <3>1. drain * 0 = 0
      BY <1>2
    <3> QED
      BY <1>1, <1>2, <2>2, <3>1 DEF Measures, Percent
  <2> QED
    BY <1>3, <1>32, <2>1, <2>2
<1>5. history'.rate > 0 => 500 * drain <= history'.rate
  <2>1. ~history.have => (history'.rate > 0 => 500 * drain <= history'.rate)
    <3>1. ASSUME ~history.have PROVE history'.rate = 0
      <4>1. history.rate = 0
        BY <3>1 DEF NearInv, HistoryIsOfPack
      <4>2. history' \in {[history EXCEPT !.rate = 0, !.have = FALSE, !.samples = 0], history, Baseline(history, p)}
        BY <1>1, <3>1 DEF Learned, NeedsBaseline
      <4> QED
        BY <1>2, <4>1, <4>2 DEF Baseline, HistoryType, Histories
    <3> QED
      BY <3>1
  <2>2. ASSUME history.have PROVE history'.rate > 0 => 500 * drain <= history'.rate
    <3>1. history.rate > 0 => 500 * drain <= history.rate
      BY <1>1 DEF NearInv, HistoryIsOfPack, Runs
    <3>2. ASSUME history.age > 0, p < history.pct PROVE 500 * drain <= Rate(history, p)
      <4>1. ~Risen
        BY <1>1, <1>2, <1>31, <3>2, Numbers DEF NearInv, RiseNoise
      <4>2. history.have /\ history.age >= 0 => Measures(history, charge, drain)
        BY <1>1, <4>1 DEF NearInv, HistoryIsOfPack, Runs
      <4> QED
        BY <1>1, <2>2, <3>2, <4>2, AssessRate DEF NearInv
    <3>3. 500 * drain \in Int
      BY <1>2
    <3> QED
      BY <1>1, <1>2, <3>1, <3>2, <3>3, LearnedRate
  <2> QED
    BY <2>1, <2>2
<1>6. usb => ~history'.have /\ ~status'.predicted
  BY <1>1, <1>3, <1>4 DEF Predicted
<1>7. ~history'.have => history'.rate = 0
  BY <1>3 DEF NearInv, HistoryIsOfPack
<1>71. history'.have => clockSet'
  <2>1. history' \in {[history EXCEPT !.rate = 0, !.have = FALSE, !.samples = 0], history} \/ clockSet
    BY <1>1 DEF Learned
  <2>2. clockSet' = clockSet
    BY DEF Assess
  <2> QED
    BY <1>2, <2>1, <2>2 DEF NearInv, HistoryIsOfPack, HistoryType, Histories
<1>8. HistoryIsOfPack'
  BY <1>1, <1>2, <1>4, <1>5, <1>6, <1>7, <1>71 DEF HistoryIsOfPack, Runs, Measures
<1>9. PredictionIsNear'
  <2> SUFFICES ASSUME Predicted(history', usb), Level(history', p, usb) # "Critical"
               PROVE  3 * drain * LongestSleep <= 4 * charge
    BY <1>1 DEF PredictionIsNear, LongestSleep
  <2>1. history'.rate > 0 /\ LongestSleep * 3 * history'.rate <= p * 200000
    BY <1>1, <1>2, VerdictFacts
  <2>2. 500 * drain <= history'.rate
    BY <1>5, <2>1
  <2> QED
    BY <1>1, <1>2, <2>1, <2>2, HalfIsNear
<1>10. NoUnannouncedDeath'
  BY <1>1 DEF NoUnannouncedDeath
<1>11. QED
  BY <1>8, <1>9, <1>10

\* The step of a sleep: the pack loses what it takes, and the baseline is older by no more than it lasted.
LEMMA SleepStep ==
    ASSUME PackType, RestType, NEW t \in Nat, Sleeps(t)
    PROVE  /\ pc = "assessed" /\ status.level # "Critical" /\ pc' \in {"wake", "dead"}
           /\ UNCHANGED <<drain, interval, usb, status>>
           /\ history'.have = history.have /\ history'.pct = history.pct /\ history'.rate = history.rate
           /\ history'.age \in Int
           /\ history'.age >= 0 => history.age >= 0 /\ history'.age <= history.age + t
           /\ ~usb /\ charge > drain * t => charge' = charge - drain * t /\ pc' = "wake"
           /\ ~usb /\ pc' = "wake" => charge > drain * t
<1> DEFINE age == IF history.age < 0 THEN history.age
                  ELSE IF history.age + t > MaxAge THEN MaxAge ELSE history.age + t
<1>1. history.age \in Int /\ history.age >= -1 /\ history \in HistoryType
  BY Numbers, Fields DEF Ages
<1>2. history' = [history EXCEPT !.age = age]
  BY DEF Sleeps, Aged
<1>3. history'.have = history.have /\ history'.pct = history.pct /\ history'.rate = history.rate /\ history'.age = age
  <2> HIDE DEF age
  <2> QED
    BY <1>1, <1>2 DEF HistoryType, Histories
<1>4. age \in Int /\ (age >= 0 => history.age >= 0 /\ age <= history.age + t)
  BY <1>1
<1>5. pc = "assessed" /\ status.level # "Critical" /\ pc' \in {"wake", "dead"} /\ UNCHANGED <<drain, interval, usb, status>>
  BY DEF Sleeps
<1> DEFINE loss == drain * t
<1>6. charge \in Nat /\ loss \in Nat
  BY Numbers
<1>7. ~usb => charge' = IF charge > loss THEN charge - loss ELSE 0
  BY DEF Sleeps
<1>8. pc' = IF charge' = 0 THEN "dead" ELSE "wake"
  BY DEF Sleeps
<1> HIDE DEF loss, age
<1>9. /\ ~usb /\ charge > loss => charge' = charge - loss /\ pc' = "wake"
      /\ ~usb /\ pc' = "wake" => charge > loss
  BY <1>6, <1>7, <1>8
<1>10. QED
  BY <1>3, <1>4, <1>5, <1>9 DEF loss

\* The distance covered by a longer sleep.
LEMMA LossGrows ==
    ASSUME NEW d \in Nat, NEW a \in Nat, NEW b \in Int, NEW t \in Nat, b >= 0, b <= a + t
    PROVE  d * b <= d * a + d * t
<1>1. d * b <= d * (a + t)
  BY Monotone
<1>2. d * (a + t) = d * a + d * t
  OBVIOUS
<1>3. QED
  BY <1>1, <1>2

\* Three quarters of the longest sleep are more than a sleep of less than an hour and a half.
LEMMA ShortSleepLasts ==
    ASSUME NEW d \in Nat \ {0}, NEW t \in Nat, 2 * t < 300, NEW l \in Nat, l >= 200, NEW c \in Nat, 3 * d * l <= 4 * c
    PROVE  c > d * t
<1>1. d * (4 * t + 1) <= d * (3 * l)
  BY Monotone
<1>2. d * (4 * t + 1) = 4 * (d * t) + d /\ d * (3 * l) = 3 * d * l /\ d * t \in Int /\ d * l \in Int /\ 3 * d * l \in Int
  OBVIOUS
<1> DEFINE x == d * t
           y == 3 * d * l
           z == d * (4 * t + 1)
<1>3. z <= y /\ z = 4 * x + d /\ x \in Int /\ y \in Int /\ y <= 4 * c
  BY <1>1, <1>2
<1> HIDE DEF x, y, z
<1>4. c > x
  BY <1>3
<1>5. QED
  BY <1>4 DEF x

LEMMA SleepsNear ==
    ASSUME NearInv, NEW t \in Nat, Sleeps(t), t <= AdjustInterval
    PROVE  HistoryIsOfPack' /\ PredictionIsNear' /\ NoUnannouncedDeath'
<1>1. PackType /\ RestType
  BY DEF NearInv
<1>2. /\ pc = "assessed" /\ pc' \in {"wake", "dead"} /\ UNCHANGED <<drain, interval, usb, status>>
      /\ history'.have = history.have /\ history'.pct = history.pct /\ history'.rate = history.rate
      /\ history'.age \in Int
      /\ history'.age >= 0 => history.age >= 0 /\ history'.age <= history.age + t
      /\ ~usb /\ charge > drain * t => charge' = charge - drain * t /\ pc' = "wake"
      /\ ~usb /\ pc' = "wake" => charge > drain * t
  BY <1>1, SleepStep
<1>3. charge \in Nat /\ drain \in Nat /\ history.age \in Int /\ history.pct \in Nat
  BY <1>1, Numbers
<1>4. ASSUME Runs', history'.have, history'.age >= 0 PROVE Measures(history', charge', drain')
  <2>1. pc' = "wake" /\ ~usb
    BY <1>2, <1>4 DEF NearInv, HistoryIsOfPack, Runs
  <2>2. Measures(history, charge, drain)
    BY <1>2, <1>4 DEF NearInv, HistoryIsOfPack, Runs, Risen
  <2>3. charge' = charge - drain * t
    BY <1>2, <2>1
  <2>4. drain * history'.age <= drain * history.age + drain * t
    BY <1>2, <1>3, <1>4, LossGrows
  <2> DEFINE x == drain * history.age
             y == drain * history'.age
             z == drain * t
  <2>5. x \in Int /\ y \in Int /\ z \in Int /\ y <= x + z /\ charge' = charge - z
    BY <1>2, <1>3, <2>3, <2>4
  <2>6. x + charge < (history.pct + 1) * 100
    BY <2>2 DEF Measures, Percent
  <2> HIDE DEF x, y, z
  <2>7. y + charge' < (history.pct + 1) * 100
    BY <1>3, <2>5, <2>6
  <2> QED
    BY <1>2, <2>7 DEF Measures, Percent, y
<1>5. history'.rate > 0 => 500 * drain' <= history'.rate
  BY <1>2 DEF NearInv, HistoryIsOfPack, Runs
<1>6. ~history'.have => history'.rate = 0
  BY <1>2 DEF NearInv, HistoryIsOfPack
<1>7. pc' # "assessed"
  BY <1>2
<1>71. history'.have => clockSet'
  <2>1. history.have => clockSet
    BY DEF NearInv, HistoryIsOfPack
  <2>2. clockSet => clockSet'
    BY DEF Sleeps
  <2> QED
    BY <1>2, <2>1, <2>2
<1>8. HistoryIsOfPack'
  <2> HIDE DEF Measures
  <2> QED
    BY <1>4, <1>5, <1>6, <1>7, <1>71 DEF HistoryIsOfPack
<1>9. ASSUME pc' = "dead", status'.predicted, status'.level # "Low", ~(2 * interval' >= 3 * Hour) PROVE FALSE
  <2>1. status.predicted /\ status.level \notin {"Low", "Critical"} /\ ~usb /\ interval \in Nat /\ 2 * interval < 300
    BY <1>1, <1>2, <1>9, Numbers DEF Sleeps, NearInv, HistoryIsOfPack, Hour
  <2>2. t <= interval
    BY <2>1 DEF AdjustInterval
  <2>3. LongestSleep \in Nat /\ LongestSleep >= 200 /\ drain \in Nat \ {0}
    BY <1>1, <2>1, Numbers DEF LongestSleep, LowMinInterval, Hour
  <2>4. 3 * drain * LongestSleep <= 4 * charge
    BY <1>2, <2>1 DEF NearInv, PredictionIsNear
  <2>5. charge > drain * t
    BY <1>3, <2>1, <2>2, <2>3, <2>4, ShortSleepLasts
  <2> QED
    BY <1>2, <1>9, <2>1, <2>5
<1>10. QED
  BY <1>7, <1>8, <1>9 DEF PredictionIsNear, NoUnannouncedDeath

\* The pauses, the charger and the clock.
LEMMA WorldNear ==
    ASSUME NearInv, PowersOff \/ PluggedIn \/ Unplugged \/ ChargedUnseen \/ ClockGoesBack \/ PowersOn \/ UNCHANGED vars
    PROVE  HistoryIsOfPack' /\ PredictionIsNear' /\ NoUnannouncedDeath'
<1>0. history \in HistoryType
  BY Numbers DEF NearInv
<1>1. CASE PowersOff
  <2>1. pc' = "off" /\ UNCHANGED <<history, clockSet>>
    BY <1>1 DEF PowersOff
  <2> QED
    BY <2>1 DEF NearInv, HistoryIsOfPack, PredictionIsNear, NoUnannouncedDeath, Runs
<1>2. CASE PluggedIn
  <2>1. pc = "wake" /\ pc' = "wake" /\ UNCHANGED <<charge, drain, clockSet, history>>
    BY <1>2 DEF PluggedIn
  <2>2. Risen' = Risen /\ Runs' = Runs
    BY <2>1 DEF Risen, Runs
  <2> QED
    BY <2>1, <2>2 DEF NearInv, HistoryIsOfPack, PredictionIsNear, NoUnannouncedDeath
<1>3. CASE Unplugged \/ PowersOn
  <2>1. pc' = "wake" /\ ~history'.have /\ history'.rate = 0
    BY <1>3 DEF Unplugged, PowersOn, NoHistory, NearInv, HistoryIsOfPack
  <2> QED
    BY <2>1 DEF HistoryIsOfPack, PredictionIsNear, NoUnannouncedDeath
<1>4. CASE ChargedUnseen
  <2>1. pc = "wake" /\ pc' = "wake" /\ UNCHANGED <<drain, clockSet, history>> /\ Risen'
    BY <1>4 DEF ChargedUnseen, Risen
  <2> QED
    BY <2>1 DEF NearInv, HistoryIsOfPack, PredictionIsNear, NoUnannouncedDeath, Runs
<1>5. CASE ClockGoesBack
  <2>1. history'.age = -1 /\ history'.have = history.have /\ history'.rate = history.rate
    BY <1>0, <1>5 DEF ClockGoesBack, HistoryType, Histories
  <2>2. pc' = "wake" /\ pc = "wake" /\ drain' = drain /\ clockSet' = clockSet /\ ~(history'.age >= 0)
    BY <1>5, <2>1 DEF ClockGoesBack, pack
  <2> QED
    BY <2>1, <2>2 DEF NearInv, HistoryIsOfPack, PredictionIsNear, NoUnannouncedDeath, Runs
<1>6. CASE UNCHANGED vars
  <2>1. UNCHANGED <<pc, charge, drain, interval, usb, clockSet, history, status>>
    BY <1>6 DEF vars
  <2>2. HistoryIsOfPack' = HistoryIsOfPack
    BY <2>1 DEF HistoryIsOfPack, Runs, Risen, Measures
  <2>3. PredictionIsNear' = PredictionIsNear /\ NoUnannouncedDeath' = NoUnannouncedDeath
    BY <2>1 DEF PredictionIsNear, NoUnannouncedDeath, LongestSleep
  <2> QED
    BY <2>2, <2>3 DEF NearInv
<1>7. QED
  BY <1>1, <1>2, <1>3, <1>4, <1>5, <1>6

LEMMA NearStep == ASSUME NearInv, Exact, [Next]_vars PROVE NearInv'
<1>1. TypeOK'
  <2>1. TypeOK
    BY TypeParts DEF NearInv
  <2> QED
    BY <2>1, TypeStep
<1>2. TypeOK' <=> PackType' /\ RestType'
  BY TypeParts, PTL
<1>3. HistoryIsOfPack' /\ PredictionIsNear' /\ NoUnannouncedDeath'
  <2>1. CASE Assess
    BY <2>1, AssessNear
  <2>2. AdjustInterval \in Nat /\ AdjustInterval <= AdjustInterval
    BY Numbers, SleepFacts DEF NearInv
  <2>3. CASE SleepsThrough
    BY <2>2, <2>3, SleepsNear DEF SleepsThrough
  <2>4. CASE IsWokenEarly
    <3>1. PICK t \in Nat : t <= AdjustInterval /\ Sleeps(t)
      BY <2>2, <2>4 DEF IsWokenEarly
    <3> QED
      BY <3>1, SleepsNear
  <2>5. CASE PowersOff \/ PluggedIn \/ Unplugged \/ ChargedUnseen \/ ClockGoesBack \/ PowersOn \/ UNCHANGED vars
    BY <2>5, WorldNear
  <2> QED
    BY <2>1, <2>3, <2>4, <2>5 DEF Next
<1>4. QED
  BY <1>1, <1>2, <1>3 DEF NearInv

LEMMA NearInit == Init => NearInv
<1> SUFFICES ASSUME Init PROVE NearInv
  OBVIOUS
<1>1. PackType /\ RestType
  BY TypeInit, TypeParts
<1>2. pc = "wake" /\ ~history.have /\ history.rate = 0
  BY DEF Init, NoHistory
<1>3. QED
  BY <1>1, <1>2 DEF NearInv, HistoryIsOfPack, PredictionIsNear, NoUnannouncedDeath

\* DashboardPower::assess(): when readings are exact to the percent they are rounded down to, a dashboard that is
\* predicted and not paused has three quarters of what the longest sleep takes, for packs of any charge and rate of
\* discharge, any intervals, however often it is polled in between, charged seen or unseen, or its clock set back.
THEOREM PredictionsAreNear == ASSUME Exact PROVE Spec => []PredictionIsNear
<1>1. Init => NearInv
  BY NearInit
<1>2. NearInv /\ [Next]_vars => NearInv'
  BY NearStep
<1>3. NearInv => PredictionIsNear
  BY DEF NearInv
<1>4. QED
  BY <1>1, <1>2, <1>3, PTL DEF Spec

\* goToSleepAndPoll(): with such readings, a dashboard that was predicted, shows no warning and polls more often than
\* every hour and a half is never found dead, for any packs, early polls, charges and steps of the clock.
THEOREM WarnedBeforeDeath == ASSUME Exact PROVE Spec => []NoUnannouncedDeath
<1>1. Init => NearInv
  BY NearInit
<1>2. NearInv /\ [Next]_vars => NearInv'
  BY NearStep
<1>3. NearInv => NoUnannouncedDeath
  BY DEF NearInv
<1>4. QED
  BY <1>1, <1>2, <1>3, PTL DEF Spec
=============================================================================
