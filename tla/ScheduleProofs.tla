--------------------------- MODULE ScheduleProofs ---------------------------
(***************************************************************************)
(* That the refreshes which run by the clock stay apart, start once for    *)
(* each mark and replace each other in time, for any MaxRun and MaxLate    *)
(* that keep a refresh within its hour, over all restarts.                 *)
(***************************************************************************)
EXTENDS ScheduleSafety, TLAPS

Minute    == now % 60
DailyHour == now \div 60 \in {8, 20}
HalfDay   == 12 * 60

\* What a scheduler that sleeps, or runs, has to do with the clock: it sleeps to
\* a mark, or to a full hour, and a refresh that runs has started at most MaxLate
\* minutes after that.
DailyClock ==
    /\ pc["daily"] = "asleep" =>
         now + left["daily"] \in {Morning, Evening, Morning + Day} /\ left["daily"] <= HalfDay
    /\ Running("daily") => DailyHour /\ Minute - (MaxRun - left["daily"]) \in 0..MaxLate

HourlyClock ==
    /\ pc["hourly"] = "asleep" => (now + left["hourly"]) % 60 = 0 /\ left["hourly"] <= 60
    /\ pc["hourly"] = "nap" => DailyHour /\ Minute - (10 - left["hourly"]) \in 0..4
    /\ Running("hourly") => ~DailyHour /\ Minute - (MaxRun - left["hourly"]) \in 0..MaxLate

\* A scheduler that is late is at most MaxLate late, and a refresh ends in time.
InTime ==
    \A s \in Schedulers : /\ Sleeping(s) => left[s] >= -MaxLate
                          /\ Running(s) => left[s] \in 0..MaxRun

\* Both schedulers go down and come up together, and nothing is counted meanwhile.
Together ==
    /\ pc["daily"] = "down" <=> pc["hourly"] = "down"
    /\ ~Up => since = 0 /\ shelf = NoPromise

\* A mark is due from when it comes until the daily scheduler wakes for it.
DueIsAwaited ==
    pc["daily"] # "dead" => (due <=> pc["daily"] = "asleep" /\ left["daily"] <= 0)

Clock == ScheduleTypeOK /\ DailyClock /\ HourlyClock /\ InTime /\ Together /\ DueIsAwaited

-----------------------------------------------------------------------------
(* The arithmetic of a day in hours and minutes. *)

\* A minute of the day is an hour of the day and a minute of that hour.
LEMMA HourAndMinute ==
    ASSUME NEW t \in 0..(Day - 1)
    PROVE  /\ t \div 60 \in 0..23 /\ t % 60 \in 0..59
           /\ t = (60 * (t \div 60)) + (t % 60)
  BY DEF Day

\* An hour and a minute make one minute of the day.
LEMMA MinuteOfHour ==
    ASSUME NEW q \in Int, NEW r \in 0..59
    PROVE  ((60 * q) + r) % 60 = r /\ ((60 * q) + r) \div 60 = q
  OBVIOUS

\* The next minute is of the same hour, or the first of the next one.
LEMMA NextMinute ==
    ASSUME NEW t \in 0..(Day - 1), NEW u, u = (t + 1) % Day
    PROVE  /\ u \in 0..(Day - 1)
           /\ t < Day - 1 => u = t + 1
           /\ t = Day - 1 => u = 0
           /\ t % 60 < 59 => u % 60 = (t % 60) + 1 /\ u \div 60 = t \div 60
           /\ t % 60 = 59 => u % 60 = 0
  <1>1. CASE t = Day - 1
    BY <1>1 DEF Day
  <1>2. CASE t < Day - 1
    <2>1. u = t + 1 /\ u \in 0..(Day - 1)
      <3>1. \A x \in 0..1439 : x % 1440 = x
        OBVIOUS
      <3>2. t + 1 \in 0..1439
        BY <1>2 DEF Day
      <3> QED
        BY <3>1, <3>2, SMTT(30) DEF Day
    <2>2. PICK q \in 0..23, r \in 0..59 :
            t = (60 * q) + r /\ q = t \div 60 /\ r = t % 60
      BY HourAndMinute
    <2>3. CASE r < 59
      <3>1. r + 1 \in 0..59 /\ u = (60 * q) + (r + 1) /\ q \in Int
        BY <2>1, <2>2, <2>3
      <3>2. u % 60 = r + 1 /\ u \div 60 = q
        BY <3>1, MinuteOfHour, SMTT(30)
      <3> QED
        BY <1>2, <2>1, <2>2, <2>3, <3>2
    <2>4. CASE r = 59
      <3>1. q + 1 \in Int /\ 0 \in 0..59 /\ u = (60 * (q + 1)) + 0
        BY <2>1, <2>2, <2>4
      <3>2. u % 60 = 0
        BY <3>1, MinuteOfHour
      <3> QED
        BY <1>2, <2>1, <2>2, <2>4, <3>2
    <2> QED
      BY <2>2, <2>3, <2>4
  <1> QED
    BY <1>1, <1>2 DEF Day

\* A few minutes after a full hour.
LEMMA LateMinute ==
    ASSUME NEW t \in Int, NEW l \in (-9)..0, (t + l) % 60 = 0
    PROVE  t % 60 = -l
  <1>1. (t + l) \in Int
    OBVIOUS
  <1>2. \A e \in Int : e % 60 = 0 => e = 60 * (e \div 60) /\ e \div 60 \in Int
    OBVIOUS
  <1>3. PICK q \in Int : t + l = 60 * q
    BY <1>1, <1>2
  <1>4. \A k \in 0..9, p \in Int : ((60 * p) + k) % 60 = k
    OBVIOUS
  <1>5. -l \in 0..9 /\ t = (60 * q) + (-l)
    BY <1>3
  <1> QED
    BY <1>4, <1>5

\* In the last minute of an hour, one who sleeps to a full hour wakes in a minute.
LEMMA LastMinute ==
    ASSUME NEW t \in Int, NEW l \in (-9)..60, t % 60 = 59, (t + l) % 60 = 0
    PROVE  l = 1
  <1>1. \A e \in Int : /\ e \div 60 \in Int
                       /\ e % 60 = 0 => e = 60 * (e \div 60)
                       /\ e % 60 = 59 => e = (60 * (e \div 60)) + 59
    OBVIOUS
  <1>2. t + l \in Int
    OBVIOUS
  <1>3. PICK p \in Int : t = (60 * p) + 59
    BY <1>1
  <1>4. PICK q \in Int : t + l = 60 * q
    BY <1>1, <1>2
  <1> QED
    BY <1>3, <1>4

\* The hours 8 and 20 begin at the marks.
LEMMA OnTheHour ==
    ASSUME NEW t \in 0..(Day - 1), t % 60 = 0, t \notin {Morning, Evening}
    PROVE  t \div 60 \notin {8, 20}
  <1>1. t \in Int /\ t \div 60 \in Int
    BY DEF Day
  <1>2. t = 60 * (t \div 60)
    BY <1>1
  <1> QED
    BY <1>1, <1>2 DEF Morning, Evening

-----------------------------------------------------------------------------
(* Init => Clock *)

\* Every scheduler starts by looking for its next time.
LEMMA ClockInit == ASSUME ScheduleInit PROVE Clock
  <1> USE DEF ScheduleInit, Schedulers, Doing, Day
  <1>1. ScheduleTypeOK
    <2>1. pc \in [Schedulers -> Doing] /\ pc["daily"] # "nap"
      OBVIOUS
    <2>2. 0 \in (-MaxLate)..(24 * 60) /\ 0 \in 0..MaxSince /\ NoPromise \in NoPromise..(12 * 60)
      BY TimesAreMinutes DEF MaxSince, NoPromise
    <2>3. left \in [Schedulers -> (-MaxLate)..Day]
      BY <2>2
    <2> QED
      BY <2>1, <2>2, <2>3 DEF ScheduleTypeOK
  <1>2. DailyClock /\ HourlyClock /\ InTime /\ Together /\ DueIsAwaited
    BY DEF DailyClock, HourlyClock, InTime, Together, DueIsAwaited, Sleeping, Running, Up
  <1> QED
    BY <1>1, <1>2 DEF Clock

-----------------------------------------------------------------------------
(* Every step keeps Clock. *)

\* A minute passes.
LEMMA ClockTick == ASSUME Clock, Tick PROVE Clock'
  <1> USE TimesAreMinutes, RefreshesAreShort DEF Schedulers, Sleeping, Running
  <1>1. /\ now' \in 0..(Day - 1)
        /\ now < Day - 1 => now' = now + 1
        /\ now = Day - 1 => now' = 0
        /\ Minute < 59 => Minute' = Minute + 1 /\ (now \div 60)' = now \div 60
        /\ Minute = 59 => Minute' = 0
    BY NextMinute DEF Clock, ScheduleTypeOK, Tick, Minute
  <1>2. ScheduleTypeOK'
    <2>1. now' \in 0..(Day - 1)
      BY <1>1
    <2>2. left' \in [Schedulers -> (-MaxLate)..Day]
      BY DEF Clock, ScheduleTypeOK, Tick, Day
    <2>3. since' \in 0..MaxSince
      BY DEF Clock, ScheduleTypeOK, Tick, MaxSince
    <2>4. shelf' \in NoPromise..(12 * 60)
      BY DEF Clock, ScheduleTypeOK, Tick, NoPromise
    <2> QED
      BY <2>1, <2>2, <2>3, <2>4 DEF Clock, ScheduleTypeOK, Tick
  <1>3. DailyClock'
    BY <1>1
       DEF Clock, ScheduleTypeOK, DailyClock, InTime, Tick, Minute, DailyHour, Day, Morning,
       Evening, HalfDay
  <1>4. HourlyClock'
    <2>1. pc' = pc /\ left \in [Schedulers -> Int] /\ left["hourly"] \in Int
      BY DEF Clock, ScheduleTypeOK, Tick, Day
    <2>2. CASE pc["hourly"] = "asleep"
      <3>1. left'["hourly"] = left["hourly"] - 1 /\ now \in 0..(Day - 1)
        BY <2>1, <2>2 DEF Clock, ScheduleTypeOK, Tick
      <3>2. (now + left["hourly"]) % 60 = 0 /\ left["hourly"] <= 60
        BY <2>2 DEF Clock, HourlyClock
      <3> DEFINE t == now + left["hourly"]
      <3>3. t \in Int /\ t % 60 = 0 /\ (t - Day) % 60 = 0
        BY <2>1, <3>1, <3>2 DEF Day
      <3>4. now' + left'["hourly"] \in {t, t - Day}
        BY <1>1, <2>1, <3>1 DEF Day
      <3> HIDE DEF t
      <3>5. (now' + left'["hourly"]) % 60 = 0
        BY <3>3, <3>4
      <3> QED
        BY <2>1, <2>2, <3>1, <3>2, <3>5 DEF HourlyClock
    <2>3. CASE pc["hourly"] = "nap"
      <3>1. left'["hourly"] = left["hourly"] - 1 /\ left["hourly"] > -MaxLate
        BY <2>1, <2>3 DEF Tick
      <3>2. DailyHour /\ Minute - (10 - left["hourly"]) \in 0..4
        BY <2>3 DEF Clock, HourlyClock
      <3>3. now \in 0..(Day - 1) /\ Minute \in 0..59 /\ now # Day - 1
        BY <3>2 DEF Clock, ScheduleTypeOK, Minute, DailyHour, Day
      <3>4. Minute < 59
        BY <2>1, <3>1, <3>2, <3>3
      <3>5. Minute' = Minute + 1 /\ DailyHour'
        BY <1>1, <3>2, <3>4 DEF DailyHour
      <3> QED
        BY <2>1, <2>3, <3>1, <3>2, <3>3, <3>5 DEF HourlyClock
    <2>4. CASE pc["hourly"] = "running"
      <3>1. left'["hourly"] = left["hourly"] - 1 /\ left["hourly"] > 0
        BY <2>1, <2>4 DEF Tick
      <3>2. ~DailyHour /\ Minute - (MaxRun - left["hourly"]) \in 0..MaxLate
        BY <2>4 DEF Clock, HourlyClock
      <3>3. now \in 0..(Day - 1) /\ Minute \in 0..59
        BY DEF Clock, ScheduleTypeOK, Minute, Day
      <3>4. Minute < 59
        BY <2>1, <3>1, <3>2, <3>3
      <3>5. Minute' = Minute + 1 /\ ~DailyHour'
        BY <1>1, <3>2, <3>4 DEF DailyHour
      <3> QED
        BY <2>1, <2>4, <3>1, <3>2, <3>3, <3>5 DEF HourlyClock
    <2> QED
      BY <2>1, <2>2, <2>3, <2>4 DEF HourlyClock
  <1>5. InTime'
    BY DEF Clock, ScheduleTypeOK, InTime, Tick
  <1>6. Together'
    BY DEF Clock, Together, Tick, Up, NoPromise
  <1>7. DueIsAwaited'
    <2> SUFFICES ASSUME pc["daily"] # "dead"
                 PROVE  due' <=> pc["daily"] = "asleep" /\ left'["daily"] <= 0
      BY DEF DueIsAwaited, Tick
    <2>1. CASE pc["daily"] = "asleep"
      <3>1. Up /\ (due <=> left["daily"] <= 0) /\ left'["daily"] = left["daily"] - 1
        BY <2>1 DEF Clock, ScheduleTypeOK, Together, DueIsAwaited, Tick, Up
      <3>2. /\ now + left["daily"] \in {Morning, Evening, Morning + Day}
            /\ left["daily"] \in (-9)..HalfDay
        BY <2>1 DEF Clock, ScheduleTypeOK, DailyClock, InTime, HalfDay
      <3>3. left["daily"] > 0 => (now' \in {Morning, Evening} <=> left["daily"] = 1)
        BY <1>1, <3>2, SMTT(30) DEF Clock, ScheduleTypeOK, Day, Morning, Evening, HalfDay
      <3>4. due' <=> due \/ now' \in {Morning, Evening}
        BY <3>1 DEF Tick
      <3>5. left["daily"] \in Int
        BY <3>2 DEF HalfDay
      <3>6. CASE left["daily"] > 0
        BY <2>1, <3>1, <3>3, <3>4, <3>5, <3>6
      <3>7. CASE left["daily"] <= 0
        BY <2>1, <3>1, <3>4, <3>5, <3>7
      <3> QED
        BY <3>5, <3>6, <3>7
    <2>2. CASE pc["daily"] = "running"
      <3>1. Minute \in 0..58 /\ ~due
        BY <2>2 DEF Clock, ScheduleTypeOK, DailyClock, InTime, DueIsAwaited, Tick, Minute
      <3>2. Minute' > 0
        BY <1>1, <3>1
      <3>3. now' \notin {Morning, Evening}
        BY <3>2 DEF Minute, Morning, Evening
      <3> QED
        BY <2>2, <3>1, <3>3 DEF Tick
    <2>3. CASE pc["daily"] = "down"
      BY <2>3 DEF Clock, DueIsAwaited, Tick, Up
    <2> QED
      BY <2>1, <2>2, <2>3 DEF Clock, ScheduleTypeOK, Doing, Tick
  <1> QED
    BY <1>2, <1>3, <1>4, <1>5, <1>6, <1>7 DEF Clock

\* The daily scheduler reads the clock: the next mark is at most half a day away.
LEMMA ClockDailyPlan == ASSUME Clock, DailyPlan PROVE Clock'
  <1> USE TimesAreMinutes, RefreshesAreShort DEF Schedulers, Sleeping, Running, DailyPlan, GoTo, pastVars
  <1>1. /\ left'["daily"] \in 1..HalfDay
        /\ now + left'["daily"] \in {Morning, Evening, Morning + Day}
    BY DEF Clock, ScheduleTypeOK, Until, Day, Morning, Evening, HalfDay
  <1>2. pc'["daily"] = "asleep" /\ pc'["hourly"] = pc["hourly"] /\ left'["hourly"] = left["hourly"]
    BY DEF Clock, ScheduleTypeOK
  <1>3. ScheduleTypeOK'
    <2>1. left' \in [Schedulers -> (-MaxLate)..Day]
      BY <1>1, SMTT(30) DEF Clock, ScheduleTypeOK, Day, HalfDay
    <2>2. pc' \in [Schedulers -> Doing]
      BY DEF Clock, ScheduleTypeOK, Doing
    <2> QED
      BY <1>2, <2>1, <2>2 DEF Clock, ScheduleTypeOK
  <1>4. DailyClock'
    BY <1>1, <1>2 DEF DailyClock, HalfDay
  <1>5. HourlyClock'
    BY <1>2 DEF Clock, HourlyClock, Minute, DailyHour
  <1>6. InTime'
    BY <1>1, <1>2, SMTT(30) DEF Clock, InTime, HalfDay
  <1>7. Together'
    BY <1>2 DEF Clock, Together, Up
  <1>8. DueIsAwaited'
    BY <1>1, <1>2, SMTT(30) DEF Clock, DueIsAwaited, HalfDay
  <1> QED
    BY <1>3, <1>4, <1>5, <1>6, <1>7, <1>8 DEF Clock

\* A daily refresh starts in the minutes after 08:00 or 20:00.
LEMMA ClockDailyWake == ASSUME Clock, DailyWake PROVE Clock'
  <1> USE TimesAreMinutes, RefreshesAreShort
      DEF Schedulers, Sleeping, Running, DailyWake, StartRun, GoTo
  <1>1. pc["daily"] = "asleep" /\ left["daily"] \in (-MaxLate)..0
    BY DEF Clock, ScheduleTypeOK, InTime
  <1>2. /\ pc'["daily"] = "running" /\ left'["daily"] = MaxRun
        /\ pc'["hourly"] = pc["hourly"] /\ left'["hourly"] = left["hourly"]
    BY DEF Clock, ScheduleTypeOK
  <1>3. DailyHour /\ Minute \in 0..MaxLate
    <2>1. now + left["daily"] \in {Morning, Evening}
      BY <1>1 DEF Clock, ScheduleTypeOK, DailyClock, Day, Morning, Evening
    <2> QED
      BY <1>1, <2>1 DEF Clock, ScheduleTypeOK, Day, Morning, Evening, DailyHour, Minute
  <1>4. ScheduleTypeOK'
    BY DEF Clock, ScheduleTypeOK, Doing, Day, MaxSince
  <1>5. DailyClock'
    BY <1>2, <1>3 DEF DailyClock, DailyHour, Minute
  <1>6. HourlyClock'
    BY <1>2 DEF Clock, HourlyClock, Minute, DailyHour
  <1>7. InTime'
    BY <1>2 DEF Clock, InTime
  <1>8. Together'
    BY <1>1, <1>2 DEF Clock, Together, Up
  <1>9. DueIsAwaited'
    BY <1>2 DEF DueIsAwaited
  <1> QED
    BY <1>4, <1>5, <1>6, <1>7, <1>8, <1>9 DEF Clock

\* The hourly scheduler reads the clock: the next full hour is at most an hour away,
\* and in the first minutes of 8 and 20 it naps.
LEMMA ClockHourlyPlan == ASSUME Clock, HourlyPlan PROVE Clock'
  <1> USE TimesAreMinutes, RefreshesAreShort DEF Schedulers, Sleeping, Running, HourlyPlan, GoTo, pastVars
  <1>1. /\ pc'["hourly"] \in {"nap", "asleep"} /\ left'["hourly"] \in 1..60
        /\ pc'["daily"] = pc["daily"] /\ left'["daily"] = left["daily"]
    BY DEF Clock, ScheduleTypeOK
  <1>2. ScheduleTypeOK'
    BY <1>1 DEF Clock, ScheduleTypeOK, Doing, Day
  <1>3. DailyClock'
    BY <1>1 DEF Clock, DailyClock, Minute, DailyHour
  <1>4. HourlyClock'
    <2>1. CASE InWindow(5)
      BY <2>1 DEF Clock, ScheduleTypeOK, HourlyClock, InWindow, DailyHour, Minute
    <2>2. CASE ~InWindow(5)
      BY <2>2 DEF Clock, ScheduleTypeOK, HourlyClock, Day
    <2> QED
      BY <2>1, <2>2
  <1>5. InTime'
    BY <1>1 DEF Clock, InTime
  <1>6. Together'
    BY <1>1 DEF Clock, Together, Up
  <1>7. DueIsAwaited'
    BY <1>1 DEF Clock, DueIsAwaited
  <1> QED
    BY <1>2, <1>3, <1>4, <1>5, <1>6, <1>7 DEF Clock

\* The hourly scheduler goes back to its plan: after a nap, or when it wakes in the
\* first ten minutes of 8 or 20.
LEMMA ClockResume == ASSUME Clock, Resume("hourly", "plan"), now' = now, settings' = settings PROVE Clock'
  <1> USE TimesAreMinutes DEF Schedulers, Sleeping, Running, Resume, GoTo, pastVars
  <1>1. /\ pc["hourly"] # "down" /\ pc'["hourly"] = "plan"
        /\ pc'["daily"] = pc["daily"] /\ left'["daily"] = left["daily"]
    BY DEF Clock, ScheduleTypeOK
  <1>2. ScheduleTypeOK'
    BY DEF Clock, ScheduleTypeOK, Doing, Day
  <1>3. DailyClock'
    BY <1>1 DEF Clock, DailyClock, Minute, DailyHour
  <1>4. HourlyClock' /\ InTime' /\ Together' /\ DueIsAwaited'
    BY <1>1 DEF Clock, HourlyClock, InTime, Together, DueIsAwaited, Up
  <1> QED
    BY <1>2, <1>3, <1>4 DEF Clock

\* The hourly scheduler starts a refresh in the minutes after a full hour that is
\* neither 8 nor 20.
LEMMA ClockHourlyStart ==
    ASSUME Clock, pc["hourly"] = "asleep", left["hourly"] <= 0, ~InWindow(10), StartRun("hourly"),
           UNCHANGED <<now, settings, due, shelf, put, stored>>
    PROVE  Clock'
  <1> USE TimesAreMinutes, RefreshesAreShort DEF Schedulers, Sleeping, Running, StartRun, GoTo
  <1>1. left["hourly"] \in (-MaxLate)..0
    BY DEF Clock, ScheduleTypeOK, InTime
  <1>2. /\ pc'["hourly"] = "running" /\ left'["hourly"] = MaxRun
        /\ pc'["daily"] = pc["daily"] /\ left'["daily"] = left["daily"]
    BY DEF Clock, ScheduleTypeOK
  <1>3. Minute \in 0..MaxLate
    <2>1. now \in 0..(Day - 1) /\ (now + left["hourly"]) % 60 = 0
      BY DEF Clock, ScheduleTypeOK, HourlyClock
    <2>2. now \in Int /\ left["hourly"] \in (-9)..0
      <3>1. now \in Int
        BY <2>1 DEF Day
      <3>2. left["hourly"] \in (-9)..0
        BY ONLY <1>1, TimesAreMinutes, RefreshesAreShort
      <3> QED
        BY <3>1, <3>2
    <2>3. now % 60 = -left["hourly"]
      BY ONLY <2>1, <2>2, LateMinute
    <2> QED
      BY <1>1, <2>2, <2>3 DEF Minute
  <1>4. ~DailyHour
    BY <1>3 DEF InWindow, Minute, DailyHour
  <1>5. ScheduleTypeOK'
    BY DEF Clock, ScheduleTypeOK, Doing, Day, MaxSince
  <1>6. DailyClock'
    BY <1>2 DEF Clock, DailyClock, Minute, DailyHour
  <1>7. HourlyClock'
    BY <1>2, <1>3, <1>4 DEF HourlyClock, DailyHour, Minute
  <1>8. InTime' /\ Together' /\ DueIsAwaited'
    BY <1>2 DEF Clock, InTime, Together, DueIsAwaited, Up
  <1> QED
    BY <1>5, <1>6, <1>7, <1>8 DEF Clock

\* A refresh ends, however it ends.
LEMMA ClockRun == ASSUME Clock, NEW s \in Schedulers, Run(s) PROVE Clock'
  <1> USE TimesAreMinutes DEF Schedulers, Sleeping, Running, GoTo
  <1>1. /\ pc[s] = "running" /\ now' = now /\ due' = due /\ since' = since
        /\ settings' = settings /\ put' = put /\ stored' = stored
        /\ \E label \in {"plan", "dead"} : /\ pc' = [pc EXCEPT ![s] = label]
                                           /\ left' = [left EXCEPT ![s] = 0]
        /\ shelf' \in {NoPromise, 90, 12 * 60}
    BY DEF Run, RunEnds, RunFails, RunPanics, ExpiresAfter
  <1>2. ScheduleTypeOK'
    BY <1>1 DEF Clock, ScheduleTypeOK, Doing, Day, NoPromise
  <1>3. DailyClock' /\ HourlyClock'
    BY <1>1 DEF Clock, ScheduleTypeOK, DailyClock, HourlyClock, Minute, DailyHour
  <1>4. InTime' /\ Together' /\ DueIsAwaited'
    BY <1>1 DEF Clock, ScheduleTypeOK, InTime, Together, DueIsAwaited, Up
  <1> QED
    BY <1>2, <1>3, <1>4 DEF Clock

\* The server goes down and comes up, and settings are stored.
LEMMA ClockRest ==
    ASSUME Clock, Crash \/ Boot \/ (\E url \in Urls : PutSettings(url)) \/ UNCHANGED svars
    PROVE  Clock'
  <1> USE TimesAreMinutes DEF Schedulers, Sleeping, Running
  <1>1. CASE Crash
    <2> USE <1>1 DEF Crash, Up
    <2>1. ScheduleTypeOK'
      BY DEF Clock, ScheduleTypeOK, Doing, Day, MaxSince, NoPromise
    <2>2. DailyClock' /\ HourlyClock' /\ InTime' /\ Together' /\ DueIsAwaited'
      BY DEF DailyClock, HourlyClock, InTime, Together, DueIsAwaited
    <2> QED
      BY <2>1, <2>2 DEF Clock
  <1>2. CASE Boot
    <2> USE <1>2 DEF Boot, Up, pastVars
    <2>1. ScheduleTypeOK'
      BY EnvUrlIsUrl DEF Clock, ScheduleTypeOK, Doing, SeedSettings
    <2>2. DailyClock' /\ HourlyClock' /\ InTime'
      BY DEF DailyClock, HourlyClock, InTime
    <2>3. Together' /\ DueIsAwaited'
      BY DEF Clock, ScheduleTypeOK, Together, DueIsAwaited, Doing
    <2> QED
      BY <2>1, <2>2, <2>3 DEF Clock
  <1>3. CASE (\E url \in Urls : PutSettings(url)) \/ UNCHANGED svars
    <2>1. UNCHANGED <<now, pc, left, due, since, shelf>>
      BY <1>3 DEF PutSettings, svars, timeVars, pastVars
    <2>2. settings' \subseteq Urls /\ put' \in Urls \cup {NoUrl} /\ stored' \in BOOLEAN
      BY <1>3 DEF Clock, ScheduleTypeOK, PutSettings, svars, timeVars, pastVars
    <2>3. ScheduleTypeOK'
      BY <2>1, <2>2 DEF Clock, ScheduleTypeOK
    <2>4. DailyClock' /\ HourlyClock' /\ InTime' /\ Together' /\ DueIsAwaited'
      BY <2>1
         DEF Clock, DailyClock, HourlyClock, InTime, Together, DueIsAwaited, Up, Minute, DailyHour
    <2> QED
      BY <2>3, <2>4 DEF Clock
  <1> QED
    BY <1>1, <1>2, <1>3

\* So the clock and the schedulers stay in step.
LEMMA ClockNext == ASSUME Clock, [ScheduleNext]_svars PROVE Clock'
  <1>1. CASE NapEnds \/ HourlyWake
    BY <1>1, ClockResume, ClockHourlyStart DEF NapEnds, HourlyWake
  <1> QED
    BY <1>1, ClockTick, ClockDailyPlan, ClockDailyWake, ClockHourlyPlan, ClockRun, ClockRest
       DEF ScheduleNext

\* Clock is an invariant of the specification.
THEOREM ClockIsKept == ScheduleSpec => []Clock
  BY ClockInit, ClockNext, PTL DEF ScheduleSpec

-----------------------------------------------------------------------------
(* What follows from it. *)

\* The types of the clock, the schedulers and the settings.
THEOREM ScheduleTypes == ScheduleSpec => []ScheduleTypeOK
  BY ClockIsKept, PTL DEF Clock

\* A daily and an hourly refresh never run at once: the one runs within the hours 8
\* and 20 and the other outside them (main.go:280-297).
THEOREM NeverBothRefresh == ScheduleSpec => []RefreshesStayApart
  <1>1. Clock => RefreshesStayApart
    BY DEF Clock, DailyClock, HourlyClock, RefreshesStayApart
  <1> QED
    BY <1>1, ClockIsKept, PTL

\* A mark that is due has come at most MaxLate minutes ago.
LEMMA DueIsRecent ==
    ASSUME Clock, due, pc["daily"] # "dead"
    PROVE  /\ pc["daily"] = "asleep" /\ left["daily"] <= 0
           /\ now - MarkOf(now) \in 0..MaxLate
           /\ Minute \in 0..MaxLate /\ DailyHour
  <1>1. pc["daily"] = "asleep" /\ left["daily"] \in (-MaxLate)..0
    BY TimesAreMinutes DEF Clock, ScheduleTypeOK, DueIsAwaited, InTime, Schedulers, Sleeping
  <1>2. now + left["daily"] \in {Morning, Evening} /\ now \in 0..(Day - 1)
    BY <1>1, TimesAreMinutes, RefreshesAreShort
    DEF Clock, ScheduleTypeOK, DailyClock, Day, Morning, Evening
  <1> QED
    BY <1>1, <1>2, TimesAreMinutes, RefreshesAreShort
    DEF MarkOf, Morning, Evening, Minute, DailyHour, Day

\* A daily refresh starts only for a mark that is due, and no mark is due for more
\* than MaxLate minutes: the start of one refresh for each mark that finds the server
\* up (main.go:239-262).
THEOREM EachMarkOnce == ScheduleSpec => OneRunPerMark
  <1> DEFINE Step == /\ Running("daily")' /\ ~Running("daily") => due
                     /\ due' /\ pc'["daily"] # "dead" => now' - MarkOf(now') \in 0..MaxLate
         Recent == due /\ pc["daily"] # "dead" => now - MarkOf(now) \in 0..MaxLate
  <1>0. Clock => Recent
    BY DueIsRecent
  <1>1. ASSUME Clock, Recent', [ScheduleNext]_svars PROVE Step
    <2>1. ASSUME Running("daily")', ~Running("daily") PROVE due
      <3>1. DailyWake
        <4> USE <2>1 DEF Running
        <4>1. ~(Crash \/ Boot \/ Tick \/ (\E url \in Urls : PutSettings(url)) \/ UNCHANGED svars)
          BY DEF Crash, Boot, Tick, PutSettings, svars, timeVars, Schedulers
        <4>2. ~DailyPlan
          BY <1>1 DEF Clock, ScheduleTypeOK, DailyPlan, GoTo, Schedulers
        <4>3. ASSUME HourlyPlan \/ NapEnds \/ HourlyWake PROVE pc'["daily"] = pc["daily"]
          BY <1>1, <4>3
             DEF Clock, ScheduleTypeOK, HourlyPlan, NapEnds, HourlyWake, Resume, StartRun, GoTo,
                            Schedulers
        <4>4. ASSUME NEW s \in Schedulers, Run(s) PROVE pc'["daily"] \in {pc["daily"], "plan", "dead"}
          BY <1>1, <4>4
             DEF Clock, ScheduleTypeOK, Run, RunEnds, RunFails, RunPanics, GoTo, Schedulers
        <4> QED
          BY <1>1, <4>1, <4>2, <4>3, <4>4 DEF ScheduleNext
      <3> QED
        BY <1>1, <3>1 DEF Clock, ScheduleTypeOK, DueIsAwaited, DailyWake, Sleeping
    <2>2. ASSUME due', pc'["daily"] # "dead" PROVE now' - MarkOf(now') \in 0..MaxLate
      BY <1>1, <2>2 DEF MarkOf
    <2> QED
      BY <2>1, <2>2
  <1> QED
    BY <1>0, <1>1, ClockIsKept, PTL DEF ScheduleSpec, OneRunPerMark

\* What a PUT has found a row for stays there through restarts, until the next PUT;
\* and where it found none nothing but a seed is stored after it (main.go:118-136,
\* admin.go:239-246).
THEOREM SettingsLast == ScheduleSpec => []SettingsAreKept
  <1>1. ScheduleInit => SettingsAreKept
    BY DEF ScheduleInit, SettingsAreKept
  <1>2. ASSUME SettingsAreKept, [ScheduleNext]_svars PROVE SettingsAreKept'
    <2>1. CASE Boot
      BY <1>2, <2>1 DEF Boot, SeedSettings, SettingsAreKept, pastVars
    <2>2. CASE \E url \in Urls : PutSettings(url)
      BY <2>2 DEF PutSettings, SettingsAreKept
    <2>3. CASE UNCHANGED <<settings, put, stored>>
      BY <1>2, <2>3 DEF SettingsAreKept
    <2>4. Boot \/ (\E url \in Urls : PutSettings(url)) \/ UNCHANGED <<settings, put, stored>>
      BY <1>2
         DEF ScheduleNext, Tick, Crash, DailyPlan, DailyWake, HourlyPlan, NapEnds, HourlyWake,
         Resume, StartRun, Run, RunEnds, RunFails, RunPanics, svars, pastVars
    <2> QED
      BY <2>1, <2>2, <2>3, <2>4
  <1> QED
    BY <1>1, <1>2, PTL DEF ScheduleSpec

-----------------------------------------------------------------------------
(* That the refreshes follow each other: each hour is due one, from one of *)
(* the schedulers, and it starts and ends before the next.                 *)

\* The refresh of this hour is still to start.
Pending == due \/ (pc["hourly"] = "asleep" /\ left["hourly"] <= 0 /\ ~DailyHour)

BothAlive == pc["daily"] # "dead" /\ pc["hourly"] # "dead"

SinceThisHour == BothAlive => since <= IF Pending THEN 60 + Minute ELSE Minute

\* The listings are those of this hour, or of the one before while a refresh of
\* this hour has not ended.
InPlace == Pending \/ Running("daily") \/ Running("hourly")
ShelfLasts ==
    BothAlive => \/ shelf = NoPromise
                 \/ shelf >= IF InPlace THEN 30 - Minute ELSE 90 - Minute

\* A refresh is late by MaxLate minutes at most, and has ended before the hour.
LEMMA Early ==
    ASSUME Clock, BothAlive
    PROVE  /\ Minute \in 0..59
           /\ Pending => Minute <= MaxLate
           /\ InPlace => Minute <= MaxLate + MaxRun
  <1> USE TimesAreMinutes, RefreshesAreShort DEF Schedulers, Sleeping, Running
  <1>1. Minute \in 0..59
    BY HourAndMinute DEF Clock, ScheduleTypeOK, Minute
  <1>2. ASSUME pc["hourly"] = "asleep", left["hourly"] <= 0 PROVE Minute <= MaxLate
    <2>1. left["hourly"] \in (-MaxLate)..0
      BY <1>2 DEF Clock, ScheduleTypeOK, InTime
    <2>2. left["hourly"] \in (-9)..0
      BY ONLY <2>1, TimesAreMinutes, RefreshesAreShort
    <2>3. now \in Int /\ (now + left["hourly"]) % 60 = 0
      BY <1>2 DEF Clock, ScheduleTypeOK, HourlyClock, Day
    <2>4. now % 60 = -left["hourly"]
      BY ONLY <2>2, <2>3, LateMinute
    <2> QED
      BY <2>1, <2>4 DEF Minute
  <1>3. due => Minute <= MaxLate
    BY DueIsRecent, <1>1 DEF BothAlive
  <1>4. Running("daily") \/ Running("hourly") => Minute <= MaxLate + MaxRun
    BY <1>1 DEF Clock, DailyClock, HourlyClock, InTime
  <1> QED
    BY <1>1, <1>2, <1>3, <1>4 DEF Pending, InPlace

\* When an hour is over its refresh is, and that of the next hour becomes pending.
LEMMA NextHourIsPending ==
    ASSUME Clock, Tick, BothAlive, Up, Minute = 59
    PROVE  ~InPlace /\ ~Pending /\ Pending'
  <1> USE TimesAreMinutes, RefreshesAreShort
  <1>1. now \in 0..(Day - 1) /\ now % 60 = 59 /\ now' = (now + 1) % Day
    BY DEF Clock, ScheduleTypeOK, Tick, Minute
  <1>2. /\ pc["daily"] \notin {"plan", "down"} /\ pc["hourly"] \notin {"plan", "down", "dead"}
        /\ Running("daily") => left["daily"] > 0
        /\ Running("hourly") => left["hourly"] > 0
    BY DEF Tick, BothAlive, Up, Schedulers
  <1>3. ~InPlace /\ ~Pending
    <2>1. ~Pending
      BY Early
    <2>2. ~Running("daily") /\ ~Running("hourly")
      BY <1>2 DEF Clock, ScheduleTypeOK, DailyClock, HourlyClock, Schedulers
    <2> QED
      BY <2>1, <2>2 DEF InPlace
  <1>4. CASE now' \in {Morning, Evening}
    BY <1>3, <1>4 DEF Tick, Pending
  <1>5. CASE now' \notin {Morning, Evening}
    <2>1. pc["hourly"] # "nap"
      <3>1. pc["hourly"] = "nap" => left["hourly"] \in Int /\ left["hourly"] >= -9
        BY DEF Clock, ScheduleTypeOK, InTime, Sleeping, Schedulers
      <3> QED
        BY <3>1 DEF Clock, HourlyClock
    <2>2. pc["hourly"] = "asleep"
      BY <1>2, <1>3, <2>1 DEF Clock, ScheduleTypeOK, Doing, InPlace, Running, Schedulers
    <2>3. (now + left["hourly"]) % 60 = 0 /\ left["hourly"] \in Int /\ left["hourly"] <= 60
      BY <2>2 DEF Clock, ScheduleTypeOK, HourlyClock, Schedulers
    <2>4. left["hourly"] >= -9
      BY <2>2, <2>3 DEF Clock, InTime, Sleeping, Schedulers
    <2>5. left["hourly"] = 1
      <3>1. now \in Int
        BY <1>1 DEF Day
      <3>2. left["hourly"] \in (-9)..60
        BY ONLY <2>3, <2>4
      <3> QED
        BY ONLY <1>1, <2>3, <3>1, <3>2, LastMinute
    <2>6. pc'["hourly"] = "asleep" /\ left'["hourly"] = 0
      BY <2>2, <2>5 DEF Tick, Sleeping, Schedulers
    <2>7. now' % 60 = 0 /\ now' \in 0..(Day - 1)
      BY ONLY <1>1, NextMinute
    <2>8. now' \div 60 \notin {8, 20}
      BY ONLY <1>5, <2>7, OnTheHour
    <2> QED
      BY <1>3, <2>6, <2>8 DEF Pending, DailyHour
  <1> QED
    BY <1>3, <1>4, <1>5

\* Within an hour a minute changes nothing of what is pending or running.
LEMMA WithinTheHour ==
    ASSUME Clock, Tick, BothAlive, Minute # 59
    PROVE  Minute' = Minute + 1 /\ (Pending => Pending') /\ (InPlace => InPlace')
  <1> USE DEF Schedulers, Sleeping, Running
  <1>1. Minute' = Minute + 1 /\ (DailyHour' <=> DailyHour)
    BY NextMinute, Early DEF Clock, ScheduleTypeOK, Tick, Minute, DailyHour
  <1>2. Pending => Pending'
    <2>1. due => due'
      BY DEF Tick
    <2>2. ASSUME pc["hourly"] = "asleep", left["hourly"] <= 0
          PROVE  pc'["hourly"] = "asleep" /\ left'["hourly"] <= 0
      BY <2>2 DEF Clock, ScheduleTypeOK, Tick
    <2> QED
      BY <1>1, <2>1, <2>2 DEF Pending
  <1> QED
    BY <1>1, <1>2 DEF Tick, InPlace

\* What the steps that take no time do to the refreshes that are due or running: one
\* starts, and was pending; one ends; or there is no change.
Quiet    == /\ since' = since /\ shelf' = shelf
            /\ (Pending' <=> Pending) /\ (InPlace' <=> InPlace)
Starts   == Pending /\ InPlace' /\ since' = 0 /\ shelf' = shelf
Ends     == since' = since /\ (Pending' <=> Pending) /\ shelf' \in {NoPromise, 90, 12 * 60}
GoesDown == since' = 0 /\ shelf' = NoPromise

\* A step other than Tick, after which both schedulers are alive, is one of these.
LEMMA TimelessSteps ==
    ASSUME Clock, [ScheduleNext]_svars, ~Tick, BothAlive'
    PROVE  now' = now /\ (GoesDown \/ (BothAlive /\ (Quiet \/ Starts \/ Ends)))
  <1> USE DEF Schedulers, Running, BothAlive
  <1>a. Clock => pc = [s \in Schedulers |-> pc[s]] /\ left = [s \in Schedulers |-> left[s]]
    BY DEF Clock, ScheduleTypeOK
  <1>1. CASE Crash
    BY <1>1 DEF Crash, GoesDown
  <1>2. CASE Boot
    BY <1>2 DEF Boot, GoesDown, Clock, Together, pastVars
  <1>3. CASE UNCHANGED <<now, pc, left, due, since, shelf>>
    BY <1>3 DEF Quiet, Pending, InPlace, DailyHour
  <1>4. CASE \E url \in Urls : PutSettings(url)
    BY <1>3, <1>4 DEF PutSettings, timeVars
  <1>5. CASE DailyPlan
    <2>1. /\ now' = now /\ due' = due /\ since' = since /\ shelf' = shelf
          /\ pc["daily"] = "plan" /\ pc'["daily"] = "asleep"
          /\ pc'["hourly"] = pc["hourly"] /\ left'["hourly"] = left["hourly"]
      BY <1>5 DEF Clock, ScheduleTypeOK, DailyPlan, GoTo, pastVars
    <2> QED
      BY <2>1 DEF Quiet, Pending, InPlace, DailyHour
  <1>6. CASE DailyWake
    <2>1. /\ now' = now /\ since' = 0 /\ shelf' = shelf
          /\ pc["daily"] = "asleep" /\ left["daily"] <= 0 /\ pc'["daily"] = "running"
          /\ pc'["hourly"] = pc["hourly"]
      BY <1>6 DEF Clock, ScheduleTypeOK, DailyWake, StartRun, GoTo, Sleeping
    <2>2. due
      BY <2>1 DEF Clock, DueIsAwaited
    <2> QED
      BY <2>1, <2>2 DEF Starts, Pending, InPlace
  <1>7. CASE HourlyPlan
    <2>1. /\ now' = now /\ due' = due /\ since' = since /\ shelf' = shelf
          /\ pc["hourly"] = "plan" /\ pc'["daily"] = pc["daily"]
          /\ pc'["hourly"] \in {"nap", "asleep"} /\ left'["hourly"] \in 1..60
      BY <1>7 DEF Clock, ScheduleTypeOK, HourlyPlan, GoTo, pastVars
    <2> QED
      BY <2>1 DEF Quiet, Pending, InPlace
  <1>8. CASE NapEnds \/ HourlyWake
    <2>1. CASE Resume("hourly", "plan")
      <3>1. /\ now' = now /\ due' = due /\ since' = since /\ shelf' = shelf
            /\ pc["hourly"] \in {"nap", "asleep"} /\ pc'["hourly"] = "plan" /\ pc'["daily"] = pc["daily"]
        BY <1>8, <2>1
           DEF Clock, ScheduleTypeOK, NapEnds, HourlyWake, Resume, GoTo, Sleeping, pastVars
      <3>2. pc["hourly"] = "asleep" => DailyHour
        BY <1>8, <3>1
           DEF NapEnds, HourlyWake, InWindow, DailyHour, StartRun, GoTo, Clock, ScheduleTypeOK
      <3> QED
        BY <3>1, <3>2 DEF Quiet, Pending, InPlace
    <2>2. CASE ~Resume("hourly", "plan")
      <3>1. /\ now' = now /\ since' = 0 /\ shelf' = shelf
            /\ pc["hourly"] = "asleep" /\ left["hourly"] <= 0 /\ ~InWindow(10)
            /\ pc'["hourly"] = "running" /\ pc'["daily"] = pc["daily"]
        BY <1>8, <2>2 DEF Clock, ScheduleTypeOK, NapEnds, HourlyWake, StartRun, GoTo
      <3>2. Pending
        <4>1. left["hourly"] \in (-9)..0
          <5>1. left["hourly"] \in (-MaxLate)..0
            BY <3>1, TimesAreMinutes DEF Clock, ScheduleTypeOK, InTime, Sleeping
          <5> QED
            BY ONLY <5>1, TimesAreMinutes, RefreshesAreShort
        <4>2. now \in Int /\ (now + left["hourly"]) % 60 = 0
          BY <3>1 DEF Clock, ScheduleTypeOK, HourlyClock, Day
        <4>3. now % 60 = -left["hourly"]
          BY ONLY <4>1, <4>2, LateMinute
        <4> QED
          BY <3>1, <4>1, <4>3 DEF Pending, InWindow, DailyHour
      <3> QED
        BY <3>1, <3>2 DEF Starts, InPlace
    <2> QED
      BY <2>1, <2>2
  <1>9. ASSUME NEW s \in Schedulers, Run(s)
        PROVE  now' = now /\ (GoesDown \/ (BothAlive /\ (Quiet \/ Starts \/ Ends)))
    <2>1. /\ now' = now /\ due' = due /\ since' = since /\ shelf' \in {NoPromise, 90, 12 * 60}
          /\ pc[s] = "running" /\ pc'[s] # "asleep"
          /\ \A o \in Schedulers \ {s} : pc'[o] = pc[o] /\ left'[o] = left[o]
      BY <1>9 DEF Clock, ScheduleTypeOK, Run, RunEnds, RunFails, RunPanics, GoTo, ExpiresAfter
    <2> QED
      BY <2>1 DEF Ends, Pending, DailyHour
  <1> QED
    BY <1>1, <1>2, <1>3, <1>4, <1>5, <1>6, <1>7, <1>8, <1>9
       DEF ScheduleNext, svars, timeVars, pastVars

\* While both schedulers live, every hour has a refresh, at most MaxLate minutes
\* later than the hour before had (main.go:279-297).
THEOREM NoHourWithout == ScheduleSpec => []EveryHourHasARefresh
  <1>1. ScheduleInit => SinceThisHour
    BY HourAndMinute DEF ScheduleInit, SinceThisHour, Pending, Minute, Schedulers
  <1>2. ASSUME Clock, Clock', SinceThisHour, [ScheduleNext]_svars PROVE SinceThisHour'
    <2> SUFFICES ASSUME BothAlive'
                 PROVE  since' <= IF Pending' THEN 60 + Minute' ELSE Minute'
      BY DEF SinceThisHour
    <2>0. since \in Int /\ Minute' \in 0..59
      <3>1. since \in Int /\ now' \in 0..(Day - 1)
        BY <1>2, TimesAreMinutes DEF Clock, ScheduleTypeOK, MaxSince
      <3> QED
        BY ONLY <3>1, HourAndMinute DEF Minute
    <2>1. CASE Tick
      <3>1. BothAlive /\ (since' = since \/ since' = since + 1) /\ (~Up => since' = 0)
        BY <1>2, <2>1 DEF Tick, BothAlive, Clock, Together
      <3>2. CASE ~Up
        <4>1. since' = 0
          BY <3>1, <3>2
        <4>2. \A m \in 0..59 : m >= 0 /\ 60 + m >= 0
          OBVIOUS
        <4> QED
          BY <2>0, <4>1, <4>2
      <3>3. CASE Up /\ Minute # 59
        BY <1>2, <2>0, <2>1, <3>1, <3>3, WithinTheHour, Early DEF SinceThisHour
      <3>4. CASE Up /\ Minute = 59
        BY <1>2, <2>0, <2>1, <3>1, <3>4, NextHourIsPending DEF SinceThisHour
      <3> QED
        BY <3>2, <3>3, <3>4
    <2>2. CASE ~Tick
      <3>1. now' = now /\ (GoesDown \/ (BothAlive /\ (Quiet \/ Starts \/ Ends)))
        BY <1>2, <2>2, TimelessSteps
      <3> QED
        BY <1>2, <2>0, <3>1 DEF SinceThisHour, GoesDown, Quiet, Starts, Ends, Minute
    <2> QED
      BY <2>1, <2>2
  <1>3. Clock /\ SinceThisHour => EveryHourHasARefresh
    <2> SUFFICES ASSUME Clock, SinceThisHour, BothAlive PROVE since < MaxSince
      BY DEF EveryHourHasARefresh, BothAlive, Alive, Schedulers
    <2> QED
      BY Early, TimesAreMinutes DEF SinceThisHour, MaxSince, Clock, ScheduleTypeOK
  <1> QED
    BY <1>1, <1>2, <1>3, ClockIsKept, PTL DEF ScheduleSpec

\* With refreshes that end in the first half of their hour, the listings of an hour
\* never expire before those of the next hour replace them (refresh.go:101, 290, 334).
\* RefreshesAreShort is not enough: after a refresh that takes 40 minutes the next
\* one may still be running when the 90 minutes are over.
THEOREM ListingsOutlastTheHour ==
    ASSUME MaxLate + MaxRun < 30 PROVE ScheduleSpec => []ListingsAreCurrent
  <1>1. ScheduleInit => ShelfLasts
    BY DEF ScheduleInit, ShelfLasts
  <1>2. ASSUME Clock, Clock', ShelfLasts, [ScheduleNext]_svars PROVE ShelfLasts'
    <2> SUFFICES ASSUME BothAlive', shelf' # NoPromise
                 PROVE  shelf' >= IF InPlace' THEN 30 - Minute' ELSE 90 - Minute'
      BY DEF ShelfLasts
    <2>0. shelf \in Int /\ Minute' \in 0..59
      <3>1. shelf \in Int /\ now' \in 0..(Day - 1)
        BY <1>2, TimesAreMinutes DEF Clock, ScheduleTypeOK, NoPromise
      <3> QED
        BY ONLY <3>1, HourAndMinute DEF Minute
    <2>1. CASE Tick
      <3>1. /\ BothAlive /\ Up /\ shelf # NoPromise
            /\ shelf' = shelf - 1 \/ (shelf' = shelf /\ shelf <= 0)
        BY <1>2, <2>0, <2>1 DEF Tick, BothAlive, Clock, Together, NoPromise
      <3>2. CASE Minute # 59
        BY <1>2, <2>0, <2>1, <3>1, <3>2, WithinTheHour, Early DEF ShelfLasts
      <3>3. CASE Minute = 59
        BY <1>2, <2>0, <2>1, <3>1, <3>3, NextHourIsPending DEF ShelfLasts, InPlace
      <3> QED
        BY <3>2, <3>3
    <2>2. CASE ~Tick
      <3>1. now' = now /\ (GoesDown \/ (BothAlive /\ (Quiet \/ Starts \/ Ends)))
        BY <1>2, <2>2, TimelessSteps
      <3> QED
        BY <1>2, <2>0, <3>1 DEF ShelfLasts, GoesDown, Quiet, Starts, Ends, Minute, InPlace
    <2> QED
      BY <2>1, <2>2
  <1>3. Clock /\ ShelfLasts => ListingsAreCurrent
    <2> SUFFICES ASSUME Clock, ShelfLasts, BothAlive PROVE shelf # 0
      BY DEF ListingsAreCurrent, BothAlive, Alive, Schedulers
    <2> QED
      BY Early, TimesAreMinutes DEF ShelfLasts, NoPromise
  <1> QED
    BY <1>1, <1>2, <1>3, ClockIsKept, PTL DEF ScheduleSpec
=============================================================================
