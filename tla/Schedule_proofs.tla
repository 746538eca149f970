---------------------------- MODULE Schedule_proofs ----------------------------
(* Proofs about Schedule, for every length of the day, chunk of sleep,     *)
(* horizon and choice of weekdays: _next_occurrence returns the first      *)
(* instant after now that a setting names, and the task that sleeps until  *)
(* it acts upon it once and in time.                                       *)
EXTENDS Schedule, TLAPS

Setting == [weekday : 0 .. EveryDay, time : Time \cup {-1}]

-----------------------------------------------------------------------------
(* Instants are ordered, and so are those of one setting.                  *)
LEMMA Order ==
  ASSUME NEW a \in Datetime, NEW b \in Datetime, NEW c \in Datetime
  PROVE  /\ Before(a, b) \/ Before(b, a) \/ a = b
         /\ ~(Before(a, b) /\ ~Before(a, b))
         /\ Before(a, b) => ~Before(b, a)
         /\ Before(a, b) /\ Before(b, c) => Before(a, c)
         /\ ~Before(a, b) /\ Before(c, b) => Before(c, a)
         /\ Before(b, a) /\ ~Before(c, a) => Before(b, c)
BY DEF Before, Datetime, Time

LEMMA TimesAreTimes ==
  /\ DayLength \in Nat \ {0} /\ Minute \in Nat \ {0} /\ Poll \in Nat \ {0}
  /\ Horizon \in Nat /\ MaxSetBacks \in Nat
  /\ ColdRestart \subseteq Setting /\ Closedown \subseteq Setting
<1>1. /\ DayLength \in Nat \ {0} /\ Minute \in Nat \ {0} /\ Poll \in Nat \ {0}
      /\ Horizon \in Nat /\ MaxSetBacks \in Nat
      /\ Weekdays \subseteq 0 .. 6
  BY ScheduleAssumption DEF ScheduleAssumption
<1>2. NoSetting \in Setting
  BY DEF NoSetting, Setting, EveryDay
<1>3. OnMinute \subseteq Time
  BY DEF OnMinute
<1>4. \A W : W \subseteq 0 .. EveryDay => [weekday : W, time : OnMinute] \subseteq Setting
  BY <1>3 DEF Setting
<1>5. {6} \subseteq 0 .. EveryDay /\ Weekdays \cup {EveryDay} \subseteq 0 .. EveryDay
  BY <1>1 DEF EveryDay
<1> QED
  BY <1>1, <1>2, <1>4, <1>5 DEF ColdRestart, Closedown

(* What remains of d.day % 7 when days pass.                               *)
LEMMA WeekdayOfLater ==
  ASSUME NEW n \in Nat, NEW w \in 0 .. 6
  PROVE  LET first == n + ((w - (n % 7)) % 7) IN
         /\ first \in Nat /\ first >= n
         /\ first % 7 = w /\ (first + 7) % 7 = w
         /\ \A m \in Nat : (m >= n /\ m % 7 = w) => m >= first
         /\ \A m \in Nat : (m > first /\ m % 7 = w) => m >= first + 7
OBVIOUS

-----------------------------------------------------------------------------
(* _next_occurrence: "Next wall-clock instant strictly after now", and     *)
(* none between them is one.                                               *)
IsFirst(s, t, o) ==
  /\ o \in Datetime
  /\ Before(t, o)
  /\ Occurs(s, o)
  /\ \A d \in Datetime : Before(t, d) /\ Before(d, o) => ~Occurs(s, d)

LEMMA DaysOnRecord ==
  ASSUME NEW x \in Nat, NEW y, NEW n \in Nat
  PROVE  DaysOn([day |-> x, time |-> y], n) = [day |-> x + n, time |-> y]
BY DEF DaysOn

LEMMA NextEveryDay ==
  ASSUME NEW s \in Setting, IsSet(s), s.weekday = EveryDay, NEW t \in Datetime
  PROVE  IsFirst(s, t, NextOccurrence(s, t))
<1> DEFINE today == [t EXCEPT !.time = s.time]
<1>1. s.time \in Time /\ t.day \in Nat /\ t.time \in Time
  BY DEF Setting, IsSet, Datetime
<1>2. today = [day |-> t.day, time |-> s.time]
  BY <1>1 DEF Datetime
<1>3. NextOccurrence(s, t) = IF Before(t, today) THEN today
                             ELSE [day |-> t.day + 1, time |-> s.time]
  <2>1. NextOccurrence(s, t) = IF Before(t, today) THEN today ELSE DaysOn(today, 1)
    BY Zenon DEF NextOccurrence
  <2>2. DaysOn(today, 1) = [day |-> t.day + 1, time |-> s.time]
    BY <1>1, <1>2, DaysOnRecord
  <2> QED
    BY <2>1, <2>2
<1>4. \A d \in Datetime : Occurs(s, d) => d.time = s.time
  BY DEF Occurs
<1> HIDE DEF today
<1> QED
  BY <1>1, <1>2, <1>3, <1>4 DEF IsFirst, Before, Occurs, IsSet, Datetime, Time

LEMMA NextOnWeekday ==
  ASSUME NEW s \in Setting, IsSet(s), s.weekday # EveryDay, NEW t \in Datetime
  PROVE  IsFirst(s, t, NextOccurrence(s, t))
<1> DEFINE first == t.day + ((s.weekday - (t.day % 7)) % 7)
<1> DEFINE slot  == [day |-> first, time |-> s.time]
<1>1. s.time \in Time /\ t.day \in Nat /\ t.time \in Time /\ s.weekday \in 0 .. 6
  BY DEF Setting, IsSet, Datetime, EveryDay
<1>2. /\ first \in Nat /\ first >= t.day
      /\ first % 7 = s.weekday /\ (first + 7) % 7 = s.weekday
      /\ \A m \in Nat : (m >= t.day /\ m % 7 = s.weekday) => m >= first
      /\ \A m \in Nat : (m > first /\ m % 7 = s.weekday) => m >= first + 7
  BY <1>1, WeekdayOfLater
<1>3. NextOccurrence(s, t) = IF Before(t, slot) THEN slot
                             ELSE [day |-> first + 7, time |-> s.time]
  <2> DEFINE today == [t EXCEPT !.time = s.time]
             ahead == (s.weekday - Weekday(t)) % 7
  <2>1. today = [day |-> t.day, time |-> s.time]
    BY <1>1 DEF Datetime
  <2>2. ahead \in Nat /\ t.day + ahead = first
    BY <1>1 DEF Weekday
  <2>3. NextOccurrence(s, t) = IF Before(t, DaysOn(today, ahead))
                                 THEN DaysOn(today, ahead)
                                 ELSE DaysOn(DaysOn(today, ahead), 7)
    BY Zenon DEF NextOccurrence
  <2> HIDE DEF ahead, today
  <2>4. DaysOn(today, ahead) = slot
    BY <1>1, <2>1, <2>2, DaysOnRecord
  <2>5. DaysOn(slot, 7) = [day |-> first + 7, time |-> s.time]
    BY <1>2, DaysOnRecord
  <2> QED
    BY <2>3, <2>4, <2>5
<1>4. \A d \in Datetime : Occurs(s, d) <=> (d.time = s.time /\ d.day % 7 = s.weekday)
  BY <1>1 DEF Occurs, Weekday, IsSet
<1> HIDE DEF first
<1>5. CASE Before(t, slot)
  <2>1. NextOccurrence(s, t) = slot /\ slot \in Datetime
    BY <1>1, <1>2, <1>3, <1>5 DEF Datetime
  <2>2. \A d \in Datetime : Before(t, d) /\ Before(d, slot) => ~Occurs(s, d)
    BY <1>1, <1>2, <1>4 DEF Before, Datetime, Time
  <2> QED
    BY <1>2, <1>4, <1>5, <2>1, <2>2 DEF IsFirst
<1>6. CASE ~Before(t, slot)
  <2> DEFINE next == [day |-> first + 7, time |-> s.time]
  <2>1. NextOccurrence(s, t) = next /\ next \in Datetime
    BY <1>1, <1>2, <1>3, <1>6 DEF Datetime
  <2>2. \A d \in Datetime : Before(t, d) /\ Before(d, next) => ~Occurs(s, d)
    BY <1>1, <1>2, <1>4, <1>6 DEF Before, Datetime, Time
  <2>3. Before(t, next)
    BY <1>1, <1>2 DEF Before
  <2> QED
    BY <1>2, <1>4, <2>1, <2>2, <2>3 DEF IsFirst
<1> QED
  BY <1>5, <1>6

(* Whatever the setting and the moment, _next_occurrence returns the first *)
(* instant after it that the setting names.                                *)
THEOREM NextIsFirst ==
  ASSUME NEW s \in Setting, IsSet(s), NEW t \in Datetime
  PROVE  IsFirst(s, t, NextOccurrence(s, t))
BY NextEveryDay, NextOnWeekday

-----------------------------------------------------------------------------
(* The choice of next_scheduled_shutdown among the two settings.           *)
IsFirstOfBoth(t, o, closes) ==
  /\ o \in Datetime
  /\ Before(t, o)
  /\ ~closes <=> Occurs(cold, o)
  /\ closes => Occurs(close, o)
  /\ \A d \in Datetime :
       Before(t, d) /\ Before(d, o) => ~Occurs(cold, d) /\ ~Occurs(close, d)

LEMMA ChoiceIsFirst ==
  ASSUME TypeOK, IsSet(cold) \/ IsSet(close), NEW t \in Datetime
  PROVE  IsFirstOfBoth(t, NextOccurrence(IF ClosesFirst(t) THEN close ELSE cold, t),
                       ClosesFirst(t))
<1> DEFINE nextCold  == NextOccurrence(cold, t)
           nextClose == NextOccurrence(close, t)
<1>1. cold \in Setting /\ close \in Setting
  BY TimesAreTimes DEF TypeOK
<1>2. IsSet(cold) => IsFirst(cold, t, nextCold)
  BY <1>1, NextIsFirst
<1>3. IsSet(close) => IsFirst(close, t, nextClose)
  BY <1>1, NextIsFirst
<1>4. \A d : ~IsSet(cold) => ~Occurs(cold, d)
  BY DEF Occurs
<1>5. \A d : ~IsSet(close) => ~Occurs(close, d)
  BY DEF Occurs
<1> HIDE DEF nextCold, nextClose
<1>6. CASE ClosesFirst(t)
  <2>1. IsSet(close) /\ IsFirst(close, t, nextClose)
    BY <1>3, <1>6 DEF ClosesFirst
  <2>2. IsSet(cold) => IsFirst(cold, t, nextCold) /\ Before(nextClose, nextCold)
    BY <1>2, <1>6 DEF ClosesFirst, nextCold, nextClose
  <2>3. \A d \in Datetime : Before(t, d) /\ (Before(d, nextClose) \/ d = nextClose)
                             => ~Occurs(cold, d)
    BY <1>4, <2>1, <2>2, Order DEF IsFirst
  <2>4. IsFirstOfBoth(t, nextClose, TRUE)
    BY <2>1, <2>3 DEF IsFirst, IsFirstOfBoth
  <2> QED
    BY <1>6, <2>4 DEF nextClose
<1>7. CASE ~ClosesFirst(t)
  <2>1. IsSet(cold) /\ IsFirst(cold, t, nextCold)
    BY <1>2, <1>7 DEF ClosesFirst
  <2>2. IsSet(close) => IsFirst(close, t, nextClose) /\ ~Before(nextClose, nextCold)
    BY <1>3, <1>7, <2>1 DEF ClosesFirst, nextCold, nextClose
  <2>3. \A d \in Datetime : Before(t, d) /\ Before(d, nextCold) => ~Occurs(close, d)
    BY <1>5, <2>1, <2>2, Order DEF IsFirst
  <2>4. IsFirstOfBoth(t, nextCold, FALSE)
    BY <2>1, <2>3 DEF IsFirst, IsFirstOfBoth
  <2> QED
    BY <1>7, <2>4 DEF nextCold, IsFirstOfBoth
<1> QED
  BY <1>6, <1>7

-----------------------------------------------------------------------------
(* A chunk of sleep is at least a tick and at most Poll.                   *)
LEMMA DaysAreLong ==
  ASSUME NEW m \in Nat, NEW n \in Nat, m < n, NEW len \in Nat
  PROVE  m * len + len <= n * len
<1>1. PICK k \in Nat : n = m + 1 + k
  <2>1. n - m - 1 \in Nat /\ n = m + 1 + (n - m - 1)
    OBVIOUS
  <2> QED
    BY <2>1
<1>2. n * len = m * len + len + k * len
  BY <1>1
<1>3. k * len \in Nat
  BY <1>1
<1> QED
  BY <1>2, <1>3

LEMMA ChunkBounds ==
  ASSUME NEW a \in Datetime, NEW t \in Datetime, Before(t, a)
  PROVE  Least(Remaining(a, t), Poll) \in 1 .. Poll
<1>1. /\ a.day \in Nat /\ t.day \in Nat /\ DayLength \in Nat /\ Poll \in Nat \ {0}
      /\ a.time \in 0 .. (DayLength - 1) /\ t.time \in 0 .. (DayLength - 1)
  BY TimesAreTimes DEF Datetime, Time
<1>2. a.day * DayLength \in Nat /\ t.day * DayLength \in Nat
  BY <1>1
<1>3. Remaining(a, t) \in Nat \ {0}
  <2>1. CASE t.day < a.day
    <3>1. t.day * DayLength + DayLength <= a.day * DayLength
      BY <1>1, <2>1, DaysAreLong
    <3> QED
      BY <1>1, <1>2, <3>1 DEF Remaining, Ticks
  <2>2. CASE t.day = a.day /\ t.time < a.time
    BY <1>1, <1>2, <2>2 DEF Remaining, Ticks
  <2> QED
    BY <2>1, <2>2 DEF Before
<1> QED
  BY <1>1, <1>3 DEF Least

-----------------------------------------------------------------------------
LEMMA InitType == Init => TypeOK
<1> SUFFICES ASSUME Init PROVE TypeOK
  OBVIOUS
<1>1. now \in Datetime
  BY DEF Init, Datetime
<1>2. wake \in 0 .. Poll /\ setBacks \in 0 .. MaxSetBacks
  BY TimesAreTimes DEF Init
<1> QED
  BY <1>1, <1>2 DEF Init, TypeOK

LEMMA SleepType ==
  ASSUME TypeOK, NEW a \in Datetime, Sleep(a)
  PROVE  pc' \in {"sleeping", "due"} /\ wake' \in 0 .. Poll
<1>1. CASE Before(now, a)
  BY <1>1, ChunkBounds, TimesAreTimes DEF TypeOK, Sleep
<1>2. CASE ~Before(now, a)
  BY <1>2, TimesAreTimes DEF Sleep
<1> QED
  BY <1>1, <1>2

LEMMA ClockType ==
  ASSUME NEW d \in Datetime
  PROVE  /\ After1(d) \in Datetime /\ Before(d, After1(d))
         /\ DaysOn(d, 1) \in Datetime /\ Before(d, DaysOn(d, 1))
<1>1. d.day \in Nat /\ d.time \in 0 .. (DayLength - 1) /\ DayLength \in Nat \ {0}
      /\ d = [day |-> d.day, time |-> d.time]
  BY TimesAreTimes DEF Datetime, Time
<1>2. DaysOn(d, 1) = [day |-> d.day + 1, time |-> d.time]
  BY <1>1, DaysOnRecord
<1>3. d.time + 1 < DayLength => [d EXCEPT !.time = @ + 1] = [day |-> d.day, time |-> d.time + 1]
  BY <1>1
<1>4. After1(d) = IF d.time + 1 < DayLength THEN [day |-> d.day, time |-> d.time + 1]
                                            ELSE [day |-> d.day + 1, time |-> 0]
  BY <1>3 DEF After1
<1> QED
  BY <1>1, <1>2, <1>4 DEF Datetime, Time, Before

LEMMA NextType == TypeOK /\ [Next]_vars => TypeOK'
<1> SUFFICES ASSUME TypeOK, [Next]_vars PROVE TypeOK'
  OBVIOUS
<1> USE DEF TypeOK
<1>1. CASE Ready
  <2>1. CASE ~IsSet(cold) /\ ~IsSet(close)
    BY <1>1, <2>1 DEF Ready, task, config
  <2>2. CASE IsSet(cold) \/ IsSet(close)
    <3>1. at' \in Datetime /\ Sleep(at')
      BY <1>1, <2>2, ChoiceIsFirst DEF Ready, IsFirstOfBoth
    <3>2. pc' \in {"sleeping", "due"} /\ wake' \in 0 .. Poll
      BY <3>1, SleepType
    <3> QED
      BY <1>1, <2>2, <3>1, <3>2 DEF Ready, config
  <2> QED
    BY <2>1, <2>2
<1>2. CASE Wakes
  BY <1>2, SleepType DEF Wakes, config
<1>3. CASE Acts
  BY <1>3 DEF Acts, config, task
<1>4. CASE Relaunched
  BY <1>4 DEF Relaunched, config, task, ghosts
<1>5. CASE Tick
  <2>1. now' \in Datetime
    BY <1>5, ClockType DEF Tick
  <2>2. wake' \in 0 .. Poll /\ overdue' \in Nat
    BY <1>5, TimesAreTimes DEF Tick
  <2> QED
    BY <1>5, <2>1, <2>2 DEF Tick, config
<1>6. CASE ClockLeaps
  BY <1>6, ClockType DEF ClockLeaps, config, task, ghosts
<1>7. CASE ClockSetBack
  <2>1. now' \in Datetime
    <3>1. now.time - 1 \in Time
      BY <1>7, TimesAreTimes DEF ClockSetBack, Datetime, Time
    <3> QED
      BY <1>7, <3>1 DEF ClockSetBack, Datetime
  <2>2. setBacks' \in 0 .. MaxSetBacks
    BY <1>7, TimesAreTimes DEF ClockSetBack
  <2> QED
    BY <1>7, <2>1, <2>2 DEF ClockSetBack, config, task, ghosts
<1>8. CASE UNCHANGED vars
  BY <1>8 DEF vars, config, task, ghosts
<1> QED
  BY <1>1, <1>2, <1>3, <1>4, <1>5, <1>6, <1>7, <1>8 DEF Next, Lap, Clock

(* Every variable keeps its type, and a chunk of sleep its bound.          *)
THEOREM TypeCorrect == Spec => []TypeOK
BY InitType, NextType, PTL DEF Spec

-----------------------------------------------------------------------------
(* WaitsForFirst looks a week ahead; that nothing at all lies between is   *)
(* inductive and not much harder.                                          *)
WaitsForFirstOfAll ==
  pc \in {"sleeping", "due"} =>
    IsFirstOfBoth(since, at, action = "TIDY_CLOSEDOWN")

(* The ticks of one sleep after its instant has passed, and those left.    *)
SleepIsShort == pc = "sleeping" => overdue + wake <= Poll

(* Until the clock is set back, what was acted upon is past.               *)
ActedIsPast ==
  setBacks = 0 =>
    /\ \A d \in acted : ~Before(now, d)
    /\ pc = "due" => ~Before(now, at)

IInv ==
  /\ TypeOK
  /\ WaitsForFirstOfAll
  /\ NoticedInTime
  /\ SleepIsShort
  /\ ActedIsPast
  /\ ActsOnce

(* The arithmetic of a tick.                                               *)
LEMMA TickOfSleep ==
  /\ \A p \in Nat : \A w \in 0 .. p : 0 <= p /\ 0 + w <= p
  /\ \A p, o, w \in Nat :
       (o + w <= p /\ w > 0) =>
         \A late \in {o, o + 1} : late <= p /\ late + (w - 1) <= p
OBVIOUS

LEMMA InitInv == Init => IInv
<1> SUFFICES ASSUME Init PROVE IInv
  OBVIOUS
<1> QED
  BY InitType, TimesAreTimes
     DEF Init, IInv, WaitsForFirstOfAll, NoticedInTime, SleepIsShort, ActedIsPast, ActsOnce

(* A lap that is READY waits for the first instant of all, which nothing   *)
(* that was acted upon can be.                                             *)
LEMMA ReadyInv == IInv /\ Ready => IInv'
<1> SUFFICES ASSUME IInv, Ready PROVE IInv'
  OBVIOUS
<1>1. TypeOK'
  BY NextType DEF IInv, Next, Lap
<1>2. Poll \in Nat /\ overdue' = 0 /\ since' = now /\ now' = now
      /\ cold' = cold /\ close' = close /\ setBacks' = setBacks /\ acted' = acted
  BY TimesAreTimes DEF Ready, config
<1>3. CASE ~IsSet(cold) /\ ~IsSet(close)
  <2>1. pc' = "forever"
    BY <1>3 DEF Ready
  <2> QED
    BY <1>1, <1>2, <2>1
       DEF IInv, WaitsForFirstOfAll, NoticedInTime, SleepIsShort, ActedIsPast, ActsOnce
<1>4. CASE IsSet(cold) \/ IsSet(close)
  <2>1. /\ action' = IF ClosesFirst(now) THEN "TIDY_CLOSEDOWN" ELSE "COLD_RESTART"
        /\ at' = NextOccurrence(IF ClosesFirst(now) THEN close ELSE cold, now)
        /\ Sleep(at')
    BY <1>4 DEF Ready
  <2>2. now \in Datetime /\ acted \subseteq Datetime
    BY DEF IInv, TypeOK
  <2>3. IsFirstOfBoth(now, at', ClosesFirst(now))
    BY <1>4, <2>1, <2>2, ChoiceIsFirst DEF IInv
  <2>4. Before(now, at') /\ pc' = "sleeping" /\ wake' \in 0 .. Poll
    BY <1>1, <2>1, <2>3 DEF IsFirstOfBoth, Sleep, TypeOK
  <2>5. WaitsForFirstOfAll'
    <3>1. (action' = "TIDY_CLOSEDOWN") <=> ClosesFirst(now)
      BY <2>1
    <3> QED
      BY <1>2, <2>3, <3>1 DEF WaitsForFirstOfAll, IsFirstOfBoth, Occurs, IsSet
  <2>6. NoticedInTime' /\ SleepIsShort'
    <3>1. Poll \in Nat /\ overdue' = 0 /\ wake' \in 0 .. Poll
      BY <1>2, <2>4
    <3> QED
      BY <3>1, TickOfSleep DEF NoticedInTime, SleepIsShort
  <2>7. ActedIsPast' /\ ActsOnce'
    BY <1>2, <2>4 DEF IInv, ActedIsPast, ActsOnce
  <2> QED
    BY <1>1, <2>5, <2>6, <2>7 DEF IInv
<1> QED
  BY <1>3, <1>4

(* Steps that leave the instant waited for alone.                          *)
LEMMA StillFirst ==
  ASSUME WaitsForFirstOfAll, UNCHANGED <<config, at, action, since>>,
         pc' \in {"sleeping", "due"} => pc \in {"sleeping", "due"}
  PROVE  WaitsForFirstOfAll'
BY DEF WaitsForFirstOfAll, IsFirstOfBoth, Occurs, IsSet, config

LEMMA NextInv == IInv /\ [Next]_vars => IInv'
<1> SUFFICES ASSUME IInv, [Next]_vars PROVE IInv'
  OBVIOUS
<1>1. TypeOK /\ TypeOK' /\ Poll \in Nat
  BY NextType, TimesAreTimes DEF IInv
<1> USE DEF IInv, NoticedInTime, SleepIsShort, ActedIsPast, ActsOnce
<1>2. CASE Ready
  BY <1>2, ReadyInv
<1>3. CASE Wakes
  <2>1. WaitsForFirstOfAll'
    BY <1>3, StillFirst DEF Wakes
  <2>2. CASE Before(now, at)
    BY <1>1, <1>3, <2>1, <2>2 DEF Wakes, Sleep, TypeOK
  <2>3. CASE ~Before(now, at)
    BY <1>1, <1>3, <2>1, <2>3 DEF Wakes, Sleep, TypeOK
  <2> QED
    BY <2>2, <2>3
<1>4. CASE Acts
  <2>1. pc' \notin {"sleeping", "due"}
    BY <1>4 DEF Acts
  <2> QED
    BY <1>1, <1>4, <2>1 DEF Acts, WaitsForFirstOfAll
<1>5. CASE Relaunched
  BY <1>1, <1>5 DEF Relaunched, ghosts, WaitsForFirstOfAll
<1>6. CASE Tick
  <2>1. WaitsForFirstOfAll'
    BY <1>6, StillFirst DEF Tick
  <2>2. NoticedInTime' /\ SleepIsShort'
    <3>1. overdue \in Nat /\ wake \in Nat
      BY <1>1 DEF TypeOK
    <3>2. CASE pc = "sleeping"
      <4>1. wake > 0 /\ wake' = wake - 1 /\ overdue' \in {overdue, overdue + 1}
        BY <1>6, <3>1, <3>2 DEF Tick
      <4>2. overdue + wake <= Poll
        BY <3>2
      <4>3. overdue' <= Poll /\ overdue' + (wake - 1) <= Poll
        <5> HIDE DEF IInv
        <5>1. \A late \in {overdue, overdue + 1} :
                late <= Poll /\ late + (wake - 1) <= Poll
          BY <1>1, <3>1, <4>1, <4>2, TickOfSleep, Zenon
        <5> QED
          BY <4>1, <5>1, Zenon
      <4> QED
        BY <4>1, <4>3
    <3>3. CASE pc # "sleeping"
      BY <1>6, <3>3 DEF Tick
    <3> QED
      BY <3>2, <3>3
  <2>3. ActedIsPast'
    BY <1>1, <1>6, ClockType, Order DEF Tick, TypeOK
  <2> QED
    BY <1>1, <1>6, <2>1, <2>2, <2>3 DEF Tick
<1>7. CASE ClockLeaps
  <2>1. WaitsForFirstOfAll'
    BY <1>7, StillFirst DEF ClockLeaps, task, ghosts
  <2>2. ActedIsPast'
    BY <1>1, <1>7, ClockType, Order DEF ClockLeaps, task, ghosts, TypeOK
  <2> QED
    BY <1>1, <1>7, <2>1, <2>2 DEF ClockLeaps, task, ghosts
<1>8. CASE ClockSetBack
  <2>1. WaitsForFirstOfAll'
    BY <1>8, StillFirst DEF ClockSetBack, task, ghosts
  <2>2. setBacks' # 0
    BY <1>1, <1>8, TimesAreTimes DEF ClockSetBack, TypeOK
  <2> QED
    BY <1>1, <1>8, <2>1, <2>2 DEF ClockSetBack, task, ghosts
<1>9. CASE UNCHANGED vars
  <2>1. WaitsForFirstOfAll'
    BY <1>9, StillFirst DEF vars, task, ghosts
  <2> QED
    BY <1>1, <1>9, <2>1 DEF vars, task, ghosts
<1> QED
  BY <1>2, <1>3, <1>4, <1>5, <1>6, <1>7, <1>8, <1>9 DEF Next, Lap, Clock

LEMMA Inv == Spec => []IInv
BY InitInv, NextInv, PTL DEF Spec

(* _sleep_until_scheduled_shutdown waits for the first instant after its   *)
(* start that either setting names, however the clock moves meanwhile.     *)
THEOREM FirstIsWaitedFor == Spec => []WaitsForFirst
<1>1. IInv => WaitsForFirst
  <2> SUFFICES ASSUME IInv, pc \in {"sleeping", "due"}
               PROVE  /\ Before(since, at)
                      /\ action = "COLD_RESTART" <=> Occurs(cold, at)
                      /\ action = "TIDY_CLOSEDOWN" => Occurs(close, at)
                      /\ \A d \in Upcoming(since) :
                           Before(since, d) /\ Before(d, at)
                             => ~Occurs(cold, d) /\ ~Occurs(close, d)
    BY DEF WaitsForFirst
  <2>1. IsFirstOfBoth(since, at, action = "TIDY_CLOSEDOWN")
    BY DEF IInv, WaitsForFirstOfAll
  <2>2. action = "COLD_RESTART" <=> ~(action = "TIDY_CLOSEDOWN")
    BY DEF IInv, TypeOK
  <2>3. Upcoming(since) \subseteq Datetime
    BY DEF IInv, TypeOK, Upcoming, Datetime
  <2> QED
    BY <2>1, <2>2, <2>3 DEF IsFirstOfBoth
<1> QED
  BY <1>1, Inv, PTL

(* No instant is acted upon twice unless the clock was set back.           *)
THEOREM ActedUponOnce == Spec => []ActsOnce
<1>1. IInv => ActsOnce
  BY DEF IInv
<1> QED
  BY <1>1, Inv, PTL

(* A scheduled instant is noticed within _SCHEDULE_POLL_SECONDS of waking  *)
(* time, after any suspension or change of the clock.                      *)
THEOREM NoticedWithinChunk == Spec => []NoticedInTime
<1>1. IInv => NoticedInTime
  BY DEF IInv
<1> QED
  BY <1>1, Inv, PTL

=============================================================================
