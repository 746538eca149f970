------------------------------- MODULE Schedule -------------------------------
(***************************************************************************)
(* L5 schedule and its use in L6: next_scheduled_shutdown, and the task    *)
(* _sleep_until_scheduled_shutdown that a lap starts when it is READY.     *)
(*                                                                         *)
(* A datetime is a date and a time of day, as in the code, and a setting   *)
(* is what its text parses to.  The clock is that of the host: it may be   *)
(* set, and the host may be suspended, while asyncio.sleep counts ticks.   *)
(***************************************************************************)
EXTENDS Integers

CONSTANTS
  DayLength,       (* ticks of a day                                       *)
  Minute,          (* ticks of a minute, which a setting's time is given in *)
  Poll,            (* _SCHEDULE_POLL_SECONDS                               *)
  Horizon,         (* bound: the day no lap starts on, and the clock stops *)
  Weekdays,        (* bound: the weekdays a closedown may name             *)
  MaxSetBacks      (* bound: times the clock is set back                   *)

ASSUME ScheduleAssumption ==
  /\ {DayLength, Minute, Poll} \subseteq Nat \ {0}
  /\ {Horizon, MaxSetBacks} \subseteq Nat
  /\ Weekdays \subseteq 0 .. 6

Time     == 0 .. (DayLength - 1)
Datetime == [day : Nat, time : Time]

(* What the two settings parse to: nothing for one that is unset or        *)
(* malformed (parse_closedown_at, _parse_hhmm).  Monday is 0, Sunday 6.    *)
OnMinute    == {t \in Time : t % Minute = 0}
EveryDay    == 7
NoSetting   == [weekday |-> EveryDay, time |-> -1]
ColdRestart == [weekday : {6}, time : OnMinute] \cup {NoSetting}
Closedown   == [weekday : Weekdays \cup {EveryDay}, time : OnMinute] \cup {NoSetting}
IsSet(s)    == s.time # -1

VARIABLES
  cold,            (* Config.cold_restart_time                             *)
  close,           (* Config.closedown_at                                  *)
  now,             (* datetime.now()                                       *)
  pc,              (* the lap: before READY, asleep, acting, ended         *)
  at,              (* ScheduledShutdown.at                                 *)
  action,          (* ScheduledShutdown.action                             *)
  wake,            (* ticks left of asyncio.sleep                          *)
  setBacks,        (* times the clock was set back                         *)
  since,           (* ghost: now, when at was computed                     *)
  overdue,         (* ghost: ticks of this sleep since at has passed       *)
  acted            (* ghost: the instants acted upon                       *)

ghosts == <<since, overdue, acted>>
config == <<cold, close>>
task   == <<at, action, wake>>
vars   == <<config, now, pc, task, setBacks, ghosts>>

TypeOK ==
  /\ cold \in ColdRestart
  /\ close \in Closedown
  /\ {now, at, since} \subseteq Datetime
  /\ pc \in {"starting", "sleeping", "forever", "due", "ended"}
  /\ action \in {"COLD_RESTART", "TIDY_CLOSEDOWN"}
  /\ wake \in 0 .. Poll
  /\ setBacks \in 0 .. MaxSetBacks
  /\ overdue \in Nat
  /\ acted \subseteq Datetime

-----------------------------------------------------------------------------
(* schedule.py *)

Before(a, b)  == a.day < b.day \/ (a.day = b.day /\ a.time < b.time)
DaysOn(d, n)  == [d EXCEPT !.day = @ + n]
Weekday(d)    == d.day % 7

(* Mutant: the present minute counts as the next one. *)
NextOrPresent(s, t) ==
  LET today == [t EXCEPT !.time = s.time]
      slot  == IF s.weekday = EveryDay
                 THEN today ELSE DaysOn(today, (s.weekday - Weekday(t)) % 7)
      step  == IF s.weekday = EveryDay THEN 1 ELSE 7
  IN IF Before(slot, t) THEN DaysOn(slot, step) ELSE slot

(* Mutant: a weekday that has passed is looked for in the past. *)
NextUnwrapped(s, t) ==
  LET today == [t EXCEPT !.time = s.time]
      slot  == IF s.weekday = EveryDay
                 THEN today ELSE DaysOn(today, IF s.weekday >= Weekday(t)
                                               THEN s.weekday - Weekday(t) ELSE 0)
      step  == IF s.weekday = EveryDay THEN 1 ELSE 7
  IN IF Before(t, slot) THEN slot ELSE DaysOn(slot, step)

(* _next_occurrence *)
NextOccurrence(s, t) ==
  LET today == [t EXCEPT !.time = s.time]
      slot  == IF s.weekday = EveryDay
                 THEN today ELSE DaysOn(today, (s.weekday - Weekday(t)) % 7)
      step  == IF s.weekday = EveryDay THEN 1 ELSE 7
  IN IF Before(t, slot) THEN slot ELSE DaysOn(slot, step)

(* Mutant: a tie goes to the closedown. *)
TieCloses(t) ==
  /\ IsSet(close)
  /\ IsSet(cold) => ~Before(NextOccurrence(cold, t), NextOccurrence(close, t))

(* The sort's first candidate is the closedown: a tie is a cold restart. *)
ClosesFirst(t) ==
  /\ IsSet(close)
  /\ IsSet(cold) => Before(NextOccurrence(close, t), NextOccurrence(cold, t))

-----------------------------------------------------------------------------
(* _sleep_until_scheduled_shutdown *)

Ticks(d)        == d.day * DayLength + d.time
Remaining(a, t) == Ticks(a) - Ticks(t)
Least(m, n)     == IF m < n THEN m ELSE n

(* Mutant: one sleep for the whole delay. *)
SleepThrough(a) ==
  IF Before(now, a)
    THEN pc' = "sleeping" /\ wake' = Remaining(a, now)
    ELSE pc' = "due" /\ wake' = 0

(* The loop: asleep for one more chunk, or done. *)
Sleep(a) ==
  IF Before(now, a)
    THEN pc' = "sleeping" /\ wake' = Least(Remaining(a, now), Poll)
    ELSE pc' = "due" /\ wake' = 0

(* The lap is READY, and the task starts. *)
Ready ==
  /\ pc = "starting"
  /\ now.day < Horizon
  /\ since' = now
  /\ overdue' = 0
  /\ IF ~IsSet(cold) /\ ~IsSet(close)
       THEN pc' = "forever" /\ UNCHANGED task
       ELSE LET closes == ClosesFirst(now) IN
            /\ action' = IF closes THEN "TIDY_CLOSEDOWN" ELSE "COLD_RESTART"
            /\ at' = NextOccurrence(IF closes THEN close ELSE cold, now)
            /\ Sleep(at')
  /\ UNCHANGED <<config, now, setBacks, acted>>

(* Mutant: every chunk asks for the next shutdown again. *)
WakesAndAsksAgain ==
  /\ pc = "sleeping"
  /\ wake = 0
  /\ at' = NextOccurrence(IF ClosesFirst(now) THEN close ELSE cold, now)
  /\ Sleep(at')
  /\ overdue' = IF Before(now, at) THEN 0 ELSE overdue
  /\ UNCHANGED <<config, now, action, setBacks, since, acted>>

Wakes ==
  /\ pc = "sleeping"
  /\ wake = 0
  /\ Sleep(at)
  /\ overdue' = IF Before(now, at) THEN 0 ELSE overdue
  /\ UNCHANGED <<config, now, at, action, setBacks, since, acted>>

(* The race of READY is over: clean_shutdown, and run_control_loop starts  *)
(* the next lap or returns.                                                *)
Acts ==
  /\ pc = "due"
  /\ pc' = IF action = "COLD_RESTART" THEN "starting" ELSE "ended"
  /\ acted' = acted \cup {at}
  /\ UNCHANGED <<config, now, task, setBacks, since, overdue>>

(* Something else ended the lap, and the application is relaunched. *)
Relaunched ==
  /\ pc \in {"sleeping", "forever"}
  /\ pc' = "starting"
  /\ UNCHANGED <<config, now, task, setBacks, ghosts>>

-----------------------------------------------------------------------------
(* The clock (external) *)

After1(d) == IF d.time + 1 < DayLength THEN [d EXCEPT !.time = @ + 1]
                                       ELSE [day |-> d.day + 1, time |-> 0]

(* A sleep is not late by a tick: the event loop has nothing to wait for. *)
Tick ==
  /\ now.day < Horizon \/ (pc = "sleeping" /\ ~Before(now, at))
  /\ pc = "sleeping" => wake > 0
  /\ pc # "due"
  /\ now' = After1(now)
  /\ IF pc = "sleeping"
       THEN /\ wake' = wake - 1
            /\ overdue' = overdue + (IF Before(now, at) THEN 0 ELSE 1)
       ELSE UNCHANGED <<wake, overdue>>
  /\ UNCHANGED <<config, pc, at, action, setBacks, since, acted>>

(* The host was suspended, or the clock set forward (daylight saving):     *)
(* asyncio.sleep does not count that time.                                 *)
ClockLeaps ==
  /\ now.day < Horizon
  /\ now' \in {After1(now), DaysOn(now, 1)}
  /\ UNCHANGED <<config, pc, task, setBacks, ghosts>>

ClockSetBack ==
  /\ setBacks < MaxSetBacks
  /\ now.time > 0
  /\ now' = [now EXCEPT !.time = @ - 1]
  /\ setBacks' = setBacks + 1
  /\ UNCHANGED <<config, pc, task, ghosts>>

Init ==
  /\ cold \in ColdRestart
  /\ close \in Closedown
  /\ now \in [day : 0 .. 6, time : Time]
  /\ pc = "starting"
  /\ at = now /\ since = now
  /\ action = "COLD_RESTART"
  /\ wake = 0 /\ setBacks = 0 /\ overdue = 0
  /\ acted = {}

Lap   == Ready \/ Wakes \/ Acts
Clock == Tick \/ ClockLeaps \/ ClockSetBack
Next  == Lap \/ Relaunched \/ Clock

(* Time passes and the event loop runs. *)
Spec == Init /\ [][Next]_vars /\ WF_vars(Lap) /\ WF_vars(Tick)

-----------------------------------------------------------------------------
(* What the settings mean, independently of the computation.               *)
Occurs(s, d) ==
  IsSet(s) /\ d.time = s.time /\ (s.weekday = EveryDay \/ s.weekday = Weekday(d))

(* The week that follows an instant, and that instant's own day.           *)
Upcoming(d) == [day : d.day .. (d.day + 7), time : Time]

(* A sleeping task waits for the first instant after its start that either *)
(* setting names, and for a cold restart if that setting names it too      *)
(* (next_scheduled_shutdown, and README.md: whichever occurs first wins).  *)
WaitsForFirst ==
  pc \in {"sleeping", "due"} =>
    /\ Before(since, at)
    /\ action = "COLD_RESTART" <=> Occurs(cold, at)
    /\ action = "TIDY_CLOSEDOWN" => Occurs(close, at)
    /\ \A d \in Upcoming(since) :
         Before(since, d) /\ Before(d, at) => ~Occurs(cold, d) /\ ~Occurs(close, d)

(* An instant is acted upon once although the next lap computes its own:   *)
(* a cold restart takes less than the minute it is due in.  A clock that   *)
(* is set back may repeat it.                                              *)
ActsOnce == pc \in {"sleeping", "due"} /\ setBacks = 0 => at \notin acted

(* However the clock moves under a sleeping task, it notices within one    *)
(* chunk that its time has come (_SCHEDULE_POLL_SECONDS).                  *)
NoticedInTime == overdue <= Poll

(* A task that has begun to wait for an instant within the horizon ends,   *)
(* by that instant or with its lap.                                        *)
SleepEnds ==
  (pc = "sleeping" /\ at.day < Horizon) ~> (pc \in {"due", "starting"})

=============================================================================
