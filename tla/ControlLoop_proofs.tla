-------------------------- MODULE ControlLoop_proofs --------------------------
(* Proofs about ControlLoop, for every restart cap, every number of JVMs,  *)
(* polls and stop signals, and every configuration.                        *)
EXTENDS ControlLoop, FiniteSetTheorems, TLAPS

(* TypeOK in parts, for the provers. *)
LapTypes ==
  /\ pc \in Pc
  /\ stage \in {"LOGGING_IN", "APPLYING_SETTINGS", "READY"}
  /\ finished \in {"none", "phase", "watcher", "scheduled", "process", "dispatcher"}
  /\ outcome \in Outcome
  /\ reachedReady \in BOOLEAN
  /\ exitKind \in {"none", "SHUTDOWN", "RESTART"}

LoopTypes ==
  /\ restartHash \in BOOLEAN
  /\ failed \in 0..(RestartCap + 1)
  /\ polls \in 0..MaxPolls
  /\ cleanup \in {"idle", "start", "menu", "waitExit", "term", "kill", "stop"}
  /\ result \in {"none", "REQUESTED", "CapExceeded"} \cup Cause \cup Exception
  /\ unready \in Nat

StopTypes ==
  /\ cancels \in 0..MaxCancels
  /\ cancelNoted \in BOOLEAN
  /\ heard \in BOOLEAN
  /\ abortCut \in BOOLEAN
  /\ stopReplaced \in BOOLEAN

JvmTypes ==
  /\ spawns \in 0..MaxSpawns
  /\ live \subseteq 1..MaxSpawns
  /\ signal \in {"none", "TERM", "KILL"}
  /\ exitCode \in {"none", "zero", "other"}
  /\ returncode \in {"none", "zero", "other"}

TaskTypes ==
  /\ link \in {"off", "up", "down"}
  /\ phase \in {"none", "running", "ok", "LoginFrameTimeout", "MfaTimeout",
                "LostAgent", "Fatal"}
  /\ loggedIn \in BOOLEAN
  /\ pollDied \in {"none", "LostAgent", "Fatal"}
  /\ watcher \in {"none", "running", "TransientLogin", "Fatal"}
  /\ processDone \in {"none", "running", "done"}
  /\ scheduled \in {"none", "sleeping", "COLD_RESTART", "TIDY_CLOSEDOWN"}

BetweenJvms == {"launching", "abortStop", "reapWatcher", "poll", "pollSleep", "hash"}
InLap == Pc \ {"launching", "hash", "done"}

(* A JVM that is alive is the latest one, and none is while its exit is    *)
(* known, between laps, or once the loop has ended without a cut abort.    *)
LiveInv ==
  /\ live \subseteq {spawns}
  /\ (exitCode # "none" \/ returncode # "none") => live = {}
  /\ pc \in {"abort", "shutdown"} /\ cleanup = "stop" => live = {}
  /\ pc \in BetweenJvms => live = {}
  /\ pc = "done" /\ ~abortCut => live = {}

(* What the lap ends with is decided before it ends, and a stop signal     *)
(* that was heard is the only thing that can still replace it.             *)
OutcomeInv ==
  /\ pc \in {"abort", "abortStop", "cancelPhase", "reaping", "shutdown", "reapWatcher",
             "poll", "pollSleep"}
       => outcome \in Cause \cup Exception \cup {"cancelled"}
  /\ pc \in {"poll", "pollSleep"} => outcome \in Gone
  /\ pc = "grace" => finished = "dispatcher" \/ (LostAgent(finished) /\ stage # "READY")
  /\ pc = "cancelScheduled" /\ outcome # "cancelled" =>
       \/ finished \in {"process", "dispatcher"}
       \/ finished = "watcher" /\ watcher \notin {"none", "running"}

(* A stop signal that was heard is on its way to run_control_loop's result, *)
(* or the error of the poll that replaced it is.                           *)
HeardInv ==
  /\ result # "none" => pc = "done"
  /\ (pollDied # "none" \/ stopReplaced) => ReadOnly2fa
  /\ heard =>
    \/ pc = "done" /\ result = "REQUESTED"
    \/ pc = "done" /\ stopReplaced /\ result \in {"LostAgent", "Fatal"}
    \/ /\ stopReplaced /\ outcome \in {"LostAgent", "Fatal"}
       /\ pc \in {"reaping", "shutdown", "reapWatcher"}
    \/ /\ outcome = "cancelled"
       /\ pc \in {"abort", "abortStop", "cancelPhase", "cancelScheduled", "reaping",
                  "shutdown", "reapWatcher"}
    \/ pc = "shutdown" /\ cancelNoted

(* The task that awaits process.wait is done only when the exit is known.  *)
ProcessDoneInv ==
  /\ processDone = "done" => returncode # "none"
  /\ processDone # "none" =>
       pc \in {"racing", "grace", "cancelPhase", "cancelScheduled", "reaping"}

(* _RelaunchBudget against the laps that really failed: it lags by the lap *)
(* that is running, and is exact between laps.                             *)
BudgetInv ==
  /\ pc # "done" => failed <= RestartCap
  /\ pc \in {"launching", "hash"} => unready <= failed
  /\ pc \in InLap => unready <= (IF reachedReady THEN 0 ELSE failed + 1)
  /\ unready <= RestartCap + 1

PollInv == pc = "poll" => polls < MaxPolls

LoopInv ==
  /\ TypeOK
  /\ LiveInv
  /\ OutcomeInv
  /\ HeardInv
  /\ ProcessDoneInv
  /\ BudgetInv
  /\ PollInv

-----------------------------------------------------------------------------
LEMMA TypeParts ==
  /\ TypeOK <=> LapTypes /\ LoopTypes /\ StopTypes /\ JvmTypes /\ TaskTypes
  /\ TypeOK' <=> LapTypes' /\ LoopTypes' /\ StopTypes' /\ JvmTypes' /\ TaskTypes'
BY DEF TypeOK, LapTypes, LoopTypes, StopTypes, JvmTypes, TaskTypes

LEMMA InitInv == Init => LoopInv
<1> SUFFICES ASSUME Init PROVE LoopInv
  OBVIOUS
<1> USE BoundsAssumption DEF Init
<1>1. LapTypes
  BY DEF LapTypes, Pc, Outcome
<1>2. LoopTypes
  <2>1. 0 \in 0..(RestartCap + 1) /\ 0 \in 0..MaxPolls
    OBVIOUS
  <2> QED
    BY <2>1 DEF LoopTypes
<1>3. StopTypes
  <2>1. 0 \in 0..MaxCancels
    OBVIOUS
  <2> QED
    BY <2>1 DEF StopTypes
<1>4. JvmTypes
  BY DEF JvmTypes
<1>5. TaskTypes
  BY DEF TaskTypes
<1>6. LiveInv /\ OutcomeInv /\ HeardInv
  BY DEF LiveInv, OutcomeInv, HeardInv
<1>7. ProcessDoneInv /\ BudgetInv /\ PollInv
  BY DEF ProcessDoneInv, BudgetInv, PollInv, InLap
<1> QED
  BY <1>1, <1>2, <1>3, <1>4, <1>5, <1>6, <1>7, TypeParts DEF LoopInv

(* launch_instance and its failures: the JVM it started goes before it raises. *)
LEMMA LaunchInv ==
  ASSUME LoopInv, Launch
  PROVE  LoopInv'
<1> USE BoundsAssumption, ConfigAssumption
        DEF LoopInv, TypeOK, LiveInv, OutcomeInv, HeardInv, ProcessDoneInv, BudgetInv,
            PollInv, BetweenJvms, InLap, Pc, Outcome, Cause, Gone, Exception, Relaunched,
            LostAgent, lap, loop, process, login, tasks, stop
<1>1. CASE Spawn
  <2>1. TypeOK'
    <3>1. LapTypes'
      BY <1>1 DEF LapTypes, Spawn
    <3>2. LoopTypes'
      BY <1>1 DEF LoopTypes, Spawn
    <3>3. StopTypes'
      BY <1>1 DEF StopTypes, Spawn
    <3>4. JvmTypes'
      BY <1>1 DEF JvmTypes, Spawn
    <3>5. TaskTypes'
      <4>1. UNCHANGED <<link, phase, pollDied, watcher, processDone, scheduled>>
            /\ loggedIn' = FALSE
        BY <1>1 DEF Spawn
      <4>2. TaskTypes
        BY TypeParts
      <4> HIDE DEF LoopInv, LiveInv, OutcomeInv, HeardInv, ProcessDoneInv, BudgetInv
      <4>3. loggedIn' \in BOOLEAN
        BY <4>1
      <4>4. link' \in {"off", "up", "down"}
        BY <4>1, <4>2 DEF TaskTypes
      <4>5. pollDied' \in {"none", "LostAgent", "Fatal"}
        BY <4>1, <4>2 DEF TaskTypes
      <4>6. phase' \in {"none", "running", "ok", "LoginFrameTimeout", "MfaTimeout",
                "LostAgent", "Fatal"}
        BY <4>1, <4>2 DEF TaskTypes
      <4> QED
        BY <4>1, <4>2, <4>3, <4>4, <4>5, <4>6 DEF TaskTypes
    <3> QED
      BY <3>1, <3>2, <3>3, <3>4, <3>5, TypeParts
  <2>2. (LiveInv /\ OutcomeInv /\ HeardInv)'
    BY <1>1 DEF Spawn
  <2>3. (ProcessDoneInv /\ BudgetInv /\ PollInv)'
    BY <1>1 DEF Spawn
  <2> QED
    BY <2>1, <2>2, <2>3
<1>2. CASE SpawnFails
  BY <1>2 DEF SpawnFails, Return
<1>3. CASE AgentReady
  BY <1>3 DEF AgentReady
<1>4. CASE LaunchFails
  BY <1>4 DEF LaunchFails, Terminate
<1>5. CASE AbortDone
  BY <1>5 DEF AbortDone
<1>6. CASE LaunchRaises
  BY <1>6 DEF LaunchRaises, Return
<1> QED
  BY <1>1, <1>2, <1>3, <1>4, <1>5, <1>6 DEF Launch

(* The race of a lap and what it is classified as. *)
LEMMA RaceInv ==
  ASSUME LoopInv, Race
  PROVE  LoopInv'
<1> USE BoundsAssumption, ConfigAssumption
        DEF LoopInv, TypeOK, LiveInv, OutcomeInv, HeardInv, ProcessDoneInv, BudgetInv,
            PollInv, BetweenJvms, InLap, Pc, Outcome, Cause, Gone, Exception, Relaunched,
            LostAgent, lap, loop, process, login, tasks, stop
<1>1. CASE WakeUp
  <2>1. TypeOK'
    <3>1. LapTypes'
      <4>1. outcome' \in Outcome
        BY <1>1 DEF WakeUp, FirstDone, Done, MainTask, ArgumentOrder, Classify,
                    LeavePhase, EnterFinally, Verdict, GoneCause
      <4>2. pc' \in Pc /\ finished' # "none"
        BY <1>1 DEF WakeUp, Classify, LeavePhase, EnterFinally
      <4>3. stage' \in {"LOGGING_IN", "APPLYING_SETTINGS", "READY"} /\ reachedReady' \in BOOLEAN
        BY <1>1 DEF WakeUp, Classify, LeavePhase, EnterFinally
      <4> QED
        BY <1>1, <4>1, <4>2, <4>3 DEF LapTypes, WakeUp
    <3>2. LoopTypes'
      BY <1>1 DEF LoopTypes, WakeUp, FirstDone, Done, MainTask, ArgumentOrder,
                  Classify, LeavePhase, EnterFinally, Verdict, GoneCause
    <3>3. StopTypes'
      BY <1>1 DEF StopTypes, WakeUp, FirstDone, Done, MainTask, ArgumentOrder,
                  Classify, LeavePhase, EnterFinally, Verdict, GoneCause
    <3>4. JvmTypes'
      BY <1>1 DEF JvmTypes, WakeUp, FirstDone, Done, MainTask, ArgumentOrder,
                  Classify, LeavePhase, EnterFinally, Verdict, GoneCause
    <3>5. TaskTypes'
      BY <1>1 DEF TaskTypes, WakeUp, FirstDone, Done, MainTask, ArgumentOrder,
                  Classify, LeavePhase, EnterFinally, Verdict, GoneCause
    <3> QED
      BY <3>1, <3>2, <3>3, <3>4, <3>5, TypeParts
  <2>2. (LiveInv /\ OutcomeInv /\ HeardInv)'
    BY <1>1 DEF WakeUp, FirstDone, Done, MainTask, ArgumentOrder, Classify,
                LeavePhase, EnterFinally, Verdict, GoneCause
  <2>3. (ProcessDoneInv /\ BudgetInv /\ PollInv)'
    BY <1>1 DEF WakeUp, FirstDone, Done, MainTask, ArgumentOrder, Classify,
                LeavePhase, EnterFinally, Verdict, GoneCause
  <2> QED
    BY <2>1, <2>2, <2>3
<1>2. CASE GraceEnds
  BY <1>2 DEF GraceEnds, Classify, LeavePhase, EnterFinally, Verdict, GoneCause
<1>3. CASE PhaseCancelled
  BY <1>3 DEF PhaseCancelled
<1>4. CASE ScheduledCancelled
  BY <1>4 DEF ScheduledCancelled, EnterFinally, Verdict, GoneCause
<1> QED
  BY <1>1, <1>2, <1>3, <1>4 DEF Race

(* The finally clause's clean_shutdown: it ends only with the JVM gone. *)
LEMMA ShutdownInv ==
  ASSUME LoopInv, Shutdown
  PROVE  LoopInv'
<1> USE BoundsAssumption, ConfigAssumption
        DEF LoopInv, TypeOK, LiveInv, OutcomeInv, HeardInv, ProcessDoneInv, BudgetInv,
            PollInv, BetweenJvms, InLap, Pc, Outcome, Cause, Gone, Exception, Relaunched,
            LostAgent, lap, loop, process, login, tasks, stop
<1>1. CASE Reaped
  <2>1. TypeOK'
    <3>1. LapTypes'
      BY <1>1 DEF LapTypes, Reaped
    <3>2. LoopTypes'
      BY <1>1 DEF LoopTypes, Reaped
    <3>3. StopTypes'
      BY <1>1 DEF StopTypes, Reaped
    <3>4. JvmTypes'
      BY <1>1 DEF JvmTypes, Reaped
    <3>5. TaskTypes'
      BY <1>1 DEF TaskTypes, Reaped
    <3> QED
      BY <3>1, <3>2, <3>3, <3>4, <3>5, TypeParts
  <2>2. (LiveInv /\ OutcomeInv /\ HeardInv)'
    BY <1>1 DEF Reaped
  <2>3. (ProcessDoneInv /\ BudgetInv /\ PollInv)'
    BY <1>1 DEF Reaped
  <2> QED
    BY <2>1, <2>2, <2>3
<1>2. CASE ShutdownStarts
  <2>1. TypeOK'
    BY <1>2 DEF ShutdownStarts, Terminate
  <2>2. (LiveInv /\ OutcomeInv /\ HeardInv)'
    BY <1>2 DEF ShutdownStarts, Terminate
  <2>3. (ProcessDoneInv /\ BudgetInv /\ PollInv)'
    BY <1>2 DEF ShutdownStarts, Terminate
  <2> QED
    BY <2>1, <2>2, <2>3
<1>3. CASE MenuNavigated
  BY <1>3 DEF MenuNavigated
<1>4. CASE MenuLost
  BY <1>4 DEF MenuLost, Terminate
<1>5. CASE ExitTimesOut
  BY <1>5 DEF ExitTimesOut, Terminate
<1>6. CASE TermTimesOut
  BY <1>6 DEF TermTimesOut
<1>7. CASE ExitSeen
  BY <1>7 DEF ExitSeen
<1>8. CASE ShutdownDone
  <2>1. TypeOK'
    <3>1. LapTypes'
      BY <1>8 DEF LapTypes, ShutdownDone
    <3>2. LoopTypes'
      BY <1>8 DEF LoopTypes, ShutdownDone
    <3>3. StopTypes'
      BY <1>8 DEF StopTypes, ShutdownDone
    <3>4. JvmTypes'
      BY <1>8 DEF JvmTypes, ShutdownDone
    <3>5. TaskTypes'
      BY <1>8 DEF TaskTypes, ShutdownDone
    <3> QED
      BY <3>1, <3>2, <3>3, <3>4, <3>5, TypeParts
  <2>2. (LiveInv /\ OutcomeInv /\ HeardInv)'
    BY <1>8 DEF ShutdownDone
  <2>3. (ProcessDoneInv /\ BudgetInv /\ PollInv)'
    BY <1>8 DEF ShutdownDone
  <2> QED
    BY <2>1, <2>2, <2>3
<1> QED
  BY <1>1, <1>2, <1>3, <1>4, <1>5, <1>6, <1>7, <1>8 DEF Shutdown

(* run_control_loop between two laps: what is counted, what is relaunched. *)
LEMMA RelaunchInv ==
  ASSUME LoopInv, Relaunch
  PROVE  LoopInv'
<1> USE BoundsAssumption, ConfigAssumption
        DEF LoopInv, TypeOK, LiveInv, OutcomeInv, HeardInv, ProcessDoneInv, BudgetInv,
            PollInv, BetweenJvms, InLap, Pc, Outcome, Cause, Gone, Exception, Relaunched,
            LostAgent, lap, loop, process, login, tasks, stop
<1>1. CASE LapEnds
  <2>1. TypeOK'
    BY <1>1 DEF LapEnds, NoteAnd, Relaunches, PollsMarker, Return
  <2>2. (LiveInv /\ OutcomeInv /\ HeardInv)'
    BY <1>1 DEF LapEnds, NoteAnd, Relaunches, PollsMarker, Return
  <2>3. (ProcessDoneInv /\ BudgetInv /\ PollInv)'
    BY <1>1 DEF LapEnds, NoteAnd, Relaunches, PollsMarker, Return
  <2> QED
    BY <2>1, <2>2, <2>3
<1>2. CASE PollMarker
  BY <1>2 DEF PollMarker, NoteAnd, Return
<1>3. CASE PollAgain
  BY <1>3 DEF PollAgain
<1>4. CASE PollGivesUp
  <2>1. TypeOK'
    <3>1. LapTypes'
      BY <1>4 DEF LapTypes, PollGivesUp, NoteAnd, Return
    <3>2. LoopTypes'
      <4>1. failed' \in 0..(RestartCap + 1) /\ polls' \in 0..MaxPolls
        BY <1>4 DEF PollGivesUp, NoteAnd, Return
      <4>2. result' \in {"none", "CapExceeded"} \cup Cause
        BY <1>4 DEF PollGivesUp, NoteAnd, Return
      <4>3. restartHash' \in BOOLEAN
        BY <1>4 DEF PollGivesUp, NoteAnd, Return
      <4> QED
        BY <1>4, <4>1, <4>2, <4>3 DEF LoopTypes, PollGivesUp
    <3>3. StopTypes'
      BY <1>4 DEF StopTypes, PollGivesUp, NoteAnd, Return
    <3>4. JvmTypes'
      BY <1>4 DEF JvmTypes, PollGivesUp, NoteAnd, Return
    <3>5. TaskTypes'
      BY <1>4 DEF TaskTypes, PollGivesUp, NoteAnd, Return
    <3> QED
      BY <3>1, <3>2, <3>3, <3>4, <3>5, TypeParts
  <2>2. (LiveInv /\ OutcomeInv /\ HeardInv)'
    BY <1>4 DEF PollGivesUp, NoteAnd, Return
  <2>3. (ProcessDoneInv /\ BudgetInv /\ PollInv)'
    BY <1>4 DEF PollGivesUp, NoteAnd, Return
  <2> QED
    BY <2>1, <2>2, <2>3
<1>5. CASE HashFound
  <2>1. TypeOK'
    BY <1>5 DEF HashFound
  <2>2. (LiveInv /\ OutcomeInv /\ HeardInv)'
    BY <1>5 DEF HashFound
  <2>3. (ProcessDoneInv /\ BudgetInv /\ PollInv)'
    BY <1>5 DEF HashFound
  <2> QED
    BY <2>1, <2>2, <2>3
<1> QED
  BY <1>1, <1>2, <1>3, <1>4, <1>5 DEF Relaunch

(* A stop signal, at every await. *)
LEMMA CancelInv ==
  ASSUME LoopInv, Cancel
  PROVE  LoopInv'
<1> USE BoundsAssumption, ConfigAssumption
        DEF LoopInv, TypeOK, LiveInv, OutcomeInv, HeardInv, ProcessDoneInv, BudgetInv,
            PollInv, BetweenJvms, InLap, Pc, Outcome, Cause, Gone, Exception, Relaunched,
            LostAgent, lap, loop, process, login, tasks, stop
<1>1. CASE CancelIdle
  BY <1>1 DEF CancelIdle, Signalled, Return
<1>2. CASE CancelLaunch
  BY <1>2 DEF CancelLaunch, Signalled, Terminate
<1>3. CASE CancelAbort
  BY <1>3 DEF CancelAbort, Signalled, Return
<1>4. CASE CancelRace
  BY <1>4 DEF CancelRace, Signalled
<1>5. CASE CancelSwallowed
  BY <1>5 DEF CancelSwallowed, Signalled
<1>6. CASE CancelShutdown
  BY <1>6 DEF CancelShutdown, Signalled
<1> QED
  BY <1>1, <1>2, <1>3, <1>4, <1>5, <1>6 DEF Cancel

(* The JVM, the child watcher and the tasks of the lap. *)
LEMMA EnvironmentInv ==
  ASSUME LoopInv, Environment
  PROVE  LoopInv'
<1> USE BoundsAssumption, ConfigAssumption
        DEF LoopInv, TypeOK, LiveInv, OutcomeInv, HeardInv, ProcessDoneInv, BudgetInv,
            PollInv, BetweenJvms, InLap, Pc, Outcome, Cause, Gone, Exception, Relaunched,
            LostAgent, lap, loop, process, login, tasks, stop
<1>1. CASE Exits
  BY <1>1 DEF Exits, JvmExits
<1>2. CASE ChildWatched
  BY <1>2 DEF ChildWatched
<1>3. CASE ProcessWaited
  BY <1>3 DEF ProcessWaited
<1>4. CASE LinkDrops
  BY <1>4 DEF LinkDrops
<1>5. CASE LoginSucceeds
  BY <1>5 DEF LoginSucceeds
<1>6. ASSUME NEW o \in {"ok", "LoginFrameTimeout", "MfaTimeout", "LostAgent", "Fatal"},
             PhaseEnds(o)
      PROVE  LoopInv'
  BY <1>6 DEF PhaseEnds
<1>10. ASSUME NEW o \in {"LostAgent", "Fatal"}, PollDies(o)
       PROVE  LoopInv'
  BY <1>10 DEF PollDies
<1>7. ASSUME NEW o \in {"TransientLogin", "Fatal"}, WatcherEnds(o)
      PROVE  LoopInv'
  BY <1>7 DEF WatcherEnds
<1>8. ASSUME NEW o \in {"COLD_RESTART", "TIDY_CLOSEDOWN"}, ScheduleFires(o)
      PROVE  LoopInv'
  BY <1>8 DEF ScheduleFires
<1>9. ASSUME NEW kind \in {"SHUTDOWN", "RESTART"}, ExitWindow(kind)
      PROVE  LoopInv'
  BY <1>9 DEF ExitWindow
<1> QED
  BY <1>1, <1>2, <1>3, <1>4, <1>5, <1>6, <1>7, <1>8, <1>9, <1>10 DEF Environment

LEMMA AlwaysInv == Spec => []LoopInv
<1>1. LoopInv /\ [Next]_vars => LoopInv'
  <2> SUFFICES ASSUME LoopInv, [Next]_vars PROVE LoopInv'
    OBVIOUS
  <2>1. CASE LoopStep
    BY <2>1, LaunchInv, RaceInv, ShutdownInv, RelaunchInv DEF LoopStep
  <2>2. CASE Cancel
    BY <2>2, CancelInv
  <2>3. CASE Environment
    BY <2>3, EnvironmentInv
  <2>4. CASE UNCHANGED vars
    BY <2>4 DEF vars, lap, loop, process, login, tasks, stop, LoopInv, TypeOK, LiveInv, OutcomeInv,
                HeardInv, ProcessDoneInv, BudgetInv, PollInv, LostAgent
  <2> QED
    BY <2>1, <2>2, <2>3, <2>4 DEF Next
<1> QED
  BY InitInv, <1>1, PTL DEF Spec

-----------------------------------------------------------------------------
(* Every variable keeps its type, the counters their bounds.               *)
THEOREM TypeCorrect == Spec => []TypeOK
<1>1. LoopInv => TypeOK
  BY DEF LoopInv
<1> QED
  BY <1>1, AlwaysInv, PTL

(* However a lap ends, its JVM has gone before the next is spawned         *)
(* (_run_one_cycle's finally clause, terminate_and_wait).                  *)
THEOREM NeverTwoJvms == Spec => []OneJvm
<1>1. LoopInv => OneJvm
  <2> SUFFICES ASSUME LoopInv PROVE OneJvm
    OBVIOUS
  <2>1. live = {} \/ live = {spawns}
    BY DEF LoopInv, LiveInv
  <2> QED
    <3>1. Cardinality({}) = 0 /\ Cardinality({spawns}) = 1
      BY FS_EmptySet, FS_Singleton
    <3> QED
      BY <2>1, <3>1 DEF OneJvm
<1> QED
  BY <1>1, AlwaysInv, PTL

(* run_control_loop leaves no JVM behind, unless a stop signal cut the     *)
(* wait for _abort_launch.                                                 *)
THEOREM NoJvmLeft == Spec => []NothingLeftRunning
<1>1. LoopInv => NothingLeftRunning
  BY DEF LoopInv, LiveInv, NothingLeftRunning
<1> QED
  BY <1>1, AlwaysInv, PTL

(* Whatever kinds of relaunch alternate, at most restart_cap of them in a  *)
(* row follow laps that never reached READY (_RelaunchBudget.note).        *)
THEOREM CapHolds == Spec => []RestartCapHolds
<1>1. LoopInv => RestartCapHolds
  BY DEF LoopInv, BudgetInv, RestartCapHolds
<1> QED
  BY <1>1, AlwaysInv, PTL

(* Once a stop signal has been heard no JVM is spawned, and the loop       *)
(* returns nothing but REQUESTED, whatever else goes wrong on the way; on  *)
(* live TWS with read_only_login it may raise what the login's poll of the *)
(* 2FA frame died of.                                                      *)
THEOREM StopFinal == Spec => StopIsFinal
<1> DEFINE Final ==
      /\ spawns' = spawns
      /\ \/ result' \in {"none", "REQUESTED"}
         \/ /\ ReadOnly2fa /\ stopReplaced
            /\ result' \in {"LostAgent", "Fatal"}
<1>1. LoopInv /\ [Next]_vars => [heard => Final]_vars
  <2> SUFFICES ASSUME LoopInv, Next, heard
               PROVE  Final
    BY DEF vars, loop, process
  <2> USE DEF LoopInv, OutcomeInv, HeardInv, TypeOK, Gone, Cause, Exception, Relaunched,
              lap, loop, process, login, tasks, stop
  <2>1. CASE Launch
    BY <2>1 DEF Launch, Spawn, SpawnFails, AgentReady, LaunchFails, AbortDone,
                LaunchRaises, Return
  <2>2. CASE Race
    BY <2>2 DEF Race, WakeUp, GraceEnds, PhaseCancelled, ScheduledCancelled
  <2>3. CASE Shutdown
    BY <2>3 DEF Shutdown, Reaped, ShutdownStarts, MenuNavigated, MenuLost,
                ExitTimesOut, TermTimesOut, ExitSeen, ShutdownDone, Terminate
  <2>4. CASE Relaunch
    BY <2>4 DEF Relaunch, LapEnds, PollMarker, PollAgain, PollGivesUp, HashFound,
                Relaunches, PollsMarker, Return
  <2>5. CASE Cancel
    BY <2>5 DEF Cancel, CancelIdle, CancelLaunch, CancelAbort, CancelRace,
                CancelSwallowed, CancelShutdown, Return
  <2>6. CASE Environment
    BY <2>6 DEF Environment, Exits, JvmExits, ChildWatched, ProcessWaited,
                LinkDrops, LoginSucceeds, PollDies, PhaseEnds, WatcherEnds, ScheduleFires,
                ExitWindow
  <2> QED
    BY <2>1, <2>2, <2>3, <2>4, <2>5, <2>6 DEF Next, LoopStep
<1> QED
  BY <1>1, AlwaysInv, PTL DEF Spec, StopIsFinal

(* CONNECTION_LOST is reported only after the grace period and for a JVM   *)
(* whose exit is still unknown (_wait_for_first_completion).               *)
THEOREM ExitNotLostConnection == Spec => ExitIsNotLostConnection
<1>1. LoopInv /\ [Next]_vars =>
        [outcome' = "CONNECTION_LOST" /\ outcome # "CONNECTION_LOST"
           => returncode = "none" /\ pc \in {"grace", "cancelPhase", "cancelScheduled"}]_vars
  <2> SUFFICES ASSUME LoopInv, Next,
                      outcome' = "CONNECTION_LOST", outcome # "CONNECTION_LOST"
               PROVE  returncode = "none" /\ pc \in {"grace", "cancelPhase", "cancelScheduled"}
    BY DEF vars, loop, process
  <2> USE DEF LoopInv, TypeOK, OutcomeInv, ProcessDoneInv, lap, loop, process, login, tasks, stop
  <2>1. CASE Launch
    BY <2>1 DEF Launch, Spawn, SpawnFails, AgentReady, LaunchFails, AbortDone,
                LaunchRaises, Return
  <2>2. CASE Race
    BY <2>2 DEF Race, WakeUp, GraceEnds, PhaseCancelled, ScheduledCancelled,
                FirstDone, Done, MainTask, ArgumentOrder, Classify, LeavePhase,
                EnterFinally, Verdict, GoneCause, LostAgent
  <2>3. CASE Shutdown
    BY <2>3 DEF Shutdown, Reaped, ShutdownStarts, MenuNavigated, MenuLost,
                ExitTimesOut, TermTimesOut, ExitSeen, ShutdownDone, Terminate
  <2>4. CASE Relaunch
    BY <2>4 DEF Relaunch, LapEnds, PollMarker, PollAgain, PollGivesUp, HashFound,
                Relaunches, PollsMarker, Return
  <2>5. CASE Cancel
    BY <2>5 DEF Cancel, CancelIdle, CancelLaunch, CancelAbort, CancelRace,
                CancelSwallowed, CancelShutdown, Return
  <2>6. CASE Environment
    BY <2>6 DEF Environment, Exits, JvmExits, ChildWatched, ProcessWaited,
                LinkDrops, LoginSucceeds, PollDies, PhaseEnds, WatcherEnds, ScheduleFires,
                ExitWindow
  <2> QED
    BY <2>1, <2>2, <2>3, <2>4, <2>5, <2>6 DEF Next, LoopStep
<1> QED
  BY <1>1, AlwaysInv, PTL DEF Spec, ExitIsNotLostConnection
=============================================================================
