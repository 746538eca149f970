----------------------------- MODULE ControlLoop -----------------------------
(***************************************************************************)
(* L6: run_control_loop and its laps (_run_one_cycle), with launch_instance *)
(* and clean_shutdown, which the same asyncio task runs.                    *)
(*                                                                         *)
(* pc is the await at which that task is suspended; an action is the run   *)
(* of the task from one await to the next, or a step of something it waits *)
(* for: the JVM, the child watcher, the dispatcher's tasks, the login and  *)
(* settings phases, the window watcher, the schedule, a stop signal.       *)
(* Task.cancel() raises CancelledError at the await named by pc.           *)
(***************************************************************************)
EXTENDS Naturals, FiniteSets

CONSTANTS
  RestartCap,      (* Config.restart_cap                                   *)
  MaxSpawns,       (* bound: JVMs started over the run                     *)
  MaxCancels,      (* bound: stop signals over the run                     *)
  MaxPolls,        (* bound: polls of _is_restart_with_grace               *)
  Program,         (* Config.program                                       *)
  MfaAction,       (* Config.mfa_timeout_action                            *)
  ReadOnly2fa,     (* live TWS with Config.read_only_login                 *)
  Diagnosing       (* Config.diagnostic_when is not NEVER                  *)

ASSUME BoundsAssumption ==
  /\ RestartCap \in Nat
  /\ MaxSpawns \in Nat
  /\ MaxCancels \in Nat
  /\ MaxPolls \in Nat \ {0}

ASSUME ConfigAssumption ==
  /\ Program \in {"GATEWAY", "TWS"}
  /\ MfaAction \in {"EXIT", "RESTART"}
  /\ ReadOnly2fa \in BOOLEAN
  /\ Diagnosing \in BOOLEAN

VARIABLES
  pc,              (* the await run_control_loop's task is suspended at    *)
  stage,           (* StartupState of the lap, while it is racing          *)
  finished,        (* what _wait_for_first_completion returned             *)
  outcome,         (* cause or exception on its way out of the lap         *)
  reachedReady,    (* _Lap.reached_ready                                   *)
  exitKind,        (* _Lap.exit_kind                                       *)
  restartHash,     (* run_control_loop's restart_hash is set               *)
  failed,          (* _RelaunchBudget.failed                               *)
  polls,           (* _is_restart_with_grace: polls made                   *)
  cleanup,         (* where _abort_launch or clean_shutdown is             *)
  result,          (* what run_control_loop returned or raised             *)
  spawns,          (* JVMs spawned; the latest is the current one          *)
  live,            (* the JVMs still alive                                 *)
  signal,          (* the last signal sent to the live JVM                 *)
  exitCode,        (* the exit status the OS holds for it                  *)
  returncode,      (* process.returncode: what asyncio knows of it         *)
  link,            (* the dispatcher's background tasks                    *)
  phase,           (* the login or settings task                           *)
  loggedIn,        (* LoginManager.is_logged_in                            *)
  pollDied,        (* what the login's poll of the 2FA frame died of       *)
  watcher,         (* the watch_for_unprompted_windows task                *)
  processDone,     (* the task awaiting process.wait                       *)
  scheduled,       (* the _sleep_until_scheduled_shutdown task             *)
  cancels,         (* stop signals so far                                  *)
  cancelNoted,     (* _run_to_completion has seen a cancellation           *)
  heard,           (* ghost: one was raised where nothing swallows it      *)
  abortCut,        (* ghost: one ended the wait for _abort_launch          *)
  stopReplaced,    (* ghost: the login's own error took the place of one   *)
  unready          (* ghost: laps in a row that never reached READY        *)

lap     == <<stage, finished, outcome, reachedReady, exitKind>>
loop    == <<restartHash, failed, polls, result, unready>>
process == <<spawns, live, signal, exitCode, returncode>>
login   == <<loggedIn, pollDied>>
tasks   == <<link, phase, login, watcher, processDone, scheduled>>
stop    == <<cancels, cancelNoted, heard, abortCut, stopReplaced>>
vars    == <<pc, lap, loop, cleanup, process, tasks, stop>>

Gone       == {"PROCESS_CLOSED", "PROCESS_EXITED"}
Cause      == Gone \cup {"CONNECTION_LOST", "COLD_RESTART", "TIDY_CLOSEDOWN"}
Relaunched == {"LoginFrameTimeout", "MfaTimeout", "TransientLogin"}
Exception  == Relaunched \cup {"LostAgent", "Fatal"}
Outcome    == Cause \cup Exception \cup {"none", "ok", "cancelled"}
Pc == {"launching", "waitReady", "abort", "abortStop", "racing", "grace",
       "cancelPhase", "cancelScheduled", "reaping", "shutdown", "reapWatcher",
       "poll", "pollSleep", "hash", "done"}

TypeOK ==
  /\ pc \in Pc
  /\ stage \in {"LOGGING_IN", "APPLYING_SETTINGS", "READY"}
  /\ finished \in {"none", "phase", "watcher", "scheduled", "process", "dispatcher"}
  /\ outcome \in Outcome
  /\ reachedReady \in BOOLEAN
  /\ exitKind \in {"none", "SHUTDOWN", "RESTART"}
  /\ restartHash \in BOOLEAN
  /\ failed \in 0..(RestartCap + 1)
  /\ polls \in 0..MaxPolls
  /\ cleanup \in {"idle", "start", "menu", "waitExit", "term", "kill", "stop"}
  /\ result \in {"none", "REQUESTED", "CapExceeded"} \cup Cause \cup Exception
  /\ spawns \in 0..MaxSpawns
  /\ live \subseteq 1..MaxSpawns
  /\ signal \in {"none", "TERM", "KILL"}
  /\ exitCode \in {"none", "zero", "other"}
  /\ returncode \in {"none", "zero", "other"}
  /\ link \in {"off", "up", "down"}
  /\ phase \in {"none", "running", "ok", "LoginFrameTimeout", "MfaTimeout",
                "LostAgent", "Fatal"}
  /\ loggedIn \in BOOLEAN
  /\ pollDied \in {"none", "LostAgent", "Fatal"}
  /\ watcher \in {"none", "running", "TransientLogin", "Fatal"}
  /\ processDone \in {"none", "running", "done"}
  /\ scheduled \in {"none", "sleeping", "COLD_RESTART", "TIDY_CLOSEDOWN"}
  /\ cancels \in 0..MaxCancels
  /\ cancelNoted \in BOOLEAN
  /\ heard \in BOOLEAN
  /\ abortCut \in BOOLEAN
  /\ stopReplaced \in BOOLEAN
  /\ unready \in Nat

Init ==
  /\ pc = "launching"
  /\ stage = "LOGGING_IN"
  /\ finished = "none"
  /\ outcome = "none"
  /\ reachedReady = FALSE
  /\ exitKind = "none"
  /\ restartHash = FALSE
  /\ failed = 0
  /\ polls = 0
  /\ cleanup = "idle"
  /\ result = "none"
  /\ spawns = 0
  /\ live = {}
  /\ signal = "none"
  /\ exitCode = "none"
  /\ returncode = "none"
  /\ link = "off"
  /\ phase = "none"
  /\ loggedIn = FALSE
  /\ pollDied = "none"
  /\ watcher = "none"
  /\ processDone = "none"
  /\ scheduled = "none"
  /\ cancels = 0
  /\ cancelNoted = FALSE
  /\ heard = FALSE
  /\ abortCut = FALSE
  /\ stopReplaced = FALSE
  /\ unready = 0

Return(r) ==
  /\ pc' = "done"
  /\ result' = r

-----------------------------------------------------------------------------
(* launch_instance *)

(* Logging, plan, installation and the spawn.  A new lap starts here. *)
Spawn ==
  /\ pc = "launching"
  /\ spawns < MaxSpawns
  /\ pc' = "waitReady"
  /\ spawns' = spawns + 1
  /\ live' = live \cup {spawns + 1}
  /\ signal' = "none"
  /\ exitCode' = "none"
  /\ returncode' = "none"
  /\ unready' = unready + 1
  /\ reachedReady' = FALSE
  /\ exitKind' = "none"
  /\ outcome' = "none"
  /\ loggedIn' = FALSE
  /\ UNCHANGED <<stage, finished, restartHash, failed, polls, result, cleanup,
                 link, phase, pollDied, watcher, processDone, scheduled, stop>>

SpawnFails ==
  /\ pc = "launching"
  /\ Return("Fatal")
  /\ UNCHANGED <<lap, restartHash, failed, polls, unready, cleanup, process,
                 tasks, stop>>

(* The ping is answered and the dispatcher connected; the lap's tasks are  *)
(* created and login starts.                                               *)
AgentReady ==
  /\ pc = "waitReady"
  /\ spawns \in live
  /\ pc' = "racing"
  /\ stage' = "LOGGING_IN"
  /\ link' = "up"
  /\ phase' = "running"
  /\ watcher' = "running"
  /\ processDone' = "running"
  /\ UNCHANGED <<finished, outcome, reachedReady, exitKind, loop, cleanup,
                 process, login, scheduled, stop>>

(* terminate_and_wait, up to its first await; nothing for a process whose  *)
(* exit is already known.                                                  *)
Terminate ==
  IF returncode # "none"
    THEN /\ cleanup' = "stop"
         /\ UNCHANGED signal
    ELSE /\ cleanup' = "term"
         /\ signal' = "TERM"

(* AgentStartupError, LauncherError, or the dispatcher's connect failed. *)
LaunchFails ==
  /\ pc = "waitReady"
  /\ outcome' = "Fatal"
  /\ pc' = "abort"
  /\ Terminate
  /\ UNCHANGED <<stage, finished, reachedReady, exitKind, loop, spawns, live,
                 exitCode, returncode, tasks, stop>>

(* The shielded _abort_launch is over: stop the dispatcher, then re-raise. *)
AbortDone ==
  /\ pc = "abort"
  /\ cleanup = "stop"
  /\ cleanup' = "idle"
  /\ pc' = "abortStop"
  /\ UNCHANGED <<lap, loop, process, tasks, stop>>

LaunchRaises ==
  /\ pc = "abortStop"
  /\ Return(IF outcome = "cancelled" THEN "REQUESTED" ELSE outcome)
  /\ UNCHANGED <<lap, restartHash, failed, polls, unready, cleanup, process,
                 tasks, stop>>

-----------------------------------------------------------------------------
(* The race: asyncio.wait over the main tasks, process_done and the        *)
(* dispatcher's tasks.  Ties resolve in argument order.                    *)

MainTask(t) ==
  \/ t = "phase" /\ stage # "READY" /\ phase \notin {"none", "running"}
  \/ t = "watcher" /\ watcher \notin {"none", "running"}
  \/ t = "scheduled" /\ stage = "READY" /\ scheduled \notin {"none", "sleeping"}

(* Mutant: the dispatcher's tasks are trusted to notice a dead JVM. *)
DoneWithoutProcess(t) ==
  \/ MainTask(t)
  \/ t = "dispatcher" /\ link = "down"

Done(t) ==
  \/ MainTask(t)
  \/ t = "process" /\ processDone = "done"
  \/ t = "dispatcher" /\ link = "down"

ArgumentOrder == <<"phase", "watcher", "scheduled", "process", "dispatcher">>

FirstDone(t) ==
  \E i \in DOMAIN ArgumentOrder :
     /\ ArgumentOrder[i] = t /\ Done(t)
     /\ \A j \in 1..(i - 1) : ~Done(ArgumentOrder[j])

(* _failed_by_lost_agent.  The watcher never fails so: it logs the error   *)
(* of a command and goes on watching.                                      *)
LostAgent(t) == t = "phase" /\ phase = "LostAgent"

GoneCause == IF returncode = "zero" THEN "PROCESS_CLOSED" ELSE "PROCESS_EXITED"

(* What the lap ends with (or "ok": it goes on), from what finished first  *)
(* and from process.returncode as it is known by then.                     *)
Verdict(t) ==
  CASE LostAgent(t) /\ returncode # "none" -> GoneCause
    [] t = "phase" -> phase
    [] t = "watcher" -> watcher
    [] t = "scheduled" -> scheduled
    [] t \in {"process", "dispatcher"} ->
         IF returncode # "none" THEN GoneCause ELSE "CONNECTION_LOST"

(* The lap's finally clause begins with _reap(process_done) and            *)
(* _reap(diagnostics_watcher).                                             *)
EnterFinally(o) ==
  /\ outcome' = o
  /\ pc' = "reaping"

(* Login or settings has ended, or something ended it: the phase is        *)
(* cancelled if it still runs, which PhaseCancelled sees through.          *)
LeavePhase(o) ==
  IF phase = "running"
    THEN /\ outcome' = o
         /\ pc' = "cancelPhase"
         /\ UNCHANGED <<stage, reachedReady, phase, scheduled, unready>>
    ELSE IF o # "ok"
    THEN /\ EnterFinally(o)
         /\ UNCHANGED <<stage, reachedReady, phase, scheduled, unready>>
    ELSE /\ pc' = "racing"
         /\ UNCHANGED outcome
         /\ IF stage = "LOGGING_IN"
              THEN /\ stage' = "APPLYING_SETTINGS"
                   /\ phase' = "running"
                   /\ UNCHANGED <<reachedReady, scheduled, unready>>
              ELSE /\ stage' = "READY"
                   /\ phase' = "none"
                   /\ reachedReady' = TRUE
                   /\ unready' = 0
                   /\ scheduled' = "sleeping"

(* At READY the schedule is cancelled before anything is classified.       *)
Classify(t) ==
  IF stage = "READY"
    THEN /\ UNCHANGED <<stage, reachedReady, phase, unready>>
         /\ IF scheduled = "sleeping"
              THEN pc' = "cancelScheduled" /\ UNCHANGED <<outcome, scheduled>>
              ELSE EnterFinally(Verdict(t)) /\ UNCHANGED scheduled
    ELSE LeavePhase(Verdict(t))

(* Mutant: no grace for the exit status to catch up. *)
WakeUpWithoutGrace ==
  /\ pc = "racing"
  /\ \E t \in {"phase", "watcher", "scheduled", "process", "dispatcher"} :
       /\ FirstDone(t)
       /\ finished' = t
       /\ Classify(t)
  /\ UNCHANGED <<exitKind, restartHash, failed, polls, result, cleanup,
                 process, link, login, watcher, processDone, stop>>

WakeUp ==
  /\ pc = "racing"
  /\ \E t \in {"phase", "watcher", "scheduled", "process", "dispatcher"} :
       /\ FirstDone(t)
       /\ finished' = t
       /\ IF returncode = "none" /\ (t = "dispatcher" \/ LostAgent(t))
            THEN /\ pc' = "grace"
                 /\ UNCHANGED <<stage, outcome, reachedReady, phase,
                                scheduled, unready>>
            ELSE Classify(t)
  /\ UNCHANGED <<exitKind, restartHash, failed, polls, result, cleanup,
                 process, link, login, watcher, processDone, stop>>

(* process_done caught up, or the grace period is over. *)
GraceEnds ==
  /\ pc = "grace"
  /\ Classify(finished)
  /\ UNCHANGED <<finished, exitKind, restartHash, failed, polls, result,
                 cleanup, process, link, login, watcher, processDone,
                 stop>>

(* The cancelled phase is awaited with CancelledError suppressed.  Settings *)
(* keeps every other error to itself; login re-raises what its poll of the *)
(* 2FA frame died of, and that replaces a stop or a cause on its way out.  *)
PhaseCancelled ==
  /\ pc = "cancelPhase"
  /\ phase' = "none"
  /\ outcome' = IF pollDied = "none" THEN outcome ELSE pollDied
  /\ pollDied' = "none"
  /\ stopReplaced' = (outcome = "cancelled" /\ pollDied # "none")
  /\ pc' = "reaping"
  /\ UNCHANGED <<stage, finished, reachedReady, exitKind, loop, cleanup, process,
                 link, loggedIn, watcher, processDone, scheduled, cancels,
                 cancelNoted, heard, abortCut>>

ScheduledCancelled ==
  /\ pc = "cancelScheduled"
  /\ scheduled' = "none"
  /\ EnterFinally(IF outcome = "cancelled" THEN outcome ELSE Verdict(finished))
  /\ UNCHANGED <<stage, finished, reachedReady, exitKind, loop, cleanup,
                 process, link, phase, login, watcher, processDone, stop>>

-----------------------------------------------------------------------------
(* The rest of the finally clause: clean_shutdown under _run_to_completion, *)
(* then _reap(watcher).                                                     *)

Reaped ==
  /\ pc = "reaping"
  /\ stage' = "LOGGING_IN"
  /\ finished' = "none"
  /\ processDone' = "none"
  /\ phase' = "none"
  /\ scheduled' = "none"
  /\ pc' = "shutdown"
  /\ cleanup' = "start"
  /\ cancelNoted' = FALSE
  /\ UNCHANGED <<outcome, reachedReady, exitKind, loop, process, link, login,
                 watcher, cancels, heard, abortCut, stopReplaced>>

(* clean_shutdown's first test: gone already, never logged in, or ask the  *)
(* application to exit through its menu.                                   *)
ShutdownStarts ==
  /\ pc = "shutdown"
  /\ cleanup = "start"
  /\ IF returncode = "none" /\ loggedIn
       THEN cleanup' = "menu" /\ UNCHANGED signal
       ELSE Terminate
  /\ UNCHANGED <<pc, lap, loop, spawns, live, exitCode, returncode, tasks,
                 stop>>

(* The menu item was clicked, or failed in a way that may have clicked it. *)
MenuNavigated ==
  /\ pc = "shutdown"
  /\ cleanup = "menu"
  /\ cleanup' = "waitExit"
  /\ UNCHANGED <<pc, lap, loop, process, tasks, stop>>

(* ProtocolError: the connection is gone, no exit is coming. *)
MenuLost ==
  /\ pc = "shutdown"
  /\ cleanup = "menu"
  /\ link = "down" \/ spawns \notin live
  /\ Terminate
  /\ UNCHANGED <<pc, lap, loop, spawns, live, exitCode, returncode, tasks,
                 stop>>

ExitTimesOut ==
  /\ pc = "shutdown"
  /\ cleanup = "waitExit"
  /\ Terminate
  /\ UNCHANGED <<pc, lap, loop, spawns, live, exitCode, returncode, tasks,
                 stop>>

(* Mutant: SIGTERM is taken for the end of the process. *)
TermIsEnough ==
  /\ pc \in {"abort", "shutdown"}
  /\ cleanup = "term"
  /\ cleanup' = "stop"
  /\ UNCHANGED <<pc, lap, loop, process, tasks, stop>>

(* Mutant: SIGTERM again, where SIGKILL is meant. *)
TermRepeats ==
  /\ pc \in {"abort", "shutdown"}
  /\ cleanup = "term"
  /\ cleanup' = "kill"
  /\ UNCHANGED <<pc, lap, loop, process, tasks, stop>>

(* terminate_and_wait, for _abort_launch and clean_shutdown alike. *)
TermTimesOut ==
  /\ pc \in {"abort", "shutdown"}
  /\ cleanup = "term"
  /\ cleanup' = "kill"
  /\ signal' = "KILL"
  /\ UNCHANGED <<pc, lap, loop, spawns, live, exitCode, returncode, tasks,
                 stop>>

ExitSeen ==
  /\ pc \in {"abort", "shutdown"}
  /\ cleanup \in {"waitExit", "term", "kill"}
  /\ returncode # "none"
  /\ cleanup' = "stop"
  /\ UNCHANGED <<pc, lap, loop, process, tasks, stop>>

(* Mutant: the cancellation noted during the shutdown is not re-raised. *)
ShutdownForgets ==
  /\ pc = "shutdown"
  /\ cleanup = "stop"
  /\ cleanup' = "idle"
  /\ link' = "off"
  /\ loggedIn' = FALSE
  /\ pc' = "reapWatcher"
  /\ UNCHANGED <<lap, loop, process, phase, pollDied, watcher, processDone, scheduled,
                 stop>>

(* dispatcher.stop, and _run_to_completion re-raises what it noted. *)
ShutdownDone ==
  /\ pc = "shutdown"
  /\ cleanup = "stop"
  /\ cleanup' = "idle"
  /\ link' = "off"
  /\ loggedIn' = FALSE
  /\ outcome' = IF cancelNoted THEN "cancelled" ELSE outcome
  /\ pc' = "reapWatcher"
  /\ UNCHANGED <<stage, finished, reachedReady, exitKind, loop, process,
                 phase, pollDied, watcher, processDone, scheduled, stop>>

-----------------------------------------------------------------------------
(* run_control_loop: what one lap's outcome leads to.                      *)

(* Mutant: a transient login failure relaunches without being counted. *)
NoteOnlyRestarts(next, hash) ==
  LET f == IF reachedReady THEN 0
           ELSE IF outcome = "TransientLogin" THEN failed ELSE failed + 1 IN
    /\ failed' = f
    /\ IF f > RestartCap
         THEN Return("CapExceeded") /\ UNCHANGED restartHash
         ELSE pc' = next /\ restartHash' = hash /\ UNCHANGED result

(* _RelaunchBudget.note, then the next lap or the end of the loop. *)
NoteAnd(next, hash) ==
  LET f == IF reachedReady THEN 0 ELSE failed + 1 IN
    /\ failed' = f
    /\ IF f > RestartCap
         THEN Return("CapExceeded") /\ UNCHANGED restartHash
         ELSE pc' = next /\ restartHash' = hash /\ UNCHANGED result

Relaunches ==
  \/ outcome \in {"LoginFrameTimeout", "TransientLogin", "COLD_RESTART"}
  \/ outcome = "MfaTimeout" /\ MfaAction = "RESTART"

PollsMarker == outcome \in Gone /\ exitKind # "SHUTDOWN"

LapEnds ==
  /\ pc = "reapWatcher"
  /\ watcher' = "none"
  /\ polls' = 0
  /\ IF Relaunches
       THEN NoteAnd("launching", outcome = "LoginFrameTimeout" /\ restartHash)
       ELSE /\ UNCHANGED <<failed, restartHash>>
            /\ IF PollsMarker
                 THEN pc' = "poll" /\ UNCHANGED result
                 ELSE Return(IF outcome = "cancelled" THEN "REQUESTED" ELSE outcome)
  /\ UNCHANGED <<lap, unready, cleanup, process, link, phase, login,
                 processDone, scheduled, stop>>

(* _is_restart_with_grace.  The autorestart marker is the application's:   *)
(* it may show up a little after the exit, so every look at the disk may   *)
(* find exactly one, or not.                                               *)
PollMarker ==
  /\ pc = "poll"
  /\ polls' = polls + 1
  /\ \E found \in BOOLEAN :
       IF found
       THEN NoteAnd("hash", restartHash)
       ELSE pc' = "pollSleep" /\ UNCHANGED <<failed, restartHash, result>>
  /\ UNCHANGED <<lap, unready, cleanup, process, tasks, stop>>

PollAgain ==
  /\ pc = "pollSleep"
  /\ polls < MaxPolls
  /\ pc' = "poll"
  /\ UNCHANGED <<lap, loop, cleanup, process, tasks, stop>>

(* No marker: a logout from TWS relaunches, anything else ends the loop. *)
PollGivesUp ==
  /\ pc = "pollSleep"
  /\ polls = MaxPolls
  /\ polls' = 0
  /\ IF exitKind = "RESTART" /\ outcome = "PROCESS_CLOSED" /\ Program = "TWS"
       THEN NoteAnd("launching", FALSE)
       ELSE Return(outcome) /\ UNCHANGED <<failed, restartHash>>
  /\ UNCHANGED <<lap, unready, cleanup, process, tasks, stop>>

HashFound ==
  /\ pc = "hash"
  /\ restartHash' \in BOOLEAN
  /\ polls' = 0
  /\ pc' = "launching"
  /\ UNCHANGED <<lap, failed, result, unready, cleanup, process, tasks,
                 stop>>

-----------------------------------------------------------------------------
(* A stop signal: run_async's handler cancels the task.                    *)

Signalled ==
  /\ cancels < MaxCancels
  /\ cancels' = cancels + 1

(* Between laps, and while a lap is being launched, nothing holds it back. *)
CancelIdle ==
  /\ Signalled
  /\ pc \in {"launching", "poll", "pollSleep", "hash", "abortStop"}
  /\ heard' = TRUE
  /\ Return("REQUESTED")
  /\ UNCHANGED <<lap, restartHash, failed, polls, unready, cleanup, process,
                 tasks, cancelNoted, abortCut, stopReplaced>>

CancelLaunch ==
  /\ Signalled
  /\ pc = "waitReady"
  /\ heard' = TRUE
  /\ outcome' = "cancelled"
  /\ pc' = "abort"
  /\ Terminate
  /\ UNCHANGED <<stage, finished, reachedReady, exitKind, loop, spawns, live,
                 exitCode, returncode, tasks, cancelNoted, abortCut, stopReplaced>>

(* shield() lets go of _abort_launch; the loop returns, and asyncio.run    *)
(* ends before that task is through.                                       *)
CancelAbort ==
  /\ Signalled
  /\ pc = "abort"
  /\ heard' = TRUE
  /\ abortCut' = TRUE
  /\ Return("REQUESTED")
  /\ UNCHANGED <<lap, restartHash, failed, polls, unready, cleanup, process,
                 tasks, cancelNoted, stopReplaced>>

CancelRace ==
  /\ Signalled
  /\ pc \in {"racing", "grace"}
  /\ heard' = TRUE
  /\ outcome' = "cancelled"
  /\ pc' = IF stage = "READY" /\ scheduled = "sleeping" THEN "cancelScheduled"
           ELSE IF phase = "running" THEN "cancelPhase"
           ELSE "reaping"
  /\ UNCHANGED <<stage, finished, reachedReady, exitKind, loop, cleanup,
                 process, tasks, cancelNoted, abortCut, stopReplaced>>

(* Awaiting a task that is itself being cancelled: the CancelledError      *)
(* meant for the control loop is taken for that task's and dropped.        *)
CancelSwallowed ==
  /\ Signalled
  /\ \/ pc \in {"cancelPhase", "cancelScheduled"}
     \/ pc = "reaping" /\ (processDone = "running" \/ Diagnosing)
     \/ pc = "reapWatcher" /\ watcher = "running"
  /\ UNCHANGED <<pc, lap, loop, cleanup, process, tasks, cancelNoted, heard,
                 abortCut, stopReplaced>>

(* Mutant: clean_shutdown is awaited bare; a second signal cuts it short. *)
CancelCutsShutdown ==
  /\ Signalled
  /\ pc = "shutdown"
  /\ heard' = TRUE
  /\ cleanup' = "idle"
  /\ outcome' = "cancelled"
  /\ pc' = "reapWatcher"
  /\ UNCHANGED <<stage, finished, reachedReady, exitKind, loop, process,
                 tasks, cancelNoted, abortCut, stopReplaced>>

(* _run_to_completion notes it and waits on. *)
CancelShutdown ==
  /\ Signalled
  /\ pc = "shutdown"
  /\ heard' = TRUE
  /\ cancelNoted' = TRUE
  /\ UNCHANGED <<pc, lap, loop, cleanup, process, tasks, abortCut, stopReplaced>>

Cancel == CancelIdle \/ CancelLaunch \/ CancelAbort \/ CancelRace
          \/ CancelSwallowed \/ CancelShutdown

-----------------------------------------------------------------------------
(* What the task waits for *)

JvmExits(code) ==
  /\ spawns \in live
  /\ live' = live \ {spawns}
  /\ exitCode' = code
  /\ signal' = "none"
  /\ UNCHANGED <<pc, lap, loop, cleanup, spawns, returncode, tasks,
                 stop>>

(* asyncio's child watcher. *)
ChildWatched ==
  /\ pc # "done"
  /\ returncode = "none"
  /\ exitCode # "none"
  /\ returncode' = exitCode
  /\ UNCHANGED <<pc, lap, loop, cleanup, spawns, live, signal, exitCode,
                 tasks, stop>>

ProcessWaited ==
  /\ processDone = "running"
  /\ returncode # "none"
  /\ processDone' = "done"
  /\ UNCHANGED <<pc, lap, loop, cleanup, process, link, phase, login,
                 watcher, scheduled, stop>>

(* The event reader or the command worker ends: the agent is gone, or a    *)
(* command or the event queue broke the connection.                        *)
LinkDrops ==
  /\ link = "up"
  /\ link' = "down"
  /\ UNCHANGED <<pc, lap, loop, cleanup, process, phase, login, watcher,
                 processDone, scheduled, stop>>

(* LoginManager reaches LOGGED_IN. *)
LoginSucceeds ==
  /\ pc \in {"racing", "grace"}
  /\ stage = "LOGGING_IN"
  /\ phase = "running"
  /\ spawns \in live
  /\ loggedIn' = TRUE
  /\ UNCHANGED <<pc, lap, loop, cleanup, process, link, phase, pollDied, watcher,
                 processDone, scheduled, stop>>

(* On live TWS with read_only_login the poll of the 2FA frame clicks; an   *)
(* AgentError of that click, or a lost connection, ends the poll and not   *)
(* the login, which goes on waiting.                                       *)
PollDies(o) ==
  /\ ReadOnly2fa
  /\ pc \in {"racing", "grace", "cancelPhase"}
  /\ stage = "LOGGING_IN"
  /\ phase = "running"
  /\ ~loggedIn
  /\ pollDied = "none"
  /\ o = "LostAgent" => link = "down" \/ spawns \notin live
  /\ pollDied' = o
  /\ UNCHANGED <<pc, lap, loop, cleanup, process, link, phase, loggedIn,
                 watcher, processDone, scheduled, stop>>

(* Login ends one way or another, but always with what its poll died of;   *)
(* settings always ends well, because _apply_declarative_settings_or_log   *)
(* keeps every error to itself.                                            *)
PhaseEnds(o) ==
  /\ pc \in {"racing", "grace"}
  /\ phase = "running"
  /\ pollDied # "none" => o = pollDied
  /\ o = "ok" => loggedIn
  /\ stage = "APPLYING_SETTINGS" => o = "ok"
  /\ phase' = o
  /\ pollDied' = "none"
  /\ UNCHANGED <<pc, lap, loop, cleanup, process, link, loggedIn, watcher,
                 processDone, scheduled, stop>>

WatcherEnds(o) ==
  /\ watcher = "running"
  /\ link # "off"
  /\ watcher' = o
  /\ UNCHANGED <<pc, lap, loop, cleanup, process, link, phase, login,
                 processDone, scheduled, stop>>

(* The watcher sees a shutdown or restart progress window. *)
ExitWindow(kind) ==
  /\ watcher = "running"
  /\ spawns \in live
  /\ link = "up"
  /\ exitKind' = kind
  /\ UNCHANGED <<pc, stage, finished, outcome, reachedReady, loop, cleanup,
                 process, tasks, stop>>

ScheduleFires(o) ==
  /\ pc \in {"racing", "grace"}
  /\ scheduled = "sleeping"
  /\ scheduled' = o
  /\ UNCHANGED <<pc, lap, loop, cleanup, process, link, phase, login,
                 watcher, processDone, stop>>

-----------------------------------------------------------------------------
Launch   == Spawn \/ SpawnFails \/ AgentReady \/ LaunchFails \/ AbortDone \/ LaunchRaises
Race     == WakeUp \/ GraceEnds \/ PhaseCancelled \/ ScheduledCancelled
Shutdown == Reaped \/ ShutdownStarts \/ MenuNavigated \/ MenuLost \/ ExitTimesOut
            \/ TermTimesOut \/ ExitSeen \/ ShutdownDone
Relaunch == LapEnds \/ PollMarker \/ PollAgain \/ PollGivesUp \/ HashFound
LoopStep == Launch \/ Race \/ Shutdown \/ Relaunch

Exits == \E code \in {"zero", "other"} : JvmExits(code)

Environment ==
  \/ Exits
  \/ ChildWatched
  \/ ProcessWaited
  \/ LinkDrops
  \/ LoginSucceeds
  \/ \E o \in {"ok", "LoginFrameTimeout", "MfaTimeout", "LostAgent", "Fatal"} : PhaseEnds(o)
  \/ \E o \in {"LostAgent", "Fatal"} : PollDies(o)
  \/ \E o \in {"TransientLogin", "Fatal"} : WatcherEnds(o)
  \/ \E o \in {"COLD_RESTART", "TIDY_CLOSEDOWN"} : ScheduleFires(o)
  \/ \E kind \in {"SHUTDOWN", "RESTART"} : ExitWindow(kind)

Next == LoopStep \/ Cancel \/ Environment

(* The event loop runs the task when what it awaits is done or its timer   *)
(* fires; the OS ends a killed process and tells the child watcher.        *)
Fairness ==
  /\ WF_vars(LoopStep)
  /\ WF_vars(signal = "KILL" /\ Exits)
  /\ WF_vars(ChildWatched)
  /\ WF_vars(ProcessWaited)

Spec == Init /\ [][Next]_vars /\ Fairness

-----------------------------------------------------------------------------
(* Properties *)

(* Never two JVMs: a lap starts only when the last one's JVM has gone,     *)
(* however that lap ended (a live one would hold the command socket).      *)
OneJvm == Cardinality(live) <= 1

(* The loop returns or raises with no JVM left behind, unless a stop       *)
(* signal cut the wait for _abort_launch.                                  *)
NothingLeftRunning == pc = "done" /\ ~abortCut => live = {}

(* docs/development.md, L1: a launch that fails or is cancelled after the  *)
(* spawn terminates the JVM before raising; it never leaves an orphan.     *)
NeverOrphan == pc = "done" => live = {}

(* A stop signal raised where nothing swallows it is final: no further     *)
(* JVM, and REQUESTED as the result whatever else was going wrong, unless  *)
(* the stop met a read-only login whose poll of the 2FA frame had died.    *)
StopIsFinal ==
  [][heard => /\ spawns' = spawns
              /\ \/ result' \in {"none", "REQUESTED"}
                 \/ /\ ReadOnly2fa /\ stopReplaced
                    /\ result' \in {"LostAgent", "Fatal"}]_vars

(* run_control_loop: cancelling always returns REQUESTED.  Stated of a     *)
(* stop signal that nothing swallowed, it does not hold, because of the    *)
(* poll that died: StopIsFinal is what is left of it.                      *)
HeardStopIsRequested == pc = "done" /\ heard => result = "REQUESTED"

(* run_control_loop: cancelling requests a graceful stop at any point and  *)
(* always returns REQUESTED.                                               *)
StopAlwaysHeard == pc = "done" /\ cancels > 0 => result = "REQUESTED"

(* Config.restart_cap: no more than that many relaunches in a row without  *)
(* reaching READY, across every kind of relaunch.                          *)
RestartCapHolds == unready <= RestartCap + 1

(* A stop signal that was heard ends the loop, even if the application     *)
(* ignores its menu and SIGTERM.                                           *)
StopCompletes == heard ~> pc = "done"

(* The lap never waits on a JVM that has gone, whichever phase it is in.   *)
DeathEndsRace == (live = {} /\ pc \in {"racing", "grace"}) ~> pc \notin {"racing", "grace"}

(* A restart takes the JVM and its sockets at once, and the sockets may be *)
(* seen to go first: the connection is only called lost after the grace    *)
(* period, and never for a JVM whose exit is known.                        *)
ExitIsNotLostConnection ==
  [][outcome' = "CONNECTION_LOST" /\ outcome # "CONNECTION_LOST"
       => returncode = "none" /\ pc \in {"grace", "cancelPhase", "cancelScheduled"}]_vars
=============================================================================
