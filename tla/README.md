# TLA+ models of IBController

IBController runs Interactive Brokers' Gateway or TWS unattended: a Python
asyncio program launches the JVM with an in-process Java agent, logs in by
driving Swing through the agent, applies settings, watches for dialogs, and
relaunches or shuts down. The modules here model the concurrent core of that
program; TLC checks them on small instances and TLAPS proves the most important
facts for every value of the constants.

Paths are relative to the repository (`ibcontroller/...`, `agent/...` for
`agent/src/main/java/ibcontroller/agent/...`).

## The system

| Part | Code | State | Operations | Talks to |
|------|------|-------|------------|----------|
| L1 launcher | `launcher.py` | the child process, its stdout drain | plan, install, spawn, readiness ping, abort | OS, L3, L4 |
| L2 agent | `AgentMain`, `Protocol`, `EventBridge`, `WriteOps` | socket files, window-id registry, event queue, overflow flag, current event client | accept, dispatch a command, register/unregister a window, write events | Swing, L3 over two Unix sockets |
| L3 agent client | `agent_client.py` | stream position, `broken` | one request/response, the event iterator | L2 |
| L4 dispatcher | `dispatch.py` | command queue, in-flight future, closed reason, `windows`, subscriptions | `send`, `stop`, `subscribe`, two background tasks | L3, all of L5 |
| L5 login | `login.py` | `LoginState`, frame ids, retry task | find the frame, fill, submit, wait for an outcome, retry | L4, recognisers |
| L5 recognisers | `recognisers.py` | registry, session flags | route each opened window to its recogniser | L4, login |
| L5 settings, actions | `settings.py`, `actions.py` | the open settings dialog | open, apply, close; click with retry | L4 |
| L5 schedule | `schedule.py` | none | `next_scheduled_shutdown` | configuration |
| L5 management | `management.py` | none | `clean_shutdown` | L4, process |
| L6 control loop | `control_loop.py` | lap, relaunch budget, restart hash | launch, race each phase, shut down, relaunch or return | everything above |
| entry, config, logging | `main.py`, `cli.py`, `config.py`, `labels.py`, `logging_setup.py` | none shared later | load, signal handlers | L6 |

All Python runs on one asyncio event loop, so interleaving is between awaits.
The agent has an event thread (the EDT), an accept thread per socket, a writer
and a keepalive thread. The JVM is a third party: it may exit, hang or ignore a
signal at any moment.

What is hard here, and what would make each part correct:

* **Command path.** No request ids on the wire, one command at a time, callers
  cancelled at any await, a worker that can break or be stopped with commands
  queued. Correct: an answer reaches its own caller; nothing runs twice or out of
  order; nobody waits for ever.
* **Event stream.** A bounded queue filled on the EDT, three threads, clients
  that replace one another. Correct: `Dispatcher.windows` is the registry of one
  moment, and a reader is stopped before it works with a gap.
* **Control loop.** Death of the JVM, of the connection, a dialog, a schedule
  and a stop signal race in every phase; the shutdown itself can be interrupted.
  Correct: one JVM at a time, none left behind, a stop is obeyed, relaunches are
  bounded, and a restart is told from a lost connection.
* **Login.** One event loop runs `run()`, the outcome wait, the poll of the 2FA frame
  and a retry, each suspended in commands while the others change what it saw.
  Correct: a completed login is seen and returned, a failed one ends the wait, nothing
  is typed over a 2FA prompt, and no timer counts against a dialog that was heard of.
* **Dialogs.** One watch handles each window in turn; the window may close and a click
  may fail. Correct: an outcome dialog always raises its outcome, and two sessions of one
  account obey the precedence that the configuration documents.
* **Launch.** Supervisors with one instance name share two socket paths; a file may be left
  by a crash, a ping may be answered by another's agent. Correct: a supervisor's next agent is
  not refused by its last one, and one that has its name to itself talks to its own agent.
* **Settings.** A menu that comes and goes, commands that fail with a dialog open, a
  cancellation. Correct: a bad entry keeps no other from being applied, the dialog is confirmed
  whatever happens on it, and the phase ends.
* **Schedule.** A wall clock that leaps and is set back under a monotonic sleep. Correct:
  the first instant either setting names is acted upon, once, and soon after it comes.

## Modules

### `RpcChannel`, `CommandChannel`

`RpcChannel` is what `Dispatcher.send` promises: a call is refused, or open until
it is answered (only if it ran), failed, or cancelled by its caller; closing
leaves none open. `CommandChannel` is the code: one record of variables per
object (`future`, `queue`, `inFlight`, `closedReason` of the dispatcher, `broken`
of the connection, the socket's two directions, the command the agent is
dispatching). One action is one run of a coroutine between two awaits.
`FailPending` is `_fail_pending`; the worker's `finally` is part of the action
that ends it. Two details of asyncio are modelled because the code depends on them:
a task cancelled before its first step never enters its `try`, and a cancelled
caller leaves its queue entry behind.

`ImplementsRpcChannel` is the refinement: `call` from the futures, `ran` from the
agent's history, `closed` from `closedReason`.

### `EventStream`

`EventBridge` at one end, `_event_reader` at the other. The EDT's registration
and queue offer are one step and the overflow flag another, both under `LOCK` (`LockFree`); the
writer does not take the lock and can run in between. So it can inside `attachClient`, which is
two steps: `TakesOver` makes the new client the one that is written to, `AttachClient` clears the
queue and the flag and puts the snapshot in. What the queue and the flag still held for the old
client may reach the new one in between; an overflow that does only costs it a reconnect. A
snapshot is marked (`of`) with the client it was taken for: a mirror is judged from its own.
`writerLoop` is split at every shared access: take, `currentWriter`, the flag's compare-and-set,
the two writes. A line for a client that has gone is lost (`PrintWriter` swallows the error);
a full socket blocks the writer. `history`, `seen`, `seeded`, `lost` and `of` are ghosts.

### `ControlLoop`

One asyncio task: `pc` is the await it is suspended at. The groups of actions
are `launch_instance` (`Launch`), the race and the end of a phase (`Race`), the
`finally` clause with `clean_shutdown` (`Shutdown`), and `run_control_loop`'s
decisions (`Relaunch`); `Cancel` has one action for every kind of await a stop
signal can meet; `Environment` is the JVM, the child watcher and the tasks raced.
The login and settings phases and the watcher appear by their outcomes, but for one part of
login: with `ReadOnly2fa` (live TWS, read-only login) the poll of the 2FA frame may die
(`PollDies`), and login, however it ends or is cancelled, then raises what the poll died of.
`stopReplaced` remembers that this took the place of a stop. Every look
for the autorestart marker may find it or not: the file belongs to the application.
Ties among finished tasks resolve in argument order, as `_wait_for_first_completion`
does it.

### `Login`

`LoginManager`: `run` is where `run()` is, `outcome` and `poll` are the two tasks it
starts, `filling[c]` is `_fill_credentials_and_submit` for each of its callers (`run()`,
the retry task, the resubmission after an unanswered 2FA), `heard` the subscription of
the outcome task. An event the application sends travels first (`transit`: the agent's queue,
the socket, the reader's task, which `EventStream` models in full) and `EventArrives` gives it to
the registry of open windows (`windows`) and to the subscription, so that every timer can expire
while it is under way. A command is two steps where its effect can be seen before its answer
(the clicks), one otherwise. Time is two facts: `late` (`mfa_timeout` has elapsed since
the submission) and the expiry of an armed `watchdog`. An event that lies in the subscription is
taken before an expired timeout, as `asyncio.timeout` around a queue that is not empty does; one
that is put there in the loop iteration in which the timer expires is not (`Task.cancel` on a
getter that has its result still raises), which is the same as the timer expiring just before.
The
application and the user are external: the frame shows the form, 2FA, or is gone; windows
open and close; a login may be submitted by hand. 180 seconds do not pass while an event
is on its way or lies unread (`TimePasses`). Left out: `seen` (no window is reported open twice), windows
without an id, and TWS's menu bar still empty when its main window opens.

### `Watcher`

`watch_for_unprompted_windows`, the registry's order and the recognisers. A window is the
recogniser its text matches, whether a declarative rule matches too, and whether it shows a
credential field. `Dispatch` runs `handle()` to its click; `ClickLands` and `ClickFails` are
the two answers, with what follows in `after`. `loggedIn` is `is_logged_in()`, which stays
true here (see `login_terminal` for when it does not). A retry is scheduled by `Login`'s
`ScheduleRetry`. The other session of a conflict is external: its dialogs come in any order,
the Trading Login Handoff only after a choice to continue, and the login does not
complete over an open conflict dialog.

### `AgentSocket`

`AgentMain.main`'s two binds (`Exists`, `IsAlive`, `Delete`, `Bind`: one action per system
call, as nothing makes them atomic), `_wait_for_ready` with its exit check and its ping, the
dispatcher's two connections, and `terminate_and_wait` between two laps. `file` is what a path
names, `bound` what an agent listens on: the two differ after a crash and after an unlink.
`queue` is an agent's command clients; the single-threaded accept loop serves the first, so a
ping to a busy agent is not answered. A supervisor knows of an exit only once asyncio has
reaped it. What the connected lap does is `ControlLoop`.

### `Settings`

`apply_declarative_settings`. `Opening` is the wait for the splash, `navigate_menu` (its clock
counted in retries) and the wait for the dialog; `ApplyAll` is `apply_settings_from_file`, one
command of one entry per action, with the `after_apply` hook; `Closing` is the `finally` clause.
A click is answered before it lands on the EDT (`clicks`). A widget remembers the entry that
set it last, which is what tells a mixture from an entry's own values. A command that fails may
have had its effect (an exception of a listener on the EDT), and so may one in flight when the
phase is cancelled. An entry with a field the configuration does not have is refused before its
section is shown, a malformed value or an unknown action after. The dialog, its menu
and its user are external.

### `Schedule`

`next_scheduled_shutdown` as operators (`NextOccurrence`, `ClosesFirst`) and
`_sleep_until_scheduled_shutdown` as the actions `Ready`, `Wakes` and `Acts`. An instant is a
day and a time of day; the clock ticks, leaps (suspension, daylight saving) or is set back
while `asyncio.sleep` counts ticks. `Occurs` states what a setting means, independently of the
computation.

## Runs

| Run | Asks | Bounds | Result |
|-----|------|--------|--------|
| `command_channel` | Does each answer reach its own caller, in order, once, and does every `send` end? Does the dispatcher implement `RpcChannel`? | 3 calls: one in flight, one behind it, one sent after closing | holds |
| `event_stream` | Is the mirror one past registry; does a gap end the only reader; is a snapshot followed only by newer events; does the served client converge, when clients replace one another and the queue overruns? | 2 clients, 2 windows, 3 events, queue 2, socket 1: a burst overruns the queue and its writer at once | holds |
| `event_stream_stale_writer` | Does a gap end the reader when a client is replaced? | 2 clients, 2 events, queue 1 | violated |
| `control_loop` | One JVM, none left behind, restart cap, stop is final, a known exit is never a lost connection; does a stop that was heard end the loop, and the death of the JVM every phase? | 3 JVMs, restart cap 1 (the third is the one past it), 2 stop signals, 2 polls for the marker, a read-only login whose poll may die | holds |
| `control_loop_stop_heard` | Does every stop signal end in `REQUESTED`? | 2 JVMs, 1 stop signal | violated |
| `control_loop_orphan` | Has every JVM gone when the loop returns? | 2 JVMs, 1 stop signal | violated |
| `login` | Does only the main window (or Gateway's splash) log in; is it never missed; is nothing typed over 2FA; does the timer of one round end a login during the next only while that dialog is unheard of; does a failed retry end `run()`, and only an unfinished one? | four configurations: Gateway with the relogin (3 rounds of 2FA, a login by hand) and without, live TWS (2 rounds, a spurious close), read-only TWS (2 cooldowns, a login by hand); any command may fail | holds |
| `login_terminal` | Is `LOGGED_IN` terminal? | 1 cooldown, 1 login by hand | violated |
| `watcher` | Is an outcome always raised; does one session take over at most once; does the precedence of sessions hold? | 3 windows of 8 kinds (one for each way of handling), a rule on any of them, missing buttons, every action | holds |
| `agent_socket` | Is a new agent refused only by one that runs; is a supervisor alone with its name connected to its own agent; is another's agent left; does the wait for a ping end with the own agent? | 2 supervisors, 3 agents (one supervisor launches twice while the other's runs), each file left by a crash or not | holds |
| `settings` | Is every entry that did not fail applied; does the restart time win, overridden or not; is OK clicked however the work ends; does the phase end? | every value of the three built-in settings, 3 user files (none, an override of the entry whose place matters, an added entry with one of an unknown field and one of an unsupported action), 1 failing command, 2 cancellations (one cuts the final OK), a menu that changes between any two commands | holds |
| `schedule` | Is the first instant of either setting waited for, acted upon once, noticed in time? | every pair of settings and every start in a week, days of 2 minutes of 2 ticks, 9 days, any leaps, 2 set-backs | holds |

The actions of the modules do not depend on the identity of a call, window or
client, and each run has one more of them than a property relates. `MaxSpawns`
only ends the run: with it a lap that would launch once more fails to launch.
Deadlock is not checked: each of these systems may stop (nothing left to send,
nothing more to happen, the loop returned).

### What the violated runs show

1. `GapEndsReader` with two clients: the writer read `currentWriter` before the new
   client attached, and clears the flag after the new client's events overran the queue.
   The report goes to the old client.
2. `StopAlwaysHeard`: `_reap` and two `suppress(CancelledError)` blocks await a task they
   have just cancelled; a stop signal in that window is taken for that task's own
   cancellation. The loop returns another cause, raises, or relaunches.
3. `NeverOrphan`: a signal during the shielded `_abort_launch` ends the wait; the event
   loop closes, and the abort with it, before SIGKILL.
4. `LoggedInIsTerminal`: a retry is asleep for an earlier cooldown dialog, the user logs in by
   hand, and the retry wakes after the outcome is set and before `run()` cancels it, or is
   scheduled for a dialog the watch reaches later. `is_logged_in()` is then false for good,
   so a primary session would be treated as new in the next conflict.

### What the passing runs leave out

Some behaviour of the code is in a model and outside a run's configuration, or is allowed by
a property's wording, because the code does not promise more:

* `CompletedLoginReturns` excepts a poll of a read-only login that ended with `AgentError`:
  `_enter_read_only` catches two errors; another ends the poll task and is raised again by
  `await poll` after the login completed.
* `HeardDialogStopsTimer` is about Gateway, and lets the timer end the login while the opening of
  the dialog is on its way: no lock or message orders the two, and the code cannot know. On TWS
  the timer also fires after a spurious close: the early branch of `_after_mfa_closed` trusts a
  close that the late branch checks against the frame.
* `RefillOnlyOnForm` speaks of logins that nobody submits by hand: between the look at the form
  and the typing somebody may.
* `MirrorIsPast`, `DrainedIsCurrent` and `GapEndsOnlyReader` speak of a client that replaced
  another only as long as no event was lost (`Trusted`): the first violated run is what
  happens otherwise.
* `WrongAgentIsLeft` excepts a socket that was unlinked under its living owner, which two
  launches in step achieve: both find the stale file dead, one binds, the other deletes what
  was bound. `NeverUnlinked` states that this cannot happen, as the comment of `bind` has it;
  as an INVARIANT of `MCAgentSocket.cfg` it is violated. `PingMeansUp` (the ping shows that the
  own agent is up) is violated too, by an agent of another supervisor that answers.
* `StopIsFinal` has one exception, and the code contradicts the docstring there
  (`control_loop.py:280-284`: cancelling "always returns `ShutdownCause.REQUESTED`"). On live TWS
  with a read-only login the click of `_enter_read_only` fails with an `AgentError` (or the
  connection is lost), which ends the poll task and nothing else. A stop signal then cancels the
  login phase; `_wait_for_outcome`'s `finally` awaits the poll, and its error, not
  `CancelledError`, leaves `run()` and `_run_phase_watching_process`, whose
  `suppress(CancelledError)` does not catch it. `run_control_loop` raises it: nothing is launched
  after it and no JVM is left, but the cause is not `REQUESTED`. `HeardStopIsRequested` states
  what the docstring says of such a stop; as an INVARIANT of `MCControlLoop.cfg` it is violated.
* `OthersApplied` speaks of entries that did not fail, and grants one thing to those that did: a
  time entry that came after the one whose radio is saved and failed under way may have left its
  time or half of the day. With both times set, the second entry types its time into the field
  they share and fails before it selects its radio; OK saves the first entry's radio with the
  second entry's time. `settings.py:414-416` says that one bad entry "costs exactly that entry",
  and `docs/Configuration.md:264-265` that the others "are still applied". `SavedTimeIsOneEntrys`
  states it for the time; as an INVARIANT of `MCSettings.cfg` it is violated. Nothing else of a
  bad entry shows.
* `AutoRestartWins` is about files that leave the times to the built-in entries or to overrides of
  them. A time entry with a value of its own comes last in the merge, whatever it sets, and wins.
* `DialogConfirmed` speaks of work begun on the dialog: one that opens after the wait for it
  was given up stays open.
* `WaitsForFirst` counts from the moment the lap is READY: an instant that passes during a
  login is skipped.
* `DrainedIsCurrent` excepts a flag that is set: `writerLoop` looks at it only after taking a
  message, and the EDT sets it after the refused offer, so a drop behind which no event comes
  is not reported until one does.
* No property times the close after a read-only click: `_read_only_clicked` is set after the
  click's answer, and the close it causes travels on the other socket.
* `Precedence` says of `primaryoverride` nothing and of a cancelled session only which clicks
  land: a new `primaryoverride` session does continue (the table of `docs/Configuration.md`
  says so, its note on the Trading Login Handoff otherwise), and `_cede` clicks before it
  raises, so a cancel button that is not found leaves the session running.

## Fairness

* `Login`, `Watcher`: the event loop runs each task that can run, timers fire, and the agent
  answers every command (`command_channel` shows that a call whose connection breaks ends too).
  Nothing is assumed of the application or its user.

* `AgentSocket`: an agent that is starting goes on, a stopped one is killed in the end, an exit
  is reaped, a probe is bounded by `_PING_ATTEMPT_TIMEOUT`, and the supervisor's task runs.
  Nothing is assumed of the deadline of the whole wait, nor that a ping is ever answered.
* `Settings`: the task runs, its waits are bounded, and the EDT runs what was put on it. Nothing
  is assumed of the splash, the menu, the dialog or its user.
* `Schedule`: time passes and the event loop runs. Leaps and set-backs may happen or not.
* `CommandChannel`: the event loop runs the worker and `stop()`, and a request has a
  timeout, which is a timer of that loop. Nothing is assumed of the agent.
* `EventStream`: the EDT finishes the step it is in; accept thread, writer and reader are
  scheduled. Windows and clients come and go as they like.
* `ControlLoop`: the task continues when what it awaits is done or its timer has fired
  (every await of the shutdown has one); the OS ends a killed process and tells the child
  watcher. Nothing is assumed of login, of the application's reaction to its menu or to
  SIGTERM, or of the connection being seen to drop.

## Proofs

Every safety property the passing runs check, invariant or action property, is also a theorem, for all
values of the constants, and so is the `TypeOK` of every module. What is proved and not run as
well (the type invariants but `AgentSocket`'s, `ChannelInv`, `OneOnTheWire`,
`AbandonedNeverWritten`, `CredentialsUntouched`) is checked by TLAPS only. `OrderInv`, `StreamInv`,
`LoginParts`, `PhaseParts`, `RestartInv` and `SocketInv` below also held in TLC on the runs'
instances, which is how they were found. The assumptions are the
named ones of the modules (`NoneAssumption`, `ScheduleAssumption`, ...: bounds are naturals,
capacities positive, model values distinct) and nothing else, but for `AutoRestartWins` (below).

`CommandChannel_proofs` proves, for every set `Req` of calls: the type invariant, the
inductive invariant `ChannelInv`, `AnswersOwnRequest`, `OneOnTheWire`,
`NothingPendingOnceClosed`, `ExecutedInSendOrder`, `AbandonedNeverWritten` and the refinement
`Spec => Rpc!Spec`. The only assumption is `None \notin Req`.

None of these properties is inductive alone. `ChannelInv` adds where a call can be:
a pending call is queued or in flight (`PendingInv`); an unbroken connection carries
only the call in flight (`WireInv`); a queued call is unsettled, listed once and not on the
wire (`QueueInv`); what is on the wire has not run, what is answered has (`RanInv`); and
the worker's state follows the connection's and the dispatcher's (`WorkerInv`).
`AnswersOwnRequest` then follows because the worker receives only on an unbroken
connection, where `WireInv` makes the answer its own. `ExecutedInSendOrder` needs `OrderInv`: the
path from `send()` to the agent is one line (what has run, what is on its way, the queue), and each
part of it comes before the next in the history of `send()`.

`Schedule_proofs` proves, for every length of the day, chunk of sleep, horizon and choice of
weekdays: what `_next_occurrence` returns (`NextIsFirst`: an instant after now that the setting
names, and none before it is), `TypeOK`, `WaitsForFirst`, `ActsOnce` and `NoticedInTime`. The
assumption is `ScheduleAssumption` (positive lengths, weekdays from 0 to 6). `WaitsForFirst`
is strengthened from the week TLC enumerates to all instants (`WaitsForFirstOfAll`), which the
choice between the two settings needs (`ChoiceIsFirst`); `NoticedInTime` needs that the ticks
late and the ticks left of one sleep add up to at most a chunk (`SleepIsShort`), and `ActsOnce`
that everything acted upon is past while the clock is not set back (`ActedIsPast`).

`Watcher_proofs` proves `Precedence`, `OneTakeover` and `CredentialsUntouched` for every
number of windows, kind of fault and configuration. `Precedence` is about clicks that
have landed, so it is not inductive: the invariant adds what a click on its way was decided
for (`PendingSecondary`, `PendingPrimary`, `PendingManual`, `PendingTakeover`). The one that
needs an argument is a primary session's cancel: it was decided while still logging in, and
cannot land logged in because its own dialog keeps the login from completing. The module
also proves `TypeOK`.

`ControlLoop_proofs` proves `OneJvm`, `NothingLeftRunning`, `RestartCapHolds`, `StopIsFinal`,
`ExitIsNotLostConnection` and `TypeOK` for every restart cap and every number of launches, polls
and stop signals, and every configuration. The inductive invariant is `LoopInv`. `LiveInv` says
where a JVM may be alive: the latest one only, none once its exit is known, none between laps.
`OutcomeInv` says that a lap's outcome is decided before it ends. `HeardInv` follows a stop
signal that was heard to the `REQUESTED` it becomes, or to the error of the dead poll that took
its place (`stopReplaced`); the exception of `StopIsFinal` is thereby no wider than that one
meeting of a stop with a dead poll. `ProcessDoneInv` ties the task that awaits
the exit to the exit code, and `BudgetInv` ties `_RelaunchBudget`, which lags by the running
lap, to the laps that really failed. `StopIsFinal` and `ExitIsNotLostConnection` are step
properties and follow from `HeardInv`, `OutcomeInv` and `ProcessDoneInv` at the step.

`EventStream_proofs` proves `MirrorIsPast`, `GapEndsOnlyReader`, `DrainedIsCurrent`,
`NewerThanSnapshot` and `TypeOK` (which bounds the queue and the socket buffers by their capacity,
`IdsLeft`). The invariant `StreamInv` sees what is between the EDT and a reader as one pipe: the
client's socket, then the message the writer holds, then the queue. For a client
that has its snapshot, the events in it are in order, newer than what the mirror has seen, and
complete up to the current registry but for the dropped ones (`lost`); for one that waits, this is
so behind its own snapshot, whatever of an older client comes before (`PipeOK`). That there is
just one needs `WaitingInv`: a client is accepted once, and until `attachClient` has queued its
snapshot there is none of its own anywhere. A drop stays recorded, in the flag or as a report in the
pipe, ahead of any event that came after it, for a client that no other preceded.

`Login_proofs` proves `LoggedInMeansIn`, `CompletedLoginReturns`, `RefillOnlyOnForm`,
`HeardDialogStopsTimer` and `TypeOK`. None follows from one task alone, as four of them share the state:
the outcome task, the poll, the retry and `run()`. The invariant `LoginParts` says where each is,
given the others (`PlaceInv`); what each may conclude from what it has asked and heard
(`PollSound`, `ResultSound`, `ReportedIn`, `ConcludesIn`: an event in the subscription that means
logged in is true of the application); that the watchdog is on only while the task waits, and that
the opening of a 2FA dialog on the screen is then still unread, in the subscription or on its way
(`WatchdogOnlyWaiting`, `AskedIsHeard`); and that without a login by hand one task submits, on the
form (`SubmitterInv`, `CloseUnread`). What is heard and what is on its way are one sequence
(`Unread`), which only loses its head and gains a last event (`UnreadStep`); an arrival does not
change it unless nobody listens. `TypeOK` needs that a menu check is still about the head of the subscription
(`HeardType`).

`Settings_proofs` proves `DialogConfirmed`, `OthersApplied`, `AutoRestartWins` and `TypeOK`. The
invariant `PhaseParts` adds that the menu item and OK are clicked at most once, and OK last
(`ClicksType`, `PhaseInv`); that every entry already passed which has a value is shown by the
widgets or is spoiled (`OrderInv`); that a time shown with a radio is that radio's or one that failed after
it (`TimeInv`); and that what is saved is what the widgets showed when the
phase had been through all entries (`SavedInv`). `AutoRestartWins` is a theorem about the users'
files that satisfy `TimesKept`: an override sets a time exactly where the entry it replaces does,
and what a file adds sets none. It is false of others, by the merge's own order: a user's
additional time entry is applied last. Its proof follows the time widgets past the second
entry (`RestartInv`), and needs that a set of places has a last one (`LastPlace`), by the
well-foundedness of the naturals (`LeastNumber`). `TimesKept` states the kind of the added
entries on the result of `SelectSeq`, which is opaque to the provers.

`AgentSocket_proofs` proves `TypeOK`, `AloneWithOwnAgent` and `RefusedByRunning`, for every number of
supervisors and agents. The invariant `SocketInv` ties an agent to its supervisor: one that lives
is the last its supervisor launched, and a supervisor between laps has seen its agent's exit
(`LaunchInv`); a client waits in one agent's queue and once (`QueueInv`); and a connection leads to
the own agent or another supervisor has launched one (`ConnectionInv`).

Two definitions have the form they have for the proofs' sake: `Settings`' `Entries` is
`1 .. Len(Merged)` and not `DOMAIN Merged`, and `AgentSocket` removes a client that waits once with
`RemoveFirst`.

Model-checked only: the liveness properties (`EverySendReturns`, `Converges`, `StopCompletes`,
`DeathEndsRace`, `OutcomeIsRaised`, `MainWindowEndsRun`, `SplashEndsRun`, `FailedRetryEndsRun`,
`ExitEndsWait`, `WrongAgentIsLeft`, `PhaseEnds`, `SleepEnds`), as the proof system reaches neither
fairness nor ENABLED.

## Not modelled

Strings (labels, paths, JSON), logging, the trace file, keepalives, option parsing and the
one-shot set-up of directories and JVM options: no other part reads a state they change.
What a command does in Swing is not modelled either; to the dispatcher it is an answer.

## Plan

1. Done: `CommandChannel` with `RpcChannel`, `EventStream`, `ControlLoop`, `Login`, `Watcher`,
   `AgentSocket`, `Settings`, `Schedule`; the proofs above.
2. Done: every safety property of the runs is proved. Left to prove: the refinements of the
   abstract modules of 4.
3. Two sessions: `Watcher` twice with the account server between them, and `Login` composed
   with `Watcher` (the role of a session whose state went back).
4. An abstract `Supervisor` (idle, running, stopping, ended) that `ControlLoop` implements,
   and an abstract `Session` (one outcome per login) that `Login` implements.
