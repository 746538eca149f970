----------------------------- MODULE AgentSocket ------------------------------
(***************************************************************************)
(* L1 and L2 at start-up: AgentMain binds its two Unix sockets while the   *)
(* launcher that spawned it waits for a ping and connects the dispatcher.  *)
(* Several supervisors run with one --instance name, and so with the same  *)
(* two paths.                                                              *)
(*                                                                         *)
(* A path is a directory entry: it names the socket that was bound to it,  *)
(* also after the owner of that socket has died.  Agents are numbered in   *)
(* the order of their launches.                                            *)
(***************************************************************************)
EXTENDS Naturals, Sequences, SequencesExt

CONSTANTS
  Supervisors,     (* ibcontroller processes with one instance name        *)
  MaxLaunches      (* bound: agents spawned                                *)

ASSUME SocketAssumption == MaxLaunches \in Nat

Agents == 1 .. MaxLaunches
Paths  == {"cmd", "events"}
Nobody == 0
Left   == MaxLaunches + 1   (* the file an agent of an earlier run left    *)

VARIABLES
  file,            (* what each path names                                 *)
  bound,           (* the sockets each agent listens on                    *)
  apc,             (* where each agent is in AgentMain.main                *)
  binding,         (* the path it is binding                               *)
  queue,           (* its command clients; it serves the first             *)
  spc,             (* where each supervisor is in its lap                  *)
  own,             (* the agent it has spawned last                        *)
  launches,        (* agents spawned by all of them                        *)
  target,          (* the agent its command connection leads to            *)
  events,          (* the agent its event connection leads to              *)
  reaped           (* the agents whose exit asyncio knows of               *)

sockets    == <<file, bound>>
agents     == <<apc, binding, queue>>
supervisor == <<spc, own, launches, target, events>>
vars       == <<sockets, agents, supervisor, reaped>>

TypeOK ==
  /\ file \in [Paths -> {Nobody, Left} \cup Agents]
  /\ bound \in [Agents -> SUBSET Paths]
  /\ apc \in [Agents -> {"off", "exists", "isAlive", "delete", "bind", "serving", "dead"}]
  /\ binding \in [Agents -> Paths]
  /\ queue \in [Agents -> Seq(Supervisors)]
  /\ \A a \in Agents : IsInjective(queue[a])
  /\ spc \in [Supervisors -> {"idle", "waiting", "probing", "connecting", "connected",
                              "stopping"}]
  /\ {own, target, events} \subseteq [Supervisors -> {Nobody} \cup Agents]
  /\ launches \in 0 .. MaxLaunches
  /\ reaped \subseteq Agents

Listening(p) == file[p] \in Agents /\ p \in bound[file[p]]

-----------------------------------------------------------------------------
(* AgentMain.main *)

(* The process is gone: its sockets are closed, its files stay. *)
Dies(a) ==
  /\ apc' = [apc EXCEPT ![a] = "dead"]
  /\ bound' = [bound EXCEPT ![a] = {}]
  /\ queue' = [queue EXCEPT ![a] = <<>>]
  /\ binding' = [binding EXCEPT ![a] = "cmd"]
  /\ UNCHANGED file

Exists(a) ==
  /\ apc[a] = "exists"
  /\ apc' = [apc EXCEPT ![a] = IF file[binding[a]] = Nobody THEN "bind" ELSE "isAlive"]
  /\ UNCHANGED <<sockets, binding, queue, supervisor, reaped>>

(* A connection attempt tells; main throws if somebody listens. *)
IsAlive(a) ==
  LET p == binding[a] IN
  /\ apc[a] = "isAlive"
  /\ \/ /\ Listening(p)
        /\ Dies(a)
     \/ /\ ~Listening(p)
        /\ apc' = [apc EXCEPT ![a] = "delete"]
        /\ UNCHANGED <<sockets, binding, queue>>
  /\ UNCHANGED <<supervisor, reaped>>

(* Files.delete throws for a path that has gone. *)
Delete(a) ==
  /\ apc[a] = "delete"
  /\ \/ /\ file[binding[a]] = Nobody
        /\ Dies(a)
     \/ /\ file[binding[a]] # Nobody
        /\ file' = [file EXCEPT ![binding[a]] = Nobody]
        /\ apc' = [apc EXCEPT ![a] = "bind"]
        /\ UNCHANGED <<bound, binding, queue>>
  /\ UNCHANGED <<supervisor, reaped>>

(* bind fails for a path that exists; after the second one, the accept     *)
(* loops run.                                                              *)
Bind(a) ==
  LET p == binding[a] IN
  /\ apc[a] = "bind"
  /\ \/ /\ file[p] # Nobody
        /\ Dies(a)
     \/ /\ file[p] = Nobody
        /\ file' = [file EXCEPT ![p] = a]
        /\ bound' = [bound EXCEPT ![a] = @ \cup {p}]
        /\ apc' = [apc EXCEPT ![a] = IF p = "cmd" THEN "exists" ELSE "serving"]
        /\ binding' = [binding EXCEPT ![a] = "events"]
        /\ UNCHANGED queue
  /\ UNCHANGED <<supervisor, reaped>>

(* The application exits, crashes or is killed: System.exit runs no        *)
(* finally clause of main.                                                 *)
AgentExits(a) ==
  /\ apc[a] \notin {"off", "dead"}
  /\ Dies(a)
  /\ UNCHANGED <<supervisor, reaped>>

-----------------------------------------------------------------------------
(* launch_instance and the end of the lap *)

Spawn(s) ==
  /\ spc[s] = "idle"
  /\ launches < MaxLaunches
  /\ launches' = launches + 1
  /\ own' = [own EXCEPT ![s] = launches + 1]
  /\ spc' = [spc EXCEPT ![s] = "waiting"]
  /\ apc' = [apc EXCEPT ![launches + 1] = "exists"]
  /\ UNCHANGED <<sockets, binding, queue, target, events, reaped>>

ChildReaped(s) ==
  /\ own[s] # Nobody
  /\ apc[own[s]] = "dead"
  /\ reaped' = reaped \cup {own[s]}
  /\ UNCHANGED <<sockets, agents, supervisor>>

(* One command connection, to whoever listens on the path. *)
Connects(s) ==
  /\ Listening("cmd")
  /\ target' = [target EXCEPT ![s] = file["cmd"]]
  /\ queue' = [queue EXCEPT ![file["cmd"]] = Append(@, s)]

(* Mutant: a probe is not closed. *)
StaysQueued(s) == queue

(* Every connection of this supervisor is closed. *)
Disconnected(s) == [a \in Agents |-> RemoveFirst(queue[a], s)]

(* _wait_for_ready: the exit check, then a ping that is bounded in time. *)
Probes(s) ==
  /\ spc[s] = "waiting"
  /\ own[s] \notin reaped
  /\ Connects(s)
  /\ spc' = [spc EXCEPT ![s] = "probing"]
  /\ UNCHANGED <<sockets, apc, binding, own, launches, events, reaped>>

Pinged(s) ==
  /\ spc[s] = "probing"
  /\ apc[target[s]] = "serving"
  /\ queue[target[s]] # <<>> /\ Head(queue[target[s]]) = s
  /\ spc' = [spc EXCEPT ![s] = "connecting"]
  /\ queue' = Disconnected(s)
  /\ target' = [target EXCEPT ![s] = Nobody]
  /\ UNCHANGED <<sockets, apc, binding, own, launches, events, reaped>>

(* Mutant: only an agent that has died ends a probe. *)
ProbeWaits(s) ==
  /\ spc[s] = "probing"
  /\ apc[target[s]] = "dead"
  /\ spc' = [spc EXCEPT ![s] = "waiting"]
  /\ queue' = Disconnected(s)
  /\ target' = [target EXCEPT ![s] = Nobody]
  /\ UNCHANGED <<sockets, apc, binding, own, launches, events, reaped>>

ProbeFails(s) ==
  /\ spc[s] = "probing"
  /\ spc' = [spc EXCEPT ![s] = "waiting"]
  /\ queue' = Disconnected(s)
  /\ target' = [target EXCEPT ![s] = Nobody]
  /\ UNCHANGED <<sockets, apc, binding, own, launches, events, reaped>>

(* _abort_launch or clean_shutdown: the own agent must exit, then the      *)
(* connections are closed, and the supervisor launches again or not.       *)
Stops(s) ==
  /\ spc' = [spc EXCEPT ![s] = "stopping"]
  /\ UNCHANGED <<sockets, agents, own, launches, target, events, reaped>>

(* AgentStartupError, or LauncherError at the deadline. *)
ExitSeen(s) == spc[s] = "waiting" /\ own[s] \in reaped /\ Stops(s)

GivesUp(s) == spc[s] = "waiting" /\ Stops(s)

(* Dispatcher.start: the command connection, then that of the events; if   *)
(* the second fails, the first is closed.                                  *)
StartsCommands(s) ==
  /\ spc[s] = "connecting"
  /\ target[s] = Nobody
  /\ Connects(s)
  /\ UNCHANGED <<sockets, apc, binding, spc, own, launches, events, reaped>>

StartsEvents(s) ==
  /\ spc[s] = "connecting"
  /\ target[s] # Nobody
  /\ Listening("events")
  /\ events' = [events EXCEPT ![s] = file["events"]]
  /\ spc' = [spc EXCEPT ![s] = "connected"]
  /\ UNCHANGED <<sockets, agents, own, launches, target, reaped>>

StartFails(s) ==
  /\ spc[s] = "connecting"
  /\ ~Listening(IF target[s] = Nobody THEN "cmd" ELSE "events")
  /\ spc' = [spc EXCEPT ![s] = "stopping"]
  /\ queue' = Disconnected(s)
  /\ target' = [target EXCEPT ![s] = Nobody]
  /\ UNCHANGED <<sockets, apc, binding, own, launches, events, reaped>>

(* Mutant: only the dispatcher's tasks end the lap of a dead process. *)
ProcessDoneSilent(s) ==
  /\ spc[s] = "connected" /\ own[s] \in reaped
  /\ apc[target[s]] = "dead"
  /\ Stops(s)

(* The lap's race: the own process first, then whatever else ends a lap.   *)
ProcessDone(s) == spc[s] = "connected" /\ own[s] \in reaped /\ Stops(s)

LapEnds(s) == spc[s] = "connected" /\ Stops(s)

(* The dispatcher's tasks end with either connection. *)
ConnectionLost(s) ==
  /\ spc[s] = "connected"
  /\ "dead" \in {apc[target[s]], apc[events[s]]}
  /\ Stops(s)

(* Mutant: the next lap does not wait for the exit. *)
StoppedEarly(s) ==
  /\ spc[s] = "stopping"
  /\ spc' = [spc EXCEPT ![s] = "idle"]
  /\ queue' = Disconnected(s)
  /\ target' = [target EXCEPT ![s] = Nobody]
  /\ events' = [events EXCEPT ![s] = Nobody]
  /\ UNCHANGED <<sockets, apc, binding, own, launches, reaped>>

Stopped(s) ==
  /\ spc[s] = "stopping"
  /\ own[s] \in reaped
  /\ spc' = [spc EXCEPT ![s] = "idle"]
  /\ queue' = Disconnected(s)
  /\ target' = [target EXCEPT ![s] = Nobody]
  /\ events' = [events EXCEPT ![s] = Nobody]
  /\ UNCHANGED <<sockets, apc, binding, own, launches, reaped>>

-----------------------------------------------------------------------------
Init ==
  /\ file \in [Paths -> {Nobody, Left}]
  /\ bound = [a \in Agents |-> {}]
  /\ apc = [a \in Agents |-> "off"]
  /\ binding = [a \in Agents |-> "cmd"]
  /\ queue = [a \in Agents |-> <<>>]
  /\ spc = [s \in Supervisors |-> "idle"]
  /\ own = [s \in Supervisors |-> Nobody]
  /\ launches = 0
  /\ target = [s \in Supervisors |-> Nobody]
  /\ events = [s \in Supervisors |-> Nobody]
  /\ reaped = {}

Starts(a)    == Exists(a) \/ IsAlive(a) \/ Delete(a) \/ Bind(a)
Readiness(s) == Probes(s) \/ Pinged(s) \/ ProbeFails(s) \/ ExitSeen(s) \/ GivesUp(s)
Dispatching(s) == StartsCommands(s) \/ StartsEvents(s) \/ StartFails(s)
Ending(s)    == ProcessDone(s) \/ ConnectionLost(s) \/ LapEnds(s) \/ Stopped(s)

Next ==
  \/ \E a \in Agents : Starts(a) \/ AgentExits(a)
  \/ \E s \in Supervisors :
       Spawn(s) \/ ChildReaped(s) \/ Readiness(s) \/ Dispatching(s) \/ Ending(s)

(* SIGKILL ends an agent that its supervisor stops.  A probe is bounded by *)
(* _PING_ATTEMPT_TIMEOUT; nothing is assumed of the deadline of the whole. *)
Killed(a) == (\E s \in Supervisors : own[s] = a /\ spc[s] = "stopping") /\ AgentExits(a)

Fairness ==
  /\ \A a \in Agents : WF_vars(Starts(a)) /\ WF_vars(Killed(a))
  /\ \A s \in Supervisors :
       /\ WF_vars(ChildReaped(s))
       /\ WF_vars(ProbeFails(s))
       /\ WF_vars(ExitSeen(s))
       /\ WF_vars(Dispatching(s))
       /\ WF_vars(ProcessDone(s)) /\ WF_vars(ConnectionLost(s))
       /\ WF_vars(Stopped(s))

Spec == Init /\ [][Next]_vars /\ Fairness

-----------------------------------------------------------------------------
(* terminate_and_wait: "a relaunch never races the old JVM for its command *)
(* socket".  Only an agent that some supervisor runs refuses another.      *)
RefusedByRunning ==
  [][\A a \in Agents :
       (apc[a] = "isAlive" /\ apc'[a] = "dead" /\ Listening(binding[a]))
         => \E s \in Supervisors : own[s] = file[binding[a]]]_vars

(* A supervisor that has its instance name to itself is connected to its   *)
(* own agent on both sockets, whatever its earlier agents left behind.     *)
AloneWithOwnAgent ==
  \A s \in Supervisors :
    (spc[s] = "connected" /\ \A t \in Supervisors \ {s} : own[t] = Nobody)
      => target[s] = own[s] /\ events[s] = own[s]

(* A socket that was unlinked while its owner lives. *)
Unlinked(a, p) == p \in bound[a] /\ file[p] # a

(* bind: "two agents sharing an --instance name would otherwise let the    *)
(* second unlink the first's socket file, leaving the first unreachable".  *)
NeverUnlinked == \A a \in Agents, p \in Paths : ~Unlinked(a, p)

(* _wait_for_ready: "ping succeeding means the agent process is up". *)
PingMeansUp ==
  \A s \in Supervisors : spc[s] = "connecting" => apc[own[s]] \in {"serving", "dead"}

(* The wait for a ping ends once the own agent has exited, although        *)
(* another agent may hold the path and serve somebody else                 *)
(* (_wait_for_ready's exit check and _PING_ATTEMPT_TIMEOUT).               *)
ExitEndsWait ==
  \A s \in Supervisors :
    (spc[s] \in {"waiting", "probing"} /\ own[s] # Nobody /\ apc[own[s]] = "dead")
      ~> (spc[s] \notin {"waiting", "probing"})

(* A supervisor that was answered by another's agent does not stay with    *)
(* it: its own was refused and has exited, and that ends the lap.          *)
WrongAgentIsLeft ==
  \A s \in Supervisors :
    (spc[s] = "connected" /\ target[s] # own[s])
      ~> (spc[s] # "connected" \/ \E a \in Agents, p \in Paths : Unlinked(a, p))

=============================================================================
