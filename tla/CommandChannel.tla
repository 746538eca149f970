--------------------------- MODULE CommandChannel ---------------------------
(***************************************************************************)
(* The command path of one Dispatcher: send() callers, the FIFO queue, the *)
(* single _command_worker task, the AgentCommandConnection it owns, and    *)
(* the agent's handleCommandClient loop at the other end of the socket.    *)
(* The wire carries no request ids, so an answer belongs to a request only *)
(* by position.                                                            *)
(*                                                                         *)
(* One action is one uninterrupted run of a coroutine between two awaits   *)
(* (asyncio), or one step of the agent's command thread.                   *)
(***************************************************************************)
EXTENDS Naturals, Sequences, FiniteSets

CONSTANTS
  Req,    (* the send() calls made over the dispatcher's life *)
  None    (* no request                                       *)

ASSUME NoneAssumption == None \notin Req

VARIABLES
  future,        (* the asyncio.Future of each send()                      *)
  queue,         (* Dispatcher._command_queue                              *)
  inFlight,      (* Dispatcher._in_flight                                  *)
  worker,        (* the _command_worker task                               *)
  closedReason,  (* Dispatcher._closed_reason                              *)
  stopping,      (* progress of Dispatcher.stop                            *)
  broken,        (* AgentCommandConnection._broken                         *)
  toAgent,       (* request lines written, not yet read by the agent       *)
  serving,       (* the request the agent's command thread is dispatching  *)
  toClient,      (* response lines written, not yet read by the worker     *)
  agentUp,       (* the agent still holds its end of the connection        *)
  sent,          (* history: the calls accepted into the queue, in order   *)
  executed,      (* history: the calls the agent carried out, in order     *)
  answeredBy     (* history: whose response line resolved each future      *)

dispatcher == <<future, queue, inFlight, worker, closedReason, stopping>>
wire       == <<toAgent, serving, toClient, agentUp>>
history    == <<sent, executed, answeredBy>>
vars       == <<dispatcher, broken, wire, history>>

FutureState  == {"new", "pending", "result", "error", "failed", "refused", "cancelled"}
WorkerState  == {"created", "idle", "requesting", "ended"}
Response     == [req : Req, kind : {"ok", "error", "badShape", "partial"}]

TypeOK ==
  /\ future \in [Req -> FutureState]
  /\ queue \in Seq(Req)
  /\ inFlight \in Req \cup {None}
  /\ worker \in WorkerState
  /\ closedReason \in {"open", "broken", "stopped"}
  /\ stopping \in {"no", "gathering", "stopped"}
  /\ broken \in BOOLEAN
  /\ toAgent \in Seq(Req)
  /\ serving \in Req \cup {None}
  /\ toClient \in Seq(Response)
  /\ agentUp \in BOOLEAN
  /\ sent \in Seq(Req)
  /\ executed \in Seq(Req)
  /\ answeredBy \in [Req -> Req \cup {None}]

Elements(s) == {s[i] : i \in DOMAIN s}

(* Dispatcher.start has just created the two tasks; none has run yet. *)
Init ==
  /\ future = [r \in Req |-> "new"]
  /\ queue = <<>>
  /\ inFlight = None
  /\ worker = "created"
  /\ closedReason = "open"
  /\ stopping = "no"
  /\ broken = FALSE
  /\ toAgent = <<>>
  /\ serving = None
  /\ toClient = <<>>
  /\ agentUp = TRUE
  /\ sent = <<>>
  /\ executed = <<>>
  /\ answeredBy = [r \in Req |-> None]

-----------------------------------------------------------------------------
(* Callers *)

(* Mutant: send() forgets that the dispatcher is closed. *)
SendIgnoresClosed(r) ==
  /\ future[r] = "new"
  /\ future' = [future EXCEPT ![r] = "pending"]
  /\ queue' = Append(queue, r)
  /\ sent' = Append(sent, r)
  /\ UNCHANGED <<inFlight, worker, closedReason, stopping, broken, wire,
                 executed, answeredBy>>

Send(r) ==
  /\ future[r] = "new"
  /\ IF closedReason # "open"
       THEN /\ future' = [future EXCEPT ![r] = "refused"]
            /\ UNCHANGED <<queue, sent>>
       ELSE /\ future' = [future EXCEPT ![r] = "pending"]
            /\ queue' = Append(queue, r)
            /\ sent' = Append(sent, r)
  /\ UNCHANGED <<inFlight, worker, closedReason, stopping, broken, wire,
                 executed, answeredBy>>

(* The awaiting task is cancelled: asyncio cancels the future it awaits.   *)
(* The queue entry, or the request on the wire, stays where it is.         *)
CancelSend(r) ==
  /\ future[r] = "pending"
  /\ future' = [future EXCEPT ![r] = "cancelled"]
  /\ UNCHANGED <<queue, inFlight, worker, closedReason, stopping, broken,
                 wire, history>>

-----------------------------------------------------------------------------
(* _fail_pending: fails the in-flight and every queued command; the first  *)
(* reason is kept.                                                         *)

(* Mutant: only the queued commands are failed, not the one in flight. *)
FailQueuedOnly(reason) ==
  /\ closedReason' = IF closedReason = "open" THEN reason ELSE closedReason
  /\ future' = [r \in Req |->
       IF r \in Elements(queue) /\ future[r] = "pending"
         THEN "failed" ELSE future[r]]
  /\ queue' = <<>>
  /\ inFlight' = None

FailPending(reason) ==
  /\ closedReason' = IF closedReason = "open" THEN reason ELSE closedReason
  /\ future' = [r \in Req |->
       IF r \in Elements(queue) \cup {inFlight} /\ future[r] = "pending"
         THEN "failed" ELSE future[r]]
  /\ queue' = <<>>
  /\ inFlight' = None

(* The worker: a cancelled entry is skipped, any other is written out.     *)
WorkerTake ==
  /\ worker \in {"created", "idle"}
  /\ stopping = "no"
  /\ queue # <<>>
  /\ queue' = Tail(queue)
  /\ IF future[Head(queue)] = "cancelled"
       THEN /\ worker' = "idle"
            /\ UNCHANGED <<inFlight, toAgent>>
       ELSE /\ worker' = "requesting"
            /\ inFlight' = Head(queue)
            /\ toAgent' = IF agentUp THEN Append(toAgent, Head(queue)) ELSE toAgent
  /\ UNCHANGED <<future, closedReason, stopping, broken, serving, toClient,
                 agentUp, history>>

WorkerWaits ==
  /\ worker = "created"
  /\ stopping = "no"
  /\ queue = <<>>
  /\ worker' = "idle"
  /\ UNCHANGED <<future, queue, inFlight, closedReason, stopping, broken,
                 wire, history>>

(* set_result / set_exception, unless the caller has gone. *)
Resolve(outcome, m) ==
  IF future[inFlight] = "cancelled"
    THEN UNCHANGED <<future, answeredBy>>
    ELSE /\ future' = [future EXCEPT ![inFlight] = outcome]
         /\ answeredBy' = [answeredBy EXCEPT ![inFlight] = m.req]

(* A complete response line: a result, an error the agent reports, or a    *)
(* well-formed response that request.parse refuses (ProtocolError, but the *)
(* stream is still aligned and the connection is kept).                    *)
WorkerReceives ==
  /\ worker = "requesting"
  /\ stopping = "no"
  /\ toClient # <<>>
  /\ Head(toClient).kind # "partial"
  /\ LET m == Head(toClient) IN
       Resolve(CASE m.kind = "ok" -> "result"
                 [] m.kind = "error" -> "error"
                 [] OTHER -> "failed", m)
  /\ toClient' = Tail(toClient)
  /\ inFlight' = None
  /\ worker' = "idle"
  /\ UNCHANGED <<queue, closedReason, stopping, broken, toAgent, serving,
                 agentUp, sent, executed>>

(* A failure between the write and a parsed response: _mark_broken, the    *)
(* worker returns and its finally clause fails whatever is pending.        *)
RequestBreaks ==
  /\ FailPending("broken")
  /\ broken' = TRUE
  /\ worker' = "ended"

(* Mutant: a timed-out request is failed but its connection is kept. *)
TimeoutKeepsConnection ==
  /\ worker = "requesting"
  /\ stopping = "no"
  /\ future' = IF future[inFlight] = "cancelled" THEN future
               ELSE [future EXCEPT ![inFlight] = "failed"]
  /\ inFlight' = None
  /\ worker' = "idle"
  /\ UNCHANGED <<queue, closedReason, stopping, broken, wire, history>>

(* Mutant: a timed-out request is put back at the head of the queue. *)
TimeoutRetries ==
  /\ worker = "requesting"
  /\ stopping = "no"
  /\ queue' = <<inFlight>> \o queue
  /\ inFlight' = None
  /\ worker' = "idle"
  /\ Len(toAgent) < 2
  /\ UNCHANGED <<future, closedReason, stopping, broken, wire, history>>

RequestTimesOut ==
  /\ worker = "requesting"
  /\ stopping = "no"
  /\ RequestBreaks
  /\ UNCHANGED <<stopping, wire, history>>

(* End of file, a truncated last line, or an OSError from a socket whose   *)
(* peer is gone.                                                           *)
RequestFails ==
  /\ worker = "requesting"
  /\ stopping = "no"
  /\ \/ toClient # <<>> /\ Head(toClient).kind = "partial"
     \/ ~agentUp
  /\ RequestBreaks
  /\ UNCHANGED <<stopping, wire, history>>

-----------------------------------------------------------------------------
(* Dispatcher.stop *)

Stop ==
  /\ stopping = "no"
  /\ stopping' = "gathering"
  /\ UNCHANGED <<future, queue, inFlight, worker, closedReason, broken, wire,
                 history>>

(* CancelledError reaches the worker.  A task cancelled before its first   *)
(* step never enters its try block, so nothing is failed there.            *)
WorkerCancelled ==
  /\ stopping = "gathering"
  /\ worker # "ended"
  /\ worker' = "ended"
  /\ broken' = (broken \/ worker = "requesting")
  /\ IF worker = "created"
       THEN UNCHANGED <<future, queue, inFlight, closedReason>>
       ELSE FailPending("stopped")
  /\ UNCHANGED <<stopping, wire, history>>

(* Mutant: stop() leaves failing to the worker's own finally clause. *)
StopTrustsWorker ==
  /\ stopping = "gathering"
  /\ worker = "ended"
  /\ stopping' = "stopped"
  /\ UNCHANGED <<future, queue, inFlight, closedReason, worker, broken, wire,
                 history>>

(* Both tasks gathered: fail what is left and close the connections. *)
StopCompletes ==
  /\ stopping = "gathering"
  /\ worker = "ended"
  /\ stopping' = "stopped"
  /\ FailPending("stopped")
  /\ UNCHANGED <<worker, broken, wire, history>>

-----------------------------------------------------------------------------
(* The agent's command thread: one line, one dispatch, one response line.  *)

AgentReads ==
  /\ agentUp
  /\ serving = None
  /\ toAgent # <<>>
  /\ serving' = Head(toAgent)
  /\ toAgent' = Tail(toAgent)
  /\ UNCHANGED <<dispatcher, broken, toClient, agentUp, history>>

AgentResponds(kind) ==
  /\ agentUp
  /\ serving # None
  /\ executed' = Append(executed, serving)
  /\ toClient' = Append(toClient, [req |-> serving, kind |-> kind])
  /\ serving' = None
  /\ UNCHANGED <<dispatcher, broken, toAgent, agentUp, sent, answeredBy>>

(* The JVM goes away.  A command being dispatched may or may not have had  *)
(* its effect, and may leave a truncated response line behind.             *)
AgentDies ==
  /\ agentUp
  /\ agentUp' = FALSE
  /\ toAgent' = <<>>
  /\ serving' = None
  /\ \/ UNCHANGED <<executed, toClient>>
     \/ /\ serving # None
        /\ executed' = Append(executed, serving)
        /\ \/ UNCHANGED toClient
           \/ toClient' = Append(toClient, [req |-> serving, kind |-> "partial"])
  /\ UNCHANGED <<dispatcher, broken, sent, answeredBy>>

-----------------------------------------------------------------------------
Worker == WorkerTake \/ WorkerWaits \/ WorkerReceives \/ RequestTimesOut
          \/ RequestFails \/ WorkerCancelled

Agent == AgentReads \/ AgentDies
         \/ \E kind \in {"ok", "error", "badShape"} : AgentResponds(kind)

Next ==
  \/ \E r \in Req : Send(r) \/ CancelSend(r)
  \/ Worker
  \/ Stop
  \/ StopCompletes
  \/ Agent

(* The event loop runs every ready task, and a request's timeout is a      *)
(* timer of that loop.  Nothing is assumed of the agent or the callers.    *)
Fairness ==
  /\ WF_vars(Worker)
  /\ WF_vars(StopCompletes)

Spec == Init /\ [][Next]_vars /\ Fairness

-----------------------------------------------------------------------------
(* Properties *)

(* An answer reaches the caller it belongs to, although the wire carries   *)
(* no request ids: a late answer is never taken for a later request's.     *)
AnswersOwnRequest ==
  \A r \in Req : future[r] \in {"result", "error"} => answeredBy[r] = r

(* While the connection is usable, nothing is on the wire but the request  *)
(* in flight, and only once (_command_worker: never overlapping).          *)
OnTheWire(r) ==
  \/ r \in Elements(toAgent)
  \/ serving = r
  \/ \E i \in DOMAIN toClient : toClient[i].req = r

OneOnTheWire ==
  ~broken =>
    /\ Len(toAgent) + Len(toClient) <= 1
    /\ serving # None => toAgent = <<>> /\ toClient = <<>>
    /\ \A r \in Req : OnTheWire(r) => inFlight = r

(* Once the worker or stop() has closed the dispatcher, no caller is left  *)
(* waiting on a future nobody will resolve.                                *)
NothingPendingOnceClosed ==
  closedReason # "open" => /\ queue = <<>>
                           /\ \A r \in Req : future[r] # "pending"

(* The agent carries out commands in the order send() accepted them, each  *)
(* at most once, whatever was cancelled, timed out or lost in between.     *)
SentBefore(a, b) ==
  \E i, j \in DOMAIN sent : i < j /\ sent[i] = a /\ sent[j] = b

ExecutedInSendOrder ==
  \A i, j \in DOMAIN executed : i < j => SentBefore(executed[i], executed[j])

(* A command whose caller gave up while it was still queued is not written *)
(* to the agent (_command_worker: done.cancelled()).                       *)
AbandonedNeverWritten ==
  [][\A r \in Req : future[r] = "cancelled" /\ r \in Elements(queue)
                      => r \notin Elements(toAgent')]_vars

(* Every send() returns or raises: an answer, its timeout, a broken        *)
(* connection or stop() settles it.                                        *)
EverySendReturns ==
  \A r \in Req : future[r] = "pending" ~> future[r] # "pending"

(* The inductive invariant behind the properties above: where a call can   *)
(* be, given what its future says.                                         *)
Accepted(r) == future[r] \notin {"new", "refused"}
Unsettled(r) == future[r] \in {"pending", "cancelled"}

WorkerInv ==
  /\ inFlight # None <=> worker = "requesting"
  /\ broken => worker = "ended"
  /\ closedReason # "open" => worker = "ended"
  /\ stopping = "stopped" => worker = "ended" /\ closedReason # "open"

PendingInv ==
  \A r \in Req : future[r] = "pending" => r \in Elements(queue) \/ r = inFlight

WireInv ==
  /\ Len(toAgent) + Len(toClient) <= 1
  /\ serving # None => toAgent = <<>> /\ toClient = <<>>
  /\ ~broken => \A r \in Req : OnTheWire(r) => inFlight = r

QueueInv ==
  /\ \A i, j \in DOMAIN queue : queue[i] = queue[j] => i = j
  /\ \A r \in Elements(queue) :
       /\ Unsettled(r)
       /\ r # inFlight /\ ~OnTheWire(r) /\ r \notin Elements(executed)

RanInv ==
  /\ \A r \in Elements(toAgent) \cup ({serving} \ {None}) :
       Accepted(r) /\ r \notin Elements(executed)
  /\ \A i \in DOMAIN toClient : toClient[i].req \in Elements(executed)
  /\ \A r \in Elements(executed) : Accepted(r)
  /\ inFlight # None => Unsettled(inFlight)

ChannelInv ==
  /\ TypeOK
  /\ WorkerInv
  /\ PendingInv
  /\ WireInv
  /\ QueueInv
  /\ RanInv
  /\ NothingPendingOnceClosed
  /\ AnswersOwnRequest

(* The dispatcher implements the abstract call channel. *)
CallOf(r) ==
  CASE future[r] = "pending" -> "open"
    [] future[r] \in {"result", "error"} -> "answered"
    [] OTHER -> future[r]

Rpc == INSTANCE RpcChannel WITH
         call   <- [r \in Req |-> CallOf(r)],
         ran    <- Elements(executed),
         closed <- closedReason # "open"

ImplementsRpcChannel == Rpc!Spec
=============================================================================
