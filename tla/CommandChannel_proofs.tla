------------------------ MODULE CommandChannel_proofs ------------------------
(***************************************************************************)
(* Proofs about CommandChannel, for every set of calls.                    *)
(***************************************************************************)
EXTENDS CommandChannel, TLAPS

-----------------------------------------------------------------------------
(* The elements of a sequence.                                             *)

(* Appending to a queue adds exactly the appended entry. *)
LEMMA ElementsAppend ==
  ASSUME NEW S, NEW s \in Seq(S), NEW x \in S
  PROVE  Elements(Append(s, x)) = Elements(s) \cup {x}
<1>1. ASSUME NEW y \in Elements(s) PROVE y \in Elements(Append(s, x))
  <2>1. PICK i \in DOMAIN s : y = s[i]
    BY <1>1 DEF Elements
  <2>2. i \in DOMAIN Append(s, x) /\ Append(s, x)[i] = y
    BY <2>1
  <2> QED BY <2>2 DEF Elements
<1>2. x \in Elements(Append(s, x))
  <2>1. Len(s) + 1 \in DOMAIN Append(s, x) /\ Append(s, x)[Len(s) + 1] = x
    OBVIOUS
  <2> QED BY <2>1 DEF Elements
<1>3. ASSUME NEW y \in Elements(Append(s, x)) PROVE y \in Elements(s) \cup {x}
  BY <1>3 DEF Elements
<1> QED BY <1>1, <1>2, <1>3

(* Taking the head of a queue leaves only entries that were in it. *)
LEMMA ElementsHeadTail ==
  ASSUME NEW S, NEW s \in Seq(S), s # <<>>
  PROVE  /\ Head(s) \in S /\ Tail(s) \in Seq(S)
         /\ Head(s) \in Elements(s)
         /\ Elements(s) = Elements(Tail(s)) \cup {Head(s)}
<1>1. Head(s) \in S /\ Tail(s) \in Seq(S) /\ Len(Tail(s)) = Len(s) - 1
  OBVIOUS
<1>2. Head(s) \in Elements(s)
  <2>1. 1 \in DOMAIN s /\ s[1] = Head(s)
    OBVIOUS
  <2> QED BY <2>1 DEF Elements
<1>3. ASSUME NEW y \in Elements(Tail(s)) PROVE y \in Elements(s)
  <2>1. PICK i \in DOMAIN Tail(s) : y = Tail(s)[i]
    BY <1>3 DEF Elements
  <2>2. i + 1 \in DOMAIN s /\ s[i + 1] = y
    BY <2>1
  <2> QED BY <2>2 DEF Elements
<1>4. ASSUME NEW y \in Elements(s), y # Head(s) PROVE y \in Elements(Tail(s))
  <2>1. PICK i \in DOMAIN s : y = s[i]
    BY <1>4 DEF Elements
  <2>2. i # 1
    BY <1>4, <2>1
  <2>3. i - 1 \in DOMAIN Tail(s) /\ Tail(s)[i - 1] = y
    BY <2>1, <2>2
  <2> QED BY <2>3 DEF Elements
<1> QED BY <1>1, <1>2, <1>3, <1>4

LEMMA ElementsEmpty == Elements(<<>>) = {}
BY DEF Elements

LEMMA AtMostOne ==
  ASSUME NEW m \in Nat, NEW n \in Nat, m + n <= 1
  PROVE  (m = 0 \/ n = 0) /\ m \in {0, 1} /\ n \in {0, 1}
OBVIOUS

LEMMA OneOrNone ==
  ASSUME NEW m \in {0, 1}
  PROVE  0 + m <= 1
OBVIOUS

(* Two lines in flight, one of which exists, are just that one. *)
LEMMA OnlyLine ==
  ASSUME NEW S, NEW s \in Seq(S), NEW T, NEW t \in Seq(T),
         s # <<>>, Len(t) + Len(s) <= 1
  PROVE  t = <<>> /\ Tail(s) = <<>> /\ s = <<Head(s)>>
<1>1. Len(s) \in Nat /\ Len(t) \in Nat
  OBVIOUS
<1>2. Len(s) # 0
  OBVIOUS
<1>3. Len(s) = 1 /\ Len(t) = 0
  BY <1>1, <1>2, AtMostOne
<1>4. t = <<>>
  BY <1>3
<1>5. Tail(s) = <<>>
  <2>1. Tail(s) \in Seq(S) /\ Len(Tail(s)) = Len(s) - 1
    OBVIOUS
  <2>2. Len(Tail(s)) = 0
    BY <1>3, <2>1
  <2> QED BY <2>1, <2>2
<1>6. s = <<Head(s)>>
  BY <1>3
<1> QED BY <1>4, <1>5, <1>6

-----------------------------------------------------------------------------
(* CommandChannel is type correct. *)
LEMMA TypeInit == Init => TypeOK
<1> SUFFICES ASSUME Init PROVE TypeOK
  OBVIOUS
<1>1. future \in [Req -> FutureState] /\ answeredBy \in [Req -> Req \cup {None}]
  BY DEF Init, FutureState
<1>2. /\ queue \in Seq(Req) /\ toAgent \in Seq(Req) /\ toClient \in Seq(Response)
      /\ sent \in Seq(Req) /\ executed \in Seq(Req)
  BY DEF Init
<1> QED BY <1>1, <1>2 DEF Init, TypeOK, WorkerState

LEMMA FailPendingType ==
  ASSUME TypeOK, NEW reason \in {"broken", "stopped"}, FailPending(reason)
  PROVE  /\ future' \in [Req -> FutureState]
         /\ queue' = <<>> /\ queue' \in Seq(Req)
         /\ inFlight' = None
         /\ closedReason' \in {"open", "broken", "stopped"}
         /\ closedReason' # "open"
BY DEF TypeOK, FailPending, FutureState

LEMMA TypeStep == TypeOK /\ [Next]_vars => TypeOK'
<1> SUFFICES ASSUME TypeOK, [Next]_vars PROVE TypeOK'
  OBVIOUS
<1> USE DEF TypeOK, FutureState, WorkerState
<1>1. ASSUME NEW r \in Req, Send(r) PROVE TypeOK'
  <2>1. CASE closedReason # "open"
    BY <1>1, <2>1 DEF Send, wire
  <2>2. CASE closedReason = "open"
    <3>1. Append(queue, r) \in Seq(Req) /\ Append(sent, r) \in Seq(Req)
      OBVIOUS
    <3>2. future' \in [Req -> FutureState]
      BY <1>1, <2>2 DEF Send
    <3> QED BY <1>1, <2>2, <3>1, <3>2 DEF Send, wire
  <2> QED BY <2>1, <2>2
<1>2. ASSUME NEW r \in Req, CancelSend(r) PROVE TypeOK'
  BY <1>2 DEF CancelSend, wire, history
<1>3. CASE WorkerTake
  <2>1. Head(queue) \in Req /\ Tail(queue) \in Seq(Req)
    BY <1>3, ElementsHeadTail DEF WorkerTake
  <2>2. Append(toAgent, Head(queue)) \in Seq(Req)
    BY <2>1
  <2>3. toAgent' \in Seq(Req) /\ inFlight' \in Req \cup {None}
    BY <1>3, <2>1, <2>2 DEF WorkerTake
  <2> QED BY <1>3, <2>1, <2>3 DEF WorkerTake, history
<1>4. CASE WorkerWaits
  BY <1>4 DEF WorkerWaits, wire, history
<1>5. CASE WorkerReceives
  <2>1. Head(toClient) \in Response /\ Tail(toClient) \in Seq(Response)
    BY <1>5 DEF WorkerReceives
  <2>2. Head(toClient).req \in Req
    BY <2>1 DEF Response
  <2>3. future' \in [Req -> FutureState] /\ answeredBy' \in [Req -> Req \cup {None}]
    BY <1>5, <2>2 DEF WorkerReceives, Resolve
  <2> QED BY <1>5, <2>1, <2>3 DEF WorkerReceives
<1>6. CASE RequestTimesOut \/ RequestFails
  BY <1>6, FailPendingType DEF RequestTimesOut, RequestFails, RequestBreaks, wire, history
<1>7. CASE Stop
  BY <1>7 DEF Stop, wire, history
<1>8. CASE WorkerCancelled
  BY <1>8, FailPendingType DEF WorkerCancelled, wire, history
<1>9. CASE StopCompletes
  BY <1>9, FailPendingType DEF StopCompletes, wire, history
<1>10. CASE AgentReads
  <2>1. Head(toAgent) \in Req /\ Tail(toAgent) \in Seq(Req)
    BY <1>10 DEF AgentReads
  <2> QED BY <1>10, <2>1 DEF AgentReads, dispatcher, history
<1>11. ASSUME NEW kind \in {"ok", "error", "badShape"}, AgentResponds(kind) PROVE TypeOK'
  <2>1. [req |-> serving, kind |-> kind] \in Response /\ serving \in Req
    BY <1>11 DEF AgentResponds, Response
  <2> QED BY <1>11, <2>1 DEF AgentResponds, dispatcher
<1>12. CASE AgentDies
  <2>1. serving # None => [req |-> serving, kind |-> "partial"] \in Response
    BY DEF Response
  <2>2. serving # None => Append(executed, serving) \in Seq(Req)
    OBVIOUS
  <2>3. executed' \in Seq(Req)
    BY <1>12, <2>2 DEF AgentDies
  <2>5. serving # None => Append(toClient, [req |-> serving, kind |-> "partial"]) \in Seq(Response)
    BY <2>1
  <2>6. toClient' \in Seq(Response)
    BY <1>12, <2>5 DEF AgentDies
  <2>4. toAgent' \in Seq(Req)
    BY <1>12 DEF AgentDies
  <2> QED BY <1>12, <2>3, <2>4, <2>6 DEF AgentDies, dispatcher
<1>13. CASE UNCHANGED vars
  BY <1>13 DEF vars, dispatcher, wire, history
<1> QED
  BY <1>1, <1>2, <1>3, <1>4, <1>5, <1>6, <1>7, <1>8, <1>9, <1>10, <1>11, <1>12, <1>13
  DEF Next, Worker, Agent

(* Every variable of the command path keeps its type. *)
THEOREM TypeCorrect == Spec => []TypeOK
BY TypeInit, TypeStep, PTL DEF Spec
-----------------------------------------------------------------------------
(* The inductive invariant. *)

LEMMA ChannelInvInit == Init => ChannelInv
<1> SUFFICES ASSUME Init PROVE ChannelInv
  OBVIOUS
<1>1. TypeOK
  BY TypeInit
<1>2. WorkerInv /\ PendingInv /\ NothingPendingOnceClosed /\ AnswersOwnRequest
  BY DEF Init, WorkerInv, PendingInv, NothingPendingOnceClosed, AnswersOwnRequest
<1>3. \A r \in Req : ~OnTheWire(r)
  BY NoneAssumption DEF Init, OnTheWire, Elements
<1>4. WireInv
  <2>1. Len(toAgent) + Len(toClient) <= 1
    BY DEF Init
  <2> QED BY <1>3, <2>1 DEF Init, WireInv
<1>5. QueueInv /\ RanInv
  BY ElementsEmpty DEF Init, QueueInv, RanInv
<1> QED BY <1>1, <1>2, <1>4, <1>5 DEF ChannelInv

(* With no request in flight and the connection usable, the wire is empty. *)
LEMMA IdleWireEmpty ==
  ASSUME TypeOK, WireInv, ~broken, inFlight = None
  PROVE  toAgent = <<>> /\ serving = None /\ toClient = <<>>
<1>1. \A r \in Req : ~OnTheWire(r)
  BY NoneAssumption DEF WireInv
<1>2. toAgent = <<>>
  <2> SUFFICES ASSUME toAgent # <<>> PROVE FALSE
    OBVIOUS
  <2>1. Head(toAgent) \in Req /\ Head(toAgent) \in Elements(toAgent)
    BY ElementsHeadTail DEF TypeOK
  <2> QED BY <1>1, <2>1 DEF OnTheWire
<1>3. serving = None
  BY <1>1 DEF TypeOK, OnTheWire
<1>4. toClient = <<>>
  <2> SUFFICES ASSUME toClient # <<>> PROVE FALSE
    OBVIOUS
  <2>1. 1 \in DOMAIN toClient /\ toClient[1] \in Response
    BY DEF TypeOK
  <2>2. toClient[1].req \in Req
    BY <2>1 DEF Response
  <2> QED BY <1>1, <2>1, <2>2 DEF OnTheWire
<1> QED BY <1>2, <1>3, <1>4

(* Failing what is pending settles every call and empties the queue. *)
LEMMA FailPendingSettles ==
  ASSUME TypeOK, PendingInv, QueueInv, AnswersOwnRequest,
         NEW reason \in {"broken", "stopped"}, FailPending(reason),
         UNCHANGED <<wire, history>>, RanInv, WireInv, worker' = "ended",
         stopping' \in {"no", "gathering", "stopped"}, broken' \in BOOLEAN
  PROVE  /\ PendingInv' /\ QueueInv' /\ RanInv' /\ NothingPendingOnceClosed'
         /\ AnswersOwnRequest' /\ WorkerInv'
<1>1. /\ queue' = <<>> /\ inFlight' = None /\ closedReason' # "open"
      /\ future' \in [Req -> FutureState]
  BY FailPendingType
<1>2. \A r \in Req : future'[r] # "pending"
  BY DEF FailPending, PendingInv, TypeOK
<1>3. \A r \in Req : future'[r] = future[r] \/ future'[r] = "failed"
  BY DEF FailPending, TypeOK
<1>4. \A r \in Req : Accepted(r) => Accepted(r)'
  BY <1>3 DEF Accepted
<1>5. RanInv'
  <2>1. /\ toAgent' = toAgent /\ serving' = serving /\ toClient' = toClient
        /\ executed' = executed
    BY DEF wire, history
  <2>2. Elements(toAgent)' = Elements(toAgent) /\ Elements(executed)' = Elements(executed)
    BY <2>1 DEF Elements
  <2>3. /\ \A r \in Elements(toAgent) \cup ({serving} \ {None}) : r \in Req
        /\ \A r \in Elements(executed) : r \in Req
    BY DEF Elements, TypeOK
  <2>4. \A r \in Elements(toAgent)' \cup ({serving'} \ {None}) :
           Accepted(r)' /\ r \notin Elements(executed)'
    BY <1>4, <2>1, <2>2, <2>3 DEF RanInv
  <2>5. \A i \in DOMAIN toClient' : toClient'[i].req \in Elements(executed)'
    BY <2>1, <2>2 DEF RanInv
  <2>6. \A r \in Elements(executed)' : Accepted(r)'
    BY <1>4, <2>2, <2>3 DEF RanInv
  <2> QED BY <1>1, <2>4, <2>5, <2>6 DEF RanInv
<1>6. QueueInv' /\ PendingInv'
  BY <1>1, <1>2, ElementsEmpty DEF QueueInv, PendingInv
<1>7. AnswersOwnRequest'
  BY <1>3 DEF AnswersOwnRequest, history
<1> QED BY <1>1, <1>2, <1>5, <1>6, <1>7 DEF NothingPendingOnceClosed, WorkerInv

(* The wire, and what ran, are as before. *)
LEMMA WireUnchanged ==
  ASSUME UNCHANGED <<wire, history>>
  PROVE  /\ \A r : OnTheWire(r)' <=> OnTheWire(r)
         /\ Elements(toAgent)' = Elements(toAgent)
         /\ Elements(executed)' = Elements(executed)
         /\ toAgent' = toAgent /\ toClient' = toClient /\ serving' = serving
         /\ executed' = executed /\ answeredBy' = answeredBy
BY DEF wire, history, OnTheWire, Elements

(* Steps of the callers and of stop() keep the invariant. *)
LEMMA SendStep ==
  ASSUME ChannelInv, NEW r \in Req, Send(r), TypeOK'
  PROVE  ChannelInv'
<1> USE DEF ChannelInv
<1>0. /\ UNCHANGED <<inFlight, worker, closedReason, stopping, broken>>
      /\ toAgent' = toAgent /\ toClient' = toClient /\ serving' = serving
      /\ executed' = executed /\ answeredBy' = answeredBy
  BY DEF Send, wire
<1>1. /\ \A q : OnTheWire(q)' <=> OnTheWire(q)
      /\ Elements(toAgent)' = Elements(toAgent)
      /\ Elements(executed)' = Elements(executed)
  BY <1>0 DEF OnTheWire, Elements
<1>2. future[r] = "new" /\ \A q \in Req \ {r} : future'[q] = future[q]
  BY DEF Send, TypeOK
<1>3. ~Accepted(r) /\ ~Unsettled(r)
  BY <1>2 DEF Accepted, Unsettled
<1>4. r # inFlight /\ ~OnTheWire(r) /\ r \notin Elements(executed)
  <2>1. r # None
    BY NoneAssumption
  <2>2. r # inFlight /\ r # serving /\ r \notin Elements(toAgent) /\ r \notin Elements(executed)
    BY <1>3, <2>1 DEF RanInv
  <2>3. \A i \in DOMAIN toClient : toClient[i].req # r
    BY <2>2 DEF RanInv
  <2> QED BY <2>2, <2>3 DEF OnTheWire
<1>5. r \notin Elements(queue)
  BY <1>3 DEF QueueInv
<1>6. \A q \in Req \ {r} : (Accepted(q)' <=> Accepted(q)) /\ (Unsettled(q)' <=> Unsettled(q))
  BY <1>2 DEF Accepted, Unsettled
<1>7. WorkerInv' /\ WireInv'
  BY <1>0, <1>1 DEF WorkerInv, WireInv
<1>8. RanInv'
  <2>1. \A q \in Elements(toAgent) \cup ({serving} \ {None}) : q \in Req \ {r}
    BY <1>4 DEF TypeOK, OnTheWire, Elements
  <2>2. \A q \in Elements(executed) : q \in Req \ {r}
    BY <1>4 DEF TypeOK, Elements
  <2>3. inFlight # None => inFlight \in Req \ {r}
    BY <1>4 DEF TypeOK
  <2> QED BY <1>0, <1>1, <1>6, <2>1, <2>2, <2>3 DEF RanInv, Unsettled, Accepted
<1>9. AnswersOwnRequest'
  BY <1>0, <1>2 DEF AnswersOwnRequest, Send, TypeOK
<1>10. CASE closedReason # "open"
  <2>1. future'[r] = "refused" /\ queue' = queue
    BY <1>10 DEF Send, TypeOK
  <2>2. \A q \in Elements(queue) : q \in Req \ {r}
    BY <1>5 DEF Elements, TypeOK
  <2>3. Elements(queue)' = Elements(queue)
    BY <2>1 DEF Elements
  <2>4. QueueInv'
    BY <1>0, <1>1, <1>6, <2>1, <2>2, <2>3 DEF QueueInv
  <2>5. PendingInv' /\ NothingPendingOnceClosed'
    BY <1>0, <1>2, <2>1, <2>3 DEF PendingInv, NothingPendingOnceClosed
  <2> QED BY <1>7, <1>8, <1>9, <2>4, <2>5
<1>11. CASE closedReason = "open"
  <2>1. future'[r] = "pending" /\ queue' = Append(queue, r)
    BY <1>11 DEF Send, TypeOK
  <2>2. Elements(queue') = Elements(queue) \cup {r}
    BY <2>1, ElementsAppend DEF TypeOK
  <2>3. \A q \in Elements(queue) : q \in Req \ {r}
    BY <1>5 DEF Elements, TypeOK
  <2>4. \A i, j \in DOMAIN queue' : queue'[i] = queue'[j] => i = j
    <3>1. \A i \in DOMAIN queue : queue[i] # r
      BY <1>5 DEF Elements
    <3> QED BY <2>1, <3>1 DEF QueueInv, TypeOK
  <2>5. \A q \in Elements(queue)' :
           Unsettled(q)' /\ q # inFlight' /\ ~OnTheWire(q)' /\ q \notin Elements(executed)'
    BY <1>0, <1>1, <1>4, <1>6, <2>1, <2>2, <2>3 DEF QueueInv, Unsettled
  <2>6. PendingInv' /\ NothingPendingOnceClosed'
    BY <1>0, <1>2, <1>11, <2>1, <2>2 DEF PendingInv, NothingPendingOnceClosed
  <2> QED BY <1>7, <1>8, <1>9, <2>4, <2>5, <2>6 DEF QueueInv
<1> QED BY <1>10, <1>11

LEMMA CancelSendStep ==
  ASSUME ChannelInv, NEW r \in Req, CancelSend(r), TypeOK'
  PROVE  ChannelInv'
<1> USE DEF ChannelInv
<1>0. UNCHANGED <<queue, inFlight, worker, closedReason, stopping, broken>>
  BY DEF CancelSend
<1>1. /\ \A q : OnTheWire(q)' <=> OnTheWire(q)
      /\ Elements(toAgent)' = Elements(toAgent)
      /\ Elements(executed)' = Elements(executed)
      /\ toAgent' = toAgent /\ toClient' = toClient /\ serving' = serving
      /\ executed' = executed /\ answeredBy' = answeredBy
  BY WireUnchanged DEF CancelSend
<1>2. \A q \in Req : future'[q] = IF q = r THEN "cancelled" ELSE future[q]
  BY DEF CancelSend, TypeOK
<1>3. future[r] = "pending"
  BY DEF CancelSend
<1>4. \A q \in Req : (Accepted(q)' <=> Accepted(q)) /\ (Unsettled(q)' <=> Unsettled(q))
  BY <1>2, <1>3 DEF Accepted, Unsettled
<1>5. WorkerInv' /\ WireInv'
  BY <1>0, <1>1 DEF WorkerInv, WireInv
<1>6. RanInv'
  <2>1. \A q \in Elements(toAgent) \cup ({serving} \ {None}) \cup Elements(executed) : q \in Req
    BY DEF TypeOK, Elements
  <2> QED BY <1>0, <1>1, <1>4, <2>1 DEF RanInv, TypeOK
<1>7. QueueInv'
  <2>1. Elements(queue)' = Elements(queue) /\ \A q \in Elements(queue) : q \in Req
    BY <1>0 DEF Elements, TypeOK
  <2> QED BY <1>0, <1>1, <1>4, <2>1 DEF QueueInv
<1>8. PendingInv' /\ NothingPendingOnceClosed' /\ AnswersOwnRequest'
  BY <1>0, <1>1, <1>2, <1>3 DEF PendingInv, NothingPendingOnceClosed, AnswersOwnRequest, Elements
<1> QED BY <1>5, <1>6, <1>7, <1>8

(* Steps of the worker task keep the invariant. *)
LEMMA WorkerTakeStep ==
  ASSUME ChannelInv, WorkerTake, TypeOK'
  PROVE  ChannelInv'
<1> USE DEF ChannelInv
<1> DEFINE h == Head(queue)
<1>0. /\ UNCHANGED <<future, closedReason, stopping, broken, serving, toClient>>
      /\ executed' = executed /\ answeredBy' = answeredBy /\ queue' = Tail(queue)
      /\ queue # <<>> /\ worker \in {"created", "idle"} /\ ~broken /\ inFlight = None
  BY DEF WorkerTake, history, WorkerInv
<1>1. /\ h \in Req /\ h \in Elements(queue)
      /\ Elements(queue) = Elements(queue') \cup {h}
  BY <1>0, ElementsHeadTail DEF TypeOK
<1>2. /\ h \notin Elements(queue')
      /\ \A i, j \in DOMAIN queue' : queue'[i] = queue'[j] => i = j
  <2>1. Tail(queue) \in Seq(Req) /\ \A i \in DOMAIN Tail(queue) :
          i + 1 \in DOMAIN queue /\ Tail(queue)[i] = queue[i + 1] /\ i \in Nat /\ i >= 1
    BY <1>0 DEF TypeOK
  <2>2. 1 \in DOMAIN queue /\ queue[1] = h
    BY <1>0 DEF TypeOK
  <2>3. \A i \in DOMAIN Tail(queue) : Tail(queue)[i] # h
    BY <2>1, <2>2 DEF QueueInv
  <2>4. h \notin Elements(queue')
    BY <1>0, <2>3 DEF Elements
  <2>5. ASSUME NEW i \in DOMAIN queue', NEW j \in DOMAIN queue', queue'[i] = queue'[j]
        PROVE  i = j
    <3>1. i + 1 = j + 1
      BY <1>0, <2>1, <2>5 DEF QueueInv
    <3> QED BY <1>0, <2>1, <3>1
  <2> QED BY <2>4, <2>5
<1>3. toAgent = <<>> /\ serving = None /\ toClient = <<>>
  BY <1>0, IdleWireEmpty
<1>4. Unsettled(h) /\ h \notin Elements(executed) /\ h # None
  BY <1>1, NoneAssumption DEF QueueInv
<1>5. Elements(executed)' = Elements(executed)
  BY <1>0 DEF Elements
<1>6. closedReason = "open" /\ stopping' # "stopped"
  BY <1>0 DEF WorkerInv, WorkerTake
<1>7. AnswersOwnRequest' /\ NothingPendingOnceClosed'
  BY <1>0, <1>6 DEF AnswersOwnRequest, NothingPendingOnceClosed
<1>8. /\ \A q : Accepted(q)' <=> Accepted(q)
      /\ \A q : Unsettled(q)' <=> Unsettled(q)
  BY <1>0 DEF Accepted, Unsettled
<1>9. \A q \in Elements(executed) : Accepted(q)
  BY DEF RanInv
<1>10. CASE future[h] = "cancelled"
  <2>1. worker' = "idle" /\ inFlight' = None /\ toAgent' = toAgent
    BY <1>0, <1>10 DEF WorkerTake
  <2>2. \A q : OnTheWire(q)' <=> OnTheWire(q)
    BY <1>0, <2>1 DEF OnTheWire, Elements
  <2>3. WorkerInv' /\ WireInv'
    BY <1>0, <1>6, <2>1, <2>2 DEF WorkerInv, WireInv
  <2>4. QueueInv'
    <3>1. \A q \in Elements(queue') : q # None
      BY <1>1, NoneAssumption DEF Elements, TypeOK
    <3> QED BY <1>0, <1>1, <1>2, <1>5, <1>8, <2>1, <2>2, <3>1 DEF QueueInv
  <2>5. PendingInv'
    BY <1>0, <1>1, <1>10, <2>1 DEF PendingInv
  <2>6. RanInv'
    BY <1>0, <1>3, <1>5, <1>8, <1>9, <2>1, ElementsEmpty DEF RanInv
  <2> QED BY <1>7, <2>3, <2>4, <2>5, <2>6
<1>11. CASE future[h] # "cancelled"
  <2>1. worker' = "requesting" /\ inFlight' = h
    BY <1>0, <1>11 DEF WorkerTake
  <2>2. toAgent' = <<h>> \/ toAgent' = <<>>
    BY <1>3, <1>11 DEF WorkerTake
  <2>3. Elements(toAgent') \subseteq {h}
    BY <2>2 DEF Elements
  <2>4. \A q \in Req : OnTheWire(q)' => q = h
    <3>1. toClient' = <<>> /\ serving' = None
      BY <1>0, <1>3
    <3>2. DOMAIN toClient' = {}
      BY <3>1
    <3> QED BY <2>3, <3>1, <3>2, NoneAssumption DEF OnTheWire
  <2>5. WireInv'
    <3>1. Len(toAgent') + Len(toClient') <= 1 /\ serving' = None
      BY <1>0, <1>3, <2>2
    <3> QED BY <2>1, <2>4, <3>1 DEF WireInv
  <2>6. WorkerInv'
    BY <1>0, <1>4, <1>6, <2>1 DEF WorkerInv
  <2>7. QueueInv'
    <3>1. \A q \in Elements(queue') : q \in Req /\ q # h
      BY <1>1, <1>2 DEF Elements, TypeOK
    <3> QED BY <1>1, <1>2, <1>5, <1>8, <2>1, <2>4, <3>1 DEF QueueInv
  <2>8. PendingInv'
    <3> SUFFICES ASSUME NEW q \in Req, future[q] = "pending"
                 PROVE  q \in Elements(queue') \/ q = h
      BY <1>0, <2>1 DEF PendingInv
    <3>1. q \in Elements(queue)
      BY <1>0, NoneAssumption DEF PendingInv
    <3> QED BY <1>1, <3>1
  <2>9. RanInv'
    <3>1. Accepted(h)
      BY <1>4 DEF Accepted, Unsettled
    <3>2. toClient' = <<>> /\ serving' = None
      BY <1>0, <1>3
    <3>3. DOMAIN toClient' = {}
      BY <3>2
    <3>4. \A q \in Elements(toAgent)' \cup ({serving'} \ {None}) :
             Accepted(q)' /\ q \notin Elements(executed)'
      BY <1>4, <1>5, <1>8, <2>3, <3>1, <3>2
    <3>5. \A q \in Elements(executed)' : Accepted(q)'
      BY <1>5, <1>8, <1>9
    <3>6. inFlight' # None => Unsettled(inFlight)'
      BY <1>0, <1>4, <2>1 DEF Unsettled
    <3> QED BY <3>3, <3>4, <3>5, <3>6 DEF RanInv
  <2> QED BY <1>7, <2>5, <2>6, <2>7, <2>8, <2>9
<1> QED BY <1>10, <1>11

LEMMA WorkerReceivesStep ==
  ASSUME ChannelInv, WorkerReceives, TypeOK'
  PROVE  ChannelInv'
<1> USE DEF ChannelInv
<1> DEFINE m == Head(toClient)
<1>0. /\ UNCHANGED <<queue, closedReason, stopping, broken, toAgent, serving, executed>>
      /\ toClient # <<>> /\ toClient' = Tail(toClient) /\ inFlight' = None
      /\ worker' = "idle" /\ worker = "requesting" /\ inFlight # None
      /\ ~broken /\ closedReason = "open" /\ inFlight \in Req
  BY DEF WorkerReceives, WorkerInv, TypeOK
<1>1. toAgent = <<>> /\ serving = None /\ toClient' = <<>>
  <2>1. toClient \in Seq(Response) /\ toAgent \in Seq(Req)
    BY DEF TypeOK
  <2>2. Len(toAgent) + Len(toClient) <= 1 /\ serving = None
    BY <1>0 DEF WireInv
  <2> QED BY <1>0, <2>1, <2>2, OnlyLine
<1>2. m.req = inFlight
  <2>1. 1 \in DOMAIN toClient /\ m = toClient[1] /\ m \in Response
    BY <1>0 DEF TypeOK
  <2>2. m.req \in Req
    BY <2>1 DEF Response
  <2>3. OnTheWire(m.req)
    BY <2>1 DEF OnTheWire
  <2> QED BY <1>0, <2>2, <2>3 DEF WireInv
<1>3. /\ \A q \in Req \ {inFlight} : future'[q] = future[q] /\ answeredBy'[q] = answeredBy[q]
      /\ \/ future' = future /\ answeredBy' = answeredBy /\ future[inFlight] = "cancelled"
         \/ future'[inFlight] \in {"result", "error", "failed"} /\ answeredBy'[inFlight] = inFlight
  BY <1>0, <1>2 DEF WorkerReceives, Resolve, TypeOK
<1>4. \A q \in Req : Accepted(q) => Accepted(q)'
  BY <1>3 DEF Accepted
<1>5. DOMAIN toClient' = {} /\ DOMAIN toAgent' = {} /\ serving' = None
  BY <1>0, <1>1
<1>6. Elements(executed)' = Elements(executed) /\ \A q \in Elements(executed) : q \in Req
  BY <1>0 DEF Elements, TypeOK
<1>7. \A q \in Req : ~OnTheWire(q)'
  BY <1>5, NoneAssumption DEF OnTheWire, Elements
<1>8. WireInv'
  <2>1. Len(toAgent') + Len(toClient') <= 1 /\ serving' = None
    BY <1>0, <1>1
  <2> QED BY <1>7, <2>1 DEF WireInv
<1>9. WorkerInv' /\ NothingPendingOnceClosed'
  BY <1>0 DEF WorkerInv, NothingPendingOnceClosed
<1>10. PendingInv'
  BY <1>0, <1>3 DEF PendingInv
<1>11. AnswersOwnRequest'
  BY <1>3 DEF AnswersOwnRequest
<1>12. RanInv'
  <2>1. Elements(toAgent)' = {}
    BY <1>5 DEF Elements
  <2> QED BY <1>0, <1>4, <1>5, <1>6, <2>1 DEF RanInv
<1>13. QueueInv'
  <2>1. Elements(queue)' = Elements(queue)
    BY <1>0 DEF Elements
  <2>4. \A q \in Elements(queue) : q \in Req
    BY DEF Elements, TypeOK
  <2>2. \A q \in Elements(queue) : q \in Req \ {inFlight} /\ q # None
    BY <2>4, NoneAssumption DEF QueueInv
  <2>3. \A q \in Elements(queue) : Unsettled(q)'
    BY <1>3, <2>2 DEF QueueInv, Unsettled
  <2> QED BY <1>0, <1>6, <1>7, <2>1, <2>2, <2>3 DEF QueueInv
<1> QED BY <1>8, <1>9, <1>10, <1>11, <1>12, <1>13

(* A step that only moves the worker, or stop(), on. *)
LEMMA QuietStep ==
  ASSUME ChannelInv, TypeOK', WorkerInv', WireInv',
         UNCHANGED <<future, queue, inFlight, closedReason, wire, history>>
  PROVE  ChannelInv'
<1> USE DEF ChannelInv
<1>1. /\ \A q : OnTheWire(q)' <=> OnTheWire(q)
      /\ Elements(toAgent)' = Elements(toAgent)
      /\ Elements(executed)' = Elements(executed)
      /\ toAgent' = toAgent /\ toClient' = toClient /\ serving' = serving
      /\ executed' = executed /\ answeredBy' = answeredBy
  BY WireUnchanged
<1>2. /\ Elements(queue)' = Elements(queue)
      /\ \A q : (Accepted(q)' <=> Accepted(q)) /\ (Unsettled(q)' <=> Unsettled(q))
  BY DEF Elements, Accepted, Unsettled
<1>3. RanInv' /\ QueueInv'
  BY <1>1, <1>2 DEF RanInv, QueueInv
<1>4. PendingInv' /\ NothingPendingOnceClosed' /\ AnswersOwnRequest'
  BY <1>1, <1>2 DEF PendingInv, NothingPendingOnceClosed, AnswersOwnRequest
<1> QED BY <1>3, <1>4

LEMMA WireInvKept ==
  ASSUME WireInv, UNCHANGED <<wire, history>>, broken => broken',
         ~broken' => inFlight' = inFlight
  PROVE  WireInv'
BY WireUnchanged DEF WireInv

LEMMA WorkerEndsStep ==
  ASSUME ChannelInv, TypeOK',
         WorkerWaits \/ RequestTimesOut \/ RequestFails \/ Stop
           \/ WorkerCancelled \/ StopCompletes
  PROVE  ChannelInv'
<1> USE DEF ChannelInv
<1>1. CASE WorkerWaits \/ Stop
  <2>1. WorkerInv'
    BY <1>1 DEF WorkerWaits, Stop, WorkerInv
  <2>2. WireInv'
    BY <1>1, WireInvKept DEF WorkerWaits, Stop
  <2> QED BY <1>1, <2>1, <2>2, QuietStep DEF WorkerWaits, Stop
<1>2. CASE RequestTimesOut \/ RequestFails
  <2>1. /\ FailPending("broken") /\ broken' = TRUE /\ worker' = "ended"
        /\ UNCHANGED <<stopping, wire, history>>
    BY <1>2 DEF RequestTimesOut, RequestFails, RequestBreaks
  <2>2. WireInv'
    BY <2>1, WireInvKept
  <2>3. /\ PendingInv' /\ QueueInv' /\ RanInv' /\ NothingPendingOnceClosed'
        /\ AnswersOwnRequest' /\ WorkerInv'
    BY <2>1, FailPendingSettles DEF TypeOK
  <2> QED BY <2>2, <2>3
<1>3. CASE WorkerCancelled /\ worker = "created"
  <2>1. WorkerInv'
    BY <1>3 DEF WorkerCancelled, WorkerInv
  <2>2. WireInv'
    BY <1>3, WireInvKept DEF WorkerCancelled
  <2> QED BY <1>3, <2>1, <2>2, QuietStep DEF WorkerCancelled
<1>4. CASE (WorkerCancelled /\ worker # "created") \/ StopCompletes
  <2>1. /\ FailPending("stopped") /\ worker' = "ended"
        /\ broken => broken'
        /\ inFlight # None => broken'
        /\ UNCHANGED <<wire, history>>
    <3>1. CASE WorkerCancelled /\ worker # "created"
      BY <3>1 DEF WorkerCancelled, WorkerInv, TypeOK
    <3>2. CASE StopCompletes
      BY <3>2 DEF StopCompletes, WorkerInv
    <3> QED BY <1>4, <3>1, <3>2
  <2>2. WireInv'
    BY <2>1, WireInvKept DEF WorkerInv, FailPending
  <2>3. /\ PendingInv' /\ QueueInv' /\ RanInv' /\ NothingPendingOnceClosed'
        /\ AnswersOwnRequest' /\ WorkerInv'
    BY <2>1, FailPendingSettles DEF TypeOK
  <2> QED BY <2>2, <2>3
<1> QED BY <1>1, <1>2, <1>3, <1>4

(* Steps of the agent keep the invariant. *)
LEMMA AgentReadsStep ==
  ASSUME ChannelInv, AgentReads, TypeOK'
  PROVE  ChannelInv'
<1> USE DEF ChannelInv
<1> DEFINE h == Head(toAgent)
<1>0. /\ UNCHANGED <<future, queue, inFlight, worker, closedReason, stopping, broken, toClient>>
      /\ executed' = executed /\ answeredBy' = answeredBy
      /\ toAgent # <<>> /\ toAgent' = Tail(toAgent) /\ serving' = h /\ serving = None
  BY DEF AgentReads, dispatcher, history
<1>1. toClient = <<>> /\ Tail(toAgent) = <<>>
  <2>1. toClient \in Seq(Response) /\ toAgent \in Seq(Req) /\ Len(toClient) \in Nat /\ Len(toAgent) \in Nat
    BY DEF TypeOK
  <2>2. Len(toClient) + Len(toAgent) <= 1
    BY <2>1 DEF WireInv
  <2> QED BY <1>0, <2>1, <2>2, OnlyLine
<1>2. h \in Req /\ h \in Elements(toAgent)
  BY <1>0, ElementsHeadTail DEF TypeOK
<1>3. OnTheWire(h)
  BY <1>2 DEF OnTheWire
<1>4. DOMAIN toClient' = {} /\ DOMAIN toAgent' = {} /\ Elements(toAgent)' = {}
  BY <1>0, <1>1 DEF Elements
<1>5. \A q : OnTheWire(q)' <=> q = h
  BY <1>0, <1>4 DEF OnTheWire
<1>6. Elements(queue)' = Elements(queue) /\ Elements(executed)' = Elements(executed)
  BY <1>0 DEF Elements
<1>7. \A q : (Accepted(q)' <=> Accepted(q)) /\ (Unsettled(q)' <=> Unsettled(q))
  BY <1>0 DEF Accepted, Unsettled
<1>8. WireInv'
  <2>1. Len(toAgent') = 0 /\ Len(toClient') = 0
    BY <1>0, <1>1
  <2>2. Len(toAgent') + Len(toClient') <= 1
    BY <2>1
  <2> QED BY <1>0, <1>1, <1>3, <1>5, <1>2, <2>2 DEF WireInv
<1>9. WorkerInv' /\ PendingInv' /\ NothingPendingOnceClosed' /\ AnswersOwnRequest'
  BY <1>0, <1>6 DEF WorkerInv, PendingInv, NothingPendingOnceClosed, AnswersOwnRequest
<1>10. QueueInv'
  BY <1>0, <1>3, <1>5, <1>6, <1>7 DEF QueueInv
<1>11. RanInv'
  <2>1. h # None /\ Accepted(h) /\ h \notin Elements(executed)
    BY <1>2, NoneAssumption DEF RanInv
  <2>2. \A q \in Elements(toAgent)' \cup ({serving'} \ {None}) : q = h
    BY <1>0, <1>4
  <2> QED BY <1>0, <1>4, <1>6, <1>7, <2>1, <2>2 DEF RanInv
<1> QED BY <1>8, <1>9, <1>10, <1>11

(* The request the agent was serving has now been carried out, and at most *)
(* one line about it is on its way back.                                   *)
LEMMA ServedStep ==
  ASSUME ChannelInv, TypeOK', serving # None,
         UNCHANGED <<dispatcher, broken, answeredBy>>,
         executed' = Append(executed, serving), serving' = None,
         toAgent' = <<>>,
         \/ toClient' = <<>>
         \/ \E kind \in {"ok", "error", "badShape", "partial"} :
              toClient' = <<[req |-> serving, kind |-> kind]>>
  PROVE  ChannelInv'
<1> USE DEF ChannelInv
<1>0. UNCHANGED <<future, queue, inFlight, worker, closedReason, stopping>> /\ serving \in Req
  BY DEF dispatcher, TypeOK
<1>1. OnTheWire(serving)
  BY DEF OnTheWire
<1>2. Elements(toAgent)' = {}
  BY DEF Elements
<1>3. /\ \A i \in DOMAIN toClient' : toClient'[i].req = serving
      /\ Len(toClient') \in {0, 1}
  <2>1. CASE toClient' = <<>>
    BY <2>1
  <2>2. ASSUME NEW kind \in {"ok", "error", "badShape", "partial"},
               toClient' = <<[req |-> serving, kind |-> kind]>>
        PROVE  \A i \in DOMAIN toClient' : toClient'[i].req = serving
    BY <2>2
  <2>3. ASSUME NEW kind \in {"ok", "error", "badShape", "partial"},
               toClient' = <<[req |-> serving, kind |-> kind]>>
        PROVE  Len(toClient') = 1
    BY <2>3
  <2> QED BY <2>1, <2>2, <2>3
<1>4. \A q \in Req : OnTheWire(q)' => q = serving
  BY <1>2, <1>3, NoneAssumption DEF OnTheWire
<1>5. Elements(executed)' = Elements(executed) \cup {serving}
  <2>1. executed \in Seq(Req)
    BY DEF TypeOK
  <2>2. Elements(Append(executed, serving)) = Elements(executed) \cup {serving}
    BY <1>0, <2>1, ElementsAppend
  <2> QED BY <2>2 DEF Elements
<1>6. Elements(queue)' = Elements(queue) /\ \A q \in Elements(queue) : q \in Req
  BY <1>0 DEF Elements, TypeOK
<1>7. \A q : (Accepted(q)' <=> Accepted(q)) /\ (Unsettled(q)' <=> Unsettled(q))
  BY <1>0 DEF Accepted, Unsettled
<1>8. WireInv'
  <2>1. Len(toAgent') = 0
    OBVIOUS
  <2>2. Len(toAgent') + Len(toClient') <= 1
    BY <1>3, <2>1, OneOrNone
  <2> QED BY <1>0, <1>1, <1>4, <2>2 DEF WireInv
<1>9. WorkerInv' /\ PendingInv' /\ NothingPendingOnceClosed' /\ AnswersOwnRequest'
  BY <1>0, <1>6 DEF WorkerInv, PendingInv, NothingPendingOnceClosed, AnswersOwnRequest
<1>10. QueueInv'
  BY <1>0, <1>1, <1>4, <1>5, <1>6, <1>7 DEF QueueInv
<1>11. Accepted(serving)
  BY <1>0, NoneAssumption DEF RanInv
<1>12. RanInv'
  BY <1>0, <1>2, <1>3, <1>5, <1>7, <1>11 DEF RanInv
<1> QED BY <1>8, <1>9, <1>10, <1>12

LEMMA AgentRespondsStep ==
  ASSUME ChannelInv, NEW kind \in {"ok", "error", "badShape"}, AgentResponds(kind), TypeOK'
  PROVE  ChannelInv'
<1>1. serving # None /\ toAgent = <<>> /\ toClient = <<>>
  BY DEF AgentResponds, ChannelInv, WireInv
<1>2. /\ executed' = Append(executed, serving) /\ serving' = None /\ toAgent' = <<>>
      /\ toClient' = Append(toClient, [req |-> serving, kind |-> kind])
      /\ UNCHANGED <<dispatcher, broken, answeredBy>>
  BY <1>1 DEF AgentResponds
<1>3. toClient' = <<[req |-> serving, kind |-> kind]>>
  BY <1>1, <1>2
<1> QED BY <1>1, <1>2, <1>3, ServedStep

LEMMA AgentDiesStep ==
  ASSUME ChannelInv, AgentDies, TypeOK'
  PROVE  ChannelInv'
<1> USE DEF ChannelInv
<1>0. /\ UNCHANGED <<dispatcher, broken, answeredBy>>
      /\ toAgent' = <<>> /\ serving' = None
  BY DEF AgentDies
<1>1. CASE executed' = Append(executed, serving) /\ serving # None
           /\ (toClient' = toClient \/ toClient' = Append(toClient, [req |-> serving, kind |-> "partial"]))
  <2>1. toClient = <<>>
    BY <1>1 DEF WireInv
  <2>2. toClient' = <<>> \/ toClient' = <<[req |-> serving, kind |-> "partial"]>>
    BY <1>1, <2>1
  <2> QED BY <1>0, <1>1, <2>2, ServedStep
<1>2. CASE executed' = executed /\ toClient' = toClient
  <2>0. UNCHANGED <<future, queue, inFlight, worker, closedReason, stopping>>
    BY <1>0 DEF dispatcher
  <2>1. Elements(toAgent)' = {}
    BY <1>0 DEF Elements
  <2>2. \A q \in Req : OnTheWire(q)' => OnTheWire(q)
    BY <1>0, <1>2, <2>1, NoneAssumption DEF OnTheWire
  <2>3. /\ Elements(queue)' = Elements(queue) /\ Elements(executed)' = Elements(executed)
        /\ \A q \in Elements(queue) : q \in Req
    BY <1>2, <2>0 DEF Elements, TypeOK
  <2>4. \A q : (Accepted(q)' <=> Accepted(q)) /\ (Unsettled(q)' <=> Unsettled(q))
    BY <2>0 DEF Accepted, Unsettled
  <2>5. WireInv'
    <3>1. Len(toAgent) \in Nat /\ Len(toClient) \in Nat /\ Len(toAgent') = 0
      BY <1>0 DEF TypeOK
    <3>2. Len(toAgent) + Len(toClient) <= 1
      BY DEF WireInv
    <3>3. Len(toAgent') + Len(toClient') <= 1
      BY <1>2, <3>1, <3>2
    <3> QED BY <1>0, <2>0, <2>2, <3>3 DEF WireInv
  <2>6. WorkerInv' /\ PendingInv' /\ NothingPendingOnceClosed' /\ AnswersOwnRequest'
    BY <1>0, <2>0, <2>3 DEF WorkerInv, PendingInv, NothingPendingOnceClosed, AnswersOwnRequest
  <2>7. QueueInv'
    BY <2>0, <2>2, <2>3, <2>4 DEF QueueInv
  <2>8. RanInv'
    BY <1>0, <1>2, <2>0, <2>1, <2>3, <2>4 DEF RanInv
  <2> QED BY <2>5, <2>6, <2>7, <2>8
<1> QED BY <1>1, <1>2 DEF AgentDies

LEMMA ChannelInvStep == ChannelInv /\ [Next]_vars => ChannelInv'
<1> SUFFICES ASSUME ChannelInv, [Next]_vars PROVE ChannelInv'
  OBVIOUS
<1>1. TypeOK'
  BY TypeStep DEF ChannelInv
<1>2. ASSUME NEW r \in Req, Send(r) \/ CancelSend(r) PROVE ChannelInv'
  BY <1>1, <1>2, SendStep, CancelSendStep
<1>3. CASE Worker \/ Stop \/ StopCompletes
  BY <1>1, <1>3, WorkerTakeStep, WorkerReceivesStep, WorkerEndsStep DEF Worker
<1>4. CASE Agent
  BY <1>1, <1>4, AgentReadsStep, AgentRespondsStep, AgentDiesStep DEF Agent
<1>5. CASE UNCHANGED vars
  <2>1. UNCHANGED <<future, queue, inFlight, worker, closedReason, stopping, broken, wire, history>>
    BY <1>5 DEF vars, dispatcher
  <2>2. WorkerInv' /\ WireInv'
    BY <2>1, WireInvKept DEF WorkerInv, ChannelInv
  <2> QED BY <1>1, <2>1, <2>2, QuietStep
<1> QED BY <1>2, <1>3, <1>4, <1>5 DEF Next

-----------------------------------------------------------------------------
(* Results *)

(* The strengthened invariant holds throughout: where a call is (queue,    *)
(* wire, agent, answered) always agrees with what its future says.         *)
THEOREM ChannelCorrect == Spec => []ChannelInv
BY ChannelInvInit, ChannelInvStep, PTL DEF Spec

(* An answer reaches the caller of the request it answers. *)
THEOREM AnswersCorrect == Spec => []AnswersOwnRequest
<1>1. ChannelInv => AnswersOwnRequest
  BY DEF ChannelInv
<1> QED BY <1>1, ChannelCorrect, PTL

(* Closing the dispatcher, by failure or by stop(), strands no caller. *)
THEOREM ClosedSettles == Spec => []NothingPendingOnceClosed
<1>1. ChannelInv => NothingPendingOnceClosed
  BY DEF ChannelInv
<1> QED BY <1>1, ChannelCorrect, PTL

(* A usable connection carries the request in flight and nothing else. *)
THEOREM NeverOverlapping == Spec => []OneOnTheWire
<1>1. ChannelInv => OneOnTheWire
  BY DEF ChannelInv, WireInv, OneOnTheWire
<1> QED BY <1>1, ChannelCorrect, PTL

-----------------------------------------------------------------------------
(* CommandChannel implements RpcChannel.  Each lemma maps one kind of step *)
(* to a step of the abstract channel, or to a stutter.                     *)
(* A step after which every call stands where it stood is a stutter. *)
LEMMA RpcStutters ==
  ASSUME UNCHANGED <<future, executed, closedReason>>
  PROVE  UNCHANGED Rpc!vars
<1>1. [r \in Req |-> CallOf(r)]' = [r \in Req |-> CallOf(r)]
  BY DEF CallOf
<1>2. Elements(executed)' = Elements(executed)
  BY DEF Elements
<1> QED BY <1>1, <1>2 DEF Rpc!vars

LEMMA RpcSend ==
  ASSUME TypeOK, NEW r \in Req, Send(r)
  PROVE  Rpc!Call(r)
<1>1. CallOf(r) = "new"
  BY DEF CallOf, Send
<1>2. CallOf(r)' = IF closedReason # "open" THEN "refused" ELSE "open"
  BY DEF CallOf, Send, TypeOK
<1>3. \A q \in Req \ {r} : CallOf(q)' = CallOf(q)
  BY DEF CallOf, Send, TypeOK
<1>4. [q \in Req |-> CallOf(q)]' =
        [[q \in Req |-> CallOf(q)] EXCEPT ![r] = IF closedReason # "open" THEN "refused" ELSE "open"]
  BY <1>2, <1>3
<1>5. Elements(executed)' = Elements(executed) /\ closedReason' = closedReason
  BY DEF Send, Elements
<1> QED BY <1>1, <1>4, <1>5 DEF Rpc!Call

LEMMA RpcCancel ==
  ASSUME TypeOK, NEW r \in Req, CancelSend(r)
  PROVE  Rpc!Cancel(r)
<1>1. CallOf(r) = "open" /\ CallOf(r)' = "cancelled"
  BY DEF CallOf, CancelSend, TypeOK
<1>2. \A q \in Req \ {r} : CallOf(q)' = CallOf(q)
  BY DEF CallOf, CancelSend, TypeOK
<1>3. [q \in Req |-> CallOf(q)]' = [[q \in Req |-> CallOf(q)] EXCEPT ![r] = "cancelled"]
  BY <1>1, <1>2
<1>4. Elements(executed)' = Elements(executed) /\ closedReason' = closedReason
  BY DEF CancelSend, history, Elements
<1> QED BY <1>1, <1>3, <1>4 DEF Rpc!Cancel

LEMMA RpcReceives ==
  ASSUME ChannelInv, WorkerReceives
  PROVE  Rpc!Next \/ UNCHANGED Rpc!vars
<1> DEFINE m == Head(toClient)
<1>0. /\ UNCHANGED <<closedReason, executed>> /\ inFlight \in Req
      /\ toClient # <<>> /\ ~broken /\ closedReason = "open"
  BY DEF WorkerReceives, ChannelInv, WorkerInv, TypeOK
<1>1. m.req = inFlight /\ inFlight \in Elements(executed)
  <2>1. 1 \in DOMAIN toClient /\ m = toClient[1] /\ m \in Response
    BY <1>0 DEF TypeOK, ChannelInv
  <2>2. m.req \in Req
    BY <2>1 DEF Response
  <2>3. OnTheWire(m.req)
    BY <2>1 DEF OnTheWire
  <2> QED BY <1>0, <2>1, <2>2, <2>3 DEF WireInv, RanInv, ChannelInv
<1>2. Elements(executed)' = Elements(executed)
  BY <1>0 DEF Elements
<1>3. CASE future[inFlight] = "cancelled"
  <2>1. UNCHANGED <<future, executed, closedReason>>
    BY <1>0, <1>3 DEF WorkerReceives, Resolve
  <2> QED BY <2>1, RpcStutters
<1>4. CASE future[inFlight] # "cancelled"
  <2>0. PICK r \in Req : r = inFlight
    BY <1>0
  <2>1. future[r] = "pending"
    BY <1>0, <1>4, <2>0, NoneAssumption DEF ChannelInv, RanInv, Unsettled
  <2>2. /\ \A q \in Req \ {r} : future'[q] = future[q]
        /\ future'[r] \in {"result", "error", "failed"}
    BY <1>0, <1>4, <2>0 DEF WorkerReceives, Resolve, ChannelInv, TypeOK
  <2>3. CallOf(r) = "open" /\ \A q \in Req \ {r} : CallOf(q)' = CallOf(q)
    BY <2>1, <2>2 DEF CallOf
  <2>4. CASE future'[r] \in {"result", "error"}
    <3>1. CallOf(r)' = "answered"
      BY <2>4 DEF CallOf
    <3>2. [q \in Req |-> CallOf(q)]' = [[q \in Req |-> CallOf(q)] EXCEPT ![r] = "answered"]
      BY <1>0, <2>3, <3>1
    <3>3. Rpc!Answer(r)
      BY <1>0, <1>1, <1>2, <2>0, <2>3, <3>2 DEF Rpc!Answer
    <3> QED BY <1>0, <3>3 DEF Rpc!Next
  <2>5. CASE future'[r] = "failed"
    <3>1. CallOf(r)' = "failed"
      BY <2>5 DEF CallOf
    <3>2. {r} \subseteq Rpc!Open
      BY <1>0, <2>3 DEF Rpc!Open
    <3>3. [q \in Req |-> CallOf(q)]' =
            [q \in Req |-> IF q \in {r} THEN "failed" ELSE [p \in Req |-> CallOf(p)][q]]
      BY <1>0, <2>3, <3>1
    <3>4. closedReason' = "open"
      BY <1>0
    <3>5. Rpc!Fail({r})
      BY <1>0, <1>2, <3>2, <3>3, <3>4 DEF Rpc!Fail
    <3> QED BY <1>0, <3>5 DEF Rpc!Next
  <2> QED BY <2>2, <2>4, <2>5
<1> QED BY <1>3, <1>4

LEMMA RpcFails ==
  ASSUME ChannelInv, NEW reason \in {"broken", "stopped"}, FailPending(reason),
         UNCHANGED executed
  PROVE  Rpc!Next
<1>1. \A r \in Req : future'[r] = IF future[r] = "pending" THEN "failed" ELSE future[r]
  BY DEF FailPending, ChannelInv, PendingInv, TypeOK
<1>2. \A r \in Req : CallOf(r)' = IF CallOf(r) = "open" THEN "failed" ELSE CallOf(r)
  <2> SUFFICES ASSUME NEW r \in Req
               PROVE  CallOf(r)' = IF CallOf(r) = "open" THEN "failed" ELSE CallOf(r)
    OBVIOUS
  <2>1. CASE future[r] = "pending"
    BY <1>1, <2>1 DEF CallOf
  <2>2. CASE future[r] # "pending"
    <3>1. future[r] \in FutureState
      BY DEF ChannelInv, TypeOK
    <3>2. CallOf(r) # "open"
      BY <2>2, <3>1 DEF CallOf, FutureState
    <3> QED BY <1>1, <2>2, <3>2 DEF CallOf
  <2> QED BY <2>1, <2>2
<1>3. \A r \in Req : r \in Rpc!Open <=> CallOf(r) = "open"
  BY DEF Rpc!Open
<1>4. [r \in Req |-> CallOf(r)]' =
        [r \in Req |-> IF r \in Rpc!Open THEN "failed" ELSE [q \in Req |-> CallOf(q)][r]]
  BY <1>2, <1>3
<1>5. Elements(executed)' = Elements(executed) /\ closedReason' # "open"
  BY DEF Elements, FailPending
<1>6. Rpc!Open \in SUBSET Req
  BY DEF Rpc!Open
<1>7. Rpc!Fail(Rpc!Open)
  BY <1>4, <1>5 DEF Rpc!Fail
<1> QED BY <1>6, <1>7 DEF Rpc!Next

LEMMA RpcRuns ==
  ASSUME ChannelInv, UNCHANGED <<future, closedReason>>, serving # None,
         executed' = Append(executed, serving)
  PROVE  Rpc!Next
<1>1. serving \in Req /\ executed \in Seq(Req)
  BY DEF ChannelInv, TypeOK
<1>2. Accepted(serving) /\ serving \notin Elements(executed)
  BY <1>1 DEF ChannelInv, RanInv
<1>3. Elements(executed)' = Elements(executed) \cup {serving}
  <2>1. Elements(Append(executed, serving)) = Elements(executed) \cup {serving}
    BY <1>1, ElementsAppend
  <2> QED BY <2>1 DEF Elements
<1>4. CallOf(serving) \notin {"new", "refused"}
  BY <1>2 DEF CallOf, Accepted
<1>5. [r \in Req |-> CallOf(r)]' = [r \in Req |-> CallOf(r)]
  BY DEF CallOf
<1>6. Rpc!Run(serving)
  BY <1>1, <1>2, <1>3, <1>4, <1>5 DEF Rpc!Run
<1> QED BY <1>1, <1>6 DEF Rpc!Next

LEMMA RpcStep == ChannelInv /\ [Next]_vars => [Rpc!Next]_Rpc!vars
<1> SUFFICES ASSUME ChannelInv, [Next]_vars PROVE Rpc!Next \/ UNCHANGED Rpc!vars
  OBVIOUS
<1>1. ASSUME NEW r \in Req, Send(r) \/ CancelSend(r) PROVE Rpc!Next
  BY <1>1, RpcSend, RpcCancel DEF Rpc!Next, ChannelInv
<1>2. CASE WorkerReceives
  BY <1>2, RpcReceives
<1>3. CASE RequestTimesOut \/ RequestFails
  BY <1>3, RpcFails DEF RequestTimesOut, RequestFails, RequestBreaks, history
<1>4. CASE WorkerCancelled \/ StopCompletes
  <2>1. CASE WorkerCancelled /\ worker = "created"
    BY <2>1, RpcStutters DEF WorkerCancelled, history
  <2>2. CASE (WorkerCancelled /\ worker # "created") \/ StopCompletes
    BY <2>2, RpcFails DEF WorkerCancelled, StopCompletes, history
  <2> QED BY <1>4, <2>1, <2>2
<1>5. CASE WorkerTake \/ WorkerWaits \/ Stop \/ AgentReads \/ UNCHANGED vars
  BY <1>5, RpcStutters
     DEF WorkerTake, WorkerWaits, Stop, AgentReads, vars, dispatcher, history
<1>6. ASSUME NEW kind \in {"ok", "error", "badShape"}, AgentResponds(kind) PROVE Rpc!Next
  BY <1>6, RpcRuns DEF AgentResponds, dispatcher
<1>7. CASE AgentDies
  <2>1. CASE executed' = executed
    BY <1>7, <2>1, RpcStutters DEF AgentDies, dispatcher
  <2>2. CASE serving # None /\ executed' = Append(executed, serving)
    BY <1>7, <2>2, RpcRuns DEF AgentDies, dispatcher
  <2> QED BY <1>7, <2>1, <2>2 DEF AgentDies
<1> QED BY <1>1, <1>2, <1>3, <1>4, <1>5, <1>6, <1>7 DEF Next, Worker, Agent

LEMMA RpcInit == Init => Rpc!Init
<1> SUFFICES ASSUME Init PROVE Rpc!Init
  OBVIOUS
<1>1. \A r \in Req : CallOf(r) = "new"
  BY DEF Init, CallOf
<1>2. Elements(executed) = {}
  BY ElementsEmpty DEF Init
<1> QED BY <1>1, <1>2 DEF Init, Rpc!Init

(* The dispatcher, its wire and the agent together implement the abstract  *)
(* call channel: at most one execution per accepted call, no answer        *)
(* without one, and none left open by closing.                             *)
THEOREM Refinement == Spec => ImplementsRpcChannel
<1>1. Spec => Rpc!Spec
  BY RpcInit, RpcStep, ChannelCorrect, PTL DEF Spec, Rpc!Spec
<1> QED BY <1>1 DEF ImplementsRpcChannel

-----------------------------------------------------------------------------
(* Only the worker writes to the wire, and it writes the head of the queue *)
(* unless its caller has gone.                                             *)
LEMMA WireGrowth ==
  ASSUME ChannelInv, [Next]_vars, NEW r \in Req, r \in Elements(toAgent'),
         r \notin Elements(toAgent)
  PROVE  r = Head(queue) /\ future[r] # "cancelled"
<1> USE DEF ChannelInv
<1>1. ~UNCHANGED toAgent
  BY DEF Elements
<1>2. ~AgentReads
  <2> SUFFICES ASSUME AgentReads PROVE FALSE
    OBVIOUS
  <2>1. Elements(toAgent) = Elements(Tail(toAgent)) \cup {Head(toAgent)}
    BY ElementsHeadTail DEF AgentReads, TypeOK
  <2> QED BY <2>1 DEF AgentReads
<1>3. ~AgentDies
  BY ElementsEmpty DEF AgentDies
<1>4. WorkerTake
  BY <1>1, <1>2, <1>3
     DEF Next, Worker, Agent, Send, CancelSend, WorkerWaits, WorkerReceives,
         RequestTimesOut, RequestFails, WorkerCancelled, Stop, StopCompletes,
         AgentResponds, vars, wire
<1>5. future[Head(queue)] # "cancelled" /\ toAgent' = Append(toAgent, Head(queue))
  BY <1>1, <1>4 DEF WorkerTake
<1>6. Head(queue) \in Req
  BY <1>4, ElementsHeadTail DEF WorkerTake, TypeOK
<1>7. Elements(toAgent') = Elements(toAgent) \cup {Head(queue)}
  BY <1>5, <1>6, ElementsAppend DEF TypeOK
<1> QED BY <1>5, <1>7

(* A command abandoned while still queued never reaches the agent. *)
THEOREM AbandonedCorrect == Spec => AbandonedNeverWritten
<1>1. ChannelInv /\ [Next]_vars =>
        [\A r \in Req : future[r] = "cancelled" /\ r \in Elements(queue)
                         => r \notin Elements(toAgent')]_vars
  <2> SUFFICES ASSUME ChannelInv, [Next]_vars, NEW r \in Req,
                      future[r] = "cancelled", r \in Elements(queue),
                      r \in Elements(toAgent')
               PROVE  FALSE
    OBVIOUS
  <2>1. r \notin Elements(toAgent)
    BY DEF ChannelInv, QueueInv, OnTheWire
  <2> QED BY <2>1, WireGrowth
<1> QED BY <1>1, ChannelCorrect, PTL DEF Spec, AbandonedNeverWritten

-----------------------------------------------------------------------------
(* Commands run in the order send() accepted them.  The path from send()   *)
(* to the agent is one line: what has run, then what is on its way to the  *)
(* agent, then the queue.  The invariant orders that line by the history   *)
(* of send(), as SentBefore does it: each part before the next, and the    *)
(* queue and the history of executions within themselves.                  *)
Ran == Elements(executed)
OnTheWay == Elements(toAgent) \cup ({serving} \ {None})

OrderInv ==
  /\ \A i, j \in DOMAIN queue : i < j => SentBefore(queue[i], queue[j])
  /\ ExecutedInSendOrder
  /\ \A a \in Ran, b \in OnTheWay : SentBefore(a, b)
  /\ \A a \in Ran \cup OnTheWay, b \in Elements(queue) : SentBefore(a, b)
  /\ Ran \cup OnTheWay \cup Elements(queue) \subseteq Elements(sent)

(* Accepting one more call leaves the earlier ones in their order, and the *)
(* new one after them all.                                                 *)
LEMMA SentGrows ==
  ASSUME TypeOK, NEW r \in Req, sent' = Append(sent, r)
  PROVE  /\ \A a, b : SentBefore(a, b) => SentBefore(a, b)'
         /\ \A a \in Elements(sent) : SentBefore(a, r)'
         /\ Elements(sent)' = Elements(sent) \cup {r}
<1>1. sent \in Seq(Req)
  BY DEF TypeOK
<1>2. /\ DOMAIN sent' = 1 .. (Len(sent) + 1) /\ DOMAIN sent = 1 .. Len(sent)
      /\ Len(sent) \in Nat /\ sent'[Len(sent) + 1] = r
      /\ \A i \in DOMAIN sent : i \in DOMAIN sent' /\ sent'[i] = sent[i] /\ i < Len(sent) + 1
  BY <1>1
<1>3. ASSUME NEW a, NEW b, SentBefore(a, b) PROVE SentBefore(a, b)'
  BY <1>2, <1>3 DEF SentBefore
<1>4. ASSUME NEW a \in Elements(sent) PROVE SentBefore(a, r)'
  <2>1. PICK i \in DOMAIN sent : sent[i] = a
    BY <1>4 DEF Elements
  <2> QED BY <1>2, <2>1 DEF SentBefore
<1>5. Elements(sent)' = Elements(sent) \cup {r}
  <2>1. Elements(Append(sent, r)) = Elements(sent) \cup {r}
    BY <1>1, ElementsAppend
  <2> QED BY <2>1 DEF Elements
<1> QED BY <1>3, <1>4, <1>5

(* A step that runs nothing and puts nothing on its way keeps the order,   *)
(* and so does one that empties the queue.                                 *)
LEMMA OrderKept ==
  ASSUME OrderInv, UNCHANGED <<sent, executed>>, OnTheWay' \subseteq OnTheWay,
         queue' = queue \/ queue' = <<>>
  PROVE  OrderInv'
<1>1. \A a, b : SentBefore(a, b)' <=> SentBefore(a, b)
  BY DEF SentBefore
<1>2. Ran' = Ran /\ Elements(sent)' = Elements(sent) /\ ExecutedInSendOrder'
  BY <1>1 DEF Ran, Elements, ExecutedInSendOrder, OrderInv
<1>3. CASE queue' = queue
  <2>1. Elements(queue)' = Elements(queue)
    BY <1>3 DEF Elements
  <2> QED BY <1>1, <1>2, <1>3, <2>1 DEF OrderInv
<1>4. CASE queue' = <<>>
  <2>1. Elements(queue)' = {} /\ DOMAIN queue' = {}
    BY <1>4 DEF Elements
  <2> QED BY <1>1, <1>2, <2>1 DEF OrderInv
<1> QED BY <1>3, <1>4

LEMMA OrderSend ==
  ASSUME TypeOK, OrderInv, NEW r \in Req, Send(r)
  PROVE  OrderInv'
<1>1. UNCHANGED <<executed, toAgent, serving>>
  BY DEF Send, wire
<1>2. OnTheWay' = OnTheWay /\ Ran' = Ran
  BY <1>1 DEF OnTheWay, Ran, Elements
<1>3. CASE closedReason # "open"
  BY <1>1, <1>2, <1>3, OrderKept DEF Send
<1>4. CASE closedReason = "open"
  <2>1. queue' = Append(queue, r) /\ sent' = Append(sent, r) /\ queue \in Seq(Req)
    BY <1>4 DEF Send, TypeOK
  <2>2. Elements(queue)' = Elements(queue) \cup {r}
    <3>1. Elements(Append(queue, r)) = Elements(queue) \cup {r}
      BY <2>1, ElementsAppend
    <3> QED BY <2>1, <3>1 DEF Elements
  <2>3. ASSUME NEW i \in DOMAIN queue', NEW j \in DOMAIN queue', i < j,
               NEW a, NEW b, a = queue'[i], b = queue'[j]
        PROVE  SentBefore(a, b)'
    <3>1. i \in DOMAIN queue /\ a = queue[i]
      BY <2>1, <2>3
    <3>2. CASE j \in DOMAIN queue
      <4>1. b = queue[j]
        BY <2>1, <2>3, <3>2
      <4>2. SentBefore(a, b)
        BY <2>3, <3>1, <3>2, <4>1 DEF OrderInv
      <4> QED BY <2>1, <4>2, SentGrows
    <3>3. CASE j \notin DOMAIN queue
      <4>1. b = r
        BY <2>1, <2>3, <3>3
      <4>2. a \in Elements(sent)
        BY <3>1 DEF OrderInv, Elements
      <4> QED BY <2>1, <4>1, <4>2, SentGrows
    <3> QED BY <3>2, <3>3
  <2>4. ExecutedInSendOrder'
    BY <1>1, <2>1, SentGrows DEF OrderInv, ExecutedInSendOrder
  <2>5. \A a \in Ran', b \in OnTheWay' : SentBefore(a, b)'
    BY <1>2, <2>1, SentGrows DEF OrderInv
  <2>6. \A a \in Ran' \cup OnTheWay', b \in Elements(queue)' : SentBefore(a, b)'
    BY <1>2, <2>1, <2>2, SentGrows DEF OrderInv
  <2>7. Ran' \cup OnTheWay' \cup Elements(queue)' \subseteq Elements(sent)'
    BY <1>2, <2>1, <2>2, SentGrows DEF OrderInv
  <2>8. \A i, j \in DOMAIN queue' : i < j => SentBefore(queue[i], queue[j])'
    BY <2>3 DEF SentBefore
  <2> QED BY <2>4, <2>5, <2>6, <2>7, <2>8 DEF OrderInv
<1> QED BY <1>3, <1>4

(* Taking the head of the queue, whether it is written out or skipped. *)
LEMMA OrderTake ==
  ASSUME TypeOK, OrderInv, WorkerTake
  PROVE  OrderInv'
<1>1. /\ UNCHANGED <<executed, sent, serving>> /\ queue' = Tail(queue)
      /\ queue # <<>> /\ queue \in Seq(Req)
      /\ toAgent' = toAgent \/ toAgent' = Append(toAgent, Head(queue))
  BY DEF WorkerTake, history, TypeOK
<1>2. /\ Head(queue) \in Req /\ Head(queue) \in Elements(queue)
      /\ Elements(queue)' = Elements(Tail(queue))
      /\ Elements(queue) = Elements(Tail(queue)) \cup {Head(queue)}
  BY <1>1, ElementsHeadTail DEF Elements
<1>3. OnTheWay' \subseteq OnTheWay \cup {Head(queue)}
  <2>1. Elements(Append(toAgent, Head(queue))) = Elements(toAgent) \cup {Head(queue)}
    BY <1>2, ElementsAppend DEF TypeOK
  <2>2. Elements(toAgent)' \subseteq Elements(toAgent) \cup {Head(queue)}
    BY <1>1, <2>1 DEF Elements
  <2> QED BY <1>1, <2>2 DEF OnTheWay
<1>4. /\ \A a, b : SentBefore(a, b)' <=> SentBefore(a, b)
      /\ Ran' = Ran /\ Elements(sent)' = Elements(sent)
  BY <1>1 DEF SentBefore, Ran, Elements
<1>5. ExecutedInSendOrder'
  BY <1>1, <1>4 DEF ExecutedInSendOrder, OrderInv
<1>6. \A i \in DOMAIN queue' : i + 1 \in DOMAIN queue /\ queue'[i] = queue[i + 1]
  BY <1>1
<1>7. \A i, j \in DOMAIN queue' : i < j => SentBefore(queue'[i], queue'[j])
  <2> SUFFICES ASSUME NEW i \in DOMAIN queue', NEW j \in DOMAIN queue', i < j
               PROVE  SentBefore(queue'[i], queue'[j])
    OBVIOUS
  <2>1. i \in Nat /\ j \in Nat /\ i + 1 < j + 1
    BY <1>1
  <2> QED BY <1>6, <2>1 DEF OrderInv
<1>8. \A b \in Elements(Tail(queue)) : SentBefore(Head(queue), b)
  <2> SUFFICES ASSUME NEW b \in Elements(Tail(queue)) PROVE SentBefore(Head(queue), b)
    OBVIOUS
  <2>1. PICK i \in DOMAIN Tail(queue) : Tail(queue)[i] = b
    BY DEF Elements
  <2>2. /\ 1 \in DOMAIN queue /\ i + 1 \in DOMAIN queue /\ 1 < i + 1
        /\ queue[1] = Head(queue) /\ queue[i + 1] = b
    BY <1>1, <2>1
  <2> QED BY <2>2 DEF OrderInv
<1>9. /\ \A a \in Ran', b \in OnTheWay' : SentBefore(a, b)'
      /\ \A a \in Ran' \cup OnTheWay', b \in Elements(queue)' : SentBefore(a, b)'
      /\ Ran' \cup OnTheWay' \cup Elements(queue)' \subseteq Elements(sent)'
  BY <1>2, <1>3, <1>4, <1>8 DEF OrderInv
<1>10. \A i, j \in DOMAIN queue' : i < j => SentBefore(queue[i], queue[j])'
  BY <1>1, <1>7 DEF SentBefore
<1> QED BY <1>5, <1>9, <1>10 DEF OrderInv

(* Carrying out what the agent is serving: nothing else is on its way. *)
LEMMA OrderServed ==
  ASSUME TypeOK, OrderInv, serving # None, UNCHANGED <<queue, sent>>,
         executed' = Append(executed, serving), toAgent' = <<>>, serving' = None
  PROVE  OrderInv'
<1>1. serving \in Req /\ serving \in OnTheWay /\ executed \in Seq(Req)
  BY DEF TypeOK, OnTheWay
<1>2. Ran' = Ran \cup {serving}
  <2>1. Elements(Append(executed, serving)) = Elements(executed) \cup {serving}
    BY <1>1, ElementsAppend
  <2> QED BY <2>1 DEF Ran, Elements
<1>3. OnTheWay' = {}
  BY ElementsEmpty DEF OnTheWay, Elements
<1>4. /\ \A a, b : SentBefore(a, b)' <=> SentBefore(a, b)
      /\ Elements(queue)' = Elements(queue) /\ Elements(sent)' = Elements(sent)
  BY DEF SentBefore, Elements
<1>5. ExecutedInSendOrder'
  <2> SUFFICES ASSUME NEW i \in DOMAIN executed', NEW j \in DOMAIN executed', i < j
               PROVE  SentBefore(executed'[i], executed'[j])
    BY <1>4 DEF ExecutedInSendOrder
  <2>1. i \in DOMAIN executed /\ executed'[i] = executed[i]
    BY <1>1
  <2>2. CASE j \in DOMAIN executed
    <3>1. executed'[j] = executed[j]
      BY <1>1, <2>2
    <3> QED BY <2>1, <2>2, <3>1 DEF OrderInv, ExecutedInSendOrder
  <2>3. CASE j \notin DOMAIN executed
    <3>1. executed'[j] = serving
      BY <1>1, <2>3
    <3>2. executed[i] \in Ran
      BY <2>1 DEF Ran, Elements
    <3> QED BY <1>1, <2>1, <3>1, <3>2 DEF OrderInv
  <2> QED BY <2>2, <2>3
<1> QED BY <1>1, <1>2, <1>3, <1>4, <1>5 DEF OrderInv

LEMMA OrderStep == ChannelInv /\ OrderInv /\ [Next]_vars => OrderInv'
<1> SUFFICES ASSUME ChannelInv, OrderInv, [Next]_vars PROVE OrderInv'
  OBVIOUS
<1>0. TypeOK /\ WireInv
  BY DEF ChannelInv
<1>1. ASSUME NEW r \in Req, Send(r) PROVE OrderInv'
  BY <1>0, <1>1, OrderSend
<1>2. CASE WorkerTake
  BY <1>0, <1>2, OrderTake
<1>3. CASE \/ \E r \in Req : CancelSend(r)
           \/ WorkerWaits \/ WorkerReceives \/ RequestTimesOut \/ RequestFails
           \/ WorkerCancelled \/ Stop \/ StopCompletes \/ UNCHANGED vars
  <2>1. UNCHANGED <<sent, executed, toAgent, serving>> /\ (queue' = queue \/ queue' = <<>>)
    BY <1>3 DEF CancelSend, WorkerWaits, WorkerReceives, RequestTimesOut, RequestFails,
         RequestBreaks, WorkerCancelled, FailPending, Stop, StopCompletes, vars,
         dispatcher, wire, history
  <2>2. OnTheWay' = OnTheWay
    BY <2>1 DEF OnTheWay, Elements
  <2> QED BY <2>1, <2>2, OrderKept
<1>4. CASE AgentReads
  <2>1. /\ toAgent # <<>> /\ serving' = Head(toAgent) /\ toAgent' = Tail(toAgent)
        /\ UNCHANGED <<sent, executed, queue>>
    BY <1>4 DEF AgentReads, dispatcher, history
  <2>2. Elements(toAgent) = Elements(Tail(toAgent)) \cup {Head(toAgent)}
    BY <1>0, <2>1, ElementsHeadTail DEF TypeOK
  <2>3. OnTheWay' \subseteq OnTheWay
    BY <2>1, <2>2 DEF OnTheWay, Elements
  <2> QED BY <2>1, <2>3, OrderKept
<1>5. ASSUME NEW kind \in {"ok", "error", "badShape"}, AgentResponds(kind) PROVE OrderInv'
  <2>1. serving # None /\ toAgent' = <<>>
    BY <1>0, <1>5 DEF AgentResponds, WireInv
  <2> QED BY <1>0, <1>5, <2>1, OrderServed DEF AgentResponds, dispatcher
<1>6. CASE AgentDies
  <2>1. toAgent' = <<>> /\ serving' = None /\ UNCHANGED <<sent, queue>>
    BY <1>6 DEF AgentDies, dispatcher
  <2>2. CASE executed' = executed
    <3>1. OnTheWay' \subseteq OnTheWay
      BY <2>1, ElementsEmpty DEF OnTheWay, Elements
    <3> QED BY <2>1, <2>2, <3>1, OrderKept
  <2>3. CASE serving # None /\ executed' = Append(executed, serving)
    BY <1>0, <2>1, <2>3, OrderServed
  <2> QED BY <1>6, <2>2, <2>3 DEF AgentDies
<1> QED BY <1>1, <1>2, <1>3, <1>4, <1>5, <1>6 DEF Next, Worker, Agent

LEMMA OrderInit == Init => OrderInv
<1> SUFFICES ASSUME Init PROVE OrderInv
  OBVIOUS
<1>1. /\ Ran = {} /\ OnTheWay = {} /\ Elements(queue) = {}
      /\ DOMAIN queue = {} /\ DOMAIN executed = {}
  BY ElementsEmpty DEF Init, Ran, OnTheWay
<1> QED BY <1>1 DEF OrderInv, ExecutedInSendOrder

(* The agent carries out commands in the order send() accepted them,       *)
(* whatever was cancelled, timed out or lost in between.                   *)
THEOREM OrderCorrect == Spec => []ExecutedInSendOrder
<1>1. Init => ChannelInv /\ OrderInv
  BY ChannelInvInit, OrderInit
<1>2. ChannelInv /\ OrderInv /\ [Next]_vars => (ChannelInv /\ OrderInv)'
  BY ChannelInvStep, OrderStep
<1>3. OrderInv => ExecutedInSendOrder
  BY DEF OrderInv
<1> QED BY <1>1, <1>2, <1>3, PTL DEF Spec
=============================================================================
