-------------------------- MODULE EventStream_proofs --------------------------
(* Proofs about EventStream, for all sets of windows and clients, queue    *)
(* capacities and socket buffers.                                          *)
EXTENDS EventStream, SequenceTheorems, TLAPS

-----------------------------------------------------------------------------
(* Sequences: what the queue, the wire and the history are built with.     *)
LEMMA AppendType ==
  ASSUME NEW S, NEW s \in Seq(S), NEW x \in S
  PROVE  Append(s, x) \in Seq(S) /\ Len(Append(s, x)) = Len(s) + 1
OBVIOUS

LEMMA TailType ==
  ASSUME NEW S, NEW s \in Seq(S), s # <<>>
  PROVE  Head(s) \in S /\ Tail(s) \in Seq(S) /\ Len(Tail(s)) = Len(s) - 1
OBVIOUS

LEMMA Below ==
  ASSUME NEW n \in Nat, NEW k \in Nat, n < k
  PROVE  n + 1 \in Nat /\ n + 1 <= k /\ n + 1 \in 1..k /\ n \in 0..k /\ n + 1 \in 0..k
OBVIOUS

LEMMA Less ==
  ASSUME NEW n \in Nat, NEW k \in Nat, n <= k
  PROVE  n - 1 <= k
OBVIOUS

(* An id is a number of a window_opened event, so there is one for every   *)
(* event left (EventBridge.nextWindowId, EventBridge.seq).                 *)
IdsLeft == nextWindowId <= seq + 1

(* The writer thread's local variables are set when they are used.         *)
WriterInv ==
  /\ writer \in [pc : WriterPc, message : Queued \cup {None}, to : Client \cup {None}]
  /\ writer.pc \in {"check", "report", "write"} => writer.to \in Client

(* A handler that is not waiting to accept has its client.                 *)
HandlerInv == handler # "accept" => serving \in Client

EventInv == TypeOK /\ IdsLeft /\ WriterInv /\ HandlerInv

(* A line is written where there is room for it, or to nobody.             *)
LEMMA WriteType ==
  ASSUME TypeOK, NEW c \in Client, NEW m \in Message, CanWrite(c), Write(c, m)
  PROVE  /\ wire' \in [Client -> Seq(Message)]
         /\ \A d \in Client : Len(wire'[d]) <= WireCapacity
<1>1. CASE client[c] = "closed"
  BY <1>1 DEF TypeOK, Write
<1>2. CASE client[c] # "closed"
  <2>1. wire' = [wire EXCEPT ![c] = Append(@, m)]
    BY <1>2 DEF Write
  <2>2. wire[c] \in Seq(Message) /\ Len(wire[c]) < WireCapacity
    BY <1>2 DEF TypeOK, CanWrite
  <2>3. Append(wire[c], m) \in Seq(Message) /\ Len(Append(wire[c], m)) = Len(wire[c]) + 1
    BY <2>2, AppendType
  <2>4. Len(Append(wire[c], m)) <= WireCapacity
    <3>1. Len(wire[c]) \in Nat
      BY <2>2
    <3> QED BY <2>2, <2>3, <3>1, Below, CapacityAssumption
  <2> QED
    BY <2>1, <2>3, <2>4 DEF TypeOK
<1> QED
  BY <1>1, <1>2

(* The event is numbered, and queued or dropped.                           *)
LEMMA EnqueueType ==
  ASSUME EventInv, NEW kind \in {"window_opened", "window_closed"}, NEW id \in Id \cup {0},
         seq < MaxEvents, EnqueueEvent(kind, id)
  PROVE  /\ seq' = seq + 1 /\ seq' \in 0..MaxEvents
         /\ queue' \in Seq(Queued) /\ Len(queue') <= QueueCapacity
         /\ edt' \in {edt, "refused"}
         /\ lost' \subseteq 1..MaxEvents
<1>1. seq' = seq + 1 /\ seq + 1 \in 1..MaxEvents /\ seq' \in 0..MaxEvents
  BY CapacityAssumption, Below DEF EventInv, TypeOK, EnqueueEvent
<1>2. Event(kind, id, seq + 1) \in Queued
  BY <1>1 DEF Event, Queued
<1>3. queue \in Seq(Queued) /\ Len(queue) \in Nat /\ Len(queue) <= QueueCapacity
  BY DEF EventInv, TypeOK
<1>4. CASE Len(queue) < QueueCapacity
  <2>1. queue' = Append(queue, Event(kind, id, seq + 1)) /\ UNCHANGED <<edt, lost>>
    BY <1>4 DEF EnqueueEvent
  <2>2. queue' \in Seq(Queued) /\ Len(queue') = Len(queue) + 1
    BY <1>2, <1>3, <2>1, AppendType
  <2>3. Len(queue') <= QueueCapacity
    BY <1>3, <1>4, <2>2, Below, CapacityAssumption
  <2> QED
    BY <1>1, <2>1, <2>2, <2>3 DEF EventInv, TypeOK
<1>5. CASE ~(Len(queue) < QueueCapacity)
  <2>1. edt' = "refused" /\ lost' = lost \cup {seq + 1} /\ UNCHANGED queue
    BY <1>5 DEF EnqueueEvent
  <2> QED
    BY <1>1, <1>3, <2>1 DEF EventInv, TypeOK
<1> QED
  BY <1>4, <1>5

-----------------------------------------------------------------------------
(* The types hold at the start.                                            *)
LEMMA InitInv == Init => EventInv
<1> SUFFICES ASSUME Init PROVE EventInv
  OBVIOUS
<1>1. 0 \in 0..MaxEvents /\ 1 \in 1..(MaxEvents + 1)
  BY CapacityAssumption
<1>2. Len(<<>>) <= QueueCapacity /\ Len(<<>>) <= WireCapacity /\ <<>> \in Seq(Message)
  BY CapacityAssumption
<1>3. WriterInv /\ (writer.pc # "take" => writer.message \in Queued)
  BY DEF Init, WriterInv, Idle, WriterPc
<1>4. <<{}>> \in Seq(SUBSET Id) /\ Len(<<{}>>) = 0 + 1
  OBVIOUS
<1>5. /\ windowIds \in [Window -> Id \cup {0}]
      /\ nextWindowId \in 1..(MaxEvents + 1)
      /\ seq \in 0..MaxEvents
      /\ seen \in [Client -> 0..MaxEvents]
      /\ windows \in [Client -> SUBSET Id]
      /\ seeded \subseteq Client
      /\ lost \subseteq 1..MaxEvents
  BY <1>1 DEF Init
<1>6. /\ queue \in Seq(Queued) /\ Len(queue) <= QueueCapacity
      /\ overflowed \in BOOLEAN
      /\ currentWriter \in Client \cup {None}
      /\ edt \in {"free", "refused"}
  <2>1. queue = <<>> /\ <<>> \in Seq(Queued)
    BY DEF Init
  <2>2. Len(queue) <= QueueCapacity
    BY <1>2, <2>1
  <2> QED
    BY <2>1, <2>2 DEF Init
<1>7. /\ backlog \in Seq(Client)
      /\ serving \in Client \cup {None}
      /\ handler \in {"accept", "greeted", "attaching", "reading"}
  BY DEF Init
<1>8. /\ wire \in [Client -> Seq(Message)]
      /\ \A c \in Client : Len(wire[c]) <= WireCapacity
      /\ client \in [Client -> {"new", "connected", "failed", "closed"}]
  BY <1>2 DEF Init
<1>9. history \in Seq(SUBSET Id) /\ Len(history) = seq + 1
  BY <1>4 DEF Init
<1>10. writer.pc \in WriterPc /\ writer.to \in Client \cup {None}
  BY DEF Init, Idle, WriterPc
<1>11. TypeOK
  BY <1>3, <1>5, <1>6, <1>7, <1>8, <1>9, <1>10, Zenon DEF TypeOK
<1> QED
  BY <1>3, <1>11 DEF Init, EventInv, IdsLeft, HandlerInv

(* The EDT's part: the registry, the number of the event and the queue.    *)
LEMMA OpenedInv ==
  ASSUME EventInv, NEW w \in Window, WindowOpened(w)
  PROVE  EventInv'
<1>1. nextWindowId \in Id /\ nextWindowId + 1 \in 1..(MaxEvents + 1)
      /\ nextWindowId + 1 <= (seq + 1) + 1
  BY CapacityAssumption DEF EventInv, TypeOK, IdsLeft, WindowOpened, Id
<1>2. /\ seq' = seq + 1 /\ seq' \in 0..MaxEvents
      /\ queue' \in Seq(Queued) /\ Len(queue') <= QueueCapacity
      /\ edt' \in {edt, "refused"}
      /\ lost' \subseteq 1..MaxEvents
  BY <1>1, EnqueueType DEF WindowOpened
<1>3. registered \cup {nextWindowId} \in SUBSET Id
  BY <1>1 DEF EventInv, TypeOK, registered
<1>4. history' \in Seq(SUBSET Id) /\ Len(history') = Len(history) + 1
  BY <1>3, AppendType DEF EventInv, TypeOK, WindowOpened
<1>5. TypeOK'
  BY <1>1, <1>2, <1>4 DEF EventInv, TypeOK, WindowOpened, accepts, python
<1> QED
  BY <1>1, <1>2, <1>5 DEF EventInv, IdsLeft, WriterInv, HandlerInv, WindowOpened, accepts

LEMMA ClosedInv ==
  ASSUME EventInv, NEW w \in Window, WindowClosed(w)
  PROVE  EventInv'
<1>1. windowIds[w] \in Id \cup {0}
  BY DEF EventInv, TypeOK
<1>2. /\ seq' = seq + 1 /\ seq' \in 0..MaxEvents
      /\ queue' \in Seq(Queued) /\ Len(queue') <= QueueCapacity
      /\ edt' \in {edt, "refused"}
      /\ lost' \subseteq 1..MaxEvents
  BY <1>1, EnqueueType DEF WindowClosed
<1>3. registered \ {windowIds[w]} \in SUBSET Id
  BY DEF EventInv, TypeOK, registered
<1>4. history' \in Seq(SUBSET Id) /\ Len(history') = Len(history) + 1
  BY <1>3, AppendType DEF EventInv, TypeOK, WindowClosed
<1>5. TypeOK'
  BY <1>2, <1>4 DEF EventInv, TypeOK, WindowClosed, accepts, python
<1>6. IdsLeft'
  BY <1>2 DEF EventInv, TypeOK, IdsLeft, WindowClosed
<1> QED
  BY <1>5, <1>6 DEF EventInv, WriterInv, HandlerInv, WindowClosed, accepts

(* The accept thread: a client is greeted, attached, let go.               *)
LEMMA AcceptInv ==
  ASSUME EventInv, AcceptThread
  PROVE  EventInv'
<1> USE DEF EventInv, IdsLeft, WriterInv, HandlerInv, registry, stream, python
<1>1. CASE Accept
  <2>1. Head(backlog) \in Client /\ Tail(backlog) \in Seq(Client)
    BY <1>1, TailType DEF TypeOK, Accept
  <2>2. /\ wire' \in [Client -> Seq(Message)]
        /\ \A d \in Client : Len(wire'[d]) <= WireCapacity
    BY <1>1, <2>1, WriteType DEF Accept, Message
  <2> QED
    BY <1>1, <2>1, <2>2 DEF TypeOK, Accept
<1>2. CASE TakesOver
  BY <1>2 DEF TypeOK, TakesOver
<1>3. CASE AttachClient
  <2>1. Snapshot(registered, seq, serving) \in Queued
    BY <1>3 DEF TypeOK, AttachClient, Snapshot, registered, Queued
  <2>2. /\ <<Snapshot(registered, seq, serving)>> \in Seq(Queued)
        /\ Len(<<Snapshot(registered, seq, serving)>>) <= QueueCapacity
    BY <2>1, CapacityAssumption
  <2> QED
    BY <1>3, <2>2 DEF TypeOK, AttachClient
<1>4. CASE Detach
  BY <1>4 DEF TypeOK, Detach
<1> QED
  BY <1>1, <1>2, <1>3, <1>4 DEF AcceptThread

(* The writer thread. *)
LEMMA WriterStepInv ==
  ASSUME EventInv, Writer
  PROVE  EventInv'
<1> USE DEF EventInv, IdsLeft, HandlerInv, registry, stream, accepts, python
<1>1. CASE WriterTakes
  <2>1. /\ Head(queue) \in Queued /\ Tail(queue) \in Seq(Queued)
        /\ Len(Tail(queue)) = Len(queue) - 1
    BY <1>1, TailType DEF TypeOK, WriterTakes
  <2>2. Len(Tail(queue)) <= QueueCapacity
    BY <2>1, Less, CapacityAssumption DEF TypeOK
  <2>3. writer' = [pc |-> "target", message |-> Head(queue), to |-> None]
    BY <1>1 DEF WriterTakes, Idle
  <2>4. WriterInv' /\ (writer'.pc # "take" => writer'.message \in Queued)
    BY <2>1, <2>3 DEF WriterInv, WriterPc
  <2>5. writer'.pc \in WriterPc /\ writer'.to \in Client \cup {None}
    BY <2>3 DEF WriterPc
  <2> QED
    BY <1>1, <2>1, <2>2, <2>4, <2>5 DEF TypeOK, WriterTakes
<1>2. CASE WriterTargets
  <2>1. CASE currentWriter = None
    BY <1>2, <2>1 DEF TypeOK, WriterInv, WriterTargets, Idle, WriterPc
  <2>2. CASE currentWriter # None
    BY <1>2, <2>2 DEF TypeOK, WriterInv, WriterTargets, WriterPc
  <2> QED
    BY <2>1, <2>2
<1>3. CASE WriterChecks
  BY <1>3 DEF TypeOK, WriterInv, WriterChecks, WriterPc
<1>4. CASE WriterReports
  <2>1. writer.to \in Client /\ Overflow \in Message
    BY <1>4 DEF WriterInv, WriterReports, Message
  <2>2. /\ wire' \in [Client -> Seq(Message)]
        /\ \A d \in Client : Len(wire'[d]) <= WireCapacity
    BY <1>4, <2>1, WriteType DEF WriterReports
  <2> QED
    BY <1>4, <2>2 DEF TypeOK, WriterInv, WriterReports, WriterPc
<1>5. CASE WriterWrites
  <2>1. writer.to \in Client /\ writer.message \in Message
    BY <1>5 DEF TypeOK, WriterInv, WriterWrites, Message
  <2>2. /\ wire' \in [Client -> Seq(Message)]
        /\ \A d \in Client : Len(wire'[d]) <= WireCapacity
    BY <1>5, <2>1, WriteType DEF WriterWrites
  <2> QED
    BY <1>5, <2>2 DEF TypeOK, WriterInv, WriterWrites, Idle, WriterPc
<1> QED
  BY <1>1, <1>2, <1>3, <1>4, <1>5 DEF Writer

(* A client connects, reads a line, or closes. *)
LEMMA ClientInv ==
  ASSUME EventInv, NEW c \in Client, Connect(c) \/ Read(c) \/ Close(c)
  PROVE  EventInv'
<1> USE DEF EventInv, IdsLeft, WriterInv, HandlerInv, registry, stream, accepts
<1>1. CASE Connect(c)
  <2>1. Append(backlog, c) \in Seq(Client)
    BY AppendType DEF TypeOK
  <2>2. client' \in [Client -> {"new", "connected", "failed", "closed"}]
    BY <1>1 DEF TypeOK, Connect
  <2> QED
    BY <1>1, <2>1, <2>2 DEF TypeOK, Connect
<1>2. CASE Read(c)
  <2> DEFINE m == Head(wire[c])
  <2>1. m \in Message /\ Tail(wire[c]) \in Seq(Message) /\ Len(Tail(wire[c])) <= WireCapacity
    <3>1. wire[c] \in Seq(Message) /\ Len(wire[c]) \in Nat /\ Len(wire[c]) <= WireCapacity
      BY DEF TypeOK
    <3> QED
      BY <1>2, <3>1, TailType, Less, CapacityAssumption DEF Read
  <2>2. m.type = "snapshot" => m.windows \in SUBSET Id /\ m.at \in 0..MaxEvents
    BY <2>1 DEF Message, Queued, Hello, Overflow
  <2>3. m.type = "event" => m.id \in Id \cup {0} /\ m.seq \in 0..MaxEvents
    BY <2>1, CapacityAssumption DEF Message, Queued, Hello, Overflow
  <2>4. m.type = "event" => Tracked(windows[c], m) \in SUBSET Id
    BY <2>3 DEF TypeOK, Tracked
  <2>5. wire' = [wire EXCEPT ![c] = Tail(@)]
    BY <1>2 DEF Read
  <2>6. /\ wire' \in [Client -> Seq(Message)]
        /\ \A d \in Client : Len(wire'[d]) <= WireCapacity
    BY <2>1, <2>5 DEF TypeOK
  <2>7. /\ windows' \in [Client -> SUBSET Id]
        /\ seen' \in [Client -> 0..MaxEvents]
        /\ seeded' \subseteq Client
        /\ client' \in [Client -> {"new", "connected", "failed", "closed"}]
    <3>1. CASE m.type = "snapshot"
      <4>1. /\ windows' = [windows EXCEPT ![c] = m.windows]
            /\ seen' = [seen EXCEPT ![c] = m.at]
            /\ seeded' = (IF m.of = c THEN seeded \cup {c} ELSE seeded)
            /\ UNCHANGED client
        BY <1>2, <3>1 DEF Read
      <4>2. seeded' \subseteq Client
        BY <4>1 DEF TypeOK
      <4> QED
        BY <2>2, <3>1, <4>1, <4>2 DEF TypeOK
    <3>2. CASE m.type = "event"
      <4>1. /\ windows' = [windows EXCEPT ![c] = Tracked(@, m)]
            /\ seen' = [seen EXCEPT ![c] = m.seq]
            /\ UNCHANGED <<seeded, client>>
        BY <1>2, <3>2 DEF Read
      <4>2. windows' \in [Client -> SUBSET Id]
        BY <2>4, <3>2, <4>1 DEF TypeOK
      <4>3. seen' \in [Client -> 0..MaxEvents]
        BY <2>3, <3>2, <4>1 DEF TypeOK
      <4> QED
        BY <4>1, <4>2, <4>3 DEF TypeOK
    <3>3. CASE m.type = "overflow"
      BY <1>2, <3>3 DEF TypeOK, Read
    <3>4. CASE m.type \notin {"snapshot", "event", "overflow"}
      BY <1>2, <3>4 DEF TypeOK, Read
    <3> QED
      BY <3>1, <3>2, <3>3, <3>4
  <2> QED
    BY <1>2, <2>6, <2>7 DEF TypeOK, Read
<1>3. CASE Close(c)
  <2>1. wire' = [wire EXCEPT ![c] = <<>>] /\ Len(<<>>) <= WireCapacity
    BY <1>3, CapacityAssumption DEF Close
  <2>2. /\ wire' \in [Client -> Seq(Message)]
        /\ \A d \in Client : Len(wire'[d]) <= WireCapacity
    BY <2>1 DEF TypeOK
  <2>3. client' \in [Client -> {"new", "connected", "failed", "closed"}]
    BY <1>3 DEF TypeOK, Close
  <2> QED
    BY <1>3, <2>2, <2>3 DEF TypeOK, Close, registry, stream, accepts
<1> QED
  BY <1>1, <1>2, <1>3

(* Every step keeps the types.                                             *)
LEMMA NextInv == EventInv /\ [Next]_vars => EventInv'
<1> SUFFICES ASSUME EventInv, [Next]_vars PROVE EventInv'
  OBVIOUS
<1>1. CASE Edt
  BY <1>1, OpenedInv, ClosedInv DEF Edt
<1>2. CASE SetOverflowed
  BY <1>2 DEF SetOverflowed, EventInv, TypeOK, IdsLeft, WriterInv, HandlerInv, registry, accepts, python
<1>3. CASE AcceptThread
  BY <1>3, AcceptInv
<1>4. CASE Writer
  BY <1>4, WriterStepInv
<1>5. CASE \E c \in Client : Connect(c) \/ Read(c) \/ Close(c)
  BY <1>5, ClientInv
<1>6. CASE UNCHANGED vars
  <2>1. TypeOK'
    BY <1>6 DEF EventInv, TypeOK, vars, registry, stream, accepts, python
  <2>2. (IdsLeft /\ WriterInv /\ HandlerInv)'
    BY <1>6 DEF EventInv, IdsLeft, WriterInv, HandlerInv, vars, registry, stream, accepts, python
  <2> QED
    BY <2>1, <2>2 DEF EventInv
<1> QED
  BY <1>1, <1>2, <1>3, <1>4, <1>5, <1>6 DEF Next

(* The queue and the socket buffers keep to their capacity, ids and event  *)
(* numbers to the events there were, and every message in them is whole.   *)
THEOREM TypeCorrect == Spec => []TypeOK
<1>1. EventInv => TypeOK
  BY DEF EventInv
<1> QED
  BY <1>1, InitInv, NextInv, PTL DEF Spec

-----------------------------------------------------------------------------
(* More about sequences: taking the head off one puts it back together.   *)
LEMMA ConcatAppend ==
  ASSUME NEW S, NEW s \in Seq(S), NEW t \in Seq(S), NEW x \in S
  PROVE  s \o Append(t, x) = Append(s \o t, x)
<1>1. <<x>> \in Seq(S) /\ s \o t \in Seq(S)
  BY ConcatProperties
<1>2. Append(t, x) = t \o <<x>> /\ Append(s \o t, x) = (s \o t) \o <<x>>
  BY <1>1, AppendIsConcat
<1> QED
  BY <1>1, <1>2, ConcatAssociative

(* What is taken off the first of two parts is taken off the whole.        *)
LEMMA TailConcat ==
  ASSUME NEW S, NEW s \in Seq(S), s # <<>>, NEW t \in Seq(S)
  PROVE  /\ s \o t # <<>> /\ Head(s \o t) = Head(s)
         /\ Tail(s \o t) = Tail(s) \o t
<1> DEFINE m == Len(s)
           n == Len(t)
           p == s \o t
           r == Tail(s) \o t
<1>1. /\ m \in Nat /\ n \in Nat /\ m >= 1 /\ Tail(s) \in Seq(S) /\ Len(Tail(s)) = m - 1
      /\ \A i \in 1..(m - 1) : Tail(s)[i] = s[i + 1]
  BY HeadTailProperties
<1>2. /\ p \in Seq(S) /\ Len(p) = m + n
      /\ \A i \in 1..(m + n) : p[i] = IF i <= m THEN s[i] ELSE t[i - m]
  BY ConcatProperties
<1>3. /\ r \in Seq(S) /\ Len(r) = (m - 1) + n
      /\ \A i \in 1..((m - 1) + n) : r[i] = IF i <= m - 1 THEN Tail(s)[i] ELSE t[i - (m - 1)]
  BY <1>1, ConcatProperties
<1>4. p # <<>> /\ Head(p) = p[1] /\ Head(s) = s[1] /\ p[1] = s[1]
  BY <1>1, <1>2
<1>5. /\ Tail(p) \in Seq(S) /\ Len(Tail(p)) = (m - 1) + n
      /\ \A i \in 1..((m - 1) + n) : Tail(p)[i] = p[i + 1]
  BY <1>1, <1>2, <1>4, HeadTailProperties
<1>6. ASSUME NEW i \in 1..((m - 1) + n)
      PROVE  Tail(p)[i] = r[i]
  <2>1. i + 1 \in 1..(m + n) /\ (i + 1 <= m <=> i <= m - 1) /\ (i + 1) - m = i - (m - 1)
    BY <1>1
  <2>2. CASE i <= m - 1
    BY <1>1, <1>2, <1>3, <1>5, <2>1, <2>2
  <2>3. CASE ~(i <= m - 1)
    BY <1>1, <1>2, <1>3, <1>5, <2>1, <2>3
  <2> QED
    BY <2>2, <2>3
<1>7. Tail(p) = r
  BY <1>3, <1>5, <1>6, SeqEqual
<1> QED
  BY <1>4, <1>7

(* A sequence is its head and then its tail.                               *)
LEMMA HeadFirst ==
  ASSUME NEW S, NEW s \in Seq(S), s # <<>>
  PROVE  s = <<Head(s)>> \o Tail(s)
<1> DEFINE r == <<Head(s)>> \o Tail(s)
<1>1. /\ Head(s) \in S /\ Head(s) = s[1] /\ Len(s) \in Nat /\ Len(s) >= 1
      /\ <<Head(s)>> \in Seq(S) /\ Len(<<Head(s)>>) = 1 /\ <<Head(s)>>[1] = s[1]
      /\ Tail(s) \in Seq(S) /\ Len(Tail(s)) = Len(s) - 1
      /\ \A i \in 1..Len(Tail(s)) : Tail(s)[i] = s[i + 1]
  BY HeadTailProperties
<1>2. /\ r \in Seq(S) /\ Len(r) = 1 + (Len(s) - 1)
      /\ \A i \in 1..(1 + (Len(s) - 1)) : r[i] = IF i <= 1 THEN <<Head(s)>>[i] ELSE Tail(s)[i - 1]
  BY <1>1, ConcatProperties
<1>3. ASSUME NEW i \in 1..Len(s)
      PROVE  r[i] = s[i]
  <2>1. CASE i = 1
    BY <1>1, <1>2, <2>1
  <2>2. CASE i > 1
    <3>1. i - 1 \in 1..Len(Tail(s)) /\ (i - 1) + 1 = i /\ ~(i <= 1) /\ i \in 1..(1 + (Len(s) - 1))
      BY <1>1, <2>2
    <3> QED
      BY <1>1, <1>2, <3>1
  <2> QED
    BY <1>1, <2>1, <2>2
<1>4. Len(r) = Len(s)
  BY <1>1, <1>2
<1> QED
  BY <1>2, <1>3, <1>4, SeqEqual

-----------------------------------------------------------------------------
IsEvent(m)    == m.type = "event"
IsSnapshot(m) == m.type = "snapshot"
Data(m)       == IsEvent(m) \/ IsSnapshot(m)
At(m)         == IF IsEvent(m) THEN m.seq ELSE IF IsSnapshot(m) THEN m.at ELSE 0
IsOwn(m, c)   == IsSnapshot(m) /\ m.of = c

(* What is on its way to a client, from the place j on, brings a mirror    *)
(* that stands at event s up to the last one, q, when the events in L were *)
(* dropped: no other snapshot, newer events in order, and every one of     *)
(* them that was not dropped.                                              *)
After(p, j, s, L, q) ==
  /\ \A i \in 1..Len(p) : j < i => ~IsSnapshot(p[i]) /\ At(p[i]) <= q
  /\ \A i \in 1..Len(p) : j < i /\ IsEvent(p[i]) => s < At(p[i])
  /\ \A h, i \in 1..Len(p) : j < h /\ h < i /\ IsEvent(p[h]) /\ IsEvent(p[i]) => At(p[h]) < At(p[i])
  /\ \A k \in 1..q : s < k /\ k \notin L => \E i \in 1..Len(p) : j < i /\ IsEvent(p[i]) /\ At(p[i]) = k

(* A client that has its own snapshot is being brought up to date; to one  *)
(* that has not, that snapshot is on its way, and what follows it is.      *)
Coming(p, j, c, L, q) ==
  /\ IsOwn(p[j], c) /\ At(p[j]) <= q
  /\ \A i \in 1..Len(p) : i < j => ~IsOwn(p[i], c)
  /\ After(p, j, At(p[j]), L, q)

PipeOK(p, c, s, in, L, q) ==
  IF in THEN After(p, 0, s, L, q) ELSE \E j \in 1..Len(p) : Coming(p, j, c, L, q)

(* What a message carries, by its type.                                    *)
LEMMA MessageFacts ==
  ASSUME NEW m \in Message
  PROVE  /\ At(m) \in Nat
         /\ IsEvent(m) => ~IsSnapshot(m) /\ At(m) = m.seq /\ m.seq \in 1..MaxEvents /\ m.id \in Id \cup {0}
         /\ IsSnapshot(m) => ~IsEvent(m) /\ At(m) = m.at /\ m.at \in 0..MaxEvents /\ m.windows \in SUBSET Id
                           /\ m.of \in Client
         /\ ~Data(m) => At(m) = 0
BY CapacityAssumption DEF Message, Queued, Hello, Overflow, At, IsEvent, IsSnapshot, Data

(* The next event joins the end of the pipe.                               *)
LEMMA AfterAppend ==
  ASSUME NEW p \in Seq(Message), NEW j \in 0..Len(p), NEW s \in Nat, NEW L, NEW q \in Nat,
         NEW e \in Message, IsEvent(e), At(e) = q + 1, s <= q, After(p, j, s, L, q)
  PROVE  After(Append(p, e), j, s, L, q + 1)
<1> DEFINE n == Len(p)
           r == Append(p, e)
<1>1. n \in Nat /\ Len(r) = n + 1 /\ r[n + 1] = e /\ \A i \in 1..n : r[i] = p[i]
  BY AppendProperties
<1>2. \A i \in 1..n : At(p[i]) \in Nat
  BY <1>1, ElementOfSeq, MessageFacts
<1>3. ~IsSnapshot(e)
  BY MessageFacts
<1>4. /\ \A i \in 1..n : j < i => ~IsSnapshot(p[i]) /\ At(p[i]) <= q
      /\ \A i \in 1..n : j < i /\ IsEvent(p[i]) => s < At(p[i])
      /\ \A h, i \in 1..n : j < h /\ h < i /\ IsEvent(p[h]) /\ IsEvent(p[i]) => At(p[h]) < At(p[i])
      /\ \A k \in 1..q : s < k /\ k \notin L => \E i \in 1..n : j < i /\ IsEvent(p[i]) /\ At(p[i]) = k
  BY DEF After
<1>5. j \in 0..n
  OBVIOUS
<1> HIDE DEF n, r
<1>6. \A i \in 1..Len(r) : i \in 1..n \/ i = n + 1
  BY <1>1
<1>7. ASSUME NEW i \in 1..Len(r), j < i
      PROVE  ~IsSnapshot(r[i]) /\ At(r[i]) <= q + 1
  <2>1. CASE i \in 1..n
    BY <1>1, <1>2, <1>4, <1>7, <2>1
  <2>2. CASE i = n + 1
    BY <1>1, <1>3, <2>2
  <2> QED
    BY <1>6, <2>1, <2>2
<1>8. \A i \in 1..Len(r) : j < i /\ IsEvent(r[i]) => s < At(r[i])
  BY <1>1, <1>4, <1>6
<1>9. ASSUME NEW h \in 1..Len(r), NEW i \in 1..Len(r), j < h, h < i, IsEvent(r[h]), IsEvent(r[i])
      PROVE  At(r[h]) < At(r[i])
  <2>1. h \in 1..n /\ r[h] = p[h] /\ At(p[h]) <= q /\ At(p[h]) \in Nat
    BY <1>1, <1>2, <1>4, <1>9
  <2>2. CASE i \in 1..n
    BY <1>1, <1>4, <1>9, <2>1, <2>2
  <2>3. CASE i = n + 1
    BY <1>1, <2>1, <2>3
  <2> QED
    BY <1>6, <2>2, <2>3
<1>10. ASSUME NEW k \in 1..(q + 1), s < k, k \notin L
       PROVE  \E i \in 1..Len(r) : j < i /\ IsEvent(r[i]) /\ At(r[i]) = k
  <2>1. CASE k = q + 1
    <3>1. n + 1 \in 1..Len(r) /\ j < n + 1
      BY <1>1, <1>5
    <3> QED
      BY <1>1, <2>1, <3>1
  <2>2. CASE k \in 1..q
    <3>1. PICK i \in 1..n : j < i /\ IsEvent(p[i]) /\ At(p[i]) = k
      BY <1>4, <1>10, <2>2
    <3>2. i \in 1..Len(r)
      BY <1>1
    <3> QED
      BY <1>1, <3>1, <3>2
  <2> QED
    BY <2>1, <2>2
<1> QED
  BY <1>7, <1>8, <1>9, <1>10 DEF After, r

LEMMA PipeAppend ==
  ASSUME NEW p \in Seq(Message), NEW c, NEW s \in Nat, NEW in, NEW L, NEW q \in Nat,
         NEW e \in Message, IsEvent(e), At(e) = q + 1, s <= q, PipeOK(p, c, s, in, L, q)
  PROVE  PipeOK(Append(p, e), c, s, in, L, q + 1)
<1> DEFINE r == Append(p, e)
<1>1. /\ Len(p) \in Nat /\ Len(r) = Len(p) + 1 /\ \A i \in 1..Len(p) : r[i] = p[i]
      /\ \A i \in 1..Len(p) : At(p[i]) \in Nat
  BY AppendProperties, ElementOfSeq, MessageFacts
<1>2. CASE in
  <2>1. After(p, 0, s, L, q) /\ 0 \in 0..Len(p)
    BY <1>1, <1>2 DEF PipeOK
  <2>2. After(r, 0, s, L, q + 1)
    BY <2>1, AfterAppend
  <2> QED
    BY <1>2, <2>2 DEF PipeOK
<1>3. CASE ~in
  <2>1. PICK j \in 1..Len(p) : Coming(p, j, c, L, q)
    BY <1>3 DEF PipeOK
  <2>2. j \in 0..Len(p) /\ At(p[j]) \in Nat /\ At(p[j]) <= q /\ After(p, j, At(p[j]), L, q)
    BY <1>1, <2>1 DEF Coming
  <2>3. After(r, j, At(p[j]), L, q + 1)
    BY <2>2, AfterAppend
  <2>4. j \in 1..Len(r) /\ r[j] = p[j] /\ At(p[j]) <= q + 1
    BY <1>1, <2>2
  <2>5. \A i \in 1..Len(r) : i < j => i \in 1..Len(p) /\ r[i] = p[i]
    BY <1>1
  <2>6. Coming(r, j, c, L, q + 1)
    BY <2>1, <2>3, <2>4, <2>5 DEF Coming
  <2> QED
    BY <1>3, <2>4, <2>6 DEF PipeOK
<1> QED
  BY <1>2, <1>3

(* The next event is dropped: one more is lost, and none out of order.     *)
LEMMA PipeDrop ==
  ASSUME NEW p \in Seq(Message), NEW c, NEW s \in Nat, NEW in, NEW L, NEW q \in Nat,
         PipeOK(p, c, s, in, L, q)
  PROVE  PipeOK(p, c, s, in, L \cup {q + 1}, q + 1)
<1>1. \A i \in 1..Len(p) : At(p[i]) \in Nat
  BY ElementOfSeq, MessageFacts
<1>2. ASSUME NEW j, NEW t, After(p, j, t, L, q)
      PROVE  After(p, j, t, L \cup {q + 1}, q + 1)
  BY <1>1, <1>2 DEF After
<1>3. CASE in
  BY <1>2, <1>3 DEF PipeOK
<1>4. CASE ~in
  <2>1. PICK j \in 1..Len(p) : Coming(p, j, c, L, q)
    BY <1>4 DEF PipeOK
  <2>2. At(p[j]) <= q + 1
    BY <1>1, <2>1 DEF Coming
  <2>3. Coming(p, j, c, L \cup {q + 1}, q + 1)
    BY <1>2, <2>1, <2>2 DEF Coming
  <2> QED
    BY <1>4, <2>3 DEF PipeOK
<1> QED
  BY <1>3, <1>4

(* What comes after a place in the pipe, once the head has been read.      *)
LEMMA AfterTail ==
  ASSUME NEW p \in Seq(Message), p # <<>>, NEW j \in 1..Len(p), NEW s, NEW L, NEW q \in Nat,
         After(p, j, s, L, q)
  PROVE  After(Tail(p), j - 1, s, L, q)
<1> DEFINE n == Len(p)
           r == Tail(p)
<1>1. n \in Nat /\ n >= 1 /\ Len(r) = n - 1 /\ \A i \in 1..Len(r) : r[i] = p[i + 1]
  BY HeadTailProperties
<1>2. j \in Nat /\ j >= 1
  BY <1>1
<1>3. /\ \A i \in 1..n : j < i => ~IsSnapshot(p[i]) /\ At(p[i]) <= q
      /\ \A i \in 1..n : j < i /\ IsEvent(p[i]) => s < At(p[i])
      /\ \A h, i \in 1..n : j < h /\ h < i /\ IsEvent(p[h]) /\ IsEvent(p[i]) => At(p[h]) < At(p[i])
      /\ \A k \in 1..q : s < k /\ k \notin L => \E i \in 1..n : j < i /\ IsEvent(p[i]) /\ At(p[i]) = k
  BY DEF After
<1> HIDE DEF n, r
<1>4. /\ \A i \in 1..Len(r) : i + 1 \in 1..n /\ r[i] = p[i + 1] /\ (j - 1 < i => j < i + 1)
      /\ \A h, i \in 1..Len(r) : h < i => h + 1 < i + 1
      /\ \A i \in 1..n : j < i => i - 1 \in 1..Len(r) /\ r[i - 1] = p[i] /\ j - 1 < i - 1
  BY <1>1, <1>2
<1>5. \A i \in 1..Len(r) : j - 1 < i => ~IsSnapshot(r[i]) /\ At(r[i]) <= q
  BY <1>3, <1>4
<1>6. \A i \in 1..Len(r) : j - 1 < i /\ IsEvent(r[i]) => s < At(r[i])
  BY <1>3, <1>4
<1>7. \A h, i \in 1..Len(r) :
         j - 1 < h /\ h < i /\ IsEvent(r[h]) /\ IsEvent(r[i]) => At(r[h]) < At(r[i])
  BY <1>3, <1>4
<1>8. ASSUME NEW k \in 1..q, s < k, k \notin L
      PROVE  \E i \in 1..Len(r) : j - 1 < i /\ IsEvent(r[i]) /\ At(r[i]) = k
  <2>1. PICK i \in 1..n : j < i /\ IsEvent(p[i]) /\ At(p[i]) = k
    BY <1>3, <1>8
  <2> QED
    BY <1>4, <2>1
<1> QED
  BY <1>5, <1>6, <1>7, <1>8 DEF After, r

(* The head of a pipe that brings a mirror up to date is no snapshot; the  *)
(* mirror moves up to it.                                                  *)
LEMMA AfterHead ==
  ASSUME NEW p \in Seq(Message), p # <<>>, NEW s \in Nat, NEW L, NEW q \in Nat,
         After(p, 0, s, L, q)
  PROVE  /\ ~IsSnapshot(Head(p))
         /\ ~Data(Head(p)) => After(Tail(p), 0, s, L, q)
         /\ IsEvent(Head(p)) => s < At(Head(p)) /\ After(Tail(p), 0, At(Head(p)), L, q)
<1> DEFINE n == Len(p)
           r == Tail(p)
           m == p[1]
<1>1. /\ n \in Nat /\ n >= 1 /\ Head(p) = m /\ Len(r) = n - 1
      /\ \A i \in 1..Len(r) : r[i] = p[i + 1]
  BY HeadTailProperties
<1>2. \A i \in 1..n : At(p[i]) \in Nat
  BY <1>1, ElementOfSeq, MessageFacts
<1>3. /\ \A i \in 1..n : 0 < i => ~IsSnapshot(p[i]) /\ At(p[i]) <= q
      /\ \A i \in 1..n : 0 < i /\ IsEvent(p[i]) => s < At(p[i])
      /\ \A h, i \in 1..n : 0 < h /\ h < i /\ IsEvent(p[h]) /\ IsEvent(p[i]) => At(p[h]) < At(p[i])
      /\ \A k \in 1..q : s < k /\ k \notin L => \E i \in 1..n : 0 < i /\ IsEvent(p[i]) /\ At(p[i]) = k
  BY DEF After
<1> HIDE DEF n, r, m
<1>4. /\ 1 \in 1..n /\ p[1] = m
      /\ \A i \in 1..Len(r) : i + 1 \in 1..n /\ r[i] = p[i + 1] /\ 0 < i + 1 /\ 1 < i + 1
      /\ \A h, i \in 1..Len(r) : h < i => h + 1 < i + 1
      /\ \A i \in 1..n : i # 1 => i - 1 \in 1..Len(r) /\ r[i - 1] = p[i] /\ 0 < i - 1
  BY <1>1 DEF m
<1>5. /\ \A i \in 1..Len(r) : 0 < i => ~IsSnapshot(r[i]) /\ At(r[i]) <= q
      /\ \A i \in 1..Len(r) : 0 < i /\ IsEvent(r[i]) => s < At(r[i])
      /\ \A h, i \in 1..Len(r) :
            0 < h /\ h < i /\ IsEvent(r[h]) /\ IsEvent(r[i]) => At(r[h]) < At(r[i])
  BY <1>3, <1>4
<1>6. IsEvent(m) => /\ s < At(m)
                    /\ \A i \in 1..Len(r) : 0 < i /\ IsEvent(r[i]) => At(m) < At(r[i])
  BY <1>3, <1>4
<1>7. ASSUME NEW k \in 1..q, s < k, k \notin L, IsEvent(m) => At(m) < k
      PROVE  \E i \in 1..Len(r) : 0 < i /\ IsEvent(r[i]) /\ At(r[i]) = k
  <2>1. PICK i \in 1..n : IsEvent(p[i]) /\ At(p[i]) = k
    BY <1>3, <1>7
  <2>2. i # 1
    BY <1>2, <1>4, <1>7, <2>1
  <2> QED
    BY <1>4, <2>1, <2>2
<1>8. ~IsSnapshot(m)
  BY <1>3, <1>4
<1>9. ASSUME ~Data(m)
      PROVE  After(r, 0, s, L, q)
  BY <1>5, <1>7, <1>9 DEF After, Data
<1>10. ASSUME IsEvent(m)
       PROVE  After(r, 0, At(m), L, q)
  <2>1. ASSUME NEW k \in 1..q, At(m) < k, k \notin L
        PROVE  \E i \in 1..Len(r) : 0 < i /\ IsEvent(r[i]) /\ At(r[i]) = k
    <3>1. s < k
      BY <1>2, <1>4, <1>6, <1>10, <2>1
    <3> QED
      BY <1>7, <2>1, <3>1
  <2> QED
    BY <1>5, <1>6, <1>10, <2>1 DEF After
<1> QED
  BY <1>1, <1>6, <1>8, <1>9, <1>10 DEF r

(* The head of the pipe is read by a mirror that has its snapshot.         *)
LEMMA PipeTailSeeded ==
  ASSUME NEW p \in Seq(Message), p # <<>>, NEW c, NEW s \in Nat, NEW L,
         NEW q \in Nat, PipeOK(p, c, s, TRUE, L, q)
  PROVE  /\ ~Data(Head(p)) => PipeOK(Tail(p), c, s, TRUE, L, q)
         /\ IsEvent(Head(p)) => PipeOK(Tail(p), c, At(Head(p)), TRUE, L, q)
         /\ ~IsSnapshot(Head(p))
<1>1. After(p, 0, s, L, q)
  BY DEF PipeOK
<1> QED
  BY <1>1, AfterHead DEF PipeOK

(* The head of the pipe is read by a mirror that waits for its snapshot.   *)
LEMMA PipeTailWaiting ==
  ASSUME NEW p \in Seq(Message), p # <<>>, NEW c, NEW s, NEW t, NEW L,
         NEW q \in Nat, PipeOK(p, c, s, FALSE, L, q)
  PROVE  /\ IsOwn(Head(p), c) => PipeOK(Tail(p), c, At(Head(p)), TRUE, L, q)
         /\ ~IsOwn(Head(p), c) => PipeOK(Tail(p), c, t, FALSE, L, q)
<1> DEFINE r == Tail(p)
<1>1. PICK j \in 1..Len(p) : Coming(p, j, c, L, q)
  BY DEF PipeOK
<1>2. /\ Len(p) \in Nat /\ Len(p) >= 1 /\ Head(p) = p[1] /\ Len(r) = Len(p) - 1
      /\ \A i \in 1..Len(r) : r[i] = p[i + 1]
  BY HeadTailProperties
<1>3. After(r, j - 1, At(p[j]), L, q)
  BY <1>1, AfterTail DEF Coming
<1> HIDE DEF r
<1>4. CASE j = 1
  <2>1. After(r, 0, At(p[1]), L, q) /\ IsOwn(p[1], c)
    BY <1>1, <1>3, <1>4 DEF Coming
  <2> QED
    BY <1>2, <2>1 DEF PipeOK, r
<1>5. CASE j # 1
  <2>1. 1 \in 1..Len(p) /\ 1 < j /\ j - 1 \in 1..Len(r) /\ (j - 1) + 1 = j
    BY <1>2, <1>5
  <2>2. ~IsOwn(p[1], c)
    BY <1>1, <2>1 DEF Coming
  <2>3. r[j - 1] = p[j]
    BY <1>2, <2>1
  <2>4. \A i \in 1..Len(r) : i < j - 1 => i + 1 \in 1..Len(p) /\ i + 1 < j /\ r[i] = p[i + 1]
    BY <1>2
  <2>5. Coming(r, j - 1, c, L, q)
    BY <1>1, <1>3, <2>3, <2>4 DEF Coming
  <2> QED
    BY <1>2, <2>1, <2>2, <2>5 DEF PipeOK, r
<1> QED
  BY <1>4, <1>5

(* An event at the head of the pipe is the one after the mirror's, but for *)
(* events that were dropped.                                               *)
LEMMA NoGap ==
  ASSUME NEW p \in Seq(Message), p # <<>>, NEW s \in Nat, NEW L, NEW q \in Nat,
         After(p, 0, s, L, q), IsEvent(Head(p))
  PROVE  /\ s < At(Head(p))
         /\ \A k \in 1..q : s < k /\ k < At(Head(p)) => k \in L
<1>1. Len(p) \in Nat /\ Head(p) = p[1] /\ 1 \in 1..Len(p)
  BY HeadTailProperties
<1>2. \A i \in 1..Len(p) : At(p[i]) \in Nat
  BY ElementOfSeq, MessageFacts
<1>3. ASSUME NEW k \in 1..q, s < k, k < At(p[1]), k \notin L
      PROVE  FALSE
  <2>1. PICK i \in 1..Len(p) : IsEvent(p[i]) /\ At(p[i]) = k
    BY <1>3 DEF After
  <2>2. i # 1
    BY <1>1, <1>2, <1>3, <2>1
  <2>3. At(p[1]) < At(p[i])
    BY <1>1, <2>1, <2>2 DEF After
  <2> QED
    BY <1>1, <1>2, <1>3, <2>1, <2>3
<1> QED
  BY <1>1, <1>3, AfterHead

(* A line that carries no event changes nothing, wherever it is put.       *)
LEMMA PipeInsert ==
  ASSUME NEW x \in Seq(Message), NEW y \in Seq(Message), NEW v \in Message, ~Data(v), NEW c,
         NEW s, NEW in, NEW L, NEW q \in Nat, PipeOK(x \o y, c, s, in, L, q)
  PROVE  PipeOK(Append(x, v) \o y, c, s, in, L, q)
<1> DEFINE m == Len(x)
           n == Len(y)
           p == x \o y
           r == Append(x, v) \o y
           f(i) == IF i <= m THEN i ELSE i + 1
           g(i) == IF i <= m THEN i ELSE i - 1
<1>1. /\ m \in Nat /\ n \in Nat
      /\ Append(x, v) \in Seq(Message) /\ Len(Append(x, v)) = m + 1
      /\ \A i \in 1..m : Append(x, v)[i] = x[i]
      /\ Append(x, v)[m + 1] = v
  BY AppendProperties
<1>2. /\ Len(p) = m + n
      /\ \A i \in 1..(m + n) : p[i] = IF i <= m THEN x[i] ELSE y[i - m]
  BY ConcatProperties
<1>3. /\ Len(r) = m + 1 + n
      /\ \A i \in 1..(m + 1 + n) :
            r[i] = IF i <= m + 1 THEN Append(x, v)[i] ELSE y[i - (m + 1)]
  BY <1>1, ConcatProperties
<1> HIDE DEF m, n, p, r
<1>4. ASSUME NEW i \in 1..Len(p)
      PROVE  f(i) \in 1..Len(r) /\ r[f(i)] = p[i]
  <2>1. CASE i <= m
    <3>1. i \in 1..m /\ i <= m + 1 /\ i \in 1..(m + 1 + n) /\ i \in 1..(m + n)
      BY <1>1, <1>2, <1>4, <2>1
    <3> QED
      BY <1>1, <1>2, <1>3, <2>1, <3>1
  <2>2. CASE m < i
    <3> SUFFICES ASSUME i \in Nat, i <= m + n, m < i
                 PROVE  i + 1 \in 1..(m + 1 + n) /\ r[i + 1] = p[i]
      BY <1>1, <1>2, <1>3, <1>4, <2>2
    <3>1. i + 1 \in 1..(m + 1 + n) /\ ~(i + 1 <= m + 1) /\ (i + 1) - (m + 1) = i - m
      BY <1>1
    <3>2. ~(i <= m) /\ i \in 1..(m + n)
      BY <1>1, <1>2, <1>4, <2>2
    <3> QED
      BY <1>2, <1>3, <3>1, <3>2
  <2> QED
    BY <1>1, <1>2, <1>4, <2>1, <2>2
<1>5. ASSUME NEW i \in 1..Len(r), i # m + 1
      PROVE  g(i) \in 1..Len(p) /\ p[g(i)] = r[i]
  <2>1. CASE i <= m
    <3>1. i \in 1..m /\ i <= m + 1 /\ i \in 1..(m + 1 + n) /\ i \in 1..(m + n)
      BY <1>1, <1>3, <1>5, <2>1
    <3> QED
      BY <1>1, <1>2, <1>3, <2>1, <3>1
  <2>2. CASE m + 1 < i
    <3>1. i - 1 \in 1..(m + n) /\ ~(i - 1 <= m) /\ (i - 1) - m = i - (m + 1)
      BY <1>1, <1>3, <1>5, <2>2
    <3>2. ~(i <= m + 1) /\ ~(i <= m) /\ i \in 1..(m + 1 + n)
      BY <1>1, <1>3, <1>5, <2>2
    <3> QED
      BY <1>2, <1>3, <3>1, <3>2
  <2> QED
    BY <1>1, <1>3, <1>5, <2>1, <2>2
<1>6. /\ \A i, j \in 1..Len(p) : i < j => f(i) < f(j)
      /\ \A i, j \in 1..Len(r) : i < j /\ i # m + 1 /\ j # m + 1 => g(i) < g(j)
      /\ \A i \in 0..Len(p), j \in 1..Len(r) : j # m + 1 /\ f(i) < j => i < g(j)
      /\ \A i \in 0..Len(p), j \in 1..Len(p) : i < j => f(i) < f(j)
      /\ f(0) = 0
      /\ \A i \in 1..Len(p), j \in 1..Len(r) : j # m + 1 /\ j < f(i) => g(j) < i
  BY <1>1, <1>2, <1>3
<1>7. \A i \in 1..Len(r) : i = m + 1 => ~IsEvent(r[i]) /\ ~IsSnapshot(r[i]) /\ At(r[i]) = 0
  <2>1. r[m + 1] = v
    BY <1>1, <1>3
  <2>2. ~IsEvent(v) /\ ~IsSnapshot(v) /\ At(v) = 0
    BY MessageFacts DEF Data
  <2> QED
    BY <2>1, <2>2
<1> HIDE DEF f, g
<1>8. ASSUME NEW j \in 0..Len(p), NEW t, After(p, j, t, L, q)
      PROVE  After(r, f(j), t, L, q)
  <2>1. /\ \A i \in 1..Len(p) : j < i => ~IsSnapshot(p[i]) /\ At(p[i]) <= q
        /\ \A i \in 1..Len(p) : j < i /\ IsEvent(p[i]) => t < At(p[i])
        /\ \A h, i \in 1..Len(p) :
              j < h /\ h < i /\ IsEvent(p[h]) /\ IsEvent(p[i]) => At(p[h]) < At(p[i])
        /\ \A k \in 1..q : t < k /\ k \notin L =>
              \E i \in 1..Len(p) : j < i /\ IsEvent(p[i]) /\ At(p[i]) = k
    BY <1>8 DEF After
  <2>2. ASSUME NEW i \in 1..Len(r), f(j) < i
        PROVE  /\ ~IsSnapshot(r[i]) /\ At(r[i]) <= q
               /\ IsEvent(r[i]) => t < At(r[i])
    <3>1. CASE i = m + 1
      BY <1>7, <3>1
    <3>2. CASE i # m + 1
      BY <1>5, <1>6, <2>1, <2>2, <3>2
    <3> QED
      BY <3>1, <3>2
  <2>3. ASSUME NEW h \in 1..Len(r), NEW i \in 1..Len(r), f(j) < h, h < i, IsEvent(r[h]), IsEvent(r[i])
        PROVE  At(r[h]) < At(r[i])
    <3>1. h # m + 1 /\ i # m + 1
      BY <1>7, <2>3
    <3>2. j < g(h) /\ g(h) < g(i)
      BY <1>6, <2>3, <3>1
    <3>3. g(h) \in 1..Len(p) /\ p[g(h)] = r[h] /\ g(i) \in 1..Len(p) /\ p[g(i)] = r[i]
      BY <1>5, <3>1
    <3> QED
      BY <2>1, <2>3, <3>2, <3>3
  <2>4. ASSUME NEW k \in 1..q, t < k, k \notin L
        PROVE  \E i \in 1..Len(r) : f(j) < i /\ IsEvent(r[i]) /\ At(r[i]) = k
    <3>1. PICK i \in 1..Len(p) : j < i /\ IsEvent(p[i]) /\ At(p[i]) = k
      BY <2>1, <2>4
    <3>2. f(i) \in 1..Len(r) /\ r[f(i)] = p[i] /\ f(j) < f(i)
      BY <1>4, <1>6, <3>1
    <3> QED
      BY <3>1, <3>2
  <2> QED
    BY <2>2, <2>3, <2>4 DEF After
<1>9. CASE in
  <2>1. After(p, 0, s, L, q) /\ 0 \in 0..Len(p)
    BY <1>1, <1>2, <1>9 DEF PipeOK, p
  <2>2. After(r, 0, s, L, q)
    BY <1>6, <1>8, <2>1
  <2> QED
    BY <1>9, <2>2 DEF PipeOK, r
<1>10. CASE ~in
  <2>1. PICK j \in 1..Len(p) : Coming(p, j, c, L, q)
    BY <1>10 DEF PipeOK, p
  <2>2. j \in 0..Len(p) /\ f(j) \in 1..Len(r) /\ r[f(j)] = p[j]
    BY <1>1, <1>2, <1>4
  <2>3. After(r, f(j), At(p[j]), L, q)
    BY <1>8, <2>1, <2>2 DEF Coming
  <2>4. ASSUME NEW i \in 1..Len(r), i < f(j)
        PROVE  ~IsOwn(r[i], c)
    <3>1. CASE i = m + 1
      BY <1>7, <3>1 DEF IsOwn
    <3>2. CASE i # m + 1
      <4>1. g(i) \in 1..Len(p) /\ p[g(i)] = r[i] /\ g(i) < j
        BY <1>5, <1>6, <2>4, <3>2
      <4> QED
        BY <2>1, <4>1 DEF Coming
    <3> QED
      BY <3>1, <3>2
  <2>5. Coming(r, f(j), c, L, q)
    BY <2>1, <2>2, <2>3, <2>4 DEF Coming
  <2> QED
    BY <1>10, <2>2, <2>5 DEF PipeOK, r
<1> QED
  BY <1>9, <1>10

(* A snapshot of its own joins whatever was on its way to a client.        *)
LEMMA PipeFirst ==
  ASSUME NEW p \in Seq(Message), NEW c, NEW m \in Message, NEW q \in Nat, IsOwn(m, c), At(m) = q,
         \A i \in 1..Len(p) : ~IsOwn(p[i], c)
  PROVE  \A s : PipeOK(Append(p, m), c, s, FALSE, {}, q)
<1> DEFINE n == Len(p)
           r == Append(p, m)
<1>1. n \in Nat /\ Len(r) = n + 1 /\ r[n + 1] = m /\ \A i \in 1..n : r[i] = p[i]
  BY AppendProperties
<1> HIDE DEF r
<1>2. n + 1 \in 1..Len(r) /\ \A i \in 1..Len(r) : ~(n + 1 < i) /\ (i < n + 1 => i \in 1..n)
  BY <1>1
<1>3. After(r, n + 1, q, {}, q)
  BY <1>2 DEF After
<1>4. Coming(r, n + 1, c, {}, q)
  BY <1>1, <1>2, <1>3 DEF Coming
<1> QED
  BY <1>2, <1>4 DEF PipeOK, r

-----------------------------------------------------------------------------
(* What travels to a client that is served: the lines in its socket, the   *)
(* message the writer holds for it, the queue.                             *)
HeldFor(c) ==
  \/ writer.pc = "target" /\ currentWriter = c
  \/ writer.pc \in {"check", "report", "write"} /\ writer.to = c

Held(c) == IF HeldFor(c) THEN <<writer.message>> ELSE <<>>
Pipe(c) == (wire[c] \o Held(c)) \o queue

Served(c) == client[c] = "connected" /\ serving = c /\ handler = "reading"

(* A message tells the history as it was: h is the registry after each     *)
(* event up to q.                                                          *)
Sound(m, h, q) ==
  /\ IsSnapshot(m) => m.at <= q /\ m.windows = h[m.at + 1]
  /\ IsEvent(m) => m.seq <= q /\ h[m.seq + 1] = Tracked(h[m.seq], m)

AllSound(s, h, q) == \A i \in 1..Len(s) : Sound(s[i], h, q)

(* EventBridge.windowIds gives a number to one window at a time.           *)
RegistryInv ==
  /\ \A w \in Window : windowIds[w] < nextWindowId
  /\ \A v, w \in Window : windowIds[v] = windowIds[w] /\ windowIds[v] # 0 => v = w
  /\ history[seq + 1] = registered

MessagesInv ==
  /\ AllSound(queue, history, seq)
  /\ writer.pc # "take" => Sound(writer.message, history, seq)
  /\ \A c \in Client : AllSound(wire[c], history, seq)

SeenInv == \A c \in Client : seen[c] <= seq

(* One client is served at a time; the writer writes to it, or to one that *)
(* has gone.                                                               *)
ServingInv ==
  /\ \A i \in 1..Len(backlog) : client[backlog[i]] # "new"
  /\ serving # None => client[serving] # "new"
  /\ currentWriter = IF handler \in {"attaching", "reading"} THEN serving ELSE None
  /\ writer.to # None =>
       \/ writer.to = serving /\ handler \in {"attaching", "reading"}
       \/ client[writer.to] = "closed"

(* A client waits until attachClient has queued its snapshot; before that  *)
(* there is none of its own anywhere.                                      *)
waiting ==
  {c \in Client : \/ client[c] = "new"
                  \/ \E i \in 1..Len(backlog) : backlog[i] = c
                  \/ serving = c /\ handler \in {"greeted", "attaching"}}

Fresh(m, W)    == IsSnapshot(m) => m.of \notin W
AllFresh(s, W) == \A i \in 1..Len(s) : Fresh(s[i], W)

BacklogInv ==
  /\ \A i, j \in 1..Len(backlog) : backlog[i] = backlog[j] => i = j
  /\ \A i \in 1..Len(backlog) : backlog[i] # serving
  /\ \A c \in Client : client[c] \in {"connected", "failed"} =>
       c \in waiting \/ (serving = c /\ handler = "reading")

FreshInv ==
  /\ AllFresh(queue, waiting)
  /\ writer.pc # "take" => Fresh(writer.message, waiting)
  /\ \A c \in Client : AllFresh(wire[c], waiting)
  /\ seeded \cap waiting = {}

WaitingInv == BacklogInv /\ FreshInv

PipeInv ==
  \A c \in Client : Served(c) => PipeOK(Pipe(c), c, seen[c], c \in seeded, lost, seq)

MirrorInv ==
  \A c \in Client :
     Served(c) /\ c \in seeded /\ (Replaced(c) => lost = {}) => windows[c] = history[seen[c] + 1]

(* A dropped event that is not reported yet will be: before any message    *)
(* newer than it can be read, an overflow line is in the socket, or the    *)
(* writer is about to write one, or will find the flag set.                *)
Reported(c) == \E j \in 1..Len(wire[c]) : wire[c][j] = Overflow

Reporting(c, n) ==
  /\ n <= seq
  /\ seen[c] < n
  /\ \A i \in 1..Len(wire[c]) : n <= At(wire[c][i]) =>
       \E j \in 1..Len(wire[c]) : j < i /\ wire[c][j] = Overflow
  /\ writer.pc # "take" /\ n <= At(writer.message) =>
       \/ Reported(c) \/ writer.pc = "report"
       \/ writer.pc \in {"target", "check"} /\ overflowed
  /\ \A i \in 1..Len(queue) : n <= At(queue[i]) =>
       Reported(c) \/ writer.pc = "report" \/ overflowed

Alone(c) == client[c] \in {"new", "connected"} /\ ~Replaced(c)

LostFor(c) ==
  /\ lost # {} /\ edt = "free" => Reported(c) \/ writer.pc = "report" \/ overflowed
  /\ \A n \in lost : Reporting(c, n)

LostInv == \A c \in Client : Alone(c) => LostFor(c)

DeliveryInv == RegistryInv /\ MessagesInv /\ SeenInv /\ ServingInv /\ WaitingInv
StreamInv   == EventInv /\ DeliveryInv /\ PipeInv /\ MirrorInv /\ LostInv

-----------------------------------------------------------------------------
(* What the queue and the sockets hold are messages.                       *)
LEMMA QueuedSeq ==
  ASSUME NEW s \in Seq(Queued)
  PROVE  s \in Seq(Message) /\ Len(s) \in Nat /\ \A i \in 1..Len(s) : s[i] \in Message
<1>1. Queued \subseteq Message
  BY DEF Message
<1>2. s \in Seq(Message)
  BY <1>1, SeqMonotonic
<1> QED
  BY <1>2, ElementOfSeq

LEMMA WireSeq ==
  ASSUME TypeOK, NEW c \in Client
  PROVE  wire[c] \in Seq(Message) /\ Len(wire[c]) \in Nat /\ \A i \in 1..Len(wire[c]) : wire[c][i] \in Message
<1>1. wire[c] \in Seq(Message)
  BY DEF TypeOK
<1> QED
  BY <1>1, ElementOfSeq

(* A line is added to one socket, or to none.                              *)
LEMMA WriteEffect ==
  ASSUME TypeOK, NEW c \in Client, NEW m, Write(c, m)
  PROVE  \A d \in Client :
           /\ d # c \/ client[d] = "closed" => wire'[d] = wire[d]
           /\ d = c /\ client[d] # "closed" => wire'[d] = Append(wire[d], m)
BY DEF TypeOK, Write

(* What was sound stays so when another event happens.                     *)
LEMMA SoundGrows ==
  ASSUME NEW h \in Seq(SUBSET Id), NEW q \in Nat, Len(h) = q + 1, NEW x \in SUBSET Id,
         NEW m \in Message, Sound(m, h, q)
  PROVE  Sound(m, Append(h, x), q + 1)
<1>1. \A i \in 1..(q + 1) : Append(h, x)[i] = h[i]
  BY AppendProperties
<1>2. IsSnapshot(m) => m.at + 1 \in 1..(q + 1) /\ m.at <= q + 1
  BY MessageFacts DEF Sound
<1>3. IsEvent(m) => m.seq \in 1..(q + 1) /\ m.seq + 1 \in 1..(q + 1)
  BY MessageFacts DEF Sound
<1>4. IsSnapshot(m) => m.at <= q + 1 /\ m.windows = Append(h, x)[m.at + 1]
  BY <1>1, <1>2 DEF Sound
<1>5. IsEvent(m) => Append(h, x)[m.seq + 1] = Tracked(Append(h, x)[m.seq], m)
  BY <1>1, <1>3 DEF Sound
<1>6. IsEvent(m) => m.seq <= q + 1
  BY <1>3
<1> QED
  BY <1>4, <1>5, <1>6 DEF Sound

LEMMA AllSoundGrows ==
  ASSUME NEW h \in Seq(SUBSET Id), NEW q \in Nat, Len(h) = q + 1, NEW x \in SUBSET Id,
         NEW s \in Seq(Message), AllSound(s, h, q)
  PROVE  AllSound(s, Append(h, x), q + 1)
BY SoundGrows, ElementOfSeq DEF AllSound

(* Sound messages, with one more or one less.                              *)
LEMMA AllSoundAppend ==
  ASSUME NEW h, NEW q, NEW s \in Seq(Message), AllSound(s, h, q),
         NEW m \in Message, Sound(m, h, q)
  PROVE  AllSound(Append(s, m), h, q)
<1>1. /\ Len(Append(s, m)) = Len(s) + 1 /\ Len(s) \in Nat
      /\ \A i \in 1..Len(s) : Append(s, m)[i] = s[i]
      /\ Append(s, m)[Len(s) + 1] = m
  BY AppendProperties
<1>2. \A i \in 1..(Len(s) + 1) : i \in 1..Len(s) \/ i = Len(s) + 1
  BY <1>1
<1> QED
  BY <1>1, <1>2 DEF AllSound

LEMMA AllSoundTail ==
  ASSUME NEW h, NEW q, NEW s \in Seq(Message), s # <<>>, AllSound(s, h, q)
  PROVE  AllSound(Tail(s), h, q) /\ Sound(Head(s), h, q)
<1>1. /\ Len(Tail(s)) = Len(s) - 1 /\ Len(s) \in Nat /\ Len(s) >= 1 /\ Head(s) = s[1]
      /\ \A i \in 1..Len(Tail(s)) : Tail(s)[i] = s[i + 1]
  BY HeadTailProperties
<1>2. 1 \in 1..Len(s) /\ \A i \in 1..Len(Tail(s)) : i + 1 \in 1..Len(s)
  BY <1>1
<1> QED
  BY <1>1, <1>2 DEF AllSound

(* A greeting and an overflow line say nothing of the registry.            *)
LEMMA NoData ==
  ASSUME NEW h, NEW q, NEW m \in {Hello, Overflow}
  PROVE  m \in Message /\ ~Data(m) /\ At(m) = 0 /\ Sound(m, h, q)
BY DEF Message, Hello, Overflow, Data, IsEvent, IsSnapshot, At, Sound

-----------------------------------------------------------------------------
(* What an event of the EDT does to the registry, its history, the queue. *)
EdtStep(e) ==
  /\ e \in Queued /\ IsEvent(e) /\ At(e) = seq + 1
  /\ seq' = seq + 1
  /\ \E x \in SUBSET Id : history' = Append(history, x) /\ x = Tracked(registered, e) /\ x = registered'
  /\ \/ queue' = Append(queue, e) /\ lost' = lost /\ edt' = "free"
     \/ queue' = queue /\ lost' = lost \cup {seq + 1} /\ edt' = "refused"
  /\ edt = "free"
  /\ UNCHANGED <<overflowed, currentWriter, backlog, serving, handler, writer, client, windows,
                 seen, seeded, wire>>

(* Both handlers of onAwtEvent take that step, and keep the ids apart.     *)
LEMMA EdtSteps ==
  ASSUME EventInv, RegistryInv, Edt
  PROVE  /\ \E e : EdtStep(e)
         /\ RegistryInv'
<1> USE DEF accepts, python
<1>0. seq \in Nat /\ Len(history) = seq + 1 /\ history \in Seq(SUBSET Id)
  BY DEF EventInv, TypeOK
<1>1. PICK w \in Window : WindowOpened(w) \/ WindowClosed(w)
  BY DEF Edt
<1>2. CASE WindowOpened(w)
  <2> DEFINE e == Event("window_opened", nextWindowId, seq + 1)
             x == registered \cup {nextWindowId}
  <2>1. nextWindowId \in Id /\ nextWindowId # 0 /\ nextWindowId \in Nat /\ seq + 1 \in 1..MaxEvents
    BY <1>2, CapacityAssumption DEF EventInv, TypeOK, IdsLeft, WindowOpened, Id
  <2>2. e \in Queued /\ IsEvent(e) /\ At(e) = seq + 1
    BY <2>1 DEF Event, Queued, IsEvent, At
  <2>3. x \in SUBSET Id /\ x = Tracked(registered, e)
    BY <2>1 DEF registered, EventInv, TypeOK, Tracked, Event
  <2>4. windowIds' = [windowIds EXCEPT ![w] = nextWindowId] /\ windowIds[w] = 0
        /\ nextWindowId' = nextWindowId + 1
    BY <1>2 DEF WindowOpened
  <2>5. /\ \A v \in Window : windowIds[v] < nextWindowId /\ windowIds[v] \in Nat
        /\ windowIds'[w] = nextWindowId
        /\ \A v \in Window : v # w => windowIds'[v] = windowIds[v]
    BY <2>4 DEF RegistryInv, EventInv, TypeOK, Id
  <2>6. x = registered'
    <3>1. registered' = {windowIds'[v] : v \in Window} \ {0}
      BY DEF registered
    <3> QED
      BY <2>1, <2>4, <2>5, <3>1 DEF registered
  <2>7. history' = Append(history, x) /\ seq' = seq + 1
    BY <1>2 DEF WindowOpened, EnqueueEvent
  <2>8. \/ queue' = Append(queue, e) /\ lost' = lost /\ edt' = "free"
        \/ queue' = queue /\ lost' = lost \cup {seq + 1} /\ edt' = "refused"
    BY <1>2 DEF WindowOpened, EnqueueEvent, LockFree
  <2>9. EdtStep(e)
    BY <1>2, <2>2, <2>3, <2>6, <2>7, <2>8 DEF EdtStep, WindowOpened, LockFree
  <2>10. \A v \in Window : windowIds'[v] < nextWindowId'
    BY <2>1, <2>4, <2>5
  <2>11. \A v, u \in Window : windowIds'[v] = windowIds'[u] /\ windowIds'[v] # 0 => v = u
    BY <2>1, <2>5 DEF RegistryInv
  <2>12. history'[seq' + 1] = registered'
    BY <1>0, <2>3, <2>6, <2>7, AppendProperties
  <2> QED
    BY <2>9, <2>10, <2>11, <2>12 DEF RegistryInv
<1>3. CASE WindowClosed(w)
  <2> DEFINE e == Event("window_closed", windowIds[w], seq + 1)
             x == registered \ {windowIds[w]}
  <2>1. windowIds[w] \in Id \cup {0} /\ seq + 1 \in 1..MaxEvents /\ nextWindowId \in Nat /\ nextWindowId > 0
    BY <1>3, CapacityAssumption DEF EventInv, TypeOK, WindowClosed
  <2>2. e \in Queued /\ IsEvent(e) /\ At(e) = seq + 1
    BY <2>1 DEF Event, Queued, IsEvent, At
  <2>3. x \in SUBSET Id /\ x = Tracked(registered, e)
    BY <2>1 DEF registered, EventInv, TypeOK, Tracked, Event
  <2>4. windowIds' = [windowIds EXCEPT ![w] = 0] /\ nextWindowId' = nextWindowId
    BY <1>3 DEF WindowClosed
  <2>5. /\ windowIds'[w] = 0
        /\ \A v \in Window : v # w => windowIds'[v] = windowIds[v]
    BY <2>4 DEF EventInv, TypeOK
  <2>6. x = registered'
    <3>1. registered' = {windowIds'[v] : v \in Window} \ {0}
      BY DEF registered
    <3>2. ASSUME NEW v \in Window, windowIds[v] # 0, windowIds[v] # windowIds[w]
          PROVE  windowIds[v] \in registered'
      BY <2>5, <3>1, <3>2
    <3>3. ASSUME NEW v \in Window, windowIds'[v] # 0
          PROVE  windowIds'[v] \in x
      <4>1. v # w
        BY <2>5, <3>3
      <4>2. windowIds[v] # windowIds[w] /\ windowIds'[v] = windowIds[v]
        BY <2>5, <3>3, <4>1 DEF RegistryInv
      <4> QED
        BY <3>3, <4>2 DEF registered
    <3>4. x \subseteq registered'
      BY <3>2 DEF registered
    <3>5. registered' \subseteq x
      BY <3>1, <3>3
    <3> QED
      BY <3>4, <3>5
  <2>7. history' = Append(history, x) /\ seq' = seq + 1
    BY <1>3 DEF WindowClosed, EnqueueEvent
  <2>8. \/ queue' = Append(queue, e) /\ lost' = lost /\ edt' = "free"
        \/ queue' = queue /\ lost' = lost \cup {seq + 1} /\ edt' = "refused"
    BY <1>3 DEF WindowClosed, EnqueueEvent, LockFree
  <2>9. EdtStep(e)
    BY <1>3, <2>2, <2>3, <2>6, <2>7, <2>8 DEF EdtStep, WindowClosed, LockFree
  <2>10. \A v \in Window : windowIds'[v] < nextWindowId'
    BY <2>1, <2>4, <2>5 DEF RegistryInv
  <2>11. \A v, u \in Window : windowIds'[v] = windowIds'[u] /\ windowIds'[v] # 0 => v = u
    BY <2>5 DEF RegistryInv
  <2>12. history'[seq' + 1] = registered'
    BY <1>0, <2>3, <2>6, <2>7, AppendProperties
  <2> QED
    BY <2>9, <2>10, <2>11, <2>12 DEF RegistryInv
<1> QED
  BY <1>1, <1>2, <1>3

-----------------------------------------------------------------------------
(* Only sound messages are written.                                        *)
LEMMA WrittenSound ==
  ASSUME EventInv, MessagesInv, NEW c \in Client, NEW m \in Message, Sound(m, history, seq), Write(c, m)
  PROVE  \A d \in Client : AllSound(wire'[d], history, seq)
<1> SUFFICES ASSUME NEW d \in Client PROVE AllSound(wire'[d], history, seq)
  OBVIOUS
<1>1. AllSound(wire[d], history, seq) /\ wire[d] \in Seq(Message)
  BY WireSeq DEF MessagesInv, EventInv
<1>2. AllSound(Append(wire[d], m), history, seq)
  BY <1>1, AllSoundAppend
<1> QED
  BY <1>1, <1>2, WriteEffect DEF EventInv

(* Every message in flight stays true to the history.                      *)
LEMMA MessagesStep ==
  ASSUME EventInv, RegistryInv, MessagesInv, [Next]_vars
  PROVE  MessagesInv'
<1> USE DEF EventInv, registry, stream, accepts, python
<1>1. CASE Edt
  <2>1. PICK e : EdtStep(e)
    BY <1>1, EdtSteps
  <2>2. PICK x \in SUBSET Id : history' = Append(history, x) /\ x = Tracked(registered, e)
    BY <2>1 DEF EdtStep
  <2>3. /\ seq \in Nat /\ Len(history) = seq + 1 /\ history \in Seq(SUBSET Id) /\ seq' = seq + 1
        /\ queue \in Seq(Message)
    BY <2>1, QueuedSeq DEF TypeOK, EdtStep
  <2>4. AllSound(queue, history', seq')
    BY <2>2, <2>3, AllSoundGrows DEF MessagesInv
  <2>5. e \in Message /\ IsEvent(e) /\ ~IsSnapshot(e) /\ e.seq = seq + 1
    <3>1. e \in Message
      BY <2>1 DEF EdtStep, Message
    <3> QED
      BY <2>1, <3>1, MessageFacts DEF EdtStep
  <2>6. history'[seq + 1] = registered /\ history'[seq + 2] = x
    <3>1. /\ \A i \in 1..(seq + 1) : history'[i] = history[i]
          /\ history'[(seq + 1) + 1] = x
      BY <2>2, <2>3, AppendProperties
    <3>2. seq + 1 \in 1..(seq + 1) /\ (seq + 1) + 1 = seq + 2
      BY <2>3
    <3> QED
      BY <3>1, <3>2 DEF RegistryInv
  <2>7. Sound(e, history', seq')
    BY <2>2, <2>3, <2>5, <2>6 DEF Sound
  <2>8. AllSound(queue', history', seq')
    BY <2>1, <2>3, <2>4, <2>5, <2>7, AllSoundAppend DEF EdtStep
  <2>9. writer'.pc # "take" => Sound(writer'.message, history', seq')
    <3> SUFFICES ASSUME writer.pc # "take" PROVE Sound(writer.message, history', seq')
      BY <2>1 DEF EdtStep
    <3>1. writer.message \in Message
      BY DEF TypeOK, Message
    <3> QED
      BY <2>2, <2>3, <3>1, SoundGrows DEF MessagesInv
  <2>10. ASSUME NEW c \in Client PROVE AllSound(wire'[c], history', seq')
    <3>1. wire[c] \in Seq(Message) /\ wire' = wire
      BY <2>1, WireSeq DEF EdtStep
    <3> QED
      BY <2>2, <2>3, <3>1, AllSoundGrows DEF MessagesInv
  <2> QED
    BY <2>8, <2>9, <2>10 DEF MessagesInv
<1>2. CASE Accept
  <2>1. Head(backlog) \in Client
    BY <1>2, TailType DEF TypeOK, Accept
  <2>2. \A d \in Client : AllSound(wire'[d], history, seq)
    BY <1>2, <2>1, NoData, WrittenSound DEF Accept
  <2> QED
    BY <1>2, <2>2 DEF MessagesInv, Accept
<1>3. CASE AttachClient
  <2> DEFINE m == Snapshot(registered, seq, serving)
  <2>1. Sound(m, history, seq)
    BY DEF TypeOK, RegistryInv, Sound, Snapshot, IsEvent
  <2>2. AllSound(<<m>>, history, seq)
    BY <2>1 DEF AllSound
  <2> QED
    BY <1>3, <2>2 DEF MessagesInv, AttachClient
<1>4. CASE WriterTakes
  <2>1. queue \in Seq(Message) /\ queue # <<>>
    BY <1>4, QueuedSeq DEF TypeOK, WriterTakes
  <2>2. AllSound(Tail(queue), history, seq) /\ Sound(Head(queue), history, seq)
    BY <2>1, AllSoundTail DEF MessagesInv
  <2> QED
    BY <1>4, <2>2 DEF MessagesInv, WriterTakes, Idle
<1>5. CASE WriterTargets
  BY <1>5 DEF MessagesInv, WriterTargets, WriterInv, Idle
<1>6. CASE WriterChecks
  BY <1>6 DEF MessagesInv, WriterChecks, WriterInv
<1>7. CASE WriterReports
  <2>1. writer.to \in Client
    BY <1>7 DEF WriterInv, WriterReports
  <2>2. \A d \in Client : AllSound(wire'[d], history, seq)
    BY <1>7, <2>1, NoData, WrittenSound DEF WriterReports
  <2>3. writer'.message = writer.message /\ writer.pc # "take"
    BY <1>7 DEF WriterInv, WriterReports
  <2> QED
    BY <1>7, <2>2, <2>3 DEF MessagesInv, WriterReports
<1>8. CASE WriterWrites
  <2>1. writer.to \in Client /\ writer.message \in Message /\ Sound(writer.message, history, seq)
    BY <1>8 DEF WriterInv, WriterWrites, TypeOK, Message, MessagesInv
  <2>2. \A d \in Client : AllSound(wire'[d], history, seq)
    BY <1>8, <2>1, WrittenSound DEF WriterWrites
  <2> QED
    BY <1>8, <2>2 DEF MessagesInv, WriterWrites, Idle
<1>9. ASSUME NEW c \in Client, Read(c)
      PROVE  MessagesInv'
  <2>1. wire[c] \in Seq(Message) /\ wire[c] # <<>> /\ wire' = [wire EXCEPT ![c] = Tail(@)]
    BY <1>9, WireSeq DEF Read
  <2>2. AllSound(Tail(wire[c]), history, seq)
    BY <2>1, AllSoundTail DEF MessagesInv
  <2> QED
    BY <1>9, <2>1, <2>2 DEF MessagesInv, Read, TypeOK
<1>10. ASSUME NEW c \in Client, Close(c)
       PROVE  MessagesInv'
  <2>1. AllSound(<<>>, history, seq)
    BY DEF AllSound
  <2> QED
    BY <1>10, <2>1 DEF MessagesInv, Close, TypeOK
<1>11. CASE SetOverflowed \/ TakesOver \/ Detach \/ (\E c \in Client : Connect(c)) \/ UNCHANGED vars
  BY <1>11 DEF MessagesInv, SetOverflowed, TakesOver, Detach, Connect, vars
<1> QED
  BY <1>1, <1>2, <1>3, <1>4, <1>5, <1>6, <1>7, <1>8, <1>9, <1>10, <1>11
  DEF Next, AcceptThread, Writer

(* No mirror is ahead of the registry.                                     *)
LEMMA SeenStep ==
  ASSUME EventInv, RegistryInv, MessagesInv, SeenInv, [Next]_vars
  PROVE  SeenInv'
<1> USE DEF EventInv, registry, stream, accepts, python
<1>1. CASE Edt
  <2>1. seq' = seq + 1 /\ seen' = seen
    BY <1>1, EdtSteps DEF EdtStep
  <2>2. seq \in Nat /\ \A c \in Client : seen[c] \in Nat
    BY DEF TypeOK
  <2> QED
    BY <2>1, <2>2 DEF SeenInv
<1>2. ASSUME NEW c \in Client, Read(c)
      PROVE  SeenInv'
  <2> DEFINE m == Head(wire[c])
  <2>1. wire[c] \in Seq(Message) /\ wire[c] # <<>>
    BY <1>2, WireSeq DEF Read
  <2>2. m \in Message /\ Sound(m, history, seq)
    BY <2>1, AllSoundTail, HeadTailProperties DEF MessagesInv
  <2>3. \/ seen' = seen
        \/ IsSnapshot(m) /\ seen' = [seen EXCEPT ![c] = m.at]
        \/ IsEvent(m) /\ seen' = [seen EXCEPT ![c] = m.seq]
    BY <1>2 DEF Read, IsSnapshot, IsEvent
  <2>4. seq' = seq
    BY <1>2 DEF Read
  <2> QED
    BY <2>2, <2>3, <2>4 DEF SeenInv, Sound, TypeOK
<1>3. CASE SetOverflowed \/ AcceptThread \/ Writer \/ (\E c \in Client : Connect(c) \/ Close(c)) \/ UNCHANGED vars
  BY <1>3 DEF SeenInv, SetOverflowed, AcceptThread, Accept, TakesOver, AttachClient, Detach, Writer, WriterTakes,
              WriterTargets, WriterChecks, WriterReports, WriterWrites, Connect, Close, vars
<1> QED
  BY <1>1, <1>2, <1>3 DEF Next

(* The accept thread serves one client, and the writer no other that lives. *)
LEMMA ServingStep ==
  ASSUME EventInv, RegistryInv, ServingInv, [Next]_vars
  PROVE  ServingInv'
<1> USE DEF EventInv, registry, stream, accepts, python
<1>1. CASE Edt
  BY <1>1, EdtSteps DEF ServingInv, EdtStep
<1>2. CASE Accept
  <2>1. /\ Head(backlog) \in Client /\ Tail(backlog) \in Seq(Client) /\ Head(backlog) = backlog[1]
        /\ Len(Tail(backlog)) = Len(backlog) - 1 /\ Len(backlog) \in Nat /\ 1 \in 1..Len(backlog)
        /\ \A i \in 1..Len(Tail(backlog)) : Tail(backlog)[i] = backlog[i + 1]
    BY <1>2, HeadTailProperties DEF TypeOK, Accept
  <2>2. \A i \in 1..Len(backlog') : client'[backlog'[i]] # "new"
    BY <1>2, <2>1 DEF ServingInv, Accept
  <2>3. client'[serving'] # "new"
    BY <1>2, <2>1 DEF ServingInv, Accept
  <2>4. writer' = writer /\ currentWriter' = currentWriter /\ handler' = "greeted" /\ handler = "accept" /\ client' = client
    BY <1>2 DEF Accept
  <2> QED
    BY <2>2, <2>3, <2>4 DEF ServingInv
<1>3. CASE TakesOver \/ AttachClient
  BY <1>3 DEF ServingInv, TakesOver, AttachClient
<1>4. CASE Detach
  BY <1>4 DEF ServingInv, Detach
<1>5. CASE WriterTakes
  BY <1>5 DEF ServingInv, WriterTakes, Idle
<1>6. CASE WriterTargets
  <2>1. writer'.to = None \/ (writer'.to = currentWriter /\ currentWriter # None)
    BY <1>6 DEF WriterTargets, WriterInv, Idle
  <2> QED
    BY <1>6, <2>1 DEF ServingInv, WriterTargets
<1>7. CASE WriterChecks
  BY <1>7 DEF ServingInv, WriterChecks, WriterInv
<1>8. CASE WriterReports
  BY <1>8 DEF ServingInv, WriterReports, WriterInv
<1>9. CASE WriterWrites
  BY <1>9 DEF ServingInv, WriterWrites, Idle
<1>10. ASSUME NEW c \in Client, Connect(c)
       PROVE  ServingInv'
  <2>1. /\ backlog' = Append(backlog, c) /\ backlog \in Seq(Client)
        /\ client' = [client EXCEPT ![c] = "connected"] /\ client[c] = "new"
        /\ UNCHANGED <<serving, handler, writer, currentWriter>>
    BY <1>10 DEF Connect, TypeOK
  <2>2. /\ Len(backlog') = Len(backlog) + 1 /\ Len(backlog) \in Nat
        /\ \A i \in 1..Len(backlog) : backlog'[i] = backlog[i] /\ backlog[i] \in Client
        /\ backlog'[Len(backlog) + 1] = c
    BY <2>1, AppendProperties, ElementOfSeq
  <2>3. \A d \in Client : client'[d] = IF d = c THEN "connected" ELSE client[d]
    BY <2>1 DEF TypeOK
  <2>4. \A i \in 1..Len(backlog') : client'[backlog'[i]] # "new"
    <3>1. \A i \in 1..Len(backlog') : i \in 1..Len(backlog) \/ i = Len(backlog) + 1
      BY <2>2
    <3> QED
      BY <2>2, <2>3, <3>1 DEF ServingInv
  <2>5. serving' # None => client'[serving'] # "new"
    BY <2>1, <2>3 DEF ServingInv, TypeOK
  <2>6. writer'.to # None => \/ writer'.to = serving' /\ handler' \in {"attaching", "reading"}
                             \/ client'[writer'.to] = "closed"
    BY <2>1, <2>3 DEF ServingInv, TypeOK
  <2> QED
    BY <2>1, <2>4, <2>5, <2>6 DEF ServingInv
<1>11. ASSUME NEW c \in Client, Read(c) \/ Close(c)
       PROVE  ServingInv'
  <2>1. UNCHANGED <<backlog, serving, handler, writer, currentWriter>>
    BY <1>11 DEF Read, Close
  <2>2. \A d \in Client : /\ client[d] # "new" => client'[d] # "new"
                          /\ client[d] = "closed" => client'[d] = "closed"
    BY <1>11 DEF Read, Close, TypeOK
  <2>3. \A i \in 1..Len(backlog) : backlog[i] \in Client
    BY ElementOfSeq DEF TypeOK
  <2> QED
    BY <2>1, <2>2, <2>3 DEF ServingInv, TypeOK
<1>12. CASE SetOverflowed \/ UNCHANGED vars
  BY <1>12 DEF ServingInv, SetOverflowed, vars
<1> QED
  BY <1>1, <1>2, <1>3, <1>4, <1>5, <1>6, <1>7, <1>8, <1>9, <1>10, <1>11, <1>12
  DEF Next, AcceptThread, Writer

(* Who waits no longer will not wait again: a client connects once.        *)
LEMMA WaitingOnce ==
  ASSUME EventInv, RegistryInv, ServingInv, [Next]_vars, NEW c \in Client, c \in waiting'
  PROVE  c \in waiting
<1> USE DEF EventInv, registry, stream, accepts, python
<1>1. CASE Edt
  BY <1>1, EdtSteps DEF waiting, EdtStep
<1>2. CASE Accept
  <2>1. /\ Head(backlog) = backlog[1] /\ Len(Tail(backlog)) = Len(backlog) - 1 /\ Len(backlog) \in Nat
        /\ 1 \in 1..Len(backlog)
        /\ \A i \in 1..Len(Tail(backlog)) : Tail(backlog)[i] = backlog[i + 1]
    BY <1>2, HeadTailProperties DEF TypeOK, Accept
  <2>2. \A i \in 1..Len(Tail(backlog)) : i + 1 \in 1..Len(backlog)
    BY <2>1
  <2>3. backlog' = Tail(backlog) /\ serving' = Head(backlog) /\ client' = client
    BY <1>2 DEF Accept
  <2> QED
    BY <2>1, <2>2, <2>3 DEF waiting
<1>3. CASE TakesOver \/ AttachClient \/ Detach
  BY <1>3 DEF waiting, TakesOver, AttachClient, Detach
<1>4. ASSUME NEW d \in Client, Connect(d)
      PROVE  c \in waiting
  <2>1. /\ backlog' = Append(backlog, d) /\ backlog \in Seq(Client) /\ client[d] = "new"
        /\ \A b \in Client : client'[b] = IF b = d THEN "connected" ELSE client[b]
        /\ UNCHANGED <<serving, handler>>
    BY <1>4 DEF Connect, TypeOK
  <2>2. /\ Len(backlog') = Len(backlog) + 1 /\ Len(backlog) \in Nat
        /\ \A i \in 1..Len(backlog) : backlog'[i] = backlog[i]
        /\ backlog'[Len(backlog) + 1] = d
    BY <2>1, AppendProperties
  <2>3. \A i \in 1..Len(backlog') : i \in 1..Len(backlog) \/ i = Len(backlog) + 1
    BY <2>2
  <2> QED
    BY <2>1, <2>2, <2>3 DEF waiting
<1>5. CASE SetOverflowed \/ Writer \/ UNCHANGED vars
  BY <1>5 DEF waiting, SetOverflowed, Writer, WriterTakes, WriterTargets, WriterChecks, WriterReports,
              WriterWrites, vars
<1>6. ASSUME NEW d \in Client, Read(d) \/ Close(d)
      PROVE  c \in waiting
  <2>1. UNCHANGED <<backlog, serving, handler>> /\ (client[c] # "new" => client'[c] # "new")
    BY <1>6 DEF Read, Close, TypeOK
  <2> QED
    BY <2>1 DEF waiting
<1> QED
  BY <1>1, <1>2, <1>3, <1>4, <1>5, <1>6 DEF Next, AcceptThread

(* A connection is in the backlog, with the handler, or served.            *)
LEMMA BacklogStep ==
  ASSUME EventInv, RegistryInv, ServingInv, BacklogInv, [Next]_vars
  PROVE  BacklogInv'
<1> USE DEF EventInv, registry, stream, accepts, python
<1>1. CASE Edt
  BY <1>1, EdtSteps DEF BacklogInv, waiting, EdtStep
<1>2. CASE Accept
  <2>1. /\ Head(backlog) = backlog[1] /\ Len(Tail(backlog)) = Len(backlog) - 1 /\ Len(backlog) \in Nat
        /\ 1 \in 1..Len(backlog)
        /\ \A i \in 1..Len(Tail(backlog)) : Tail(backlog)[i] = backlog[i + 1]
    BY <1>2, HeadTailProperties DEF TypeOK, Accept
  <2>2. \A i \in 1..Len(Tail(backlog)) : i + 1 \in 1..Len(backlog) /\ i + 1 # 1
    BY <2>1
  <2>3. /\ backlog' = Tail(backlog) /\ serving' = Head(backlog) /\ client' = client
        /\ handler = "accept" /\ handler' = "greeted"
    BY <1>2 DEF Accept
  <2>4. ASSUME NEW i \in 1..Len(backlog'), NEW j \in 1..Len(backlog'), backlog'[i] = backlog'[j]
        PROVE  i = j
    <3>1. i + 1 = j + 1
      BY <2>1, <2>2, <2>3, <2>4 DEF BacklogInv
    <3> QED
      BY <2>1, <2>3, <3>1
  <2>5. \A i \in 1..Len(backlog') : backlog'[i] # serving'
    BY <2>1, <2>2, <2>3 DEF BacklogInv
  <2>6. ASSUME NEW c \in Client, client'[c] \in {"connected", "failed"}
        PROVE  c \in waiting'
    <3>1. PICK i \in 1..Len(backlog) : backlog[i] = c
      BY <2>3, <2>6 DEF BacklogInv, waiting
    <3>2. CASE i = 1
      BY <2>1, <2>3, <3>1, <3>2 DEF waiting
    <3>3. CASE i # 1
      <4>1. i - 1 \in 1..Len(Tail(backlog)) /\ (i - 1) + 1 = i
        BY <2>1, <3>3
      <4> QED
        BY <2>1, <2>3, <3>1, <4>1 DEF waiting
    <3> QED
      BY <3>2, <3>3
  <2> QED
    BY <2>4, <2>5, <2>6 DEF BacklogInv
<1>3. CASE TakesOver \/ AttachClient
  BY <1>3 DEF BacklogInv, waiting, TakesOver, AttachClient
<1>4. CASE Detach
  BY <1>4 DEF BacklogInv, waiting, Detach
<1>5. ASSUME NEW d \in Client, Connect(d)
      PROVE  BacklogInv'
  <2>1. /\ backlog' = Append(backlog, d) /\ backlog \in Seq(Client) /\ client[d] = "new"
        /\ \A b \in Client : client'[b] = IF b = d THEN "connected" ELSE client[b]
        /\ UNCHANGED <<serving, handler>>
    BY <1>5 DEF Connect, TypeOK
  <2>2. /\ Len(backlog') = Len(backlog) + 1 /\ Len(backlog) \in Nat
        /\ \A i \in 1..Len(backlog) : backlog'[i] = backlog[i]
        /\ backlog'[Len(backlog) + 1] = d
    BY <2>1, AppendProperties
  <2>3. \A i \in 1..Len(backlog') : i \in 1..Len(backlog) \/ i = Len(backlog) + 1
    BY <2>2
  <2>4. d # serving /\ \A i \in 1..Len(backlog) : backlog[i] # d
    BY <2>1, NoneAssumption DEF ServingInv
  <2>5. \A i \in 1..Len(backlog) : i \in 1..Len(backlog')
    BY <2>2
  <2>6. Len(backlog) + 1 \in 1..Len(backlog')
    BY <2>2
  <2>7. \A i, j \in 1..Len(backlog') : backlog'[i] = backlog'[j] => i = j
    BY <2>2, <2>3, <2>4 DEF BacklogInv
  <2>8. \A i \in 1..Len(backlog') : backlog'[i] # serving'
    BY <2>1, <2>2, <2>3, <2>4 DEF BacklogInv
  <2>9. \A c \in Client : client'[c] \in {"connected", "failed"} =>
           c \in waiting' \/ (serving' = c /\ handler' = "reading")
    BY <2>1, <2>2, <2>5, <2>6 DEF BacklogInv, waiting
  <2> QED
    BY <2>7, <2>8, <2>9 DEF BacklogInv
<1>6. CASE SetOverflowed \/ Writer \/ UNCHANGED vars
  BY <1>6 DEF BacklogInv, waiting, SetOverflowed, Writer, WriterTakes, WriterTargets, WriterChecks,
              WriterReports, WriterWrites, vars
<1>7. ASSUME NEW d \in Client, Read(d) \/ Close(d)
      PROVE  BacklogInv'
  <2>1. /\ UNCHANGED <<backlog, serving, handler>>
        /\ \A c \in Client : client'[c] \in {"connected", "failed"} =>
              client[c] \in {"connected", "failed"}
        /\ \A c \in Client : client[c] = "new" => client'[c] = "new"
    BY <1>7 DEF Read, Close, TypeOK
  <2> QED
    BY <2>1 DEF BacklogInv, waiting
<1> QED
  BY <1>1, <1>2, <1>3, <1>4, <1>5, <1>6, <1>7 DEF Next, AcceptThread

(* Fresh lines, with one more or one less, for fewer clients that wait.    *)
LEMMA FreshParts ==
  ASSUME NEW W
  PROVE  /\ \A s \in Seq(Message), m \in Message :
              AllFresh(s, W) /\ Fresh(m, W) => AllFresh(Append(s, m), W)
         /\ \A s \in Seq(Message) :
              s # <<>> /\ AllFresh(s, W) => AllFresh(Tail(s), W) /\ Fresh(Head(s), W)
         /\ \A V, s : V \subseteq W /\ AllFresh(s, W) => AllFresh(s, V)
         /\ \A V, m : V \subseteq W /\ Fresh(m, W) => Fresh(m, V)
<1>1. ASSUME NEW s \in Seq(Message), NEW m \in Message, AllFresh(s, W), Fresh(m, W)
      PROVE  AllFresh(Append(s, m), W)
  <2>1. /\ Len(Append(s, m)) = Len(s) + 1 /\ Len(s) \in Nat
        /\ \A i \in 1..Len(s) : Append(s, m)[i] = s[i]
        /\ Append(s, m)[Len(s) + 1] = m
    BY AppendProperties
  <2>2. \A i \in 1..(Len(s) + 1) : i \in 1..Len(s) \/ i = Len(s) + 1
    BY <2>1
  <2> QED
    BY <1>1, <2>1, <2>2 DEF AllFresh
<1>2. ASSUME NEW s \in Seq(Message), s # <<>>, AllFresh(s, W)
      PROVE  AllFresh(Tail(s), W) /\ Fresh(Head(s), W)
  <2>1. /\ Len(Tail(s)) = Len(s) - 1 /\ Len(s) \in Nat /\ Len(s) >= 1 /\ Head(s) = s[1]
        /\ \A i \in 1..Len(Tail(s)) : Tail(s)[i] = s[i + 1]
    BY <1>2, HeadTailProperties
  <2>2. 1 \in 1..Len(s) /\ \A i \in 1..Len(Tail(s)) : i + 1 \in 1..Len(s)
    BY <2>1
  <2> QED
    BY <1>2, <2>1, <2>2 DEF AllFresh
<1> QED
  BY <1>1, <1>2 DEF AllFresh, Fresh

(* A client that waits has no snapshot of its own on its way.              *)
LEMMA FreshStep ==
  ASSUME EventInv, RegistryInv, ServingInv, BacklogInv, FreshInv, [Next]_vars
  PROVE  FreshInv'
<1> USE DEF EventInv, registry, stream, accepts, python
<1> DEFINE W == waiting
           V == waiting'
<1>0. /\ V \subseteq W
      /\ queue \in Seq(Message) /\ AllFresh(queue, W)
      /\ writer.pc # "take" => writer.message \in Message /\ Fresh(writer.message, W)
      /\ \A c \in Client : wire[c] \in Seq(Message) /\ AllFresh(wire[c], W)
      /\ seeded \subseteq Client /\ seeded \cap W = {}
  <2>1. V \subseteq Client
    BY DEF waiting
  <2>2. V \subseteq W
    BY <2>1, WaitingOnce
  <2>3. writer.pc # "take" => writer.message \in Message
    BY DEF TypeOK, Message
  <2>4. queue \in Seq(Message) /\ seeded \subseteq Client
    BY QueuedSeq DEF TypeOK
  <2>5. \A c \in Client : wire[c] \in Seq(Message)
    BY WireSeq
  <2> QED
    BY <2>2, <2>3, <2>4, <2>5 DEF FreshInv
<1> HIDE DEF V, W
<1>1. /\ \A s \in Seq(Message), m \in Message :
           AllFresh(s, V) /\ Fresh(m, V) => AllFresh(Append(s, m), V)
      /\ \A s \in Seq(Message) :
           s # <<>> /\ AllFresh(s, V) => AllFresh(Tail(s), V) /\ Fresh(Head(s), V)
  BY FreshParts
<1>2. /\ AllFresh(queue, V)
      /\ writer.pc # "take" => Fresh(writer.message, V)
      /\ \A c \in Client : AllFresh(wire[c], V)
      /\ seeded \cap V = {}
  BY <1>0, FreshParts
<1>3. ASSUME /\ AllFresh(queue', V)
             /\ writer'.pc # "take" => Fresh(writer'.message, V)
             /\ \A c \in Client : AllFresh(wire'[c], V)
             /\ seeded' \cap V = {}
      PROVE  FreshInv'
  BY <1>3 DEF FreshInv, V
<1>4. ASSUME NEW c \in Client, NEW m \in Message, Fresh(m, V), Write(c, m)
      PROVE  \A d \in Client : AllFresh(wire'[d], V)
  <2> SUFFICES ASSUME NEW d \in Client PROVE AllFresh(wire'[d], V)
    OBVIOUS
  <2>1. wire'[d] = wire[d] \/ wire'[d] = Append(wire[d], m)
    BY <1>4, WriteEffect
  <2>2. AllFresh(Append(wire[d], m), V)
    BY <1>0, <1>1, <1>2, <1>4
  <2> QED
    BY <1>2, <2>1, <2>2
<1>5. CASE Edt
  <2>1. PICK e : EdtStep(e)
    BY <1>5, EdtSteps
  <2>2. e \in Message /\ Fresh(e, V)
    BY <2>1, MessageFacts DEF EdtStep, Message, Fresh
  <2>3. queue' = queue \/ queue' = Append(queue, e)
    BY <2>1 DEF EdtStep
  <2>4. AllFresh(Append(queue, e), V)
    BY <1>0, <1>1, <1>2, <2>2
  <2>5. AllFresh(queue', V)
    BY <1>2, <2>3, <2>4
  <2>6. UNCHANGED <<writer, wire, seeded>>
    BY <2>1 DEF EdtStep
  <2> QED
    BY <1>2, <1>3, <2>5, <2>6
<1>6. CASE Accept
  <2>1. Head(backlog) \in Client /\ Write(Head(backlog), Hello) /\ UNCHANGED <<queue, writer, seeded>>
    BY <1>6, TailType DEF TypeOK, Accept
  <2>2. Hello \in Message /\ Fresh(Hello, V)
    BY NoData DEF Fresh, Data
  <2>3. \A d \in Client : AllFresh(wire'[d], V)
    BY <1>4, <2>1, <2>2
  <2> QED
    BY <1>2, <1>3, <2>1, <2>3
<1>7. CASE AttachClient
  <2>1. /\ handler = "attaching" /\ queue' = <<Snapshot(registered, seq, serving)>> /\ handler' = "reading"
        /\ UNCHANGED <<backlog, client, serving, writer, wire, seeded>>
    BY <1>7 DEF AttachClient
  <2>2. serving \in Client /\ client[serving] # "new"
    BY <2>1, NoneAssumption DEF HandlerInv, ServingInv
  <2>3. serving \notin V
    BY <2>1, <2>2 DEF V, waiting, BacklogInv
  <2>4. Fresh(Snapshot(registered, seq, serving), V)
    BY <2>3 DEF Fresh, Snapshot
  <2>5. AllFresh(queue', V)
    BY <2>1, <2>4 DEF AllFresh
  <2> QED
    BY <1>2, <1>3, <2>1, <2>5
<1>8. CASE WriterTakes
  <2>1. /\ queue # <<>> /\ queue' = Tail(queue) /\ writer'.message = Head(queue)
        /\ UNCHANGED <<wire, seeded>>
    BY <1>8 DEF WriterTakes, Idle
  <2>2. AllFresh(Tail(queue), V) /\ Fresh(Head(queue), V)
    BY <1>0, <1>1, <1>2, <2>1
  <2> QED
    BY <1>2, <1>3, <2>1, <2>2
<1>9. CASE WriterTargets \/ WriterChecks
  <2>1. /\ UNCHANGED <<queue, wire, seeded>> /\ writer.pc # "take"
        /\ writer'.pc = "take" \/ writer'.message = writer.message
    <3>1. CASE WriterTargets
      BY <3>1 DEF WriterTargets, WriterInv, Idle
    <3>2. CASE WriterChecks
      BY <3>2 DEF WriterChecks, WriterInv
    <3> QED
      BY <1>9, <3>1, <3>2
  <2> QED
    BY <1>2, <1>3, <2>1
<1>10. CASE WriterReports
  <2>1. /\ writer.to \in Client /\ Write(writer.to, Overflow) /\ UNCHANGED <<queue, seeded>>
        /\ writer.pc # "take" /\ writer'.message = writer.message
    BY <1>10 DEF WriterReports, WriterInv
  <2>2. Overflow \in Message /\ Fresh(Overflow, V)
    BY NoData DEF Fresh, Data
  <2>3. \A d \in Client : AllFresh(wire'[d], V)
    BY <1>4, <2>1, <2>2
  <2> QED
    BY <1>2, <1>3, <2>1, <2>3
<1>11. CASE WriterWrites
  <2>1. /\ writer.to \in Client /\ Write(writer.to, writer.message) /\ UNCHANGED <<queue, seeded>>
        /\ writer.pc # "take" /\ writer'.pc = "take"
    BY <1>11 DEF WriterWrites, WriterInv, Idle
  <2>2. \A d \in Client : AllFresh(wire'[d], V)
    BY <1>0, <1>2, <1>4, <2>1
  <2> QED
    BY <1>2, <1>3, <2>1, <2>2
<1>12. ASSUME NEW c \in Client, Read(c)
       PROVE  FreshInv'
  <2> DEFINE m == Head(wire[c])
  <2>1. /\ wire[c] # <<>> /\ wire' = [wire EXCEPT ![c] = Tail(@)] /\ UNCHANGED <<queue, writer>>
        /\ seeded' = seeded \/ (IsSnapshot(m) /\ m.of = c /\ seeded' = seeded \cup {c})
    BY <1>12 DEF Read, IsSnapshot
  <2>2. AllFresh(Tail(wire[c]), V) /\ Fresh(m, V)
    BY <1>0, <1>1, <1>2, <2>1
  <2>3. \A d \in Client : AllFresh(wire'[d], V)
    BY <1>2, <2>1, <2>2 DEF TypeOK
  <2>4. seeded' \cap V = {}
    BY <1>2, <2>1, <2>2 DEF Fresh
  <2> QED
    BY <1>2, <1>3, <2>1, <2>3, <2>4
<1>13. ASSUME NEW c \in Client, Close(c)
       PROVE  FreshInv'
  <2>1. wire' = [wire EXCEPT ![c] = <<>>] /\ UNCHANGED <<queue, writer, seeded>>
    BY <1>13 DEF Close
  <2>2. AllFresh(<<>>, V)
    BY DEF AllFresh
  <2>3. \A d \in Client : AllFresh(wire'[d], V)
    BY <1>2, <2>1, <2>2 DEF TypeOK
  <2> QED
    BY <1>2, <1>3, <2>1, <2>3
<1>14. CASE SetOverflowed \/ TakesOver \/ Detach \/ (\E c \in Client : Connect(c)) \/ UNCHANGED vars
  <2>1. UNCHANGED <<queue, writer, wire, seeded>>
    BY <1>14 DEF SetOverflowed, TakesOver, Detach, Connect, vars
  <2> QED
    BY <1>2, <1>3, <2>1
<1> QED
  BY <1>5, <1>6, <1>7, <1>8, <1>9, <1>10, <1>11, <1>12, <1>13, <1>14 DEF Next, AcceptThread, Writer

LEMMA WaitingStep ==
  ASSUME EventInv, RegistryInv, ServingInv, WaitingInv, [Next]_vars
  PROVE  WaitingInv'
BY BacklogStep, FreshStep DEF WaitingInv

-----------------------------------------------------------------------------
(* The two facts about parts of a pipe, for messages.                      *)
LEMMA MessageConcat ==
  \A s, t, u \in Seq(Message) : (s \o t) \o u = s \o (t \o u)
BY ConcatAssociative

LEMMA MessageAppend ==
  \A s, t \in Seq(Message), m \in Message : s \o Append(t, m) = Append(s \o t, m)
BY ConcatAppend

LEMMA MessageTail ==
  \A s, t \in Seq(Message) : s # <<>> =>
    s \o t # <<>> /\ Head(s \o t) = Head(s) /\ Tail(s \o t) = Tail(s) \o t
BY TailConcat

(* A pipe and its parts are sequences of messages.                         *)
LEMMA PipeParts ==
  ASSUME EventInv, NEW c \in Client
  PROVE  /\ wire[c] \in Seq(Message) /\ Held(c) \in Seq(Message) /\ queue \in Seq(Message)
         /\ wire[c] \o Held(c) \in Seq(Message) /\ Pipe(c) \in Seq(Message)
         /\ HeldFor(c) => writer.message \in Message
         /\ Pipe(c) = wire[c] \o (Held(c) \o queue)
         /\ seen[c] \in Nat /\ seq \in Nat
<1>1. wire[c] \in Seq(Message) /\ queue \in Seq(Message)
  BY QueuedSeq, WireSeq DEF EventInv, TypeOK
<1>2. HeldFor(c) => writer.message \in Message
  BY DEF EventInv, TypeOK, HeldFor, Message
<1>3. Held(c) \in Seq(Message)
  BY <1>2 DEF Held
<1>4. seen[c] \in Nat /\ seq \in Nat
  BY DEF EventInv, TypeOK
<1>5. wire[c] \o Held(c) \in Seq(Message)
  BY <1>1, <1>3, ConcatProperties
<1>6. (wire[c] \o Held(c)) \o queue \in Seq(Message)
  BY <1>1, <1>5, ConcatProperties
<1>7. (wire[c] \o Held(c)) \o queue = wire[c] \o (Held(c) \o queue)
  BY <1>1, <1>3, MessageConcat
<1> QED
  BY <1>1, <1>2, <1>3, <1>4, <1>5, <1>6, <1>7 DEF Pipe

(* currentWriter is the client that is served.                             *)
LEMMA ServedWriter ==
  ASSUME ServingInv, NEW c \in Client, Served(c)
  PROVE  currentWriter = c
BY DEF ServingInv, Served

(* The EDT adds its event to the end of the pipe, or drops it.             *)
LEMMA EdtPipe ==
  ASSUME EventInv, RegistryInv, SeenInv, PipeInv, Edt
  PROVE  PipeInv'
<1>1. PICK e : EdtStep(e)
  BY EdtSteps
<1> SUFFICES ASSUME NEW c \in Client, Served(c)'
             PROVE  PipeOK(Pipe(c), c, seen[c], c \in seeded, lost, seq)'
  BY DEF PipeInv
<1>2. /\ PipeOK(Pipe(c), c, seen[c], c \in seeded, lost, seq)
      /\ seen' = seen /\ seeded' = seeded /\ seq' = seq + 1 /\ seen[c] <= seq
  BY <1>1 DEF PipeInv, SeenInv, Served, EdtStep
<1>3. /\ wire[c] \o Held(c) \in Seq(Message) /\ queue \in Seq(Message) /\ Pipe(c) \in Seq(Message)
      /\ seen[c] \in Nat /\ seq \in Nat
  BY PipeParts
<1>4. Pipe(c)' = (wire[c] \o Held(c)) \o queue'
  BY <1>1 DEF Pipe, Held, HeldFor, EdtStep
<1>5. e \in Message /\ IsEvent(e) /\ At(e) = seq + 1
  BY <1>1 DEF EdtStep, Message
<1>6. CASE queue' = Append(queue, e) /\ lost' = lost
  <2>1. Pipe(c)' = Append(Pipe(c), e)
    <3> DEFINE x == wire[c] \o Held(c)
    <3> HIDE DEF x
    <3>1. x \in Seq(Message) /\ Pipe(c)' = x \o Append(queue, e) /\ Pipe(c) = x \o queue
      BY <1>3, <1>4, <1>6 DEF x, Pipe
    <3>2. x \o Append(queue, e) = Append(x \o queue, e)
      BY <1>3, <1>5, <3>1, MessageAppend
    <3> QED
      BY <3>1, <3>2
  <2>2. PipeOK(Append(Pipe(c), e), c, seen[c], c \in seeded, lost, seq + 1)
    BY <1>2, <1>3, <1>5, PipeAppend
  <2> QED
    BY <1>2, <1>6, <2>1, <2>2
<1>7. CASE queue' = queue /\ lost' = lost \cup {seq + 1}
  <2>1. Pipe(c)' = Pipe(c)
    BY <1>4, <1>7 DEF Pipe
  <2>2. PipeOK(Pipe(c), c, seen[c], c \in seeded, lost \cup {seq + 1}, seq + 1)
    BY <1>2, <1>3, PipeDrop
  <2> QED
    BY <1>2, <1>7, <2>1, <2>2
<1> QED
  BY <1>1, <1>6, <1>7 DEF EdtStep

(* What stays as it is for a client keeps its pipe in order.               *)
LEMMA PipeKept ==
  ASSUME PipeInv, NEW c \in Client, Served(c), Pipe(c)' = Pipe(c),
         seen'[c] = seen[c], c \in seeded' <=> c \in seeded, UNCHANGED <<lost, seq>>
  PROVE  PipeOK(Pipe(c), c, seen[c], c \in seeded, lost, seq)'
<1>1. PipeOK(Pipe(c), c, seen[c], c \in seeded, lost, seq)
  BY DEF PipeInv
<1>2. (c \in seeded)' = (c \in seeded)
  OBVIOUS
<1> QED
  BY <1>1, <1>2

(* attachClient leaves no other message of the queue after its snapshot,   *)
(* which is the first of its client's own.                                 *)
LEMMA AttachPipe ==
  ASSUME EventInv, MessagesInv, ServingInv, WaitingInv, AttachClient
  PROVE  PipeInv'
<1> SUFFICES ASSUME NEW c \in Client, Served(c)'
             PROVE  PipeOK(Pipe(c), c, seen[c], c \in seeded, lost, seq)'
  BY DEF PipeInv
<1> DEFINE m == Snapshot(registered, seq, c)
           p == wire[c] \o Held(c)
<1>1. /\ serving = c /\ handler = "attaching" /\ queue' = <<m>> /\ lost' = {}
      /\ UNCHANGED <<seq, seen, seeded, wire, writer, currentWriter>>
  BY DEF AttachClient, Served, registry, python
<1>2. c \in waiting /\ c \notin seeded
  BY <1>1 DEF waiting, WaitingInv, FreshInv
<1>3. /\ wire[c] \in Seq(Message) /\ Held(c) \in Seq(Message) /\ p \in Seq(Message) /\ seq \in Nat
      /\ HeldFor(c) => writer.message \in Message
  BY PipeParts
<1>4. m \in Message /\ IsOwn(m, c) /\ At(m) = seq
  BY DEF EventInv, TypeOK, registered, Snapshot, Message, Queued, IsOwn, IsSnapshot, IsEvent, At
<1>5. /\ \A i \in 1..Len(wire[c]) : ~IsOwn(wire[c][i], c)
      /\ \A i \in 1..Len(Held(c)) : ~IsOwn(Held(c)[i], c)
  <2>1. ASSUME NEW x, Fresh(x, waiting)
        PROVE  ~IsOwn(x, c)
    BY <1>2, <2>1 DEF Fresh, IsOwn
  <2>2. \A i \in 1..Len(wire[c]) : Fresh(wire[c][i], waiting)
    BY DEF WaitingInv, FreshInv, AllFresh
  <2>3. HeldFor(c) => Fresh(writer.message, waiting)
    BY DEF HeldFor, WaitingInv, FreshInv
  <2> QED
    BY <2>1, <2>2, <2>3 DEF Held
<1>6. \A i \in 1..Len(p) : ~IsOwn(p[i], c)
  <2> DEFINE a == wire[c]
             h == Held(c)
  <2> HIDE DEF a, h
  <2>1. /\ Len(a) \in Nat /\ Len(h) \in Nat /\ Len(a \o h) = Len(a) + Len(h)
        /\ \A i \in 1..(Len(a) + Len(h)) : (a \o h)[i] = IF i <= Len(a) THEN a[i] ELSE h[i - Len(a)]
    BY <1>3, ConcatProperties DEF a, h
  <2>2. \A i \in 1..(Len(a) + Len(h)) : IF i <= Len(a) THEN i \in 1..Len(a) ELSE i - Len(a) \in 1..Len(h)
    BY <2>1
  <2>3. \A i \in 1..Len(a \o h) : ~IsOwn((a \o h)[i], c)
    BY <1>5, <2>1, <2>2 DEF a, h
  <2> QED
    BY <2>3 DEF a, h
<1> HIDE DEF p, m
<1>7. PipeOK(Append(p, m), c, seen[c], FALSE, {}, seq)
  BY <1>3, <1>4, <1>6, PipeFirst
<1>8. Pipe(c)' = Append(p, m)
  <2>1. Held(c)' = Held(c)
    BY <1>1 DEF Held, HeldFor
  <2>2. Pipe(c)' = p \o <<m>>
    BY <1>1, <2>1 DEF Pipe, p
  <2> QED
    BY <1>3, <1>4, <2>2, AppendIsConcat
<1>9. (c \in seeded)' = FALSE /\ seen'[c] = seen[c] /\ seq' = seq /\ lost' = {}
  BY <1>1, <1>2
<1> QED
  BY <1>7, <1>8, <1>9

(* The writer moves a message along; an overflow line is put in its way.   *)
LEMMA WriterPipe ==
  ASSUME EventInv, ServingInv, PipeInv, Writer
  PROVE  PipeInv'
<1> SUFFICES ASSUME NEW c \in Client, Served(c)'
             PROVE  PipeOK(Pipe(c), c, seen[c], c \in seeded, lost, seq)'
  BY DEF PipeInv
<1>1. UNCHANGED <<client, serving, handler, seen, seeded, lost, seq, currentWriter>>
  BY DEF Writer, WriterTakes, WriterTargets, WriterChecks, WriterReports, WriterWrites,
         registry, stream, accepts, python
<1>2. Served(c) /\ client[c] # "closed" /\ currentWriter = c /\ c # None
  BY <1>1, ServedWriter, NoneAssumption DEF Served
<1>3. /\ wire[c] \in Seq(Message) /\ Held(c) \in Seq(Message) /\ queue \in Seq(Message)
      /\ wire[c] \o Held(c) \in Seq(Message) /\ Pipe(c) \in Seq(Message)
      /\ HeldFor(c) => writer.message \in Message
      /\ Pipe(c) = wire[c] \o (Held(c) \o queue)
      /\ seq \in Nat
  BY PipeParts
<1>4. writer.pc \in {"report", "write"} => writer.to \in Client
  BY DEF EventInv, WriterInv
<1>5. CASE WriterTakes
  <2> DEFINE m == Head(queue)
  <2>1. queue # <<>> /\ queue' = Tail(queue) /\ wire' = wire
        /\ writer' = [pc |-> "target", message |-> m, to |-> None] /\ writer.pc = "take"
    BY <1>5 DEF WriterTakes, Idle
  <2>2. Held(c) = <<>> /\ Held(c)' = <<m>>
    BY <1>1, <1>2, <2>1 DEF Held, HeldFor
  <2>3. <<m>> \in Seq(Message) /\ Tail(queue) \in Seq(Message) /\ queue = <<m>> \o Tail(queue)
    BY <1>3, <2>1, HeadTailProperties, HeadFirst
  <2>4. Pipe(c)' = (wire[c] \o <<m>>) \o Tail(queue)
    BY <2>1, <2>2 DEF Pipe
  <2>5. Pipe(c)' = wire[c] \o queue
    <3> DEFINE t == <<m>>
               u == Tail(queue)
    <3> HIDE DEF t, u
    <3>1. queue = t \o u /\ Pipe(c)' = (wire[c] \o t) \o u
      BY <2>3, <2>4 DEF t, u
    <3>2. wire[c] \in Seq(Message) /\ t \in Seq(Message) /\ u \in Seq(Message)
      BY <1>3, <2>3 DEF t, u
    <3>3. (wire[c] \o t) \o u = wire[c] \o (t \o u)
      BY <3>2, MessageConcat
    <3> QED
      BY <3>1, <3>3
  <2>6. Pipe(c) = wire[c] \o queue
    BY <1>3, <2>2, ConcatEmptySeq
  <2> QED
    BY <1>1, <1>2, <2>5, <2>6, PipeKept
<1>6. CASE WriterTargets
  <2>1. writer.pc = "target" /\ writer' = [writer EXCEPT !.pc = "check", !.to = c]
        /\ UNCHANGED <<wire, queue>>
    BY <1>2, <1>6 DEF WriterTargets, stream
  <2>2. writer'.pc = "check" /\ writer'.to = c /\ writer'.message = writer.message
    BY <2>1 DEF EventInv, WriterInv
  <2>3. Held(c)' = Held(c)
    BY <1>2, <2>1, <2>2 DEF Held, HeldFor
  <2>4. Pipe(c)' = Pipe(c)
    BY <2>1, <2>3 DEF Pipe
  <2> QED
    BY <1>1, <1>2, <2>4, PipeKept
<1>7. CASE WriterChecks
  <2>1. writer.pc = "check" /\ writer'.pc \in {"report", "write"} /\ writer'.to = writer.to
        /\ writer'.message = writer.message /\ UNCHANGED <<wire, queue>>
    BY <1>7 DEF WriterChecks, EventInv, WriterInv
  <2>2. Held(c)' = Held(c)
    BY <2>1 DEF Held, HeldFor
  <2>3. Pipe(c)' = Pipe(c)
    BY <2>1, <2>2 DEF Pipe
  <2> QED
    BY <1>1, <1>2, <2>3, PipeKept
<1>8. CASE WriterReports
  <2>1. writer.pc = "report" /\ writer'.pc = "write" /\ writer'.to = writer.to
        /\ writer'.message = writer.message /\ queue' = queue /\ Write(writer.to, Overflow)
        /\ writer.to \in Client
    BY <1>4, <1>8 DEF WriterReports, EventInv, WriterInv, stream
  <2>2. Held(c)' = Held(c)
    BY <2>1 DEF Held, HeldFor
  <2>3. CASE writer.to # c
    <3>1. wire'[c] = wire[c]
      BY <2>1, <2>3, WriteEffect DEF EventInv
    <3>2. Pipe(c)' = Pipe(c)
      BY <2>1, <2>2, <3>1 DEF Pipe
    <3> QED
      BY <1>1, <1>2, <3>2, PipeKept
  <2>4. CASE writer.to = c
    <3> DEFINE y == Held(c) \o queue
               x == Append(wire[c], Overflow)
    <3>1. wire'[c] = x
      BY <1>2, <2>1, <2>4, WriteEffect DEF EventInv
    <3>2. Overflow \in Message /\ ~Data(Overflow)
      BY NoData
    <3>3. x \in Seq(Message) /\ y \in Seq(Message)
      BY <1>3, <3>2, AppendProperties, ConcatProperties
    <3>4. Pipe(c)' = (x \o Held(c)) \o queue
      BY <2>1, <2>2, <3>1 DEF Pipe
    <3>5. Pipe(c)' = x \o y
      <4> HIDE DEF x
      <4>1. (x \o Held(c)) \o queue = x \o (Held(c) \o queue)
        BY <1>3, <3>3, MessageConcat
      <4> QED
        BY <3>4, <4>1
    <3>6. PipeOK(wire[c] \o y, c, seen[c], c \in seeded, lost, seq)
      BY <1>2, <1>3 DEF PipeInv
    <3> HIDE DEF y
    <3>7. PipeOK(x \o y, c, seen[c], c \in seeded, lost, seq)
      BY <1>3, <3>2, <3>3, <3>6, PipeInsert
    <3> QED
      BY <1>1, <3>5, <3>7
  <2> QED
    BY <2>3, <2>4
<1>9. CASE WriterWrites
  <2> DEFINE m == writer.message
  <2>1. writer.pc = "write" /\ writer' = Idle /\ queue' = queue /\ Write(writer.to, m)
        /\ writer.to \in Client
    BY <1>4, <1>9 DEF WriterWrites, stream
  <2>2. Held(c)' = <<>>
    BY <2>1 DEF Held, HeldFor, Idle
  <2>3. CASE writer.to # c
    <3>1. wire'[c] = wire[c]
      BY <2>1, <2>3, WriteEffect DEF EventInv
    <3>2. Held(c) = <<>>
      BY <2>1, <2>3 DEF Held, HeldFor
    <3>3. Pipe(c)' = Pipe(c)
      BY <2>1, <2>2, <3>1, <3>2 DEF Pipe
    <3> QED
      BY <1>1, <1>2, <3>3, PipeKept
  <2>4. CASE writer.to = c
    <3>1. wire'[c] = Append(wire[c], m)
      BY <1>2, <2>1, <2>4, WriteEffect DEF EventInv
    <3>2. HeldFor(c) /\ Held(c) = <<m>>
      BY <2>1, <2>4 DEF Held, HeldFor
    <3>3. Append(wire[c], m) = wire[c] \o <<m>> /\ Append(wire[c], m) \in Seq(Message)
      BY <1>3, <3>2, AppendIsConcat, AppendProperties
    <3>4. Pipe(c)' = (Append(wire[c], m) \o <<>>) \o queue
      BY <2>1, <2>2, <3>1 DEF Pipe
    <3>5. Append(wire[c], m) \o <<>> = Append(wire[c], m)
      BY <3>3, ConcatEmptySeq
    <3>6. Pipe(c)' = Pipe(c)
      BY <3>2, <3>3, <3>4, <3>5 DEF Pipe
    <3> QED
      BY <1>1, <1>2, <3>6, PipeKept
  <2> QED
    BY <2>3, <2>4
<1> QED
  BY <1>5, <1>6, <1>7, <1>8, <1>9 DEF Writer

(* Every step keeps the pipe of the client that is served in order.        *)
LEMMA PipeStep ==
  ASSUME EventInv, DeliveryInv, PipeInv, [Next]_vars
  PROVE  PipeInv'
<1> USE DEF DeliveryInv
<1>1. CASE Edt
  BY <1>1, EdtPipe
<1>2. CASE AttachClient
  BY <1>2, AttachPipe
<1>3. CASE Writer
  BY <1>3, WriterPipe
<1>4. CASE Accept \/ TakesOver \/ Detach
  BY <1>4 DEF PipeInv, Served, Accept, TakesOver, Detach
<1>5. CASE SetOverflowed \/ UNCHANGED vars
  <2> SUFFICES ASSUME NEW c \in Client, Served(c)'
               PROVE  PipeOK(Pipe(c), c, seen[c], c \in seeded, lost, seq)'
    BY DEF PipeInv
  <2>1. Served(c) /\ Pipe(c)' = Pipe(c) /\ UNCHANGED <<seen, seeded, lost, seq>>
    BY <1>5 DEF SetOverflowed, Served, Pipe, Held, HeldFor, vars, registry, stream, accepts, python
  <2> QED
    BY <2>1, PipeKept
<1>6. ASSUME NEW d \in Client, Connect(d) \/ Read(d) \/ Close(d)
      PROVE  PipeInv'
  <2> SUFFICES ASSUME NEW c \in Client, Served(c)'
               PROVE  PipeOK(Pipe(c), c, seen[c], c \in seeded, lost, seq)'
    BY DEF PipeInv
  <2>1. /\ UNCHANGED <<serving, handler, writer, currentWriter, queue, lost, seq>>
        /\ serving = c /\ handler = "reading" /\ Held(c)' = Held(c)
    BY <1>6 DEF Connect, Read, Close, Served, Held, HeldFor, registry, stream, accepts
  <2>2. CASE d # c
    <3>1. /\ wire'[c] = wire[c] /\ client'[c] = client[c] /\ seen'[c] = seen[c]
          /\ c \in seeded' <=> c \in seeded
      <4>1. ASSUME Connect(d) PROVE <3>1!:
        BY <2>2, <4>1 DEF Connect, EventInv, TypeOK
      <4>2. ASSUME Read(d) PROVE <3>1!:
        BY <2>2, <4>2 DEF Read, EventInv, TypeOK
      <4>3. ASSUME Close(d) PROVE <3>1!:
        BY <2>2, <4>3 DEF Close, EventInv, TypeOK
      <4> QED
        BY <1>6, <4>1, <4>2, <4>3
    <3>2. Served(c) /\ Pipe(c)' = Pipe(c)
      BY <2>1, <3>1 DEF Served, Pipe
    <3> QED
      BY <2>1, <3>1, <3>2, PipeKept
  <2>3. CASE d = c
    <3>1. client'[c] = "connected" /\ client[c] # "new" /\ c # None
      BY <2>1, NoneAssumption DEF Served, ServingInv
    <3>2. Read(c)
      <4>1. ~Connect(c)
        BY <3>1 DEF Connect
      <4>2. ~Close(c)
        BY <3>1 DEF Close, EventInv, TypeOK
      <4> QED
        BY <1>6, <2>3, <4>1, <4>2
    <3> DEFINE w == wire[c]
               y == Held(c) \o queue
               m == Head(w)
    <3>3. /\ w \in Seq(Message) /\ w # <<>> /\ y \in Seq(Message)
          /\ Pipe(c) = w \o y /\ Pipe(c) \in Seq(Message) /\ seq \in Nat
          /\ Held(c) \in Seq(Message) /\ queue \in Seq(Message)
      BY <3>2, PipeParts, ConcatProperties DEF Read
    <3>4. Served(c) /\ wire'[c] = Tail(w)
      BY <2>1, <3>2 DEF Read, Served, EventInv, TypeOK
    <3>5. Tail(w) \in Seq(Message) /\ m \in Message
      BY <3>3, HeadTailProperties
    <3>6. Pipe(c)' = Tail(w) \o y
      <4>1. Pipe(c)' = (Tail(w) \o Held(c)) \o queue
        BY <2>1, <3>4 DEF Pipe
      <4> QED
        <5> DEFINE v == Tail(w)
        <5> HIDE DEF v, w
        <5>1. (v \o Held(c)) \o queue = v \o (Held(c) \o queue)
          BY <3>3, <3>5, MessageConcat DEF v
        <5> QED
          BY <4>1, <5>1 DEF v
    <3>7. Pipe(c) # <<>> /\ Head(Pipe(c)) = m /\ Pipe(c)' = Tail(Pipe(c))
      <4> HIDE DEF w, y
      <4>1. w \o y # <<>> /\ Head(w \o y) = Head(w) /\ Tail(w \o y) = Tail(w) \o y
        BY <3>3, MessageTail
      <4> QED
        BY <3>3, <3>6, <4>1
    <3>8. PipeOK(Pipe(c), c, seen[c], c \in seeded, lost, seq)
      BY <3>4 DEF PipeInv
    <3>9. /\ c \in seeded /\ ~Data(m) => PipeOK(Pipe(c)', c, seen[c], TRUE, lost, seq)
          /\ c \in seeded /\ IsEvent(m) => PipeOK(Pipe(c)', c, At(m), TRUE, lost, seq)
          /\ c \in seeded => ~IsSnapshot(m)
          /\ c \notin seeded /\ IsOwn(m, c) => PipeOK(Pipe(c)', c, At(m), TRUE, lost, seq)
          /\ c \notin seeded /\ ~IsOwn(m, c) => PipeOK(Pipe(c)', c, seen'[c], FALSE, lost, seq)
      <4> DEFINE p == Pipe(c)
                 s == seen[c]
                 t == seen'[c]
      <4>1. p \in Seq(Message) /\ p # <<>> /\ Head(p) = m /\ seq \in Nat /\ s \in Nat
        BY <3>3, <3>7, <3>8, PipeParts
      <4>2. Pipe(c)' = Tail(p)
        BY <3>7
      <4>3. CASE c \in seeded
        <5>1. (c \in seeded) = TRUE
          BY <4>3
        <5>2. PipeOK(p, c, s, TRUE, lost, seq)
          BY <3>8, <5>1
        <5> HIDE DEF p, s
        <5>3. /\ ~Data(Head(p)) => PipeOK(Tail(p), c, s, TRUE, lost, seq)
              /\ IsEvent(Head(p)) => PipeOK(Tail(p), c, At(Head(p)), TRUE, lost, seq)
              /\ ~IsSnapshot(Head(p))
          BY <4>1, <5>2, PipeTailSeeded
        <5> QED
          BY <4>1, <4>2, <4>3, <5>3 DEF s
      <4>4. CASE c \notin seeded
        <5>1. (c \in seeded) = FALSE
          BY <4>4
        <5>2. PipeOK(p, c, s, FALSE, lost, seq)
          BY <3>8, <5>1
        <5> HIDE DEF p, s, t
        <5>3. /\ IsOwn(Head(p), c) => PipeOK(Tail(p), c, At(Head(p)), TRUE, lost, seq)
              /\ ~IsOwn(Head(p), c) => PipeOK(Tail(p), c, t, FALSE, lost, seq)
          BY <4>1, <5>2, PipeTailWaiting
        <5> QED
          BY <4>1, <4>2, <4>4, <5>3 DEF t
      <4> QED
        BY <4>3, <4>4
    <3>10. CASE IsOwn(m, c)
      <4>1. c \notin seeded
        BY <3>9, <3>10 DEF IsOwn
      <4>2. seen'[c] = At(m) /\ (c \in seeded)' = TRUE
        BY <3>2, <3>5, <3>10, MessageFacts DEF Read, IsOwn, IsSnapshot, EventInv, TypeOK
      <4> QED
        BY <2>1, <3>9, <3>10, <4>1, <4>2
    <3>11. CASE IsEvent(m)
      <4>1. seen'[c] = At(m) /\ seeded' = seeded
        BY <3>2, <3>5, <3>11, MessageFacts DEF Read, IsEvent, EventInv, TypeOK
      <4>2. ~IsOwn(m, c)
        BY <3>5, <3>11, MessageFacts DEF IsOwn
      <4>4. CASE c \in seeded
        <5>1. PipeOK(Pipe(c)', c, At(m), TRUE, lost, seq)
          BY <3>9, <3>11, <4>4
        <5>2. (c \in seeded)' = TRUE /\ seen'[c] = At(m)
          BY <4>1, <4>4
        <5> QED
          BY <2>1, <5>1, <5>2
      <4>5. CASE c \notin seeded
        <5>1. PipeOK(Pipe(c)', c, seen'[c], FALSE, lost, seq)
          BY <3>9, <4>2, <4>5
        <5>2. (c \in seeded)' = FALSE
          BY <4>1, <4>5
        <5> QED
          BY <2>1, <5>1, <5>2
      <4> QED
        BY <4>4, <4>5
    <3>12. CASE ~Data(m)
      <4>1. seen' = seen /\ seeded' = seeded
        BY <3>2, <3>12 DEF Read, Data, IsEvent, IsSnapshot
      <4>2. ~IsOwn(m, c)
        BY <3>12 DEF IsOwn, Data
      <4>4. CASE c \in seeded
        <5>1. PipeOK(Pipe(c)', c, seen[c], TRUE, lost, seq)
          BY <3>9, <3>12, <4>4
        <5>2. (c \in seeded)' = TRUE /\ seen'[c] = seen[c]
          BY <4>1, <4>4
        <5> QED
          BY <2>1, <5>1, <5>2
      <4>5. CASE c \notin seeded
        <5>1. PipeOK(Pipe(c)', c, seen'[c], FALSE, lost, seq)
          BY <3>9, <4>2, <4>5
        <5>2. (c \in seeded)' = FALSE
          BY <4>1, <4>5
        <5> QED
          BY <2>1, <5>1, <5>2
      <4> QED
        BY <4>4, <4>5
    <3>13. CASE IsSnapshot(m) /\ ~IsOwn(m, c)
      <4>1. seeded' = seeded
        BY <3>2, <3>13 DEF Read, IsOwn, IsSnapshot
      <4>2. c \notin seeded /\ (c \in seeded)' = FALSE
        BY <3>9, <3>13, <4>1
      <4> QED
        BY <2>1, <3>9, <3>13, <4>2
    <3> QED
      BY <3>10, <3>11, <3>12, <3>13 DEF Data
  <2> QED
    BY <2>2, <2>3
<1> QED
  BY <1>1, <1>2, <1>3, <1>4, <1>5, <1>6 DEF Next, AcceptThread

-----------------------------------------------------------------------------
(* No message is about an event still to come.                             *)
LEMMA AtBound ==
  ASSUME NEW h, NEW q \in Nat, NEW m \in Message, Sound(m, h, q)
  PROVE  At(m) \in Nat /\ At(m) <= q
BY MessageFacts DEF Sound, Data

(* A client that is alone was so before, and every client step is its own. *)
LEMMA AloneBefore ==
  ASSUME EventInv, ServingInv, [Next]_vars, NEW c \in Client, Alone(c)'
  PROVE  /\ Alone(c)
         /\ \A d \in Client : Connect(d) \/ Read(d) \/ Close(d) => d = c
<1> USE DEF EventInv, TypeOK
<1>1. /\ client'[c] \in {"new", "connected"}
      /\ \A d \in Client \ {c} : client'[d] = "new"
  BY DEF Alone, Replaced
<1>2. ASSUME NEW d \in Client, Connect(d) \/ Read(d) \/ Close(d)
      PROVE  Alone(c) /\ d = c
  <2>1. \A b \in Client \ {d} : client'[b] = client[b]
    BY <1>2 DEF Connect, Read, Close
  <2>2. client'[d] # "new" /\ (client'[d] # "closed" => client[d] \in {"new", "connected"})
    BY <1>2 DEF Connect, Read, Close
  <2> QED
    BY <1>1, <2>1, <2>2 DEF Alone, Replaced
<1>3. CASE ~\E d \in Client : Connect(d) \/ Read(d) \/ Close(d)
  <2>1. client' = client
    BY <1>3 DEF Next, vars, Edt, WindowOpened, WindowClosed, SetOverflowed, AcceptThread, Accept, TakesOver, AttachClient,
                Detach, Writer, WriterTakes, WriterTargets, WriterChecks, WriterReports, WriterWrites, python
  <2> QED
    BY <1>1, <1>3, <2>1 DEF Alone, Replaced
<1> QED
  BY <1>2, <1>3

(* The writer has no other client to write to.                             *)
LEMMA AloneTarget ==
  ASSUME ServingInv, NEW c \in Client, Alone(c), writer.to \in Client
  PROVE  writer.to = c /\ client[c] # "closed"
BY NoneAssumption DEF ServingInv, Alone, Replaced

(* A drop while no event is being flagged leads to the flag.               *)
LEMMA EdtLost ==
  ASSUME EventInv, RegistryInv, MessagesInv, SeenInv, Edt, NEW c \in Client, Alone(c), Alone(c)',
         LostInv
  PROVE  LostFor(c)'
<1>1. PICK e : EdtStep(e)
  BY EdtSteps
<1>2. UNCHANGED <<wire, writer, overflowed, seen>> /\ seq' = seq + 1 /\ edt = "free"
  BY <1>1 DEF EdtStep
<1>3. seq \in Nat /\ seen[c] \in Nat /\ seen[c] <= seq
  BY DEF EventInv, TypeOK, SeenInv
<1>4. /\ lost # {} => Reported(c) \/ writer.pc = "report" \/ overflowed
      /\ \A n \in lost : Reporting(c, n)
  BY <1>2 DEF LostInv, LostFor
<1>5. Reported(c)' <=> Reported(c)
  BY <1>2 DEF Reported
<1>6. /\ \A i \in 1..Len(wire[c]) : At(wire[c][i]) \in Nat /\ At(wire[c][i]) <= seq
      /\ writer.pc # "take" => At(writer.message) \in Nat /\ At(writer.message) <= seq
      /\ \A i \in 1..Len(queue) : At(queue[i]) \in Nat /\ At(queue[i]) <= seq
  <2>1. \A i \in 1..Len(wire[c]) : wire[c][i] \in Message /\ Sound(wire[c][i], history, seq)
    BY WireSeq DEF EventInv, MessagesInv, AllSound
  <2>2. writer.pc # "take" => writer.message \in Message /\ Sound(writer.message, history, seq)
    BY DEF EventInv, TypeOK, Message, MessagesInv
  <2>3. \A i \in 1..Len(queue) : queue[i] \in Message /\ Sound(queue[i], history, seq)
    BY QueuedSeq DEF EventInv, TypeOK, MessagesInv, AllSound
  <2> QED
    BY <1>3, <2>1, <2>2, <2>3, AtBound
<1>7. ASSUME NEW n \in lost
      PROVE  Reporting(c, n)'
  <2>1. /\ n \in Nat /\ n <= seq /\ seen[c] < n
        /\ \A i \in 1..Len(wire[c]) : n <= At(wire[c][i]) =>
             \E j \in 1..Len(wire[c]) : j < i /\ wire[c][j] = Overflow
        /\ writer.pc # "take" /\ n <= At(writer.message) =>
             \/ Reported(c) \/ writer.pc = "report"
             \/ writer.pc \in {"target", "check"} /\ overflowed
    <3>1. n \in Nat
      BY DEF EventInv, TypeOK
    <3> QED
      BY <1>4, <3>1 DEF Reporting
  <2>2. Reported(c) \/ writer.pc = "report" \/ overflowed
    BY <1>4
  <2>3. n <= seq + 1
    BY <1>3, <2>1
  <2> QED
    BY <1>2, <1>5, <2>1, <2>2, <2>3 DEF Reporting
<1>8. CASE queue' = Append(queue, e) /\ lost' = lost /\ edt' = "free"
  BY <1>2, <1>4, <1>5, <1>7, <1>8 DEF LostFor
<1>9. CASE queue' = queue /\ lost' = lost \cup {seq + 1} /\ edt' = "refused"
  <2>1. ASSUME NEW n, n = seq + 1
        PROVE  Reporting(c, n)'
    <3>1. \A k \in Nat : k <= seq => ~(seq + 1 <= k)
      BY <1>3
    <3>2. seen[c] < seq + 1
      BY <1>3
    <3>3. /\ \A i \in 1..Len(wire[c]) : ~(seq + 1 <= At(wire[c][i]))
          /\ writer.pc # "take" => ~(seq + 1 <= At(writer.message))
          /\ \A i \in 1..Len(queue) : ~(seq + 1 <= At(queue[i]))
      BY <1>6, <3>1
    <3>4. n \in Nat /\ n = seq' /\ n <= seq'
      BY <1>2, <1>3, <2>1
    <3>5. /\ n <= seq' /\ seen'[c] < n
          /\ \A i \in 1..Len(wire'[c]) : ~(n <= At(wire'[c][i]))
          /\ writer'.pc # "take" => ~(n <= At(writer'.message))
          /\ \A i \in 1..Len(queue') : ~(n <= At(queue'[i]))
      BY <1>2, <1>9, <2>1, <3>2, <3>3, <3>4
    <3> QED
      BY <3>5 DEF Reporting
  <2> QED
    BY <1>7, <1>9, <2>1 DEF LostFor
<1> QED
  BY <1>1, <1>8, <1>9 DEF EdtStep

(* The flag is set, or passes from the EDT to the writer to the socket     *)
(* before any newer message does.                                          *)
LEMMA WriterLost ==
  ASSUME EventInv, ServingInv, Writer, NEW c \in Client, Alone(c), LostFor(c)
  PROVE  LostFor(c)'
<1>1. UNCHANGED <<client, seen, seq, lost, edt>>
  BY DEF Writer, WriterTakes, WriterTargets, WriterChecks, WriterReports, WriterWrites,
         registry, stream, python
<1>2. /\ wire[c] \in Seq(Message) /\ Len(wire[c]) \in Nat /\ queue \in Seq(Message)
      /\ writer.pc # "take" => writer.message \in Message
  BY WireSeq, QueuedSeq DEF EventInv, TypeOK, Message
<1>3. writer.pc \in {"check", "report", "write"} => writer.to = c /\ client[c] # "closed"
  BY AloneTarget DEF EventInv, WriterInv
<1>4. CASE WriterTakes
  <2>1. /\ writer.pc = "take" /\ writer'.pc = "target" /\ writer'.message = Head(queue)
        /\ queue' = Tail(queue) /\ queue # <<>> /\ UNCHANGED <<wire, overflowed>>
    BY <1>4 DEF WriterTakes, Idle
  <2>2. /\ Len(queue) \in Nat /\ Len(Tail(queue)) = Len(queue) - 1 /\ 1 \in 1..Len(queue)
        /\ Head(queue) = queue[1]
        /\ \A i \in 1..Len(Tail(queue)) : Tail(queue)[i] = queue[i + 1]
    BY <1>2, <2>1, HeadTailProperties
  <2>3. \A i \in 1..Len(Tail(queue)) : i + 1 \in 1..Len(queue)
    BY <2>2
  <2>4. Reported(c)' <=> Reported(c)
    BY <2>1 DEF Reported
  <2>5. ASSUME NEW n \in lost
        PROVE  Reporting(c, n)'
    <3>1. Reporting(c, n)
      BY DEF LostFor
    <3>2. n <= At(queue[1]) => Reported(c) \/ overflowed
      BY <2>1, <2>2, <3>1 DEF Reporting
    <3>3. \A i \in 1..Len(queue') : n <= At(queue'[i]) => Reported(c) \/ overflowed
      BY <2>1, <2>2, <2>3, <3>1 DEF Reporting
    <3> QED
      BY <1>1, <2>1, <2>2, <2>4, <3>1, <3>2, <3>3 DEF Reporting
  <2> QED
    BY <1>1, <2>1, <2>4, <2>5 DEF LostFor
<1>5. CASE WriterTargets
  <2>1. /\ writer.pc = "target" /\ UNCHANGED <<wire, overflowed, queue>>
        /\ writer'.pc = "take" \/ (writer'.pc = "check" /\ writer'.message = writer.message)
    BY <1>5 DEF WriterTargets, Idle, stream, EventInv, WriterInv
  <2>2. Reported(c)' <=> Reported(c)
    BY <2>1 DEF Reported
  <2> QED
    BY <1>1, <2>1, <2>2 DEF LostFor, Reporting
<1>6. CASE WriterChecks
  <2>1. /\ writer.pc = "check" /\ UNCHANGED <<wire, queue>>
        /\ writer'.message = writer.message
        /\ \/ overflowed /\ writer'.pc = "report"
           \/ ~overflowed /\ ~overflowed' /\ writer'.pc = "write"
    BY <1>6 DEF WriterChecks, EventInv, WriterInv
  <2>2. Reported(c)' <=> Reported(c)
    BY <2>1 DEF Reported
  <2> QED
    BY <1>1, <2>1, <2>2 DEF LostFor, Reporting
<1>7. CASE WriterReports
  <2>1. /\ writer.pc = "report" /\ writer'.pc = "write" /\ UNCHANGED <<queue, overflowed>>
        /\ writer'.message = writer.message /\ Write(writer.to, Overflow) /\ writer.to = c
    BY <1>3, <1>7 DEF WriterReports, stream, EventInv, WriterInv
  <2>2. wire'[c] = Append(wire[c], Overflow)
    BY <1>3, <2>1, WriteEffect DEF EventInv
  <2>3. /\ Len(wire'[c]) = Len(wire[c]) + 1
        /\ \A i \in 1..Len(wire[c]) : wire'[c][i] = wire[c][i]
        /\ wire'[c][Len(wire[c]) + 1] = Overflow
    BY <1>2, <2>2, NoData, AppendProperties
  <2>6. \A j \in 1..Len(wire[c]) : j \in 1..Len(wire'[c]) /\ wire'[c][j] = wire[c][j]
    BY <1>2, <2>3
  <2>4. Reported(c)' /\ Len(wire[c]) + 1 \in 1..Len(wire'[c])
    BY <1>2, <2>3 DEF Reported
  <2>5. ASSUME NEW n \in lost
        PROVE  Reporting(c, n)'
    <3>1. Reporting(c, n) /\ n \in Nat /\ n > 0
      BY DEF LostFor, EventInv, TypeOK
    <3>2. At(Overflow) = 0
      BY NoData
    <3>3. ASSUME NEW i \in 1..Len(wire'[c]), n <= At(wire'[c][i])
          PROVE  \E j \in 1..Len(wire'[c]) : j < i /\ wire'[c][j] = Overflow
      <4>1. i \in 1..Len(wire[c])
        BY <1>2, <2>3, <3>1, <3>2, <3>3
      <4>2. PICK j \in 1..Len(wire[c]) : j < i /\ wire[c][j] = Overflow
        BY <2>3, <3>1, <3>3, <4>1 DEF Reporting
      <4> QED
        BY <2>6, <4>2
    <3> QED
      BY <1>1, <2>1, <2>4, <3>1, <3>3 DEF Reporting
  <2> QED
    BY <1>1, <2>4, <2>5 DEF LostFor
<1>8. CASE WriterWrites
  <2> DEFINE m == writer.message
  <2>1. /\ writer.pc = "write" /\ writer'.pc = "take" /\ UNCHANGED <<queue, overflowed>>
        /\ Write(writer.to, m) /\ writer.to = c /\ m \in Message
    BY <1>2, <1>3, <1>8 DEF WriterWrites, stream, Idle
  <2>2. wire'[c] = Append(wire[c], m)
    BY <1>3, <2>1, WriteEffect DEF EventInv
  <2>3. /\ Len(wire'[c]) = Len(wire[c]) + 1
        /\ \A i \in 1..Len(wire[c]) : wire'[c][i] = wire[c][i]
        /\ wire'[c][Len(wire[c]) + 1] = m
    BY <1>2, <2>1, <2>2, AppendProperties
  <2>6. \A j \in 1..Len(wire[c]) :
          j \in 1..Len(wire'[c]) /\ j < Len(wire[c]) + 1 /\ wire'[c][j] = wire[c][j]
    BY <1>2, <2>3
  <2>4. Reported(c) => Reported(c)'
    BY <2>6 DEF Reported
  <2>5. ASSUME NEW n \in lost
        PROVE  Reporting(c, n)'
    <3>1. Reporting(c, n)
      BY DEF LostFor
    <3>2. n <= At(m) => Reported(c)
      BY <2>1, <3>1 DEF Reporting
    <3>3. ASSUME NEW i \in 1..Len(wire'[c]), n <= At(wire'[c][i])
          PROVE  \E j \in 1..Len(wire'[c]) : j < i /\ wire'[c][j] = Overflow
      <4>1. CASE i \in 1..Len(wire[c])
        <5>1. PICK j \in 1..Len(wire[c]) : j < i /\ wire[c][j] = Overflow
          BY <2>3, <3>1, <3>3, <4>1 DEF Reporting
        <5> QED
          BY <2>6, <5>1
      <4>2. CASE i = Len(wire[c]) + 1
        <5>1. PICK j \in 1..Len(wire[c]) : wire[c][j] = Overflow
          BY <2>3, <3>2, <3>3, <4>2 DEF Reported
        <5> QED
          BY <2>6, <4>2, <5>1
      <4> QED
        BY <1>2, <2>3, <4>1, <4>2
    <3> QED
      BY <1>1, <2>1, <2>4, <3>1, <3>3 DEF Reporting
  <2> QED
    BY <1>1, <2>1, <2>4, <2>5 DEF LostFor
<1> QED
  BY <1>4, <1>5, <1>6, <1>7, <1>8 DEF Writer

(* A reader that gets past the head of its socket has not seen a drop.     *)
LEMMA ReadLost ==
  ASSUME EventInv, NEW c \in Client, Read(c), Alone(c)', LostFor(c)
  PROVE  LostFor(c)'
<1> DEFINE m == Head(wire[c])
<1>1. /\ wire[c] \in Seq(Message) /\ wire[c] # <<>> /\ wire'[c] = Tail(wire[c])
      /\ UNCHANGED <<seq, lost, edt, writer, overflowed, queue>>
  BY WireSeq DEF Read, EventInv, TypeOK, registry, stream
<1>2. /\ Len(wire[c]) \in Nat /\ Len(wire'[c]) = Len(wire[c]) - 1 /\ 1 \in 1..Len(wire[c])
      /\ m = wire[c][1] /\ m \in Message
      /\ \A i \in 1..Len(wire'[c]) : wire'[c][i] = wire[c][i + 1]
  BY <1>1, HeadTailProperties
<1>3. /\ \A i \in 1..Len(wire'[c]) : i + 1 \in 1..Len(wire[c])
      /\ \A i \in 1..Len(wire[c]) : i # 1 => i - 1 \in 1..Len(wire'[c]) /\ wire'[c][i - 1] = wire[c][i]
  BY <1>2
<1>4. m # Overflow
  BY DEF Read, Alone, Overflow, EventInv, TypeOK
<1>5. Reported(c)' <=> Reported(c)
  <2>1. ASSUME NEW j \in 1..Len(wire[c]), wire[c][j] = Overflow
        PROVE  Reported(c)'
    <3>1. j # 1
      BY <1>2, <1>4, <2>1
    <3> QED
      BY <1>3, <2>1, <3>1 DEF Reported
  <2>2. ASSUME NEW j \in 1..Len(wire'[c]), wire'[c][j] = Overflow
        PROVE  Reported(c)
    BY <1>2, <1>3, <2>2 DEF Reported
  <2> QED
    BY <2>1, <2>2 DEF Reported
<1>6. seen'[c] = seen[c] \/ (Data(m) /\ seen'[c] = At(m))
  BY <1>2, MessageFacts DEF Read, Data, IsSnapshot, IsEvent, EventInv, TypeOK
<1>7. ASSUME NEW n \in lost
      PROVE  Reporting(c, n)'
  <2>1. Reporting(c, n) /\ n \in Nat
    BY DEF LostFor, EventInv, TypeOK
  <2>2. ~(n <= At(m)) /\ At(m) \in Nat
    BY <1>2, <2>1, MessageFacts DEF Reporting
  <2>3. seen'[c] < n
    BY <1>6, <2>1, <2>2 DEF Reporting
  <2>4. ASSUME NEW i \in 1..Len(wire'[c]), n <= At(wire'[c][i])
        PROVE  \E j \in 1..Len(wire'[c]) : j < i /\ wire'[c][j] = Overflow
    <3>1. PICK j \in 1..Len(wire[c]) : j < i + 1 /\ wire[c][j] = Overflow
      BY <1>2, <1>3, <2>1, <2>4 DEF Reporting
    <3>2. j # 1
      BY <1>2, <1>4, <3>1
    <3> QED
      BY <1>2, <1>3, <3>1, <3>2
  <2> QED
    BY <1>1, <1>5, <2>1, <2>3, <2>4 DEF Reporting
<1> QED
  BY <1>1, <1>5, <1>7 DEF LostFor

(* Every step leaves each dropped event with its report to come.           *)
LEMMA LostStep ==
  ASSUME EventInv, DeliveryInv, LostInv, [Next]_vars
  PROVE  LostInv'
<1> SUFFICES ASSUME NEW c \in Client, Alone(c)'
             PROVE  LostFor(c)'
  BY DEF LostInv
<1>1. Alone(c) /\ LostFor(c) /\ \A d \in Client : Connect(d) \/ Read(d) \/ Close(d) => d = c
  BY AloneBefore DEF LostInv, DeliveryInv
<1>2. CASE Edt
  BY <1>1, <1>2, EdtLost DEF DeliveryInv
<1>3. CASE Writer
  BY <1>1, <1>3, WriterLost DEF DeliveryInv
<1>4. CASE Accept
  <2> DEFINE b == Head(backlog)
  <2>1. b \in Client /\ Write(b, Hello) /\ UNCHANGED <<seen, seq, lost, edt, writer, overflowed, queue>>
    BY <1>4, TailType DEF Accept, EventInv, TypeOK, registry, stream, python
  <2>2. wire[c] \in Seq(Message) /\ Len(wire[c]) \in Nat
    BY WireSeq DEF EventInv
  <2>3. CASE wire'[c] = wire[c]
    <3>1. Reported(c)' <=> Reported(c)
      BY <2>3 DEF Reported
    <3> QED
      BY <1>1, <2>1, <2>3, <3>1 DEF LostFor, Reporting
  <2>4. CASE wire'[c] = Append(wire[c], Hello)
    <3>1. /\ Len(wire'[c]) = Len(wire[c]) + 1
          /\ \A i \in 1..Len(wire[c]) : wire'[c][i] = wire[c][i]
          /\ wire'[c][Len(wire[c]) + 1] = Hello
      BY <2>2, <2>4, NoData, AppendProperties
    <3>2. Reported(c) => Reported(c)'
      BY <2>2, <3>1 DEF Reported
    <3>3. ASSUME NEW n \in lost
          PROVE  Reporting(c, n)'
      <4>1. Reporting(c, n) /\ n \in Nat /\ n > 0
        BY <1>1 DEF LostFor, EventInv, TypeOK
      <4>2. At(Hello) = 0
        BY NoData
      <4>3. ASSUME NEW i \in 1..Len(wire'[c]), n <= At(wire'[c][i])
            PROVE  \E j \in 1..Len(wire'[c]) : j < i /\ wire'[c][j] = Overflow
        <5>1. i \in 1..Len(wire[c])
          BY <2>2, <3>1, <4>1, <4>2, <4>3
        <5>2. PICK j \in 1..Len(wire[c]) : j < i /\ wire[c][j] = Overflow
          BY <3>1, <4>1, <4>3, <5>1 DEF Reporting
        <5> QED
          BY <2>2, <3>1, <5>2
      <4> QED
        BY <2>1, <3>2, <4>1, <4>3 DEF Reporting
    <3> QED
      BY <1>1, <2>1, <3>2, <3>3 DEF LostFor
  <2> QED
    BY <2>1, <2>3, <2>4, WriteEffect DEF EventInv
<1>5. CASE AttachClient
  BY <1>5 DEF AttachClient, LostFor
<1>6. CASE SetOverflowed
  <2>1. UNCHANGED <<wire, seen, seq, lost, writer, queue>> /\ overflowed'
    BY <1>6 DEF SetOverflowed, registry, python
  <2>2. Reported(c)' <=> Reported(c)
    BY <2>1 DEF Reported
  <2> QED
    BY <1>1, <2>1, <2>2 DEF LostFor, Reporting
<1>7. CASE TakesOver \/ Detach \/ (\E d \in Client : Connect(d)) \/ UNCHANGED vars
  <2>1. UNCHANGED <<wire, seen, seq, lost, edt, writer, overflowed, queue>>
    BY <1>7 DEF TakesOver, Detach, Connect, vars, registry, stream, python
  <2>2. Reported(c)' <=> Reported(c)
    BY <2>1 DEF Reported
  <2> QED
    BY <1>1, <2>1, <2>2 DEF LostFor, Reporting
<1>8. CASE \E d \in Client : Read(d)
  BY <1>1, <1>8, ReadLost
<1>9. CASE \E d \in Client : Close(d)
  BY <1>1, <1>9 DEF Close, Alone, EventInv, TypeOK
<1> QED
  BY <1>2, <1>3, <1>4, <1>5, <1>6, <1>7, <1>8, <1>9 DEF Next, AcceptThread

-----------------------------------------------------------------------------
(* Only a client that is served has a mirror and lives.                    *)
LEMMA ReadServed ==
  ASSUME EventInv, WaitingInv, NEW c \in Client, client[c] = "connected", c \in seeded
  PROVE  Served(c)
BY DEF WaitingInv, BacklogInv, FreshInv, Served, EventInv, TypeOK

(* The event at the head of a socket is the one after the mirror's, unless *)
(* the client took over from another and an event was dropped.             *)
LEMMA NextEvent ==
  ASSUME EventInv, DeliveryInv, PipeInv, LostInv, NEW c \in Client, Served(c), c \in seeded,
         wire[c] # <<>>, IsEvent(Head(wire[c])), Replaced(c) => lost = {}
  PROVE  At(Head(wire[c])) = seen[c] + 1
<1> DEFINE m == Head(wire[c])
           y == Held(c) \o queue
           s == seen[c]
<1>1. /\ wire[c] \in Seq(Message) /\ Held(c) \in Seq(Message) /\ queue \in Seq(Message)
      /\ Pipe(c) = wire[c] \o y /\ Pipe(c) \in Seq(Message) /\ seq \in Nat /\ s \in Nat
  BY PipeParts
<1>2. y \in Seq(Message)
  BY <1>1, ConcatProperties
<1>3. Pipe(c) # <<>> /\ Head(Pipe(c)) = m
  BY <1>1, <1>2, TailConcat
<1>4. After(Pipe(c), 0, s, lost, seq)
  BY DEF PipeInv, PipeOK
<1>5. s < At(m) /\ \A k \in 1..seq : s < k /\ k < At(m) => k \in lost
  <2> DEFINE p == Pipe(c)
  <2> HIDE DEF p, s, m
  <2>1. p \in Seq(Message) /\ p # <<>> /\ s \in Nat /\ seq \in Nat /\ After(p, 0, s, lost, seq)
        /\ IsEvent(Head(p)) /\ Head(p) = m
    BY <1>1, <1>3, <1>4 DEF p, m
  <2> QED
    BY <2>1, NoGap
<1>6. At(m) \in Nat /\ At(m) <= seq
  <2>1. m \in Message /\ Sound(m, history, seq)
    BY <1>1, AllSoundTail, HeadTailProperties DEF DeliveryInv, MessagesInv
  <2> QED
    BY <1>1, <2>1, AtBound
<1>7. ASSUME At(m) # s + 1
      PROVE  FALSE
  <2>1. s + 1 \in 1..seq /\ s < s + 1 /\ s + 1 < At(m)
    BY <1>1, <1>5, <1>6, <1>7
  <2>2. s + 1 \in lost
    BY <1>5, <2>1
  <2>3. Alone(c)
    BY <2>2 DEF Alone, Served
  <2>4. Reporting(c, s + 1)
    BY <2>2, <2>3 DEF LostInv, LostFor
  <2>5. 1 \in 1..Len(wire[c]) /\ m = wire[c][1] /\ Len(wire[c]) \in Nat
    BY <1>1, HeadTailProperties
  <2>6. s + 1 <= At(wire[c][1])
    BY <1>1, <1>6, <2>1, <2>5
  <2>7. \E j \in 1..Len(wire[c]) : j < 1
    BY <2>4, <2>5, <2>6 DEF Reporting
  <2> QED
    BY <2>5, <2>7
<1> QED
  BY <1>7

(* Every step keeps each mirror at a moment of the registry's history.     *)
LEMMA MirrorStep ==
  ASSUME EventInv, DeliveryInv, PipeInv, LostInv, MirrorInv, [Next]_vars
  PROVE  MirrorInv'
<1> SUFFICES ASSUME NEW c \in Client, Served(c)', c \in seeded', Replaced(c)' => lost' = {}
             PROVE  windows'[c] = history'[seen'[c] + 1]
  BY DEF MirrorInv
<1>0. /\ seq \in Nat /\ history \in Seq(SUBSET Id) /\ Len(history) = seq + 1
      /\ seen[c] \in Nat /\ seen[c] <= seq
  BY DEF EventInv, TypeOK, DeliveryInv, SeenInv
<1>1. CASE Edt
  <2>1. PICK e : EdtStep(e)
    BY <1>1, EdtSteps DEF DeliveryInv
  <2>2. PICK x \in SUBSET Id : history' = Append(history, x)
    BY <2>1 DEF EdtStep
  <2>3. Served(c) /\ UNCHANGED <<windows, seen, seeded, client>> /\ lost \subseteq lost'
    BY <2>1 DEF EdtStep, Served
  <2>4. windows[c] = history[seen[c] + 1]
    BY <2>3 DEF MirrorInv, Replaced
  <2>5. history'[seen[c] + 1] = history[seen[c] + 1]
    <3>1. \A i \in 1..Len(history) : history'[i] = history[i]
      BY <1>0, <2>2, AppendProperties
    <3>2. seen[c] + 1 \in 1..Len(history)
      BY <1>0
    <3> QED
      BY <3>1, <3>2
  <2> QED
    BY <2>3, <2>4, <2>5
<1>2. CASE AttachClient
  BY <1>2 DEF AttachClient, Served, DeliveryInv, WaitingInv, FreshInv, waiting, python
<1>3. CASE Accept \/ TakesOver \/ Detach
  BY <1>3 DEF Accept, TakesOver, Detach, Served
<1>4. CASE SetOverflowed \/ Writer \/ UNCHANGED vars
  <2>1. UNCHANGED <<client, serving, handler, windows, seen, seeded, history, lost>>
    BY <1>4 DEF SetOverflowed, Writer, WriterTakes, WriterTargets, WriterChecks, WriterReports,
                WriterWrites, vars, registry, stream, accepts, python
  <2> QED
    BY <2>1 DEF MirrorInv, Served, Replaced
<1>5. ASSUME NEW d \in Client, Connect(d) \/ Read(d) \/ Close(d)
      PROVE  windows'[c] = history'[seen'[c] + 1]
  <2>1. /\ UNCHANGED <<serving, handler, history, lost>>
        /\ \A b \in Client : client[b] # "new" => client'[b] # "new"
    BY <1>5 DEF Connect, Read, Close, accepts, EventInv, TypeOK
  <2>2. Replaced(c) => Replaced(c)'
    BY <2>1 DEF Replaced
  <2>3. CASE d # c
    <3>1. /\ client'[c] = client[c] /\ seen'[c] = seen[c] /\ windows'[c] = windows[c]
          /\ c \in seeded' <=> c \in seeded
      BY <1>5, <2>3 DEF Connect, Read, Close, EventInv, TypeOK
    <3> QED
      BY <2>1, <2>2, <3>1 DEF MirrorInv, Served
  <2>4. CASE d = c
    <3> DEFINE m == Head(wire[c])
    <3>1. client[c] # "new"
      BY <2>1, NoneAssumption DEF Served, DeliveryInv, ServingInv
    <3>2. Read(c)
      BY <1>5, <2>4, <3>1 DEF Connect, Close, Served, EventInv, TypeOK
    <3>3. wire[c] \in Seq(Message) /\ wire[c] # <<>> /\ client[c] = "connected"
      BY <3>2, WireSeq DEF Read, EventInv
    <3>4. m \in Message /\ Sound(m, history, seq)
      BY <3>3, AllSoundTail, HeadTailProperties DEF DeliveryInv, MessagesInv
    <3>5. Served(c) /\ (Replaced(c) => lost = {})
      BY <2>1, <2>2, <3>3 DEF Served
    <3>6. CASE IsSnapshot(m)
      <4>1. windows'[c] = m.windows /\ seen'[c] = m.at
        BY <3>2, <3>6 DEF Read, IsSnapshot, EventInv, TypeOK
      <4> QED
        BY <2>1, <3>4, <3>6, <4>1 DEF Sound
    <3>7. CASE IsEvent(m)
      <4>1. windows'[c] = Tracked(windows[c], m) /\ seen'[c] = m.seq /\ seeded' = seeded
        BY <3>2, <3>7 DEF Read, IsEvent, EventInv, TypeOK
      <4>2. m.seq = seen[c] + 1
        BY <3>3, <3>4, <3>5, <3>7, <4>1, NextEvent, MessageFacts
      <4>3. windows[c] = history[seen[c] + 1]
        BY <3>5, <4>1 DEF MirrorInv
      <4>4. history[m.seq + 1] = Tracked(history[m.seq], m)
        BY <3>4, <3>7 DEF Sound
      <4> QED
        BY <2>1, <4>1, <4>2, <4>3, <4>4
    <3>8. CASE ~Data(m)
      <4>1. UNCHANGED <<windows, seen, seeded>>
        BY <3>2, <3>8 DEF Read, Data, IsEvent, IsSnapshot
      <4> QED
        BY <2>1, <3>5, <4>1 DEF MirrorInv
    <3> QED
      BY <3>6, <3>7, <3>8 DEF Data
  <2> QED
    BY <2>3, <2>4
<1> QED
  BY <1>1, <1>2, <1>3, <1>4, <1>5 DEF Next, AcceptThread

-----------------------------------------------------------------------------
(* The invariant holds at the start, and every step keeps it.              *)
LEMMA StreamInit == Init => StreamInv
<1> SUFFICES ASSUME Init PROVE StreamInv
  OBVIOUS
<1>1. EventInv
  BY InitInv
<1>2. /\ seq = 0 /\ history = <<{}>> /\ queue = <<>> /\ lost = {} /\ backlog = <<>>
      /\ handler = "accept" /\ serving = None /\ currentWriter = None /\ seeded = {}
      /\ writer.pc = "take" /\ writer.to = None /\ nextWindowId = 1
      /\ \A w \in Window : windowIds[w] = 0
      /\ \A c \in Client : wire[c] = <<>> /\ seen[c] = 0 /\ client[c] = "new"
  BY DEF Init, Idle
<1>3. RegistryInv
  <2>1. registered = {} /\ history[seq + 1] = {}
    BY <1>2 DEF registered
  <2> QED
    BY <1>2, <2>1 DEF RegistryInv
<1>4. MessagesInv
  BY <1>2 DEF MessagesInv, AllSound
<1>5. SeenInv /\ ServingInv /\ WaitingInv
  BY <1>2 DEF SeenInv, ServingInv, WaitingInv, BacklogInv, FreshInv, AllFresh
<1>6. PipeInv /\ MirrorInv /\ LostInv
  BY <1>2 DEF PipeInv, MirrorInv, Served, LostInv, LostFor
<1> QED
  BY <1>1, <1>3, <1>4, <1>5, <1>6 DEF StreamInv, DeliveryInv

LEMMA StreamNext == StreamInv /\ [Next]_vars => StreamInv'
<1> SUFFICES ASSUME StreamInv, [Next]_vars PROVE StreamInv'
  OBVIOUS
<1>1. EventInv'
  BY NextInv DEF StreamInv
<1>2. RegistryInv'
  <2>1. CASE Edt
    BY <2>1, EdtSteps DEF StreamInv, DeliveryInv
  <2>2. CASE ~Edt
    <3>1. UNCHANGED <<windowIds, nextWindowId, seq, history>>
      BY <2>2 DEF Next, vars, SetOverflowed, AcceptThread, Accept, TakesOver, AttachClient, Detach, Writer, WriterTakes,
                  WriterTargets, WriterChecks, WriterReports, WriterWrites, Connect, Read, Close, registry
    <3> QED
      BY <3>1 DEF StreamInv, DeliveryInv, RegistryInv, registered
  <2> QED
    BY <2>1, <2>2
<1>3. MessagesInv' /\ SeenInv' /\ ServingInv' /\ WaitingInv'
  BY MessagesStep, SeenStep, ServingStep, WaitingStep DEF StreamInv, DeliveryInv
<1>4. PipeInv' /\ LostInv' /\ MirrorInv'
  BY PipeStep, LostStep, MirrorStep DEF StreamInv
<1> QED
  BY <1>1, <1>2, <1>3, <1>4 DEF StreamInv, DeliveryInv

LEMMA StreamAlways == Spec => []StreamInv
BY StreamInit, StreamNext, PTL DEF Spec

(* Dispatcher.windows is the registry as it was after one of the events,   *)
(* for every number of windows and clients and every capacity.             *)
THEOREM MirrorsAPast == Spec => []MirrorIsPast
<1>1. StreamInv => MirrorIsPast
  BY ReadServed DEF StreamInv, DeliveryInv, MirrorIsPast, Trusted, Reading, MirrorInv
<1> QED
  BY <1>1, StreamAlways, PTL

(* The only reader there was stops before it applies an event that came    *)
(* after a dropped one.                                                    *)
THEOREM GapsEndReaders == Spec => []GapEndsOnlyReader
<1>1. ASSUME StreamInv, NEW c \in Client, Trusted(c), NEW n \in lost
      PROVE  seen[c] < n
  <2>1. Alone(c)
    BY <1>1 DEF Trusted, Reading, Alone
  <2> QED
    BY <1>1, <2>1 DEF StreamInv, LostInv, LostFor, Reporting
<1>2. StreamInv => GapEndsOnlyReader
  BY <1>1 DEF GapEndsOnlyReader
<1> QED
  BY <1>2, StreamAlways, PTL

(* A mirror with nothing on its way to it and no drop to be told of is the *)
(* registry (EventBridge.windowIds).                                       *)
THEOREM DrainedMirrors == Spec => []DrainedIsCurrent
<1>1. ASSUME StreamInv, NEW c \in Client, Drained(c), ~overflowed
      PROVE  windows[c] = registered
  <2>1. /\ client[c] = "connected" /\ c \in seeded /\ (Replaced(c) => lost = {})
        /\ queue = <<>> /\ writer.pc = "take" /\ wire[c] = <<>> /\ edt = "free"
    BY <1>1 DEF Drained, Trusted, Reading
  <2>2. Served(c)
    BY <1>1, <2>1, ReadServed DEF StreamInv, DeliveryInv
  <2>3. lost = {}
    <3>1. ~Reported(c)
      BY <2>1 DEF Reported
    <3>2. Alone(c) => lost = {}
      BY <1>1, <2>1, <3>1 DEF StreamInv, LostInv, LostFor
    <3> QED
      BY <2>1, <3>2 DEF Alone
  <2>4. Pipe(c) = <<>>
    BY <2>1 DEF Pipe, Held, HeldFor
  <2>5. After(<<>>, 0, seen[c], {}, seq)
    BY <1>1, <2>1, <2>2, <2>3, <2>4 DEF StreamInv, PipeInv, PipeOK
  <2>6. \A k \in 1..seq : ~(seen[c] < k)
    BY <2>5 DEF After
  <2>7. seen[c] \in Nat /\ seq \in Nat /\ seen[c] <= seq
    BY <1>1 DEF StreamInv, DeliveryInv, SeenInv, EventInv, TypeOK
  <2>8. seen[c] = seq
    BY <2>6, <2>7
  <2> QED
    BY <1>1, <2>1, <2>2, <2>3, <2>8 DEF StreamInv, DeliveryInv, MirrorInv, RegistryInv
<1>2. StreamInv => DrainedIsCurrent
  BY <1>1 DEF DrainedIsCurrent
<1> QED
  BY <1>2, StreamAlways, PTL

(* Once it has its snapshot a client is never taken back to an event older *)
(* than the one it is up to.                                               *)
THEOREM OnlyNewer == Spec => NewerThanSnapshot
<1>1. ASSUME StreamInv, [Next]_vars, NEW c \in Client, c \in seeded, wire'[c] # wire[c]
      PROVE  seen'[c] >= seen[c]
  <2>1. seen[c] \in Nat
    BY <1>1 DEF StreamInv, EventInv, TypeOK
  <2>2. CASE seen'[c] = seen[c]
    BY <2>1, <2>2
  <2>3. CASE seen'[c] # seen[c]
    <3> DEFINE m == Head(wire[c])
               y == Held(c) \o queue
    <3>1. Read(c)
      <4>1. CASE Edt
        BY <1>1, <2>3, <4>1, EdtSteps DEF EdtStep, StreamInv, DeliveryInv
      <4>2. CASE ~Edt /\ ~\E d \in Client : Read(d)
        BY <1>1, <2>3, <4>2 DEF Next, vars, SetOverflowed, AcceptThread, Accept, TakesOver, AttachClient, Detach, Writer,
              WriterTakes, WriterTargets, WriterChecks, WriterReports, WriterWrites, Connect, Close, python
      <4>3. ASSUME NEW d \in Client, Read(d), d # c
            PROVE  FALSE
        BY <1>1, <2>3, <4>3 DEF Read, StreamInv, EventInv, TypeOK
      <4> QED
        BY <4>1, <4>2, <4>3
    <3>2. client[c] = "connected" /\ wire[c] # <<>>
      BY <3>1 DEF Read
    <3>3. PipeOK(Pipe(c), c, seen[c], c \in seeded, lost, seq)
      BY <1>1, <3>2, ReadServed DEF StreamInv, DeliveryInv, PipeInv
    <3>4. /\ wire[c] \in Seq(Message) /\ Held(c) \in Seq(Message) /\ queue \in Seq(Message)
          /\ Pipe(c) = wire[c] \o y /\ Pipe(c) \in Seq(Message)
      BY <1>1, PipeParts DEF StreamInv
    <3>5. Pipe(c) # <<>> /\ Head(Pipe(c)) = m
      <4>1. y \in Seq(Message)
        BY <3>4, ConcatProperties
      <4> QED
        <5> DEFINE w == wire[c]
        <5> HIDE DEF w, y
        <5>1. w \in Seq(Message) /\ w # <<>> /\ y \in Seq(Message) /\ Pipe(c) = w \o y
          BY <3>2, <3>4, <4>1 DEF w
        <5>2. w \o y # <<>> /\ Head(w \o y) = Head(w)
          BY <5>1, MessageTail
        <5> QED
          BY <5>1, <5>2 DEF w
    <3>6. 1 \in 1..Len(Pipe(c)) /\ Pipe(c)[1] = m
      <4> DEFINE p == Pipe(c)
      <4> HIDE DEF p
      <4>1. p \in Seq(Message) /\ p # <<>> /\ Head(p) = m
        BY <3>4, <3>5 DEF p
      <4>2. 1 \in 1..Len(p) /\ p[1] = m
        BY <4>1
      <4> QED
        BY <4>2 DEF p
    <3>7. m \in Message
      BY <3>2, <3>4, HeadTailProperties
    <3>8. Data(m) /\ seen'[c] = At(m)
      BY <1>1, <2>3, <3>1, <3>7, MessageFacts DEF Read, Data, IsEvent, IsSnapshot, StreamInv, EventInv, TypeOK
    <3>9. seen[c] <= At(m)
      BY <1>1, <2>1, <3>3, <3>6, <3>7, <3>8, MessageFacts DEF PipeOK, After, Data
    <3> QED
      BY <2>1, <3>7, <3>8, <3>9, MessageFacts
  <2> QED
    BY <2>2, <2>3
<1>2. StreamInv /\ [Next]_vars =>
        [\A c \in Client : c \in seeded /\ wire'[c] # wire[c] => seen'[c] >= seen[c]]_vars
  BY <1>1
<1> QED
  BY <1>2, StreamAlways, PTL DEF Spec, NewerThanSnapshot
=============================================================================
