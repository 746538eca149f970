-------------------------- MODULE AgentSocket_proofs --------------------------
(* Proofs about AgentSocket, for any supervisors and any number of         *)
(* launches.                                                               *)
EXTENDS AgentSocket, SequenceTheorems, TLAPS

-----------------------------------------------------------------------------
FileType ==
  /\ file \in [Paths -> {Nobody, Left} \cup Agents]
  /\ bound \in [Agents -> SUBSET Paths]

AgentType ==
  /\ apc \in [Agents -> {"off", "exists", "isAlive", "delete", "bind", "serving", "dead"}]
  /\ binding \in [Agents -> Paths]

QueueType == queue \in [Agents -> Seq(Supervisors)]

SupervisorType ==
  /\ spc \in [Supervisors -> {"idle", "waiting", "probing", "connecting", "connected",
                              "stopping"}]
  /\ own \in [Supervisors -> {Nobody} \cup Agents]
  /\ target \in [Supervisors -> {Nobody} \cup Agents]
  /\ events \in [Supervisors -> {Nobody} \cup Agents]
  /\ launches \in Nat /\ launches <= MaxLaunches
  /\ reaped \subseteq Agents

Alive(a) == apc[a] \notin {"off", "dead"}

(* The agents launched so far; every one that lives is the last of some    *)
(* supervisor, and only it listens.                                        *)
LaunchInv ==
  /\ \A a \in Agents : apc[a] = "off" <=> a > launches
  /\ \A a \in Agents : bound[a] # {} => Alive(a)
  /\ \A a \in reaped : apc[a] = "dead"
  /\ \A s \in Supervisors :
       /\ own[s] <= launches
       /\ spc[s] = "idle" => own[s] \in {Nobody} \cup reaped
  /\ \A a \in Agents : Alive(a) => \E s \in Supervisors : own[s] = a

(* A supervisor has one command connection, and waits there once.          *)
QueueInv ==
  \A a \in Agents :
    /\ IsInjective(queue[a])
    /\ \A i \in 1..Len(queue[a]) : target[queue[a][i]] = a

(* What a connection leads to was spawned by somebody.                     *)
Foreign(s) == \E t \in Supervisors \ {s} : own[t] # Nobody

ConnectionInv ==
  \A s \in Supervisors :
    /\ spc[s] \in {"idle", "waiting"} => target[s] = Nobody
    /\ spc[s] \in {"idle", "waiting", "probing", "connecting"} => events[s] = Nobody
    /\ spc[s] = "connected" => target[s] # Nobody /\ events[s] # Nobody
    /\ target[s] \in {Nobody, own[s]} \/ Foreign(s)
    /\ events[s] \in {Nobody, own[s]} \/ Foreign(s)

SocketInv ==
  /\ FileType /\ AgentType /\ QueueType /\ SupervisorType
  /\ LaunchInv /\ QueueInv /\ ConnectionInv

LEMMA Numbers ==
  /\ MaxLaunches \in Nat
  /\ Agents = 1..MaxLaunches
  /\ Nobody \notin Agents /\ Left \notin Agents
  /\ \A a \in Agents : a \in Nat /\ a >= 1 /\ a <= MaxLaunches
BY SocketAssumption DEF Agents, Nobody, Left

LEMMA InvImpliesType == SocketInv => TypeOK
<1> SUFFICES ASSUME SocketInv PROVE TypeOK
  OBVIOUS
<1>1. {own, target, events} \subseteq [Supervisors -> {Nobody} \cup Agents]
  BY DEF SocketInv, SupervisorType
<1>2. launches \in 0 .. MaxLaunches
  BY Numbers DEF SocketInv, SupervisorType
<1>3. \A a \in Agents : IsInjective(queue[a])
  BY DEF SocketInv, QueueInv
<1> QED
  BY <1>1, <1>2, <1>3, Zenon
  DEF SocketInv, FileType, AgentType, QueueType, SupervisorType, TypeOK

-----------------------------------------------------------------------------
(* A client that waits once in a queue leaves it by taking out its place.  *)
LEMMA PlaceTaken ==
  ASSUME NEW S, NEW q \in Seq(S), NEW s, NEW j \in 1..Len(q), q[j] = s, IsInjective(q)
  PROVE  RemoveFirst(q, s) = RemoveAt(q, j)
<1>1. \A i \in DOMAIN q : q[i] = s <=> i = j
  BY DEF IsInjective
<1>2. SelectInSeq(q, LAMBDA v : v = s) = j
  <2>1. {i \in DOMAIN q : q[i] = s} = {j}
    BY <1>1
  <2> QED
    BY <2>1 DEF SelectInSeq, Min
<1> QED
  BY <1>2 DEF RemoveFirst

LEMMA PlaceClosed ==
  ASSUME NEW S, NEW q \in Seq(S), NEW j \in 1..Len(q)
  PROVE  /\ RemoveAt(q, j) \in Seq(S) /\ Len(RemoveAt(q, j)) = Len(q) - 1
         /\ \A i \in 1..(Len(q) - 1) : RemoveAt(q, j)[i] = IF i < j THEN q[i] ELSE q[i + 1]
<1> DEFINE l == SubSeq(q, 1, j - 1)
           r == SubSeq(q, j + 1, Len(q))
<1>1. j \in Nat /\ j >= 1 /\ j <= Len(q) /\ Len(q) \in Nat
  OBVIOUS
<1>2. /\ l \in Seq(S) /\ Len(l) = j - 1
      /\ \A i \in 1..(j - 1) : l[i] = q[i]
  BY <1>1, SubSeqProperties
<1>3. /\ r \in Seq(S) /\ Len(r) = Len(q) - j
      /\ \A i \in 1..(Len(q) - j) : r[i] = q[i + j]
  BY <1>1, SubSeqProperties
<1> HIDE DEF l, r
<1>4. /\ l \o r \in Seq(S) /\ Len(l \o r) = Len(q) - 1
      /\ \A i \in 1..(Len(q) - 1) : (l \o r)[i] = IF i <= j - 1 THEN l[i] ELSE r[i - (j - 1)]
  <2>1. /\ l \o r \in Seq(S) /\ Len(l \o r) = Len(l) + Len(r)
        /\ \A i \in 1..(Len(l) + Len(r)) :
             (l \o r)[i] = IF i <= Len(l) THEN l[i] ELSE r[i - Len(l)]
    BY <1>2, <1>3, ConcatProperties
  <2>2. Len(l) + Len(r) = Len(q) - 1
    BY <1>1, <1>2, <1>3
  <2> QED
    BY <1>2, <2>1, <2>2
<1>5. ASSUME NEW i \in 1..(Len(q) - 1) PROVE (l \o r)[i] = IF i < j THEN q[i] ELSE q[i + 1]
  <2>1. CASE i < j
    <3>1. i \in 1..(j - 1) /\ i <= j - 1
      BY <1>1, <2>1
    <3> QED
      BY <1>2, <1>4, <2>1, <3>1
  <2>2. CASE ~(i < j)
    <3>1. i - (j - 1) \in 1..(Len(q) - j) /\ ~(i <= j - 1) /\ (i - (j - 1)) + j = i + 1
      BY <1>1, <2>2
    <3> QED
      BY <1>3, <1>4, <2>2, <3>1
  <2> QED
    BY <2>1, <2>2
<1> QED
  BY <1>4, <1>5 DEF RemoveAt, l, r

LEMMA Leaves ==
  ASSUME NEW S, NEW q \in Seq(S), NEW s, IsInjective(q)
  PROVE  /\ RemoveFirst(q, s) \in Seq(S)
         /\ IsInjective(RemoveFirst(q, s))
         /\ \A i \in 1..Len(RemoveFirst(q, s)) :
              RemoveFirst(q, s)[i] # s /\ \E k \in 1..Len(q) : RemoveFirst(q, s)[i] = q[k]
<1>1. CASE ~ \E j \in 1..Len(q) : q[j] = s
  BY <1>1 DEF RemoveFirst
<1>2. ASSUME NEW j \in 1..Len(q), q[j] = s
      PROVE  /\ RemoveFirst(q, s) \in Seq(S)
             /\ IsInjective(RemoveFirst(q, s))
             /\ \A i \in 1..Len(RemoveFirst(q, s)) :
                  RemoveFirst(q, s)[i] # s /\ \E k \in 1..Len(q) : RemoveFirst(q, s)[i] = q[k]
  <2> DEFINE r == RemoveFirst(q, s)
             at(i) == IF i < j THEN i ELSE i + 1
  <2>1. /\ r \in Seq(S) /\ Len(r) = Len(q) - 1
        /\ \A i \in 1..(Len(q) - 1) : r[i] = IF i < j THEN q[i] ELSE q[i + 1]
    <3>1. r = RemoveAt(q, j)
      BY <1>2, PlaceTaken
    <3>2. /\ RemoveAt(q, j) \in Seq(S) /\ Len(RemoveAt(q, j)) = Len(q) - 1
          /\ \A i \in 1..(Len(q) - 1) : RemoveAt(q, j)[i] = IF i < j THEN q[i] ELSE q[i + 1]
      BY PlaceClosed
    <3> HIDE DEF r
    <3> QED
      BY <3>1, <3>2
  <2>2. DOMAIN r = 1..(Len(q) - 1) /\ Len(q) \in Nat /\ DOMAIN q = 1..Len(q)
    BY <2>1
  <2> HIDE DEF r
  <2>3. \A i \in 1..(Len(q) - 1) : at(i) \in 1..Len(q) /\ at(i) # j /\ r[i] = q[at(i)]
    BY <2>1, <2>2
  <2>4. \A i, k \in 1..(Len(q) - 1) : at(i) = at(k) => i = k
    BY <2>2
  <2> HIDE DEF at
  <2>5. IsInjective(r)
    BY <2>2, <2>3, <2>4 DEF IsInjective
  <2>6. \A i \in 1..(Len(q) - 1) : r[i] # s /\ \E k \in 1..Len(q) : r[i] = q[k]
    BY <1>2, <2>2, <2>3 DEF IsInjective
  <2> QED
    BY <2>1, <2>5, <2>6 DEF r
<1> QED
  BY <1>1, <1>2

LEMMA Waits ==
  ASSUME NEW S, NEW q \in Seq(S), NEW s \in S, IsInjective(q), \A i \in 1..Len(q) : q[i] # s
  PROVE  /\ Append(q, s) \in Seq(S) /\ IsInjective(Append(q, s))
         /\ \A i \in 1..Len(Append(q, s)) : Append(q, s)[i] = s \/ \E k \in 1..Len(q) : Append(q, s)[i] = q[k]
<1>1. /\ Append(q, s) \in Seq(S) /\ Len(q) \in Nat /\ DOMAIN Append(q, s) = 1..(Len(q) + 1)
      /\ Len(Append(q, s)) = Len(q) + 1 /\ DOMAIN q = 1..Len(q)
      /\ Append(q, s)[Len(q) + 1] = s
      /\ \A i \in 1..Len(q) : Append(q, s)[i] = q[i]
  OBVIOUS
<1>2. \A i \in 1..(Len(q) + 1) : i \in 1..Len(q) \/ i = Len(q) + 1
  BY <1>1
<1>3. IsInjective(Append(q, s))
  BY <1>1, <1>2 DEF IsInjective
<1> QED
  BY <1>1, <1>2, <1>3

-----------------------------------------------------------------------------
LEMMA InitInv == Init => SocketInv
<1> SUFFICES ASSUME Init PROVE SocketInv
  OBVIOUS
<1>1. FileType /\ AgentType
  BY DEF Init, FileType, AgentType, Paths
<1>2. QueueType
  BY DEF Init, QueueType
<1>3. SupervisorType
  BY Numbers DEF Init, SupervisorType
<1>4. LaunchInv
  BY Numbers DEF Init, LaunchInv, Alive, Nobody
<1>5. QueueInv
  BY DEF Init, QueueInv, IsInjective
<1>6. ConnectionInv
  BY DEF Init, ConnectionInv
<1> QED
  BY <1>1, <1>2, <1>3, <1>4, <1>5, <1>6 DEF SocketInv

(* The supervisors are as they were. *)
LEMMA SameConnections ==
  ASSUME ConnectionInv, UNCHANGED <<spc, own, target, events>>
  PROVE  ConnectionInv'
BY DEF ConnectionInv, Foreign

LEMMA DiesStep ==
  ASSUME SocketInv, NEW a \in Agents, Alive(a), Dies(a), UNCHANGED <<supervisor, reaped>>
  PROVE  SocketInv'
<1> USE DEF supervisor
<1>1. FileType' /\ AgentType'
  BY DEF SocketInv, Dies, FileType, AgentType, Paths
<1>2. QueueType' /\ SupervisorType'
  BY DEF SocketInv, Dies, QueueType, SupervisorType
<1>3. LaunchInv'
  <2>1. \A b \in Agents : apc'[b] = IF b = a THEN "dead" ELSE apc[b]
    BY DEF SocketInv, AgentType, Dies
  <2>2. \A b \in Agents : bound'[b] = IF b = a THEN {} ELSE bound[b]
    BY DEF SocketInv, FileType, Dies
  <2>3. reaped \subseteq Agents
    BY DEF SocketInv, SupervisorType
  <2> QED
    BY <2>1, <2>2, <2>3 DEF SocketInv, LaunchInv, Alive
<1>4. QueueInv'
  <2>1. \A b \in Agents : queue'[b] = IF b = a THEN <<>> ELSE queue[b]
    BY DEF SocketInv, QueueType, Dies
  <2> QED
    BY <2>1 DEF SocketInv, QueueInv, IsInjective
<1>5. ConnectionInv'
  BY SameConnections DEF SocketInv
<1> QED
  BY <1>1, <1>2, <1>3, <1>4, <1>5 DEF SocketInv

(* A step of an agent that lives on. *)
LEMMA AgentStep ==
  ASSUME SocketInv, FileType', AgentType', UNCHANGED <<queue, supervisor, reaped>>,
         NEW a \in Agents, Alive(a), Alive(a)',
         \A b \in Agents \ {a} : apc'[b] = apc[b] /\ bound'[b] = bound[b]
  PROVE  SocketInv'
<1> USE DEF supervisor
<1>1. QueueType' /\ SupervisorType' /\ QueueInv'
  BY DEF SocketInv, QueueType, SupervisorType, QueueInv
<1>2. LaunchInv'
  <2>1. \A b \in Agents : Alive(b)' <=> Alive(b)
    BY DEF Alive
  <2>2. reaped \subseteq Agents /\ a \notin reaped
    BY DEF SocketInv, SupervisorType, LaunchInv, Alive
  <2>3. \A b \in Agents : apc'[b] = "off" <=> apc[b] = "off"
    BY DEF Alive
  <2> QED
    BY <2>1, <2>2, <2>3 DEF SocketInv, LaunchInv
<1>3. ConnectionInv'
  BY SameConnections DEF SocketInv
<1> QED
  BY <1>1, <1>2, <1>3 DEF SocketInv

LEMMA StartsStep ==
  ASSUME SocketInv, NEW a \in Agents, Starts(a) \/ AgentExits(a)
  PROVE  SocketInv'
<1> USE DEF sockets, supervisor
<1>1. FileType /\ AgentType
  BY DEF SocketInv
<1>2. CASE Exists(a)
  <2>1. FileType' /\ AgentType'
    BY <1>1, <1>2 DEF Exists, FileType, AgentType
  <2>2. Alive(a) /\ Alive(a)' /\ \A b \in Agents \ {a} : apc'[b] = apc[b] /\ bound'[b] = bound[b]
    BY <1>1, <1>2 DEF Exists, AgentType, Alive
  <2> QED
    BY <1>2, <2>1, <2>2, AgentStep DEF Exists
<1>3. CASE IsAlive(a)
  <2>1. Alive(a)
    BY <1>3 DEF IsAlive, Alive
  <2>2. CASE Dies(a)
    BY <1>3, <2>1, <2>2, DiesStep DEF IsAlive
  <2>3. CASE apc' = [apc EXCEPT ![a] = "delete"] /\ UNCHANGED <<file, bound, binding, queue>>
    <3>1. FileType' /\ AgentType'
      BY <1>1, <2>3 DEF FileType, AgentType
    <3>2. Alive(a)' /\ \A b \in Agents \ {a} : apc'[b] = apc[b] /\ bound'[b] = bound[b]
      BY <1>1, <2>3 DEF AgentType, Alive
    <3> QED
      BY <1>3, <2>1, <2>3, <3>1, <3>2, AgentStep DEF IsAlive
  <2> QED
    BY <1>3, <2>2, <2>3 DEF IsAlive
<1>4. CASE Delete(a)
  <2>1. Alive(a)
    BY <1>4 DEF Delete, Alive
  <2>2. CASE Dies(a)
    BY <1>4, <2>1, <2>2, DiesStep DEF Delete
  <2>3. CASE /\ file' = [file EXCEPT ![binding[a]] = Nobody] /\ apc' = [apc EXCEPT ![a] = "bind"]
             /\ UNCHANGED <<bound, binding, queue>>
    <3>1. FileType' /\ AgentType'
      BY <1>1, <2>3 DEF FileType, AgentType
    <3>2. Alive(a)' /\ \A b \in Agents \ {a} : apc'[b] = apc[b] /\ bound'[b] = bound[b]
      BY <1>1, <2>3 DEF AgentType, Alive
    <3> QED
      BY <1>4, <2>1, <2>3, <3>1, <3>2, AgentStep DEF Delete
  <2> QED
    BY <1>4, <2>2, <2>3 DEF Delete
<1>5. CASE Bind(a)
  <2>1. Alive(a)
    BY <1>5 DEF Bind, Alive
  <2>2. CASE Dies(a)
    BY <1>5, <2>1, <2>2, DiesStep DEF Bind
  <2>3. CASE ~Dies(a)
    <3>1. /\ file' = [file EXCEPT ![binding[a]] = a]
          /\ bound' = [bound EXCEPT ![a] = @ \cup {binding[a]}]
          /\ apc' = [apc EXCEPT ![a] = IF binding[a] = "cmd" THEN "exists" ELSE "serving"]
          /\ binding' = [binding EXCEPT ![a] = "events"]
          /\ UNCHANGED <<queue, supervisor, reaped>>
      BY <1>5, <2>3 DEF Bind
    <3>2. FileType' /\ AgentType'
      BY <1>1, <3>1 DEF FileType, AgentType, Paths
    <3>3. Alive(a)' /\ \A b \in Agents \ {a} : apc'[b] = apc[b] /\ bound'[b] = bound[b]
      BY <1>1, <3>1 DEF FileType, AgentType, Alive
    <3> QED
      BY <2>1, <3>1, <3>2, <3>3, AgentStep
  <2> QED
    BY <2>2, <2>3
<1>6. CASE AgentExits(a)
  BY <1>6, DiesStep DEF AgentExits, Alive
<1> QED
  BY <1>2, <1>3, <1>4, <1>5, <1>6 DEF Starts

-----------------------------------------------------------------------------
(* Who listens lives, and was spawned by a supervisor. *)
LEMMA ListenerOwned ==
  ASSUME SocketInv, NEW p \in Paths, Listening(p)
  PROVE  file[p] \in Agents /\ file[p] # Nobody /\ \E s \in Supervisors : own[s] = file[p]
<1>1. file[p] \in Agents /\ bound[file[p]] # {}
  BY DEF Listening
<1> QED
  BY <1>1, Numbers DEF SocketInv, LaunchInv

(* The supervisor s closes its connections. *)
LEMMA DisconnectStep ==
  ASSUME SocketInv, NEW s \in Supervisors, queue' = Disconnected(s),
         target' = [target EXCEPT ![s] = Nobody]
  PROVE  QueueType' /\ QueueInv'
<1>1. /\ QueueType /\ QueueInv /\ target \in [Supervisors -> {Nobody} \cup Agents]
  BY DEF SocketInv, SupervisorType
<1>2. ASSUME NEW a \in Agents
      PROVE  /\ queue'[a] \in Seq(Supervisors) /\ IsInjective(queue'[a])
             /\ \A i \in 1..Len(queue'[a]) : target'[queue'[a][i]] = a
  <2>1. queue'[a] = RemoveFirst(queue[a], s) /\ queue[a] \in Seq(Supervisors)
        /\ IsInjective(queue[a])
    BY <1>1 DEF Disconnected, QueueType, QueueInv
  <2>2. /\ queue'[a] \in Seq(Supervisors) /\ IsInjective(queue'[a])
        /\ \A i \in 1..Len(queue'[a]) :
             queue'[a][i] # s /\ \E k \in 1..Len(queue[a]) : queue'[a][i] = queue[a][k]
    BY <2>1, Leaves
  <2>3. ASSUME NEW i \in 1..Len(queue'[a]) PROVE target'[queue'[a][i]] = a
    <3>1. PICK k \in 1..Len(queue[a]) : queue'[a][i] = queue[a][k] /\ queue[a][k] # s
      BY <2>2
    <3>2. queue[a][k] \in Supervisors /\ target[queue[a][k]] = a
      BY <1>1, <2>1 DEF QueueInv
    <3> QED
      BY <1>1, <3>1, <3>2
  <2> QED
    BY <2>2, <2>3
<1>3. QueueType'
  <2>1. \A a \in Agents : RemoveFirst(queue[a], s) \in Seq(Supervisors)
    BY <1>2 DEF Disconnected
  <2> QED
    BY <2>1 DEF QueueType, Disconnected
<1>4. QueueInv'
  BY <1>2 DEF QueueInv
<1> QED
  BY <1>3, <1>4

(* It connects its commands, to an agent that somebody spawned. *)
LEMMA ConnectStep ==
  ASSUME SocketInv, NEW s \in Supervisors, Connects(s), target[s] = Nobody, UNCHANGED own
  PROVE  /\ QueueType' /\ QueueInv'
         /\ target' \in [Supervisors -> {Nobody} \cup Agents] /\ target'[s] # Nobody
         /\ \A t \in Supervisors \ {s} : target'[t] = target[t]
         /\ target'[s] = own[s] \/ Foreign(s)
<1> DEFINE b == file["cmd"]
<1>1. b \in Agents /\ b # Nobody /\ \E t \in Supervisors : own[t] = b
  BY ListenerOwned DEF Connects, Paths
<1>2. /\ QueueType /\ QueueInv /\ target \in [Supervisors -> {Nobody} \cup Agents]
  BY DEF SocketInv, SupervisorType
<1>3. /\ target' = [target EXCEPT ![s] = b] /\ queue' = [queue EXCEPT ![b] = Append(@, s)]
  BY DEF Connects
<1> HIDE DEF b
<1>4. \A a \in Agents : \A i \in 1..Len(queue[a]) : queue[a][i] \in Supervisors /\ queue[a][i] # s
  <2> SUFFICES ASSUME NEW a \in Agents, NEW i \in 1..Len(queue[a])
               PROVE  queue[a][i] \in Supervisors /\ queue[a][i] # s
    OBVIOUS
  <2>1. queue[a] \in Seq(Supervisors) /\ target[queue[a][i]] = a
    BY <1>2 DEF QueueType, QueueInv
  <2> QED
    BY <2>1, Numbers
<1>5. ASSUME NEW a \in Agents
      PROVE  /\ queue'[a] \in Seq(Supervisors) /\ IsInjective(queue'[a])
             /\ \A i \in 1..Len(queue'[a]) : target'[queue'[a][i]] = a
  <2>1. queue[a] \in Seq(Supervisors) /\ IsInjective(queue[a])
        /\ \A i \in 1..Len(queue[a]) : target[queue[a][i]] = a
    BY <1>2 DEF QueueType, QueueInv
  <2>2. CASE a # b
    <3>1. queue'[a] = queue[a]
      BY <1>2, <1>3, <2>2 DEF QueueType
    <3>2. \A i \in 1..Len(queue[a]) : target'[queue[a][i]] = a
      BY <1>2, <1>3, <1>4, <2>1
    <3> QED
      BY <2>1, <3>1, <3>2
  <2>3. CASE a = b
    <3>1. queue'[a] = Append(queue[a], s)
      BY <1>2, <1>3, <2>3 DEF QueueType
    <3>2. /\ queue'[a] \in Seq(Supervisors) /\ IsInjective(queue'[a])
          /\ \A i \in 1..Len(queue'[a]) :
               queue'[a][i] = s \/ \E k \in 1..Len(queue[a]) : queue'[a][i] = queue[a][k]
      BY <1>4, <2>1, <3>1, Waits
    <3>3. target'[s] = a /\ \A k \in 1..Len(queue[a]) : target'[queue[a][k]] = a
      BY <1>2, <1>3, <1>4, <2>1, <2>3
    <3> QED
      BY <3>2, <3>3
  <2> QED
    BY <2>2, <2>3
<1>6. QueueType'
  BY <1>2, <1>3, <1>5 DEF QueueType
<1>7. QueueInv'
  BY <1>5 DEF QueueInv
<1>8. /\ target' \in [Supervisors -> {Nobody} \cup Agents] /\ target'[s] = b
      /\ \A t \in Supervisors \ {s} : target'[t] = target[t]
  BY <1>1, <1>2, <1>3
<1>9. b = own[s] \/ Foreign(s)
  BY <1>1 DEF Foreign
<1> QED
  BY <1>1, <1>6, <1>7, <1>8, <1>9

(* A step of the supervisor s that spawns nothing. *)
LEMMA SupervisorStep ==
  ASSUME SocketInv, NEW s \in Supervisors, UNCHANGED <<file, bound, apc, binding, own, launches, reaped>>,
         QueueType', QueueInv',
         NEW x, spc' = [spc EXCEPT ![s] = x],
         x \in {"idle", "waiting", "probing", "connecting", "connected", "stopping"},
         x = "idle" => own[s] \in reaped,
         target' \in [Supervisors -> {Nobody} \cup Agents],
         events' \in [Supervisors -> {Nobody} \cup Agents],
         \A t \in Supervisors \ {s} : target'[t] = target[t] /\ events'[t] = events[t],
         x \in {"idle", "waiting"} => target'[s] = Nobody,
         x \in {"idle", "waiting", "probing", "connecting"} => events'[s] = Nobody,
         x = "connected" => target'[s] # Nobody /\ events'[s] # Nobody,
         target'[s] \in {Nobody, own[s]} \/ Foreign(s),
         events'[s] \in {Nobody, own[s]} \/ Foreign(s)
  PROVE  SocketInv'
<1>1. FileType' /\ AgentType'
  BY DEF SocketInv, FileType, AgentType
<1>2. spc \in [Supervisors -> {"idle", "waiting", "probing", "connecting", "connected", "stopping"}]
  BY DEF SocketInv, SupervisorType
<1>3. SupervisorType'
  BY <1>2 DEF SocketInv, SupervisorType
<1>4. \A t \in Supervisors : spc'[t] = IF t = s THEN x ELSE spc[t]
  BY <1>2
<1>5. LaunchInv'
  BY <1>4 DEF SocketInv, LaunchInv, Alive
<1>6. \A t \in Supervisors : Foreign(t)' <=> Foreign(t)
  BY DEF Foreign
<1>7. ConnectionInv'
  <2> SUFFICES ASSUME NEW t \in Supervisors
               PROVE  /\ spc'[t] \in {"idle", "waiting"} => target'[t] = Nobody
                      /\ spc'[t] \in {"idle", "waiting", "probing", "connecting"} => events'[t] = Nobody
                      /\ spc'[t] = "connected" => target'[t] # Nobody /\ events'[t] # Nobody
                      /\ target'[t] \in {Nobody, own[t]} \/ Foreign(t)
                      /\ events'[t] \in {Nobody, own[t]} \/ Foreign(t)
    BY <1>6 DEF ConnectionInv
  <2>1. CASE t = s
    BY <1>4, <2>1
  <2>2. CASE t # s
    BY <1>4, <2>2 DEF SocketInv, ConnectionInv
  <2> QED
    BY <2>1, <2>2
<1> QED
  BY <1>1, <1>3, <1>5, <1>7 DEF SocketInv

LEMMA SpawnStep ==
  ASSUME SocketInv, NEW s \in Supervisors, Spawn(s)
  PROVE  SocketInv'
<1> DEFINE a == launches + 1
<1> USE DEF sockets
<1>1. FileType /\ AgentType /\ SupervisorType /\ LaunchInv /\ ConnectionInv
  BY DEF SocketInv
<1>2. a \in Agents /\ a \in Nat /\ a # Nobody /\ launches \in Nat
  BY <1>1, Numbers DEF Spawn, SupervisorType, Nobody
<1>3. /\ own' = [own EXCEPT ![s] = a] /\ spc' = [spc EXCEPT ![s] = "waiting"]
      /\ apc' = [apc EXCEPT ![a] = "exists"] /\ launches' = a /\ spc[s] = "idle"
      /\ UNCHANGED <<file, bound, binding, queue, target, events, reaped>>
  BY DEF Spawn
<1>4. launches < MaxLaunches
  BY DEF Spawn
<1>5. a <= MaxLaunches
  BY <1>1, <1>4, Numbers DEF SupervisorType
<1>6. a > launches /\ \A b \in Agents : b # a => (b > launches <=> b > a)
  BY <1>1, Numbers DEF SupervisorType
<1> HIDE DEF a
<1>7. FileType' /\ AgentType'
  BY <1>1, <1>2, <1>3 DEF FileType, AgentType
<1>8. QueueType' /\ QueueInv'
  BY <1>3 DEF SocketInv, QueueType, QueueInv
<1>9. SupervisorType'
  BY <1>1, <1>2, <1>3, <1>5 DEF SupervisorType
<1>10. /\ \A b \in Agents : apc'[b] = IF b = a THEN "exists" ELSE apc[b]
       /\ \A t \in Supervisors : own'[t] = IF t = s THEN a ELSE own[t]
       /\ \A t \in Supervisors : spc'[t] = IF t = s THEN "waiting" ELSE spc[t]
  BY <1>1, <1>2, <1>3 DEF AgentType, SupervisorType
<1>11. apc[a] = "off" /\ a \notin reaped
  BY <1>1, <1>2, <1>6 DEF LaunchInv
<1>12. own[s] = Nobody \/ (own[s] \in reaped /\ ~Alive(own[s]))
  BY <1>1, <1>3 DEF LaunchInv, Alive
<1>13. \A b \in Agents : Alive(b)' <=> b = a \/ Alive(b)
  BY <1>10, <1>11 DEF Alive
<1>14. LaunchInv'
  <2>1. \A b \in Agents : apc'[b] = "off" <=> b > launches'
    BY <1>1, <1>3, <1>6, <1>10, <1>2, Numbers DEF LaunchInv
  <2>2. \A b \in Agents : bound'[b] # {} => Alive(b)'
    BY <1>1, <1>3, <1>13 DEF LaunchInv
  <2>3. \A b \in reaped' : apc'[b] = "dead"
    BY <1>1, <1>3, <1>10, <1>11 DEF LaunchInv, SupervisorType
  <2>4. ASSUME NEW t \in Supervisors
        PROVE  own'[t] <= launches' /\ (spc'[t] = "idle" => own'[t] \in {Nobody} \cup reaped')
    <3>1. own[t] \in Nat /\ own[t] <= launches
      BY <1>1, Numbers DEF SupervisorType, LaunchInv, Nobody
    <3> QED
      BY <1>1, <1>2, <1>3, <1>6, <1>10, <3>1 DEF LaunchInv
  <2>5. ASSUME NEW b \in Agents, Alive(b)' PROVE \E t \in Supervisors : own'[t] = b
    <3>1. CASE b = a
      BY <1>10, <3>1
    <3>2. CASE b # a
      <4>1. Alive(b)
        BY <1>13, <2>5, <3>2
      <4>2. PICK t \in Supervisors : own[t] = b
        BY <1>1, <4>1 DEF LaunchInv
      <4>3. t # s
        BY <1>12, <4>1, <4>2, Numbers
      <4> QED
        BY <1>10, <4>2, <4>3
    <3> QED
      BY <3>1, <3>2
  <2> QED
    BY <2>1, <2>2, <2>3, <2>4, <2>5 DEF LaunchInv
<1>15. ConnectionInv'
  <2>1. \A t \in Supervisors : Foreign(t) => Foreign(t)'
    BY <1>2, <1>10 DEF Foreign
  <2>2. target[s] = Nobody /\ events[s] = Nobody
    BY <1>1, <1>3 DEF ConnectionInv
  <2> QED
    BY <1>1, <1>3, <1>10, <2>1, <2>2 DEF ConnectionInv
<1> QED
  BY <1>7, <1>8, <1>9, <1>14, <1>15 DEF SocketInv

LEMMA ReapedStep ==
  ASSUME SocketInv, NEW s \in Supervisors, ChildReaped(s)
  PROVE  SocketInv'
<1> USE DEF sockets, agents, supervisor
<1>1. own[s] \in Agents /\ apc[own[s]] = "dead"
      /\ UNCHANGED <<sockets, agents, supervisor>> /\ reaped' = reaped \cup {own[s]}
  BY DEF ChildReaped, SocketInv, SupervisorType
<1>2. FileType' /\ AgentType' /\ QueueType' /\ SupervisorType' /\ QueueInv'
  BY <1>1 DEF SocketInv, FileType, AgentType, QueueType, SupervisorType, QueueInv
<1>3. LaunchInv'
  BY <1>1 DEF SocketInv, LaunchInv, Alive
<1>4. ConnectionInv'
  BY <1>1, SameConnections DEF SocketInv
<1> QED
  BY <1>2, <1>3, <1>4 DEF SocketInv

LEMMA ReadinessStep ==
  ASSUME SocketInv, NEW s \in Supervisors, Readiness(s)
  PROVE  SocketInv'
<1> USE DEF sockets, agents, supervisor
<1>1. /\ QueueType /\ QueueInv /\ ConnectionInv
      /\ target \in [Supervisors -> {Nobody} \cup Agents]
      /\ events \in [Supervisors -> {Nobody} \cup Agents]
  BY DEF SocketInv, SupervisorType
<1>2. CASE Probes(s)
  <2>1. /\ spc[s] = "waiting" /\ Connects(s) /\ spc' = [spc EXCEPT ![s] = "probing"]
        /\ UNCHANGED <<file, bound, apc, binding, own, launches, events, reaped>>
    BY <1>2 DEF Probes
  <2>2. target[s] = Nobody /\ events[s] = Nobody
    BY <1>1, <2>1 DEF ConnectionInv
  <2>3. /\ QueueType' /\ QueueInv'
        /\ target' \in [Supervisors -> {Nobody} \cup Agents] /\ target'[s] # Nobody
        /\ \A t \in Supervisors \ {s} : target'[t] = target[t]
        /\ target'[s] = own[s] \/ Foreign(s)
    BY <2>1, <2>2, ConnectStep
  <2> QED
    BY <1>1, <2>1, <2>2, <2>3, SupervisorStep
<1>3. CASE Pinged(s) \/ ProbeFails(s)
  <2>1. PICK x \in {"waiting", "connecting"} : spc' = [spc EXCEPT ![s] = x]
    BY <1>3 DEF Pinged, ProbeFails
  <2>2. /\ spc[s] = "probing" /\ queue' = Disconnected(s) /\ target' = [target EXCEPT ![s] = Nobody]
        /\ UNCHANGED <<file, bound, apc, binding, own, launches, events, reaped>>
    BY <1>3 DEF Pinged, ProbeFails
  <2>3. QueueType' /\ QueueInv'
    BY <2>2, DisconnectStep
  <2>4. /\ target' \in [Supervisors -> {Nobody} \cup Agents] /\ target'[s] = Nobody
        /\ \A t \in Supervisors \ {s} : target'[t] = target[t]
        /\ events[s] = Nobody
    BY <1>1, <2>2 DEF ConnectionInv
  <2> QED
    BY <1>1, <2>1, <2>2, <2>3, <2>4, SupervisorStep
<1>4. CASE ExitSeen(s) \/ GivesUp(s)
  <2>1. /\ spc' = [spc EXCEPT ![s] = "stopping"]
        /\ UNCHANGED <<sockets, agents, own, launches, target, events, reaped>>
    BY <1>4 DEF ExitSeen, GivesUp, Stops
  <2>2. QueueType' /\ QueueInv'
    BY <1>1, <2>1 DEF QueueType, QueueInv
  <2>3. /\ target[s] \in {Nobody, own[s]} \/ Foreign(s)
        /\ events[s] \in {Nobody, own[s]} \/ Foreign(s)
    BY <1>1 DEF ConnectionInv
  <2> QED
    BY <1>1, <2>1, <2>2, <2>3, SupervisorStep
<1> QED
  BY <1>2, <1>3, <1>4 DEF Readiness

LEMMA DispatchingStep ==
  ASSUME SocketInv, NEW s \in Supervisors, Dispatching(s)
  PROVE  SocketInv'
<1> USE DEF sockets, agents, supervisor
<1>1. /\ QueueType /\ QueueInv /\ ConnectionInv
      /\ target \in [Supervisors -> {Nobody} \cup Agents]
      /\ events \in [Supervisors -> {Nobody} \cup Agents]
      /\ spc \in [Supervisors -> {"idle", "waiting", "probing", "connecting", "connected",
                                  "stopping"}]
  BY DEF SocketInv, SupervisorType
<1>2. CASE StartsCommands(s)
  <2>1. /\ spc[s] = "connecting" /\ target[s] = Nobody /\ Connects(s)
        /\ UNCHANGED <<file, bound, apc, binding, spc, own, launches, events, reaped>>
    BY <1>2 DEF StartsCommands
  <2>2. events[s] = Nobody /\ spc' = [spc EXCEPT ![s] = "connecting"]
    BY <1>1, <2>1 DEF ConnectionInv
  <2>3. /\ QueueType' /\ QueueInv'
        /\ target' \in [Supervisors -> {Nobody} \cup Agents] /\ target'[s] # Nobody
        /\ \A t \in Supervisors \ {s} : target'[t] = target[t]
        /\ target'[s] = own[s] \/ Foreign(s)
    BY <2>1, ConnectStep
  <2> QED
    BY <1>1, <2>1, <2>2, <2>3, SupervisorStep
<1>3. CASE StartsEvents(s)
  <2>1. /\ target[s] # Nobody /\ Listening("events") /\ events' = [events EXCEPT ![s] = file["events"]]
        /\ spc' = [spc EXCEPT ![s] = "connected"]
        /\ UNCHANGED <<sockets, agents, own, launches, target, reaped>>
    BY <1>3 DEF StartsEvents
  <2>2. /\ file["events"] \in Agents /\ file["events"] # Nobody
        /\ \E t \in Supervisors : own[t] = file["events"]
    BY <2>1, ListenerOwned DEF Paths
  <2>3. /\ events' \in [Supervisors -> {Nobody} \cup Agents] /\ events'[s] = file["events"]
        /\ \A t \in Supervisors \ {s} : events'[t] = events[t]
    BY <1>1, <2>1, <2>2
  <2>4. events'[s] = own[s] \/ Foreign(s)
    BY <2>2, <2>3 DEF Foreign
  <2>5. QueueType' /\ QueueInv'
    BY <1>1, <2>1 DEF QueueType, QueueInv
  <2>6. target[s] \in {Nobody, own[s]} \/ Foreign(s)
    BY <1>1 DEF ConnectionInv
  <2> QED
    BY <1>1, <2>1, <2>2, <2>3, <2>4, <2>5, <2>6, SupervisorStep
<1>4. CASE StartFails(s)
  <2>1. /\ spc' = [spc EXCEPT ![s] = "stopping"]
        /\ queue' = Disconnected(s) /\ target' = [target EXCEPT ![s] = Nobody]
        /\ UNCHANGED <<file, bound, apc, binding, own, launches, events, reaped>>
    BY <1>4 DEF StartFails
  <2>2. QueueType' /\ QueueInv'
    BY <2>1, DisconnectStep
  <2>3. /\ target' \in [Supervisors -> {Nobody} \cup Agents] /\ target'[s] = Nobody
        /\ \A t \in Supervisors \ {s} : target'[t] = target[t]
        /\ events[s] \in {Nobody, own[s]} \/ Foreign(s)
    BY <1>1, <2>1 DEF ConnectionInv
  <2> QED
    BY <1>1, <2>1, <2>2, <2>3, SupervisorStep
<1> QED
  BY <1>2, <1>3, <1>4 DEF Dispatching

LEMMA EndingStep ==
  ASSUME SocketInv, NEW s \in Supervisors, Ending(s)
  PROVE  SocketInv'
<1> USE DEF sockets, agents, supervisor
<1>1. /\ QueueType /\ QueueInv /\ ConnectionInv
      /\ target \in [Supervisors -> {Nobody} \cup Agents]
      /\ events \in [Supervisors -> {Nobody} \cup Agents]
  BY DEF SocketInv, SupervisorType
<1>2. CASE ProcessDone(s) \/ ConnectionLost(s) \/ LapEnds(s)
  <2>1. /\ spc' = [spc EXCEPT ![s] = "stopping"]
        /\ UNCHANGED <<sockets, agents, own, launches, target, events, reaped>>
    BY <1>2 DEF ProcessDone, ConnectionLost, LapEnds, Stops
  <2>2. QueueType' /\ QueueInv'
    BY <1>1, <2>1 DEF QueueType, QueueInv
  <2>3. /\ target[s] \in {Nobody, own[s]} \/ Foreign(s)
        /\ events[s] \in {Nobody, own[s]} \/ Foreign(s)
    BY <1>1 DEF ConnectionInv
  <2> QED
    BY <1>1, <2>1, <2>2, <2>3, SupervisorStep
<1>3. CASE Stopped(s)
  <2>1. /\ spc' = [spc EXCEPT ![s] = "idle"] /\ own[s] \in reaped
        /\ queue' = Disconnected(s) /\ target' = [target EXCEPT ![s] = Nobody]
        /\ events' = [events EXCEPT ![s] = Nobody]
        /\ UNCHANGED <<file, bound, apc, binding, own, launches, reaped>>
    BY <1>3 DEF Stopped
  <2>2. QueueType' /\ QueueInv'
    BY <2>1, DisconnectStep
  <2>3. /\ target' \in [Supervisors -> {Nobody} \cup Agents] /\ target'[s] = Nobody
        /\ \A t \in Supervisors \ {s} : target'[t] = target[t] /\ events'[t] = events[t]
        /\ events' \in [Supervisors -> {Nobody} \cup Agents] /\ events'[s] = Nobody
    BY <1>1, <2>1
  <2> QED
    BY <1>1, <2>1, <2>2, <2>3, SupervisorStep
<1> QED
  BY <1>2, <1>3 DEF Ending

LEMMA NextInv == SocketInv /\ [Next]_vars => SocketInv'
<1> SUFFICES ASSUME SocketInv, [Next]_vars PROVE SocketInv'
  OBVIOUS
<1>1. CASE UNCHANGED vars
  <2>1. FileType' /\ AgentType' /\ QueueType' /\ SupervisorType'
    BY <1>1 DEF SocketInv, FileType, AgentType, QueueType, SupervisorType, vars, sockets, agents,
       supervisor
  <2>2. LaunchInv' /\ QueueInv'
    BY <1>1 DEF SocketInv, LaunchInv, Alive, QueueInv, vars, sockets, agents, supervisor
  <2>3. ConnectionInv'
    BY <1>1, SameConnections DEF SocketInv, vars, supervisor
  <2> QED
    BY <2>1, <2>2, <2>3 DEF SocketInv
<1>2. CASE Next
  BY <1>2, StartsStep, SpawnStep, ReapedStep, ReadinessStep, DispatchingStep, EndingStep DEF Next
<1> QED
  BY <1>1, <1>2

-----------------------------------------------------------------------------
(* Agents and supervisors keep to their states, and no supervisor waits    *)
(* twice at one agent.                                                     *)
THEOREM TypeCorrect == Spec => []TypeOK
<1> QED
  BY InitInv, NextInv, InvImpliesType, PTL DEF Spec

(* A supervisor that has its instance name to itself is connected to its   *)
(* own agent on both sockets, whatever its earlier agents left behind.     *)
THEOREM AloneCorrect == Spec => []AloneWithOwnAgent
<1>1. SocketInv => AloneWithOwnAgent
  BY DEF SocketInv, ConnectionInv, Foreign, AloneWithOwnAgent
<1> QED
  BY <1>1, InitInv, NextInv, PTL DEF Spec

(* An agent that finds somebody listening on its path, and refuses to      *)
(* start, has found one that a supervisor runs: a relaunch never races the *)
(* agent it replaces for the command socket.                               *)
THEOREM RefusalCorrect == Spec => RefusedByRunning
<1>1. ASSUME SocketInv
      PROVE  \A a \in Agents :
               (apc[a] = "isAlive" /\ apc'[a] = "dead" /\ Listening(binding[a]))
                 => \E s \in Supervisors : own[s] = file[binding[a]]
  BY <1>1, ListenerOwned DEF SocketInv, AgentType
<1> QED
  BY <1>1, InitInv, NextInv, PTL DEF Spec, RefusedByRunning
=============================================================================
