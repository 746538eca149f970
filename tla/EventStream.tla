----------------------------- MODULE EventStream -----------------------------
(***************************************************************************)
(* The window-event path: EventBridge in the agent (window-id registry,    *)
(* bounded queue, overflow flag, writer thread, one event client at a      *)
(* time) and the event reader that keeps Dispatcher.windows, a mirror of   *)
(* the registry, at the other end of the event socket.                     *)
(*                                                                         *)
(* Threads: the EDT (onAwtEvent), the event-socket accept thread           *)
(* (handleEventClient), the queue-to-socket writer (writerLoop), and one   *)
(* asyncio reader per client.  LOCK is held by the EDT from registration   *)
(* to the overflow flag (edt = "refused" in between), and by attachClient  *)
(* (handler = "attaching"); the writer never takes it.                     *)
(* Keepalive lines change no state at either end and are left out.         *)
(***************************************************************************)
EXTENDS Naturals, Sequences, FiniteSets

CONSTANTS
  Window,          (* the application's top-level windows                  *)
  Client,          (* the connections made to the event socket             *)
  None,
  QueueCapacity,   (* EventBridge.QUEUE_CAPACITY                           *)
  WireCapacity,    (* bound: lines a socket buffer holds                   *)
  MaxEvents        (* bound: window events over the run                    *)

ASSUME CapacityAssumption ==
  /\ QueueCapacity \in Nat \ {0}
  /\ WireCapacity \in Nat \ {0}
  /\ MaxEvents \in Nat

ASSUME NoneAssumption == None \notin Client

VARIABLES
  windowIds,       (* EventBridge.windowIds: 0 for a window without an id  *)
  nextWindowId,    (* EventBridge.nextWindowId                             *)
  seq,             (* EventBridge.seq                                      *)
  queue,           (* EventBridge.queue                                    *)
  overflowed,      (* EventBridge.overflowed                               *)
  currentWriter,   (* EventBridge.currentWriter: the client written to     *)
  edt,             (* the EDT, between a refused offer and the flag        *)
  backlog,         (* connections the accept thread has not accepted yet   *)
  serving,         (* the client of the accept thread's handler            *)
  handler,         (* where that handler is                                *)
  writer,          (* the writer thread: pc and its local variables        *)
  client,          (* each connection, as its Python end sees it           *)
  wire,            (* lines written to each client and not yet read        *)
  windows,         (* Dispatcher.windows of each client: a set of ids      *)
  history,         (* ghost: the registered ids after each event           *)
  seen,            (* ghost: the event each mirror is up to, once seeded   *)
  seeded,          (* ghost: the clients that have read their own snapshot *)
  lost             (* ghost: events dropped since the last attach          *)

registry == <<windowIds, nextWindowId, seq>>
stream   == <<queue, overflowed, currentWriter, edt>>
accepts  == <<backlog, serving, handler>>
python   == <<client, windows, seen, seeded>>
vars     == <<registry, stream, accepts, writer, python, wire, history, lost>>

Id == 1..MaxEvents

Hello == [type |-> "hello"]
(* at and of are ghosts: the last event it counts, the client it is for. *)
Snapshot(ids, at, of) ==
  [type |-> "snapshot", windows |-> ids, at |-> at, of |-> of]
Event(kind, id, n) == [type |-> "event", kind |-> kind, id |-> id, seq |-> n]
Overflow == [type |-> "overflow"]

Queued ==
  [type : {"snapshot"}, windows : SUBSET Id, at : 0..MaxEvents, of : Client]
    \cup [type : {"event"}, kind : {"window_opened", "window_closed"},
          id : Id \cup {0}, seq : 1..MaxEvents]
Message == Queued \cup {Hello, Overflow}

WriterPc == {"take", "target", "check", "report", "write"}

TypeOK ==
  /\ windowIds \in [Window -> Id \cup {0}]
  /\ nextWindowId \in 1..(MaxEvents + 1)
  /\ seq \in 0..MaxEvents
  /\ queue \in Seq(Queued) /\ Len(queue) <= QueueCapacity
  /\ overflowed \in BOOLEAN
  /\ currentWriter \in Client \cup {None}
  /\ edt \in {"free", "refused"}
  /\ backlog \in Seq(Client)
  /\ serving \in Client \cup {None}
  /\ handler \in {"accept", "greeted", "attaching", "reading"}
  /\ writer.pc \in WriterPc
  /\ writer.pc # "take" => writer.message \in Queued
  /\ writer.to \in Client \cup {None}
  /\ client \in [Client -> {"new", "connected", "failed", "closed"}]
  /\ wire \in [Client -> Seq(Message)]
  /\ \A c \in Client : Len(wire[c]) <= WireCapacity
  /\ windows \in [Client -> SUBSET Id]
  /\ history \in Seq(SUBSET Id) /\ Len(history) = seq + 1
  /\ seen \in [Client -> 0..MaxEvents]
  /\ seeded \subseteq Client
  /\ lost \subseteq 1..MaxEvents

registered == {windowIds[w] : w \in Window} \ {0}

LockFree == edt = "free" /\ handler # "attaching"

Idle == [pc |-> "take", message |-> None, to |-> None]

Init ==
  /\ windowIds = [w \in Window |-> 0]
  /\ nextWindowId = 1
  /\ seq = 0
  /\ queue = <<>>
  /\ overflowed = FALSE
  /\ currentWriter = None
  /\ edt = "free"
  /\ backlog = <<>>
  /\ serving = None
  /\ handler = "accept"
  /\ writer = Idle
  /\ client = [c \in Client |-> "new"]
  /\ wire = [c \in Client |-> <<>>]
  /\ windows = [c \in Client |-> {}]
  /\ history = <<{}>>
  /\ seen = [c \in Client |-> 0]
  /\ seeded = {}
  /\ lost = {}

-----------------------------------------------------------------------------
(* The EDT: register or unregister, number the event and offer it.         *)

(* Mutant: a refused offer is dropped without a trace. *)
SilentlyEnqueue(kind, id) ==
  /\ seq' = seq + 1
  /\ IF Len(queue) < QueueCapacity
       THEN /\ queue' = Append(queue, Event(kind, id, seq + 1))
            /\ UNCHANGED lost
       ELSE /\ lost' = lost \cup {seq + 1}
            /\ UNCHANGED queue
  /\ UNCHANGED edt

EnqueueEvent(kind, id) ==
  /\ seq' = seq + 1
  /\ IF Len(queue) < QueueCapacity
       THEN /\ queue' = Append(queue, Event(kind, id, seq + 1))
            /\ UNCHANGED <<edt, lost>>
       ELSE /\ edt' = "refused"
            /\ lost' = lost \cup {seq + 1}
            /\ UNCHANGED queue

(* Mutant: a closed window stays in the id registry. *)
LeakingWindowClosed(w) ==
  /\ LockFree
  /\ seq < MaxEvents
  /\ EnqueueEvent("window_closed", windowIds[w])
  /\ history' = Append(history, registered)
  /\ UNCHANGED <<windowIds, nextWindowId, overflowed, currentWriter, accepts,
                 writer, python, wire>>

WindowOpened(w) ==
  /\ LockFree
  /\ seq < MaxEvents
  /\ windowIds[w] = 0
  /\ windowIds' = [windowIds EXCEPT ![w] = nextWindowId]
  /\ nextWindowId' = nextWindowId + 1
  /\ EnqueueEvent("window_opened", nextWindowId)
  /\ history' = Append(history, registered \cup {nextWindowId})
  /\ UNCHANGED <<overflowed, currentWriter, accepts, writer, python, wire>>

(* A window disposed of twice, or opened before the listener was installed, *)
(* has no id: the event goes out without one.                               *)
WindowClosed(w) ==
  /\ LockFree
  /\ seq < MaxEvents
  /\ windowIds' = [windowIds EXCEPT ![w] = 0]
  /\ EnqueueEvent("window_closed", windowIds[w])
  /\ history' = Append(history, registered \ {windowIds[w]})
  /\ UNCHANGED <<nextWindowId, overflowed, currentWriter, accepts, writer,
                 python, wire>>

SetOverflowed ==
  /\ edt = "refused"
  /\ overflowed' = TRUE
  /\ edt' = "free"
  /\ UNCHANGED <<registry, queue, currentWriter, accepts, writer, python,
                 wire, history, lost>>

-----------------------------------------------------------------------------
(* The event socket.  A line written to a client that has gone is lost:    *)
(* PrintWriter swallows the error.  A full socket buffer blocks.           *)
CanWrite(c) == client[c] = "closed" \/ Len(wire[c]) < WireCapacity

Write(c, m) ==
  wire' = IF client[c] = "closed" THEN wire
          ELSE [wire EXCEPT ![c] = Append(@, m)]

Connect(c) ==
  /\ client[c] = "new"
  /\ client' = [client EXCEPT ![c] = "connected"]
  /\ backlog' = Append(backlog, c)
  /\ UNCHANGED <<registry, stream, serving, handler, writer, windows, seen,
                 seeded, wire, history, lost>>

(* acceptLoop hands the next connection to handleEventClient, which greets *)
(* it before it takes the lock.                                            *)
Accept ==
  /\ handler = "accept"
  /\ backlog # <<>>
  /\ backlog' = Tail(backlog)
  /\ serving' = Head(backlog)
  /\ handler' = "greeted"
  /\ CanWrite(Head(backlog))
  /\ Write(Head(backlog), Hello)
  /\ UNCHANGED <<registry, stream, writer, python, history, lost>>

(* attachClient takes LOCK and makes the client the one that is written    *)
(* to; what is still queued goes to it until the queue is cleared.         *)
TakesOver ==
  /\ handler = "greeted"
  /\ LockFree
  /\ currentWriter' = serving
  /\ handler' = "attaching"
  /\ UNCHANGED <<registry, queue, overflowed, edt, backlog, serving, writer,
                 python, wire, history, lost>>

(* Mutant: the snapshot joins whatever is already queued. *)
AttachKeepsQueue ==
  /\ handler = "attaching"
  /\ overflowed' = FALSE
  /\ queue' = IF Len(queue) < QueueCapacity
                THEN Append(queue, Snapshot(registered, seq, serving)) ELSE queue
  /\ handler' = "reading"
  /\ lost' = {}
  /\ UNCHANGED <<registry, currentWriter, edt, backlog, serving, writer,
                 python, wire, history>>

(* Mutant: the snapshot overtakes the events queued before it. *)
AttachJumpsQueue ==
  /\ handler = "attaching"
  /\ overflowed' = FALSE
  /\ queue' = <<Snapshot(registered, seq, serving)>>
                \o SubSeq(queue, 1, IF Len(queue) < QueueCapacity
                                     THEN Len(queue) ELSE QueueCapacity - 1)
  /\ handler' = "reading"
  /\ lost' = {}
  /\ UNCHANGED <<registry, currentWriter, edt, backlog, serving, writer,
                 python, wire, history>>

(* The rest of attachClient: the queue now holds just the snapshot.  One   *)
(* step is enough: the writer's next step between clear, set and offer     *)
(* would find the same queue or flag before or after the three of them.    *)
AttachClient ==
  /\ handler = "attaching"
  /\ queue' = <<Snapshot(registered, seq, serving)>>
  /\ overflowed' = FALSE
  /\ handler' = "reading"
  /\ lost' = {}
  /\ UNCHANGED <<registry, currentWriter, edt, backlog, serving, writer,
                 python, wire, history>>

(* The handler reads end of file: the client has gone. *)
Detach ==
  /\ handler = "reading"
  /\ client[serving] = "closed"
  /\ currentWriter' = None
  /\ handler' = "accept"
  /\ UNCHANGED <<registry, queue, overflowed, edt, backlog, serving, writer,
                 python, wire, history, lost>>

-----------------------------------------------------------------------------
(* writerLoop: take a message, read currentWriter, test and clear the      *)
(* overflow flag, report it, write the message.  No lock is held.          *)

WriterTakes ==
  /\ writer.pc = "take"
  /\ queue # <<>>
  /\ queue' = Tail(queue)
  /\ writer' = [Idle EXCEPT !.pc = "target", !.message = Head(queue)]
  /\ UNCHANGED <<registry, overflowed, currentWriter, edt, accepts, python,
                 wire, history, lost>>

WriterTargets ==
  /\ writer.pc = "target"
  /\ writer' = IF currentWriter = None THEN Idle
               ELSE [writer EXCEPT !.pc = "check", !.to = currentWriter]
  /\ UNCHANGED <<registry, stream, accepts, python, wire, history, lost>>

WriterChecks ==
  /\ writer.pc = "check"
  /\ writer' = [writer EXCEPT !.pc = IF overflowed THEN "report" ELSE "write"]
  /\ overflowed' = FALSE
  /\ UNCHANGED <<registry, queue, currentWriter, edt, accepts, python, wire,
                 history, lost>>

(* overflowMessage; its from_seq is only logged. *)
WriterReports ==
  /\ writer.pc = "report"
  /\ CanWrite(writer.to)
  /\ Write(writer.to, Overflow)
  /\ writer' = [writer EXCEPT !.pc = "write"]
  /\ UNCHANGED <<registry, stream, accepts, python, history, lost>>

WriterWrites ==
  /\ writer.pc = "write"
  /\ CanWrite(writer.to)
  /\ Write(writer.to, writer.message)
  /\ writer' = Idle
  /\ UNCHANGED <<registry, stream, accepts, python, history, lost>>

-----------------------------------------------------------------------------
(* Dispatcher._event_reader, one line at a time.                           *)

Tracked(ids, m) ==
  IF m.id = 0 THEN ids
  ELSE IF m.kind = "window_opened" THEN ids \cup {m.id} ELSE ids \ {m.id}

(* Mutant: an overflow is logged and the reader carries on. *)
ReadPastOverflow(c) ==
  /\ client[c] = "connected"
  /\ wire[c] # <<>>
  /\ LET m == Head(wire[c]) IN
       CASE m.type = "snapshot" ->
              /\ windows' = [windows EXCEPT ![c] = m.windows]
              /\ seen' = [seen EXCEPT ![c] = m.at]
              /\ seeded' = IF m.of = c THEN seeded \cup {c} ELSE seeded
         [] m.type = "event" ->
              /\ windows' = [windows EXCEPT ![c] = Tracked(@, m)]
              /\ seen' = [seen EXCEPT ![c] = m.seq]
              /\ UNCHANGED seeded
         [] OTHER -> UNCHANGED <<windows, seen, seeded>>
  /\ wire' = [wire EXCEPT ![c] = Tail(@)]
  /\ UNCHANGED <<registry, stream, accepts, writer, client, history, lost>>

Read(c) ==
  /\ client[c] = "connected"
  /\ wire[c] # <<>>
  /\ LET m == Head(wire[c]) IN
       CASE m.type = "snapshot" ->
              /\ windows' = [windows EXCEPT ![c] = m.windows]
              /\ seen' = [seen EXCEPT ![c] = m.at]
              /\ seeded' = IF m.of = c THEN seeded \cup {c} ELSE seeded
              /\ UNCHANGED client
         [] m.type = "event" ->
              /\ windows' = [windows EXCEPT ![c] = Tracked(@, m)]
              /\ seen' = [seen EXCEPT ![c] = m.seq]
              /\ UNCHANGED <<seeded, client>>
         [] m.type = "overflow" ->
              /\ client' = [client EXCEPT ![c] = "failed"]
              /\ UNCHANGED <<windows, seen, seeded>>
         [] OTHER -> UNCHANGED <<windows, seen, seeded, client>>
  /\ wire' = [wire EXCEPT ![c] = Tail(@)]
  /\ UNCHANGED <<registry, stream, accepts, writer, history, lost>>

(* Dispatcher.stop, or a probe that only tests whether the path is live. *)
Close(c) ==
  /\ client[c] \in {"connected", "failed"}
  /\ client' = [client EXCEPT ![c] = "closed"]
  /\ wire' = [wire EXCEPT ![c] = <<>>]
  /\ UNCHANGED <<registry, stream, accepts, writer, windows, seen, seeded,
                 history, lost>>

-----------------------------------------------------------------------------
Edt == \E w \in Window : WindowOpened(w) \/ WindowClosed(w)
AcceptThread == Accept \/ TakesOver \/ AttachClient \/ Detach
Writer == WriterTakes \/ WriterTargets \/ WriterChecks \/ WriterReports
          \/ WriterWrites

Next ==
  \/ Edt
  \/ SetOverflowed
  \/ AcceptThread
  \/ Writer
  \/ \E c \in Client : Connect(c) \/ Read(c) \/ Close(c)

(* Threads are scheduled and the event loop runs the reader; nothing makes *)
(* windows appear, or clients come and go.                                 *)
Fairness ==
  /\ WF_vars(SetOverflowed)
  /\ WF_vars(AcceptThread)
  /\ WF_vars(Writer)
  /\ \A c \in Client : WF_vars(Read(c))

Spec == Init /\ [][Next]_vars /\ Fairness

-----------------------------------------------------------------------------
(* Properties *)

Reading(c) == client[c] = "connected" /\ c \in seeded

(* A client that replaced another can miss the report of a lost event: the *)
(* writer clears overflowed for it while it still holds the client before. *)
Replaced(c) == \E d \in Client \ {c} : client[d] # "new"
Trusted(c)  == Reading(c) /\ (Replaced(c) => lost = {})

(* Dispatcher.windows is always the registry as it stood after the last    *)
(* event applied: never a mixture of two moments, whatever was dropped.    *)
MirrorIsPast ==
  \A c \in Client : Trusted(c) => windows[c] = history[seen[c] + 1]

(* After the snapshot a client applies only events newer than it, in order *)
(* (docs/development.md: snapshot, then only events newer than it).        *)
NewerThanSnapshot ==
  [][\A c \in Client : c \in seeded /\ wire'[c] # wire[c] => seen'[c] >= seen[c]]_vars

(* A lost event is never papered over: the reader ends before it applies   *)
(* an event that came after one the queue refused.                         *)
GapEndsReader ==
  \A c \in Client : Reading(c) =>
     \A n \in lost : seen[c] < n

(* The same, of the clients that no other was there before or with.        *)
GapEndsOnlyReader ==
  \A c \in Client : Trusted(c) =>
     \A n \in lost : seen[c] < n

(* With nothing left to deliver, the mirror is the registry, or there is a *)
(* drop still to be reported.                                              *)
Drained(c) ==
  /\ Trusted(c)
  /\ currentWriter = c
  /\ queue = <<>> /\ writer.pc = "take" /\ wire[c] = <<>> /\ edt = "free"

DrainedIsCurrent ==
  \A c \in Client : Drained(c) /\ ~overflowed => windows[c] = registered

(* A client that is served and stays connected gets its snapshot, and is   *)
(* brought up to date unless an event was dropped on the way.              *)
Converges ==
  \A c \in Client :
     client[c] = "connected" /\ serving = c
       ~> \/ client[c] # "connected"
          \/ c \in seeded /\ (windows[c] = registered \/ lost # {})
=============================================================================
