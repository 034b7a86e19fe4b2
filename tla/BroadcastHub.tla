----------------------------- MODULE BroadcastHub -----------------------------
(***************************************************************************)
(* The event broadcast: the goroutine of main that forwards the Redis      *)
(* channel mikrotik:events, the Broadcaster goroutine, and one HandleWS    *)
(* goroutine for every browser connected to /ws.                           *)
(*                                                                         *)
(* clientsMu is held for reading while the Broadcaster is inside its range *)
(* loop, through writes that may block: RLocked is a state function of     *)
(* bpc.  The handlers' own critical sections do not block and are single   *)
(* steps.  The statements between the Broadcaster's receive and its        *)
(* RLock, and between its Unlock and RLock, see nothing that a step just   *)
(* before them would not show, so they have no step of their own.          *)
(***************************************************************************)
EXTENDS Integers, Sequences, FiniteSets

CONSTANTS
  Conns,      \* WebSocket connections to /ws
  MaxEvents,  \* bound on the events published
  InboxCap,   \* capacity of the Redis client's message channel, 100
  None        \* no connection

ASSUME BroadcastHubAssumption ==
  /\ MaxEvents \in Nat
  /\ InboxCap \in Nat \ {0}
  /\ None \notin Conns

VARIABLES
  published,  \* number of events published to mikrotik:events, their ids
  inbox,      \* events in pubsub.Channel()
  holding,    \* event the forwarder offers on the broadcast channel, or 0
  taken,      \* history: the events the Broadcaster received
  bpc,        \* where the Broadcaster is
  target,     \* connection it writes to, or drops
  due,        \* entries its range loop has to reach unless they are deleted
  visited,    \* entries it has reached
  clients,    \* the map h.clients
  pc,         \* where each connection's handler is
  peer,       \* what the browser does: reads, reads nothing, is gone
  closed,     \* connections this process has closed
  written,    \* history: the events written to each connection
  joinedAt    \* history: Len(taken) when it was registered

feedVars  == <<published, inbox, holding>>
rangeVars == <<bpc, target, due, visited>>
connVars  == <<pc, peer, closed>>
history   == <<taken, written, joinedAt>>
vars == <<feedVars, rangeVars, clients, connVars, history>>

Events == 1 .. MaxEvents

TypeOK ==
  /\ published \in 0 .. MaxEvents
  /\ inbox \in Seq(Events) /\ Len(inbox) <= InboxCap
  /\ holding \in 0 .. MaxEvents
  /\ taken \in Seq(Events)
  /\ bpc \in {"receive", "range", "write", "drop"}
  /\ target \in Conns \cup {None}
  /\ due \subseteq Conns /\ visited \subseteq Conns
  /\ clients \subseteq Conns
  /\ pc \in [Conns -> {"new", "register", "reading", "unregister", "close",
                       "gone"}]
  /\ peer \in [Conns -> {"reading", "stalled", "gone"}]
  /\ closed \subseteq Conns
  /\ written \in [Conns -> Seq(Events)]
  /\ joinedAt \in [Conns -> 0 .. MaxEvents]

Init ==
  /\ published = 0 /\ inbox = <<>> /\ holding = 0
  /\ bpc = "receive" /\ target = None /\ due = {} /\ visited = {}
  /\ clients = {}
  /\ pc = [c \in Conns |-> "new"]
  /\ peer = [c \in Conns |-> "reading"]
  /\ closed = {}
  /\ taken = <<>>
  /\ written = [c \in Conns |-> <<>>]
  /\ joinedAt = [c \in Conns |-> 0]

GoTo(c, from, to) ==
  /\ pc[c] = from
  /\ pc' = [pc EXCEPT ![c] = to]

\* The Broadcaster holds clientsMu for reading.
RLocked == bpc \in {"range", "write"}

(***************************************************************************)
(* Redis and the forwarding goroutine.                                     *)
(***************************************************************************)

\* An event is published.  Pub/Sub loses it when the subscription is down or
\* the Redis client's channel stays full.
Publish ==
  /\ published < MaxEvents
  /\ published' = published + 1
  /\ \/ Len(inbox) < InboxCap /\ inbox' = Append(inbox, published + 1)
     \/ UNCHANGED inbox
  /\ UNCHANGED <<holding, rangeVars, clients, connVars, history>>

\* Mutant of Forward: the message stays in the channel.
ForwardKept ==
  /\ holding = 0
  /\ inbox # <<>>
  /\ holding' = Head(inbox)
  /\ UNCHANGED <<published, inbox, rangeVars, clients, connVars, history>>

\* for msg := range ch
Forward ==
  /\ holding = 0
  /\ inbox # <<>>
  /\ holding' = Head(inbox)
  /\ inbox' = Tail(inbox)
  /\ UNCHANGED <<published, rangeVars, clients, connVars, history>>

(***************************************************************************)
(* Broadcaster.                                                            *)
(***************************************************************************)

\* broadcastChan <- msg meets msg := <-h.broadcast (the channel has no
\* buffer); then RLock, and the range over the map begins.
Receive ==
  /\ bpc = "receive"
  /\ holding # 0
  /\ taken' = Append(taken, holding)
  /\ holding' = 0
  /\ bpc' = "range"
  /\ due' = clients
  /\ visited' = {}
  /\ UNCHANGED <<published, inbox, target, clients, connVars, written, joinedAt>>

\* Mutant of Reach: the range produces an entry it has already produced.
ReachAgain(c) ==
  /\ bpc = "range"
  /\ c \in clients
  /\ bpc' = "write"
  /\ target' = c
  /\ due' = due \ {c}
  /\ visited' = visited \cup {c}
  /\ UNCHANGED <<feedVars, clients, connVars, history>>

\* The range loop reaches an entry: in any order, none twice, none deleted
\* before it is reached; one added meanwhile may or may not be reached.
Reach(c) ==
  /\ bpc = "range"
  /\ c \in clients \ visited
  /\ bpc' = "write"
  /\ target' = c
  /\ due' = due \ {c}
  /\ visited' = visited \cup {c}
  /\ UNCHANGED <<feedVars, clients, connVars, history>>

\* WriteMessage returns: at once while the browser reads, never while it
\* reads nothing (upgrading a connection clears its deadlines).  The kernel
\* may still accept data for a connection that is broken.
Write(c) ==
  /\ bpc = "write"
  /\ target = c
  /\ peer[c] # "stalled"
  /\ written' = [written EXCEPT ![c] = Append(@, taken[Len(taken)])]
  /\ bpc' = "range"
  /\ target' = None
  /\ UNCHANGED <<feedVars, due, visited, clients, connVars, taken, joinedAt>>

\* A write error: client.Close() and RUnlock.
WriteFails(c) ==
  /\ bpc = "write"
  /\ target = c
  /\ peer[c] = "gone" \/ c \in closed
  /\ closed' = closed \cup {c}
  /\ bpc' = "drop"
  /\ UNCHANGED <<feedVars, target, due, visited, clients, pc, peer, history>>

\* Mutant of Drop: the range is left.
DropAndStop(c) ==
  /\ bpc = "drop"
  /\ target = c
  /\ clients' = clients \ {c}
  /\ bpc' = "receive"
  /\ target' = None
  /\ UNCHANGED <<feedVars, due, visited, connVars, history>>

\* Lock, delete, Unlock, RLock: back in the range loop.
Drop(c) ==
  /\ bpc = "drop"
  /\ target = c
  /\ ~RLocked
  /\ clients' = clients \ {c}
  /\ bpc' = "range"
  /\ target' = None
  /\ UNCHANGED <<feedVars, due, visited, connVars, history>>

\* Mutant of RangeEnds: an entry that is due is left out.
RangeEndsEarly ==
  /\ bpc = "range"
  /\ visited # {} \/ clients = {}
  /\ bpc' = "receive"
  /\ UNCHANGED <<feedVars, target, due, visited, clients, connVars, history>>

\* The range is over, RUnlock.
RangeEnds ==
  /\ bpc = "range"
  /\ due \cap clients = {}
  /\ bpc' = "receive"
  /\ UNCHANGED <<feedVars, target, due, visited, clients, connVars, history>>

(***************************************************************************)
(* A browser and its HandleWS goroutine.                                   *)
(***************************************************************************)

Connect(c) ==
  /\ GoTo(c, "new", "register")
  /\ UNCHANGED <<feedVars, rangeVars, clients, peer, closed, history>>

Register(c) ==
  /\ ~RLocked
  /\ GoTo(c, "register", "reading")
  /\ clients' = clients \cup {c}
  /\ joinedAt' = [joinedAt EXCEPT ![c] = Len(taken)]
  /\ UNCHANGED <<feedVars, rangeVars, peer, closed, taken, written>>

\* The browser stops reading for a while, or its connection breaks.
PeerChanges(c) ==
  /\ pc[c] # "new"
  /\ peer[c] # "gone"
  /\ \E p \in {"reading", "stalled", "gone"} \ {peer[c]} :
       peer' = [peer EXCEPT ![c] = p]
  /\ UNCHANGED <<feedVars, rangeVars, clients, pc, closed, history>>

\* Mutants of ReadFails: the connection is closed before it is deleted; the
\* error does not end the loop.
ReadFailsAndCloses(c) ==
  /\ peer[c] = "gone" \/ c \in closed
  /\ GoTo(c, "reading", "unregister")
  /\ closed' = closed \cup {c}
  /\ UNCHANGED <<feedVars, rangeVars, clients, peer, history>>

ReadFailsUnseen(c) ==
  /\ peer[c] = "gone" \/ c \in closed
  /\ pc[c] = "reading"
  /\ UNCHANGED vars

\* ReadMessage returns an error: the loop is left.
ReadFails(c) ==
  /\ peer[c] = "gone" \/ c \in closed
  /\ GoTo(c, "reading", "unregister")
  /\ UNCHANGED <<feedVars, rangeVars, clients, peer, closed, history>>

\* Mutant of Unregister: the entry is kept.
UnregisterForgotten(c) ==
  /\ ~RLocked
  /\ GoTo(c, "unregister", "close")
  /\ UNCHANGED <<feedVars, rangeVars, clients, peer, closed, history>>

\* The deferred function: the entry is deleted under the lock, then the
\* connection is closed.
Unregister(c) ==
  /\ ~RLocked
  /\ GoTo(c, "unregister", "close")
  /\ clients' = clients \ {c}
  /\ UNCHANGED <<feedVars, rangeVars, peer, closed, history>>

Close(c) ==
  /\ GoTo(c, "close", "gone")
  /\ closed' = closed \cup {c}
  /\ UNCHANGED <<feedVars, rangeVars, clients, peer, history>>

-----------------------------------------------------------------------------

Broadcaster ==
  \/ Receive \/ RangeEnds
  \/ \E c \in Conns : Reach(c) \/ Write(c) \/ WriteFails(c) \/ Drop(c)

HandleWS(c) == Register(c) \/ ReadFails(c) \/ Unregister(c) \/ Close(c)

\* Nothing is left to broadcast and every browser has come and gone.
Quiet ==
  /\ published = MaxEvents /\ inbox = <<>> /\ holding = 0
  /\ bpc = "receive"
  /\ \A c \in Conns : pc[c] = "gone"

Next ==
  \/ Publish \/ Forward \/ Broadcaster
  \/ \E c \in Conns : Connect(c) \/ PeerChanges(c) \/ HandleWS(c)
  \/ Quiet /\ UNCHANGED vars

Spec == Init /\ [][Next]_vars

-----------------------------------------------------------------------------
(***************************************************************************)
(* Safety.                                                                 *)
(***************************************************************************)

\* The connection the Broadcaster writes to is registered, and nobody has
\* closed it: the read lock held through a blocking write keeps its handler
\* from deleting and closing it, and a connection whose write failed is never
\* written to again.
TargetIsRegistered ==
  bpc = "write" => target \in clients \ closed

\* The map holds exactly the connections whose handler is reading, up to those
\* the Broadcaster has given up: what /health counts, and nothing leaks.
ClientsMatchHandlers ==
  \A c \in Conns :
    /\ c \in clients => pc[c] \in {"reading", "unregister"}
    /\ pc[c] = "reading" /\ c \notin closed => c \in clients

\* A connection sees a piece of the stream of events: in order, none twice,
\* none left out, whoever else registers, leaves or breaks meanwhile.
DeliveredInOrder ==
  \A c \in Conns : \E first \in 1 .. Len(taken) + 1 :
    /\ first + Len(written[c]) <= Len(taken) + 1
    /\ written[c] = SubSeq(taken, first, first + Len(written[c]) - 1)

\* Between two events every registered connection has all the events since it
\* was registered; the deletion of another one in the middle of the range
\* costs it nothing.
NobodyFallsBehind ==
  bpc = "receive" =>
    \A c \in clients : Len(written[c]) >= Len(taken) - joinedAt[c]

\* The hub is one EventFeed: every registered connection that still works is
\* sent each event of one log once and in order, and none is overtaken.
Feed == INSTANCE EventFeed WITH
  log     <- taken,
  members <- clients \ closed,
  seen    <- written,
  since   <- joinedAt

ImplementsEventFeed == Feed!Spec

-----------------------------------------------------------------------------
(***************************************************************************)
(* Liveness.  Every goroutine that can go on does.  A waiting Lock of a    *)
(* sync.RWMutex goes before later RLocks, so a handler that waits for the  *)
(* Broadcaster gets its turn when the range ends: strong fairness.  So is  *)
(* that of Write: a browser that reads now and then drains its buffers.    *)
(* Publish, Connect and PeerChanges may never come.                        *)
(***************************************************************************)
Fairness ==
  /\ WF_vars(Forward)
  /\ WF_vars(Broadcaster)
  /\ \A c \in Conns :
       /\ SF_vars(Write(c))
       /\ SF_vars(Register(c))
       /\ SF_vars(Unregister(c))
       /\ WF_vars(ReadFails(c) \/ Close(c))

FairSpec == Spec /\ Fairness

\* No browser stops reading for ever.
NobodyStalls == \A c \in Conns : []<>(peer[c] # "stalled")

Received(c, k) == joinedAt[c] + Len(written[c]) >= k

\* An event that Redis has delivered to this process is written to every
\* browser that is registered by then, unless it leaves; provided that nobody
\* stalls.  Neither the forwarder nor the Broadcaster loses or delays it.
EventsReachClients ==
  NobodyStalls =>
    \A c \in Conns, e \in Events :
      holding = e /\ c \in clients ~>
        \/ \E i \in DOMAIN written[c] : written[c][i] = e
        \/ c \notin clients

\* A broken connection is forgotten and its handler returns.
BrokenConnectionsEnd ==
  NobodyStalls =>
    \A c \in Conns : peer[c] = "gone" ~> pc[c] = "gone"

\* "Broadcaster runs in a goroutine to broadcast messages to all clients": an
\* event taken while a browser that keeps reading is registered reaches it,
\* whatever the other browsers do.
ReadersGetEvents ==
  \A c \in Conns, k \in Events :
    Len(taken) = k /\ c \in clients
      ~> Received(c, k) \/ c \notin clients \/ peer[c] # "reading"
=============================================================================
