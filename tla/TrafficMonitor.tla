---------------------------- MODULE TrafficMonitor ----------------------------
(***************************************************************************)
(* On-demand traffic monitoring: OnDemandTrafficService, the WebSocket     *)
(* handler that calls it (StreamCustomerTraffic) and the router stream     *)
(* that feeds it (MonitorTraffic).                                         *)
(*                                                                         *)
(* A session is one WebSocket request for one customer.  It owns at most   *)
(* one subscription channel, and it is the creator of at most one          *)
(* CustomerMonitor, so a session also names its channel and the monitor,   *)
(* the monitor loop and the router pump it may have created.               *)
(*                                                                         *)
(* One action is one step between two points where other goroutines can    *)
(* be seen: a critical section of s.mu, a channel operation, a call to the *)
(* database or the router; what a goroutine does only for itself before    *)
(* the next such point belongs to the same action.  Nothing blocks while   *)
(* s.mu is held, so s.mu itself is not a variable; the per-customer lock   *)
(* is held across the database and router calls, and is one.               *)
(*                                                                         *)
(* Clients, Observers and restartCount belong to the monitor registered    *)
(* for a customer and are indexed by the customer: nobody keeps a          *)
(* reference to a monitor that is no longer in activeMonitors.             *)
(*                                                                         *)
(* Locks, lookups and removals use the :id of the request, the registry's  *)
(* entry and the loop the id of the row that was found.  The two are the   *)
(* same here: an id is spelled in requests as the API gave it, although    *)
(* the database would also find a row by another spelling of its UUID.     *)
(***************************************************************************)
EXTENDS Integers, FiniteSets

CONSTANTS
  Customers,    \* customer ids
  Sessions,     \* WebSocket requests for a customer's traffic
  CustomerOf,   \* the :id parameter of each request
  MaxRestarts,  \* maxRestarts of runMonitorLoop, 3 in the code
  BufCap,       \* capacity of a subscription channel, 50 in the code
  None          \* no session

ASSUME TrafficMonitorAssumption ==
  /\ IsFiniteSet(Sessions)
  /\ CustomerOf \in [Sessions -> Customers]
  /\ MaxRestarts \in Nat
  /\ BufCap \in Nat \ {0}
  /\ None \notin Sessions

VARIABLES
  pc,              \* where each request's handler is
  peer,            \* is the browser's end of the WebSocket still there?
  cleanup,         \* sessions whose cleanup goroutine has not finished
  lockHolder,      \* monitorLocks: the request holding a customer's mutex
  activeMonitors,  \* the registered monitor of each customer
  clients,         \* its CustomerMonitor.Clients
  observers,       \* its CustomerMonitor.Observers
  restartCount,    \* its CustomerMonitor.restartCount
  cancelled,       \* monitors whose context is cancelled
  chan,            \* each session's channel: none yet, open or closed
  queue,           \* number of samples buffered in it
  loop,            \* where each monitor's runMonitorLoop goroutine is
  pump,            \* where the goroutine of its latest MonitorTraffic is
  panicked         \* an unrecovered panic has ended the process

sessionVars == <<pc, peer, cleanup>>
serviceVars == <<lockHolder, activeMonitors, clients, observers, restartCount,
                 cancelled>>
channelVars == <<chan, queue>>
loopVars    == <<loop, pump>>
vars == <<sessionVars, serviceVars, channelVars, loopVars, panicked>>

PcStates   == {"idle", "start", "fetch", "add", "stream", "stop", "ended"}
LoopStates == {"none", "top", "check", "listen", "process", "exited"}
PumpStates == {"none", "select", "send", "closed"}

TypeOK ==
  /\ pc \in [Sessions -> PcStates]
  /\ peer \in [Sessions -> BOOLEAN]
  /\ cleanup \subseteq Sessions
  /\ lockHolder \in [Customers -> Sessions \cup {None}]
  /\ activeMonitors \in [Customers -> Sessions \cup {None}]
  /\ clients \in [Customers -> Int]
  /\ observers \in [Customers -> SUBSET Sessions]
  /\ restartCount \in [Customers -> Nat]
  /\ cancelled \subseteq Sessions
  /\ chan \in [Sessions -> {"none", "open", "closed"}]
  /\ queue \in [Sessions -> 0 .. BufCap]
  /\ loop \in [Sessions -> LoopStates]
  /\ pump \in [Sessions -> PumpStates]
  /\ panicked \in BOOLEAN

Init ==
  /\ pc = [s \in Sessions |-> "idle"]
  /\ peer = [s \in Sessions |-> TRUE]
  /\ cleanup = {}
  /\ lockHolder = [c \in Customers |-> None]
  /\ activeMonitors = [c \in Customers |-> None]
  /\ clients = [c \in Customers |-> 0]
  /\ observers = [c \in Customers |-> {}]
  /\ restartCount = [c \in Customers |-> 0]
  /\ cancelled = {}
  /\ chan = [s \in Sessions |-> "none"]
  /\ queue = [s \in Sessions |-> 0]
  /\ loop = [s \in Sessions |-> "none"]
  /\ pump = [s \in Sessions |-> "none"]
  /\ panicked = FALSE

(***************************************************************************)
(* Helpers.                                                                *)
(***************************************************************************)
Monitored(c) == activeMonitors[c] # None

\* Mutant of FreshFields: a new monitor starts without its first client.
FreshFieldsUncounted(c, n) ==
  /\ clients' = [clients EXCEPT ![c] = 0]
  /\ observers' = [observers EXCEPT ![c] = {}]
  /\ restartCount' = [restartCount EXCEPT ![c] = 0]

\* The fields of c's monitor: those of a new one with n clients, and (n = 0)
\* what is left of one that is unregistered.
FreshFields(c, n) ==
  /\ clients' = [clients EXCEPT ![c] = n]
  /\ observers' = [observers EXCEPT ![c] = {}]
  /\ restartCount' = [restartCount EXCEPT ![c] = 0]

GoTo(s, from, to) ==
  /\ pc[s] = from
  /\ pc' = [pc EXCEPT ![s] = to]

LoopGoTo(m, from, to) ==
  /\ loop[m] = from
  /\ loop' = [loop EXCEPT ![m] = to]

\* The customer's mutex.  Mutants: it is not taken, it is not released.
LockForgotten(s) == UNCHANGED lockHolder

Lock(s) ==
  /\ lockHolder[CustomerOf[s]] = None
  /\ lockHolder' = [lockHolder EXCEPT ![CustomerOf[s]] = s]

UnlockForgotten(s) == UNCHANGED lockHolder

Unlock(s) == lockHolder' = [lockHolder EXCEPT ![CustomerOf[s]] = None]

\* A non-blocking send to every channel of S: a full buffer drops the sample.
TrySend(S) ==
  queue' = [s \in Sessions |->
              IF s \in S /\ queue[s] < BufCap THEN queue[s] + 1 ELSE queue[s]]

\* Mutant of CloseChannels: the channels are not closed.
CloseNothing(S) == UNCHANGED chan

CloseChannels(S) ==
  chan' = [s \in Sessions |-> IF s \in S THEN "closed" ELSE chan[s]]

\* Sending on, or closing, a channel that is already closed panics.
PanicIfClosed(S) == panicked' = (\E s \in S : chan[s] = "closed")

\* Mutant of TearDown: the monitor stays registered.
TearDownRegistered(c) ==
  /\ cancelled' = cancelled \cup {activeMonitors[c]}
  /\ CloseChannels(observers[c])
  /\ PanicIfClosed(observers[c])
  /\ FreshFields(c, 0)
  /\ UNCHANGED activeMonitors

\* Cancel a monitor, unregister it and close every observer's channel: the
\* end StopMonitoring and the restart limit share.
TearDown(c) ==
  /\ cancelled' = cancelled \cup {activeMonitors[c]}
  /\ activeMonitors' = [activeMonitors EXCEPT ![c] = None]
  /\ CloseChannels(observers[c])
  /\ PanicIfClosed(observers[c])
  /\ FreshFields(c, 0)

(***************************************************************************)
(* A request: StreamCustomerTraffic and the StartMonitoring it calls.      *)
(***************************************************************************)

\* The WebSocket is upgraded and the handler calls StartMonitoring.
Connect(s) ==
  /\ GoTo(s, "idle", "start")
  /\ UNCHANGED <<peer, cleanup, serviceVars, channelVars, loopVars, panicked>>

\* The browser goes away.  Nothing tells the handler: the goroutine that
\* reads from the socket just returns, and a hijacked connection's request
\* context is not cancelled by a broken connection.  (One that left before
\* the stream began is as good as one that leaves now.)
PeerLeaves(s) ==
  /\ pc[s] = "stream"
  /\ peer[s]
  /\ peer' = [peer EXCEPT ![s] = FALSE]
  /\ UNCHANGED <<pc, cleanup, serviceVars, channelVars, loopVars, panicked>>

\* StartMonitoring takes the customer's lock.  A registered monitor gets one
\* more client, otherwise the database and the router are asked; the lock
\* stays held.
StartLookup(s) ==
  /\ Lock(s)
  /\ \/ /\ Monitored(CustomerOf[s])
        /\ GoTo(s, "start", "add")
        /\ clients' = [clients EXCEPT ![CustomerOf[s]] = @ + 1]
     \/ /\ ~Monitored(CustomerOf[s])
        /\ GoTo(s, "start", "fetch")
        /\ UNCHANGED clients
  /\ UNCHANGED <<peer, cleanup, activeMonitors, observers, restartCount,
                 cancelled, channelVars, loopVars, panicked>>

\* No such customer, no PPPoE username, the router fails or shows no active
\* session: the deferred unlock runs and the handler returns, without
\* StopMonitoring.
StartFails(s) ==
  /\ GoTo(s, "fetch", "ended")
  /\ Unlock(s)
  /\ UNCHANGED <<peer, cleanup, activeMonitors, clients, observers,
                 restartCount, cancelled, channelVars, loopVars, panicked>>

\* The interface is found: a new monitor is registered, overwriting any
\* other, and its loop is started.
Install(s) ==
  /\ GoTo(s, "fetch", "add")
  /\ activeMonitors' = [activeMonitors EXCEPT ![CustomerOf[s]] = s]
  /\ FreshFields(CustomerOf[s], 1)
  /\ LoopGoTo(s, "none", "top")
  /\ UNCHANGED <<peer, cleanup, lockHolder, cancelled, channelVars, pump,
                 panicked>>

\* addObserver looks the customer up again, subscribes to whatever monitor is
\* registered now and starts the cleanup goroutine; then the lock is released.
AddObserver(s) ==
  /\ Monitored(CustomerOf[s])
  /\ GoTo(s, "add", "stream")
  /\ chan' = [chan EXCEPT ![s] = "open"]
  /\ observers' = [observers EXCEPT ![CustomerOf[s]] = @ \cup {s}]
  /\ cleanup' = cleanup \cup {s}
  /\ Unlock(s)
  /\ UNCHANGED <<peer, activeMonitors, clients, restartCount, cancelled, queue,
                 loopVars, panicked>>

\* The monitor hit its restart limit between the two critical sections:
\* StartMonitoring returns an error and the handler returns.
AddObserverFails(s) ==
  /\ ~Monitored(CustomerOf[s])
  /\ GoTo(s, "add", "ended")
  /\ Unlock(s)
  /\ UNCHANGED <<peer, cleanup, activeMonitors, clients, observers,
                 restartCount, cancelled, channelVars, loopVars, panicked>>

\* The handler takes a sample and writes it to the WebSocket.  Writing to a
\* browser that has left may still succeed (the kernel buffers) or fail.
Deliver(s) ==
  /\ pc[s] = "stream"
  /\ queue[s] > 0
  /\ queue' = [queue EXCEPT ![s] = @ - 1]
  /\ UNCHANGED <<sessionVars, serviceVars, chan, loopVars, panicked>>

\* Mutant of WriteFails: the error does not end the loop.
WriteFailsUnseen(s) == ~peer[s] /\ Deliver(s)

WriteFails(s) ==
  /\ ~peer[s]
  /\ queue[s] > 0
  /\ GoTo(s, "stream", "stop")
  /\ queue' = [queue EXCEPT ![s] = @ - 1]
  /\ UNCHANGED <<peer, cleanup, serviceVars, chan, loopVars, panicked>>

\* The channel is closed and drained: the range loop is over.
StreamEnds(s) ==
  /\ chan[s] = "closed"
  /\ queue[s] = 0
  /\ GoTo(s, "stream", "stop")
  /\ UNCHANGED <<peer, cleanup, serviceVars, channelVars, loopVars, panicked>>

\* The deferred StopMonitoring, by customer and not by monitor: it leaves
\* whichever monitor is registered for the customer now.  Then the socket is
\* closed, the handler returns and net/http cancels the request's context.
\* (The missing-lock return is left out: a caller has been through
\* StartMonitoring, and locks are never deleted.)
StopMonitoring(s) ==
  LET c == CustomerOf[s] IN
  /\ lockHolder[c] = None
  /\ GoTo(s, "stop", "ended")
  /\ \/ /\ ~Monitored(c)
        /\ UNCHANGED <<activeMonitors, clients, observers, restartCount,
                       cancelled, chan, panicked>>
     \/ /\ Monitored(c)
        /\ clients[c] - 1 > 0
        /\ clients' = [clients EXCEPT ![c] = @ - 1]
        /\ UNCHANGED <<activeMonitors, observers, restartCount, cancelled, chan,
                       panicked>>
     \/ /\ Monitored(c)
        /\ clients[c] - 1 <= 0
        /\ TearDown(c)
  /\ UNCHANGED <<peer, cleanup, lockHolder, queue, loopVars>>

\* Mutant of Cleanup: the channel is closed but stays an observer.
CleanupUnfiled(s) ==
  /\ s \in cleanup
  /\ pc[s] = "ended"
  /\ cleanup' = cleanup \ {s}
  /\ \/ ~Monitored(CustomerOf[s]) /\ UNCHANGED <<chan, panicked>>
     \/ Monitored(CustomerOf[s]) /\ CloseChannels({s}) /\ PanicIfClosed({s})
  /\ UNCHANGED <<pc, peer, serviceVars, queue, loopVars>>

\* The goroutine addObserver started, once the request's context is done: if
\* the customer has a monitor, any monitor, the channel is removed from its
\* observers and closed, without asking whether it was closed before.
Cleanup(s) ==
  /\ s \in cleanup
  /\ pc[s] = "ended"
  /\ cleanup' = cleanup \ {s}
  /\ \/ /\ ~Monitored(CustomerOf[s])
        /\ UNCHANGED <<observers, chan, panicked>>
     \/ /\ Monitored(CustomerOf[s])
        /\ observers' = [observers EXCEPT ![CustomerOf[s]] = @ \ {s}]
        /\ CloseChannels({s})
        /\ PanicIfClosed({s})
  /\ UNCHANGED <<pc, peer, lockHolder, activeMonitors, clients, restartCount,
                 cancelled, queue, loopVars>>

(***************************************************************************)
(* A monitor's goroutines: runMonitorLoop with processTrafficStream and    *)
(* publishTrafficData, and the pump started by MonitorTraffic.  The loop   *)
(* of monitor m works on the customer of m: what it finds registered there *)
(* may be another monitor.                                                 *)
(***************************************************************************)

\* select { case <-ctx.Done(): return  default: ... }
LoopTop(m) ==
  /\ LoopGoTo(m, "top", IF m \in cancelled THEN "exited" ELSE "check")
  /\ UNCHANGED <<sessionVars, serviceVars, channelVars, pump, panicked>>

\* No monitor is registered any more: return.
CheckGone(m) ==
  /\ ~Monitored(CustomerOf[m])
  /\ LoopGoTo(m, "check", "exited")
  /\ UNCHANGED <<sessionVars, serviceVars, channelVars, pump, panicked>>

CheckPasses(m) ==
  /\ Monitored(CustomerOf[m])
  /\ restartCount[CustomerOf[m]] < MaxRestarts
  /\ LoopGoTo(m, "check", "listen")
  /\ UNCHANGED <<sessionVars, serviceVars, channelVars, pump, panicked>>

\* The registered monitor has used up its restarts: it is torn down, after an
\* empty sample is offered to each observer.
CheckGivesUp(m) ==
  /\ Monitored(CustomerOf[m])
  /\ restartCount[CustomerOf[m]] >= MaxRestarts
  /\ LoopGoTo(m, "check", "exited")
  /\ TearDown(CustomerOf[m])
  /\ TrySend(observers[CustomerOf[m]])
  /\ UNCHANGED <<sessionVars, lockHolder, pump>>

\* A failed or ended stream counts as a restart of the customer's registered
\* monitor, if there is one.  Then the loop sleeps, for as long as its next
\* LoopTop takes to come.
CountRestart(m) ==
  restartCount' = IF Monitored(CustomerOf[m])
                    THEN [restartCount EXCEPT ![CustomerOf[m]] = @ + 1]
                    ELSE restartCount

\* MonitorTraffic: the router accepts the command, or not (a cancelled
\* context, a lost connection, an interface that is gone).
Listen(m) ==
  /\ LoopGoTo(m, "listen", "process")
  /\ pump' = [pump EXCEPT ![m] = "select"]
  /\ UNCHANGED <<sessionVars, serviceVars, channelVars, panicked>>

ListenFails(m) ==
  /\ LoopGoTo(m, "listen", "top")
  /\ CountRestart(m)
  /\ UNCHANGED <<sessionVars, lockHolder, activeMonitors, clients, observers,
                 cancelled, channelVars, pump, panicked>>

\* The three cases of the select of processTrafficStream.
ProcessCancelled(m) ==
  /\ m \in cancelled
  /\ LoopGoTo(m, "process", "top")
  /\ UNCHANGED <<sessionVars, serviceVars, channelVars, pump, panicked>>

ProcessClosed(m) ==
  /\ pump[m] = "closed"
  /\ LoopGoTo(m, "process", "top")
  /\ CountRestart(m)
  /\ UNCHANGED <<sessionVars, lockHolder, activeMonitors, clients, observers,
                 cancelled, channelVars, pump, panicked>>

\* A sample is taken from the pump: one without an interface name is ignored,
\* any other goes to the observers of the customer's registered monitor, if
\* there is one (publishTrafficData; the Redis stream it writes first,
\* ignoring errors, is not state here).
TakeSample(m) ==
  /\ loop[m] = "process"
  /\ pump[m] = "send"
  /\ pump' = [pump EXCEPT ![m] = "select"]
  /\ UNCHANGED <<sessionVars, serviceVars, chan, loop>>

\* Mutant of IgnoreSample: a sample without a name ends the stream.
IgnoreSampleAndLeave(m) ==
  /\ pump[m] = "send"
  /\ pump' = [pump EXCEPT ![m] = "select"]
  /\ LoopGoTo(m, "process", "top")
  /\ UNCHANGED <<sessionVars, serviceVars, channelVars, panicked>>

IgnoreSample(m) ==
  TakeSample(m) /\ UNCHANGED <<queue, panicked>>

\* Mutant of PublishSample: the sample goes to every customer's observers.
PublishSampleToAll(m) ==
  LET readers == UNION {observers[c] : c \in Customers}
  IN  TakeSample(m) /\ TrySend(readers) /\ PanicIfClosed(readers)

PublishSample(m) ==
  LET readers == IF Monitored(CustomerOf[m]) THEN observers[CustomerOf[m]]
                                             ELSE {}
  IN  TakeSample(m) /\ TrySend(readers) /\ PanicIfClosed(readers)

\* The router sends a sample; the pump then blocks until it is taken.
PumpReceives(m) ==
  /\ pump[m] = "select"
  /\ pump' = [pump EXCEPT ![m] = "send"]
  /\ UNCHANGED <<sessionVars, serviceVars, channelVars, loop, panicked>>

\* The pump closes its channel: the context is done, or the router's reply
\* channel is closed (the connection or the interface is gone).
PumpCancelled(m) ==
  /\ pump[m] = "select"
  /\ m \in cancelled
  /\ pump' = [pump EXCEPT ![m] = "closed"]
  /\ UNCHANGED <<sessionVars, serviceVars, channelVars, loop, panicked>>

ReplyEnds(m) ==
  /\ pump[m] = "select"
  /\ pump' = [pump EXCEPT ![m] = "closed"]
  /\ UNCHANGED <<sessionVars, serviceVars, channelVars, loop, panicked>>

-----------------------------------------------------------------------------

Handler(s) ==
  \/ StartLookup(s) \/ StartFails(s) \/ Install(s)
  \/ AddObserver(s) \/ AddObserverFails(s)
  \/ Deliver(s) \/ WriteFails(s) \/ StreamEnds(s)
  \/ StopMonitoring(s)

Session(s) == Connect(s) \/ PeerLeaves(s) \/ Handler(s) \/ Cleanup(s)

Loop(m) ==
  \/ LoopTop(m)
  \/ CheckGone(m) \/ CheckPasses(m) \/ CheckGivesUp(m)
  \/ Listen(m) \/ ListenFails(m)
  \/ ProcessCancelled(m) \/ ProcessClosed(m)
  \/ IgnoreSample(m) \/ PublishSample(m)

Monitor(m) == Loop(m) \/ PumpReceives(m) \/ PumpCancelled(m) \/ ReplyEnds(m)

\* Every request is over and every monitor loop has returned, or the process
\* has died: the only states in which nothing need happen.
Finished ==
  \/ panicked
  \/ /\ \A s \in Sessions : pc[s] = "ended" /\ loop[s] \in {"none", "exited"}
     /\ cleanup = {}

Next ==
  \/ ~panicked /\ \E s \in Sessions : Session(s) \/ Monitor(s)
  \/ Finished /\ UNCHANGED vars

Spec == Init /\ [][Next]_vars

-----------------------------------------------------------------------------
(***************************************************************************)
(* Safety.                                                                 *)
(***************************************************************************)

Live(m) == loop[m] \notin {"none", "exited"} /\ m \notin cancelled

\* A monitor is registered exactly while its loop runs with a live context:
\* no customer is watched twice, no loop outlives its registration unnoticed,
\* and no registered monitor has nobody feeding it.  StartMonitoring checks
\* the map, releases s.mu for its database and router calls, and only then
\* registers; the per-customer lock must make that safe.
RegistryMatchesLoops ==
  \A m \in Sessions : Live(m) <=> activeMonitors[CustomerOf[m]] = m

\* A handler that waits on an open channel is an observer of the monitor that
\* is registered now, so whoever tears that monitor down will wake it.
ReadersAreObserved ==
  \A s \in Sessions :
    chan[s] = "open" =>
      Monitored(CustomerOf[s]) /\ s \in observers[CustomerOf[s]]

\* The observers of a registered monitor are open channels: publishing to
\* them or tearing the monitor down cannot panic.
ObserversAreOpen ==
  \A c \in Customers : \A s \in observers[c] : chan[s] = "open"

\* Requests that have been counted as a client of some monitor of c and have
\* not called StopMonitoring yet.
Counted(c) ==
  {s \in Sessions : CustomerOf[s] = c /\ pc[s] \in {"add", "stream", "stop"}}

\* A registered monitor has a client, and never more clients than requests
\* that will still call StopMonitoring.  When the last request of a customer
\* is over, its monitor is gone: none is left running for nobody.
ClientsAreCounted ==
  \A c \in Customers :
    Monitored(c) => clients[c] \in 1 .. Cardinality(Counted(c))

\* A pump that is alive finds its loop at the select that takes its samples,
\* as long as the monitor is not cancelled: no sample is lost to a loop that
\* has gone, and no second pump is started while one is alive.
PumpHasReader ==
  \A m \in Sessions :
    pump[m] \in {"select", "send"} /\ m \notin cancelled => loop[m] = "process"

\* The one way to a panic: the channel of a request that is over was closed
\* with its monitor, and before its cleanup goroutine runs another request of
\* the customer has a new monitor registered, which is taken for the old one.
\* No publishing, no tear-down and no lone request panics.
LateCleanup(s) ==
  /\ Cleanup(s)
  /\ chan[s] = "closed"
  /\ activeMonitors[CustomerOf[s]] \notin {None, s}

PanicsAreLateCleanups ==
  [][~panicked /\ panicked' => \E s \in Sessions : LateCleanup(s)]_vars

\* What the safety properties rest on.  A request is between the map lookup
\* and addObserver exactly while it holds its customer's lock, and as long as
\* it asks the database and the router nobody else can register a monitor.
LockProtectsStart ==
  \A s \in Sessions :
    /\ pc[s] \in {"fetch", "add"} <=> lockHolder[CustomerOf[s]] = s
    /\ pc[s] = "fetch" => ~Monitored(CustomerOf[s])

\* Monitors and observers are filed under their own customer.
FiledByCustomer ==
  \A c \in Customers :
    /\ Monitored(c) => CustomerOf[activeMonitors[c]] = c
    /\ \A s \in observers[c] : CustomerOf[s] = c

\* No channel before addObserver, no cleanup without a channel, no loop before
\* it is installed, nothing cancelled that was not started.
StartedInOrder ==
  \A s \in Sessions :
    /\ pc[s] \in {"idle", "start", "fetch", "add"} => chan[s] = "none"
    /\ s \in cleanup => chan[s] # "none"
    /\ pc[s] \in {"idle", "start", "fetch"} => loop[s] = "none"
    /\ s \in cancelled => loop[s] # "none"

\* The inductive invariant of the proofs.
IndInv ==
  /\ TypeOK
  /\ LockProtectsStart
  /\ FiledByCustomer
  /\ StartedInOrder
  /\ RegistryMatchesLoops
  /\ ReadersAreObserved
  /\ ObserversAreOpen
  /\ ClientsAreCounted
  /\ PumpHasReader

\* The service is one TrafficFeeds: samples reach exactly the open feeds of
\* the customer, and every end of a monitor ends all of them at once.
Feeds == INSTANCE TrafficFeeds WITH
  running  <- [c \in Customers |-> Monitored(c)],
  feed     <- chan,
  buffered <- queue

ImplementsTrafficFeeds == Feeds!Spec

-----------------------------------------------------------------------------
(***************************************************************************)
(* Liveness.  A goroutine that can take a step takes one (the database and *)
(* the router answer, with a result or an error; a request takes the       *)
(* customer's lock twice at most, so that waiting for it needs no more).   *)
(* A select with several ready cases picks one at random, so a context     *)
(* that stays cancelled is seen.  A router that streams keeps sending, and *)
(* not only samples without a name; writing to a dead connection fails in  *)
(* the end.  Connect, PeerLeaves and ReplyEnds may never come.             *)
(***************************************************************************)
SessionFairness(s) ==
  /\ WF_vars(~panicked /\ Handler(s))
  /\ SF_vars(~panicked /\ WriteFails(s))

MonitorFairness(m) ==
  /\ WF_vars(~panicked /\ Loop(m))
  /\ WF_vars(~panicked /\ ProcessCancelled(m))
  /\ SF_vars(~panicked /\ PublishSample(m))
  /\ WF_vars(~panicked /\ (PumpReceives(m) \/ PumpCancelled(m)))

FairSpec ==
  Spec /\ \A s \in Sessions : SessionFairness(s) /\ MonitorFairness(s)

\* Every request that waits in StartMonitoring is answered, with a stream or
\* with an error, even though the lock is held across slow calls.
StartsAreAnswered ==
  \A s \in Sessions :
    pc[s] = "start" ~> pc[s] \in {"stream", "ended"} \/ panicked

\* A browser that leaves is noticed: its handler returns, though the handler
\* learns of it only by writing a sample.
DeparturesAreNoticed ==
  \A s \in Sessions :
    pc[s] = "stream" /\ ~peer[s] ~> pc[s] = "ended" \/ panicked

\* When everybody has left, no monitor of the customer stays registered, and
\* its loops return.
MonitorsAreReleased ==
  \A c \in Customers :
    (\A s \in Sessions : CustomerOf[s] = c => pc[s] = "idle" \/ ~peer[s]) ~>
      \/ /\ activeMonitors[c] = None
         /\ \A m \in Sessions : CustomerOf[m] = c => loop[m] \in {"none", "exited"}
      \/ \E s \in Sessions : CustomerOf[s] = c /\ pc[s] # "idle" /\ peer[s]
      \/ panicked
-----------------------------------------------------------------------------
(***************************************************************************)
(* What a document of the repository says and the code does not do; it is  *)
(* refuted by a run.                                                       *)
(***************************************************************************)

\* "Application will now run without panics": no close of a closed channel.
NoPanic == ~panicked
=============================================================================
