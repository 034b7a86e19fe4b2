------------------------ MODULE TrafficMonitorProofs ------------------------
(***************************************************************************)
(* Proofs about TrafficMonitor for any set of requests and customers, any  *)
(* restart limit and any channel capacity.                                 *)
(***************************************************************************)
EXTENDS TrafficMonitor, FiniteSetTheorems, TLAPS

USE TrafficMonitorAssumption

LEMMA PanicIsBoolean ==
  ASSUME NEW S, PanicIfClosed(S) PROVE panicked' \in BOOLEAN
  BY Zenon DEF PanicIfClosed

LEMMA TypeInit == Init => TypeOK
<1> SUFFICES ASSUME Init PROVE TypeOK
  OBVIOUS
<1>1. panicked \in BOOLEAN
  BY DEF Init
<1>2. 0 \in 0 .. BufCap
  BY DEF TrafficMonitorAssumption
<1> QED
  BY <1>1, <1>2 DEF Init, TypeOK, PcStates, LoopStates, PumpStates

LEMMA TypeStep == TypeOK /\ [Next]_vars => TypeOK'
<1> SUFFICES ASSUME TypeOK, [Next]_vars PROVE TypeOK'
  OBVIOUS
<1> USE DEF TypeOK, PcStates, LoopStates, PumpStates, TrafficMonitorAssumption
<1>1. CASE UNCHANGED vars
  BY <1>1 DEF vars, sessionVars, serviceVars, channelVars, loopVars
<1>2. ASSUME NEW s \in Sessions, Session(s) PROVE TypeOK'
  <2> USE DEF sessionVars, serviceVars, channelVars, loopVars
  <2>1. CASE Connect(s)
    BY <2>1 DEF Connect, GoTo
  <2>2. CASE PeerLeaves(s)
    BY <2>2 DEF PeerLeaves
  <2>3. CASE StartLookup(s)
    BY <2>3 DEF StartLookup, Lock, GoTo, Monitored
  <2>4. CASE StartFails(s)
    BY <2>4 DEF StartFails, GoTo, Unlock
  <2>5. CASE Install(s)
    BY <2>5 DEF Install, GoTo, LoopGoTo, FreshFields
  <2>6. CASE AddObserver(s)
    BY <2>6 DEF AddObserver, GoTo, Unlock
  <2>7. CASE AddObserverFails(s)
    BY <2>7 DEF AddObserverFails, GoTo, Unlock
  <2>8. CASE Deliver(s)
    BY <2>8 DEF Deliver
  <2>9. CASE WriteFails(s)
    BY <2>9 DEF WriteFails, GoTo
  <2>10. CASE StreamEnds(s)
    BY <2>10 DEF StreamEnds, GoTo
  <2>11. CASE StopMonitoring(s)
    <3>1. panicked' \in BOOLEAN
      BY <2>11, PanicIsBoolean DEF StopMonitoring, TearDown
    <3> QED
      BY <2>11, <3>1 DEF StopMonitoring, GoTo, Monitored, TearDown,
                         CloseChannels, FreshFields
  <2>12. CASE Cleanup(s)
    <3>1. panicked' \in BOOLEAN
      BY <2>12, PanicIsBoolean DEF Cleanup
    <3> QED
      BY <2>12, <3>1 DEF Cleanup, Monitored, CloseChannels
  <2> QED
    BY <1>2, <2>1, <2>2, <2>3, <2>4, <2>5, <2>6, <2>7, <2>8, <2>9, <2>10,
       <2>11, <2>12 DEF Session, Handler
<1>3. ASSUME NEW m \in Sessions, Monitor(m) PROVE TypeOK'
  <2> USE DEF sessionVars, serviceVars, channelVars, loopVars
  <2>1. CASE LoopTop(m)
    BY <2>1 DEF LoopTop, LoopGoTo
  <2>2. CASE CheckGone(m)
    BY <2>2 DEF CheckGone, LoopGoTo
  <2>3. CASE CheckPasses(m)
    BY <2>3 DEF CheckPasses, LoopGoTo
  <2>4. CASE CheckGivesUp(m)
    <3>1. panicked' \in BOOLEAN
      BY <2>4, PanicIsBoolean DEF CheckGivesUp, TearDown
    <3> QED
      BY <2>4, <3>1 DEF CheckGivesUp, LoopGoTo, Monitored, TearDown,
                        CloseChannels, FreshFields, TrySend
  <2>5. CASE Listen(m)
    BY <2>5 DEF Listen, LoopGoTo
  <2>6. CASE ListenFails(m)
    BY <2>6 DEF ListenFails, LoopGoTo, CountRestart
  <2>7. CASE ProcessCancelled(m)
    BY <2>7 DEF ProcessCancelled, LoopGoTo
  <2>8. CASE ProcessClosed(m)
    BY <2>8 DEF ProcessClosed, LoopGoTo, CountRestart
  <2>9. CASE IgnoreSample(m)
    BY <2>9 DEF IgnoreSample, TakeSample
  <2>10. CASE PublishSample(m)
    <3>1. panicked' \in BOOLEAN
      BY <2>10, PanicIsBoolean DEF PublishSample
    <3> QED
      BY <2>10, <3>1 DEF PublishSample, TakeSample, TrySend
  <2>11. CASE PumpReceives(m)
    BY <2>11 DEF PumpReceives
  <2>12. CASE PumpCancelled(m)
    BY <2>12 DEF PumpCancelled
  <2>13. CASE ReplyEnds(m)
    BY <2>13 DEF ReplyEnds
  <2> QED
    BY <1>3, <2>1, <2>2, <2>3, <2>4, <2>5, <2>6, <2>7, <2>8, <2>9, <2>10,
       <2>11, <2>12, <2>13 DEF Monitor, Loop
<1> QED
  BY <1>1, <1>2, <1>3 DEF Next

\* No execution leaves the types of the variables.
THEOREM TypeCorrect == Spec => []TypeOK
  BY TypeInit, TypeStep, PTL DEF Spec
-----------------------------------------------------------------------------
(***************************************************************************)
(* The inductive invariant, one part at a time.  Most steps leave the      *)
(* variables of a part alone; two lemmas say which.                        *)
(***************************************************************************)
LEMMA QuietSession ==
  ASSUME NEW s \in Sessions,
         \/ Connect(s) \/ PeerLeaves(s)
         \/ Deliver(s) \/ WriteFails(s) \/ StreamEnds(s)
  PROVE  /\ UNCHANGED <<lockHolder, activeMonitors, clients, observers,
                        cleanup, cancelled, chan, loop, pump>>
         /\ \/ UNCHANGED pc
            \/ GoTo(s, "idle", "start")
            \/ GoTo(s, "stream", "stop")
  BY DEF Connect, PeerLeaves, Deliver, WriteFails, StreamEnds, serviceVars,
         sessionVars, loopVars, channelVars

LEMMA QuietMonitor ==
  ASSUME NEW m \in Sessions, Monitor(m), ~CheckGivesUp(m)
  PROVE  UNCHANGED <<pc, cleanup, lockHolder, activeMonitors, clients,
                     observers, cancelled, chan>>
  BY DEF Monitor, Loop, LoopTop, CheckGone, CheckPasses, Listen, ListenFails,
         ProcessCancelled, ProcessClosed, IgnoreSample, PublishSample,
         TakeSample, PumpReceives, PumpCancelled, ReplyEnds, serviceVars,
         sessionVars, channelVars

\* The running loop of a monitor stays on its way round until it exits, and
\* exits only when cancelled, when its customer has no monitor, or when it
\* gives up; a step of its pump does not move it.
LEMMA LoopMoves ==
  ASSUME TypeOK, NEW m \in Sessions, Monitor(m)
  PROVE  \/ UNCHANGED loop
         \/ /\ loop[m] \notin {"none", "exited"}
            /\ \E to \in LoopStates \ {"none"} :
                 /\ loop' = [loop EXCEPT ![m] = to]
                 /\ to = "exited" => \/ m \in cancelled
                                    \/ ~Monitored(CustomerOf[m])
                                    \/ CheckGivesUp(m)
  BY DEF TypeOK, LoopStates, Monitor, Loop, LoopTop, CheckGone, CheckPasses,
         CheckGivesUp, Listen, ListenFails, ProcessCancelled, ProcessClosed,
         IgnoreSample, PublishSample, TakeSample, PumpReceives, PumpCancelled,
         ReplyEnds, LoopGoTo

LEMMA LockStep ==
  ASSUME TypeOK, LockProtectsStart, [Next]_vars
  PROVE  LockProtectsStart'
<1> USE DEF TypeOK, PcStates, TrafficMonitorAssumption, LockProtectsStart, GoTo,
            Monitored
<1>1. CASE UNCHANGED vars
  BY <1>1 DEF vars, sessionVars, serviceVars
<1>2. ASSUME NEW s \in Sessions, Session(s) PROVE LockProtectsStart'
  <2>1. CASE StartLookup(s)
    BY <2>1 DEF StartLookup, Lock
  <2>2. CASE StartFails(s)
    BY <2>2 DEF StartFails, Unlock
  <2>3. CASE Install(s)
    BY <2>3 DEF Install
  <2>4. CASE AddObserver(s) \/ AddObserverFails(s)
    BY <2>4 DEF AddObserver, AddObserverFails, Unlock
  <2>5. CASE StopMonitoring(s)
    BY <2>5 DEF StopMonitoring, TearDown
  <2>6. CASE Cleanup(s)
    BY <2>6 DEF Cleanup
  <2>7. CASE Connect(s) \/ PeerLeaves(s) \/ Deliver(s) \/ WriteFails(s)
               \/ StreamEnds(s)
    BY <2>7, QuietSession
  <2> QED
    BY <1>2, <2>1, <2>2, <2>3, <2>4, <2>5, <2>6, <2>7 DEF Session, Handler
<1>3. ASSUME NEW m \in Sessions, Monitor(m) PROVE LockProtectsStart'
  <2>1. CASE CheckGivesUp(m)
    BY <2>1 DEF CheckGivesUp, TearDown, sessionVars
  <2>2. CASE ~CheckGivesUp(m)
    BY <1>3, <2>2, QuietMonitor
  <2> QED
    BY <2>1, <2>2
<1> QED
  BY <1>1, <1>2, <1>3 DEF Next

LEMMA FiledStep ==
  ASSUME TypeOK, FiledByCustomer, [Next]_vars
  PROVE  FiledByCustomer'
<1> USE DEF TypeOK, TrafficMonitorAssumption, FiledByCustomer, Monitored
<1>1. CASE UNCHANGED vars
  BY <1>1 DEF vars, serviceVars
<1>2. ASSUME NEW s \in Sessions, Session(s) PROVE FiledByCustomer'
  <2>1. CASE Install(s)
    BY <2>1 DEF Install, FreshFields
  <2>2. CASE AddObserver(s)
    BY <2>2 DEF AddObserver
  <2>3. CASE StopMonitoring(s)
    BY <2>3 DEF StopMonitoring, TearDown, FreshFields
  <2>4. CASE Cleanup(s)
    BY <2>4 DEF Cleanup
  <2>5. CASE StartLookup(s) \/ StartFails(s) \/ AddObserverFails(s)
    BY <2>5 DEF StartLookup, StartFails, AddObserverFails
  <2>6. CASE Connect(s) \/ PeerLeaves(s) \/ Deliver(s) \/ WriteFails(s)
               \/ StreamEnds(s)
    BY <2>6, QuietSession
  <2> QED
    BY <1>2, <2>1, <2>2, <2>3, <2>4, <2>5, <2>6 DEF Session, Handler
<1>3. ASSUME NEW m \in Sessions, Monitor(m) PROVE FiledByCustomer'
  <2>1. CASE CheckGivesUp(m)
    BY <2>1 DEF CheckGivesUp, TearDown, FreshFields
  <2>2. CASE ~CheckGivesUp(m)
    BY <1>3, <2>2, QuietMonitor
  <2> QED
    BY <2>1, <2>2
<1> QED
  BY <1>1, <1>2, <1>3 DEF Next

LEMMA StartedStep ==
  ASSUME TypeOK, FiledByCustomer, RegistryMatchesLoops, ObserversAreOpen,
         StartedInOrder, [Next]_vars
  PROVE  StartedInOrder'
<1> USE DEF TypeOK, PcStates, LoopStates, TrafficMonitorAssumption,
            StartedInOrder, GoTo, Monitored
<1>1. CASE UNCHANGED vars
  BY <1>1 DEF vars, sessionVars, serviceVars, channelVars, loopVars
\* A monitor that is torn down was running, its observers' channels were open.
<1>2. \A c \in Customers :
        /\ Monitored(c) => loop[activeMonitors[c]] # "none"
        /\ \A s \in observers[c] : chan[s] = "open"
  BY DEF RegistryMatchesLoops, Live, FiledByCustomer, ObserversAreOpen
<1>3. ASSUME NEW s \in Sessions, Session(s) PROVE StartedInOrder'
  <2>1. CASE Install(s)
    BY <2>1 DEF Install, LoopGoTo, channelVars
  <2>2. CASE AddObserver(s)
    BY <2>2 DEF AddObserver, loopVars
  <2>3. CASE StopMonitoring(s)
    BY <2>3, <1>2 DEF StopMonitoring, TearDown, CloseChannels, loopVars
  <2>4. CASE Cleanup(s)
    BY <2>4 DEF Cleanup, CloseChannels, loopVars
  <2>5. CASE StartLookup(s) \/ StartFails(s) \/ AddObserverFails(s)
    BY <2>5 DEF StartLookup, StartFails, AddObserverFails, channelVars, loopVars
  <2>6. CASE Connect(s) \/ PeerLeaves(s) \/ Deliver(s) \/ WriteFails(s)
               \/ StreamEnds(s)
    BY <2>6, QuietSession
  <2> QED
    BY <1>3, <2>1, <2>2, <2>3, <2>4, <2>5, <2>6 DEF Session, Handler
<1>4. ASSUME NEW m \in Sessions, Monitor(m) PROVE StartedInOrder'
  <2>1. CASE CheckGivesUp(m)
    BY <2>1, <1>2 DEF CheckGivesUp, LoopGoTo, TearDown, CloseChannels,
                      sessionVars
  <2>2. CASE ~CheckGivesUp(m)
    BY <1>4, <2>2, QuietMonitor, LoopMoves
  <2> QED
    BY <2>1, <2>2
<1> QED
  BY <1>1, <1>3, <1>4 DEF Next

\* The heart of it: between the lookup that finds no monitor and Install the
\* customer's lock is held, so Install overwrites no live monitor.
LEMMA RegistryStep ==
  ASSUME TypeOK, LockProtectsStart, FiledByCustomer, StartedInOrder,
         RegistryMatchesLoops, [Next]_vars
  PROVE  RegistryMatchesLoops'
<1> USE DEF TypeOK, LoopStates, TrafficMonitorAssumption, FiledByCustomer,
            StartedInOrder, RegistryMatchesLoops, Live, Monitored
<1>1. CASE UNCHANGED vars
  BY <1>1 DEF vars, serviceVars, loopVars
<1>2. ASSUME NEW s \in Sessions, Session(s) PROVE RegistryMatchesLoops'
  <2>1. CASE Install(s)
    <3>1. ~Monitored(CustomerOf[s])
      BY <2>1 DEF Install, GoTo, LockProtectsStart
    <3> QED
      BY <2>1, <3>1 DEF Install, LoopGoTo
  <2>2. CASE StopMonitoring(s)
    BY <2>2 DEF StopMonitoring, TearDown, loopVars
  <2>3. CASE \/ StartLookup(s) \/ StartFails(s) \/ AddObserver(s)
             \/ AddObserverFails(s) \/ Cleanup(s)
    BY <2>3 DEF StartLookup, StartFails, AddObserver, AddObserverFails,
                Cleanup, loopVars
  <2>4. CASE Connect(s) \/ PeerLeaves(s) \/ Deliver(s) \/ WriteFails(s)
               \/ StreamEnds(s)
    BY <2>4, QuietSession
  <2> QED
    BY <1>2, <2>1, <2>2, <2>3, <2>4 DEF Session, Handler
<1>3. ASSUME NEW m \in Sessions, Monitor(m) PROVE RegistryMatchesLoops'
  <2>1. CASE CheckGivesUp(m)
    BY <2>1 DEF CheckGivesUp, LoopGoTo, TearDown
  <2>2. CASE ~CheckGivesUp(m)
    BY <1>3, <2>2, QuietMonitor, LoopMoves
  <2> QED
    BY <2>1, <2>2
<1> QED
  BY <1>1, <1>2, <1>3 DEF Next

LEMMA ReadersStep ==
  ASSUME TypeOK, LockProtectsStart, FiledByCustomer, StartedInOrder,
         ReadersAreObserved, ObserversAreOpen, [Next]_vars
  PROVE  ReadersAreObserved' /\ ObserversAreOpen'
<1> USE DEF TypeOK, TrafficMonitorAssumption, FiledByCustomer,
            ReadersAreObserved, ObserversAreOpen, Monitored
<1>1. CASE UNCHANGED vars
  BY <1>1 DEF vars, serviceVars, channelVars
<1>2. ASSUME NEW s \in Sessions, Session(s)
      PROVE  ReadersAreObserved' /\ ObserversAreOpen'
  <2>1. CASE Install(s)
    <3>1. ~Monitored(CustomerOf[s])
      BY <2>1 DEF Install, GoTo, LockProtectsStart
    <3> QED
      BY <2>1, <3>1 DEF Install, FreshFields, channelVars
  <2>2. CASE AddObserver(s)
    BY <2>2 DEF AddObserver
  <2>3. CASE StopMonitoring(s)
    BY <2>3 DEF StopMonitoring, TearDown, CloseChannels, FreshFields
  <2>4. CASE Cleanup(s)
    BY <2>4 DEF Cleanup, CloseChannels
  <2>5. CASE StartLookup(s) \/ StartFails(s) \/ AddObserverFails(s)
    BY <2>5 DEF StartLookup, StartFails, AddObserverFails, channelVars
  <2>6. CASE Connect(s) \/ PeerLeaves(s) \/ Deliver(s) \/ WriteFails(s)
               \/ StreamEnds(s)
    BY <2>6, QuietSession
  <2> QED
    BY <1>2, <2>1, <2>2, <2>3, <2>4, <2>5, <2>6 DEF Session, Handler
<1>3. ASSUME NEW m \in Sessions, Monitor(m)
      PROVE  ReadersAreObserved' /\ ObserversAreOpen'
  <2>1. CASE CheckGivesUp(m)
    BY <2>1 DEF CheckGivesUp, TearDown, CloseChannels, FreshFields
  <2>2. CASE ~CheckGivesUp(m)
    BY <1>3, <2>2, QuietMonitor
  <2> QED
    BY <2>1, <2>2
<1> QED
  BY <1>1, <1>2, <1>3 DEF Next

LEMMA PumpStep ==
  ASSUME TypeOK, StartedInOrder, PumpHasReader, [Next]_vars
  PROVE  PumpHasReader'
<1> USE DEF TypeOK, LoopStates, PumpStates, StartedInOrder, PumpHasReader,
            LoopGoTo
<1>1. CASE UNCHANGED vars
  BY <1>1 DEF vars, serviceVars, loopVars
<1>2. ASSUME NEW s \in Sessions, Session(s) PROVE PumpHasReader'
  <2>1. CASE Install(s)
    BY <2>1 DEF Install
  <2>2. CASE StopMonitoring(s)
    BY <2>2 DEF StopMonitoring, TearDown, loopVars
  <2>3. CASE \/ StartLookup(s) \/ StartFails(s) \/ AddObserver(s)
             \/ AddObserverFails(s) \/ Cleanup(s)
    BY <2>3 DEF StartLookup, StartFails, AddObserver, AddObserverFails,
                Cleanup, loopVars
  <2>4. CASE Connect(s) \/ PeerLeaves(s) \/ Deliver(s) \/ WriteFails(s)
               \/ StreamEnds(s)
    BY <2>4, QuietSession
  <2> QED
    BY <1>2, <2>1, <2>2, <2>3, <2>4 DEF Session, Handler
<1>3. ASSUME NEW m \in Sessions, Monitor(m) PROVE PumpHasReader'
  <2>1. CASE CheckGivesUp(m)
    BY <2>1 DEF CheckGivesUp, TearDown
  <2>2. CASE ~CheckGivesUp(m)
    <3>1. UNCHANGED cancelled
      BY <1>3, <2>2, QuietMonitor
    <3> QED
      BY <1>3, <2>2, <3>1 DEF Monitor, Loop, LoopTop, CheckGone, CheckPasses,
         Listen, ListenFails, ProcessCancelled, ProcessClosed, IgnoreSample,
         PublishSample, TakeSample, PumpReceives, PumpCancelled, ReplyEnds
  <2> QED
    BY <2>1, <2>2
<1> QED
  BY <1>1, <1>2, <1>3 DEF Next

\* What a change of one request's state does to the number of clients its
\* customer should have.
LEMMA CountedSizes ==
  ASSUME TypeOK, NEW c \in Customers
  PROVE  /\ IsFiniteSet(Counted(c))
         /\ Cardinality(Counted(c)) \in Nat
<1>1. Counted(c) \subseteq Sessions /\ IsFiniteSet(Sessions)
  BY DEF Counted, TrafficMonitorAssumption
<1> QED
  BY <1>1, FS_Subset, FS_CardinalityType

LEMMA ClientsStep ==
  ASSUME TypeOK, ClientsAreCounted, [Next]_vars
  PROVE  ClientsAreCounted'
<1> SUFFICES ASSUME NEW c \in Customers, Monitored(c)'
             PROVE  clients'[c] \in 1 .. Cardinality(Counted(c)')
  BY DEF ClientsAreCounted, Counted
<1> USE DEF TypeOK, PcStates, TrafficMonitorAssumption, Monitored
<1>a. /\ Monitored(c) => clients[c] \in 1 .. Cardinality(Counted(c))
      /\ Cardinality(Counted(c)) \in Nat
      /\ IsFiniteSet(Counted(c))
  BY CountedSizes DEF ClientsAreCounted
<1>b. CASE Counted(c)' = Counted(c) /\ Monitored(c) /\ clients'[c] = clients[c]
  BY <1>a, <1>b
<1>1. CASE UNCHANGED vars
  BY <1>1, <1>b DEF vars, serviceVars, sessionVars, Counted
<1>2. ASSUME NEW s \in Sessions, Session(s)
      PROVE  clients'[c] \in 1 .. Cardinality(Counted(c)')
  <2>1. CASE Connect(s) \/ PeerLeaves(s) \/ Deliver(s) \/ WriteFails(s)
               \/ StreamEnds(s)
    <3>1. /\ UNCHANGED <<activeMonitors, clients>>
          /\ UNCHANGED pc \/ GoTo(s, "idle", "start") \/ GoTo(s, "stream", "stop")
      BY <2>1, QuietSession
    <3>2. Counted(c)' = Counted(c)
      BY <3>1 DEF Counted, GoTo
    <3> QED
      BY <3>1, <3>2, <1>b
  <2>2. CASE Cleanup(s)
    BY <2>2, <1>b DEF Cleanup, Counted
  <2>3. CASE c # CustomerOf[s] /\ ~Cleanup(s)
    <3>1. Counted(c)' = Counted(c) \/ UNCHANGED pc
      BY <1>2, <2>3 DEF Session, Handler, Connect, PeerLeaves, StartLookup,
         StartFails, Install, AddObserver, AddObserverFails, Deliver,
         WriteFails, StreamEnds, StopMonitoring, GoTo, Counted, sessionVars
    <3>2. activeMonitors'[c] = activeMonitors[c] /\ clients'[c] = clients[c]
      BY <1>2, <2>3 DEF Session, Handler, Connect, PeerLeaves, StartLookup,
         StartFails, Install, AddObserver, AddObserverFails, Deliver,
         WriteFails, StreamEnds, StopMonitoring, FreshFields, TearDown,
         serviceVars
    <3> QED
      BY <3>1, <3>2, <1>b DEF Counted
  <2>4. CASE c = CustomerOf[s] /\ StartLookup(s)
    <3>1. /\ pc[s] = "start" /\ pc' = [pc EXCEPT ![s] = "add"]
          /\ Monitored(c) /\ clients' = [clients EXCEPT ![c] = @ + 1]
      BY <2>4 DEF StartLookup, GoTo
    <3>2. s \notin Counted(c) /\ Counted(c)' = Counted(c) \cup {s}
      BY <3>1, <2>4 DEF Counted
    <3>3. Cardinality(Counted(c)') = Cardinality(Counted(c)) + 1
      BY <3>2, <1>a, FS_AddElement
    <3> QED
      BY <3>1, <3>3, <1>a
  <2>5. CASE c = CustomerOf[s] /\ Install(s)
    <3>1. /\ pc[s] = "fetch" /\ pc' = [pc EXCEPT ![s] = "add"]
          /\ clients'[c] = 1
      BY <2>5 DEF Install, GoTo, FreshFields
    <3>2. s \notin Counted(c) /\ Counted(c)' = Counted(c) \cup {s}
      BY <3>1, <2>5 DEF Counted
    <3>3. Cardinality(Counted(c)') = Cardinality(Counted(c)) + 1
      BY <3>2, <1>a, FS_AddElement
    <3> QED
      BY <3>1, <3>3, <1>a
  <2>6. CASE c = CustomerOf[s] /\ StopMonitoring(s)
    <3>1. /\ pc[s] = "stop" /\ pc' = [pc EXCEPT ![s] = "ended"]
          /\ Monitored(c) /\ clients[c] - 1 > 0
          /\ clients' = [clients EXCEPT ![c] = @ - 1]
      BY <2>6 DEF StopMonitoring, GoTo, TearDown
    <3>2. s \in Counted(c) /\ Counted(c)' = Counted(c) \ {s}
      BY <3>1, <2>6 DEF Counted
    <3>3. Cardinality(Counted(c)') = Cardinality(Counted(c)) - 1
      BY <3>2, <1>a, FS_RemoveElement
    <3> QED
      BY <3>1, <3>3, <1>a
  <2>7. CASE StartFails(s) \/ AddObserver(s) \/ AddObserverFails(s)
    <3>1. UNCHANGED <<activeMonitors, clients>>
      BY <2>7 DEF StartFails, AddObserver, AddObserverFails
    <3>2. c # CustomerOf[s] \/ ~AddObserverFails(s)
      BY <3>1 DEF AddObserverFails
    <3>3. Counted(c)' = Counted(c)
      BY <2>7, <3>2 DEF StartFails, AddObserver, AddObserverFails, GoTo, Counted
    <3> QED
      BY <3>1, <3>3, <1>b
  <2> QED
    BY <1>2, <2>1, <2>2, <2>3, <2>4, <2>5, <2>6, <2>7 DEF Session, Handler
<1>3. ASSUME NEW m \in Sessions, Monitor(m)
      PROVE  clients'[c] \in 1 .. Cardinality(Counted(c)')
  <2>1. CASE CheckGivesUp(m)
    BY <2>1, <1>b DEF CheckGivesUp, TearDown, FreshFields, sessionVars, Counted
  <2>2. CASE ~CheckGivesUp(m)
    BY <1>3, <2>2, <1>b, QuietMonitor DEF Counted
  <2> QED
    BY <2>1, <2>2
<1> QED
  BY <1>1, <1>2, <1>3 DEF Next

-----------------------------------------------------------------------------
LEMMA IndInit == Init => IndInv
<1> SUFFICES ASSUME Init PROVE IndInv
  OBVIOUS
<1>1. TypeOK
  BY TypeInit
<1> QED
  BY <1>1 DEF Init, IndInv, TrafficMonitorAssumption, LockProtectsStart,
     FiledByCustomer, StartedInOrder, RegistryMatchesLoops, Live, Monitored,
     ReadersAreObserved, ObserversAreOpen, ClientsAreCounted, PumpHasReader

LEMMA IndStep == IndInv /\ [Next]_vars => IndInv'
  BY TypeStep, LockStep, FiledStep, StartedStep, RegistryStep, ReadersStep,
     ClientsStep, PumpStep DEF IndInv

\* The inductive invariant holds in every reachable state.
THEOREM Invariant == Spec => []IndInv
  BY IndInit, IndStep, PTL DEF Spec

\* A customer's monitor is registered exactly while its loop is live: no two
\* loops feed one customer and none runs unregistered.
THEOREM RegistryCorrect == Spec => []RegistryMatchesLoops
<1>1. IndInv => RegistryMatchesLoops
  BY DEF IndInv
<1> QED
  BY <1>1, Invariant, PTL

\* A request that waits on an open channel is an observer of its customer's
\* registered monitor, which alone can feed it or end it.
THEOREM ReadersCorrect == Spec => []ReadersAreObserved
<1>1. IndInv => ReadersAreObserved
  BY DEF IndInv
<1> QED
  BY <1>1, Invariant, PTL

\* Publishing to the observers and closing them all cannot meet a closed
\* channel.
THEOREM ObserversCorrect == Spec => []ObserversAreOpen
<1>1. IndInv => ObserversAreOpen
  BY DEF IndInv
<1> QED
  BY <1>1, Invariant, PTL

\* A registered monitor has at least one client and no more of them than
\* there are requests that have yet to call StopMonitoring.
THEOREM ClientsCorrect == Spec => []ClientsAreCounted
<1>1. IndInv => ClientsAreCounted
  BY DEF IndInv
<1> QED
  BY <1>1, Invariant, PTL

\* The pump of a monitor that is not cancelled always has its loop to take
\* what it sends.
THEOREM PumpCorrect == Spec => []PumpHasReader
<1>1. IndInv => PumpHasReader
  BY DEF IndInv
<1> QED
  BY <1>1, Invariant, PTL

\* One loop at a time works for a customer, each for a request that will still call
\* StopMonitoring, and whoever waits on an open channel has one to feed it.
MonitorsServe ==
  /\ \A m, n \in Sessions :
       Live(m) /\ Live(n) /\ CustomerOf[m] = CustomerOf[n] => m = n
  /\ \A m \in Sessions : Live(m) => Counted(CustomerOf[m]) # {}
  /\ \A s \in Sessions :
       chan[s] = "open" => \E m \in Sessions : Live(m) /\ CustomerOf[m] = CustomerOf[s]

\* However the requests, the cleanups and the health checks interleave, no
\* customer's router traffic is read twice, none is read for nobody, and nobody
\* waits for a loop that has gone.
THEOREM NoneRunsForNobody == Spec => []MonitorsServe
<1>1. ASSUME IndInv PROVE MonitorsServe
  <2>1. ASSUME NEW m \in Sessions, NEW n \in Sessions,
               Live(m), Live(n), CustomerOf[m] = CustomerOf[n]
        PROVE  m = n
    BY <1>1, <2>1 DEF IndInv, RegistryMatchesLoops
  <2>2. ASSUME NEW m \in Sessions, Live(m) PROVE Counted(CustomerOf[m]) # {}
    <3> DEFINE c == CustomerOf[m]
    <3>1. c \in Customers /\ Monitored(c)
      BY <1>1, <2>2 DEF IndInv, RegistryMatchesLoops, Monitored, TrafficMonitorAssumption
    <3>2. clients[c] \in 1 .. Cardinality(Counted(c))
      BY <1>1, <3>1 DEF IndInv, ClientsAreCounted
    <3> QED
      BY <3>2, FS_EmptySet
  <2>3. ASSUME NEW s \in Sessions, chan[s] = "open"
        PROVE  \E m \in Sessions : Live(m) /\ CustomerOf[m] = CustomerOf[s]
    <3> DEFINE m == activeMonitors[CustomerOf[s]]
    <3>1. CustomerOf[s] \in Customers /\ Monitored(CustomerOf[s])
      BY <1>1, <2>3 DEF IndInv, ReadersAreObserved, TrafficMonitorAssumption
    <3>2. m \in Sessions /\ CustomerOf[m] = CustomerOf[s]
      BY <1>1, <3>1 DEF IndInv, TypeOK, FiledByCustomer, Monitored
    <3> QED
      BY <1>1, <3>2 DEF IndInv, RegistryMatchesLoops
  <2> QED
    BY <2>1, <2>2, <2>3 DEF MonitorsServe
<1> QED
  BY <1>1, Invariant, PTL

-----------------------------------------------------------------------------
(***************************************************************************)
(* TrafficMonitor implements TrafficFeeds.                                 *)
(***************************************************************************)
LEMMA FeedsInit == Init => Feeds!Init
  BY DEF Init, Feeds!Init, Monitored

LEMMA FeedsStep == IndInv /\ [Next]_vars => [Feeds!Next]_Feeds!vars
<1> SUFFICES ASSUME IndInv, [Next]_vars PROVE [Feeds!Next]_Feeds!vars
  OBVIOUS
<1> USE DEF Monitored, TrafficMonitorAssumption
<1>a. /\ TypeOK
      /\ \A c \in Customers :
           ~Monitored(c) \/ observers[c] = Feeds!OpenFeeds(c)
  BY DEF IndInv, TypeOK, ReadersAreObserved, ObserversAreOpen,
         FiledByCustomer, Feeds!OpenFeeds
<1>b. ASSUME UNCHANGED <<activeMonitors, chan, queue>>
      PROVE  UNCHANGED Feeds!vars
  BY <1>b DEF Feeds!vars
<1>1. CASE UNCHANGED vars
  BY <1>1, <1>b DEF vars, serviceVars, channelVars
<1>c. ASSUME NEW c \in Customers, Monitored(c), TearDown(c),
             TrySend(observers[c]) \/ UNCHANGED queue
      PROVE  Feeds!Stop(c)
  <2>1. observers[c] = Feeds!OpenFeeds(c)
    BY <1>a, <1>c
  <2>2. /\ [d \in Customers |-> Monitored(d)][c]
        /\ [d \in Customers |-> Monitored(d)']
             = [[d \in Customers |-> Monitored(d)] EXCEPT ![c] = FALSE]
    BY <1>a, <1>c DEF TypeOK, TearDown
  <2>3. chan' = [s \in Sessions |-> IF s \in Feeds!OpenFeeds(c) THEN "closed"
                                                                ELSE chan[s]]
    BY <2>1, <1>c DEF TearDown, CloseChannels
  <2>4. TrySend(observers[c]) => Feeds!Offer(Feeds!OpenFeeds(c))
    BY <2>1 DEF TrySend, Feeds!Offer
  <2> QED
    BY <2>2, <2>3, <2>4, <1>c DEF Feeds!Stop
<1>2. ASSUME NEW s \in Sessions, Session(s) PROVE [Feeds!Next]_Feeds!vars
  <2>1. CASE \/ Connect(s) \/ PeerLeaves(s) \/ StartLookup(s) \/ StartFails(s)
             \/ AddObserverFails(s) \/ StreamEnds(s)
    BY <2>1, <1>b DEF Connect, PeerLeaves, StartLookup, StartFails,
       AddObserverFails, StreamEnds, serviceVars, channelVars
  <2>2. CASE Install(s)
    <3>1. ~Monitored(CustomerOf[s])
      BY <2>2 DEF Install, GoTo, IndInv, LockProtectsStart
    <3>2. Feeds!Start(CustomerOf[s])
      BY <1>a, <2>2, <3>1 DEF TypeOK, Install, channelVars, Feeds!Start
    <3> QED
      BY <3>2 DEF Feeds!Next
  <2>3. CASE AddObserver(s)
    <3>1. Feeds!Subscribe(s)
      BY <2>3 DEF AddObserver, GoTo, IndInv, StartedInOrder, Feeds!Subscribe
    <3> QED
      BY <3>1 DEF Feeds!Next
  <2>4. CASE Deliver(s) \/ WriteFails(s)
    <3>1. Feeds!Take(s)
      BY <2>4 DEF Deliver, WriteFails, serviceVars, Feeds!Take
    <3> QED
      BY <3>1 DEF Feeds!Next
  <2>5. CASE StopMonitoring(s)
    <3>1. CASE TearDown(CustomerOf[s]) /\ Monitored(CustomerOf[s])
      BY <2>5, <3>1, <1>c DEF StopMonitoring, Feeds!Next
    <3>2. CASE UNCHANGED <<activeMonitors, chan>>
      BY <2>5, <3>2, <1>b DEF StopMonitoring
    <3> QED
      BY <2>5, <3>1, <3>2 DEF StopMonitoring
  <2>6. CASE Cleanup(s)
    <3>1. CASE ~Monitored(CustomerOf[s]) \/ chan[s] = "closed"
      BY <1>a, <2>6, <3>1, <1>b DEF TypeOK, Cleanup, CloseChannels
    <3>2. CASE Monitored(CustomerOf[s]) /\ chan[s] = "open"
      <4>1. Feeds!Leave(s)
        BY <1>a, <2>6, <3>2 DEF TypeOK, Cleanup, CloseChannels, Feeds!Leave
      <4> QED
        BY <4>1 DEF Feeds!Next
    <3> QED
      BY <1>a, <2>6, <3>1, <3>2 DEF TypeOK, Cleanup, IndInv, StartedInOrder
  <2> QED
    BY <1>2, <2>1, <2>2, <2>3, <2>4, <2>5, <2>6 DEF Session, Handler
<1>3. ASSUME NEW m \in Sessions, Monitor(m) PROVE [Feeds!Next]_Feeds!vars
  <2>1. CASE CheckGivesUp(m)
    BY <2>1, <1>c DEF CheckGivesUp, Feeds!Next
  <2>2. CASE PublishSample(m) /\ Monitored(CustomerOf[m])
    <3>1. Feeds!Publish(CustomerOf[m])
      BY <1>a, <2>2 DEF PublishSample, TakeSample, TrySend, serviceVars,
                        Feeds!Publish, Feeds!Offer
    <3> QED
      BY <3>1 DEF Feeds!Next
  <2>3. CASE PublishSample(m) /\ ~Monitored(CustomerOf[m])
    BY <1>a, <2>3, <1>b DEF TypeOK, PublishSample, TakeSample, TrySend,
                            serviceVars
  <2>4. CASE ~CheckGivesUp(m) /\ ~PublishSample(m)
    BY <1>3, <2>4, <1>b DEF Monitor, Loop, LoopTop, CheckGone, CheckPasses,
       Listen, ListenFails, ProcessCancelled, ProcessClosed, IgnoreSample,
       TakeSample, PumpReceives, PumpCancelled, ReplyEnds, serviceVars,
       channelVars
  <2> QED
    BY <2>1, <2>2, <2>3, <2>4
<1> QED
  BY <1>1, <1>2, <1>3 DEF Next

\* Every behaviour of the service is one of TrafficFeeds: samples reach all of
\* the customer's open feeds and no others, and no end of a monitor leaves an
\* open feed behind.
THEOREM Implementation == Spec => ImplementsTrafficFeeds
  BY FeedsInit, FeedsStep, Invariant, PTL DEF Spec, Feeds!Spec,
     ImplementsTrafficFeeds

-----------------------------------------------------------------------------
(***************************************************************************)
(* Where a panic can come from.                                            *)
(***************************************************************************)

\* A request whose channel has been closed but not cleaned up is not the one
\* that created the registered monitor.
ClosedIsSucceeded ==
  \A s \in cleanup : chan[s] = "closed" => activeMonitors[CustomerOf[s]] # s

PanicInv == IndInv /\ ClosedIsSucceeded

LEMMA SucceededStep == PanicInv /\ [Next]_vars => ClosedIsSucceeded'
<1> SUFFICES ASSUME PanicInv, [Next]_vars PROVE ClosedIsSucceeded'
  OBVIOUS
<1>a. /\ TypeOK /\ StartedInOrder /\ FiledByCustomer
      /\ \A s \in cleanup : chan[s] # "none"
  BY DEF PanicInv, IndInv, StartedInOrder, TypeOK
<1> USE DEF PanicInv, ClosedIsSucceeded, TrafficMonitorAssumption
<1>b. ASSUME NEW c \in Customers, TearDown(c), UNCHANGED cleanup
      PROVE  ClosedIsSucceeded'
  BY <1>a, <1>b DEF TypeOK, TearDown, CloseChannels, FiledByCustomer
<1>1. CASE UNCHANGED <<cleanup, chan, activeMonitors>>
  BY <1>1
<1>2. ASSUME NEW s \in Sessions, Session(s) PROVE ClosedIsSucceeded'
  <2>1. CASE Install(s)
    <3>1. s \notin cleanup
      BY <1>a, <2>1 DEF Install, GoTo, StartedInOrder
    <3> QED
      BY <1>a, <2>1, <3>1 DEF Install, TypeOK, channelVars
  <2>2. CASE AddObserver(s)
    BY <1>a, <2>2 DEF AddObserver, TypeOK
  <2>3. CASE StopMonitoring(s)
    BY <2>3, <1>1, <1>b DEF StopMonitoring
  <2>4. CASE Cleanup(s)
    BY <1>a, <2>4 DEF Cleanup, CloseChannels, TypeOK
  <2>5. CASE StartLookup(s) \/ StartFails(s) \/ AddObserverFails(s)
    BY <2>5, <1>1 DEF StartLookup, StartFails, AddObserverFails, channelVars
  <2>6. CASE Connect(s) \/ PeerLeaves(s) \/ Deliver(s) \/ WriteFails(s)
               \/ StreamEnds(s)
    BY <2>6, <1>1, QuietSession
  <2> QED
    BY <1>2, <2>1, <2>2, <2>3, <2>4, <2>5, <2>6 DEF Session, Handler
<1>3. ASSUME NEW m \in Sessions, Monitor(m) PROVE ClosedIsSucceeded'
  <2>1. CASE CheckGivesUp(m)
    BY <2>1, <1>b DEF CheckGivesUp, sessionVars
  <2>2. CASE ~CheckGivesUp(m)
    BY <1>3, <2>2, <1>1, QuietMonitor
  <2> QED
    BY <2>1, <2>2
<1>4. CASE UNCHANGED vars
  BY <1>4, <1>1 DEF vars, sessionVars, serviceVars, channelVars
<1> QED
  BY <1>2, <1>3, <1>4 DEF Next

LEMMA PanicInvHolds == Spec => []PanicInv
<1>1. Init => PanicInv
  BY IndInit DEF Init, PanicInv, ClosedIsSucceeded
<1>2. PanicInv /\ [Next]_vars => PanicInv'
  BY IndStep, SucceededStep DEF PanicInv
<1> QED
  BY <1>1, <1>2, PTL DEF Spec

\* Whoever closes or writes to the channels of a registered monitor's
\* observers finds them open.
LEMMA PanicStep ==
  ASSUME PanicInv, [Next]_vars, ~panicked, panicked'
  PROVE  \E s \in Sessions : LateCleanup(s)
<1>a. \A c \in Customers : \A s \in observers[c] : chan[s] # "closed"
  BY DEF PanicInv, IndInv, ObserversAreOpen
<1>b. ASSUME NEW c \in Customers PROVE ~PanicIfClosed(observers[c])
  BY <1>a DEF PanicIfClosed
<1>c. CustomerOf \in [Sessions -> Customers] /\ ~PanicIfClosed({})
  BY DEF TrafficMonitorAssumption, PanicIfClosed
<1>1. ASSUME NEW s \in Sessions, Session(s) PROVE LateCleanup(s)
  <2>1. CASE Cleanup(s)
    <3>1. Monitored(CustomerOf[s]) /\ chan[s] = "closed" /\ s \in cleanup
      BY <2>1 DEF Cleanup, PanicIfClosed
    <3>2. activeMonitors[CustomerOf[s]] # s
      BY <3>1 DEF PanicInv, ClosedIsSucceeded
    <3> QED
      BY <2>1, <3>1, <3>2 DEF LateCleanup, Monitored
  <2>2. CASE StopMonitoring(s)
    BY <2>2, <1>b, <1>c DEF StopMonitoring, TearDown
  <2> QED
    BY <1>1, <2>1, <2>2 DEF Session, Handler, Connect, PeerLeaves, StartLookup,
       StartFails, Install, AddObserver, AddObserverFails, Deliver, WriteFails,
       StreamEnds
<1>2. ASSUME NEW m \in Sessions, Monitor(m) PROVE FALSE
  <2>1. CASE CheckGivesUp(m)
    BY <2>1, <1>b, <1>c DEF CheckGivesUp, TearDown
  <2>2. CASE PublishSample(m)
    BY <2>2, <1>b, <1>c DEF PublishSample
  <2> QED
    BY <1>2, <2>1, <2>2 DEF Monitor, Loop, LoopTop, CheckGone, CheckPasses,
       Listen, ListenFails, ProcessCancelled, ProcessClosed, IgnoreSample,
       PumpReceives, PumpCancelled, ReplyEnds
<1>3. ~UNCHANGED vars
  BY DEF vars
<1> QED
  BY <1>1, <1>2, <1>3 DEF Next

\* The process dies of a double close in no other way than this: a cleanup
\* goroutine that runs late finds a successor of its request's monitor.
THEOREM PanicsCorrect == Spec => PanicsAreLateCleanups
<1>1. PanicInv /\ [Next]_vars
        => [~panicked /\ panicked' => \E s \in Sessions : LateCleanup(s)]_vars
  BY PanicStep
<1> QED
  BY <1>1, PanicInvHolds, PTL DEF Spec, PanicsAreLateCleanups

\* As long as no customer is watched by two requests, "Application will now
\* run without panics" is true of monitoring: the refutation of NoPanic needs
\* a second request for the same customer.
THEOREM LoneRequestsNeverPanic ==
  ASSUME \A s, t \in Sessions : CustomerOf[s] = CustomerOf[t] => s = t
  PROVE  Spec => []NoPanic
<1>1. Init => NoPanic
  BY DEF Init, NoPanic
<1>2. PanicInv /\ NoPanic /\ [Next]_vars => NoPanic'
  <2> SUFFICES ASSUME PanicInv, ~panicked, [Next]_vars, panicked' PROVE FALSE
    BY DEF NoPanic
  <2>1. PICK s \in Sessions : LateCleanup(s)
    BY PanicStep
  <2> DEFINE m == activeMonitors[CustomerOf[s]]
  <2>2. m \in Sessions /\ CustomerOf[m] = CustomerOf[s] /\ m # s
    BY <2>1 DEF LateCleanup, PanicInv, IndInv, TypeOK, FiledByCustomer,
                Monitored, TrafficMonitorAssumption
  <2> QED
    BY <2>2
<1> QED
  BY <1>1, <1>2, PanicInvHolds, PTL DEF Spec
=============================================================================
