-------------------------- MODULE BroadcastHubProofs --------------------------
(***************************************************************************)
(* Proofs about BroadcastHub for any set of connections, number of events  *)
(* and capacity.  The type invariant needs the count of events on their    *)
(* way; the lock invariant says who has closed what; the progress          *)
(* invariant says, in the middle of a range loop, how far each connection  *)
(* has got.                                                                *)
(***************************************************************************)
EXTENDS BroadcastHub, SequenceTheorems, TLAPS

USE BroadcastHubAssumption

(***************************************************************************)
(* Types.                                                                  *)
(***************************************************************************)

\* The events that the Broadcaster has taken, is offered or will be are never more
\* than were published: nothing on the way doubles one.
NothingInvented ==
  Len(taken) + Len(inbox) + (IF holding = 0 THEN 0 ELSE 1) <= published

\* Inside a range loop there is an event to write.
LoopHasEvent == bpc # "receive" => Len(taken) > 0

TypeInv == TypeOK /\ NothingInvented /\ LoopHasEvent

LEMMA TypeInit == Init => TypeInv
  BY DEF Init, TypeInv, TypeOK, NothingInvented, LoopHasEvent

LEMMA TypeStep == TypeInv /\ [Next]_vars => TypeInv'
<1> SUFFICES ASSUME TypeInv, [Next]_vars PROVE TypeInv'
  OBVIOUS
<1> USE DEF TypeInv, TypeOK, NothingInvented, LoopHasEvent, Events
<1>1. CASE UNCHANGED vars
  BY <1>1 DEF vars, feedVars, rangeVars, connVars, history
<1>2. CASE Publish
  <2>1. CASE Len(inbox) < InboxCap /\ inbox' = Append(inbox, published + 1)
    <3>1. /\ inbox' \in Seq(Events) /\ Len(inbox') = Len(inbox) + 1
          /\ published' \in 0 .. MaxEvents
      BY <1>2, <2>1 DEF Publish
    <3> QED
      BY <1>2, <2>1, <3>1 DEF Publish, rangeVars, connVars, history
  <2>2. CASE UNCHANGED inbox
    BY <1>2, <2>2 DEF Publish, rangeVars, connVars, history
  <2> QED
    BY <1>2, <2>1, <2>2 DEF Publish
<1>3. CASE Forward
  <2>1. /\ inbox' = Tail(inbox) /\ Len(inbox') = Len(inbox) - 1
        /\ inbox' \in Seq(Events) /\ holding' \in Events
    BY <1>3 DEF Forward
  <2> QED
    BY <1>3, <2>1 DEF Forward, rangeVars, connVars, history
<1>4. CASE Receive
  <2>1. /\ taken' \in Seq(Events) /\ Len(taken') = Len(taken) + 1
    BY <1>4 DEF Receive
  <2> QED
    BY <1>4, <2>1 DEF Receive, connVars
<1>5. CASE RangeEnds
  BY <1>5 DEF RangeEnds, feedVars, connVars, history
<1>6. ASSUME NEW c \in Conns, Reach(c) PROVE TypeInv'
  BY <1>6 DEF Reach, feedVars, connVars, history
<1>7. ASSUME NEW c \in Conns, Write(c) PROVE TypeInv'
  <2>1. taken[Len(taken)] \in Events
    BY <1>7 DEF Write
  <2>2. written' \in [Conns -> Seq(Events)]
    BY <1>7, <2>1 DEF Write
  <2> QED
    BY <1>7, <2>2 DEF Write, feedVars, connVars
<1>8. ASSUME NEW c \in Conns, WriteFails(c) PROVE TypeInv'
  BY <1>8 DEF WriteFails, feedVars, history
<1>9. ASSUME NEW c \in Conns, Drop(c) PROVE TypeInv'
  BY <1>9 DEF Drop, feedVars, connVars, history
<1>10. ASSUME NEW c \in Conns, Connect(c) PROVE TypeInv'
  BY <1>10 DEF Connect, GoTo, feedVars, rangeVars, history
<1>11. ASSUME NEW c \in Conns, PeerChanges(c) PROVE TypeInv'
  BY <1>11 DEF PeerChanges, feedVars, rangeVars, history
<1>12. ASSUME NEW c \in Conns, HandleWS(c) PROVE TypeInv'
  <2>1. CASE Register(c)
    BY <2>1 DEF Register, GoTo, feedVars, rangeVars
  <2>2. CASE ReadFails(c)
    BY <2>2 DEF ReadFails, GoTo, feedVars, rangeVars, history
  <2>3. CASE Unregister(c)
    BY <2>3 DEF Unregister, GoTo, feedVars, rangeVars, history
  <2>4. CASE Close(c)
    BY <2>4 DEF Close, GoTo, feedVars, rangeVars, history
  <2> QED
    BY <1>12, <2>1, <2>2, <2>3, <2>4 DEF HandleWS
<1> QED
  BY <1>1, <1>2, <1>3, <1>4, <1>5, <1>6, <1>7, <1>8, <1>9, <1>10, <1>11, <1>12
  DEF Next, Broadcaster

\* Every variable keeps to its values, and the bounded inbox never overflows; the
\* events taken and those still on their way are together never more than were
\* published; and the Broadcaster is in its loop only with an event to write.
THEOREM TypeCorrect == Spec => [](TypeOK /\ NothingInvented /\ LoopHasEvent)
<1>1. TypeInv => TypeOK /\ NothingInvented /\ LoopHasEvent
  BY DEF TypeInv
<1> QED
  BY <1>1, TypeInit, TypeStep, PTL DEF Spec

(***************************************************************************)
(* The lock: who is registered, and who may close what.                    *)
(***************************************************************************)

\* The Broadcaster has a target exactly while it writes or drops; it reached
\* it in this range.
TargetInv ==
  /\ bpc \in {"write", "drop"} => target \in visited
  /\ bpc = "write" => target \in clients
  /\ bpc = "drop" => target \in closed

\* A registered connection is open, unless the Broadcaster has closed it and
\* is about to delete it.
OpenInv ==
  \A c \in clients : c \in closed => bpc = "drop" /\ target = c

\* A connection that has not been registered is open and unknown.
FreshInv ==
  \A c \in Conns :
    pc[c] \in {"new", "register"} => c \notin closed /\ c \notin due \cup visited

LockInv == TargetInv /\ OpenInv /\ FreshInv /\ ClientsMatchHandlers

LEMMA LockInit == Init => LockInv
  BY DEF Init, LockInv, TargetInv, OpenInv, FreshInv, ClientsMatchHandlers

LEMMA LockStep == TypeInv /\ LockInv /\ [Next]_vars => LockInv'
<1> SUFFICES ASSUME TypeInv, LockInv, [Next]_vars PROVE LockInv'
  OBVIOUS
<1>0. TypeOK
  BY DEF TypeInv
<1> USE <1>0 DEF TypeOK, LockInv, TargetInv, OpenInv, FreshInv,
                 ClientsMatchHandlers
<1>1. CASE UNCHANGED vars
  BY <1>1 DEF vars, feedVars, rangeVars, connVars, history
<1>2. CASE Publish
  BY <1>2 DEF Publish, rangeVars, connVars, history
<1>3. CASE Forward
  BY <1>3 DEF Forward, rangeVars, connVars, history
<1>4. CASE Receive
  BY <1>4 DEF Receive, connVars
<1>5. CASE RangeEnds
  BY <1>5 DEF RangeEnds, feedVars, connVars, history
<1>6. ASSUME NEW c \in Conns, Reach(c) PROVE LockInv'
  BY <1>6 DEF Reach, feedVars, connVars, history
<1>7. ASSUME NEW c \in Conns, Write(c) PROVE LockInv'
  BY <1>7 DEF Write, feedVars, connVars
<1>8. ASSUME NEW c \in Conns, WriteFails(c) PROVE LockInv'
  BY <1>8 DEF WriteFails, feedVars, history
<1>9. ASSUME NEW c \in Conns, Drop(c) PROVE LockInv'
  BY <1>9 DEF Drop, feedVars, connVars, history
<1>10. ASSUME NEW c \in Conns, Connect(c) PROVE LockInv'
  BY <1>10 DEF Connect, GoTo, feedVars, rangeVars, history
<1>11. ASSUME NEW c \in Conns, PeerChanges(c) PROVE LockInv'
  BY <1>11 DEF PeerChanges, feedVars, rangeVars, history
<1>12. ASSUME NEW c \in Conns, HandleWS(c) PROVE LockInv'
  <2>1. CASE Register(c)
    BY <2>1 DEF Register, GoTo, RLocked, feedVars, rangeVars
  <2>2. CASE ReadFails(c)
    BY <2>2 DEF ReadFails, GoTo, feedVars, rangeVars, history
  <2>3. CASE Unregister(c)
    BY <2>3 DEF Unregister, GoTo, RLocked, feedVars, rangeVars, history
  <2>4. CASE Close(c)
    BY <2>4 DEF Close, GoTo, feedVars, rangeVars, history
  <2> QED
    BY <1>12, <2>1, <2>2, <2>3, <2>4 DEF HandleWS
<1> QED
  BY <1>1, <1>2, <1>3, <1>4, <1>5, <1>6, <1>7, <1>8, <1>9, <1>10, <1>11, <1>12
  DEF Next, Broadcaster

\* Who has closed which connection, and what the read lock keeps from being deleted.
THEOREM LockCorrect == Spec => [](TypeInv /\ LockInv)
  BY TypeInit, TypeStep, LockInit, LockStep, PTL DEF Spec

\* Nobody deletes or closes the connection the Broadcaster is writing to, and
\* it never writes to one whose write has failed.
THEOREM TargetCorrect == Spec => []TargetIsRegistered
<1>1. TypeInv /\ LockInv => TargetIsRegistered
  BY DEF LockInv, TargetInv, OpenInv, TargetIsRegistered
<1> QED
  BY <1>1, LockCorrect, PTL

\* The map agrees with the handlers.
THEOREM ClientsCorrect == Spec => []ClientsMatchHandlers
<1>1. LockInv => ClientsMatchHandlers
  BY DEF LockInv
<1> QED
  BY <1>1, LockCorrect, PTL

(***************************************************************************)
(* Progress: what each connection has been sent, in the middle of a range. *)
(***************************************************************************)

\* What was written to c is the piece of the stream that ends with the
\* last-th event.
PieceUpTo(c, last) ==
  /\ last \in Len(written[c]) .. Len(taken)
  /\ \A i \in 1 .. Len(written[c]) :
       written[c][i] = taken[last - Len(written[c]) + i]

\* The last event c is to have had by now: within a range, the current one
\* only if the loop has come past it.
Reached(c) ==
  IF bpc = "receive" \/ (c \in visited /\ ~(bpc = "write" /\ target = c))
  THEN Len(taken) ELSE Len(taken) - 1

PieceInv == \A c \in Conns : \E last \in Nat : PieceUpTo(c, last)

\* An open connection of the map is up to date, and one that the range loop
\* neither has reached nor must reach has been registered since it began.
UpToDate(c) ==
  /\ written[c] # <<>> =>
       \A last \in Nat : last = Reached(c) => PieceUpTo(c, last)
  /\ Len(written[c]) >= Reached(c) - joinedAt[c]
  /\ \/ bpc = "receive"
     \/ c \in due \cup visited
     \/ written[c] = <<>> /\ joinedAt[c] = Len(taken)

ProgressInv ==
  /\ PieceInv
  /\ \A c \in clients \ closed : UpToDate(c)
  /\ \A c \in Conns : pc[c] \in {"new", "register"} => written[c] = <<>>

LEMMA ProgressInit == Init => ProgressInv
<1> SUFFICES ASSUME Init PROVE ProgressInv
  OBVIOUS
<1>1. \A c \in Conns : PieceUpTo(c, 0)
  BY DEF Init, PieceUpTo
<1> QED
  BY <1>1 DEF Init, ProgressInv, PieceInv

LEMMA PieceSame ==
  ASSUME NEW c \in Conns, UNCHANGED taken, written'[c] = written[c],
         NEW last \in Nat, PieceUpTo(c, last)
  PROVE  PieceUpTo(c, last)'
  BY DEF PieceUpTo

\* Nothing changes for a connection that keeps its place in the range.
LEMMA UpToDateSame ==
  ASSUME NEW c \in Conns, UpToDate(c),
         UNCHANGED taken, written'[c] = written[c], joinedAt'[c] = joinedAt[c],
         Reached(c)' = Reached(c),
         bpc # "receive" \/ bpc' = "receive",
         c \in due \cup visited => c \in due' \cup visited'
  PROVE  UpToDate(c)'
  BY PieceSame DEF UpToDate

LEMMA PieceInvSame ==
  ASSUME PieceInv, UNCHANGED <<taken, written>>
  PROVE  PieceInv'
  BY PieceSame DEF PieceInv

\* A step that neither takes nor writes an event, leaves the range loop where
\* it is and opens no connection keeps everybody's progress.
LEMMA ProgressFrame ==
  ASSUME ProgressInv, clients \subseteq Conns,
         UNCHANGED <<history, rangeVars>>,
         clients' \ closed' \subseteq clients \ closed,
         \A c \in Conns : pc'[c] \in {"new", "register"}
                            => pc[c] \in {"new", "register"}
  PROVE  ProgressInv'
<1>1. UNCHANGED <<taken, written, joinedAt, bpc, target, due, visited>>
  BY DEF history, rangeVars
<1>2. \A c \in Conns : Reached(c)' = Reached(c)
  BY <1>1 DEF Reached
<1>3. \A c \in Conns : UpToDate(c) => UpToDate(c)'
  BY <1>1, <1>2, UpToDateSame
<1>4. PieceInv'
  BY <1>1, PieceInvSame DEF ProgressInv
<1> QED
  BY <1>1, <1>3, <1>4 DEF ProgressInv

\* A sequence that grows keeps its pieces.
LEMMA PieceKept ==
  ASSUME TypeInv, NEW c \in Conns, NEW last \in Nat, PieceUpTo(c, last),
         UNCHANGED written, NEW e \in Events, taken' = Append(taken, e)
  PROVE  PieceUpTo(c, last)'
<1>1. /\ Len(taken) \in Nat /\ Len(written[c]) \in Nat
      /\ Len(taken') = Len(taken) + 1
      /\ \A i \in 1 .. Len(taken) : taken'[i] = taken[i]
  BY DEF TypeInv, TypeOK
<1>2. last \in Len(written[c]) .. Len(taken)
  BY DEF PieceUpTo
<1>3. ASSUME NEW i \in 1 .. Len(written[c])
      PROVE  written[c][i] = taken'[last - Len(written[c]) + i]
  <2>1. written[c][i] = taken[last - Len(written[c]) + i]
    BY DEF PieceUpTo
  <2>2. last - Len(written[c]) + i \in 1 .. Len(taken)
    BY <1>1, <1>2
  <2> QED
    BY <1>1, <2>1, <2>2
<1> QED
  BY <1>1, <1>2, <1>3 DEF PieceUpTo

\* So does one that is continued with the event that comes next.
LEMMA PieceLonger ==
  ASSUME TypeInv, NEW c \in Conns, Len(taken) > 0, UNCHANGED taken,
         written[c] # <<>> => PieceUpTo(c, Len(taken) - 1),
         written'[c] = Append(written[c], taken[Len(taken)])
  PROVE  PieceUpTo(c, Len(taken))'
<1> DEFINE n == Len(written[c])
<1>1. /\ Len(taken) \in Nat /\ n \in Nat
      /\ written[c] \in Seq(Events) /\ taken[Len(taken)] \in Events
      /\ n = 0 <=> written[c] = <<>>
  BY DEF TypeInv, TypeOK
<1>2. /\ Len(written'[c]) = n + 1
      /\ written'[c][n + 1] = taken[Len(taken)]
      /\ \A i \in 1 .. n : written'[c][i] = written[c][i]
  BY <1>1
<1>3. n + 1 \in 0 .. Len(taken)
  <2>1. CASE n = 0
    BY <1>1, <2>1
  <2>2. CASE n # 0
    <3>1. Len(taken) - 1 \in n .. Len(taken)
      BY <1>1, <2>2 DEF PieceUpTo
    <3> HIDE DEF n
    <3> QED
      BY <1>1, <3>1
  <2> QED
    BY <2>1, <2>2
<1>4. ASSUME NEW i \in 1 .. n + 1
      PROVE  written'[c][i] = taken[Len(taken) - (n + 1) + i]
  <2>1. CASE i = n + 1
    BY <1>1, <1>2, <2>1
  <2>2. CASE i # n + 1
    <3>1. i \in 1 .. n /\ written[c] # <<>>
      BY <1>1, <2>2
    <3>2. written[c][i] = taken[Len(taken) - 1 - n + i]
      BY <3>1 DEF PieceUpTo
    <3>3. Len(taken) - 1 - n + i = Len(taken) - (n + 1) + i
      BY <1>1
    <3> QED
      BY <1>2, <3>1, <3>2, <3>3
  <2> QED
    BY <2>1, <2>2
<1> HIDE DEF n
<1>5. Len(taken) \in n + 1 .. Len(taken)
  BY <1>1, <1>3
<1> QED
  BY <1>2, <1>4, <1>5 DEF PieceUpTo

LEMMA ProgressStep == TypeInv /\ LockInv /\ ProgressInv /\ [Next]_vars
                        => ProgressInv'
<1> SUFFICES ASSUME TypeInv, LockInv, ProgressInv, [Next]_vars
             PROVE  ProgressInv'
  OBVIOUS
<1>0. /\ TypeOK /\ LoopHasEvent
      /\ \A c \in Conns : written[c] \in Seq(Events) /\ Len(written[c]) \in Nat
      /\ \A c \in Conns : joinedAt[c] \in Nat
      /\ taken \in Seq(Events) /\ Len(taken) \in Nat
      /\ clients \subseteq Conns
      /\ \A c \in Conns : Reached(c) \in Nat /\ Reached(c) <= Len(taken)
  BY DEF TypeInv, TypeOK, LoopHasEvent, Reached
<1>1. CASE UNCHANGED vars
  BY <1>0, <1>1, ProgressFrame DEF vars, connVars
<1>2. CASE Publish \/ Forward
  BY <1>0, <1>2, ProgressFrame DEF Publish, Forward, connVars
<1>3. CASE Receive
  <2>1. /\ taken' = Append(taken, holding) /\ holding \in Events
        /\ bpc = "receive" /\ bpc' = "range" /\ due' = clients /\ visited' = {}
        /\ UNCHANGED <<clients, closed, pc, written, joinedAt>>
    BY <1>0, <1>3 DEF Receive, TypeOK, Events, connVars
  <2>2. Len(taken') = Len(taken) + 1
    BY <1>0, <2>1
  <2>3. \A c \in Conns, last \in Nat :
           PieceUpTo(c, last) => PieceUpTo(c, last)'
    BY <2>1, PieceKept
  <2>4. PieceInv'
    BY <2>3 DEF ProgressInv, PieceInv
  <2>5. ASSUME NEW c \in clients \ closed PROVE UpToDate(c)'
    <3>1. Reached(c) = Len(taken) /\ Reached(c)' = Len(taken)
      BY <1>0, <2>1, <2>2 DEF Reached
    <3>2. UpToDate(c)
      BY DEF ProgressInv
    <3> QED
      BY <1>0, <2>1, <2>3, <3>1, <3>2 DEF UpToDate
  <2> QED
    BY <2>1, <2>4, <2>5 DEF ProgressInv
<1>4. CASE RangeEnds
  <2>1. /\ bpc = "range" /\ bpc' = "receive" /\ due \cap clients = {}
        /\ UNCHANGED <<taken, written, joinedAt, due, visited, target, clients,
                       closed, pc>>
    BY <1>4 DEF RangeEnds, connVars, history
  <2>2. ASSUME NEW c \in clients \ closed PROVE UpToDate(c)'
    <3>1. UpToDate(c)
      BY DEF ProgressInv
    <3>2. Reached(c)' = Len(taken)
      BY <2>1 DEF Reached
    <3>3. CASE c \in visited
      <4>1. Reached(c) = Len(taken)
        BY <2>1, <3>3 DEF Reached
      <4> QED
        BY <1>0, <2>1, <3>1, <3>2, <4>1, UpToDateSame DEF UpToDate
    <3>4. CASE c \notin visited
      <4>1. written[c] = <<>> /\ joinedAt[c] = Len(taken)
        BY <2>1, <3>1, <3>4 DEF UpToDate
      <4> QED
        BY <1>0, <2>1, <3>2, <4>1 DEF UpToDate
    <3> QED
      BY <3>3, <3>4
  <2>3. PieceInv'
    BY <2>1, PieceInvSame DEF ProgressInv
  <2> QED
    BY <2>1, <2>2, <2>3 DEF ProgressInv
<1>5. ASSUME NEW c \in Conns, Reach(c) PROVE ProgressInv'
  <2>1. /\ bpc = "range" /\ bpc' = "write" /\ target' = c /\ c \notin visited
        /\ due' = due \ {c} /\ visited' = visited \cup {c}
        /\ UNCHANGED <<taken, written, joinedAt, clients, closed, pc>>
    BY <1>5 DEF Reach, connVars, history
  <2>2. \A d \in Conns : Reached(d)' = Reached(d)
    BY <2>1 DEF Reached
  <2>3. \A d \in Conns : UpToDate(d) => UpToDate(d)'
    BY <2>1, <2>2, UpToDateSame
  <2>4. PieceInv'
    BY <2>1, PieceInvSame DEF ProgressInv
  <2> QED
    BY <1>0, <2>1, <2>3, <2>4 DEF ProgressInv
<1>6. ASSUME NEW c \in Conns, Write(c) PROVE ProgressInv'
  <2> DEFINE e == taken[Len(taken)]
  <2>1. /\ bpc = "write" /\ target = c /\ bpc' = "range" /\ target' = None
        /\ written' = [written EXCEPT ![c] = Append(@, e)]
        /\ UNCHANGED <<taken, joinedAt, due, visited, clients, closed, pc>>
    BY <1>6 DEF Write, connVars
  <2>2. /\ c \in visited /\ c \in clients \ closed
        /\ pc[c] \notin {"new", "register"} /\ Len(taken) > 0
    BY <1>0, <2>1 DEF LockInv, TargetInv, OpenInv, ClientsMatchHandlers,
                      LoopHasEvent
  <2>3. /\ written'[c] = Append(written[c], e)
        /\ \A d \in Conns \ {c} : written'[d] = written[d]
    BY <1>0, <2>1, <2>2 DEF TypeOK
  <2>4. Len(written'[c]) = Len(written[c]) + 1
    BY <1>0, <2>2, <2>3
  <2>5. /\ Reached(c) = Len(taken) - 1
        /\ Reached(c)' = Len(taken)
        /\ \A d \in Conns \ {c} : Reached(d)' = Reached(d)
    BY <2>1, <2>2 DEF Reached
  <2>6. UpToDate(c)
    BY <2>2 DEF ProgressInv
  <2>7. PieceUpTo(c, Len(taken))'
    <3>1. written[c] # <<>> => PieceUpTo(c, Len(taken) - 1)
      BY <1>0, <2>2, <2>5, <2>6 DEF UpToDate
    <3> QED
      BY <2>1, <2>2, <2>3, <3>1, PieceLonger
  <2>8. PieceInv'
    <3>1. ASSUME NEW d \in Conns \ {c} PROVE \E last \in Nat : PieceUpTo(d, last)'
      BY <2>1, <2>3, PieceSame DEF ProgressInv, PieceInv
    <3>2. \E last \in Nat : PieceUpTo(c, last)'
      BY <1>0, <2>1, <2>7 DEF PieceUpTo
    <3> QED
      BY <3>1, <3>2 DEF PieceInv
  <2>9. UpToDate(c)'
    <3>1. ASSUME NEW last \in Nat, last = Len(taken) PROVE PieceUpTo(c, last)'
      BY <2>1, <2>7, <3>1 DEF PieceUpTo
    <3> QED
      BY <1>0, <2>1, <2>2, <2>4, <2>5, <2>6, <3>1 DEF UpToDate
  <2>10. ASSUME NEW d \in clients \ closed, d # c PROVE UpToDate(d)'
    <3>1. UpToDate(d)
      BY DEF ProgressInv
    <3> QED
      BY <1>0, <2>1, <2>3, <2>5, <2>10, <3>1, UpToDateSame
  <2> QED
    BY <2>1, <2>2, <2>3, <2>8, <2>9, <2>10 DEF ProgressInv
<1>7. ASSUME NEW c \in Conns, WriteFails(c) PROVE ProgressInv'
  <2>1. /\ bpc = "write" /\ target = c /\ bpc' = "drop"
        /\ closed' = closed \cup {c}
        /\ UNCHANGED <<taken, written, joinedAt, target, due, visited, clients,
                       pc>>
    BY <1>7 DEF WriteFails, history
  <2>2. \A d \in Conns \ {c} : Reached(d)' = Reached(d)
    BY <2>1 DEF Reached
  <2>3. \A d \in Conns \ {c} : UpToDate(d) => UpToDate(d)'
    BY <2>1, <2>2, UpToDateSame
  <2>4. PieceInv'
    BY <2>1, PieceInvSame DEF ProgressInv
  <2> QED
    BY <1>0, <2>1, <2>3, <2>4 DEF ProgressInv
<1>8. ASSUME NEW c \in Conns, Drop(c) PROVE ProgressInv'
  <2>1. /\ bpc = "drop" /\ target = c /\ bpc' = "range" /\ target' = None
        /\ clients' = clients \ {c}
        /\ UNCHANGED <<taken, written, joinedAt, due, visited, closed, pc>>
    BY <1>8 DEF Drop, connVars, history
  <2>2. \A d \in Conns : Reached(d)' = Reached(d)
    BY <2>1 DEF Reached
  <2>3. \A d \in Conns : UpToDate(d) => UpToDate(d)'
    BY <2>1, <2>2, UpToDateSame
  <2>4. PieceInv'
    BY <2>1, PieceInvSame DEF ProgressInv
  <2> QED
    BY <1>0, <2>1, <2>3, <2>4 DEF ProgressInv
<1>9. ASSUME NEW c \in Conns, Connect(c) \/ PeerChanges(c)
      PROVE  ProgressInv'
  BY <1>0, <1>9, ProgressFrame DEF Connect, PeerChanges, GoTo, TypeOK
<1>10. ASSUME NEW c \in Conns, Register(c) PROVE ProgressInv'
  <2>1. /\ bpc \in {"receive", "drop"} /\ pc[c] = "register"
        /\ pc' = [pc EXCEPT ![c] = "reading"]
        /\ clients' = clients \cup {c}
        /\ joinedAt' = [joinedAt EXCEPT ![c] = Len(taken)]
        /\ UNCHANGED <<taken, written, bpc, target, due, visited, closed>>
    BY <1>0, <1>10 DEF Register, GoTo, RLocked, rangeVars, TypeOK
  <2>2. \A d \in Conns : Reached(d)' = Reached(d)
    BY <2>1 DEF Reached
  <2>3. written[c] = <<>> /\ joinedAt'[c] = Len(taken)
    BY <1>0, <2>1 DEF ProgressInv, TypeOK
  <2>4. UpToDate(c)'
    <3>1. Len(written[c]) = 0
      BY <2>3
    <3> QED
      BY <1>0, <2>1, <2>2, <2>3, <3>1 DEF UpToDate
  <2>5. ASSUME NEW d \in clients \ closed, d # c PROVE UpToDate(d)'
    <3>1. UpToDate(d) /\ joinedAt'[d] = joinedAt[d]
      BY <1>0, <2>1, <2>5 DEF ProgressInv, TypeOK
    <3> QED
      BY <1>0, <2>1, <2>2, <3>1, UpToDateSame
  <2>6. PieceInv'
    BY <2>1, PieceInvSame DEF ProgressInv
  <2> QED
    BY <1>0, <2>1, <2>4, <2>5, <2>6 DEF ProgressInv, TypeOK
<1>11. ASSUME NEW c \in Conns, ReadFails(c) \/ Unregister(c) \/ Close(c)
       PROVE  ProgressInv'
  BY <1>0, <1>11, ProgressFrame DEF ReadFails, Unregister, Close, GoTo, TypeOK
<1> QED
  BY <1>1, <1>2, <1>3, <1>4, <1>5, <1>6, <1>7, <1>8, <1>9, <1>10, <1>11
  DEF Next, Broadcaster, HandleWS

\* The n elements of s from the a-th on.
LEMMA PieceOf ==
  ASSUME NEW s \in Seq(Events), NEW n \in Nat,
         NEW a \in 1 .. Len(s) + 1, a + n <= Len(s) + 1
  PROVE  /\ SubSeq(s, a, a + n - 1) \in Seq(Events)
         /\ Len(SubSeq(s, a, a + n - 1)) = n
         /\ \A i \in 1 .. n : SubSeq(s, a, a + n - 1)[i] = s[a + i - 1]
<1> DEFINE b == a + n - 1
<1>1. a \in Int /\ b \in Int /\ \A i \in a .. b : s[i] \in Events
  OBVIOUS
<1>2. /\ b - a + 1 = n
      /\ IF a <= b THEN b - a + 1 = n ELSE n = 0
  OBVIOUS
<1> HIDE DEF b
<1>3. /\ SubSeq(s, a, b) \in Seq(Events)
      /\ Len(SubSeq(s, a, b)) = n
  BY <1>1, <1>2
<1>4. \A i \in 1 .. b - a + 1 : SubSeq(s, a, b)[i] = s[a + i - 1]
  BY <1>1, SubSeqProperties
<1>5. \A i \in 1 .. n : SubSeq(s, a, b)[i] = s[a + i - 1]
  BY <1>2, <1>4
<1> QED
  BY <1>3, <1>5 DEF b

\* What each registered connection has got in the middle of a range.
THEOREM ProgressCorrect == Spec => [](TypeInv /\ LockInv /\ ProgressInv)
  BY TypeInit, TypeStep, LockInit, LockStep, ProgressInit, ProgressStep, PTL
  DEF Spec

\* What is written to a connection is a piece of the stream of events, without
\* a gap, a repetition or a change of order.
THEOREM OrderCorrect == Spec => []DeliveredInOrder
<1>1. TypeInv /\ ProgressInv => DeliveredInOrder
  <2> SUFFICES ASSUME TypeInv, ProgressInv, NEW c \in Conns
               PROVE  \E first \in 1 .. Len(taken) + 1 :
                        /\ first + Len(written[c]) <= Len(taken) + 1
                        /\ written[c]
                             = SubSeq(taken, first, first + Len(written[c]) - 1)
    BY DEF DeliveredInOrder
  <2>1. taken \in Seq(Events) /\ written[c] \in Seq(Events)
    BY DEF TypeInv, TypeOK
  <2>2. PICK last \in Nat : PieceUpTo(c, last)
    BY DEF ProgressInv, PieceInv
  <2> DEFINE n == Len(written[c])
             first == last - n + 1
  <2>3. n \in Nat /\ Len(taken) \in Nat /\ last \in n .. Len(taken)
    BY <2>1, <2>2 DEF PieceUpTo
  <2>4. /\ first \in 1 .. Len(taken) + 1 /\ first + n <= Len(taken) + 1
        /\ first + n - 1 \in 0 .. Len(taken)
        /\ first + n - 1 - first + 1 = n
    <3> HIDE DEF n
    <3> QED
      BY <2>3
  <2>5. written[c] = SubSeq(taken, first, first + n - 1)
    <3> DEFINE piece == SubSeq(taken, first, first + n - 1)
    <3>1. /\ piece \in Seq(Events) /\ Len(piece) = n
          /\ \A i \in 1 .. n : piece[i] = taken[first + i - 1]
      <4> HIDE DEF n, first
      <4> QED
        BY <2>1, <2>3, <2>4, PieceOf
    <3>2. ASSUME NEW i \in 1 .. n PROVE piece[i] = written[c][i]
      <4>1. piece[i] = taken[first + i - 1]
        BY <3>1
      <4>2. written[c][i] = taken[last - n + i]
        BY <2>2 DEF PieceUpTo
      <4>3. first + i - 1 = last - n + i
        BY <2>3
      <4> QED
        BY <4>1, <4>2, <4>3
    <3> HIDE DEF piece, n
    <3>3. written[c] = piece
      BY <2>1, <3>1, <3>2 DEF n
    <3> QED
      BY <3>3 DEF piece
  <2> QED
    BY <2>4, <2>5
<1> QED
  BY <1>1, ProgressCorrect, PTL

\* Between two events every registered connection has had all the events since
\* it was registered.
THEOREM NobodyBehind == Spec => []NobodyFallsBehind
<1>1. TypeInv /\ LockInv /\ ProgressInv => NobodyFallsBehind
  BY DEF TypeInv, TypeOK, LockInv, OpenInv, ProgressInv, UpToDate, Reached,
         NobodyFallsBehind
<1> QED
  BY <1>1, ProgressCorrect, PTL

-----------------------------------------------------------------------------
(***************************************************************************)
(* BroadcastHub implements EventFeed.                                      *)
(***************************************************************************)

\* Events overtake nobody and are not repeated on their way from Redis to the
\* Broadcaster: the taken ones, the one that is offered and those in the
\* channel are in the order in which they were published.
StreamInv ==
  /\ \A i, j \in 1 .. Len(taken) : i < j => taken[i] < taken[j]
  /\ \A i, j \in 1 .. Len(inbox) : i < j => inbox[i] < inbox[j]
  /\ \A i \in 1 .. Len(taken) : taken[i] <= published
  /\ \A i \in 1 .. Len(inbox) : inbox[i] <= published
  /\ \A i \in 1 .. Len(taken), j \in 1 .. Len(inbox) : taken[i] < inbox[j]
  /\ holding # 0 =>
       /\ holding <= published
       /\ \A i \in 1 .. Len(taken) : taken[i] < holding
       /\ \A j \in 1 .. Len(inbox) : holding < inbox[j]

\* Nobody joined after the last event.
JoinedInv == \A c \in Conns : joinedAt[c] <= Len(taken)

LEMMA StreamInit == Init => StreamInv /\ JoinedInv
  BY DEF Init, StreamInv, JoinedInv

LEMMA JoinedStep == TypeInv /\ JoinedInv /\ [Next]_vars => JoinedInv'
<1> SUFFICES ASSUME TypeInv, JoinedInv, [Next]_vars PROVE JoinedInv'
  OBVIOUS
<1>1. TypeOK /\ Len(taken) \in Nat /\ \A c \in Conns : joinedAt[c] \in Nat
  BY DEF TypeInv, TypeOK
<1>2. CASE Receive
  <2>1. Len(taken') = Len(taken) + 1 /\ UNCHANGED joinedAt
    BY <1>1, <1>2 DEF Receive, TypeOK, Events
  <2> QED
    BY <1>1, <2>1 DEF JoinedInv
<1>3. ASSUME NEW c \in Conns, Register(c) PROVE JoinedInv'
  BY <1>1, <1>3 DEF Register, TypeOK, JoinedInv
<1>4. CASE UNCHANGED <<taken, joinedAt>>
  BY <1>4 DEF JoinedInv
<1> QED
  BY <1>2, <1>3, <1>4 DEF Next, Broadcaster, HandleWS, Publish, Forward, Reach,
     Write, WriteFails, Drop, RangeEnds, Connect, PeerChanges, ReadFails,
     Unregister, Close, vars, history

LEMMA StreamStep == TypeInv /\ StreamInv /\ [Next]_vars => StreamInv'
<1> SUFFICES ASSUME TypeInv, StreamInv, [Next]_vars PROVE StreamInv'
  OBVIOUS
<1>1. /\ published \in Nat /\ holding \in Nat
      /\ taken \in Seq(Events) /\ inbox \in Seq(Events)
      /\ Len(taken) \in Nat /\ Len(inbox) \in Nat
      /\ \A i \in 1 .. Len(taken) : taken[i] \in Nat
      /\ \A i \in 1 .. Len(inbox) : inbox[i] \in Nat
  BY DEF TypeInv, TypeOK, Events
<1>2. CASE Publish
  <2>1. /\ published' = published + 1 /\ published + 1 \in Events
        /\ UNCHANGED <<holding, taken>>
        /\ inbox' = Append(inbox, published + 1) \/ UNCHANGED inbox
    BY <1>1, <1>2 DEF Publish, history, Events
  <2>2. CASE UNCHANGED inbox
    BY <1>1, <2>1, <2>2 DEF StreamInv
  <2>3. CASE inbox' = Append(inbox, published + 1)
    <3>1. /\ Len(inbox') = Len(inbox) + 1
          /\ inbox'[Len(inbox) + 1] = published + 1
          /\ \A i \in 1 .. Len(inbox) : inbox'[i] = inbox[i]
      BY <1>1, <2>1, <2>3
    <3>2. \A i \in 1 .. Len(inbox') : i \in 1 .. Len(inbox) \/ i = Len(inbox) + 1
      BY <1>1, <3>1
    <3>3. /\ \A i \in 1 .. Len(inbox) : inbox[i] < published + 1
          /\ \A i \in 1 .. Len(taken) : taken[i] < published + 1
          /\ holding # 0 => holding < published + 1
      BY <1>1 DEF StreamInv
    <3>4. \A i, j \in 1 .. Len(inbox') : i < j => inbox'[i] < inbox'[j]
      BY <1>1, <3>1, <3>2, <3>3 DEF StreamInv
    <3>5. \A i \in 1 .. Len(inbox') : inbox'[i] <= published + 1
      BY <1>1, <3>1, <3>2, <3>3
    <3>6. /\ \A i \in 1 .. Len(taken), j \in 1 .. Len(inbox') : taken[i] < inbox'[j]
          /\ holding # 0 => \A j \in 1 .. Len(inbox') : holding < inbox'[j]
      BY <1>1, <3>1, <3>2, <3>3 DEF StreamInv
    <3>7. /\ \A i \in 1 .. Len(taken) : taken[i] <= published + 1
          /\ holding # 0 => holding <= published + 1
      BY <1>1, <3>3
    <3> QED
      BY <2>1, <3>4, <3>5, <3>6, <3>7 DEF StreamInv
  <2> QED
    BY <2>1, <2>2, <2>3
<1>3. CASE Forward
  <2>1. /\ inbox # <<>> /\ holding = 0 /\ holding' = Head(inbox)
        /\ inbox' = Tail(inbox)
        /\ UNCHANGED <<published, taken>>
    BY <1>3 DEF Forward, history
  <2>2. /\ 1 \in 1 .. Len(inbox) /\ Head(inbox) = inbox[1]
        /\ Len(inbox') = Len(inbox) - 1
        /\ \A i \in 1 .. Len(inbox') :
             /\ i + 1 \in 1 .. Len(inbox)
             /\ inbox'[i] = inbox[i + 1]
    BY <1>1, <2>1
  <2> QED
    BY <1>1, <2>1, <2>2 DEF StreamInv
<1>4. CASE Receive
  <2>1. /\ holding \in Events /\ holding # 0 /\ holding' = 0
        /\ taken' = Append(taken, holding)
        /\ UNCHANGED <<published, inbox>>
    BY <1>1, <1>4 DEF Receive, TypeInv, TypeOK, Events
  <2>2. /\ Len(taken') = Len(taken) + 1
        /\ taken'[Len(taken) + 1] = holding
        /\ \A i \in 1 .. Len(taken) : taken'[i] = taken[i]
    BY <1>1, <2>1
  <2>3. \A i \in 1 .. Len(taken') : i \in 1 .. Len(taken) \/ i = Len(taken) + 1
    BY <1>1, <2>2
  <2> QED
    BY <1>1, <2>1, <2>2, <2>3 DEF StreamInv
<1>5. CASE UNCHANGED <<published, inbox, holding, taken>>
  BY <1>5 DEF StreamInv
<1> QED
  BY <1>2, <1>3, <1>4, <1>5 DEF Next, Broadcaster, HandleWS, Reach, Write,
     WriteFails, Drop, RangeEnds, Connect, PeerChanges, Register, ReadFails,
     Unregister, Close, vars, history, feedVars

FeedInv ==
  TypeInv /\ LockInv /\ ProgressInv /\ StreamInv /\ JoinedInv

LEMMA FeedInit == Init => FeedInv /\ Feed!Init
<1>1. Init => Feed!Init
  BY DEF Init, Feed!Init
<1> QED
  BY <1>1, TypeInit, LockInit, ProgressInit, StreamInit DEF FeedInv

\* An open registered connection that the range has come past, or any between
\* two events, has the last event, unless it joined after it.
LEMMA PastHasLast ==
  ASSUME FeedInv, NEW c \in clients \ closed, Reached(c) = Len(taken)
  PROVE  Feed!HasLast(c) \/ joinedAt[c] = Len(taken)
<1>1. /\ UpToDate(c) /\ c \in Conns
      /\ written[c] \in Seq(Events) /\ Len(written[c]) \in Nat
      /\ Len(taken) \in Nat /\ joinedAt[c] \in Nat
      /\ joinedAt[c] <= Len(taken)
  BY DEF FeedInv, ProgressInv, TypeInv, TypeOK, JoinedInv
<1>2. CASE written[c] = <<>>
  BY <1>1, <1>2 DEF UpToDate
<1>3. CASE written[c] # <<>>
  <2>1. PieceUpTo(c, Len(taken)) /\ Len(written[c]) > 0
    BY <1>1, <1>3 DEF UpToDate
  <2>2. /\ Len(written[c]) \in 1 .. Len(written[c])
        /\ Len(taken) - Len(written[c]) + Len(written[c]) = Len(taken)
        /\ Len(taken) > 0
    BY <1>1, <2>1 DEF PieceUpTo
  <2>3. written[c][Len(written[c])] = taken[Len(taken)]
    BY <2>1, <2>2 DEF PieceUpTo
  <2>4. taken # <<>>
    BY <2>2
  <2> QED
    BY <1>3, <2>3, <2>4 DEF Feed!HasLast
<1> QED
  BY <1>2, <1>3

\* One that the Broadcaster is about to write to does not have it.
LEMMA TargetLacksLast ==
  ASSUME FeedInv, NEW c \in clients \ closed, Reached(c) = Len(taken) - 1,
         Len(taken) > 0
  PROVE  ~Feed!HasLast(c)
<1> SUFFICES ASSUME Feed!HasLast(c) PROVE FALSE
  OBVIOUS
<1>1. /\ UpToDate(c) /\ c \in Conns
      /\ written[c] \in Seq(Events) /\ Len(written[c]) \in Nat
      /\ Len(taken) \in Nat
      /\ \A i \in 1 .. Len(taken) : taken[i] \in Nat
  BY DEF FeedInv, ProgressInv, TypeInv, TypeOK, Events
<1>2. written[c] # <<>> /\ written[c][Len(written[c])] = taken[Len(taken)]
  BY DEF Feed!HasLast
<1>3. Len(taken) - 1 \in Nat /\ PieceUpTo(c, Len(taken) - 1) /\ Len(written[c]) > 0
  BY <1>1, <1>2 DEF UpToDate
<1>4. /\ Len(written[c]) \in 1 .. Len(written[c])
      /\ (Len(taken) - 1) - Len(written[c]) + Len(written[c]) = Len(taken) - 1
      /\ Len(taken) - 1 \in 1 .. Len(taken) /\ Len(taken) \in 1 .. Len(taken)
      /\ Len(taken) - 1 < Len(taken)
  BY <1>1, <1>3 DEF PieceUpTo
<1>5. written[c][Len(written[c])] = taken[Len(taken) - 1]
  BY <1>3, <1>4 DEF PieceUpTo
<1>6. taken[Len(taken) - 1] < taken[Len(taken)]
  BY <1>4 DEF FeedInv, StreamInv
<1>7. taken[Len(taken) - 1] \in Nat /\ taken[Len(taken)] \in Nat
  BY <1>1, <1>4
<1> HIDE DEF FeedInv
<1> QED
  BY <1>2, <1>5, <1>6, <1>7

LEMMA FeedStep == FeedInv /\ [Next]_vars => [Feed!Next]_Feed!vars
<1> SUFFICES ASSUME FeedInv, [Next]_vars PROVE [Feed!Next]_Feed!vars
  OBVIOUS
<1>a. /\ TypeOK /\ clients \subseteq Conns
      /\ OpenInv /\ FreshInv /\ TargetInv /\ ClientsMatchHandlers
  BY DEF FeedInv, TypeInv, TypeOK, LockInv
<1>b. ASSUME UNCHANGED <<taken, written, joinedAt>>,
             clients' \ closed' = clients \ closed
      PROVE  UNCHANGED Feed!vars
  BY <1>b DEF Feed!vars
<1>c. ASSUME UNCHANGED <<taken, written, joinedAt>>, NEW c \in clients \ closed,
             clients' \ closed' = (clients \ closed) \ {c}
      PROVE  Feed!Next
  BY <1>a, <1>c DEF Feed!Leave, Feed!Next
<1>1. CASE UNCHANGED <<history, clients, closed>>
  BY <1>1, <1>b DEF history
<1>2. CASE Receive
  <2>1. /\ bpc = "receive" /\ holding \in Events /\ holding # 0
        /\ taken' = Append(taken, holding)
        /\ UNCHANGED <<clients, closed, written, joinedAt>>
    BY <1>a, <1>2 DEF Receive, connVars, TypeOK, Events
  <2>2. \A c \in clients \ closed : Feed!HasLast(c) \/ joinedAt[c] = Len(taken)
    BY <1>a, <2>1, PastHasLast DEF Reached
  <2>3. Feed!Broadcast(holding)
    BY <2>1, <2>2 DEF Feed!Broadcast, FeedInv, StreamInv
  <2> QED
    BY <2>1, <2>3 DEF Feed!Next
<1>3. ASSUME NEW c \in Conns, Write(c) PROVE Feed!Next
  <2>1. /\ c \in clients \ closed /\ Reached(c) = Len(taken) - 1
        /\ Len(taken) > 0 /\ taken # <<>>
    BY <1>a, <1>3 DEF Write, OpenInv, TargetInv, Reached, FeedInv, TypeInv,
                      LoopHasEvent
  <2>2. Feed!Deliver(c)
    BY <1>3, <2>1, TargetLacksLast DEF Write, connVars, Feed!Deliver
  <2> QED
    BY <2>2 DEF Feed!Next
<1>4. ASSUME NEW c \in Conns, WriteFails(c) PROVE Feed!Next
  <2>1. /\ c \in clients \ closed
        /\ clients' \ closed' = (clients \ closed) \ {c}
    BY <1>a, <1>4 DEF WriteFails, OpenInv, TargetInv
  <2> QED
    BY <1>4, <2>1, <1>c DEF WriteFails, history
<1>5. ASSUME NEW c \in Conns, Drop(c) PROVE UNCHANGED Feed!vars
  <2>1. clients' \ closed' = clients \ closed
    BY <1>a, <1>5 DEF Drop, TargetInv, connVars
  <2> QED
    BY <1>5, <2>1, <1>b DEF Drop, history
<1>6. ASSUME NEW c \in Conns, Register(c) PROVE Feed!Next
  <2>1. /\ c \notin clients /\ c \notin closed /\ written[c] = <<>>
    BY <1>a, <1>6 DEF Register, GoTo, FreshInv, ClientsMatchHandlers, FeedInv,
                      ProgressInv
  <2>2. clients' \ closed' = (clients \ closed) \cup {c}
    BY <1>6, <2>1 DEF Register
  <2>3. Feed!Join(c)
    BY <1>6, <2>1, <2>2 DEF Register, Feed!Join
  <2> QED
    BY <2>3 DEF Feed!Next
<1>7. ASSUME NEW c \in Conns, Unregister(c) PROVE [Feed!Next]_Feed!vars
  <2>1. CASE c \in clients \ closed
    <3>1. clients' \ closed' = (clients \ closed) \ {c}
      BY <1>7 DEF Unregister
    <3> QED
      BY <1>7, <2>1, <3>1, <1>c DEF Unregister, history
  <2>2. CASE c \notin clients \ closed
    <3>1. clients' \ closed' = clients \ closed
      BY <1>7, <2>2 DEF Unregister
    <3> QED
      BY <1>7, <3>1, <1>b DEF Unregister, history
  <2> QED
    BY <2>1, <2>2
<1>8. ASSUME NEW c \in Conns, Close(c) PROVE UNCHANGED Feed!vars
  <2>1. c \notin clients /\ UNCHANGED clients /\ closed' = closed \cup {c}
    BY <1>a, <1>8 DEF Close, GoTo, ClientsMatchHandlers
  <2> QED
    BY <1>8, <2>1, <1>b DEF Close, history
<1> QED
  BY <1>1, <1>2, <1>3, <1>4, <1>5, <1>6, <1>7, <1>8 DEF Next, Broadcaster,
     HandleWS, Publish, Forward, Reach, RangeEnds, Connect, PeerChanges,
     ReadFails, vars, connVars

LEMMA FeedInvStep == FeedInv /\ [Next]_vars => FeedInv'
  BY TypeStep, LockStep, ProgressStep, StreamStep, JoinedStep DEF FeedInv

\* Nothing is repeated or reordered before it reaches the Broadcaster, and
\* what the Broadcaster has taken is in the order of publication.
THEOREM StreamCorrect == Spec => []StreamInv
<1>1. FeedInv => StreamInv
  BY DEF FeedInv
<1> QED
  BY <1>1, FeedInit, FeedInvStep, PTL DEF Spec

\* Every behaviour of the hub is one of EventFeed: one log, of which each
\* connection that works is sent every event once while it is the last, and
\* nobody is overtaken, however the range over the map, the registrations
\* and the broken connections interleave.
THEOREM Implementation == Spec => ImplementsEventFeed
  BY FeedInit, FeedInvStep, FeedStep, PTL DEF Spec, Feed!Spec,
     ImplementsEventFeed
=============================================================================
