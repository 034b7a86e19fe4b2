------------------------- MODULE MikrotikClientProofs -------------------------
(***************************************************************************)
(* Proofs about MikrotikClient for any finite set of calls.                *)
(***************************************************************************)
EXTENDS MikrotikClient, FiniteSetTheorems, TLAPS

USE MikrotikClientAssumption

(***************************************************************************)
(* Types.  That the connections do not run out and that no command is      *)
(* executed three times takes counting: every call dials once at most, and *)
(* every time it sends its command, the router gets to execute it once.    *)
(***************************************************************************)

\* Where a call is, how often it has sent its command, and the connections it
\* knows, which have been dialled.
PlaceInv ==
  /\ current <= dialled
  /\ \A r \in Callers :
       /\ pc[r] = "idle" => tries[r] = 0
       /\ pc[r] \in {"close", "dial", "store", "resend"}
            => r \in Retriers /\ tries[r] = 1
       /\ pc[r] = "sent" => tries[r] >= 1 /\ on[r] \in 1 .. dialled
       /\ pc[r] = "store" => fresh[r] \in 2 .. dialled
       /\ r \in Plain => tries[r] <= 1

\* The calls that have dialled a connection, and their number.
Dialled == {r \in Retriers : pc[r] \in {"store", "resend"} \/ tries[r] = 2}

DialInv == dialled = Cardinality(Dialled) + 1

\* The connections on which the router may still execute the command of r.
Pending(r) == {k \in Conns : <<r, k>> \in wire}

WireInv ==
  \A r \in Callers :
    /\ effects[r] + Cardinality(Pending(r)) <= tries[r]
    /\ Pending(r) # {} => r \notin Listeners
    /\ verdict[r] = "done" \/ pc[r] = "answered" => effects[r] > 0

CountInv == TypeOK /\ PlaceInv /\ DialInv /\ WireInv

LEMMA Finite ==
  /\ IsFiniteSet(Retriers) /\ Cardinality(Retriers) \in Nat
  /\ IsFiniteSet(Conns) /\ Conns \subseteq Nat \ {0} /\ 1 \in Conns
<1>1. IsFiniteSet(Retriers) /\ Cardinality(Retriers) \in Nat
  BY FS_Subset, FS_CardinalityType DEF Callers
<1>2. Cardinality(Retriers) + 1 \in Int
  BY <1>1
<1>3. IsFiniteSet(Conns)
  BY <1>2, FS_Interval DEF Conns
<1> QED
  BY <1>1, <1>3 DEF Conns

LEMMA DialledFinite ==
  /\ IsFiniteSet(Dialled) /\ Cardinality(Dialled) \in Nat
  /\ Cardinality(Dialled) <= Cardinality(Retriers)
<1>1. Dialled \subseteq Retriers
  BY DEF Dialled
<1> QED
  BY <1>1, Finite, FS_Subset, FS_CardinalityType

LEMMA PendingFinite ==
  ASSUME NEW r
  PROVE  IsFiniteSet(Pending(r)) /\ Cardinality(Pending(r)) \in Nat
<1>1. Pending(r) \subseteq Conns
  BY DEF Pending
<1> QED
  BY <1>1, Finite, FS_Subset, FS_CardinalityType

LEMMA CountInit == Init => CountInv
<1> SUFFICES ASSUME Init PROVE CountInv
  OBVIOUS
<1>1. TypeOK /\ PlaceInv
  BY Finite DEF Init, TypeOK, PlaceInv
<1>2. Dialled = {} /\ \A r \in Callers : Pending(r) = {}
  BY DEF Init, Dialled, Pending, Callers
<1>3. DialInv /\ WireInv
  BY <1>2, FS_EmptySet DEF Init, DialInv, WireInv
<1> QED
  BY <1>1, <1>3 DEF CountInv

\* A call that dials is counted, and no other.
LEMMA DialStep ==
  ASSUME CountInv, [Next]_vars
  PROVE  DialInv' /\ dialled' \in Conns
<1>0. /\ TypeOK /\ PlaceInv /\ dialled = Cardinality(Dialled) + 1
      /\ Retriers \subseteq Callers
  BY DEF CountInv, DialInv, Callers
<1>1. ASSUME NEW r \in Callers, Dial(r) PROVE DialInv' /\ dialled' \in Conns
  <2>1. /\ r \in Retriers /\ r \notin Dialled
        /\ Dialled' = Dialled \cup {r} /\ dialled' = dialled + 1
    BY <1>0, <1>1 DEF Dial, GoTo, Dialled, TypeOK, PlaceInv
  <2>2. Cardinality(Dialled') = Cardinality(Dialled) + 1
    BY <2>1, DialledFinite, FS_AddElement
  <2>3. Cardinality(Dialled') <= Cardinality(Retriers)
    <3>1. Dialled' \subseteq Retriers
      BY <2>1 DEF Dialled
    <3> QED
      BY <3>1, Finite, FS_Subset
  <2> QED
    BY <1>0, <2>1, <2>2, <2>3, DialledFinite, Finite DEF DialInv, Conns
<1>2. ASSUME Dialled' = Dialled, dialled' = dialled
      PROVE  DialInv' /\ dialled' \in Conns
  BY <1>0, <1>2 DEF DialInv, TypeOK
<1>3. CASE UNCHANGED vars
  BY <1>2, <1>3 DEF vars, linkVars, callVars, Dialled
<1>4. ASSUME NEW r \in Callers, Send(r) PROVE DialInv' /\ dialled' \in Conns
  <2>1. Dialled' = Dialled /\ dialled' = dialled
    BY <1>0, <1>4 DEF Send, linkVars, Dialled, TypeOK, PlaceInv
  <2> QED
    BY <1>2, <2>1
<1>5. ASSUME NEW r \in Callers,
             \/ Listen(r) \/ Reply(r) \/ Fails(r) \/ CloseOld(r)
             \/ DialFails(r) \/ Store(r) \/ StreamEnds(r)
      PROVE  DialInv' /\ dialled' \in Conns
  <2>1. dialled' = dialled /\ tries' = tries
    BY <1>5 DEF Listen, Reply, Fails, CloseOld, DialFails, Store, StreamEnds, linkVars
  <2>2. /\ \A q \in Callers \ {r} : pc'[q] = pc[q]
        /\ pc'[r] \in {"store", "resend"} <=> pc[r] \in {"store", "resend"}
    BY <1>0, <1>5
    DEF Listen, Reply, Fails, CloseOld, DialFails, Store, StreamEnds, GoTo, TypeOK
  <2>3. Dialled' = Dialled
    BY <1>0, <2>1, <2>2 DEF Dialled
  <2> QED
    BY <1>2, <2>1, <2>3
<1>6. ASSUME NEW k \in Conns, Break(k) \/ \E r \in Callers : Execute(r, k)
      PROVE  DialInv' /\ dialled' \in Conns
  BY <1>2, <1>6 DEF Execute, Break, linkVars, callVars, Dialled
<1>7. ASSUME NEW r \in Callers, Call(r) PROVE DialInv' /\ dialled' \in Conns
  BY <1>1, <1>4, <1>5, <1>7 DEF Call
<1> QED
  BY <1>3, <1>4, <1>5, <1>6, <1>7 DEF Next

\* Every command that is sent may be executed once.
LEMMA WireStep ==
  ASSUME CountInv, [Next]_vars
  PROVE  WireInv' /\ effects' \in [Callers -> Nat]
<1>0. /\ TypeOK /\ PlaceInv /\ WireInv
      /\ Runners \cup Plain \subseteq Callers
  BY DEF CountInv, Callers, Retriers
<1>1. ASSUME NEW r \in Callers, Send(r) PROVE WireInv' /\ effects' \in [Callers -> Nat]
  <2>1. /\ pc[r] \in {"idle", "resend"} /\ pc' = [pc EXCEPT ![r] = "sent"]
        /\ tries' = [tries EXCEPT ![r] = @ + 1]
        /\ verdict' = [verdict EXCEPT ![r] = "none"] /\ effects' = effects
        /\ wire' = wire \/ (r \notin Listeners /\ wire' = wire \cup {<<r, current>>})
    BY <1>1 DEF Send
  <2>2. \A q \in Callers \ {r} :
          /\ Pending(q)' = Pending(q) /\ tries'[q] = tries[q] /\ pc'[q] = pc[q]
          /\ verdict'[q] = verdict[q]
    BY <1>0, <2>1 DEF Pending, TypeOK
  <2>3. tries'[r] = tries[r] + 1 /\ pc'[r] = "sent" /\ verdict'[r] = "none"
    BY <1>0, <2>1 DEF TypeOK
  <2>4. /\ Pending(r)' \in {Pending(r), Pending(r) \cup {current}}
        /\ Pending(r)' # {} => r \notin Listeners
    <3>1. Pending(r)' \in {Pending(r), Pending(r) \cup {current}}
      <4>1. current \in Conns
        BY <1>0 DEF TypeOK
      <4> QED
        BY <2>1, <4>1 DEF Pending
    <3>2. Pending(r) # {} => r \notin Listeners
      BY <1>0 DEF WireInv
    <3> QED
      BY <2>1, <3>1, <3>2 DEF Pending
  <2>5. /\ Cardinality(Pending(r)') \in Nat
        /\ Cardinality(Pending(r)') <= Cardinality(Pending(r)) + 1
    <3>1. CASE Pending(r)' = Pending(r)
      BY <3>1, PendingFinite
    <3>2. CASE Pending(r)' = Pending(r) \cup {current}
      <4>1. Cardinality(Pending(r) \cup {current})
              = IF current \in Pending(r) THEN Cardinality(Pending(r))
                ELSE Cardinality(Pending(r)) + 1
        BY PendingFinite, FS_AddElement
      <4> QED
        BY <3>2, <4>1, PendingFinite
    <3> QED
      BY <2>4, <3>1, <3>2
  <2>6. ASSUME NEW q \in Callers
        PROVE  /\ effects[q] + Cardinality(Pending(q)') <= tries'[q]
               /\ Pending(q)' # {} => q \notin Listeners
               /\ verdict'[q] = "done" \/ pc'[q] = "answered" => effects[q] > 0
    <3>1. CASE q = r
      BY <1>0, <2>3, <2>4, <2>5, <3>1, PendingFinite DEF WireInv, TypeOK
    <3>2. CASE q # r
      BY <1>0, <2>2, <3>2 DEF WireInv
    <3> QED
      BY <3>1, <3>2
  <2> QED
    BY <1>0, <2>1, <2>6 DEF WireInv, TypeOK
<1>2. ASSUME NEW r \in Callers, NEW k \in Conns, Execute(r, k)
      PROVE  WireInv' /\ effects' \in [Callers -> Nat]
  <2>1. /\ <<r, k>> \in wire /\ wire' = wire \ {<<r, k>>}
        /\ UNCHANGED <<pc, tries>>
    BY <1>2 DEF Execute, callVars
  <2>2. PICK what \in {"done", "refused"} :
          /\ effects' = IF what = "done" THEN [effects EXCEPT ![r] = @ + 1]
                                         ELSE effects
          /\ verdict' = IF pc[r] = "sent" /\ on[r] = k
                        THEN [verdict EXCEPT ![r] = what] ELSE verdict
    BY <1>2 DEF Execute
  <2>3. /\ Pending(r)' = Pending(r) \ {k} /\ k \in Pending(r)
        /\ \A q \in Callers \ {r} : Pending(q)' = Pending(q)
    BY <2>1 DEF Pending
  <2>4. Cardinality(Pending(r)') = Cardinality(Pending(r)) - 1
    BY <2>3, PendingFinite, FS_RemoveElement
  <2>5. /\ effects'[r] = effects[r] + (IF what = "done" THEN 1 ELSE 0)
        /\ verdict'[r] \in {verdict[r], what}
        /\ \A q \in Callers \ {r} : effects'[q] = effects[q] /\ verdict'[q] = verdict[q]
        /\ effects' \in [Callers -> Nat]
    BY <1>0, <2>2 DEF TypeOK
  <2>6. ASSUME NEW q \in Callers
        PROVE  /\ effects'[q] + Cardinality(Pending(q)') <= tries'[q]
               /\ Pending(q)' # {} => q \notin Listeners
               /\ verdict'[q] = "done" \/ pc'[q] = "answered" => effects'[q] > 0
    <3>1. CASE q = r
      <4>1. effects[r] \in Nat /\ tries[r] \in Nat /\ effects'[r] \in Nat
        BY <1>0, <2>5 DEF TypeOK
      <4>2. effects'[r] + Cardinality(Pending(r)') <= tries'[r]
        BY <1>0, <2>1, <2>4, <2>5, <4>1, PendingFinite DEF WireInv
      <4>3. Pending(r)' # {} => r \notin Listeners
        BY <1>0, <2>3 DEF WireInv
      <4>4. verdict'[r] = "done" \/ pc'[r] = "answered" => effects'[r] > 0
        BY <1>0, <2>1, <2>5, <4>1 DEF WireInv
      <4> QED
        BY <3>1, <4>2, <4>3, <4>4
    <3>2. CASE q # r
      BY <1>0, <2>1, <2>3, <2>5, <3>2 DEF WireInv
    <3> QED
      BY <3>1, <3>2
  <2> QED
    BY <2>5, <2>6 DEF WireInv
<1>3. ASSUME UNCHANGED <<wire, tries, effects, verdict>>,
             \A r \in Callers : pc'[r] = "answered"
                                  => pc[r] = "answered" \/ verdict[r] = "done"
      PROVE  WireInv' /\ effects' \in [Callers -> Nat]
  <2>1. \A r \in Callers : Pending(r)' = Pending(r)
    BY <1>3 DEF Pending
  <2> QED
    BY <1>0, <1>3, <2>1 DEF WireInv, TypeOK
<1>4. CASE UNCHANGED vars
  BY <1>3, <1>4 DEF vars, callVars
<1>5. ASSUME NEW r \in Callers,
             \/ Listen(r) \/ Reply(r) \/ Fails(r) \/ CloseOld(r) \/ Dial(r)
             \/ DialFails(r) \/ Store(r) \/ StreamEnds(r)
      PROVE  WireInv' /\ effects' \in [Callers -> Nat]
  <2>1. UNCHANGED <<wire, tries, effects, verdict>>
    BY <1>5
    DEF Listen, Reply, Fails, CloseOld, Dial, DialFails, Store, StreamEnds, linkVars
  <2>2. \A q \in Callers : pc'[q] = "answered"
                             => pc[q] = "answered" \/ verdict[q] = "done"
    BY <1>0, <1>5
    DEF Listen, Reply, Fails, CloseOld, Dial, DialFails, Store, StreamEnds, GoTo,
        TypeOK
  <2> QED
    BY <1>3, <2>1, <2>2
<1>6. ASSUME NEW k \in Conns, Break(k) PROVE WireInv' /\ effects' \in [Callers -> Nat]
  BY <1>3, <1>6 DEF Break, callVars
<1>7. ASSUME NEW r \in Callers, Call(r) PROVE WireInv' /\ effects' \in [Callers -> Nat]
  BY <1>1, <1>5, <1>7 DEF Call
<1> QED
  BY <1>1, <1>2, <1>4, <1>5, <1>6, <1>7 DEF Next

LEMMA CountStep == CountInv /\ [Next]_vars => CountInv'
<1> SUFFICES ASSUME CountInv, [Next]_vars PROVE CountInv'
  OBVIOUS
<1>0. /\ TypeOK /\ PlaceInv /\ Retriers \subseteq Callers
      /\ Retriers \cap Plain = {}
  BY DEF CountInv, Callers
<1>1. dialled' \in Conns /\ DialInv' /\ WireInv'
  BY DialStep, WireStep
<1>2. /\ effects' \in [Callers -> Nat]
      /\ \A r \in Callers : effects'[r] <= tries'[r] \/ tries'[r] \notin 0 .. 2
  <2>1. effects' \in [Callers -> Nat]
    BY WireStep
  <2>2. \A r \in Callers :
          /\ Cardinality(Pending(r)') \in Nat
          /\ effects'[r] + Cardinality(Pending(r)') <= tries'[r]
    <3>1. ASSUME NEW r \in Callers PROVE Cardinality(Pending(r)') \in Nat
      <4>1. Pending(r)' \subseteq Conns
        BY DEF Pending
      <4> QED
        BY <4>1, Finite, FS_Subset, FS_CardinalityType
    <3> QED
      BY <1>1, <3>1 DEF WireInv
  <2> QED
    BY <2>1, <2>2
<1>3. ASSUME PlaceInv',
             current' \in Conns,
             link' \in [Conns -> {"none", "open", "broken", "closed"}],
             wire' \subseteq Callers \X Conns,
             pc' \in [Callers -> {"idle", "sent", "close", "dial", "store",
                                  "resend"} \cup Returned],
             on' \in [Callers -> Conns \cup {0}],
             fresh' \in [Callers -> Conns \cup {0}],
             tries' \in [Callers -> 0 .. 2],
             verdict' \in [Callers -> {"none", "done", "refused"}],
             raced' \subseteq Callers,
             excused' \subseteq {"break", "setback"}
      PROVE  CountInv'
  <2>1. effects' \in [Callers -> 0 .. 2]
    BY <1>2, <1>3
  <2> QED
    BY <1>1, <1>3, <2>1 DEF CountInv, TypeOK
<1> USE DEF TypeOK, PlaceInv
<1>4. CASE UNCHANGED vars
  BY <1>0, <1>3, <1>4 DEF vars, linkVars, callVars
<1>5. ASSUME NEW r \in Callers, Send(r) PROVE CountInv'
  <2>1. current \in 1 .. dialled
    BY <1>0, Finite
  <2> QED
    BY <1>0, <1>3, <1>5, <2>1 DEF Send, linkVars
<1>6. ASSUME NEW r \in Callers, Listen(r) \/ Reply(r) \/ StreamEnds(r) PROVE CountInv'
  <2>1. CASE Listen(r)
    BY <1>0, <1>3, <2>1 DEF Listen, GoTo, linkVars, Returned
  <2>2. CASE Reply(r)
    BY <1>0, <1>3, <2>2 DEF Reply, GoTo, linkVars, Returned
  <2>3. CASE StreamEnds(r)
    BY <1>0, <1>3, <2>3 DEF StreamEnds, GoTo, linkVars, Returned
  <2> QED
    BY <1>6, <2>1, <2>2, <2>3
<1>7. ASSUME NEW r \in Callers, Fails(r) \/ DialFails(r) PROVE CountInv'
  BY <1>0, <1>3, <1>7 DEF Fails, DialFails, GoTo, Excuse, linkVars, Returned
<1>8. ASSUME NEW r \in Callers, CloseOld(r) PROVE CountInv'
  BY <1>0, <1>3, <1>8 DEF CloseOld, GoTo, Excuse
<1>9. ASSUME NEW r \in Callers, Dial(r) PROVE CountInv'
  <2>1. dialled' = dialled + 1 /\ dialled + 1 \in Conns /\ dialled + 1 \in 2 .. dialled'
    BY <1>0, <1>1, <1>9, Finite DEF Dial
  <2> QED
    BY <1>0, <1>3, <1>9, <2>1, Finite DEF Dial, GoTo
<1>10. ASSUME NEW r \in Callers, Store(r) PROVE CountInv'
  <2>1. fresh[r] \in 2 .. dialled /\ fresh[r] \in Conns
    BY <1>0, <1>10, Finite DEF Store, GoTo
  <2> QED
    BY <1>0, <1>3, <1>10, <2>1, Finite DEF Store, GoTo, Reconnecting
<1>11. ASSUME NEW r \in Callers, NEW k \in Conns, Execute(r, k) PROVE CountInv'
  BY <1>0, <1>3, <1>11 DEF Execute, linkVars, callVars
<1>12. ASSUME NEW k \in Conns, Break(k) PROVE CountInv'
  BY <1>0, <1>3, <1>12 DEF Break, Excuse, callVars
<1>13. ASSUME NEW r \in Callers, Call(r) PROVE CountInv'
  BY <1>5, <1>6, <1>7, <1>8, <1>9, <1>10, <1>13 DEF Call
<1> QED
  BY <1>4, <1>5, <1>6, <1>11, <1>12, <1>13 DEF Next

\* Every variable keeps to its values, and more: a call that reconnects is one
\* that may, for its first attempt; the client has dialled once for each call
\* that has come as far, so that the connections do not run out; and no command
\* is executed more often than it has been sent.
THEOREM TypeCorrect == Spec => []CountInv
  BY CountInit, CountStep, PTL DEF Spec

(***************************************************************************)
(* Reconnects that collide, and retries that help.                         *)
(***************************************************************************)

\* Connections that have not been dialled are not open.
LinkInv == \A k \in Conns : k > dialled => link[k] = "none"

\* What a call failed on is not open and never will be.
FailedInv ==
  \A r \in Callers : pc[r] = "close" => on[r] \in 1 .. dialled /\ link[on[r]] # "open"

\* A call that reconnects has closed the current connection, unless another one
\* has stored its own since.
RaceInv == Reconnecting \subseteq raced \/ link[current] = "closed"

\* Without a setback only the first connection is ever lost: nobody has dialled
\* before that, and whoever has closed it stores another one.
FirstInv ==
  "setback" \notin excused =>
    /\ \A k \in 2 .. dialled : link[k] = "open"
    /\ "break" \notin excused =>
         /\ dialled = 1 /\ link[1] = "open"
         /\ \A r \in Callers : pc[r] \in {"idle", "sent"} \cup Returned /\ tries[r] <= 1
    /\ \A r \in Callers :
         /\ tries[r] = 2 => on[r] >= 2
         /\ pc[r] = "resend" => current >= 2

HealthInv ==
  CountInv /\ LinkInv /\ FailedInv /\ RaceInv /\ FirstInv /\ ReconnectHelps

LEMMA HealthInit == Init => HealthInv
<1> SUFFICES ASSUME Init PROVE HealthInv
  OBVIOUS
<1>1. CountInv
  BY CountInit
<1>2. LinkInv /\ FailedInv /\ RaceInv /\ FirstInv
  BY Finite DEF Init, LinkInv, FailedInv, RaceInv, FirstInv, Reconnecting
<1>3. ReconnectHelps
  BY Finite DEF Init, ReconnectHelps, Retriers, Callers
<1> QED
  BY <1>1, <1>2, <1>3 DEF HealthInv

\* Steps of a call that neither reconnects nor sends, and of the router.
LEMMA HealthFrame ==
  ASSUME HealthInv, CountInv', UNCHANGED <<linkVars, on, fresh, tries, raced>>,
         excused \subseteq excused',
         "break" \in excused' => "break" \in excused,
         \A r \in Callers :
           \/ pc'[r] = pc[r]
           \/ /\ pc[r] \in {"sent", "streaming"} /\ pc'[r] \in Returned
              /\ "setback" \in excused' \/ pc'[r] # "failed"
  PROVE  HealthInv'
<1>1. Reconnecting' = Reconnecting
  BY DEF Reconnecting, Returned
<1>2. UNCHANGED <<current, dialled, link>>
  BY DEF linkVars
<1>3. LinkInv' /\ RaceInv'
  BY <1>1, <1>2 DEF HealthInv, LinkInv, RaceInv
<1>4. FirstInv'
  BY <1>2 DEF HealthInv, FirstInv, Returned
<1>5. FailedInv'
  BY <1>2 DEF HealthInv, FailedInv, Returned
<1>6. ReconnectHelps'
  <2>1. Retriers \subseteq Callers
    BY DEF Callers
  <2> QED
    BY <1>1, <1>2, <2>1 DEF HealthInv, ReconnectHelps
<1> QED
  BY <1>3, <1>4, <1>5, <1>6 DEF HealthInv

LEMMA SendHealth ==
  ASSUME HealthInv, CountInv', NEW r \in Callers, Send(r)
  PROVE  HealthInv'
<1>0. TypeOK /\ PlaceInv
  BY DEF HealthInv, CountInv
<1>1. /\ pc[r] \in {"idle", "resend"}
      /\ pc'[r] = "sent" /\ on'[r] = current /\ tries'[r] = tries[r] + 1
      /\ \A q \in Callers \ {r} : pc'[q] = pc[q] /\ on'[q] = on[q] /\ tries'[q] = tries[q]
      /\ UNCHANGED <<current, dialled, link, fresh, raced, excused>>
  BY <1>0 DEF Send, linkVars, TypeOK
<1>2. Reconnecting' = Reconnecting
  BY <1>1 DEF Reconnecting
<1>3. LinkInv' /\ RaceInv'
  BY <1>1, <1>2 DEF HealthInv, LinkInv, RaceInv
<1>4. FirstInv'
  <2>1. pc[r] = "idle" => tries'[r] = 1
    BY <1>0, <1>1 DEF PlaceInv
  <2>2. "setback" \notin excused /\ pc[r] = "resend" => current >= 2 /\ "break" \in excused
    BY DEF HealthInv, FirstInv, Returned
  <2> QED
    BY <1>1, <2>1, <2>2 DEF HealthInv, FirstInv
<1>5. FailedInv'
  BY <1>1 DEF HealthInv, FailedInv
<1>6. ReconnectHelps'
  BY <1>1, <1>2 DEF HealthInv, ReconnectHelps, Callers
<1> QED
  BY <1>3, <1>4, <1>5, <1>6 DEF HealthInv

\* The second attempt of a call cannot fail without a setback, because it is
\* made on a connection that was dialled; nor can the first, before a break.
LEMMA FailsHealth ==
  ASSUME HealthInv, CountInv', NEW r \in Callers, Fails(r)
  PROVE  HealthInv'
<1>0. TypeOK /\ PlaceInv
  BY DEF HealthInv, CountInv
<1>1. /\ pc[r] = "sent" /\ link[on[r]] # "open"
      /\ UNCHANGED <<current, dialled, link, on, fresh, tries, raced>>
  BY DEF Fails, linkVars
<1>2. "setback" \notin excused => "break" \in excused /\ ~(on[r] >= 2)
  BY <1>0, <1>1, Finite DEF HealthInv, FirstInv, PlaceInv, TypeOK
<1>3. CASE /\ r \in Retriers /\ tries[r] = 1
           /\ GoTo(r, "sent", "close")
           /\ UNCHANGED excused
  <2>1. pc'[r] = "close" /\ \A q \in Callers \ {r} : pc'[q] = pc[q]
    BY <1>0, <1>3 DEF GoTo, TypeOK
  <2>2. Reconnecting' = Reconnecting
    BY <1>1, <2>1 DEF Reconnecting
  <2>3. LinkInv' /\ RaceInv'
    BY <1>1, <1>3, <2>2 DEF HealthInv, LinkInv, RaceInv
  <2>4. FirstInv'
    BY <1>1, <1>2, <1>3, <2>1 DEF HealthInv, FirstInv
  <2>5. FailedInv'
    BY <1>0, <1>1, <2>1 DEF HealthInv, FailedInv, PlaceInv
  <2>6. ReconnectHelps'
    BY <1>1, <1>3, <2>1, <2>2 DEF HealthInv, ReconnectHelps, Callers
  <2> QED
    BY <2>3, <2>4, <2>5, <2>6 DEF HealthInv
<1>4. CASE /\ r \in Retriers => tries[r] = 2
           /\ GoTo(r, "sent", "failed")
           /\ UNCHANGED excused
  <2>1. pc'[r] = "failed" /\ \A q \in Callers \ {r} : pc'[q] = pc[q]
    BY <1>0, <1>4 DEF GoTo, TypeOK
  <2>2. Reconnecting' = Reconnecting
    BY <1>1, <2>1 DEF Reconnecting
  <2>3. LinkInv' /\ RaceInv'
    BY <1>1, <1>4, <2>2 DEF HealthInv, LinkInv, RaceInv
  <2>4. FirstInv'
    BY <1>1, <1>2, <1>4, <2>1 DEF HealthInv, FirstInv
  <2>5. FailedInv'
    BY <1>1, <2>1 DEF HealthInv, FailedInv
  <2>6. ReconnectHelps'
    <3>1. "setback" \notin excused /\ tries[r] = 2 => on[r] >= 2
      BY DEF HealthInv, FirstInv
    <3>2. "setback" \notin excused => r \notin Retriers
      BY <1>2, <1>4, <3>1
    <3> QED
      BY <1>1, <1>4, <2>1, <2>2, <3>2 DEF HealthInv, ReconnectHelps, Callers
  <2> QED
    BY <2>3, <2>4, <2>5, <2>6 DEF HealthInv
<1>5. CASE /\ GoTo(r, "sent", "failed")
           /\ Excuse("setback")
  BY <1>0, <1>5, HealthFrame DEF Fails, GoTo, Excuse, TypeOK, Returned
<1> QED
  BY <1>3, <1>4, <1>5 DEF Fails

LEMMA CloseHealth ==
  ASSUME HealthInv, CountInv', NEW r \in Callers, CloseOld(r)
  PROVE  HealthInv'
<1>0. TypeOK /\ PlaceInv /\ current \in 1 .. dialled
  BY Finite DEF HealthInv, CountInv, PlaceInv, TypeOK
<1>1. /\ pc[r] = "close" /\ pc'[r] = "dial"
      /\ \A q \in Callers \ {r} : pc'[q] = pc[q]
      /\ link' = [link EXCEPT ![current] = "closed"]
      /\ link'[current] = "closed"
      /\ \A k \in Conns \ {current} : link'[k] = link[k]
      /\ UNCHANGED <<current, dialled, on, fresh, tries, raced>>
  BY <1>0 DEF CloseOld, GoTo, TypeOK
<1>2. /\ excused \subseteq excused'
      /\ "break" \in excused' => "break" \in excused
      /\ "setback" \notin excused' => link[current] # "open"
  BY DEF CloseOld, Excuse
<1>3. Reconnecting' = Reconnecting \cup {r}
  BY <1>1 DEF Reconnecting
<1>4. LinkInv'
  BY <1>0, <1>1 DEF HealthInv, LinkInv, TypeOK
<1>5. RaceInv'
  BY <1>1 DEF RaceInv
<1>6. FirstInv'
  <2> SUFFICES ASSUME "setback" \notin excused' PROVE FirstInv'
    BY DEF FirstInv
  <2>1. FirstInv /\ "setback" \notin excused
    BY <1>2 DEF HealthInv
  <2>2. current = 1 /\ "break" \in excused
    BY <1>0, <1>1, <1>2, <2>1 DEF FirstInv, Returned
  <2>3. \A k \in 2 .. dialled : link'[k] = "open"
    BY <1>0, <1>1, <2>1, <2>2 DEF FirstInv, TypeOK, Conns
  <2> QED
    BY <1>1, <1>2, <2>1, <2>2, <2>3 DEF FirstInv
<1>7. FailedInv'
  BY <1>0, <1>1 DEF HealthInv, FailedInv, TypeOK
<1>8. ReconnectHelps'
  BY <1>1, <1>2, <1>3 DEF HealthInv, ReconnectHelps, Callers
<1> QED
  BY <1>4, <1>5, <1>6, <1>7, <1>8 DEF HealthInv

LEMMA DialHealth ==
  ASSUME HealthInv, CountInv', NEW r \in Callers, Dial(r)
  PROVE  HealthInv'
<1>0. TypeOK /\ PlaceInv /\ current \in 1 .. dialled /\ dialled' \in Conns
  BY Finite DEF HealthInv, CountInv, PlaceInv, TypeOK
<1>1. /\ pc[r] = "dial" /\ pc'[r] = "store" /\ fresh'[r] = dialled'
      /\ \A q \in Callers \ {r} : pc'[q] = pc[q] /\ fresh'[q] = fresh[q]
      /\ dialled' = dialled + 1 /\ link'[dialled'] = "open"
      /\ \A k \in Conns \ {dialled'} : link'[k] = link[k]
      /\ UNCHANGED <<current, on, tries, raced, excused>>
  BY <1>0 DEF Dial, GoTo, TypeOK
<1>2. Reconnecting' = Reconnecting /\ r \in Reconnecting
  BY <1>1 DEF Reconnecting
<1>3. current \in Conns /\ current # dialled' /\ dialled \in Nat
  BY <1>0, <1>1, Finite DEF TypeOK
<1>4. LinkInv'
  BY <1>0, <1>1, <1>3, Finite DEF HealthInv, LinkInv
<1>5. RaceInv'
  BY <1>1, <1>2, <1>3 DEF HealthInv, RaceInv
<1>6. FirstInv'
  <2> SUFFICES ASSUME "setback" \notin excused PROVE FirstInv'
    BY <1>1 DEF FirstInv
  <2>1. FirstInv /\ "break" \in excused
    BY <1>1 DEF HealthInv, FirstInv, Returned
  <2>2. \A k \in 2 .. dialled' : link'[k] = "open"
    <3>1. 2 .. dialled' \subseteq Conns
      BY <1>0, Finite DEF Conns
    <3>2. \A k \in 2 .. dialled' : k = dialled' \/ k \in 2 .. dialled
      BY <1>1, <1>3
    <3> QED
      BY <1>1, <2>1, <3>1, <3>2 DEF FirstInv
  <2> QED
    BY <1>1, <2>1, <2>2 DEF FirstInv
<1>7. FailedInv'
  <2> SUFFICES ASSUME NEW q \in Callers, pc'[q] = "close"
               PROVE  on'[q] \in 1 .. dialled' /\ link'[on'[q]] # "open"
    BY DEF FailedInv
  <2>1. on[q] \in 1 .. dialled /\ link[on[q]] # "open"
    BY <1>1 DEF HealthInv, FailedInv
  <2>2. on[q] \in Conns /\ on[q] # dialled'
    BY <1>0, <1>1, <1>3, <2>1 DEF Conns, TypeOK
  <2> QED
    BY <1>1, <1>3, <2>1, <2>2
<1>8. ReconnectHelps'
  BY <1>1, <1>2, <1>3 DEF HealthInv, ReconnectHelps, Callers
<1> QED
  BY <1>4, <1>5, <1>6, <1>7, <1>8 DEF HealthInv

LEMMA DialFailsHealth ==
  ASSUME HealthInv, CountInv', NEW r \in Callers, DialFails(r)
  PROVE  HealthInv'
<1>0. TypeOK /\ "setback" \in excused' /\ excused \subseteq excused'
  BY DEF HealthInv, CountInv, DialFails, Excuse
<1>1. /\ pc[r] = "dial" /\ pc'[r] = "failed"
      /\ \A q \in Callers \ {r} : pc'[q] = pc[q]
      /\ UNCHANGED <<current, dialled, link, on, fresh, tries, raced>>
  BY <1>0 DEF DialFails, GoTo, linkVars, TypeOK
<1>2. Reconnecting' \subseteq Reconnecting
  BY <1>1 DEF Reconnecting
<1>3. LinkInv' /\ RaceInv'
  BY <1>0, <1>1, <1>2 DEF HealthInv, LinkInv, RaceInv
<1>4. FirstInv' /\ ReconnectHelps'
  BY <1>0 DEF FirstInv, ReconnectHelps
<1>5. FailedInv'
  BY <1>1 DEF HealthInv, FailedInv
<1> QED
  BY <1>3, <1>4, <1>5 DEF HealthInv

LEMMA StoreHealth ==
  ASSUME HealthInv, CountInv', NEW r \in Callers, Store(r)
  PROVE  HealthInv'
<1>0. TypeOK /\ PlaceInv
  BY DEF HealthInv, CountInv
<1>1. /\ pc[r] = "store" /\ pc'[r] = "resend" /\ current' = fresh[r]
      /\ \A q \in Callers \ {r} : pc'[q] = pc[q] /\ fresh'[q] = fresh[q]
      /\ UNCHANGED <<dialled, link, on, tries, excused>>
  BY <1>0 DEF Store, GoTo, TypeOK
<1>2. fresh[r] \in 2 .. dialled
  BY <1>0, <1>1 DEF PlaceInv
<1>3. Reconnecting' = Reconnecting \ {r} /\ r \in Reconnecting
  BY <1>1 DEF Reconnecting
<1>4. LinkInv'
  BY <1>1 DEF HealthInv, LinkInv
<1>5. RaceInv'
  BY <1>3 DEF Store, RaceInv
<1>6. FirstInv'
  BY <1>1, <1>2 DEF HealthInv, FirstInv, Returned
<1>7. FailedInv'
  BY <1>1 DEF HealthInv, FailedInv
<1>8. ReconnectHelps'
  <2>1. "setback" \notin excused => link[fresh[r]] = "open"
    BY <1>2 DEF HealthInv, FirstInv
  <2> QED
    BY <1>1, <2>1 DEF HealthInv, ReconnectHelps, Callers
<1> QED
  BY <1>4, <1>5, <1>6, <1>7, <1>8 DEF HealthInv

LEMMA BreakHealth ==
  ASSUME HealthInv, CountInv', NEW k \in Conns, Break(k)
  PROVE  HealthInv'
<1>0. TypeOK /\ PlaceInv
  BY DEF HealthInv, CountInv
<1>1. /\ link[k] = "open" /\ link'[k] = "broken"
      /\ \A j \in Conns \ {k} : link'[j] = link[j]
      /\ UNCHANGED <<current, dialled, pc, on, fresh, tries, raced>>
  BY <1>0 DEF Break, callVars, TypeOK
<1>2. /\ excused \subseteq excused'
      /\ "break" \in excused => "setback" \in excused'
      /\ "break" \notin excused => "break" \in excused'
  BY DEF Break, Excuse
<1>3. Reconnecting' = Reconnecting
  BY <1>1 DEF Reconnecting
<1>4. LinkInv' /\ RaceInv'
  BY <1>0, <1>1, <1>3 DEF HealthInv, LinkInv, RaceInv, TypeOK
<1>5. FirstInv'
  <2> SUFFICES ASSUME "setback" \notin excused' PROVE FirstInv'
    BY DEF FirstInv
  <2>1. FirstInv /\ "setback" \notin excused /\ "break" \notin excused
    BY <1>2 DEF HealthInv
  <2>2. dialled' = 1 /\ "break" \in excused'
    BY <1>1, <1>2, <2>1 DEF FirstInv
  <2> QED
    BY <1>1, <2>1, <2>2 DEF FirstInv
<1>6. FailedInv'
  BY <1>0, <1>1 DEF HealthInv, FailedInv, TypeOK, Conns
<1>7. ReconnectHelps'
  BY <1>0, <1>1, <1>2, <1>3 DEF HealthInv, ReconnectHelps, TypeOK
<1> QED
  BY <1>4, <1>5, <1>6, <1>7 DEF HealthInv

LEMMA HealthStep == HealthInv /\ [Next]_vars => HealthInv'
<1> SUFFICES ASSUME HealthInv, [Next]_vars PROVE HealthInv'
  OBVIOUS
<1>0. CountInv' /\ TypeOK
  BY CountStep DEF HealthInv, CountInv
<1>1. CASE UNCHANGED vars
  BY <1>0, <1>1, HealthFrame DEF vars, callVars
<1>2. ASSUME NEW r \in Callers, Listen(r) \/ Reply(r) \/ StreamEnds(r) PROVE HealthInv'
  BY <1>0, <1>2, HealthFrame DEF Listen, Reply, StreamEnds, GoTo, Returned, TypeOK
<1>3. ASSUME NEW r \in Callers, NEW k \in Conns, Execute(r, k) PROVE HealthInv'
  BY <1>0, <1>3, HealthFrame DEF Execute, callVars
<1>4. ASSUME NEW r \in Callers, Send(r) PROVE HealthInv'
  BY <1>0, <1>4, SendHealth
<1>5. ASSUME NEW r \in Callers, Call(r) PROVE HealthInv'
  BY <1>0, <1>2, <1>4, <1>5, FailsHealth, CloseHealth, DialHealth, DialFailsHealth,
     StoreHealth DEF Call
<1>6. ASSUME NEW k \in Conns, Break(k) PROVE HealthInv'
  BY <1>0, <1>6, BreakHealth
<1> QED
  BY <1>1, <1>2, <1>3, <1>4, <1>5, <1>6 DEF Next

\* What the two properties of reconnects rest on, together with the second of them.
THEOREM HealthCorrect == Spec => []HealthInv
  BY HealthInit, HealthStep, PTL DEF Spec

LEMMA HarmStep ==
  ASSUME HealthInv, [Next]_vars
  PROVE  /\ \A k \in Conns :
              link[k] = "open" /\ link'[k] = "closed" =>
                \E r \in Retriers : pc[r] = "close" /\ pc'[r] = "dial" /\ on[r] # k
         /\ ~(Forgotten' \subseteq Forgotten) =>
              \E r \in raced : pc[r] = "store" /\ pc'[r] = "resend"
<1> DEFINE Harm ==
      /\ \A k \in Conns :
           link[k] = "open" /\ link'[k] = "closed" =>
             \E r \in Retriers : pc[r] = "close" /\ pc'[r] = "dial" /\ on[r] # k
      /\ ~(Forgotten' \subseteq Forgotten) =>
           \E r \in raced : pc[r] = "store" /\ pc'[r] = "resend"
<1>0. TypeOK /\ PlaceInv
  BY DEF HealthInv, CountInv
<1>1. ASSUME UNCHANGED <<current, link, fresh>>,
             \A r \in Callers : pc[r] = "store" => pc'[r] = "store"
      PROVE  Harm
  BY <1>1 DEF Forgotten
<1>2. CASE UNCHANGED vars
  BY <1>1, <1>2 DEF vars, linkVars, callVars
<1>3. ASSUME NEW r \in Callers,
             \/ Send(r) \/ Listen(r) \/ Reply(r) \/ Fails(r) \/ DialFails(r)
             \/ StreamEnds(r)
      PROVE  Harm
  <2>1. UNCHANGED <<current, link, fresh>>
    BY <1>3 DEF Send, Listen, Reply, Fails, DialFails, StreamEnds, linkVars
  <2>2. \A q \in Callers : pc[q] = "store" => pc'[q] = "store"
    BY <1>0, <1>3 DEF Send, Listen, Reply, Fails, DialFails, StreamEnds, GoTo, TypeOK
  <2> QED
    BY <1>1, <2>1, <2>2
<1>4. ASSUME NEW r \in Callers, CloseOld(r) PROVE Harm
  <2>1. /\ pc[r] = "close" /\ pc'[r] = "dial" /\ r \in Retriers
        /\ \A q \in Callers \ {r} : pc'[q] = pc[q]
        /\ \A k \in Conns : link'[k] = IF k = current THEN "closed" ELSE link[k]
        /\ UNCHANGED <<current, fresh>>
    BY <1>0, <1>4 DEF CloseOld, GoTo, TypeOK, PlaceInv
  <2>2. link[on[r]] # "open"
    BY <2>1 DEF HealthInv, FailedInv
  <2>3. Forgotten' \subseteq Forgotten
    BY <2>1 DEF Forgotten
  <2> QED
    BY <2>1, <2>2, <2>3
<1>5. ASSUME NEW r \in Callers, Dial(r) PROVE Harm
  <2>1. /\ pc[r] = "dial" /\ pc'[r] = "store" /\ fresh'[r] = dialled + 1
        /\ \A q \in Callers \ {r} : pc'[q] = pc[q] /\ fresh'[q] = fresh[q]
        /\ \A k \in Conns : link'[k] = IF k = dialled + 1 THEN "open" ELSE link[k]
        /\ UNCHANGED current
    BY <1>0, <1>5 DEF Dial, GoTo, TypeOK
  <2>2. Forgotten' \subseteq Forgotten
    BY <2>1 DEF Forgotten
  <2> QED
    BY <2>1, <2>2
<1>6. ASSUME NEW r \in Callers, Store(r) PROVE Harm
  <2>1. /\ pc[r] = "store" /\ pc'[r] = "resend" /\ current' = fresh[r]
        /\ \A q \in Callers \ {r} : pc'[q] = pc[q] /\ fresh'[q] = fresh[q]
        /\ UNCHANGED link
    BY <1>0, <1>6 DEF Store, GoTo, TypeOK
  <2>2. r \notin raced => link[current] = "closed"
    BY <2>1 DEF HealthInv, RaceInv, Reconnecting
  <2>3. r \notin raced => Forgotten' \subseteq Forgotten
    BY <2>1, <2>2 DEF Forgotten
  <2> QED
    BY <2>1, <2>3
<1>7. ASSUME NEW r \in Callers, NEW k \in Conns, Execute(r, k) PROVE Harm
  BY <1>1, <1>7 DEF Execute, linkVars, callVars
<1>8. ASSUME NEW k \in Conns, Break(k) PROVE Harm
  <2>1. /\ \A j \in Conns : link'[j] = IF j = k THEN "broken" ELSE link[j]
        /\ UNCHANGED <<current, pc, fresh>>
    BY <1>0, <1>8 DEF Break, callVars, TypeOK
  <2> QED
    BY <2>1 DEF Forgotten
<1> QED
  BY <1>2, <1>3, <1>4, <1>5, <1>6, <1>7, <1>8 DEF Next, Call

\* A healthy connection is closed only by a call that failed on another one, and
\* forgotten only by a call during whose reconnect another one was stored: there
\* is no other way to lose a connection.
THEOREM HarmCorrect == Spec => HarmIsOverlap
<1>1. HealthInv /\ [Next]_vars =>
        [/\ \A k \in Conns :
              link[k] = "open" /\ link'[k] = "closed" =>
                \E r \in Retriers : pc[r] = "close" /\ pc'[r] = "dial" /\ on[r] # k
         /\ ~(Forgotten' \subseteq Forgotten) =>
              \E r \in raced : pc[r] = "store" /\ pc'[r] = "resend"]_vars
  BY HarmStep
<1> QED
  BY <1>1, HealthCorrect, PTL DEF Spec, HarmIsOverlap

\* Without a setback, no call that retries fails, and a closed connection is
\* about to be replaced.
THEOREM ReconnectCorrect == Spec => []ReconnectHelps
<1>1. HealthInv => ReconnectHelps
  BY DEF HealthInv
<1> QED
  BY <1>1, HealthCorrect, PTL

(***************************************************************************)
(* The refinement of RouterCalls.                                          *)
(***************************************************************************)
LEMMA CallsInit == Init => Calls!Init
  BY DEF Init, Calls!Init, outcome, Callers, Retriers

\* The outcome of a command changes only when its call returns.
LEMMA OutcomeFrame ==
  ASSUME NEW r \in Callers, \A q \in Callers \ {r} : pc'[q] = pc[q],
         r \in Listeners \/ (pc[r] \notin Returned /\ pc'[r] \notin Returned)
  PROVE  outcome' = outcome
<1>1. \A q \in Runners \cup Plain : q \in Callers
  BY DEF Callers, Retriers
<1>2. r \in Listeners => r \notin Runners \cup Plain
  BY DEF Retriers
<1> QED
  BY <1>1, <1>2 DEF outcome, Returned

LEMMA CallsStep == CountInv /\ [Next]_vars => [Calls!Next]_(Calls!vars)
<1> SUFFICES ASSUME CountInv, [Next]_vars PROVE [Calls!Next]_(Calls!vars)
  OBVIOUS
<1> DEFINE commands == Runners \cup Plain
           executed == [r \in commands |-> effects[r]]
<1>0. TypeOK /\ PlaceInv /\ WireInv /\ commands \subseteq Callers
  BY DEF CountInv, Callers, Retriers
<1>1. ASSUME outcome' = outcome, effects' = effects PROVE UNCHANGED Calls!vars
  BY <1>1 DEF Calls!vars
<1>2. CASE UNCHANGED vars
  BY <1>1, <1>2 DEF vars, callVars, outcome
<1>3. ASSUME NEW r \in Callers, Send(r) \/ CloseOld(r) \/ Dial(r) \/ Store(r)
      PROVE  UNCHANGED Calls!vars
  <2>1. /\ effects' = effects /\ \A q \in Callers \ {r} : pc'[q] = pc[q]
        /\ pc[r] \notin Returned /\ pc'[r] \notin Returned
    BY <1>0, <1>3 DEF Send, CloseOld, Dial, Store, GoTo, TypeOK, Returned
  <2> QED
    BY <1>1, <2>1, OutcomeFrame
<1>4. ASSUME NEW r \in Callers, Listen(r) PROVE UNCHANGED Calls!vars
  <2>1. /\ effects' = effects /\ \A q \in Callers \ {r} : pc'[q] = pc[q]
        /\ r \in Listeners
    BY <1>0, <1>4 DEF Listen, GoTo, TypeOK
  <2> QED
    BY <1>1, <2>1, OutcomeFrame
<1>5. ASSUME NEW r \in Callers, StreamEnds(r) PROVE UNCHANGED Calls!vars
  <2>1. /\ effects' = effects /\ \A q \in Callers \ {r} : pc'[q] = pc[q]
        /\ pc[r] = "streaming" /\ pc'[r] = "ended"
    BY <1>0, <1>5 DEF StreamEnds, GoTo, TypeOK
  <2>2. outcome' = outcome
    BY <1>0, <2>1 DEF outcome
  <2> QED
    BY <1>1, <2>1, <2>2
<1>6. ASSUME NEW r \in Callers, r \notin commands, Reply(r) \/ Fails(r) \/ DialFails(r)
      PROVE  UNCHANGED Calls!vars
  <2>1. effects' = effects /\ \A q \in Callers \ {r} : pc'[q] = pc[q]
    BY <1>0, <1>6 DEF Reply, Fails, DialFails, GoTo, TypeOK
  <2>2. outcome' = outcome
    BY <1>0, <1>6, <2>1 DEF outcome
  <2> QED
    BY <1>1, <2>1, <2>2
<1>7. ASSUME NEW r \in commands, effects' = effects,
             \A q \in Callers \ {r} : pc'[q] = pc[q],
             pc[r] \notin Returned, pc'[r] \in {"failed", "refused"}
      PROVE  Calls!Fail(r)
  <2>1. /\ outcome[r] = "none" /\ outcome'[r] = "error"
        /\ \A q \in commands \ {r} : outcome'[q] = outcome[q]
    BY <1>0, <1>7 DEF outcome, Returned
  <2>2. outcome' = [outcome EXCEPT ![r] = "error"]
    BY <2>1 DEF outcome
  <2> QED
    BY <1>7, <2>1, <2>2 DEF Calls!Fail
<1>8. ASSUME NEW r \in commands, Reply(r) PROVE Calls!Next
  <2>1. /\ effects' = effects /\ \A q \in Callers \ {r} : pc'[q] = pc[q]
        /\ pc[r] = "sent"
        /\ pc'[r] = IF verdict[r] = "done" THEN "answered" ELSE "refused"
    BY <1>0, <1>8 DEF Reply, GoTo, TypeOK
  <2>2. CASE verdict[r] = "done"
    <3>1. effects[r] > 0
      BY <1>0, <2>2 DEF WireInv
    <3>2. /\ outcome[r] = "none" /\ outcome'[r] = "ok"
          /\ \A q \in commands \ {r} : outcome'[q] = outcome[q]
      BY <1>0, <2>1, <2>2 DEF outcome
    <3>3. outcome' = [outcome EXCEPT ![r] = "ok"]
      BY <3>2 DEF outcome
    <3>4. Calls!Succeed(r)
      BY <2>1, <3>1, <3>2, <3>3 DEF Calls!Succeed
    <3> QED
      BY <3>4 DEF Calls!Next
  <2>3. CASE verdict[r] # "done"
    <3>1. Calls!Fail(r)
      BY <1>7, <2>1, <2>3 DEF Returned
    <3> QED
      BY <3>1 DEF Calls!Next
  <2> QED
    BY <2>2, <2>3
<1>9. ASSUME NEW r \in commands, Fails(r) \/ DialFails(r)
      PROVE  Calls!Next \/ UNCHANGED Calls!vars
  <2>1. /\ effects' = effects /\ \A q \in Callers \ {r} : pc'[q] = pc[q]
        /\ pc[r] \in {"sent", "dial"} /\ pc'[r] \in {"close", "failed"}
    BY <1>0, <1>9 DEF Fails, DialFails, GoTo, TypeOK
  <2>2. CASE pc'[r] = "failed"
    <3>1. Calls!Fail(r)
      BY <1>7, <2>1, <2>2 DEF Returned
    <3> QED
      BY <3>1 DEF Calls!Next
  <2>3. CASE pc'[r] = "close"
    BY <1>0, <1>1, <2>1, <2>3, OutcomeFrame DEF Returned
  <2> QED
    BY <2>1, <2>2, <2>3
<1>10. ASSUME NEW r \in Callers, NEW k \in Conns, Execute(r, k)
       PROVE  Calls!Next \/ UNCHANGED Calls!vars
  <2>1. outcome' = outcome /\ k \in Pending(r)
    BY <1>10 DEF Execute, callVars, outcome, Pending
  <2>2. PICK what \in {"done", "refused"} :
          effects' = IF what = "done" THEN [effects EXCEPT ![r] = @ + 1]
                                      ELSE effects
    BY <1>10 DEF Execute
  <2>3. CASE what = "refused"
    BY <1>1, <2>1, <2>2, <2>3
  <2>4. CASE what = "done"
    <3>1. r \in commands
      BY <1>0, <2>1 DEF WireInv, Callers, Retriers
    <3>2. effects[r] < Calls!MaxEffects(r)
      <4>1. Cardinality(Pending(r)) \in Nat /\ Cardinality(Pending(r)) # 0
        BY <2>1, PendingFinite, FS_EmptySet
      <4>2. /\ effects[r] \in Nat /\ effects[r] + Cardinality(Pending(r)) <= tries[r]
            /\ tries[r] \in 0 .. 2 /\ (r \in Plain => tries[r] <= 1)
        BY <1>0 DEF WireInv, PlaceInv, TypeOK
      <4> QED
        BY <3>1, <4>1, <4>2 DEF Calls!MaxEffects
    <3>3. executed' = [executed EXCEPT ![r] = @ + 1]
      BY <1>0, <2>2, <2>4, <3>1 DEF TypeOK
    <3>4. Calls!Effect(r)
      BY <2>1, <3>1, <3>2, <3>3 DEF Calls!Effect
    <3> QED
      BY <3>1, <3>4 DEF Calls!Next
  <2> QED
    BY <2>3, <2>4
<1>11. ASSUME NEW k \in Conns, Break(k) PROVE UNCHANGED Calls!vars
  BY <1>1, <1>11 DEF Break, callVars, outcome
<1>12. ASSUME NEW r \in Callers, Call(r) PROVE Calls!Next \/ UNCHANGED Calls!vars
  BY <1>3, <1>4, <1>6, <1>8, <1>9, <1>12 DEF Call
<1> QED
  BY <1>2, <1>3, <1>5, <1>10, <1>11, <1>12 DEF Next

\* Commands are executed at most as often as RouterCalls says, and a call that
\* succeeds has been executed.
THEOREM Implementation == Spec => ImplementsRouterCalls
  BY CallsInit, CallsStep, TypeCorrect, PTL
  DEF Spec, ImplementsRouterCalls, Calls!Spec
=============================================================================
