--------------------------- MODULE PPPoEEventsProofs ---------------------------
(***************************************************************************)
(* Proofs about PPPoEEvents for any customers, callbacks and addresses.    *)
(***************************************************************************)
EXTENDS PPPoEEvents, TLAPS

USE PPPoEEventsAssumption

(***************************************************************************)
(* Types.                                                                  *)
(***************************************************************************)
LEMMA TypeInit == Init => TypeOK
  BY DEF Init, TypeOK, MaybeAddress

\* The step of a callback that goes on keeps the types of the callbacks.
LEMMA StepTypes ==
  ASSUME TypeOK, NEW k \in Callbacks, NEW from,
         NEW to \in {"find", "update", "publish"}, Step(k, from, to)
  PROVE  calls' \in [Callbacks -> Call \cup {None}]
<1>1. calls[k] \in Call /\ calls' = [calls EXCEPT ![k] = [calls[k] EXCEPT !.at = to]]
  BY DEF Step, At, TypeOK
<1>2. [calls[k] EXCEPT !.at = to] \in Call
  BY <1>1 DEF Call
<1> HIDE DEF Call
<1> QED
  BY <1>1, <1>2 DEF TypeOK

LEMMA AnswerTypes ==
  ASSUME TypeOK, NEW k \in Callbacks, NEW from, Answer(k, from)
  PROVE  calls' \in [Callbacks -> Call \cup {None}]
  BY DEF Answer, TypeOK

\* What is excused of one customer is no excuse for the others.
LEMMA Excused ==
  ASSUME TypeOK, NEW c \in Customers, NEW why \in {"fault", "overlap", "create"},
         Excuse(c, why)
  PROVE  /\ excused' \in [Customers -> SUBSET {"fault", "overlap", "create"}]
         /\ excused'[c] # {}
         /\ \A d \in Customers \ {c} : excused'[d] = excused[d]
  BY DEF Excuse, TypeOK

\* The customer of a callback.
LEMMA CallUser ==
  ASSUME TypeOK, NEW k \in Callbacks, calls[k] # None
  PROVE  calls[k].user \in Customers
  BY DEF TypeOK, Call

\* So does the arrival of a new one.
LEMMA PostTypes ==
  ASSUME TypeOK, NEW k \in Callbacks, NEW c \in Customers,
         NEW a \in MaybeAddress, Post(k, c, a)
  PROVE  /\ calls' \in [Callbacks -> Call \cup {None}]
         /\ excused' \in [Customers -> SUBSET {"fault", "overlap", "create"}]
<1>1. [user |-> c, ip |-> a, at |-> "find"] \in Call
  BY DEF Call
<1> HIDE DEF Call
<1>2. excused' \in [Customers -> SUBSET {"fault", "overlap", "create"}]
  BY Excused DEF Post, TypeOK
<1> QED
  BY <1>1, <1>2 DEF Post, TypeOK

\* The row that a callback updates has its status, and its address if it
\* brings one.
LEMMA UpdatedRow ==
  ASSUME TypeOK, NEW k \in Callbacks, UpdateStatus(k)
  PROVE  /\ calls[k].user \in Customers /\ rows[calls[k].user] # None
         /\ \E row \in Row :
              /\ row.status = StatusOf(calls[k])
              /\ row.ip = IF calls[k].ip = None THEN rows[calls[k].user].ip
                                                ELSE calls[k].ip
              /\ rows' = [rows EXCEPT ![calls[k].user] = row]
<1> DEFINE call == calls[k]
           ip   == IF call.ip = None THEN rows[call.user].ip ELSE call.ip
           row  == [[rows[call.user] EXCEPT !.status = StatusOf(call)]
                      EXCEPT !.ip = ip]
<1>1. /\ call.user \in Customers /\ call.ip \in MaybeAddress
      /\ rows[call.user] \in Row
  BY DEF UpdateStatus, Step, At, Exists, TypeOK, Call
<1>2. row \in Row /\ row.status = StatusOf(call) /\ row.ip = ip
  <2>1. ip \in MaybeAddress /\ StatusOf(call) \in {"active", "inactive"}
    BY <1>1 DEF Row, StatusOf
  <2> HIDE DEF ip
  <2> QED
    BY <1>1, <2>1 DEF Row
<1>3. rows' = [rows EXCEPT
                 ![call.user].status = StatusOf(call),
                 ![call.user].ip = IF call.ip = None THEN @ ELSE call.ip]
  BY DEF UpdateStatus
<1>4. rows' = [rows EXCEPT ![call.user] = row]
  BY <1>1, <1>3 DEF TypeOK, Row
<1>5. rows[call.user] # None
  BY DEF UpdateStatus, Exists
<1> HIDE DEF row, ip
<1>6. \E r \in Row :
        /\ r.status = StatusOf(call) /\ r.ip = ip
        /\ rows' = [rows EXCEPT ![call.user] = r]
  BY <1>2, <1>4
<1> QED
  BY <1>1, <1>5, <1>6 DEF ip

LEMMA TypeStep == TypeOK /\ [Next]_vars => TypeOK'
<1> SUFFICES ASSUME TypeOK, [Next]_vars PROVE TypeOK'
  OBVIOUS
<1>1. CASE UNCHANGED vars
  BY <1>1 DEF vars, TypeOK
<1>2. ASSUME NEW k \in Callbacks, Router(k) PROVE TypeOK'
  <2>1. PICK c \in Customers : SessionUp(k, c) \/ SessionDown(k, c)
    BY <1>2 DEF Router
  <2>2. PICK a \in MaybeAddress : Post(k, c, a) /\ session' = [session EXCEPT ![c] = a]
    BY <2>1 DEF SessionUp, SessionDown, MaybeAddress
  <2> QED
    BY <2>1, <2>2, PostTypes DEF SessionUp, SessionDown, TypeOK
<1>3. ASSUME NEW k \in Callbacks, Lost(k) PROVE TypeOK'
  BY <1>3, AnswerTypes, Excused, CallUser DEF Lost, Answer, At, TypeOK
<1>4. ASSUME NEW k \in Callbacks, Handler(k) PROVE TypeOK'
  <2>1. CASE FindUser(k)
    BY <2>1, AnswerTypes, StepTypes DEF FindUser, TypeOK
  <2>2. CASE UpdateStatus(k)
    <3>1. calls' \in [Callbacks -> Call \cup {None}]
      BY <2>2, StepTypes DEF UpdateStatus
    <3>2. rows' \in [Customers -> Row \cup {None}]
      BY <2>2, UpdatedRow DEF TypeOK
    <3> QED
      BY <2>2, <3>1, <3>2 DEF UpdateStatus, TypeOK
  <2>3. CASE UpdateFails(k)
    BY <2>3, AnswerTypes, Excused, CallUser DEF UpdateFails, Answer, At, TypeOK
  <2>4. CASE Publish(k)
    <3> DEFINE event == [status |-> IF calls[k].ip = None THEN "disconnected"
                                                          ELSE "connected",
                         ip |-> calls[k].ip]
    <3>1. event \in Event /\ calls[k].user \in Customers
      BY <2>4 DEF Publish, Answer, At, TypeOK, Call, Event
    <3>2. told' = [told EXCEPT ![calls[k].user] = event]
      BY <2>4 DEF Publish
    <3> HIDE DEF event, Event
    <3> QED
      BY <2>4, <3>1, <3>2, AnswerTypes DEF Publish, TypeOK
  <2>5. CASE PublishFails(k)
    BY <2>5, AnswerTypes, Excused, CallUser DEF PublishFails, Answer, At, TypeOK
  <2> QED
    BY <1>4, <2>1, <2>2, <2>3, <2>4, <2>5 DEF Handler
<1>5. ASSUME NEW c \in Customers, Service(c) PROVE TypeOK'
  <2>1. CASE InsertRow(c)
    BY <2>1 DEF InsertRow, TypeOK, Row, MaybeAddress
  <2>2. CASE RecordID(c)
    <3>1. CASE UNCHANGED <<rows, excused>>
      BY <2>2, <3>1 DEF RecordID, TypeOK
    <3>2. CASE /\ Exists(c) /\ rows' = [rows EXCEPT ![c].status = "active"]
               /\ UNCHANGED excused \/ Excuse(c, "create")
      <4> DEFINE row == [rows[c] EXCEPT !.status = "active"]
      <4>1. row \in Row /\ rows' = [rows EXCEPT ![c] = row]
        BY <3>2 DEF Exists, TypeOK, Row
      <4> HIDE DEF row
      <4> QED
        BY <2>2, <3>2, <4>1, Excused DEF RecordID, TypeOK
    <3> QED
      BY <2>2, <3>1, <3>2 DEF RecordID
  <2>3. CASE DeleteRow(c)
    BY <2>3 DEF DeleteRow, TypeOK
  <2> QED
    BY <1>5, <2>1, <2>2, <2>3 DEF Service
<1> QED
  BY <1>1, <1>2, <1>3, <1>4, <1>5 DEF Next

\* Every variable keeps to its values.
THEOREM TypeCorrect == Spec => []TypeOK
  BY TypeInit, TypeStep, PTL DEF Spec

(***************************************************************************)
(* What is known of a customer while nothing of it has failed or overlapped *)
(***************************************************************************)

\* A customer with a row, with an event or with a callback that found its row
\* has been created: a create never meets leftovers of an earlier one.
CreatedInv ==
  /\ \A c \in Customers : rows[c] # None \/ told[c] # None => c \in created
  /\ \A k \in Callbacks :
       calls[k] # None /\ calls[k].at \in {"update", "publish"}
         => calls[k].user \in created

\* The row shows what the callback has written.
Written(k) ==
  LET c == calls[k].user IN
  rows[c] # None =>
    /\ rows[c].status = StatusOf(calls[k])
    /\ calls[k].ip # None => rows[c].ip = calls[k].ip

\* A callback under way is the customer's only one, it knows the session as it
\* is, and when it publishes, the row is as it has written it.
CallInv(k) ==
  LET c == calls[k].user IN
  /\ \A j \in Callbacks : calls[j] # None /\ calls[j].user = c => j = k
  /\ calls[k].ip = session[c]
  /\ calls[k].at = "publish" => Written(k)

CalmInv ==
  \A k \in Callbacks : calls[k] # None /\ excused[calls[k].user] = {} => CallInv(k)

RowInv == TypeOK /\ CreatedInv /\ CalmInv /\ RowShowsSession /\ EventTellsRow

LEMMA RowInit == Init => RowInv
  BY TypeInit DEF Init, RowInv, CreatedInv, CalmInv, RowShowsSession,
                  EventTellsRow, Exists

\* The arrival of a callback: it is the customer's only one, or the history
\* says that it is not.
LEMMA PostStep ==
  ASSUME RowInv, NEW k \in Callbacks, NEW c \in Customers,
         NEW a \in MaybeAddress, Post(k, c, a),
         session' = [session EXCEPT ![c] = a],
         UNCHANGED <<created, creating, rows, told>>, TypeOK'
  PROVE  RowInv'
<1>1. /\ calls[k] = None
      /\ calls' = [calls EXCEPT ![k] = [user |-> c, ip |-> a, at |-> "find"]]
      /\ calls'[k] # None /\ calls'[k].user = c /\ calls'[k].ip = a
      /\ calls'[k].at = "find"
      /\ \A j \in Callbacks \ {k} : calls'[j] = calls[j]
      /\ session'[c] = a /\ \A d \in Customers \ {c} : session'[d] = session[d]
  <2>1. [user |-> c, ip |-> a, at |-> "find"] \in Call
    BY DEF Call
  <2>2. [user |-> c, ip |-> a, at |-> "find"] # None
    BY <2>1
  <2> QED
    BY <2>2 DEF RowInv, TypeOK, Post
<1>2. CreatedInv'
  BY <1>1 DEF RowInv, CreatedInv
<1>3. /\ excused'[c] = {} =>
           excused[c] = {} /\ \A j \in Callbacks : calls[j] # None => calls[j].user # c
      /\ \A d \in Customers \ {c} : excused'[d] = excused[d]
  BY Excused DEF Post, UnderWay, RowInv
<1>4. CalmInv'
  <2> SUFFICES ASSUME NEW j \in Callbacks, calls'[j] # None,
                      excused'[calls'[j].user] = {}
               PROVE  CallInv(j)'
    BY DEF CalmInv
  <2>1. CASE j = k
    BY <1>1, <1>3, <2>1 DEF CallInv
  <2>2. CASE j # k
    <3>1. calls[j] # None /\ calls'[j] = calls[j] /\ calls[j].user \in Customers
      BY <1>1, <2>2, CallUser DEF RowInv
    <3>4. calls[j].user # c
      BY <1>3, <3>1
    <3>5. CallInv(j)
      BY <1>3, <3>1, <3>4 DEF RowInv, CalmInv
    <3> QED
      BY <1>1, <2>2, <3>1, <3>4, <3>5 DEF CallInv, Written, StatusOf
  <2> QED
    BY <2>1, <2>2
<1>5. ASSUME NEW d \in Customers, UnderWay(d)' = {}
      PROVE  d # c /\ UnderWay(d) = {} /\ session'[d] = session[d]
  BY <1>1, <1>5 DEF UnderWay
<1>6. RowShowsSession' /\ EventTellsRow'
  BY <1>3, <1>5 DEF RowInv, RowShowsSession, EventTellsRow, Exists
<1> QED
  BY <1>2, <1>4, <1>6 DEF RowInv

\* A callback that is answered while nothing else changes leaves the others
\* as they are; what it owes the row and the event is to be shown.
LEMMA AnswerStep ==
  ASSUME RowInv, NEW k \in Callbacks, NEW from, Answer(k, from),
         UNCHANGED <<session, created, creating, rows>>,
         \A d \in Customers : excused'[d] = {} => excused[d] = {},
         \A d \in Customers \ {calls[k].user} : told'[d] = told[d],
         told'[calls[k].user] # None => calls[k].user \in created,
         excused'[calls[k].user] = {} /\ rows[calls[k].user] # None =>
           LET c == calls[k].user IN
           /\ rows[c].ip # None =>
                /\ rows[c].status = "active" <=> session[c] # None
                /\ rows[c].status = "active" => rows[c].ip = session[c]
           /\ told'[c] # None =>
                /\ told'[c].status = "connected" <=> rows[c].status = "active"
                /\ told'[c].status = "connected" => told'[c].ip = rows[c].ip,
         TypeOK'
  PROVE  RowInv'
<1>1. /\ calls[k] # None /\ calls[k].user \in Customers
      /\ calls'[k] = None
      /\ \A j \in Callbacks \ {k} : calls'[j] = calls[j]
  BY DEF RowInv, TypeOK, Answer, At, Call
<1>2. CreatedInv'
  BY <1>1 DEF RowInv, CreatedInv
<1>3. CalmInv'
  <2> SUFFICES ASSUME NEW j \in Callbacks, calls'[j] # None,
                      excused'[calls'[j].user] = {}
               PROVE  CallInv(j)'
    BY DEF CalmInv
  <2>2. j # k /\ calls[j] # None /\ calls'[j] = calls[j] /\ calls[j].user \in Customers
    BY <1>1, CallUser DEF RowInv
  <2>1. j # k /\ calls[j] # None /\ CallInv(j)
    BY <2>2 DEF RowInv, CalmInv
  <2> QED
    BY <1>1, <2>1 DEF CallInv, Written, StatusOf
<1>4. ASSUME NEW d \in Customers, d # calls[k].user, UnderWay(d)' = {}
      PROVE  UnderWay(d) = {}
  BY <1>1, <1>4 DEF UnderWay
<1>5. RowShowsSession'
  BY <1>1, <1>4 DEF RowInv, RowShowsSession, Exists
<1>6. EventTellsRow'
  BY <1>1, <1>4 DEF RowInv, EventTellsRow, Exists
<1> QED
  BY <1>2, <1>3, <1>5, <1>6 DEF RowInv

\* The row of an answered callback: gone, or there was a fault, or the
\* callback has written it.
LEMMA GoneStep ==
  ASSUME RowInv, NEW k \in Callbacks, NEW from, Answer(k, from),
         UNCHANGED <<session, created, creating, rows, told>>,
         \A d \in Customers : excused'[d] = {} => excused[d] = {},
         excused'[calls[k].user] = {} => rows[calls[k].user] = None,
         TypeOK'
  PROVE  RowInv'
<1>1. calls[k].user \in Customers
  BY DEF RowInv, TypeOK, Answer, At, Call
<1>2. told[calls[k].user] # None => calls[k].user \in created
  BY <1>1 DEF RowInv, CreatedInv
<1> QED
  BY <1>1, <1>2, AnswerStep

LEMMA PublishStep ==
  ASSUME RowInv, NEW k \in Callbacks, Publish(k), TypeOK'
  PROVE  RowInv'
<1> DEFINE c == calls[k].user
           event == [status |-> IF calls[k].ip = None THEN "disconnected"
                                                      ELSE "connected",
                     ip |-> calls[k].ip]
<1>1. /\ calls[k] # None /\ calls[k].at = "publish" /\ c \in Customers
      /\ c \in created
      /\ told' = [told EXCEPT ![c] = event]
      /\ UNCHANGED <<session, created, creating, rows, excused>>
      /\ Answer(k, "publish")
  BY DEF Publish, Answer, At, RowInv, TypeOK, Call, CreatedInv
<1>2. /\ told'[c] = event /\ event.ip = calls[k].ip
      /\ event.status = "connected" <=> calls[k].ip # None
      /\ \A d \in Customers \ {c} : told'[d] = told[d]
  BY <1>1 DEF RowInv, TypeOK
<1>3. ASSUME excused[c] = {}, rows[c] # None
      PROVE  /\ rows[c].status = "active" <=> calls[k].ip # None
             /\ calls[k].ip # None => rows[c].ip = calls[k].ip
             /\ calls[k].ip = session[c]
  BY <1>1, <1>3 DEF RowInv, CalmInv, CallInv, Written, StatusOf
<1> HIDE DEF event, c
<1> QED
  BY <1>1, <1>2, <1>3, AnswerStep DEF c

\* A callback that goes on leaves the others and the session as they are.
LEMMA StepFrame ==
  ASSUME RowInv, NEW k \in Callbacks, NEW from,
         NEW to \in {"find", "update", "publish"}, Step(k, from, to)
  PROVE  /\ calls[k] # None /\ calls[k].user \in Customers /\ calls[k].at = from
         /\ calls'[k] # None
         /\ calls'[k].user = calls[k].user /\ calls'[k].ip = calls[k].ip
         /\ calls'[k].at = to
         /\ \A j \in Callbacks \ {k} : calls'[j] = calls[j]
         /\ \A j \in Callbacks :
              /\ calls'[j] = None <=> calls[j] = None
              /\ calls[j] # None => /\ calls'[j].user = calls[j].user
                                    /\ calls'[j].ip = calls[j].ip
<1>1. /\ calls[k] \in Call /\ calls[k] # None /\ calls[k].at = from
      /\ calls' = [calls EXCEPT ![k] = [calls[k] EXCEPT !.at = to]]
  BY DEF Step, At, RowInv, TypeOK
<1> DEFINE call == [calls[k] EXCEPT !.at = to]
<1>2. /\ call \in Call /\ call.user = calls[k].user /\ call.ip = calls[k].ip
      /\ call.at = to /\ calls[k].user \in Customers
  BY <1>1 DEF Call
<1>3. call # None
  BY <1>2
<1> HIDE DEF call
<1>4. calls'[k] = call /\ \A j \in Callbacks \ {k} : calls'[j] = calls[j]
  BY <1>1 DEF call, RowInv, TypeOK
<1> QED
  BY <1>1, <1>2, <1>3, <1>4

LEMMA FindStep ==
  ASSUME RowInv, NEW k \in Callbacks, FindUser(k), TypeOK'
  PROVE  RowInv'
<1>1. CASE ~Exists(calls[k].user) /\ Answer(k, "find")
  BY <1>1, GoneStep DEF FindUser, Exists
<1>2. CASE Exists(calls[k].user) /\ Step(k, "find", "update")
  <2>1. UNCHANGED <<session, created, creating, rows, told, excused>>
    BY DEF FindUser
  <2>2. /\ calls[k] # None /\ calls[k].user \in Customers
        /\ calls'[k].user = calls[k].user /\ calls'[k].at = "update"
        /\ \A j \in Callbacks \ {k} : calls'[j] = calls[j]
        /\ \A j \in Callbacks :
             /\ calls'[j] = None <=> calls[j] = None
             /\ calls[j] # None => /\ calls'[j].user = calls[j].user
                                   /\ calls'[j].ip = calls[j].ip
    BY <1>2, StepFrame
  <2>3. CreatedInv'
    BY <1>2, <2>1, <2>2 DEF RowInv, CreatedInv, Exists
  <2>4. CalmInv'
    BY <2>1, <2>2 DEF RowInv, CalmInv, CallInv, Written, StatusOf
  <2>5. \A d \in Customers : UnderWay(d)' = {} => UnderWay(d) = {}
    BY <2>2 DEF UnderWay
  <2>6. RowShowsSession' /\ EventTellsRow'
    BY <2>1, <2>5 DEF RowInv, RowShowsSession, EventTellsRow, Exists
  <2> QED
    BY <2>3, <2>4, <2>6 DEF RowInv
<1> QED
  BY <1>1, <1>2 DEF FindUser

LEMMA UpdateStep ==
  ASSUME RowInv, NEW k \in Callbacks, UpdateStatus(k), TypeOK'
  PROVE  RowInv'
<1> DEFINE c == calls[k].user
<1>1. /\ UNCHANGED <<session, created, creating, told, excused>>
      /\ Step(k, "update", "publish")
  BY DEF UpdateStatus
<1>2. /\ calls[k] # None /\ c \in Customers /\ calls[k].at = "update"
      /\ calls'[k] # None /\ calls'[k].user = c /\ calls'[k].ip = calls[k].ip
      /\ calls'[k].at = "publish"
      /\ \A j \in Callbacks \ {k} : calls'[j] = calls[j]
      /\ \A j \in Callbacks :
           /\ calls'[j] = None <=> calls[j] = None
           /\ calls[j] # None => /\ calls'[j].user = calls[j].user
                                 /\ calls'[j].ip = calls[j].ip
  BY <1>1, StepFrame
<1>3. PICK row \in Row :
        /\ row.status = StatusOf(calls[k])
        /\ row.ip = IF calls[k].ip = None THEN rows[c].ip ELSE calls[k].ip
        /\ rows' = [rows EXCEPT ![c] = row]
  BY UpdatedRow DEF RowInv
<1>4. /\ rows[c] # None /\ rows'[c] = row
      /\ \A d \in Customers \ {c} : rows'[d] = rows[d]
  BY <1>2, <1>3, UpdatedRow DEF RowInv, TypeOK
<1> HIDE DEF c
<1>5. CreatedInv'
  BY <1>1, <1>2, <1>4 DEF RowInv, CreatedInv, c
<1>6. CalmInv'
  <2> SUFFICES ASSUME NEW j \in Callbacks, calls[j] # None, excused[calls[j].user] = {}
               PROVE  CallInv(j)'
    BY <1>1, <1>2 DEF CalmInv
  <2>1. CallInv(j) /\ calls[j].user \in Customers
    BY CallUser DEF RowInv, CalmInv
  <2>2. CASE j = k
    <3>1. Written(k)'
      BY <1>2, <1>3, <1>4 DEF Written, StatusOf
    <3> QED
      BY <1>1, <1>2, <2>1, <2>2, <3>1 DEF CallInv, c
  <2>3. CASE j # k
    <3>1. calls[j].user # c
      BY <1>2, <2>1, <2>3 DEF CallInv, c
    <3> QED
      BY <1>1, <1>2, <1>4, <2>1, <2>3, <3>1 DEF CallInv, Written, StatusOf
  <2> QED
    BY <2>2, <2>3
<1>7. ASSUME NEW d \in Customers, UnderWay(d)' = {}
      PROVE  d # c /\ UnderWay(d) = {}
  BY <1>2, <1>7 DEF UnderWay
<1>8. RowShowsSession' /\ EventTellsRow'
  BY <1>1, <1>4, <1>7 DEF RowInv, RowShowsSession, EventTellsRow, Exists
<1> QED
  BY <1>5, <1>6, <1>8 DEF RowInv

LEMMA ServiceStep ==
  ASSUME RowInv, NEW c \in Customers, Service(c), TypeOK'
  PROVE  RowInv'
<1>1. UNCHANGED <<session, calls, told>>
  BY DEF Service, InsertRow, RecordID, DeleteRow
<1>2. \A d \in Customers : UnderWay(d)' = UnderWay(d)
  BY <1>1 DEF UnderWay
<1>3. \A k \in Callbacks : calls[k] # None => calls[k].user \in Customers
  BY DEF RowInv, TypeOK, Call
<1>4. CASE InsertRow(c)
  <2> DEFINE row == [status |-> "active", ip |-> None]
  <2>1. /\ c \notin created /\ created' = created \cup {c}
        /\ rows' = [rows EXCEPT ![c] = row] /\ excused' = excused
        /\ row.ip = None
    BY <1>4 DEF InsertRow
  <2> HIDE DEF row
  <2>2. /\ rows'[c] = row /\ \A d \in Customers \ {c} : rows'[d] = rows[d]
        /\ told[c] = None
    BY <2>1 DEF RowInv, TypeOK, CreatedInv
  <2>3. CreatedInv'
    BY <1>1, <2>1, <2>2 DEF RowInv, CreatedInv
  <2>4. CalmInv'
    <3> SUFFICES ASSUME NEW k \in Callbacks, calls[k] # None, excused[calls[k].user] = {}
                 PROVE  CallInv(k)'
      BY <1>1, <2>1 DEF CalmInv
    <3>1. calls[k].at = "publish" => calls[k].user # c
      BY <2>1 DEF RowInv, CreatedInv
    <3> QED
      BY <1>1, <1>3, <2>2, <3>1 DEF RowInv, CalmInv, CallInv, Written, StatusOf
  <2>5. RowShowsSession' /\ EventTellsRow'
    BY <1>1, <1>2, <2>1, <2>2
    DEF RowInv, RowShowsSession, EventTellsRow, Exists
  <2> QED
    BY <2>3, <2>4, <2>5 DEF RowInv
<1>5. CASE RecordID(c)
  <2>1. CASE UNCHANGED <<rows, excused>>
    <3>1. created' = created
      BY <1>5 DEF RecordID
    <3>2. CreatedInv' /\ CalmInv'
      BY <1>1, <2>1, <3>1 DEF RowInv, CreatedInv, CalmInv, CallInv, Written, StatusOf
    <3>3. RowShowsSession' /\ EventTellsRow'
      BY <1>1, <1>2, <2>1 DEF RowInv, RowShowsSession, EventTellsRow, Exists
    <3> QED
      BY <3>2, <3>3 DEF RowInv
  <2>2. CASE /\ Exists(c)
             /\ rows' = [rows EXCEPT ![c].status = "active"]
             /\ rows' # rows
             /\ Excuse(c, "create")
    <3>1. /\ created' = created /\ excused'[c] # {}
          /\ \A d \in Customers \ {c} : excused'[d] = excused[d]
      BY <1>5, <2>2, Excused DEF RecordID, RowInv
    <3>2. /\ \A d \in Customers : rows'[d] # None => rows[d] # None
          /\ \A d \in Customers \ {c} : rows'[d] = rows[d]
      BY <2>2 DEF RowInv, TypeOK, Exists
    <3>3. CreatedInv'
      BY <1>1, <3>1, <3>2 DEF RowInv, CreatedInv
    <3>4. CalmInv'
      BY <1>1, <1>3, <3>1, <3>2 DEF RowInv, CalmInv, CallInv, Written, StatusOf
    <3>5. RowShowsSession' /\ EventTellsRow'
      BY <1>1, <1>2, <3>1, <3>2 DEF RowInv, RowShowsSession, EventTellsRow, Exists
    <3> QED
      BY <3>3, <3>4, <3>5 DEF RowInv
  <2> QED
    BY <1>5, <2>1, <2>2 DEF RecordID
<1>6. CASE DeleteRow(c)
  <2>1. /\ rows'[c] = None /\ \A d \in Customers \ {c} : rows'[d] = rows[d]
        /\ created' = created /\ excused' = excused
    BY <1>6 DEF DeleteRow, RowInv, TypeOK
  <2>2. CreatedInv'
    BY <1>1, <2>1 DEF RowInv, CreatedInv
  <2>3. CalmInv'
    BY <1>1, <1>3, <2>1 DEF RowInv, CalmInv, CallInv, Written, StatusOf
  <2>4. RowShowsSession' /\ EventTellsRow'
    BY <1>1, <1>2, <2>1 DEF RowInv, RowShowsSession, EventTellsRow, Exists
  <2> QED
    BY <2>2, <2>3, <2>4 DEF RowInv
<1> QED
  BY <1>4, <1>5, <1>6 DEF Service

LEMMA RowStep == RowInv /\ [Next]_vars => RowInv'
<1> SUFFICES ASSUME RowInv, [Next]_vars PROVE RowInv'
  OBVIOUS
<1>0. TypeOK'
  BY TypeStep DEF RowInv
<1>1. CASE UNCHANGED vars
  BY <1>0, <1>1 DEF vars, RowInv, CreatedInv, CalmInv, CallInv, Written, StatusOf,
     RowShowsSession, EventTellsRow, Exists, UnderWay
<1>2. ASSUME NEW k \in Callbacks, Router(k) PROVE RowInv'
  <2>1. PICK c \in Customers : SessionUp(k, c) \/ SessionDown(k, c)
    BY <1>2 DEF Router
  <2>2. PICK a \in MaybeAddress : Post(k, c, a) /\ session' = [session EXCEPT ![c] = a]
    BY <2>1 DEF SessionUp, SessionDown, MaybeAddress
  <2>3. UNCHANGED <<created, creating, rows, told>>
    BY <2>1 DEF SessionUp, SessionDown
  <2> QED
    BY <1>0, <2>2, <2>3, PostStep
<1>3. ASSUME NEW k \in Callbacks, Lost(k) PROVE RowInv'
  BY <1>0, <1>3, GoneStep, Excused, CallUser DEF Lost, Answer, At, RowInv
<1>4. ASSUME NEW k \in Callbacks, Handler(k) PROVE RowInv'
  <2>1. CASE UpdateFails(k)
    BY <1>0, <2>1, GoneStep, Excused, CallUser DEF UpdateFails, Exists, Answer, At, RowInv
  <2>2. CASE PublishFails(k)
    BY <1>0, <2>2, GoneStep, Excused, CallUser DEF PublishFails, Answer, At, RowInv
  <2> QED
    BY <1>0, <1>4, <2>1, <2>2, FindStep, UpdateStep, PublishStep DEF Handler
<1>5. ASSUME NEW c \in Customers, Service(c) PROVE RowInv'
  BY <1>0, <1>5, ServiceStep
<1> QED
  BY <1>1, <1>2, <1>3, <1>4, <1>5 DEF Next

\* What the callbacks and creations under way know of a customer nothing has disturbed.
THEOREM Invariant == Spec => []RowInv
  BY RowInit, RowStep, PTL DEF Spec

\* Without failures, overlapping callbacks and late creates of this customer, its
\* row shows its session whenever no callback is on its way.
THEOREM RowCorrect == Spec => []RowShowsSession
<1>1. RowInv => RowShowsSession
  BY DEF RowInv
<1> QED
  BY <1>1, Invariant, PTL

\* The last event about a customer tells what its row says.
THEOREM EventCorrect == Spec => []EventTellsRow
<1>1. RowInv => EventTellsRow
  BY DEF RowInv
<1> QED
  BY <1>1, Invariant, PTL

\* The router has given no address twice.
DistinctInv ==
  \A c, d \in Customers : session[c] = session[d] /\ c # d => session[c] = None

LEMMA DistinctStep == TypeOK /\ DistinctInv /\ [Next]_vars => DistinctInv'
<1> SUFFICES ASSUME TypeOK, DistinctInv, [Next]_vars PROVE DistinctInv'
  OBVIOUS
<1>1. CASE UNCHANGED session
  BY <1>1 DEF DistinctInv
<1>2. ASSUME NEW k \in Callbacks, NEW c \in Customers,
             SessionUp(k, c) \/ SessionDown(k, c)
      PROVE  DistinctInv'
  BY <1>2 DEF SessionUp, SessionDown, DistinctInv, TypeOK
<1> QED
  BY <1>1, <1>2 DEF Next, Router, Lost, Handler, FindUser, UpdateStatus,
     UpdateFails, Publish, PublishFails, Service, InsertRow, RecordID,
     DeleteRow, vars

\* "DB holds AssignedIP which is reliable if callback works" is true of the
\* customers whose row says active, which is what the refutation of
\* AssignedIsReliable leaves of it: no other customer has that address.
THEOREM OnlineCorrect == Spec => []OnlineIsReliable
<1>1. Init => DistinctInv
  BY DEF Init, DistinctInv
<1>2. RowInv /\ DistinctInv /\ [Next]_vars => DistinctInv'
  BY DistinctStep DEF RowInv
<1>3. RowInv /\ DistinctInv => OnlineIsReliable
  <2> SUFFICES ASSUME RowInv, DistinctInv,
                      NEW c \in Customers, NEW d \in Customers, c # d,
                      excused[c] = {}, Exists(c), UnderWay(c) = {},
                      rows[c].status = "active", PingAddress(c) # None
               PROVE  session[d] # PingAddress(c)
    BY DEF OnlineIsReliable
  <2>1. session[c] = PingAddress(c) /\ session[c] # None
    BY DEF RowInv, RowShowsSession, PingAddress
  <2> QED
    BY <2>1 DEF DistinctInv
<1> QED
  BY <1>1, <1>2, <1>3, Invariant, PTL DEF Spec
=============================================================================
