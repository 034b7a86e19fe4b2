-------------------------- MODULE CustomerSyncProofs --------------------------
(***************************************************************************)
(* Proofs about CustomerSync for any set of customers, requests and names. *)
(***************************************************************************)
EXTENDS CustomerSync, TLAPS

USE CustomerSyncAssumption

(***************************************************************************)
(* Types, and what requests know.                                          *)
(***************************************************************************)
KnowInv == TypeOK /\ RequestsKnow

LEMMA KnowInit == Init => KnowInv
  BY DEF Init, KnowInv, TypeOK, RequestsKnow, Row, Secret, Ask, MaybeName, MaybeId

\* The row an update writes is a row, with the mikrotik_id it had.
LEMMA UpdatedRow ==
  ASSUME TypeOK, NEW r \in Requests, req[r] \in Ask, rows[req[r].id] # None
  PROVE  /\ Updated(r) \in Row
         /\ Updated(r).mtid = rows[req[r].id].mtid
         /\ Updated(r).pppoe = req[r].pppoe
<1>1. rows[req[r].id] \in Row
  BY DEF TypeOK, Ask
<1> QED
  BY <1>1 DEF Updated, Row, Ask, MaybeName

LEMMA KnowStep == KnowInv /\ [Next]_vars => KnowInv'
<1> SUFFICES ASSUME KnowInv, [Next]_vars PROVE KnowInv'
  OBVIOUS
<1> USE DEF KnowInv, TypeOK, RequestsKnow, Row, Secret, Ask, MaybeName, MaybeId
<1>1. CASE UNCHANGED vars
  BY <1>1 DEF vars, requestVars
<1>2. ASSUME NEW r \in Requests, Create(r) PROVE KnowInv'
  <2>1. CASE StartCreate(r)
    BY <2>1 DEF StartCreate, Begin, GoTo
  <2>2. CASE Insert(r)
    BY <2>2 DEF Insert, Answer, GoTo
  <2>3. CASE InsertFails(r)
    BY <2>3 DEF InsertFails, Answer, GoTo
  <2>4. CASE Add(r)
    BY <2>4 DEF Add, AddSecret, GoTo
  <2>5. CASE AddFails(r)
    BY <2>5 DEF AddFails, AddSecret, GoTo, Disturb
  <2>6. CASE Rollback(r)
    BY <2>6 DEF Rollback, Answer, GoTo, Disturb
  <2>7. CASE Record(r)
    <3> DEFINE row == [name |-> req[r].name, pppoe |-> TRUE, mtid |-> mtID[r]]
    <3>1. row \in Row
      BY <2>7 DEF Record, Answer, GoTo
    <3>2. rows' = rows \/ rows' = [rows EXCEPT ![req[r].id] = row]
      BY <2>7, Zenon DEF Record
    <3> HIDE DEF row, Row
    <3>3. rows' \in [Customers -> Row \cup {None}]
      BY <3>1, <3>2
    <3> USE DEF Row
    <3> QED
      BY <2>7, <3>3 DEF Record, Answer, GoTo, Disturb
  <2> QED
    BY <1>2, <2>1, <2>2, <2>3, <2>4, <2>5, <2>6, <2>7 DEF Create
<1>3. ASSUME NEW r \in Requests, Update(r) PROVE KnowInv'
  <2>1. CASE StartUpdate(r)
    BY <2>1 DEF StartUpdate, Begin, GoTo, NoteOverlap, Exists
  <2>2. CASE WriteRow(r)
    <3>1. Updated(r) \in Row
      BY <2>2, UpdatedRow DEF WriteRow, Exists
    <3>2. rows' \in [Customers -> Row \cup {None}]
      BY <2>2, <3>1, Zenon DEF WriteRow, TypeOK
    <3>3. excused' \subseteq {"disturbed", "refused", "skipped"}
      BY <2>2 DEF WriteRow, Disturb, Behind
    <3>4. CASE Answer(r, "write")
      BY <2>2, <3>2, <3>3, <3>4 DEF WriteRow, Answer, GoTo
    <3>5. CASE /\ GoTo(r, "write", "find")
               /\ UNCHANGED <<req, seen, mtID>>
      BY <2>2, <3>2, <3>3, <3>5 DEF WriteRow, GoTo
    <3> QED
      BY <2>2, <3>4, <3>5 DEF WriteRow
  <2>3. CASE WriteRowFails(r)
    BY <2>3 DEF WriteRowFails, Answer, GoTo
  <2>4. CASE Find(r)
    BY <2>4 DEF Find, Named, GoTo
  <2>5. CASE FindNothing(r)
    BY <2>5 DEF FindNothing, Answer, GoTo, Disturb
  <2>6. CASE Set(r)
    BY <2>6 DEF Set, SetSecret, Answer, GoTo
  <2>7. CASE SetFails(r)
    BY <2>7 DEF SetFails, SetSecret, Answer, GoTo, Disturb, Behind
  <2> QED
    BY <1>3, <2>1, <2>2, <2>3, <2>4, <2>5, <2>6, <2>7 DEF Update
<1>4. ASSUME NEW r \in Requests, Delete(r) PROVE KnowInv'
  <2>1. CASE StartDelete(r)
    <3>1. PICK c \in Customers :
            /\ Exists(c)
            /\ NoteOverlap(c)
            /\ \E to \in {"erase", "remove", "find"} :
                 /\ Begin(r, [op |-> "delete", id |-> c, name |-> None,
                              pppoe |-> FALSE], to)
                 /\ to = "remove" => rows[c].mtid # None
            /\ seen' = [seen EXCEPT ![r] = rows[c].name]
            /\ mtID' = [mtID EXCEPT ![r] = rows[c].mtid]
      BY <2>1 DEF StartDelete
    <3>2. rows[c] \in Row
      BY <3>1 DEF Exists
    <3>3. PICK to \in {"erase", "remove", "find"} :
            /\ GoTo(r, "idle", to)
            /\ req' = [req EXCEPT ![r] = [op |-> "delete", id |-> c,
                                          name |-> None, pppoe |-> FALSE]]
            /\ to = "remove" => rows[c].mtid # None
      BY <3>1 DEF Begin
    <3>4. /\ excused' \subseteq {"disturbed", "refused", "skipped"}
          /\ UNCHANGED <<used, rows, secrets>>
      BY <2>1, <3>1 DEF StartDelete, NoteOverlap
    <3>5. [op |-> "delete", id |-> c, name |-> None, pppoe |-> FALSE] \in Ask
      OBVIOUS
    <3>6. rows[c].mtid \in MaybeId /\ rows[c].name \in MaybeName
      BY <3>2
    <3>7. rows[c] # None
      BY <3>1 DEF Exists
    <3> HIDE DEF Row, Ask, Secret, MaybeId, MaybeName
    <3>8. TypeOK'
      <4>1. req' \in [Requests -> Ask \cup {None}]
        BY <3>3, <3>5
      <4>2. seen' \in [Requests -> MaybeName]
        BY <3>1, <3>6
      <4>3. mtID' \in [Requests -> MaybeId]
        BY <3>1, <3>6
      <4> QED
        BY <3>3, <3>4, <4>1, <4>2, <4>3 DEF GoTo
    <3>9. RequestsKnow'
      BY <3>1, <3>3, <3>5, <3>7 DEF GoTo
    <3> QED
      BY <3>8, <3>9
  <2>2. CASE Remove(r)
    BY <2>2 DEF Remove, GoTo, Disturb
  <2>3. CASE Erase(r)
    BY <2>3 DEF Erase, Answer, GoTo
  <2>4. CASE EraseFails(r)
    BY <2>4 DEF EraseFails, Answer, GoTo, Disturb
  <2> QED
    BY <1>4, <2>1, <2>2, <2>3, <2>4 DEF Delete
<1> QED
  BY <1>1, <1>2, <1>3, <1>4 DEF Next

\* Every value of the variables has its type.
THEOREM SyncTypes == Spec => []TypeOK
<1>1. KnowInv => TypeOK
  BY DEF KnowInv
<1> QED
  BY KnowInit, KnowStep, <1>1, PTL DEF Spec

(***************************************************************************)
(* Router ids stay with their customers.                                   *)
(***************************************************************************)
LEMMA IdsInit == Init => IdsAreOwn
  BY DEF Init, IdsAreOwn, Exists

LEMMA IdsStep == KnowInv /\ IdsAreOwn /\ [Next]_vars => IdsAreOwn'
<1> SUFFICES ASSUME KnowInv, IdsAreOwn, [Next]_vars PROVE IdsAreOwn'
  OBVIOUS
<1>1. CASE UNCHANGED rows
  BY <1>1 DEF IdsAreOwn, Exists
<1>2. ASSUME NEW r \in Requests, Create(r) PROVE IdsAreOwn'
  <2>1. CASE Insert(r)
    <3> DEFINE row == [name |-> req[r].name, pppoe |-> req[r].pppoe,
                       mtid |-> None]
    <3>1. rows' = [rows EXCEPT ![req[r].id] = row]
      BY <2>1 DEF Insert
    <3>2. row.mtid = None
      OBVIOUS
    <3> HIDE DEF row
    <3> QED
      BY <3>1, <3>2 DEF IdsAreOwn, Exists, KnowInv, TypeOK
  <2>2. CASE Rollback(r)
    BY <2>2 DEF Rollback, IdsAreOwn, Exists, KnowInv, TypeOK
  <2>3. CASE Record(r)
    <3> DEFINE row == [name |-> req[r].name, pppoe |-> TRUE, mtid |-> mtID[r]]
    <3>1. rows' = rows \/ rows' = [rows EXCEPT ![req[r].id] = row]
      BY <2>3, Zenon DEF Record
    <3>2. row.mtid = req[r].id
      BY <2>3 DEF Record, Answer, GoTo, KnowInv, RequestsKnow
    <3> HIDE DEF row
    <3> QED
      BY <3>1, <3>2 DEF IdsAreOwn, Exists, KnowInv, TypeOK
  <2> QED
    BY <1>1, <1>2, <2>1, <2>2, <2>3
    DEF Create, StartCreate, InsertFails, Add, AddFails
<1>3. ASSUME NEW r \in Requests, Update(r) PROVE IdsAreOwn'
  <2>1. CASE WriteRow(r)
    <3>1. /\ Exists(req[r].id)
          /\ rows' = [rows EXCEPT ![req[r].id] = Updated(r)]
          /\ pc[r] = "write"
      BY <2>1 DEF WriteRow
    <3>2. req[r] \in Ask
      BY <3>1 DEF KnowInv, TypeOK, RequestsKnow
    <3>3. Updated(r).mtid = rows[req[r].id].mtid
      BY <3>1, <3>2, UpdatedRow DEF KnowInv, Exists
    <3> QED
      BY <3>1, <3>2, <3>3 DEF IdsAreOwn, Exists, KnowInv, TypeOK, Ask
  <2> QED
    BY <1>1, <1>3, <2>1
    DEF Update, StartUpdate, WriteRowFails, Find, FindNothing, Set, SetFails
<1>4. ASSUME NEW r \in Requests, Delete(r) PROVE IdsAreOwn'
  <2>1. CASE Erase(r)
    BY <2>1 DEF Erase, IdsAreOwn, Exists, KnowInv, TypeOK
  <2> QED
    BY <1>1, <1>4, <2>1 DEF Delete, StartDelete, Remove, EraseFails
<1> QED
  BY <1>1, <1>2, <1>3, <1>4 DEF Next, vars

\* A row's mikrotik_id is the id of its own secret, whatever requests overlap
\* and whatever calls fail.
THEOREM IdsCorrect == Spec => []IdsAreOwn
  BY KnowInit, KnowStep, IdsInit, IdsStep, PTL DEF Spec

(***************************************************************************)
(* Deleted rows stay deleted.                                              *)
(***************************************************************************)
LEMMA OnlyInsertAdds ==
  ASSUME KnowInv, [Next]_vars, NEW c \in Customers, ~Exists(c), Exists(c)'
  PROVE  \E r \in Requests : pc[r] = "insert" /\ req[r].id = c
<1>1. CASE UNCHANGED rows
  BY <1>1 DEF Exists
<1>2. ASSUME NEW r \in Requests, Create(r), rows' # rows
      PROVE  pc[r] = "insert" /\ req[r].id = c
  <2>1. CASE Insert(r)
    <3>1. pc[r] = "insert"
      BY <2>1 DEF Insert
    <3>2. \E row : rows' = [rows EXCEPT ![req[r].id] = row]
      BY <2>1, Zenon DEF Insert
    <3> QED
      BY <3>1, <3>2 DEF Exists, KnowInv, TypeOK
  <2>2. CASE Rollback(r)
    BY <2>2 DEF Rollback, Exists, KnowInv, TypeOK
  <2>3. CASE Record(r)
    <3>1. \E row : Exists(req[r].id) /\ rows' = [rows EXCEPT ![req[r].id] = row]
      BY <1>2, <2>3, Zenon DEF Record
    <3> QED
      BY <3>1 DEF Exists, KnowInv, TypeOK
  <2> QED
    BY <1>2, <2>1, <2>2, <2>3 DEF Create, StartCreate, InsertFails, Add, AddFails
<1>3. ASSUME NEW r \in Requests, Update(r) PROVE ~Exists(c)'
  <2>1. CASE WriteRow(r)
    <3>1. Exists(req[r].id) /\ rows' = [rows EXCEPT ![req[r].id] = Updated(r)]
      BY <2>1 DEF WriteRow
    <3> QED
      BY <3>1 DEF Exists, KnowInv, TypeOK
  <2> QED
    BY <1>3, <2>1
    DEF Update, StartUpdate, WriteRowFails, Find, FindNothing, Set, SetFails,
        Exists
<1>4. ASSUME NEW r \in Requests, Delete(r) PROVE ~Exists(c)'
  <2>1. CASE Erase(r)
    BY <2>1 DEF Erase, Exists, KnowInv, TypeOK
  <2> QED
    BY <1>4, <2>1 DEF Delete, StartDelete, Remove, EraseFails, Exists
<1> QED
  BY <1>1, <1>2, <1>3, <1>4 DEF Next, vars

\* Only a create inserts a row: no update that read it, or made it, brings a
\* deleted row back.
THEOREM DeletedCorrect == Spec => DeletedStaysDeleted
<1>1. KnowInv /\ [Next]_vars =>
        [\A c \in Customers :
           ~Exists(c) /\ Exists(c)' =>
             \E r \in Requests : pc[r] = "insert" /\ req[r].id = c]_vars
  BY OnlyInsertAdds
<1> QED
  BY KnowInit, KnowStep, <1>1, PTL DEF Spec, DeletedStaysDeleted

(***************************************************************************)
(* The router matches the database.  A step of request r is about one      *)
(* customer, c: what the invariant says of the others stays true.          *)
(***************************************************************************)
About(r, c) ==
  /\ \A q \in Requests \ {r} :
       pc'[q] = pc[q] /\ req'[q] = req[q] /\ mtID'[q] = mtID[q]
  /\ \A d \in Customers \ {c} :
       rows'[d] = rows[d] /\ (secrets'[d] = None <=> secrets[d] = None)
  /\ used \subseteq used' /\ c \in used'
  /\ pc[r] # "idle" => req[r].id = c
  /\ pc'[r] # "idle" => req'[r].id = c

LEMMA Frame ==
  ASSUME NEW r \in Requests, NEW c \in Customers, KnowInv, Undisturbed,
         About(r, c), InFlight(c) \subseteq {r},
         pc'[r] = "idle" => Settled(c)', pc'[r] # "idle" => Finds(r)'
  PROVE  Undisturbed'
<1>1. ASSUME NEW d \in Customers \ {c}
      PROVE  InFlight(d)' = InFlight(d) /\ Settled(d)' = Settled(d)
  <2>1. InFlight(d)' = InFlight(d)
    BY DEF About, InFlight
  <2>2. Settled(d)' = Settled(d)
    BY DEF About, Settled, Exists
  <2> QED
    BY <2>1, <2>2
<1>2. InFlight(c)' = IF pc'[r] = "idle" THEN {} ELSE {r}
  BY DEF About, InFlight
<1>3. OneAtATime'
  BY <1>1, <1>2 DEF Undisturbed, OneAtATime
<1>4. ASSUME NEW q \in Requests \ {r}, pc'[q] # "idle" PROVE Finds(q)'
  <2>1. pc[q] # "idle" /\ Finds(q)
    BY <1>4 DEF About, Undisturbed, FoundAsLeft
  <2>2. req[q].id \in Customers \ {c}
    BY <2>1 DEF InFlight, KnowInv, TypeOK, RequestsKnow, Ask
  <2>3. /\ Settled(req[q].id)' = Settled(req[q].id)
        /\ rows'[req[q].id] = rows[req[q].id]
        /\ secrets'[req[q].id] = None <=> secrets[req[q].id] = None
        /\ pc'[q] = pc[q] /\ req'[q] = req[q] /\ mtID'[q] = mtID[q]
    BY <1>1, <2>2 DEF About, Settled, Exists
  <2> QED
    BY <2>1, <2>3 DEF Finds, Exists, Settled
<1>5. FoundAsLeft'
  BY <1>4 DEF FoundAsLeft
<1>6. UnusedIsEmpty'
  BY <1>1 DEF About, Undisturbed, UnusedIsEmpty, Exists
<1>7. IdleIsSettled'
  BY <1>1, <1>2 DEF Undisturbed, IdleIsSettled
<1> QED
  BY <1>3, <1>5, <1>6, <1>7 DEF Undisturbed

\* What a request at work on c may rely on.
Has(r, c) ==
  /\ req[r] \in Ask /\ req[r].id = c
  /\ c \in used
  /\ InFlight(c) \subseteq {r}
  /\ Finds(r)

LEMMA AtWork ==
  ASSUME KnowInv, Undisturbed, NEW r \in Requests, pc[r] # "idle"
  PROVE  \E c \in Customers : Has(r, c)
<1>1. req[r] \in Ask
  BY DEF KnowInv, TypeOK, RequestsKnow
<1>2. req[r].id \in Customers /\ r \in InFlight(req[r].id)
  BY <1>1 DEF Ask, InFlight
<1>3. Has(r, req[r].id)
  BY <1>1, <1>2
  DEF Has, Undisturbed, OneAtATime, FoundAsLeft, UnusedIsEmpty
<1> QED
  BY <1>2, <1>3

\* A later step of a request.
LEMMA OwnStep ==
  ASSUME KnowInv, Undisturbed, NEW r \in Requests, NEW c \in Customers,
         Has(r, c), About(r, c),
         pc'[r] = "idle" => Settled(c)', pc'[r] # "idle" => Finds(r)'
  PROVE  Undisturbed'
  BY Frame DEF Has

LEMMA UndisturbedInit == Init => Undisturbed
  BY DEF Init, Undisturbed, OneAtATime, FoundAsLeft, UnusedIsEmpty,
         IdleIsSettled, InFlight, Settled, Exists

LEMMA UndisturbedCreate ==
  ASSUME KnowInv, Undisturbed, NEW r \in Requests, Create(r), Calm'
  PROVE  Undisturbed'
<1> USE DEF KnowInv, TypeOK, Has, Calm
<1>1. CASE StartCreate(r)
  <2>1. PICK d \in Customers \ used, n \in MaybeName, p \in BOOLEAN :
          /\ Begin(r, [op |-> "create", id |-> d, name |-> n, pppoe |-> p],
                   "insert")
          /\ used' = used \cup {d}
    BY <1>1 DEF StartCreate
  <2>2. UNCHANGED <<rows, secrets, mtID>>
    BY <1>1 DEF StartCreate
  <2>3. ~Exists(d) /\ secrets[d] = None /\ InFlight(d) = {}
    BY DEF Undisturbed, UnusedIsEmpty
  <2>4. About(r, d)
    BY <2>1, <2>2 DEF About, Begin, GoTo
  <2>5. pc'[r] = "insert" /\ Finds(r)'
    BY <2>1, <2>2, <2>3 DEF Begin, GoTo, Finds, Exists
  <2> QED
    BY <2>3, <2>4, <2>5, Frame
<1>2. CASE Insert(r)
  <2>1. PICK c \in Customers : Has(r, c)
    BY <1>2, AtWork DEF Insert
  <2>2. rows' = [rows EXCEPT ![c] = [name |-> req[r].name,
                                     pppoe |-> req[r].pppoe, mtid |-> None]]
    BY <1>2, <2>1 DEF Insert, Has
  <2>3. UNCHANGED <<used, secrets>> /\ pc[r] = "insert"
    BY <1>2 DEF Insert
  <2>4. rows'[c] # None /\ rows'[c].pppoe = req[r].pppoe
    BY <2>1, <2>2 DEF Row, Ask, MaybeId
  <2>5. CASE ~req[r].pppoe /\ Answer(r, "insert")
    <3>1. About(r, c)
      BY <2>1, <2>2, <2>3, <2>5 DEF About, Answer, GoTo
    <3>2. pc'[r] = "idle" /\ Settled(c)'
      BY <2>1, <2>2, <2>3, <2>5, <2>4 DEF Answer, GoTo, Settled, Finds, Exists, Ask
    <3> QED
      BY <2>1, <3>1, <3>2, OwnStep
  <2>6. CASE /\ GoTo(r, "insert", IF req[r].name \in Names THEN "add" ELSE "rollback")
             /\ UNCHANGED <<req, seen, mtID>>
    <3>1. About(r, c)
      BY <2>1, <2>2, <2>3, <2>6 DEF About, GoTo
    <3>2. pc'[r] # "idle" /\ Finds(r)'
      BY <2>1, <2>2, <2>3, <2>6, <2>4 DEF GoTo, Finds, Exists, Ask
    <3> QED
      BY <2>1, <3>1, <3>2, OwnStep
  <2> QED
    BY <1>2, <2>5, <2>6 DEF Insert
<1>3. CASE InsertFails(r)
  <2>0. pc[r] = "insert"
    BY <1>3 DEF InsertFails, Answer, GoTo
  <2>1. PICK c \in Customers : Has(r, c)
    BY <2>0, AtWork
  <2>2. About(r, c)
    BY <1>3, <2>0, <2>1 DEF InsertFails, About, Answer, GoTo
  <2>3. pc'[r] = "idle" /\ Settled(c)'
    BY <1>3, <2>0, <2>1 DEF InsertFails, Answer, GoTo, Settled, Finds, Exists
  <2> QED
    BY <2>0, <2>1, <2>2, <2>3, OwnStep
<1>4. CASE Add(r)
  <2>0. pc[r] = "add"
    BY <1>4 DEF Add, GoTo
  <2>1. PICK c \in Customers : Has(r, c)
    BY <2>0, AtWork
  <2>2. About(r, c)
    BY <1>4, <2>0, <2>1 DEF Add, AddSecret, About, GoTo
  <2>3. [name |-> req[r].name, data |-> c] # None
    BY <1>4, <2>0, <2>1 DEF RequestsKnow, Ask, MaybeName, Secret
  <2>4. pc'[r] = "record" /\ Finds(r)'
    BY <1>4, <2>0, <2>1, <2>3 DEF Add, AddSecret, GoTo, Finds, Exists, Ask
  <2> QED
    BY <2>0, <2>1, <2>2, <2>4, OwnStep
<1>5. CASE AddFails(r)
  <2>0. pc[r] = "add"
    BY <1>5 DEF AddFails, GoTo
  <2>1. PICK c \in Customers : Has(r, c)
    BY <2>0, AtWork
  <2>2. UNCHANGED secrets
    BY <1>5 DEF AddFails, Disturb
  <2>3. About(r, c)
    BY <1>5, <2>0, <2>1, <2>2 DEF AddFails, About, GoTo
  <2>4. pc'[r] = "rollback" /\ Finds(r)'
    BY <1>5, <2>0, <2>1, <2>2 DEF AddFails, GoTo, Finds, Exists
  <2> QED
    BY <2>0, <2>1, <2>3, <2>4, OwnStep
<1>6. CASE Rollback(r)
  <2>0. pc[r] = "rollback"
    BY <1>6 DEF Rollback, Answer, GoTo
  <2>1. PICK c \in Customers : Has(r, c)
    BY <2>0, AtWork
  <2>2. rows' = [rows EXCEPT ![c] = None]
    BY <1>6, <2>1 DEF Rollback, Disturb
  <2>3. About(r, c)
    BY <1>6, <2>0, <2>1, <2>2 DEF Rollback, About, Answer, GoTo
  <2>4. pc'[r] = "idle" /\ Settled(c)'
    BY <1>6, <2>0, <2>1, <2>2 DEF Rollback, Answer, GoTo, Settled, Finds, Exists, Ask
  <2> QED
    BY <2>0, <2>1, <2>3, <2>4, OwnStep
<1>7. CASE Record(r)
  <2>0. pc[r] = "record"
    BY <1>7 DEF Record, Answer, GoTo
  <2>1. PICK c \in Customers : Has(r, c)
    BY <2>0, AtWork
  <2>2. Exists(c)
    BY <2>0, <2>1 DEF Finds
  <2>3. rows' = [rows EXCEPT ![c] = [name |-> req[r].name, pppoe |-> TRUE,
                                     mtid |-> mtID[r]]]
    BY <1>7, <2>1, <2>2 DEF Record, Disturb
  <2>4. About(r, c)
    BY <1>7, <2>0, <2>1, <2>3 DEF Record, About, Answer, GoTo
  <2>5. [name |-> req[r].name, pppoe |-> TRUE, mtid |-> mtID[r]] # None
    <3>1. req[r].name \in MaybeName /\ mtID[r] \in MaybeId
      BY <2>1 DEF Ask
    <3>2. [name |-> req[r].name, pppoe |-> TRUE, mtid |-> mtID[r]] \in Row
      BY <3>1 DEF Row
    <3> QED
      BY <3>2
  <2>6. pc'[r] = "idle" /\ Settled(c)'
    BY <1>7, <2>0, <2>1, <2>3, <2>5
    DEF Record, RequestsKnow, Answer, GoTo, Settled, Finds, Exists, Ask
  <2> QED
    BY <2>0, <2>1, <2>4, <2>6, OwnStep
<1> QED
  BY <1>1, <1>2, <1>3, <1>4, <1>5, <1>6, <1>7 DEF Create

LEMMA UndisturbedUpdate ==
  ASSUME KnowInv, Undisturbed, NEW r \in Requests, Update(r),
         Calm, Calm'
  PROVE  Undisturbed'
<1> USE DEF KnowInv, TypeOK, Has, Calm
<1>1. CASE StartUpdate(r)
  <2>1. PICK c \in Customers, n \in MaybeName, p \in BOOLEAN :
          /\ Exists(c)
          /\ Begin(r, [op |-> "update", id |-> c, name |-> n, pppoe |-> p],
                   "write")
          /\ NoteOverlap(c)
    BY <1>1 DEF StartUpdate
  <2>2. UNCHANGED <<used, rows, secrets, mtID>> /\ pc[r] = "idle"
    BY <1>1 DEF StartUpdate, Begin, GoTo
  <2>3. InFlight(c) = {}
    BY <2>1 DEF NoteOverlap
  <2>4. c \in used /\ Settled(c)
    BY <2>1, <2>3 DEF Undisturbed, UnusedIsEmpty, IdleIsSettled
  <2>5. About(r, c)
    BY <2>1, <2>2, <2>4 DEF About, Begin, GoTo
  <2>6. pc'[r] = "write" /\ Finds(r)'
    BY <2>1, <2>2, <2>4 DEF Begin, GoTo, Finds, Settled, Exists
  <2> QED
    BY <2>3, <2>5, <2>6, Frame
<1>2. CASE WriteRow(r)
  <2>1. PICK c \in Customers : Has(r, c)
    BY <1>2, AtWork DEF WriteRow
  <2>2. /\ pc[r] = "write" /\ Exists(c)
        /\ rows' = [rows EXCEPT ![c] = Updated(r)]
        /\ UNCHANGED <<used, secrets>>
    BY <1>2, <2>1 DEF WriteRow
  <2>3. rows[c].pppoe = req[r].pppoe
    BY <1>2, <2>1 DEF WriteRow, Disturb
  <2>4. /\ Updated(r) # None
        /\ Updated(r).mtid = rows[c].mtid /\ Updated(r).pppoe = rows[c].pppoe
    BY <2>1, <2>2, <2>3, UpdatedRow DEF Exists
  <2>5. CASE Answer(r, "write")
    <3>1. About(r, c)
      BY <2>1, <2>2, <2>5 DEF About, Answer, GoTo
    <3>2. pc'[r] = "idle" /\ Settled(c)'
      BY <2>1, <2>2, <2>4, <2>5 DEF Answer, GoTo, Finds, Settled, Exists
    <3> QED
      BY <2>1, <3>1, <3>2, OwnStep
  <2>6. CASE GoTo(r, "write", "find") /\ UNCHANGED <<req, seen, mtID>>
    <3>1. About(r, c)
      BY <2>1, <2>2, <2>6 DEF About, GoTo
    <3>2. pc'[r] = "find" /\ Finds(r)'
      BY <2>1, <2>2, <2>4, <2>6 DEF GoTo, Finds, Settled, Exists
    <3> QED
      BY <2>1, <3>1, <3>2, OwnStep
  <2> QED
    BY <1>2, <2>5, <2>6 DEF WriteRow
<1>3. CASE WriteRowFails(r)
  <2>1. pc[r] = "write" /\ Answer(r, "write") /\ UNCHANGED <<used, rows, secrets>>
    BY <1>3 DEF WriteRowFails, Answer, GoTo
  <2>2. PICK c \in Customers : Has(r, c)
    BY <2>1, AtWork
  <2>3. About(r, c)
    BY <2>1, <2>2 DEF About, Answer, GoTo
  <2>4. pc'[r] = "idle" /\ Settled(c)'
    BY <2>1, <2>2 DEF Answer, GoTo, Finds, Settled, Exists
  <2> QED
    BY <2>2, <2>3, <2>4, OwnStep
<1>4. CASE Find(r)
  <2>1. pc[r] = "find" /\ UNCHANGED <<used, rows, secrets, req>>
    BY <1>4 DEF Find
  <2>2. PICK c \in Customers : Has(r, c)
    BY <2>1, AtWork
  <2>3. req[r].op = "update"
    BY <2>1, <2>2 DEF Finds
  <2>4. GoTo(r, "find", "set") /\ \E s : mtID' = [mtID EXCEPT ![r] = s]
    BY <1>4, <2>3 DEF Find
  <2>5. About(r, c)
    BY <2>1, <2>2, <2>4 DEF About, GoTo
  <2>6. pc'[r] = "set" /\ Finds(r)'
    BY <2>1, <2>2, <2>3, <2>4 DEF GoTo, Finds, Settled, Exists
  <2> QED
    BY <2>2, <2>5, <2>6, OwnStep
<1>5. CASE FindNothing(r)
  <2>1. pc[r] = "find" /\ UNCHANGED <<used, rows, secrets>>
    BY <1>5 DEF FindNothing
  <2>2. PICK c \in Customers : Has(r, c)
    BY <2>1, AtWork
  <2>3. Answer(r, "find")
    BY <1>5, <2>1, <2>2 DEF FindNothing, Finds
  <2>4. About(r, c)
    BY <2>1, <2>2, <2>3 DEF About, Answer, GoTo
  <2>5. pc'[r] = "idle" /\ Settled(c)'
    BY <2>1, <2>2, <2>3 DEF Answer, GoTo, Finds, Settled, Exists
  <2> QED
    BY <2>2, <2>4, <2>5, OwnStep
<1>6. ASSUME Set(r) \/ SetFails(r) PROVE Undisturbed'
  <2>1. pc[r] = "set" /\ Answer(r, "set") /\ UNCHANGED <<used, rows>>
    BY <1>6 DEF Set, SetFails, Answer, GoTo
  <2>2. PICK c \in Customers : Has(r, c)
    BY <2>1, AtWork
  <2>3. \A d \in Customers : secrets'[d] = None <=> secrets[d] = None
    <3>1. UNCHANGED secrets \/ SetSecret(r)
      BY <1>6 DEF Set, SetFails
    <3>2. CASE SetSecret(r)
      <4>1. mtID[r] \in Customers
        BY <2>1 DEF RequestsKnow, MaybeId
      <4>2. secrets[mtID[r]] \in Secret /\ req[r].name \in MaybeName
        BY <2>2, <3>2, <4>1 DEF SetSecret, Ask
      <4> DEFINE n == IF req[r].name \in Names THEN req[r].name
                                               ELSE secrets[mtID[r]].name
      <4>3. PICK d \in {req[r].id, secrets[mtID[r]].data} :
              secrets' = [secrets EXCEPT ![mtID[r]] = [name |-> n, data |-> d]]
        BY <3>2 DEF SetSecret
      <4>4. [name |-> n, data |-> d] # None
        <5>1. n \in Names
          BY <4>2 DEF Secret
        <5>2. d \in Customers
          BY <2>2, <4>2 DEF Secret
        <5> HIDE DEF n
        <5>3. [name |-> n, data |-> d] \in Secret
          BY <5>1, <5>2 DEF Secret
        <5> QED
          BY <5>3
      <4> HIDE DEF n
      <4> QED
        BY <4>1, <4>2, <4>3, <4>4
    <3> QED
      BY <3>1, <3>2
  <2>4. About(r, c)
    BY <2>1, <2>2, <2>3 DEF About, Answer, GoTo
  <2>5. pc'[r] = "idle" /\ Settled(c)'
    BY <2>1, <2>2, <2>3 DEF Answer, GoTo, Finds, Settled, Exists
  <2> QED
    BY <2>2, <2>4, <2>5, OwnStep
<1> QED
  BY <1>1, <1>2, <1>3, <1>4, <1>5, <1>6 DEF Update

LEMMA UndisturbedDelete ==
  ASSUME KnowInv, IdsAreOwn, Undisturbed, NEW r \in Requests, Delete(r),
         Calm, Calm'
  PROVE  Undisturbed'
<1> USE DEF KnowInv, TypeOK, Has, Calm
<1>1. CASE StartDelete(r)
  <2>1. PICK c \in Customers, to \in {"erase", "remove", "find"} :
          /\ Exists(c)
          /\ Begin(r, [op |-> "delete", id |-> c, name |-> None,
                       pppoe |-> FALSE], to)
          /\ to = IF ~rows[c].pppoe THEN "erase"
                  ELSE IF rows[c].mtid # None THEN "remove"
                  ELSE IF rows[c].name # None THEN "find" ELSE "erase"
          /\ NoteOverlap(c)
          /\ mtID' = [mtID EXCEPT ![r] = rows[c].mtid]
    BY <1>1 DEF StartDelete
  <2>2. UNCHANGED <<used, rows, secrets>> /\ pc[r] = "idle"
    BY <1>1 DEF StartDelete, Begin, GoTo
  <2>3. InFlight(c) = {}
    BY <2>1 DEF NoteOverlap
  <2>4. c \in used /\ Settled(c)
    BY <2>1, <2>3 DEF Undisturbed, UnusedIsEmpty, IdleIsSettled
  <2>5. /\ rows[c].pppoe => to = "remove" /\ rows[c].mtid = c
        /\ ~rows[c].pppoe => to = "erase" /\ secrets[c] = None
    BY <2>1, <2>4 DEF Settled, Exists
  <2>6. About(r, c)
    BY <2>1, <2>2, <2>4 DEF About, Begin, GoTo
  <2>7. pc'[r] # "idle" /\ Finds(r)'
    BY <2>1, <2>2, <2>5 DEF Begin, GoTo, Finds, Settled, Exists
  <2> QED
    BY <2>3, <2>6, <2>7, Frame
<1>2. CASE Remove(r)
  <2>1. /\ pc[r] = "remove" /\ GoTo(r, "remove", "erase")
        /\ secrets' = [secrets EXCEPT ![mtID[r]] = None]
        /\ UNCHANGED <<used, rows, req, mtID>>
    BY <1>2 DEF Remove, GoTo, Disturb
  <2>2. PICK c \in Customers : Has(r, c)
    BY <2>1, AtWork
  <2>3. mtID[r] = c /\ Exists(c)
    BY <2>1, <2>2 DEF Finds
  <2>4. About(r, c)
    BY <2>1, <2>2, <2>3 DEF About, GoTo
  <2>5. pc'[r] = "erase" /\ Finds(r)'
    BY <2>1, <2>2, <2>3 DEF GoTo, Finds, Exists
  <2> QED
    BY <2>2, <2>4, <2>5, OwnStep
<1>3. ASSUME Erase(r) \/ EraseFails(r) PROVE Undisturbed'
  <2>1. pc[r] = "erase" /\ Answer(r, "erase") /\ UNCHANGED <<used, secrets>>
    BY <1>3 DEF Erase, EraseFails, Answer, GoTo
  <2>2. PICK c \in Customers : Has(r, c)
    BY <2>1, AtWork
  <2>3. rows' = [rows EXCEPT ![c] = None]
    BY <1>3, <2>1, <2>2 DEF Erase, EraseFails, Disturb, Finds
  <2>4. About(r, c)
    BY <2>1, <2>2, <2>3 DEF About, Answer, GoTo
  <2>5. pc'[r] = "idle" /\ Settled(c)'
    BY <2>1, <2>2, <2>3 DEF Answer, GoTo, Finds, Settled, Exists
  <2> QED
    BY <2>2, <2>4, <2>5, OwnStep
<1> QED
  BY <1>1, <1>2, <1>3 DEF Delete

\* A step that ends in calm starts in it, and one that ends without an excuse
\* starts without one.
Calmer == (Calm' => Calm) /\ (excused' = {} => excused = {})

LEMMA CalmBefore == [Next]_vars => Calmer
<1> SUFFICES ASSUME [Next]_vars PROVE Calmer
  OBVIOUS
<1> USE DEF Calmer, Calm
<1>1. CASE UNCHANGED excused
  BY <1>1
<1>2. CASE Disturb
  BY <1>2 DEF Disturb
<1>3. ASSUME NEW why \in {"refused", "skipped"}, Behind(why) PROVE Calmer
  BY <1>3 DEF Behind
<1>4. ASSUME NEW c, NoteOverlap(c) PROVE Calmer
  BY <1>4 DEF NoteOverlap
<1> HIDE DEF Calmer, Calm
<1>5. ASSUME NEW r \in Requests, Create(r) PROVE Calmer
  BY <1>1, <1>2, <1>5, Zenon
  DEF Create, StartCreate, Insert, InsertFails, Add, AddFails, Rollback, Record
<1>6. ASSUME NEW r \in Requests, Update(r) PROVE Calmer
  <2>1. CASE WriteRow(r)
    <3>1. Disturb \/ Behind("skipped") \/ UNCHANGED excused
      BY <2>1, Zenon DEF WriteRow
    <3> QED
      BY <1>1, <1>2, <1>3, <3>1
  <2>2. CASE SetFails(r)
    <3>1. Disturb \/ Behind("refused")
      BY <2>2, Zenon DEF SetFails
    <3> QED
      BY <1>2, <1>3, <3>1
  <2> QED
    BY <1>1, <1>2, <1>4, <1>6, <2>1, <2>2
    DEF Update, StartUpdate, WriteRowFails, Find, FindNothing, Set
<1>7. ASSUME NEW r \in Requests, Delete(r) PROVE Calmer
  BY <1>1, <1>2, <1>4, <1>7 DEF Delete, StartDelete, Remove, Erase, EraseFails
<1> QED
  BY <1>1, <1>5, <1>6, <1>7 DEF Next, vars

LEMMA IndInit == Init => IndInv
  BY KnowInit, IdsInit, UndisturbedInit DEF IndInv, KnowInv

LEMMA IndStep == IndInv /\ [Next]_vars => IndInv'
<1> SUFFICES ASSUME IndInv, [Next]_vars PROVE IndInv'
  OBVIOUS
<1>1. KnowInv /\ IdsAreOwn /\ KnowInv' /\ IdsAreOwn'
  BY KnowStep, IdsStep DEF IndInv, KnowInv
<1>2. ASSUME Calm' PROVE Undisturbed'
  <2>1. Calm /\ Undisturbed
    BY <1>2, CalmBefore DEF IndInv, Calmer
  <2>2. CASE UNCHANGED vars
    BY <2>1, <2>2
    DEF vars, requestVars, Undisturbed, OneAtATime, FoundAsLeft, Finds,
        UnusedIsEmpty, IdleIsSettled, InFlight, Settled, Exists
  <2> QED
    BY <1>1, <1>2, <2>1, <2>2, UndisturbedCreate, UndisturbedUpdate,
       UndisturbedDelete
    DEF Next
<1> QED
  BY <1>1, <1>2 DEF IndInv, KnowInv

LEMMA IndImplies == IndInv => RouterMatchesDatabase
<1> SUFFICES ASSUME IndInv, Calm, NEW c \in Customers, ~Settled(c)
             PROVE  \E r \in InFlight(c) : req[r].op # "update"
  BY DEF RouterMatchesDatabase
<1>1. PICK r \in InFlight(c) : TRUE
  BY DEF IndInv, Undisturbed, IdleIsSettled
<1>2. r \in Requests /\ pc[r] # "idle" /\ req[r].id = c /\ Finds(r)
  BY DEF InFlight, IndInv, Undisturbed, FoundAsLeft
<1> QED
  BY <1>2 DEF Finds

\* While no call has failed, no requests have overlapped and no service was
\* changed, the router holds exactly the secrets the database calls for, but
\* for those a create or a delete is at work on.
THEOREM RouterCorrect == Spec => []RouterMatchesDatabase
  BY IndInit, IndStep, IndImplies, PTL DEF Spec

(***************************************************************************)
(* Secrets follow their rows.                                              *)
(***************************************************************************)

\* The router never has two secrets of one name, whatever overlaps or fails.
UniqueNames ==
  \A c, d \in Customers :
    secrets[c] # None /\ secrets[d] # None /\ secrets[c].name = secrets[d].name
      => c = d

LEMMA UniqueStep == KnowInv /\ UniqueNames /\ [Next]_vars => UniqueNames'
<1> SUFFICES ASSUME KnowInv, UniqueNames, [Next]_vars PROVE UniqueNames'
  OBVIOUS
<1> USE DEF KnowInv, TypeOK
<1>1. CASE UNCHANGED secrets
  BY <1>1 DEF UniqueNames
<1>2. ASSUME NEW r \in Requests, pc[r] = "add", AddSecret(r) PROVE UniqueNames'
  <2>1. req[r] \in Ask
    BY <1>2 DEF RequestsKnow
  <2>2. PICK s : s.name = req[r].name /\ secrets' = [secrets EXCEPT ![req[r].id] = s]
    BY <1>2 DEF AddSecret
  <2> QED
    BY <1>2, <2>1, <2>2 DEF AddSecret, Named, UniqueNames, Ask
<1>3. ASSUME NEW r \in Requests, pc[r] = "set", SetSecret(r) PROVE UniqueNames'
  <2>1. mtID[r] \in Customers
    BY <1>3 DEF RequestsKnow, MaybeId
  <2>2. PICK n, s : /\ s.name = n /\ Named(n) \subseteq {mtID[r]}
                    /\ secrets' = [secrets EXCEPT ![mtID[r]] = s]
    <3>1. secrets[mtID[r]] \in Secret
      BY <1>3, <2>1 DEF SetSecret
    <3>2. Named(secrets[mtID[r]].name) \subseteq {mtID[r]}
      BY <1>3, <2>1 DEF SetSecret, Named, UniqueNames
    <3> QED
      BY <1>3, <3>1, <3>2 DEF SetSecret, Secret
  <2> QED
    BY <2>1, <2>2 DEF Named, UniqueNames
<1>4. ASSUME NEW r \in Requests, NEW c \in Customers,
             secrets' = [secrets EXCEPT ![c] = None]
      PROVE  UniqueNames'
  BY <1>4 DEF UniqueNames
<1>5. ASSUME NEW r \in Requests, Remove(r) PROVE UniqueNames'
  <2>1. mtID[r] \in Customers
    BY <1>5 DEF Remove, GoTo, RequestsKnow, MaybeId
  <2> QED
    BY <1>1, <1>4, <1>5, <2>1 DEF Remove
<1>6. ASSUME NEW r \in Requests, Create(r) PROVE UniqueNames'
  BY <1>1, <1>2, <1>6 DEF Create, StartCreate, Insert, InsertFails, Add,
     AddFails, Rollback, Record, GoTo
<1>7. ASSUME NEW r \in Requests, Update(r) PROVE UniqueNames'
  BY <1>1, <1>3, <1>7 DEF Update, StartUpdate, WriteRow, WriteRowFails, Find,
     FindNothing, Set, SetFails, Answer, GoTo
<1>8. ASSUME NEW r \in Requests, Delete(r) PROVE UniqueNames'
  BY <1>1, <1>5, <1>8 DEF Delete, StartDelete, Erase, EraseFails
<1> QED
  BY <1>1, <1>6, <1>7, <1>8 DEF Next, vars

Own(c) == secrets[c] # None => secrets[c].data = c

Agrees(c) ==
  secrets[c] # None /\ Exists(c) => rows[c].name \in {secrets[c].name, Blank}

\* What a request leaves in its customer's row and secret: an update that has
\* written the row has still to write the secret, which it finds by the name
\* that both had before.
Leaves(r) ==
  LET c == req[r].id IN
  /\ pc[r] \in {"find", "set"} =>
       /\ secrets[c] # None
       /\ secrets[c].name = seen[r]
       /\ rows[c].name = IF req[r].name = None THEN seen[r] ELSE req[r].name
  /\ pc[r] = "set" => mtID[r] = c
  /\ pc[r] \notin {"find", "set"} => Agrees(c)
  /\ pc[r] = "write" => seen[r] = rows[c].name
  /\ pc[r] = "add" => rows[c].name = req[r].name
  /\ pc[r] = "record" => secrets[c].name = req[r].name

FollowInv ==
  /\ \A c \in Customers : Own(c)
  /\ \A r \in Requests : pc[r] # "idle" => Leaves(r)
  /\ \A c \in Customers : InFlight(c) = {} => Agrees(c)

LEMMA FollowInit == Init => FollowInv /\ UniqueNames
  BY DEF Init, FollowInv, UniqueNames, Own, Agrees, InFlight

\* A step of r about c, to the last detail.
Alters(r, c) ==
  /\ \A q \in Requests \ {r} :
       /\ pc'[q] = pc[q] /\ req'[q] = req[q]
       /\ seen'[q] = seen[q] /\ mtID'[q] = mtID[q]
  /\ \A d \in Customers \ {c} : rows'[d] = rows[d] /\ secrets'[d] = secrets[d]
  /\ pc[r] # "idle" => req[r].id = c
  /\ pc'[r] # "idle" => req'[r].id = c

LEMMA FollowFrame ==
  ASSUME NEW r \in Requests, NEW c \in Customers, KnowInv, FollowInv,
         Alters(r, c), InFlight(c) \subseteq {r},
         Own(c)', pc'[r] = "idle" => Agrees(c)', pc'[r] # "idle" => Leaves(r)'
  PROVE  FollowInv'
<1>1. ASSUME NEW d \in Customers \ {c}
      PROVE  /\ InFlight(d)' = InFlight(d)
             /\ Own(d) => Own(d)'
             /\ Agrees(d) => Agrees(d)'
  BY DEF Alters, InFlight, Own, Agrees, Exists
<1>2. InFlight(c)' = {} => pc'[r] = "idle"
  BY DEF Alters, InFlight
<1>3. ASSUME NEW q \in Requests \ {r}, pc'[q] # "idle" PROVE Leaves(q)'
  <2>1. pc[q] # "idle" /\ Leaves(q)
    BY <1>3 DEF Alters, FollowInv
  <2>2. req[q].id \in Customers \ {c}
    BY <2>1 DEF InFlight, KnowInv, TypeOK, RequestsKnow, Ask
  <2>3. /\ rows'[req[q].id] = rows[req[q].id]
        /\ secrets'[req[q].id] = secrets[req[q].id]
        /\ pc'[q] = pc[q] /\ req'[q] = req[q]
        /\ seen'[q] = seen[q] /\ mtID'[q] = mtID[q]
    BY <2>2 DEF Alters
  <2> QED
    BY <2>1, <2>3 DEF Leaves, Agrees, Exists
<1> QED
  BY <1>1, <1>2, <1>3 DEF FollowInv

LEMMA FollowOwn ==
  ASSUME NEW r \in Requests, NEW c \in Customers, KnowInv, FollowInv,
         Has(r, c), Alters(r, c),
         Own(c)', pc'[r] = "idle" => Agrees(c)', pc'[r] # "idle" => Leaves(r)'
  PROVE  FollowInv'
  BY FollowFrame DEF Has

LEMMA FollowCreate ==
  ASSUME KnowInv, Undisturbed, FollowInv, NEW r \in Requests, Create(r),
         excused' = {}
  PROVE  FollowInv'
<1> USE DEF KnowInv, TypeOK
<1>1. CASE StartCreate(r)
  <2>1. PICK c \in Customers \ used, n \in MaybeName, p \in BOOLEAN :
          Begin(r, [op |-> "create", id |-> c, name |-> n, pppoe |-> p],
                "insert")
    BY <1>1 DEF StartCreate
  <2>2. UNCHANGED <<rows, secrets, seen, mtID>> /\ pc[r] = "idle"
    BY <1>1 DEF StartCreate, Begin, GoTo
  <2>3. secrets[c] = None /\ InFlight(c) = {}
    BY DEF Undisturbed, UnusedIsEmpty
  <2>4. Alters(r, c)
    BY <2>1, <2>2 DEF Alters, Begin, GoTo
  <2>5. pc'[r] = "insert" /\ Leaves(r)' /\ Own(c)'
    BY <2>1, <2>2, <2>3, <2>4 DEF Begin, GoTo, Alters, Leaves, Agrees, Own
  <2> QED
    BY <2>3, <2>4, <2>5, FollowFrame
<1>2. ASSUME pc[r] # "idle", ~StartCreate(r) PROVE FollowInv'
  <2>1. PICK c \in Customers : Has(r, c)
    BY <1>2, AtWork
  <2>2. Finds(r) /\ Leaves(r) /\ Own(c) /\ req[r].id = c /\ req[r] \in Ask
    BY <1>2, <2>1 DEF Has, FollowInv
  <2>3. CASE Insert(r)
    <3>1. pc[r] = "insert" /\ secrets[c] = None /\ UNCHANGED secrets
      BY <2>2, <2>3 DEF Insert, Finds
    <3>2. PICK row : /\ row.name = req[r].name
                     /\ rows' = [rows EXCEPT ![c] = row]
      BY <2>2, <2>3 DEF Insert
    <3>3. CASE Answer(r, "insert")
      <4>1. Alters(r, c) /\ pc'[r] = "idle"
        BY <2>2, <3>1, <3>2, <3>3 DEF Alters, Answer, GoTo
      <4> QED
        BY <2>1, <3>1, <4>1, FollowOwn DEF Own, Agrees
    <3>4. ASSUME NEW to \in {"rollback", "add"}, GoTo(r, "insert", to),
                 UNCHANGED <<req, seen, mtID>>
          PROVE  FollowInv'
      <4>1. Alters(r, c) /\ pc'[r] = to
        BY <2>2, <3>1, <3>2, <3>4 DEF Alters, GoTo
      <4>2. Leaves(r)'
        BY <2>2, <3>1, <3>2, <3>4, <4>1 DEF Leaves, Agrees
      <4> QED
        BY <2>1, <3>1, <3>4, <4>1, <4>2, FollowOwn DEF Own
    <3> QED
      BY <2>3, <3>3, <3>4 DEF Insert
  <2>4. CASE Add(r)
    <3>1. /\ pc[r] = "add" /\ GoTo(r, "add", "record")
          /\ UNCHANGED <<rows, req, seen>>
          /\ mtID' = [mtID EXCEPT ![r] = c]
          /\ rows[c].name = req[r].name
      BY <2>2, <2>4 DEF Add, GoTo, Leaves
    <3>2. PICK s : /\ s.name = req[r].name /\ s.data = c
                   /\ secrets' = [secrets EXCEPT ![c] = s]
      BY <2>2, <2>4 DEF Add, AddSecret
    <3>3. Alters(r, c) /\ pc'[r] = "record"
      BY <2>2, <3>1, <3>2 DEF Alters, GoTo
    <3>4. Leaves(r)' /\ Own(c)'
      BY <2>2, <3>1, <3>2, <3>3 DEF Leaves, Agrees, Own
    <3> QED
      BY <2>1, <3>3, <3>4, FollowOwn
  <2>5. CASE AddFails(r)
    <3>1. /\ pc[r] = "add" /\ GoTo(r, "add", "rollback") /\ secrets[c] = None
          /\ UNCHANGED <<rows, req, seen, mtID, secrets>>
      BY <2>2, <2>5 DEF AddFails, GoTo, Finds, Disturb
    <3>2. Alters(r, c) /\ pc'[r] = "rollback"
      BY <2>2, <3>1 DEF Alters, GoTo
    <3>3. Leaves(r)' /\ Own(c)'
      BY <2>2, <3>1, <3>2 DEF Leaves, Agrees, Own
    <3> QED
      BY <2>1, <3>2, <3>3, FollowOwn
  <2>6. CASE InsertFails(r) \/ Rollback(r)
    <3>1. /\ Answer(r, "insert") \/ Answer(r, "rollback")
          /\ pc[r] \in {"insert", "rollback"}
          /\ UNCHANGED secrets
          /\ UNCHANGED rows \/ rows' = [rows EXCEPT ![c] = None]
      BY <2>2, <2>6 DEF InsertFails, Rollback, Answer, GoTo
    <3>2. secrets[c] = None
      BY <2>2, <3>1 DEF Finds
    <3>3. Alters(r, c) /\ pc'[r] = "idle"
      BY <2>2, <3>1 DEF Alters, Answer, GoTo
    <3> QED
      BY <2>1, <3>1, <3>2, <3>3, FollowOwn DEF Own, Agrees
  <2>7. CASE Record(r)
    <3>1. pc[r] = "record" /\ Answer(r, "record") /\ UNCHANGED secrets
      BY <2>7 DEF Record, Answer, GoTo
    <3>2. secrets[c].name = req[r].name /\ Agrees(c)
      BY <2>2, <3>1 DEF Leaves
    <3>3. PICK row : /\ row.name = req[r].name
                     /\ UNCHANGED rows \/ rows' = [rows EXCEPT ![c] = row]
      BY <2>2, <2>7 DEF Record
    <3>4. Alters(r, c) /\ pc'[r] = "idle"
      BY <2>2, <3>1, <3>3 DEF Alters, Answer, GoTo
    <3>5. Agrees(c)' /\ Own(c)'
      BY <2>2, <3>1, <3>2, <3>3 DEF Agrees, Own, Exists
    <3> QED
      BY <2>1, <3>4, <3>5, FollowOwn
  <2> QED
    BY <1>2, <2>3, <2>4, <2>5, <2>6, <2>7 DEF Create
<1> QED
  BY <1>1, <1>2 DEF Create, Insert, InsertFails, Add, AddFails, Rollback,
     Record, Answer, GoTo

LEMMA FollowUpdate ==
  ASSUME KnowInv, Undisturbed, FollowInv, UniqueNames, NEW r \in Requests,
         Update(r), excused' = {}
  PROVE  FollowInv'
<1> USE DEF KnowInv, TypeOK
<1>1. CASE StartUpdate(r)
  <2>1. PICK c \in Customers, n \in MaybeName, p \in BOOLEAN :
          /\ Begin(r, [op |-> "update", id |-> c, name |-> n, pppoe |-> p],
                   "write")
          /\ seen' = [seen EXCEPT ![r] = rows[c].name]
          /\ NoteOverlap(c)
    BY <1>1 DEF StartUpdate
  <2>2. UNCHANGED <<rows, secrets, mtID>> /\ pc[r] = "idle"
    BY <1>1 DEF StartUpdate, Begin, GoTo
  <2>3. InFlight(c) = {}
    BY <2>1 DEF NoteOverlap
  <2>4. Agrees(c) /\ Own(c)
    BY <2>3 DEF FollowInv
  <2>5. Alters(r, c)
    BY <2>1, <2>2 DEF Alters, Begin, GoTo
  <2>6. pc'[r] = "write" /\ Leaves(r)' /\ Own(c)'
    BY <2>1, <2>2, <2>4, <2>5 DEF Begin, GoTo, Alters, Leaves, Agrees, Own, Exists
  <2> QED
    BY <2>3, <2>5, <2>6, FollowFrame
<1>2. ASSUME pc[r] # "idle", ~StartUpdate(r) PROVE FollowInv'
  <2>1. PICK c \in Customers : Has(r, c)
    BY <1>2, AtWork
  <2>2. Finds(r) /\ Leaves(r) /\ Own(c) /\ req[r].id = c /\ req[r] \in Ask
    BY <1>2, <2>1 DEF Has, FollowInv
  <2>3. CASE WriteRow(r)
    <3>1. /\ pc[r] = "write" /\ Exists(c) /\ UNCHANGED secrets
          /\ rows' = [rows EXCEPT ![c] = Updated(r)]
          /\ rows[c].pppoe = req[r].pppoe
          /\ seen[r] = rows[c].name /\ Agrees(c) /\ Settled(c)
      BY <2>2, <2>3 DEF WriteRow, Finds, Leaves, Disturb
    <3>2. Updated(r).name = IF req[r].name = None THEN rows[c].name ELSE req[r].name
      <4>1. rows[c] \in Row
        BY <3>1 DEF Exists
      <4> QED
        BY <2>2, <4>1 DEF Updated, Row
    <3>3. CASE ~(req[r].pppoe /\ seen[r] \in Names) /\ Answer(r, "write")
      <4>1. req[r].name \notin Names
        BY <2>2, <2>3, <3>1, <3>3 DEF WriteRow, Behind, Calm
      <4>2. secrets[c] # None => rows[c].name = Blank
        <5>1. secrets[c] # None => secrets[c].name \in Names
          BY DEF Secret
        <5> QED
          BY <3>1, <3>3, <5>1 DEF Settled, Agrees, Exists
      <4>3. Alters(r, c) /\ pc'[r] = "idle"
        BY <2>2, <3>1, <3>3 DEF Alters, Answer, GoTo
      <4>4. secrets[c] # None => rows'[c].name = Blank
        BY <2>2, <3>1, <3>2, <4>1, <4>2 DEF Ask, MaybeName
      <4>5. Agrees(c)' /\ Own(c)'
        BY <2>2, <3>1, <4>4 DEF Own, Agrees
      <4> QED
        BY <2>1, <4>3, <4>5, FollowOwn
    <3>4. CASE /\ req[r].pppoe /\ seen[r] \in Names
               /\ GoTo(r, "write", "find")
               /\ UNCHANGED <<req, seen, mtID>>
      <4>1. Alters(r, c) /\ pc'[r] = "find"
        BY <2>2, <3>1, <3>4 DEF Alters, GoTo
      <4>2. secrets[c] # None /\ secrets[c].name = rows[c].name
        BY <3>1, <3>4 DEF Settled, Agrees, Exists
      <4>3. Leaves(r)' /\ Own(c)'
        BY <2>2, <3>1, <3>2, <3>4, <4>1, <4>2 DEF Leaves, Own
      <4> QED
        BY <2>1, <4>1, <4>3, FollowOwn
    <3> QED
      BY <2>3, <3>3, <3>4 DEF WriteRow
  <2>4. CASE WriteRowFails(r)
    <3>1. /\ pc[r] = "write" /\ Answer(r, "write") /\ Agrees(c)
          /\ UNCHANGED <<rows, secrets>>
      BY <2>2, <2>4 DEF WriteRowFails, Answer, GoTo, Leaves
    <3>2. Alters(r, c) /\ pc'[r] = "idle"
      BY <2>2, <3>1 DEF Alters, Answer, GoTo
    <3>3. Agrees(c)' /\ Own(c)'
      BY <2>2, <3>1 DEF Agrees, Own, Exists
    <3> QED
      BY <2>1, <3>2, <3>3, FollowOwn
  <2>5. CASE pc[r] = "find"
    <3>1. /\ secrets[c] # None /\ c \in Named(seen[r])
          /\ req[r].op = "update"
      BY <2>2, <2>5 DEF Leaves, Finds, Named
    <3>2. ~FindNothing(r)
      BY <3>1 DEF FindNothing, Disturb
    <3>3. Find(r)
      BY <1>2, <2>5, <3>2 DEF Update, WriteRow, WriteRowFails, Set, SetFails,
                              Answer, GoTo
    <3>4. PICK s \in Named(seen[r]) :
            GoTo(r, "find", "set") /\ mtID' = [mtID EXCEPT ![r] = s]
      BY <3>1, <3>3 DEF Find
    <3>5. s = c
      BY <3>1, <3>4 DEF Named, UniqueNames
    <3>6. UNCHANGED <<rows, secrets, req, seen>>
      BY <3>3 DEF Find
    <3>7. Alters(r, c) /\ pc'[r] = "set"
      BY <2>2, <2>5, <3>4, <3>6 DEF Alters, GoTo
    <3>8. Leaves(r)' /\ Own(c)'
      BY <2>2, <2>5, <3>4, <3>5, <3>6, <3>7 DEF Leaves, Own
    <3> QED
      BY <2>1, <3>7, <3>8, FollowOwn
  <2>6. CASE Set(r)
    <3>1. pc[r] = "set" /\ Answer(r, "set") /\ SetSecret(r) /\ UNCHANGED rows
      BY <2>6 DEF Set, Answer, GoTo
    <3>2. /\ mtID[r] = c /\ secrets[c] # None
          /\ rows[c].name = IF req[r].name = None THEN secrets[c].name
                                                  ELSE req[r].name
          /\ secrets[c].data = c
      BY <2>2, <3>1 DEF Leaves, Own
    <3>3. secrets' = [secrets EXCEPT ![c] =
                       [name |-> IF req[r].name \in Names THEN req[r].name
                                                          ELSE secrets[c].name,
                        data |-> c]]
      BY <2>2, <3>1, <3>2 DEF SetSecret
    <3>4. Alters(r, c) /\ pc'[r] = "idle"
      BY <2>2, <3>1, <3>3 DEF Alters, Answer, GoTo
    <3>5. /\ secrets'[c].name = IF req[r].name \in Names THEN req[r].name
                                                       ELSE secrets[c].name
          /\ secrets'[c].data = c
      BY <3>2, <3>3 DEF Secret
    <3>6. Agrees(c)' /\ Own(c)'
      BY <2>2, <3>1, <3>2, <3>5 DEF Agrees, Own, Ask, MaybeName
    <3> QED
      BY <2>1, <3>4, <3>6, FollowOwn
  <2>7. ~SetFails(r)
    BY DEF SetFails, Disturb, Behind, Calm
  <2> QED
    BY <1>2, <2>3, <2>4, <2>5, <2>6, <2>7 DEF Update, Find, FindNothing
<1> QED
  BY <1>1, <1>2 DEF Update, WriteRow, WriteRowFails, Find, FindNothing, Set,
     SetFails, Answer, GoTo

LEMMA FollowDelete ==
  ASSUME KnowInv, Undisturbed, FollowInv, NEW r \in Requests, Delete(r),
         excused' = {}
  PROVE  FollowInv'
<1> USE DEF KnowInv, TypeOK
<1>1. CASE StartDelete(r)
  <2>1. PICK c \in Customers, to \in {"erase", "remove", "find"} :
          /\ Begin(r, [op |-> "delete", id |-> c, name |-> None,
                       pppoe |-> FALSE], to)
          /\ Exists(c)
          /\ to = "find" => rows[c].pppoe /\ rows[c].mtid = None
          /\ NoteOverlap(c)
          /\ seen' = [seen EXCEPT ![r] = rows[c].name]
          /\ mtID' = [mtID EXCEPT ![r] = rows[c].mtid]
    BY <1>1 DEF StartDelete
  <2>2. UNCHANGED <<rows, secrets>> /\ pc[r] = "idle"
    BY <1>1 DEF StartDelete, Begin, GoTo
  <2>3. InFlight(c) = {}
    BY <2>1 DEF NoteOverlap
  <2>4. Agrees(c) /\ Own(c) /\ to # "find"
    BY <2>1, <2>3 DEF FollowInv, Undisturbed, IdleIsSettled, Settled, Exists
  <2>5. Alters(r, c)
    BY <2>1, <2>2 DEF Alters, Begin, GoTo
  <2>6. pc'[r] = to /\ Leaves(r)' /\ Own(c)'
    BY <2>1, <2>2, <2>4, <2>5 DEF Begin, GoTo, Alters, Leaves, Agrees, Own, Exists
  <2> QED
    BY <2>1, <2>3, <2>5, <2>6, FollowFrame
<1>2. ASSUME pc[r] # "idle", ~StartDelete(r) PROVE FollowInv'
  <2>1. PICK c \in Customers : Has(r, c)
    BY <1>2, AtWork
  <2>2. Finds(r) /\ Leaves(r) /\ Own(c) /\ req[r].id = c
    BY <1>2, <2>1 DEF Has, FollowInv
  <2>3. CASE Remove(r)
    <3>1. /\ pc[r] = "remove" /\ GoTo(r, "remove", "erase") /\ mtID[r] = c
          /\ UNCHANGED <<rows, req, seen, mtID>>
          /\ secrets' = [secrets EXCEPT ![c] = None]
      BY <2>2, <2>3 DEF Remove, GoTo, Finds, Disturb
    <3>2. Alters(r, c) /\ pc'[r] = "erase"
      BY <2>2, <3>1 DEF Alters, GoTo
    <3>3. Leaves(r)' /\ Own(c)'
      BY <2>2, <3>1, <3>2 DEF Leaves, Agrees, Own
    <3> QED
      BY <2>1, <3>2, <3>3, FollowOwn
  <2>4. CASE Erase(r) \/ EraseFails(r)
    <3>1. /\ pc[r] = "erase" /\ Answer(r, "erase") /\ UNCHANGED secrets
          /\ UNCHANGED rows \/ rows' = [rows EXCEPT ![c] = None]
          /\ secrets[c] = None
      BY <2>2, <2>4 DEF Erase, EraseFails, Answer, GoTo, Finds
    <3>2. Alters(r, c) /\ pc'[r] = "idle"
      BY <2>2, <3>1 DEF Alters, Answer, GoTo
    <3> QED
      BY <2>1, <3>1, <3>2, FollowOwn DEF Own, Agrees
  <2> QED
    BY <1>2, <2>3, <2>4 DEF Delete
<1> QED
  BY <1>1, <1>2 DEF Delete, Remove, Erase, EraseFails, Answer, GoTo

FollowsInv == IndInv /\ UniqueNames /\ (excused = {} => FollowInv)

LEMMA FollowStep == FollowsInv /\ [Next]_vars => FollowsInv'
<1> SUFFICES ASSUME FollowsInv, [Next]_vars PROVE FollowsInv'
  OBVIOUS
<1>1. KnowInv /\ IndInv /\ UniqueNames
  BY DEF FollowsInv, IndInv, KnowInv
<1>2. IndInv' /\ UniqueNames'
  BY <1>1, IndStep, UniqueStep
<1>3. ASSUME excused' = {} PROVE FollowInv'
  <2>1. excused = {} /\ FollowInv /\ Undisturbed
    BY <1>3, CalmBefore DEF FollowsInv, IndInv, Calmer, Calm
  <2>2. CASE UNCHANGED vars
    BY <2>1, <2>2
    DEF vars, requestVars, FollowInv, Own, Leaves, Agrees, InFlight, Exists
  <2> QED
    BY <1>1, <1>3, <2>1, <2>2, FollowCreate, FollowUpdate, FollowDelete DEF Next
<1> QED
  BY <1>2, <1>3 DEF FollowsInv

LEMMA FollowsHold == Spec => []FollowsInv
<1>1. Init => FollowsInv
  BY IndInit, FollowInit DEF FollowsInv
<1> QED
  BY <1>1, FollowStep, PTL DEF Spec

\* Requests that fail nowhere, find the router refuse nothing, have their
\* customers to themselves and give no name to a row that has none leave each
\* customer's secret with its own credentials and the row's user name, if that
\* is not empty, although rows, names and secrets are written in separate steps
\* among those of requests for other customers.
THEOREM SecretsCorrect == Spec => []SecretsFollowRows
<1>1. FollowsInv => SecretsFollowRows
  <2> SUFFICES ASSUME FollowsInv, excused = {}, NEW c \in Customers,
                      secrets[c] # None
               PROVE  /\ secrets[c].data = c
                      /\ InFlight(c) = {} =>
                           Exists(c) /\ rows[c].name \in {secrets[c].name, Blank}
    BY DEF SecretsFollowRows
  <2>1. FollowInv /\ Undisturbed
    BY DEF FollowsInv, IndInv, Calm
  <2> QED
    BY <2>1 DEF FollowInv, Own, Agrees, Undisturbed, IdleIsSettled, Settled
<1> QED
  BY <1>1, FollowsHold, PTL
=============================================================================
