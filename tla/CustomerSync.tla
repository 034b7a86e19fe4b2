----------------------------- MODULE CustomerSync -----------------------------
(***************************************************************************)
(* CustomerService: customers are rows of the database, and each PPPoE     *)
(* customer has a secret on the router.  Every call to one of the two is a *)
(* step of its own, any of them may fail, and the requests of the HTTP     *)
(* handlers interleave: nothing locks a customer.                          *)
(*                                                                         *)
(* A create has a new id (a UUID) and adds one secret at most, so the      *)
(* router's name for that secret is taken to be the customer's id.  Of the *)
(* fields of a row only those that meet the router are kept; the password  *)
(* of a secret is represented by the customer it was sent for.             *)
(***************************************************************************)
EXTENDS Integers, FiniteSets

CONSTANTS
  Customers,  \* customer ids, and router ids of the secrets made for them
  Requests,   \* HTTP requests that may be served at the same time
  Names,      \* PPPoE user names
  Blank,      \* the empty user name, which a row may have and a secret may not
  None        \* no row, no secret, no name (NULL), no id

VARIABLES
  used,     \* ids that have been given to a create
  rows,     \* the customers table
  secrets,  \* /ppp/secret on the router
  pc,       \* where each request is
  req,      \* what it asks for
  seen,     \* the user name an update or a delete read first
  mtID,     \* the local variable mtID
  excused   \* history: what has happened that may part rows and secrets

requestVars == <<pc, req, seen, mtID>>
vars == <<used, rows, secrets, requestVars, excused>>

MaybeName == Names \cup {Blank, None}
MaybeId   == Customers \cup {None}
Row    == [name : MaybeName, pppoe : BOOLEAN, mtid : MaybeId]
Secret == [name : Names, data : Customers]
Ask    == [op : {"create", "update", "delete"}, id : Customers,
           name : MaybeName, pppoe : BOOLEAN]

ASSUME CustomerSyncAssumption ==
  /\ None \notin Customers \cup Names \cup {Blank} \cup Row \cup Secret \cup Ask
  /\ Blank \notin Names

TypeOK ==
  /\ used \subseteq Customers
  /\ rows \in [Customers -> Row \cup {None}]
  /\ secrets \in [Customers -> Secret \cup {None}]
  /\ pc \in [Requests -> {"idle", "insert", "add", "rollback", "record",
                          "write", "find", "set", "remove", "erase"}]
  /\ req \in [Requests -> Ask \cup {None}]
  /\ seen \in [Requests -> MaybeName]
  /\ mtID \in [Requests -> MaybeId]
  /\ excused \subseteq {"disturbed", "refused", "skipped"}

Init ==
  /\ used = {}
  /\ rows = [c \in Customers |-> None]
  /\ secrets = [c \in Customers |-> None]
  /\ pc = [r \in Requests |-> "idle"]
  /\ req = [r \in Requests |-> None]
  /\ seen = [r \in Requests |-> None]
  /\ mtID = [r \in Requests |-> None]
  /\ excused = {}

(***************************************************************************)
(* Helpers.                                                                *)
(***************************************************************************)
Exists(c) == rows[c] # None

\* UNIQUE (mikrotik_id, pppoe_username): NULL names never conflict, empty ones do.
Conflict(c, row) ==
  row.name # None /\ \E d \in Customers \ {c} :
    Exists(d) /\ rows[d].name = row.name /\ rows[d].mtid = row.mtid

\* Secrets that have a name: the router never has two.
Named(n) == {s \in Customers : secrets[s] # None /\ secrets[s].name = n}

InFlight(c) == {r \in Requests : pc[r] # "idle" /\ req[r].id = c}

GoTo(r, from, to) ==
  /\ pc[r] = from
  /\ pc' = [pc EXCEPT ![r] = to]

\* The handler answers, and what the request knew is forgotten.
Answer(r, from) ==
  /\ GoTo(r, from, "idle")
  /\ req' = [req EXCEPT ![r] = None]
  /\ seen' = [seen EXCEPT ![r] = None]
  /\ mtID' = [mtID EXCEPT ![r] = None]

Begin(r, what, to) ==
  /\ GoTo(r, "idle", to)
  /\ req' = [req EXCEPT ![r] = what]

\* No call that matters has failed, no two requests for one customer have
\* overlapped and no customer has changed its kind of service.  But the router
\* may have refused an update, or not have been told of one.
Calm == excused \subseteq {"refused", "skipped"}

\* A call fails whose failing leaves something half done.
Disturb == excused' = {"disturbed"}

\* The row has changed and the secret has not.
Behind(why) == excused' = IF Calm THEN excused \cup {why} ELSE excused

\* A request starts on c while another one is at work on it.
NoteOverlap(c) ==
  excused' = IF InFlight(c) = {} THEN excused ELSE {"disturbed"}

(***************************************************************************)
(* CreateCustomer.                                                         *)
(***************************************************************************)
StartCreate(r) ==
  /\ \E c \in Customers \ used, n \in MaybeName, p \in BOOLEAN :
       /\ Begin(r, [op |-> "create", id |-> c, name |-> n, pppoe |-> p],
                "insert")
       /\ used' = used \cup {c}
  /\ UNCHANGED <<rows, secrets, seen, mtID, excused>>

\* The row is inserted, with an empty mikrotik_id.  Other services are done
\* then; without a user name the row is taken back.
Insert(r) ==
  LET q   == req[r]
      row == [name |-> q.name, pppoe |-> q.pppoe, mtid |-> None]
  IN
  /\ pc[r] = "insert"
  /\ ~Conflict(q.id, row)
  /\ rows' = [rows EXCEPT ![q.id] = row]
  /\ \/ ~q.pppoe /\ Answer(r, "insert")
     \/ /\ q.pppoe
        /\ GoTo(r, "insert", IF q.name \in Names THEN "add" ELSE "rollback")
        /\ UNCHANGED <<req, seen, mtID>>
  /\ UNCHANGED <<used, secrets, excused>>

\* The database refuses the row, for its user name or another reason, or fails.
InsertFails(r) ==
  /\ Answer(r, "insert")
  /\ UNCHANGED <<used, rows, secrets, excused>>

\* What CreatePPPoESecret does on the router when it can.
AddSecret(r) ==
  /\ Named(req[r].name) = {}
  /\ secrets' = [secrets EXCEPT ![req[r].id] =
                   [name |-> req[r].name, data |-> req[r].id]]

Add(r) ==
  /\ GoTo(r, "add", "record")
  /\ AddSecret(r)
  /\ mtID' = [mtID EXCEPT ![r] = req[r].id]
  /\ UNCHANGED <<used, rows, req, seen, excused>>

\* The name is taken, or the connection fails, before the command has reached
\* the router or after.
AddFails(r) ==
  /\ GoTo(r, "add", "rollback")
  /\ \/ UNCHANGED <<secrets, excused>>
     \/ AddSecret(r) /\ Disturb
  /\ UNCHANGED <<used, rows, req, seen, mtID>>

\* s.repo.DeleteCustomer(c.ID), its error ignored.
Rollback(r) ==
  /\ Answer(r, "rollback")
  /\ \/ rows' = [rows EXCEPT ![req[r].id] = None] /\ UNCHANGED excused
     \/ Disturb /\ UNCHANGED rows
  /\ UNCHANGED <<used, secrets>>

\* Mutant of Record: it inserts a row that is gone.
RecordUpserts(r) ==
  /\ Answer(r, "record")
  /\ rows' = [rows EXCEPT ![req[r].id] =
                [name |-> req[r].name, pppoe |-> TRUE, mtid |-> mtID[r]]]
  /\ UNCHANGED <<used, secrets, excused>>

\* The row gets its mikrotik_id, and once more every field of the request;
\* nobody looks whether the update failed or the row is gone.
Record(r) ==
  LET row == [name |-> req[r].name, pppoe |-> TRUE, mtid |-> mtID[r]] IN
  /\ Answer(r, "record")
  /\ \/ /\ Exists(req[r].id)
        /\ rows' = [rows EXCEPT ![req[r].id] = row]
        /\ UNCHANGED excused
     \/ ~Exists(req[r].id) /\ UNCHANGED <<rows, excused>>
     \/ Disturb /\ UNCHANGED rows
  /\ UNCHANGED <<used, secrets>>

(***************************************************************************)
(* UpdateCustomer.  The request may leave the user name out (None) or send *)
(* an empty one (Blank), and the password, too; it never carries a         *)
(* mikrotik_id.                                                            *)
(***************************************************************************)
\* Mutant of StartUpdate: the secret will be looked for by the new user name.
StartUpdateByNewName(r) ==
  /\ \E c \in Customers, n \in MaybeName, p \in BOOLEAN :
       /\ Exists(c)
       /\ Begin(r, [op |-> "update", id |-> c, name |-> n, pppoe |-> p],
                "write")
       /\ seen' = [seen EXCEPT ![r] = n]
       /\ NoteOverlap(c)
  /\ UNCHANGED <<used, rows, secrets, mtID>>

StartUpdate(r) ==
  /\ \E c \in Customers, n \in MaybeName, p \in BOOLEAN :
       /\ Exists(c)
       /\ Begin(r, [op |-> "update", id |-> c, name |-> n, pppoe |-> p],
                "write")
       /\ seen' = [seen EXCEPT ![r] = rows[c].name]
       /\ NoteOverlap(c)
  /\ UNCHANGED <<used, rows, secrets, mtID>>

\* The row with the fields the request has: Updates() skips those that are nil,
\* but not an empty user name.
Updated(r) ==
  LET row == rows[req[r].id] IN
  [row EXCEPT !.name  = IF req[r].name = None THEN @ ELSE req[r].name,
              !.pppoe = req[r].pppoe]

\* The row is written; then the secret is looked for by the old user name, if
\* the service is (now) PPPoE and there was one.  Without one the router is left
\* alone, though the row may have a name now.
WriteRow(r) ==
  LET c     == req[r].id
      finds == req[r].pppoe /\ seen[r] \in Names
  IN
  /\ pc[r] = "write"
  /\ Exists(c)
  /\ ~Conflict(c, Updated(r))
  /\ rows' = [rows EXCEPT ![c] = Updated(r)]
  /\ IF rows[c].pppoe # req[r].pppoe THEN Disturb
     ELSE IF ~finds /\ req[r].name \in Names THEN Behind("skipped")
     ELSE UNCHANGED excused
  /\ \/ finds /\ GoTo(r, "write", "find") /\ UNCHANGED <<req, seen, mtID>>
     \/ ~finds /\ Answer(r, "write")
  /\ UNCHANGED <<used, secrets>>

\* The row is gone, the database refuses the update, or fails.
WriteRowFails(r) ==
  /\ Answer(r, "write")
  /\ UNCHANGED <<used, rows, secrets, excused>>

\* FindPPPoESecretID, for an update and for a delete.
Find(r) ==
  /\ pc[r] = "find"
  /\ \E s \in Named(seen[r]) :
       /\ GoTo(r, "find", IF req[r].op = "update" THEN "set" ELSE "remove")
       /\ mtID' = [mtID EXCEPT ![r] = s]
  /\ UNCHANGED <<used, rows, secrets, req, seen, excused>>

\* No such secret, or the call fails: an update leaves the router alone and
\* succeeds, a delete goes on with the row.
FindNothing(r) ==
  /\ pc[r] = "find"
  /\ \/ Named(seen[r]) = {} /\ UNCHANGED excused
     \/ Disturb
  /\ \/ req[r].op = "update" /\ Answer(r, "find")
     \/ /\ req[r].op = "delete"
        /\ GoTo(r, "find", "erase")
        /\ UNCHANGED <<req, seen, mtID>>
  /\ UNCHANGED <<used, rows, secrets>>

\* What UpdatePPPoESecret does on the router when it can: an empty user name or
\* password is not sent, and the secret keeps its own.
SetSecret(r) ==
  LET s == mtID[r] IN
  /\ secrets[s] # None
  /\ Named(req[r].name) \subseteq {s}
  /\ \E data \in {req[r].id, secrets[s].data} :
       secrets' = [secrets EXCEPT ![s] =
         [name |-> IF req[r].name \in Names THEN req[r].name ELSE @.name,
          data |-> data]]

\* Mutant of Set: the id that was found is stored in the row.
SetRemembers(r) ==
  /\ Answer(r, "set")
  /\ SetSecret(r)
  /\ rows' = [c \in Customers |-> IF c = req[r].id /\ Exists(c)
                                   THEN [rows[c] EXCEPT !.mtid = mtID[r]]
                                   ELSE rows[c]]
  /\ UNCHANGED <<used, excused>>

Set(r) ==
  /\ Answer(r, "set")
  /\ SetSecret(r)
  /\ UNCHANGED <<used, rows, excused>>

\* The router refuses: the secret is gone or another one has the name; or the
\* connection fails.  The row stays as it was written.
SetFails(r) ==
  /\ Answer(r, "set")
  /\ \/ /\ secrets[mtID[r]] # None => Named(req[r].name) \ {mtID[r]} # {}
        /\ Behind("refused")
        /\ UNCHANGED secrets
     \/ Disturb /\ (SetSecret(r) \/ UNCHANGED secrets)
  /\ UNCHANGED <<used, rows>>

(***************************************************************************)
(* DeleteCustomer.                                                         *)
(***************************************************************************)
\* Mutant of StartDelete: the secret is left to the router.
StartDeleteRowOnly(r) ==
  /\ \E c \in Customers :
       /\ Exists(c)
       /\ NoteOverlap(c)
       /\ Begin(r, [op |-> "delete", id |-> c, name |-> None, pppoe |-> FALSE],
                "erase")
       /\ seen' = [seen EXCEPT ![r] = rows[c].name]
  /\ UNCHANGED <<used, rows, secrets, mtID>>

\* The row is read.  A PPPoE customer's secret is removed by its mikrotik_id,
\* or looked for by its user name if there is none.
StartDelete(r) ==
  /\ \E c \in Customers :
       /\ Exists(c)
       /\ NoteOverlap(c)
       /\ Begin(r, [op |-> "delete", id |-> c, name |-> None, pppoe |-> FALSE],
                IF ~rows[c].pppoe THEN "erase"
                ELSE IF rows[c].mtid # None THEN "remove"
                ELSE IF rows[c].name # None THEN "find" ELSE "erase")
       /\ seen' = [seen EXCEPT ![r] = rows[c].name]
       /\ mtID' = [mtID EXCEPT ![r] = rows[c].mtid]
  /\ UNCHANGED <<used, rows, secrets>>

\* The secret is removed; if it is not there, or the call fails, that is only
\* logged.
Remove(r) ==
  /\ GoTo(r, "remove", "erase")
  /\ \/ secrets' = [secrets EXCEPT ![mtID[r]] = None] /\ UNCHANGED excused
     \/ Disturb /\ UNCHANGED secrets
  /\ UNCHANGED <<used, rows, req, seen, mtID>>

Erase(r) ==
  /\ Answer(r, "erase")
  /\ Exists(req[r].id)
  /\ rows' = [rows EXCEPT ![req[r].id] = None]
  /\ UNCHANGED <<used, secrets, excused>>

EraseFails(r) ==
  /\ Answer(r, "erase")
  /\ \/ ~Exists(req[r].id) /\ UNCHANGED excused
     \/ Disturb
  /\ UNCHANGED <<used, rows, secrets>>

-----------------------------------------------------------------------------

Create(r) ==
  \/ StartCreate(r) \/ Insert(r) \/ InsertFails(r) \/ Add(r) \/ AddFails(r)
  \/ Rollback(r) \/ Record(r)

Update(r) ==
  \/ StartUpdate(r) \/ WriteRow(r) \/ WriteRowFails(r)
  \/ Find(r) \/ FindNothing(r) \/ Set(r) \/ SetFails(r)

Delete(r) ==
  StartDelete(r) \/ Remove(r) \/ Erase(r) \/ EraseFails(r)

\* Every id is used up and every row deleted.
Finished ==
  /\ used = Customers
  /\ \A c \in Customers : ~Exists(c) /\ InFlight(c) = {}

Next ==
  \/ \E r \in Requests : Create(r) \/ Update(r) \/ Delete(r)
  \/ Finished /\ UNCHANGED vars

Spec == Init /\ [][Next]_vars

-----------------------------------------------------------------------------
(***************************************************************************)
(* Safety.                                                                 *)
(***************************************************************************)

\* The mikrotik_id of a row is the id of the secret that was made for it, so
\* no two rows share one and a delete by mikrotik_id removes nobody else's
\* secret, whatever overlaps and whatever fails.
IdsAreOwn ==
  \A c \in Customers : Exists(c) => rows[c].mtid \in {None, c}

\* A row that was deleted does not come back: not by the update that ends a
\* create, nor by one that read the row before it was deleted.
DeletedStaysDeleted ==
  [][\A c \in Customers :
       ~Exists(c) /\ Exists(c)' =>
         \E r \in Requests : pc[r] = "insert" /\ req[r].id = c]_vars

\* Nothing is left half done for c: the router has its secret exactly if it is
\* a PPPoE customer.
Settled(c) ==
  \/ ~Exists(c) /\ secrets[c] = None
  \/ Exists(c) /\ ~rows[c].pppoe /\ secrets[c] = None
  \/ Exists(c) /\ rows[c].pppoe /\ rows[c].mtid = c /\ secrets[c] # None

\* As long as it is calm, the router holds the secrets of the PPPoE customers
\* and no other, but for those a create or a delete is at work on.  Refused
\* names are no excuse, nor is an update.
RouterMatchesDatabase ==
  Calm =>
    \A c \in Customers :
      Settled(c) \/ \E r \in InFlight(c) : req[r].op # "update"

\* As long as the router has not refused an update either, and none has given a
\* name to a row that had lost its own, a secret carries its own customer's
\* password, and when no request is at work on the customer, the user name of
\* its row, unless that is empty.  The row is written before the secret is
\* looked for by the old name, and other customers may give up or take that
\* name at any point; the uniqueness of the router's names must make that safe.
SecretsFollowRows ==
  excused = {} =>
    \A c \in Customers :
      secrets[c] # None =>
        /\ secrets[c].data = c
        /\ InFlight(c) = {} =>
             Exists(c) /\ rows[c].name \in {secrets[c].name, Blank}

\* What these rest on.  A request knows what its next step needs.
RequestsKnow ==
  \A r \in Requests :
    /\ pc[r] = "idle" <=> req[r] = None
    /\ pc[r] = "add" => req[r].name \in Names
    /\ pc[r] = "record" => mtID[r] = req[r].id
    /\ pc[r] \in {"set", "remove"} => mtID[r] # None

\* While it is calm requests have their customers for themselves ...
OneAtATime ==
  \A c \in Customers : \A r, q \in InFlight(c) : r = q

\* ... and each finds its customer as its last step left it.
Finds(r) ==
  LET c == req[r].id IN
  /\ pc[r] = "insert" => ~Exists(c) /\ secrets[c] = None
  /\ pc[r] \in {"add", "rollback"} => Exists(c) /\ secrets[c] = None
  /\ pc[r] = "record" => Exists(c) /\ secrets[c] # None
  /\ pc[r] = "remove" => Exists(c) /\ mtID[r] = c
  /\ pc[r] = "erase" => Exists(c) /\ secrets[c] = None
  /\ pc[r] \in {"write", "find", "set"} => Settled(c)
  /\ req[r].op = "update" <=> pc[r] \in {"write", "find", "set"}

FoundAsLeft == \A r \in Requests : pc[r] # "idle" => Finds(r)

UnusedIsEmpty ==
  \A c \in Customers \ used :
    ~Exists(c) /\ secrets[c] = None /\ InFlight(c) = {}

IdleIsSettled == \A c \in Customers : InFlight(c) = {} => Settled(c)

Undisturbed == OneAtATime /\ FoundAsLeft /\ UnusedIsEmpty /\ IdleIsSettled

\* The inductive invariant of the proofs.
IndInv ==
  /\ TypeOK
  /\ RequestsKnow
  /\ IdsAreOwn
  /\ Calm => Undisturbed

-----------------------------------------------------------------------------
(***************************************************************************)
(* What a comment says and the code does not do; it is refuted by a run    *)
(* with one request at a time.                                             *)
(***************************************************************************)

\* "UpdateCustomer updates customer in DB and MikroTik": the customer, and not
\* the secret of another one.
SecretsAreOwn ==
  excused \subseteq {"refused"} =>
    \A c \in Customers : secrets[c] # None => secrets[c].data = c
=============================================================================
