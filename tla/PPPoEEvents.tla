----------------------------- MODULE PPPoEEvents -----------------------------
(***************************************************************************)
(* PPPoE sessions and what the program knows of them.  When a session      *)
(* starts or ends, the router's on-up or on-down script posts a callback;  *)
(* its handler looks the customer up by user name, updates the row and     *)
(* publishes an event for the dashboards.  Callbacks run side by side with *)
(* each other and with CustomerService, which creates and deletes rows.    *)
(*                                                                         *)
(* A customer id stands for its row, its user name and its session.  Rows  *)
(* keep the columns that callbacks write.  Of mikrotik:events the last     *)
(* event of every customer is kept, which is what a dashboard shows.       *)
(***************************************************************************)
EXTENDS Integers, FiniteSets

CONSTANTS
  Customers,  \* customers with a PPPoE user name
  Callbacks,  \* callbacks that may be under way at the same time
  Addresses,  \* the router's address pool
  None        \* no address, no row, no callback, no event

VARIABLES
  session,   \* the address of each customer's session on the router
  created,   \* customers whose row has been inserted
  creating,  \* those whose create has not written the MikroTik ID yet
  rows,      \* the columns status and assigned_ip
  calls,     \* callbacks under way
  told,      \* the last event published about each customer
  excused    \* history: what has happened to each customer that may part its
             \* session and its row

vars == <<session, created, creating, rows, calls, told, excused>>

MaybeAddress == Addresses \cup {None}
Row   == [status : {"active", "inactive"}, ip : MaybeAddress]
Call  == [user : Customers, ip : MaybeAddress, at : {"find", "update", "publish"}]
Event == [status : {"connected", "disconnected"}, ip : MaybeAddress]

ASSUME PPPoEEventsAssumption ==
  None \notin Addresses \cup Row \cup Call \cup Event

TypeOK ==
  /\ session \in [Customers -> MaybeAddress]
  /\ created \subseteq Customers
  /\ creating \subseteq created
  /\ rows \in [Customers -> Row \cup {None}]
  /\ calls \in [Callbacks -> Call \cup {None}]
  /\ told \in [Customers -> Event \cup {None}]
  /\ excused \in [Customers -> SUBSET {"fault", "overlap", "create"}]

Init ==
  /\ session = [c \in Customers |-> None]
  /\ created = {} /\ creating = {}
  /\ rows = [c \in Customers |-> None]
  /\ calls = [k \in Callbacks |-> None]
  /\ told = [c \in Customers |-> None]
  /\ excused = [c \in Customers |-> {}]

(***************************************************************************)
(* Helpers.                                                                *)
(***************************************************************************)
Exists(c) == rows[c] # None

UnderWay(c) == {k \in Callbacks : calls[k] # None /\ calls[k].user = c}

Excuse(c, why) == excused' = [excused EXCEPT ![c] = @ \cup {why}]

At(k, step) == calls[k] # None /\ calls[k].at = step

Step(k, from, to) ==
  /\ At(k, from)
  /\ calls' = [calls EXCEPT ![k].at = to]

\* The handler answers the router's script.
Answer(k, from) ==
  /\ At(k, from)
  /\ calls' = [calls EXCEPT ![k] = None]

\* The script of c's profile runs; an earlier one may not be done.
Post(k, c, a) ==
  /\ calls[k] = None
  /\ calls' = [calls EXCEPT ![k] = [user |-> c, ip |-> a, at |-> "find"]]
  /\ IF UnderWay(c) = {} THEN UNCHANGED excused ELSE Excuse(c, "overlap")

(***************************************************************************)
(* The router.                                                             *)
(***************************************************************************)
SessionUp(k, c) ==
  /\ session[c] = None
  /\ \E a \in Addresses :
       /\ \A d \in Customers : session[d] # a
       /\ session' = [session EXCEPT ![c] = a]
       /\ Post(k, c, a)
  /\ UNCHANGED <<created, creating, rows, told>>

SessionDown(k, c) ==
  /\ session[c] # None
  /\ session' = [session EXCEPT ![c] = None]
  /\ Post(k, c, None)
  /\ UNCHANGED <<created, creating, rows, told>>

(***************************************************************************)
(* HandlePPPoEUp and HandlePPPoEDown.                                      *)
(***************************************************************************)

\* The request never arrives, cannot be parsed, or the lookup fails.
Lost(k) ==
  /\ Answer(k, "find")
  /\ Excuse(calls[k].user, "fault")
  /\ UNCHANGED <<session, created, creating, rows, told>>

\* Mutant of FindUser: only active customers are looked for.
FindActiveUser(k) ==
  /\ At(k, "find")
  /\ \/ /\ Exists(calls[k].user) /\ rows[calls[k].user].status = "active"
        /\ Step(k, "find", "update")
     \/ /\ Exists(calls[k].user) => rows[calls[k].user].status = "inactive"
        /\ Answer(k, "find")
  /\ UNCHANGED <<session, created, creating, rows, told, excused>>

\* GetCustomerByPPPoEUsername; the callback of an unknown user is ignored.
FindUser(k) ==
  /\ At(k, "find")
  /\ \/ Exists(calls[k].user) /\ Step(k, "find", "update")
     \/ ~Exists(calls[k].user) /\ Answer(k, "find")
  /\ UNCHANGED <<session, created, creating, rows, told, excused>>

\* The status that a callback writes.
StatusOf(call) == IF call.ip = None THEN "inactive" ELSE "active"

\* Mutants of UpdateStatus: an address that is there is kept; the row gets
\* the word of the event.
UpdateKeepsAddress(k) ==
  /\ Step(k, "update", "publish")
  /\ LET call == calls[k] IN
       /\ Exists(call.user)
       /\ rows' = [rows EXCEPT
                     ![call.user].status = StatusOf(call),
                     ![call.user].ip = IF @ = None THEN call.ip ELSE @]
  /\ UNCHANGED <<session, created, creating, told, excused>>

UpdateSaysConnected(k) ==
  /\ Step(k, "update", "publish")
  /\ Exists(calls[k].user)
  /\ rows' = [rows EXCEPT ![calls[k].user].status = "connected"]
  /\ UNCHANGED <<session, created, creating, told, excused>>

\* UpdateCustomerStatus: an up writes its address, a down leaves the old one.
UpdateStatus(k) ==
  /\ Step(k, "update", "publish")
  /\ LET call == calls[k] IN
       /\ Exists(call.user)
       /\ rows' = [rows EXCEPT
                     ![call.user].status = StatusOf(call),
                     ![call.user].ip = IF call.ip = None THEN @ ELSE call.ip]
  /\ UNCHANGED <<session, created, creating, told, excused>>

\* The row has gone, or the database fails: no event.
UpdateFails(k) ==
  /\ Answer(k, "update")
  /\ IF Exists(calls[k].user) THEN Excuse(calls[k].user, "fault")
                              ELSE UNCHANGED excused
  /\ UNCHANGED <<session, created, creating, rows, told>>

\* Mutant of Publish: an on-down callback has no event.
PublishUpOnly(k) ==
  /\ Answer(k, "publish")
  /\ told' = IF calls[k].ip = None THEN told
             ELSE [told EXCEPT ![calls[k].user] =
                     [status |-> "connected", ip |-> calls[k].ip]]
  /\ UNCHANGED <<session, created, creating, rows, excused>>

Publish(k) ==
  /\ Answer(k, "publish")
  /\ told' = [told EXCEPT ![calls[k].user] =
                [status |-> IF calls[k].ip = None THEN "disconnected"
                                                  ELSE "connected",
                 ip |-> calls[k].ip]]
  /\ UNCHANGED <<session, created, creating, rows, excused>>

\* A failure is only logged.
PublishFails(k) ==
  /\ Answer(k, "publish")
  /\ Excuse(calls[k].user, "fault")
  /\ UNCHANGED <<session, created, creating, rows, told>>

(***************************************************************************)
(* What CustomerService does to these columns.                             *)
(***************************************************************************)

\* A create inserts its row as active.
InsertRow(c) ==
  /\ c \notin created
  /\ created' = created \cup {c}
  /\ creating' = creating \cup {c}
  /\ rows' = [rows EXCEPT ![c] = [status |-> "active", ip |-> None]]
  /\ UNCHANGED <<session, calls, told, excused>>

\* The create ends by updating the row with every field it has set, the
\* status among them, if the row is there and the database does not fail.
\* (A create that is rolled back ends with DeleteRow.)
RecordID(c) ==
  /\ c \in creating
  /\ creating' = creating \ {c}
  /\ \/ /\ Exists(c)
        /\ rows' = [rows EXCEPT ![c].status = "active"]
        /\ IF rows' = rows THEN UNCHANGED excused ELSE Excuse(c, "create")
     \/ UNCHANGED <<rows, excused>>
  /\ UNCHANGED <<session, created, calls, told>>

DeleteRow(c) ==
  /\ Exists(c)
  /\ rows' = [rows EXCEPT ![c] = None]
  /\ UNCHANGED <<session, created, creating, calls, told, excused>>

-----------------------------------------------------------------------------

Router(k) == \E c \in Customers : SessionUp(k, c) \/ SessionDown(k, c)

Handler(k) ==
  FindUser(k) \/ UpdateStatus(k) \/ UpdateFails(k) \/ Publish(k) \/ PublishFails(k)

Service(c) == InsertRow(c) \/ RecordID(c) \/ DeleteRow(c)

Next ==
  \/ \E k \in Callbacks : Router(k) \/ Lost(k) \/ Handler(k)
  \/ \E c \in Customers : Service(c)

Spec == Init /\ [][Next]_vars

-----------------------------------------------------------------------------
(***************************************************************************)
(* Safety.                                                                 *)
(***************************************************************************)

\* The row of a customer that has been online shows its session, unless a
\* callback is on its way: without failures, two callbacks at the same time or a
\* create that ends after them, all of this customer.  Rows created or deleted
\* at any point, callbacks ignored for it, and whatever fails or overlaps for
\* other customers do not change that.
RowShowsSession ==
  \A c \in Customers :
    excused[c] = {} /\ Exists(c) /\ UnderWay(c) = {} /\ rows[c].ip # None =>
      /\ rows[c].status = "active" <=> session[c] # None
      /\ rows[c].status = "active" => rows[c].ip = session[c]

\* The event last published about a customer tells what its row says, so a
\* dashboard that follows the events agrees with one that is loaded now.
EventTellsRow ==
  \A c \in Customers :
    excused[c] = {} /\ Exists(c) /\ UnderWay(c) = {} /\ told[c] # None =>
      /\ told[c].status = "connected" <=> rows[c].status = "active"
      /\ told[c].status = "connected" => told[c].ip = rows[c].ip

\* getCustomerIPAddress for a PPPoE customer; no handler sets a static IP.
PingAddress(c) == rows[c].ip

\* A ping to a customer whose row says active goes to no other customer's
\* address: the router hands an address on only after an on-down callback, and
\* that has made the row inactive.  (The row of a customer that is offline
\* keeps an address that the router may have given to somebody else.)
OnlineIsReliable ==
  \A c, d \in Customers :
    /\ c # d
    /\ excused[c] = {} /\ Exists(c) /\ UnderWay(c) = {}
    /\ rows[c].status = "active" /\ PingAddress(c) # None
    => session[d] # PingAddress(c)

-----------------------------------------------------------------------------
(***************************************************************************)
(* Liveness.  A handler's goroutine goes on: the database and Redis answer *)
(* or fail.  The router and CustomerService need not do anything.          *)
(***************************************************************************)
FairSpec == Spec /\ \A k \in Callbacks : WF_vars(Handler(k))

\* A change of the session of a known customer is shown to the dashboards,
\* unless something failed or overlapped for it or the row is deleted.
CallbacksAreShown ==
  \A k \in Callbacks, c \in Customers, a \in MaybeAddress :
    calls[k] = [user |-> c, ip |-> a, at |-> "find"] /\ Exists(c) ~>
      \/ told[c] # None /\ told[c].ip = a
      \/ excused[c] # {} \/ ~Exists(c)

-----------------------------------------------------------------------------
(***************************************************************************)
(* What a comment says and the code does not do; it is refuted by a run.   *)
(***************************************************************************)

\* "DB holds AssignedIP which is reliable if callback works": a ping goes to
\* no address that another customer has.
AssignedIsReliable ==
  (\A k \in Callbacks : calls[k] = None) =>
    \A c, d \in Customers :
      c # d /\ excused[c] = {} /\ excused[d] = {} /\ Exists(c) /\ PingAddress(c) # None
        => session[d] # PingAddress(c)
=============================================================================
