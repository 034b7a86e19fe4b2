------------------------------- MODULE Dashboard -------------------------------
(***************************************************************************)
(* One browser page: the customer it has selected, the WebSocket that      *)
(* streams the customer's traffic, the events that say who is online, the  *)
(* timers those start, and the two requests of the page load, one for the  *)
(* sidebar's list and one for the customer of the page's address, whose    *)
(* answers come late or never.  Functions run to their end one at a time;  *)
(* what is between them is the order of clicks, answers, messages and      *)
(* timers.                                                                 *)
(*                                                                         *)
(* Of the server there is each customer's row, which callbacks and the     *)
(* ends of creations write, and the events: a callback publishes after its *)
(* write, so that events may come in another order than the writes, or not *)
(* at all, and the page misses them while it is not connected.             *)
(***************************************************************************)
EXTENDS Integers, Sequences, FiniteSets

CONSTANTS
  Customers,
  UrlCustomer,  \* the customer_id of the page's address
  Created,      \* customers whose creation ends while the page is open
  None,         \* nobody selected
  MaxChanges,   \* bound on writes of a status
  MaxClicks,    \* bound on clicks in the sidebar
  MaxDrops      \* bound on losses of the event WebSocket

Status == {"active", "inactive"}
Selection == [id : Customers, from : {"list", "url"}]

ASSUME DashboardAssumption ==
  /\ UrlCustomer \in Customers /\ Created \subseteq Customers
  /\ None \notin Customers \cup Status \cup Selection
  /\ MaxChanges \in Nat /\ MaxClicks \in Nat /\ MaxDrops \in Nat

VARIABLES
  status,     \* the server: the customers' rows
  creating,   \* customers whose creation has still to write their row
  unsent,     \* callbacks that have written a row, and not published it
  events,     \* pppoe_event messages on their way to the page
  ws,         \* whether the page is connected for events
  listAnswer, \* the request for the list
  urlAnswer,  \* the request for UrlCustomer: the status in the answer
  list,       \* the objects of the sidebar, or of the answer: their status
  own,        \* the object that the answer for UrlCustomer brought: its status
  selected,   \* selectedCustomerLocal: a customer of the sidebar or that answer
  streams,    \* the traffic WebSockets opened so far
  trafficWs,  \* the number of the one that the page refers to, or 0
  timers,     \* timers of connected events that have not fired
  clicks, changes, drops,  \* how often these have happened
  wrote,      \* history: the number of the last write to each row
  told,       \* history: that of the write which the last event is about
  stale,      \* history: objects that the last event about them did not reach
  excused     \* history: what has happened that may part stream and selection

serverVars == <<status, creating, unsent, changes, wrote, told>>
wsVars     == <<events, ws, drops>>
loadVars   == <<listAnswer, urlAnswer, clicks>>
objects    == <<list, own, selected>>
streamVars == <<streams, trafficWs, timers>>
history    == <<stale, excused>>
vars == <<serverVars, wsVars, loadVars, objects, streamVars, history>>

Write  == [n : 1 .. MaxChanges, id : Customers, status : Status]
Event  == [id : Customers, status : Status]
Stream == [to : Customers, open : BOOLEAN]

TypeOK ==
  /\ status \in [Customers -> Status] /\ creating \subseteq Created
  /\ unsent \subseteq Write
  /\ wrote \in [Customers -> 0 .. MaxChanges] /\ told \in [Customers -> 0 .. MaxChanges]
  /\ events \in Seq(Event) /\ Len(events) <= MaxChanges
  /\ ws \in BOOLEAN
  /\ listAnswer \in {"asked", "read", "done", "failed"}
  /\ urlAnswer \in Status \cup {"asked", "done"}
  /\ list \in [Customers -> Status]
  /\ own \in Status
  /\ selected \in Selection \cup {None}
  /\ streams \in Seq(Stream) /\ Len(streams) <= MaxClicks + MaxChanges + 1
  /\ trafficWs \in 0 .. Len(streams)
  /\ timers \in 0 .. MaxChanges
  /\ clicks \in 0 .. MaxClicks /\ changes \in 0 .. MaxChanges
  /\ drops \in 0 .. MaxDrops
  /\ stale \subseteq Selection
  /\ excused \subseteq {"timer", "late timer", "late answer"}

\* The page has asked for the list and for the customer of its address, and is
\* connecting for the events.
Init ==
  /\ status \in [Customers -> Status] /\ creating = Created
  /\ unsent = {}
  /\ wrote = [c \in Customers |-> 0] /\ told = [c \in Customers |-> 0]
  /\ events = <<>> /\ ws = FALSE
  /\ listAnswer = "asked" /\ list = [c \in Customers |-> "inactive"]
  /\ urlAnswer = "asked" /\ own = "inactive"
  /\ selected = None
  /\ streams = <<>> /\ trafficWs = 0 /\ timers = 0
  /\ clicks = 0 /\ changes = 0 /\ drops = 0
  /\ stale = {} /\ excused = {}

(***************************************************************************)
(* Helpers.                                                                *)
(***************************************************************************)
IsSelected(c) == selected # None /\ selected.id = c

\* selectedCustomerLocal.status
SelectedStatus ==
  IF selected = None THEN None
  ELSE IF selected.from = "list" THEN list[selected.id] ELSE own

\* Mutant of SetSelectedStatus: the object of the page's address is forgotten.
SetListStatus(s) ==
  IF selected.from = "list"
    THEN list' = [list EXCEPT ![selected.id] = s] /\ UNCHANGED own
    ELSE UNCHANGED <<list, own>>

SetSelectedStatus(s) ==
  IF selected.from = "list"
    THEN list' = [list EXCEPT ![selected.id] = s] /\ UNCHANGED own
    ELSE own' = s /\ UNCHANGED list

\* The page's objects about the customers of C; one is UrlCustomer's answer.
ObjectsOf(C) ==
  {o \in Selection : o.id \in C /\ (o.from = "url" => o.id = UrlCustomer)}

Open == {i \in DOMAIN streams : streams[i].open}

\* Mutant of Closed: close() is forgotten.
NotClosed == streams

\* The streams after trafficWs.close(), if there is one.
Closed == [i \in DOMAIN streams |->
             IF i = trafficWs THEN [streams[i] EXCEPT !.open = FALSE] ELSE streams[i]]

\* connectTrafficWebSocket
Connect(earlier, c) ==
  /\ streams' = Append(earlier, [to |-> c, open |-> TRUE])
  /\ trafficWs' = Len(earlier) + 1

Disconnect ==
  /\ streams' = Closed
  /\ trafficWs' = 0

Excuse(whys) == excused' = excused \cup whys

(***************************************************************************)
(* The server.                                                             *)
(***************************************************************************)

\* The row of c gets a status; writes are numbered.
SetRow(c, s) ==
  /\ changes < MaxChanges
  /\ changes' = changes + 1
  /\ status' = [status EXCEPT ![c] = s]
  /\ wrote' = [wrote EXCEPT ![c] = changes + 1]

\* UpdateCustomerStatus in a callback: on-up writes "active", on-down "inactive".
\* When it fails, nothing is written or published.
UpdateStatus(c) ==
  /\ \E s \in Status :
       /\ SetRow(c, s)
       /\ unsent' = unsent \cup {[n |-> changes + 1, id |-> c, status |-> s]}
  /\ UNCHANGED <<creating, told, wsVars, loadVars, objects, streamVars, history>>

\* The update that ends CreateCustomer writes the whole record, whose status is
\* "active", and tells nobody.
CreateEnds(c) ==
  /\ c \in creating
  /\ creating' = creating \ {c}
  /\ SetRow(c, "active")
  /\ UNCHANGED <<unsent, told, wsVars, loadVars, objects, streamVars, history>>

\* Publish, of whichever callback comes first; a page that is not connected misses
\* the event.
Publish(u) ==
  /\ unsent' = unsent \ {u}
  /\ told' = [told EXCEPT ![u.id] = u.n]
  /\ \/ /\ ws
        /\ events' = Append(events, [id |-> u.id, status |-> u.status])
        /\ UNCHANGED stale
     \/ /\ ~ws
        /\ stale' = stale \cup ObjectsOf({u.id})
        /\ UNCHANGED events
  /\ UNCHANGED <<status, creating, changes, wrote, ws, drops, loadVars, objects, streamVars,
                 excused>>

\* The callback cannot publish, and only says so in the log; or Redis or the relay
\* loses the event.
PublishFails(u) ==
  /\ unsent' = unsent \ {u}
  /\ UNCHANGED <<status, creating, changes, wrote, told, wsVars, loadVars, objects,
                 streamVars, history>>

\* GET /api/customers reads the rows; the answer is on its way.
AnswerList ==
  /\ listAnswer = "asked"
  /\ listAnswer' = "read"
  /\ list' = status
  /\ stale' = {o \in stale : o.from = "url"}
  /\ UNCHANGED <<serverVars, wsVars, urlAnswer, clicks, own, selected, streamVars, excused>>

\* GET /api/customers/:id reads the row; the answer is on its way.
AnswerUrl ==
  /\ urlAnswer = "asked"
  /\ urlAnswer' = status[UrlCustomer]
  /\ stale' = {o \in stale : o.from = "list"}
  /\ UNCHANGED <<serverVars, wsVars, listAnswer, clicks, objects, streamVars, excused>>

(***************************************************************************)
(* The page.                                                               *)
(***************************************************************************)

\* renderSidebarCustomers: from now on there is something to click on.
ListAnswered ==
  /\ listAnswer = "read"
  /\ listAnswer' = "done"
  /\ UNCHANGED <<serverVars, wsVars, urlAnswer, clicks, objects, streamVars, history>>

\* The sidebar stays empty; nothing asks again.
ListFails ==
  /\ listAnswer \in {"asked", "read"}
  /\ listAnswer' = "failed"
  /\ UNCHANGED <<serverVars, wsVars, urlAnswer, clicks, objects, streamVars, history>>

\* Mutant of SelectCustomer: the stream is replaced, but not given up.
SelectAndKeep(c) ==
  /\ listAnswer = "done" /\ clicks < MaxClicks
  /\ clicks' = clicks + 1
  /\ selected' = [id |-> c, from |-> "list"]
  /\ IF list[c] = "active" THEN Connect(Closed, c) ELSE UNCHANGED <<streams, trafficWs>>
  /\ UNCHANGED <<serverVars, wsVars, listAnswer, urlAnswer, list, own, timers, history>>

\* selectCustomer, by a click in the sidebar.
SelectCustomer(c) ==
  /\ listAnswer = "done" /\ clicks < MaxClicks
  /\ clicks' = clicks + 1
  /\ selected' = [id |-> c, from |-> "list"]
  /\ IF list[c] = "active" THEN Connect(Closed, c) ELSE Disconnect
  /\ UNCHANGED <<serverVars, wsVars, listAnswer, urlAnswer, list, own, timers, history>>

\* The answer for the customer of the page's address.
UrlAnswered ==
  /\ urlAnswer \in Status
  /\ urlAnswer' = "done"
  /\ own' = urlAnswer
  /\ selected' = [id |-> UrlCustomer, from |-> "url"]
  /\ IF urlAnswer = "active" THEN Connect(streams, UrlCustomer)
                             ELSE UNCHANGED <<streams, trafficWs>>
  /\ Excuse(IF selected = None THEN {} ELSE {"late answer"})
  /\ UNCHANGED <<serverVars, wsVars, listAnswer, clicks, list, timers, stale>>

\* No such customer, or no answer.
UrlFails ==
  /\ urlAnswer # "done"
  /\ urlAnswer' = "done"
  /\ UNCHANGED <<serverVars, wsVars, listAnswer, clicks, objects, streamVars, history>>

\* Mutant of UpdateSelected: a customer that comes online gets no stream.
OpenNothing(e) ==
  /\ SetSelectedStatus(e.status)
  /\ IF e.status = "inactive" THEN Disconnect ELSE UNCHANGED <<streams, trafficWs>>
  /\ UNCHANGED <<selected, timers>>

\* The event is about the selected customer.
UpdateSelected(e) ==
  /\ SetSelectedStatus(e.status)
  /\ \/ /\ e.status = "active"
        /\ timers' = timers + 1
        /\ UNCHANGED <<streams, trafficWs>>
     \/ /\ e.status = "inactive"
        /\ Disconnect
        /\ UNCHANGED timers
  /\ UNCHANGED selected

\* handlePPPoEEvent: of the objects only the selected one is updated; an event
\* about anybody else only recolours the sidebar.
HandlePPPoEEvent ==
  /\ ws /\ events # <<>>
  /\ events' = Tail(events)
  /\ LET e == Head(events) IN
       \/ /\ IsSelected(e.id)
          /\ UpdateSelected(e)
          /\ stale' = (stale \cup ObjectsOf({e.id})) \ {selected}
       \/ /\ ~IsSelected(e.id)
          /\ stale' = stale \cup ObjectsOf({e.id})
          /\ UNCHANGED <<objects, streamVars>>
  /\ UNCHANGED <<serverVars, ws, drops, loadVars, excused>>

\* Mutant of TimerFires: an interval in place of a timer.
TimerFiresAgain ==
  /\ timers > 0
  /\ Connect(streams, selected.id)
  /\ Excuse({"timer", "late timer"})
  /\ UNCHANGED <<serverVars, wsVars, loadVars, objects, timers, stale>>

\* The timer of a connected event: it opens the stream of whoever is selected
\* now, over one that may be open.
TimerFires ==
  /\ timers > 0
  /\ timers' = timers - 1
  /\ Connect(streams, selected.id)
  /\ Excuse((IF trafficWs \in Open THEN {"timer"} ELSE {})
            \cup (IF SelectedStatus = "inactive" THEN {"late timer"} ELSE {}))
  /\ UNCHANGED <<serverVars, wsVars, loadVars, objects, stale>>

\* The server says why it cannot stream, ends the stream, or the connection
\* breaks: onclose does nothing, and the page goes on referring to it.
StreamEnds(i) ==
  /\ i \in Open
  /\ streams' = [streams EXCEPT ![i].open = FALSE]
  /\ UNCHANGED <<serverVars, wsVars, loadVars, objects, trafficWs, timers, history>>

\* The event WebSocket is lost with what was on its way, and connected again
\* after three seconds.
WsCloses ==
  /\ ws /\ drops < MaxDrops
  /\ drops' = drops + 1
  /\ ws' = FALSE
  /\ events' = <<>>
  /\ stale' = stale \cup ObjectsOf({events[i].id : i \in DOMAIN events})
  /\ UNCHANGED <<serverVars, loadVars, objects, streamVars, excused>>

ConnectWebSocket ==
  /\ ~ws
  /\ ws' = TRUE
  /\ UNCHANGED <<serverVars, events, drops, loadVars, objects, streamVars, history>>

-----------------------------------------------------------------------------

Next ==
  \/ \E c \in Customers : UpdateStatus(c) \/ CreateEnds(c) \/ SelectCustomer(c)
  \/ \E u \in unsent : Publish(u) \/ PublishFails(u)
  \/ AnswerList \/ ListAnswered \/ ListFails
  \/ AnswerUrl \/ UrlAnswered \/ UrlFails
  \/ HandlePPPoEEvent \/ TimerFires
  \/ \E i \in DOMAIN streams : StreamEnds(i)
  \/ WsCloses \/ ConnectWebSocket

Spec == Init /\ [][Next]_vars

\* Timers fire; nothing else has to happen.
FairSpec == Spec /\ WF_vars(TimerFires)

-----------------------------------------------------------------------------
(***************************************************************************)
(* Safety.                                                                 *)
(***************************************************************************)

\* The stream that the page refers to is that of the selected customer, whatever
\* timers and events came between, and the customer is shown as online.  Two
\* things break this: an answer of the page load that comes after a click and
\* takes the selection away, and a timer that fires after its customer has gone
\* again or somebody else, who is offline, was selected.
StreamFollowsSelection ==
  trafficWs # 0 /\ "late answer" \notin excused =>
    /\ IsSelected(streams[trafficWs].to)
    /\ SelectedStatus = "active" \/ "late timer" \in excused

\* A stream that the page no longer refers to is closed, so that the server can
\* end its monitoring, and no error of it is shown under the name of somebody
\* else.  A timer that fires over an open stream and a late answer of the page
\* load are the only ways to leave one behind.
NoStreamLeftOpen ==
  excused \cap {"timer", "late answer"} = {} => Open \subseteq {trafficWs}

\* The page shows the selected customer as the server has it, once the events
\* on their way are handled, although answers, clicks and events come in any order.
\* It cannot when the last event about the customer is not about the last write to
\* its row: callbacks publish in another order than they write, a publish fails,
\* and the end of a creation publishes nothing.  And the sidebar's objects do not
\* learn of events about customers that are not selected, and nothing makes up for
\* events that are lost.
SelectedIsCurrent ==
  selected # None /\ selected \notin stale
    /\ told[selected.id] = wrote[selected.id]
    /\ (\A i \in DOMAIN events : events[i].id # selected.id) =>
       SelectedStatus = status[selected.id]

(***************************************************************************)
(* Liveness.                                                               *)
(***************************************************************************)

\* Whoever is selected and shown as online gets a stream: at once when selected,
\* after its timer when it came online.
OnlineIsStreamed ==
  selected # None /\ SelectedStatus = "active" ~>
    \/ SelectedStatus # "active"
    \/ trafficWs # 0 /\ streams[trafficWs].to = selected.id
=============================================================================
