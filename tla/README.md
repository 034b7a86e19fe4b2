# mikrotik-collector: TLA+ models, checks and proofs

mikrotik-collector is a Go service between browsers, a MikroTik router, a
PostgreSQL database and Redis: it keeps customers and their PPPoE secrets,
streams a customer's traffic on demand, pings customers, and broadcasts PPPoE
events. This directory holds TLA+ modules of its concurrent parts and of the page
that uses them, TLC configurations that check them on small instances, and TLAPS
proofs of their safety properties for instances of any size.

    tlc -config TrafficMonitorSafety.cfg MCTrafficMonitor.tla     # any run of PROJECT.json
    tlapm TrafficMonitorProofs.tla     # also BroadcastHubProofs, CustomerSyncProofs,
                                       # PPPoEEventsProofs, MikrotikClientProofs,
                                       # PingStreamProofs, DashboardProofs

## 1. Inventory

| component | source | state | module |
|---|---|---|---|
| on-demand traffic monitoring | `on_demand_traffic_service.go`, `traffic_monitor_handler.go`, `monitor.go` | `activeMonitors` (clients, observers, restart count, context), `monitorLocks`, subscription channels, loops, pumps | `TrafficMonitor`, `TrafficFeeds` |
| broadcast hub | `websocket_handler.go`, subscriber in `main.go` | `clients`, `clientsMu`, broadcast channel, connections | `BroadcastHub`, `EventFeed` |
| customer management | `customer_service.go`, `customer_handler.go`, `customer_repository.go`, `pppoe.go` | customers table, `/ppp/secret` on the router, local variables of requests | `CustomerSync` |
| PPPoE callbacks | `callback_handler.go`, `UpdateCustomerStatus` | status and assigned_ip columns, last events | `PPPoEEvents` |
| MikroTik client | `client.go`, retries in `monitor.go` and `ping_stream.go` | the shared connection, commands on the wire | `MikrotikClient`, `RouterCalls` |
| ping | `ping_handler.go`, `ping_stream.go`, dialog in `dashboard.js` | sockets, counts of both sides, reply channel, contexts | `PingStream`; the address in `PPPoEEvents` |
| dashboard script | `frontend/js/dashboard.js` | selection, sidebar, sockets, timers | `Dashboard`, `PingStream` |
| Redis stream consumer | `redis_stream_consumer.go` | consumer group position, pending records | not modelled |
| interface names | `GetInterfaceNameForCustomer`, `extractPPPoEUsername` | none (pure) | not modelled |
| wiring, config, pages, schema, test program | `routes/`, `middleware/`, `config.go`, `main.go`, `database.go`, `views/`, `migrations/`, `test/` | none of their own | not modelled |

How they interact. A browser's `/api/customers/:id/traffic/ws` request calls
`StartMonitoring`, which starts a loop that reads a router stream through the
MikroTik client and writes to the subscribers' channels. `CustomerService` and
`CallbackHandler` write to the same table; callbacks publish to the Redis channel
`mikrotik:events`, which `main` forwards to the hub, which writes to every `/ws`
browser; the dashboard then opens or closes traffic streams. Pings take their
address from the row that callbacks write. All router commands share one
connection.

What is hard, and what makes each part correct:

* **Monitoring.** Two mutexes, five kinds of goroutine, and lookups by customer id
  after unlocking. Correct means: one live loop per registered monitor, readers
  always wake, no channel is closed twice, clients are counted right, and what
  nobody watches is released.
* **Hub.** A read lock dropped and retaken in the middle of a `range` over the map,
  blocking writes under a lock. Correct means: a gapless stream for every
  registered browser, no write to a connection its handler has closed, and every
  handler ends.
* **Customers.** Two stores, no transaction, no lock, errors ignored. Correct means:
  the router has exactly the secrets the database calls for, ids are never mixed
  up, and what is deleted stays deleted.
* **Callbacks.** Unordered, lossy notifications applied in three steps. Correct
  means: rows show sessions, and events tell what the rows say.
* **Router connection.** A pointer that goroutines share and replace without a lock,
  commands repeated without knowing whether they were executed. Correct means: no
  connection is left open and forgotten, a retry succeeds where it can, and a
  command takes effect no more often than its caller must expect.
* **Ping.** One dialog, many sockets, and statistics that two programs count.
  Correct means: no ping goes on unseen, the numbers are those of the lines, and
  every goroutine ends.
* **Dashboard.** Clicks, answers, events and timers in any order. Correct means: the
  stream on the screen is that of the customer on the screen, streams are closed
  when left, and the status shown is the server's.

`PROJECT.json` lists under `hazards` the places where these can go wrong, with the
properties that cover them. Three have none: two are about state that nothing in
the code limits or removes, and one about names that the models do not have.

## 2. The modules

Every action is one step between two points where another goroutine, or another
store, can be seen: a critical section, a channel operation, one call to the
database, the router or Redis; in the page, one function run by the browser's event
loop. What happens up to the next such point belongs to the action. `PROJECT.json`
maps each definition to its lines. Definitions called "Mutant of X" state a
plausible bug; no specification uses them.

Several safety properties do not hold of the code without exception. The models then
record in a history variable, `excused`, that the exception has happened, at the
step that brings it about, and the property says what holds without it. Each module's
comments name its excuses; they are what the code does nothing about. Many of them are
the very hazards that `PROJECT.json` lists. Then the harm itself is in the model, and
no property forbids it, because the code does not prevent it: what the property shows
is that this step is the only one that does such harm. The `note` of each of these
hazards says so. They are: the pump of a cancelled monitor; a changed kind of service;
overlapping callbacks, failed publications and the status that the end of a create
writes back; reconnects that overlap; the pump of a ping whose write failed; the late
close event of a ping and the replies counted differently; the late timer, the late
answer and the missed events of the dashboard.

### TrafficMonitor, TrafficFeeds

A *session* is one WebSocket request; it owns at most one channel and creates at
most one monitor, so it also names those. `pc` is the handler: `start`
(StartMonitoring up to the map lookup), `fetch` (database and router), `add`
(addObserver), `stream`, `stop` (the deferred StopMonitoring). `loop` is
runMonitorLoop (`top`, `check`, `listen`, `process`), `pump` the goroutine of
MonitorTraffic (`select`, `send`). `lockHolder` is the customer's mutex, which is
held across slow calls; `s.mu` is never held across anything that blocks and is
therefore the atomicity of actions. Samples are counted, not looked into.
`panicked` ends every behaviour: closing a closed channel in a goroutine without
`recover` ends the process. The `:id` of a request is taken to be spelled as the API
gave it: the locks and the lookup go by the address, the registry by the row's id, and
another spelling of one UUID would have a lock of its own.

`TrafficFeeds` is the abstract specification: monitoring is on or off per customer,
a sample reaches exactly the customer's open feeds that have room, and switching
off ends all feeds in one step. `TrafficMonitor` implements it with `running` =
"a monitor is registered", `feed` = the channels, `buffered` = their lengths.

### BroadcastHub

`Publish`, `Forward` and `Receive` are the path of an event from Redis through the
client's bounded channel and the unbuffered broadcast channel. The Broadcaster is
`receive`, `range`, `write`, `drop`; `RLocked` (a state function) is its read lock.
The `range` over a Go map is `due` and `visited`: an entry that exists throughout is
reached exactly once, one deleted before it is reached never, one added meanwhile
perhaps. A handler is `register`, `reading`, `unregister`, `close`. The browser may
stall (the write blocks) and recover, or break.

`EventFeed` is the abstract specification: a log of events, members that are sent each
event once while it is the last, and no further event before every member has it, but
for those that joined after it. There are no goroutines, locks or buffers in it, and no
`range`: that a map is iterated while entries come and go must not show. `BroadcastHub`
implements it with `log` = `taken`, `members` = the registered connections that are not
closed, `seen` = `written` and `since` = `joinedAt`. A browser that joins in the middle
of a range may or may not get the event of that range, in the code and in the model.

### CustomerSync

Requests are at `insert`, `add`, `rollback`, `record` (create), `write`, `find`, `set`
(update), `remove`, `erase` (delete; also `find`). Each step is one call and may
fail: a failing database call has no effect, a failing router call may have had
one. A row keeps the user name, whether the service is PPPoE, and `mikrotik_id`; a
secret keeps its name and whose credentials it holds. An update may leave the user
name out (`None`, and the row keeps its own), or send an empty one (`Blank`): then the
row is blanked, since GORM skips only what is nil, and the secret keeps its name,
since only fields that are not empty are sent to the router. A password that is left
out or empty is not sent either. A row that is blank has no secret found for it, so
that a later update that gives it a name again does not tell the router.

Excuses: `disturbed` (a failed call, two requests for one customer at once, a changed
kind of service), `refused` (the router refuses an update, for its name or because the
secret is gone), `skipped` (an update has given a name to a row that had none, and has
left the router alone). `Calm` allows the last two: which secrets exist does not depend
on names, but which names they have does.

Assumptions: customer ids are new UUIDs and the router never reuses secret ids (so
a secret may be named after the customer it was made for); the router refuses a
second secret of the same name; the table has the columns of
`domain.Customer` (the migration calls one of them `hotspot_mac_address`, the struct
`hotspot_mac_addr`) and starts without the migration's sample rows. Requests refused
before they change anything, and pure reads, are left out.

### PPPoEEvents

The router gives sessions addresses from a pool, no address twice at a time, and
runs one callback for each start and end. A callback is at `find`, `update` or
`publish`. CustomerService appears as the three writes it makes to the same
columns: a new row is `active`, the update that records the MikroTik ID writes the
status again, a delete removes the row. `told` is the last event published about a
customer. Excuses, kept per customer, so that what goes wrong for one excuses nothing
about another: a failed step (`fault`), two callbacks of one customer at once
(`overlap`), a create that overwrote a status (`create`). A customer is its user name
here: renames are `CustomerSync`'s, and a session that goes on under an old name is
outside this module.

### MikrotikClient, RouterCalls

A *call* is one command sent to the router: by `Run`, which sends it again after a
reconnect (`Runners`), by the two functions that start a stream and do the same
(`Listeners`), or by the embedded client directly, which never reconnects (`Plain`:
the secret commands and the one-shot ping). A call is `sent`, and after a connection
error at `close`, `dial`, `store` and `resend`. Connections are numbered in the order
of their dials. Nothing locks the pointer `current`; its store is one step, reads of it
are part of the step that uses it. Commands on a `wire` may be executed after the
caller has been told that they failed: the `routeros` library and the router are external.
Excuses: `break` (the first), `setback` (a second break, a dial that fails, an error
that `isConnectionError` does not know, a reconnect that closes a connection another
call has just made). `raced` records the calls that were reconnecting when another one
stored its connection: only these can leave a connection behind.

`RouterCalls` is what the rest of the program may build on: success means that the
command was executed, failure means nothing, and only commands of `Run` are ever
executed twice. `CustomerSync`'s router calls behave like this: each is one `Plain`
call, of which a failing one may have had its effect. `TrafficMonitor`'s `Listen` and
`ListenFails` are the outcomes `streaming` and `failed` of a listener.

### PingStream

The page has one dialog and opens a new WebSocket for every ping; `onmessage` and
`onclose` of all of them act on the same variables (`isPinging`, `lines`, `summary`).
Each ping has a handler (`lookup`, `listen`, `range`, `write`), a `reader` that cancels
the context when the browser goes, and a `pump` (`select`, `send`). `stats` and `lines`
are the counts of handler and page, which follow different rules for some replies: a
timeout that carries the total "received", and a reply with a number and nothing else
(`disputed`). Excuses: `late close` (the close event of an earlier ping arrives after a
new one has started), `disputed` (such a reply). `abandoned` records the pumps whose
handler has left its loop on a failed write: such a pump may stay at its send for ever.

### Dashboard

`status`, `creating` and `unsent` are the server's side. A callback writes the row
(`UpdateStatus`) and publishes in a later step (`Publish`), after other callbacks or
before them, or never (`PublishFails`, which also stands for what Redis and the relay
lose); the end of a create writes the row, too, and publishes nothing (`CreateEnds`,
once for each customer of `Created`). `events` are on their way to the page, which
misses them while it is not connected (`ws`).

The page loads with two requests under way, and connects for events meanwhile. The
sidebar's objects (`list`, to be clicked on once `listAnswer` is `done`) and the object
that the request for the page's address brings (`own`, until then `urlAnswer`) are
different objects about the same customers, both with the rows of when the request was
served. An event updates only the selected one; `stale` records which objects, also
those still in an answer, have missed the last event about them. `wrote` and `told`
number the last write to a row and the write that the last event is about: where they
differ the page cannot know better. `streams` are all traffic WebSockets ever opened,
`trafficWs` the one the page refers to. Excuses: `timer` (a connected event's timer
fires while a stream is open, which is then left behind), `late timer` (it fires when
the selected customer is offline), `late answer` (the answer of the page load replaces
a selection). A stream that the server ends is not reopened until the next click or
event; the model has this (`StreamEnds` leaves `trafficWs` alone), and the properties
allow it. Failed updates of a row change nothing and are left out; so are deleted and
renamed customers, of whom the page is not told.

### How they fit together

`PPPoEEvents!Publish` is `BroadcastHub!Publish` seen from the publisher; the browser of a
hub connection is a page of `Dashboard`, whose `Publish` is that of both, with the way
through the hub cut short, and whose `WsCloses` is the hub's `PeerChanges`; `Dashboard`'s
`UpdateStatus` and `CreateEnds` are `UpdateStatus` and `RecordID` of `PPPoEEvents`. `InsertRow`, `RecordID` and `DeleteRow` of
`PPPoEEvents` are `CustomerSync`'s `Insert`, `Record` and `Erase`/`Rollback` reduced to the
columns that callbacks write. A stream of `Dashboard` is a session of `TrafficMonitor`,
whose `PeerLeaves` is the page's closing of it. TrafficMonitor meets the others
only through the database lookup and router calls in `fetch`, whose results it
leaves open.

## 3. The runs

Bounds are constants: sessions, connections, requests, calls, pings and callbacks are
finite sets, each session, connection, call, ping and create happens once;
`MaxRestarts`, `BufCap`, `InboxCap`, `MaxEvents`, `MaxReplies`, `MaxChanges`, `MaxClicks`
and `MaxDrops` are the rest.

| run | question | instance |
|---|---|---|
| `traffic_safety` | safety, and does the service implement TrafficFeeds? | 3 sessions over 2 customers, 1 restart, 1 sample of room: 1,339,182 states |
| `traffic_liveness` | are starts answered, departures noticed, monitors and their loops released? | 2 sessions of one customer: 22,828 states |
| `hub` | the map and the lock; is it an EventFeed? do events arrive, do broken connections end? | 2 connections, 2 events, inbox of 1: 13,722 states |
| `sync_safety` | rows, secrets and their names under overlap and failure | 2 customers, 2 requests, 2 names and the empty one: 1,886,594 states |
| `events` | rows, sessions and events under overlap and failure; are changes shown? | 1 customer, 3 callbacks, 2 addresses: 235,187 states |
| `client` | connections, retries and their effects; do calls return? | a runner, a listener and a plain call: 176,733 states |
| `ping` | display, counts and pumps; do pings end? | 2 pings, the first of two replies, the second of one: 709,648 states |
| `dashboard` | streams, selection and status; is who is online streamed? | 2 customers, one just created, 2 status writes, 2 clicks, 1 drop: 997,980 states |

(State counts are up to symmetry where a run uses it. Liveness is checked without.)

Why this is enough to meet the interesting cases. *Traffic:* three sessions, two of one
customer, let one tear down and one start anew or be left over; one restart reaches
the limit; a buffer of one is full and empty; a second customer shows that samples and
ends do not spread. *Hub:* two connections let one be dropped or leave while the other is
written to, an inbox of one overflows at once. *Sync:* two requests on one customer are
every pairwise overlap, two customers and two names are what a conflict, a rename and a
mix-up of secrets need. *Events:* three callbacks of a customer overtake each other, the
addresses change. *Client:* three calls of three kinds meet on one connection and
reconnect at once; a call dials once at most. *Ping:* two pings are what a late close
event needs; two replies let one be taken, and wait at the pump's send, while the
handler writes the other, fails and leaves its loop; the second ping can do with one.
*Dashboard:* two writes are published in either order, one of them or none; a timer is
overtaken by an end; a create writes over a callback; two clicks leave and come back. The safety properties are proved for all sizes, so that here the bounds
matter to the liveness properties and to the mutants, not to the invariants.

What the safety properties say:

* `RegistryMatchesLoops`, `ReadersAreObserved`, `ObserversAreOpen`, `ClientsAreCounted`,
  `PumpHasReader`: registered monitors and live loops are the same; a handler on an
  open channel is an observer of the registered monitor; observers are open; client
  counts never exceed the requests that will decrement them; a pump has a reader.
  `PanicsAreLateCleanups` narrows down what `traffic_no_panic` refutes: the only step that
  ever closes a closed channel is the cleanup goroutine of a request whose monitor has
  been torn down and succeeded by another.
* `TargetIsRegistered`, `ClientsMatchHandlers`, `DeliveredInOrder`, `NobodyFallsBehind`:
  writes go to registered open connections; the map is the set of reading handlers;
  each browser sees a contiguous piece of the stream, and all of it since it joined.
  `ImplementsEventFeed` says the same as a specification, with the order of broadcasts,
  deliveries, joins and leaves.
* `IdsAreOwn`, `DeletedStaysDeleted` hold whatever fails and overlaps;
  `RouterMatchesDatabase` holds while nothing is excused, including after every
  refused name and every renamed customer. `SecretsFollowRows`: unless the router has
  refused an update or has not been told of one, secrets carry their own customers'
  credentials, and the row's name if it has one, although a rename is written to the row
  first and the secret looked for by its old name.
* `RowShowsSession`, `EventTellsRow`: undisturbed, row, session and last event agree.
* `HarmIsOverlap`, `ReconnectHelps`, `ImplementsRouterCalls`: always, a healthy connection
  is closed only by a call that failed on another one, and forgotten only when a call
  stores its own although another has stored one since; without a setback no call that
  retries fails and the program is not left with a closed connection; and always,
  commands are executed no more often than RouterCalls allows.
* `PingCanBeStopped`, `SummaryMatchesLines`, `StatisticsAreFinal`: an open ping is the
  dialog's and can be stopped; the statistics are those of the lines; once shown they
  stay. `DeparturesEndPings`, a liveness property: when its browser has gone, the handler
  ends, and so does the pump, but for one that a failed write has abandoned.
* `StreamFollowsSelection`, `NoStreamLeftOpen`, `SelectedIsCurrent`: the stream is that of
  the selected customer, streams left are closed, the status shown is the server's if
  the last event is about the last write and has reached the object shown.

### Fairness

Goroutines run: weak fairness of every handler, loop, pump, broadcaster, forwarder and
call, since the calls they wait for return with a result or an error. More is
assumed where the code's scheduling gives more: a `select` with several ready cases
picks at random, so a cancelled context is seen (a conjunct of its own for
`ProcessCancelled`, strong fairness of `PumpExits` among the replies of a ping); the
router keeps sending named samples and a write to a dead connection fails in the end
(strong fairness of `PublishSample` and `WriteFails`); `sync.RWMutex` lets a waiting
writer go before later readers (strong fairness of `Register` and `Unregister`); a
browser that keeps reading drains its buffers (strong fairness of `Write`). A request
takes its customer's mutex at most twice, so weak fairness is enough there. The router
executes what it receives on a connection that stays open (`client`); in the page,
timers fire (`dashboard`), and nothing else has to happen. Nothing is assumed of browsers that come or go, of users, publishers,
breaks or the router's sessions; the hub's liveness is stated under `NobodyStalls`.

### Where code and comments disagree

Each of these runs refutes one property that states a comment or document of the
repository; `findings` quotes it.

| run | what TLC shows |
|---|---|
| `traffic_no_panic` | a cleanup goroutine closes a channel that a teardown has already closed, once the customer has a new monitor |
| `hub_stalled` | one browser that stops reading keeps events from all others |
| `sync_secrets` | after a rename that the router refused, an update overwrites another customer's secret |
| `events_reliable` | an offline customer's `assigned_ip` is somebody else's address |

The invariants are stated so that they allow what else the code does, which a reader
may not expect: a request left over from a monitor that gave up is counted off the
customer's next monitor (`ClientsAreCounted` has `1 ..` the number of requests, not
equality); a cancelled loop may count a restart against the next monitor
(`CountRestart`); the pump of a cancelled monitor, or of a ping whose write failed, may
block for ever on its send (`PumpHasReader`, `DeparturesEndPings`); a user name the router
refused stays in the row (`RouterMatchesDatabase` compares existence, not names); a
secret outlives a customer whose service was changed (`disturbed`); a customer whose
user name is blanked keeps a secret that no later update finds (`skipped`); the end
of a create overwrites the status that a callback has written; two calls that
reconnect at once leave a connection open that nobody refers to, and one may close the
connection that the other has just made; a late reconnect makes a command fail on a
healthy connection; a second start of a ping can be declared ended by the close event
of the first; a timer can open a second traffic stream over the first, which then
stays open until the page is left.

## 4. The proofs

Every safety property that a run checks, and the three refinements, are theorems for
any values of the constants that the modules' `ASSUME`s allow. Each detailed module's
`TypeOK` is part of one, too, though only two runs repeat it; where a type invariant is
proved together with how the counts and the places of its values belong together, the
theorem states these as well. Some theorems state what no run does: `NoneRunsForNobody`
and `LoneRequestsNeverPanic` (monitoring), `StreamCorrect` (hub), `OnlineCorrect`
(callbacks), `DeparturesHeard` (ping), and the `TypeCorrect` of `MikrotikClientProofs`,
`PingStreamProofs`, `DashboardProofs` and `BroadcastHubProofs`.

**TrafficMonitorProofs** (any finite set of sessions, any customers, restart limit and
channel capacity). `TypeCorrect` stands alone. The safety invariants are proved
together through `IndInv`, because none is inductive: `RegistryMatchesLoops` needs to
know that no monitor can appear between the map lookup and the registration, which is
`LockProtectsStart` (a request is between the two exactly while it holds the lock, and
during `fetch` nothing is registered); everything indexed by customer needs
`FiledByCustomer`; and a fresh session must not yet have a channel, a loop or a cancelled
context (`StartedInOrder`). `ClientsAreCounted` compares a count with a cardinality, so it
needs finite sessions and the lemma `CountedSizes`. Each conjunct has a step lemma with
one case per action; `QuietSession` and `QuietMonitor` deal with the actions that leave
the registry alone. `Implementation` maps every step to a step of TrafficFeeds or a
stutter, from the same invariant. `NoneRunsForNobody` draws the conclusion: one live loop
per customer at most, none without a request that will stop it, and one for every
request that waits. `PanicsCorrect` needs one more invariant, `ClosedIsSucceeded` (a
request whose channel was closed under it is not the one that created the registered
monitor), and shows, action by action, that only a late cleanup can panic. From it
follows `LoneRequestsNeverPanic`, when no customer is watched by two requests, because
the successor's creator is another request for the same customer.

**BroadcastHubProofs** (any connections, number of events and capacity). `TypeInv` adds
to the types that the events on their way and those taken are no more than were
published (`NothingInvented`) and that the Broadcaster holds one while it works
(`LoopHasEvent`); `TypeCorrect` states all three. `LockInv` says who has closed what: with it `TargetIsRegistered` and
`ClientsMatchHandlers` are inductive, because a handler cannot unregister while the read
lock is held. `ProgressInv` is the heart: in the middle of a range, a connection has got
every event up to the last but one, and the current one too once it has been visited
(`Reached`, `UpToDate`), and what it got is one piece of the stream (`PieceInv`).
`DeliveredInOrder` and `NobodyFallsBehind` follow. `StreamInv` says that events keep their
order from Redis to the Broadcaster (`StreamCorrect`), `JoinedInv` that nobody joined
after the last one; with them (`FeedInv`) every step is one of EventFeed or a stutter
(`Implementation`). The step that needs most is `Receive`: the next event may be taken
only because the range has come past everybody it owed the last one (`PastHasLast`).

**CustomerSyncProofs** (any customers, requests and names). `SyncTypes`, `IdsCorrect` and
`DeletedCorrect` rest on `RequestsKnow` (what a request's local variables hold at each
step) and hold without any excuse. `RouterCorrect` needs more: while nothing is
excused, requests have their customers to themselves (`OneAtATime`), each finds its
customer as its last step left it (`FoundAsLeft`), unused ids are clean and customers
nobody is working on are settled. The lemma `Frame` says that a step about one
customer keeps all this for the others; each action then only has to establish it
for its own. The one action that can touch another customer's secret, `SetSecret`,
does not change which secrets exist, which is all the invariant says of them.
`SecretsCorrect` is about what that leaves out. It rests on the router's unique names
(`UniqueNames`, assumed of the router and so only a lemma), and on `FollowInv`: a row and
its secret have one name, or the row none (`Agrees`), but between an update's write of the
row and its call of the router, when the request itself still knows the old name
(`Leaves`). The step to see is again `SetSecret`: the secret found by name is the
customer's own because no other can have that name.

**PPPoEEventsProofs** (any customers, callbacks and addresses). `RowInv` adds to the two
properties what a create under way has left in its row (`CreatedInv`) and, while nothing
is excused, what a callback under way knows: the session as its notification found it
(`CallInv`), and after its update the row it has written (`Written`). `AnswerStep` says
what the end of a callback keeps, and `StepFrame` what its steps before that keep.
Excuses are the customer's own, so the theorems hold for each customer whatever happens
to the others. `OnlineCorrect` combines `RowShowsSession` with the router's distinct
addresses (`DistinctInv`): the address of a row that says active is no other customer's,
which is the part of the comment that `events_reliable` refutes that does hold.

**MikrotikClientProofs** (any finite set of calls). `TypeCorrect` states `CountInv`, which
has the counting: the dials made are the calls that have dialled (`DialInv`), so that
connections do not run out, and what the router has executed of a call and what is on a
wire is no more than the times it was sent (`WireInv`). `HealthInv` adds what a call
that reconnects knows of the connection it failed on (`FailedInv`), that the current
connection is closed while one reconnects unless another has stored its own since
(`RaceInv`), and what holds until the first break and after it (`FirstInv`);
`HarmIsOverlap` and `ReconnectHelps` follow. `Implementation` maps each step to
RouterCalls.

**PingStreamProofs** (any pings and number of replies). The invariant says of each ping
(`Local`) at which stage handler, pump and socket stand to each other, that nothing
follows the last message, and that every reply is in exactly one place: with the pump,
with the handler, among the messages on their way (counted by `Count`, with lemmas for
`Append` and `Tail`) or among the lines. `TypeCorrect` states the stages and that neither
side counts more than the router has sent, what is on its way included (`Bound`). `Agree` and `Tallied` equate the two programs'
counts, which makes a summary match the lines when it arrives. `Frame` and `Aside` deal
with the pings that a step leaves alone, or whose socket it closes. `FinalCorrect`, an
action property, needs `ShownAtEnd` (a running ping has no statistics yet) and that the
handlers have nothing more to say to a display that has stopped (`Silent`).
`DeparturesHeard` is the safety half of `DeparturesEndPings`: whoever has to move for a
ping to end after its browser has gone can do so without another reply, since the
reader listens until the context is cancelled (`Listened`), and a handler that is done
has left the pump alone only when a write failed (`Left`).

**DashboardProofs** (any customers, clicks, writes and drops). `TypeCorrect` says that
streams are owed to clicks, to writes whose events were published and to the page load
(`CountOK`, which needs the cardinality of `unsent`), that nobody selected means no timers
and no streams (`NobodyInv`), and that what is still to be published about the last write
to a row is what the row says (`ServerOK`); over it `NoStreamLeftOpen` and
`StreamFollowsSelection` are inductive as they stand. `SelectedIsCurrent` needs
`CurrentInv`: of customers whose last write was published last (`Agreed`), the last event
in flight tells the row (`EventInv`), and every object that has missed no event, the
answers still on their way included, has the row's value unless an event about it is in
flight (`ValueInv`, `UrlInv`).

Only model-checked: the properties under fairness (`StartsAreAnswered`,
`DeparturesAreNoticed`, `MonitorsAreReleased`, `EventsReachClients`, `BrokenConnectionsEnd`,
`CallbacksAreShown`, `CallsReturn`, `DeparturesEndPings`, `OnlineIsStreamed`), because the
prover has no rule for ENABLED, and the four refutations.

## 5. Not modelled

* **Redis stream consumer.** `redis_stream_consumer.go` reads and acknowledges traffic
  records, and `TRAFFIC_MONITOR_README.md` describes it, but nothing creates or starts
  it: it has no behaviour in this program. Writing samples to the stream
  (`PublishStream`) changes nothing the program reads.
* **Names.** `GetInterfaceNameForCustomer` and `extractPPPoEUsername` cut and join strings;
  their outcome, an interface or an error, is left open in `TrafficMonitor`. A monitor
  keeps the interface it started with, which shows only as a stream that ends.
* **The limit of concurrent monitors** is read from the environment and used nowhere.
* **Percentages, rates, round-trip times, JSON.** With nothing sent, the handler reports
  a loss of 100 % and the page one of 0 %; both are formatting of the counts that
  `SummaryMatchesLines` compares.
* **Rendering, search, styles, pages, forms, routes, middleware, configuration, startup**
  have no state that anything else depends on. The dashboard's statistics are two
  numbers asked for every five seconds.
* **Torn pointers.** The race on `Client.Client` is modelled as atomic loads and stores
  of a pointer, which is what the supported platforms produce; between them anything
  may happen.
* **Crashes** lose all the in-memory state at once and leave database and router as they
  are. For `CustomerSync` this is a request that stops after any of its calls; the model
  has a failing call at each of those places, but not the request that simply ends
  there.

## 6. Plan

What could follow, most useful first:

1. `CustomerDirectory`: the sequential promise of CustomerSync (a set of customers, one
   step per request) as an abstract specification, for a single request at a time;
   requests that end between two of their calls.
2. `Dashboard` over `BroadcastHub`: the page's event socket as a connection of the hub, so
   that `EventsReachClients` and `OnlineIsStreamed` combine to one statement from Redis to
   the screen.
3. A restart loop of `TrafficMonitor` over `MikrotikClient`'s listeners, to relate
   the restart limit to breaks of the shared connection.
